-------------------------- MODULE MCProxyAssignment --------------------------
(***************************************************************************)
(* Two accounts of two tenants that share proxies: a shared proxy grows    *)
(* and shrinks, and the first tenant makes defaults of its own.  Workers   *)
(* are interchangeable.                                                    *)
(***************************************************************************)
EXTENDS ProxyAssignment, TLC

CONSTANTS a1, a2, o1, o2

TwoTenants == (a1 :> o1) @@ (a2 :> o2)

Puts == {[org |-> Global, capacity |-> 1, default |-> TRUE],
         [org |-> Global, capacity |-> 2, default |-> FALSE],
         [org |-> o1, capacity |-> 1, default |-> TRUE]}

Symmetry == Permutations(Workers)
=============================================================================
