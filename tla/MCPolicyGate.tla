---------------------------- MODULE MCPolicyGate -----------------------------
(***************************************************************************)
(* An account that either of two tenants may come to own.  The first       *)
(* tenant is granted one channel for a short time under one revision, and  *)
(* both channels for longer under the other.  Approvals and administration *)
(* requests are each interchangeable.                                      *)
(***************************************************************************)
EXTENDS PolicyGate, TLC

CONSTANTS o1, o2, t1, t2

Asked(o, channels, revision, expires) ==
    [org |-> o, channels |-> channels, categories |-> {"message_text"},
     operations |-> {"draft"}, terms |-> revision, expires |-> expires]

OwnerGrants ==
    {Asked(o1, {"mtproto_user"}, t1, 1), Asked(o1, {"mtproto_user", "bot_api"}, t2, 2)}

Symmetry == Permutations(Approvals) \cup Permutations(Writers)
=============================================================================
