---------------------------- MODULE MCStaffAccess ----------------------------
(***************************************************************************)
(* Two tenants are provisioned with their owners; whoever of the addresses *)
(* is free may be invited.  API processes and session ids are each         *)
(* interchangeable.                                                        *)
(***************************************************************************)
EXTENDS StaffAccess, TLC

CONSTANTS u1, u2, o1, o2, n1, n2

Tenants == {<<u1, o1, n1>>, <<u2, o2, n2>>}
Tenant == {<<u1, o1, n1>>}

Symmetry == Permutations(Workers) \cup Permutations(Sessions)
=============================================================================
