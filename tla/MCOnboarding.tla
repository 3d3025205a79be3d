----------------------------- MODULE MCOnboarding -----------------------------
(***************************************************************************)
(* Two owners of different organizations and two Telegram users; requests, *)
(* ciphertext ids and users are each interchangeable.                      *)
(***************************************************************************)
EXTENDS Onboarding, TLC

CONSTANTS a, b, oa, ob

Organizations == (a :> oa) @@ (b :> ob)

\* The tenants change places.
Swap == [x \in {a, b, oa, ob} |->
            CASE x = a -> b [] x = b -> a [] x = oa -> ob [] x = ob -> oa]

Symmetry == Permutations(Jobs) \cup Permutations(Keys) \cup Permutations(Identities) \cup {Swap}
            \cup Permutations(Phones) \cup Permutations(Qrs) \cup Permutations(Tickets)
=============================================================================
