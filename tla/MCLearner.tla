------------------------------ MODULE MCLearner ------------------------------
(***************************************************************************)
(* Small instances of LearnerFlow.                                         *)
(***************************************************************************)
EXTENDS LearnerFlow, TLC

CONSTANTS m1, m2, m3, k1, k2, d1, d2

TwoPaths == <<<<m1>>, <<m2, m3>>>>

\* A public identity with what it publishes, and a list to follow.
Publishing == m1 :> "nostr-identity" @@ m2 :> "nostr-publish" @@ m3 :> "nostr-follow"

\* A lesson to read, and a seed phrase with what is derived from it.
Deriving == m1 :> "knowledge" @@ m2 :> "seed-words" @@ m3 :> "derive-address"

Symmetry == Permutations({d1, d2})
==============================================================================
