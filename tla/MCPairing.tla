----------------------------- MODULE MCPairing -----------------------------
(***************************************************************************)
(* Small instances of Pairing. Each learner joined on a device of its own; *)
(* the last device is empty.                                               *)
(***************************************************************************)
EXTENDS Pairing, TLC

CONSTANTS laptop, phone, ada, bob

MCHome == [l \in Learners |-> IF l = ada THEN laptop ELSE phone]

Symmetry == Permutations(Requests)
============================================================================
