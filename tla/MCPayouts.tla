----------------------------- MODULE MCPayouts -----------------------------
(***************************************************************************)
(* Small instances of Payouts: an invoice of less than three sats, one     *)
(* above the per-call ceiling and one of a whole sat.                      *)
(***************************************************************************)
EXTENDS Payouts, TLC

CONSTANTS small, large, excessive

MCPayable == {large, excessive}
MCWholeSats == {small, excessive}
MCMsatOf == [i \in Invoices |->
                CASE i = small -> 1000 [] i = large -> 2999 [] OTHER -> 3000]

RealPayouts == [lnbits |-> TRUE, optIn |-> TRUE]
InvoicesOnly == [lnbits |-> TRUE, optIn |-> FALSE]
Simulated == [lnbits |-> FALSE, optIn |-> FALSE]

MCEveryConfiguration == {RealPayouts, InvoicesOnly, Simulated}
MCPayoutsOnly == {RealPayouts}

Symmetry == Permutations(Learners) \cup Permutations(Requests)
============================================================================
