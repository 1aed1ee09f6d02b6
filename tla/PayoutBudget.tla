---------------------------- MODULE PayoutBudget ----------------------------
(***************************************************************************)
(* What the caps on /api/pay promise, whatever the handler, the database   *)
(* and the payment service do: a learner's payments are counted first, one *)
(* at a time, in whole sats and within a ceiling, and millisats only move  *)
(* for counted payments. The count rounds every payment down, so the       *)
(* ceiling says nothing of the residues: a payment below a sat counts as   *)
(* nothing, and there may be any number of them.                           *)
(***************************************************************************)
EXTENDS Integers

CONSTANTS
    Learners,        \* participants
    Amounts,         \* millisats a payment may ask for
    MaxPaymentSats,  \* ceiling of one payment
    Ceiling          \* ceiling of everything counted for one learner

VARIABLES
    counted,  \* sats attributed to each learner
    asked,    \* millisats of the payments counted for each learner
    moved     \* millisats that left the wallet for each learner

vars == <<counted, asked, moved>>

Init ==
    /\ counted = [l \in Learners |-> 0]
    /\ asked = [l \in Learners |-> 0]
    /\ moved = [l \in Learners |-> 0]

Count(l, msats) ==
    LET sats == msats \div 1000 IN
    /\ sats <= MaxPaymentSats
    /\ counted[l] + sats <= Ceiling
    /\ counted' = [counted EXCEPT ![l] = @ + sats]
    /\ asked' = [asked EXCEPT ![l] = @ + msats]
    /\ UNCHANGED moved

Move(l, msats) ==
    /\ moved[l] + msats <= asked[l]
    /\ moved' = [moved EXCEPT ![l] = @ + msats]
    /\ UNCHANGED <<counted, asked>>

Next ==
    \E l \in Learners, msats \in Amounts : Count(l, msats) \/ Move(l, msats)

Spec == Init /\ [][Next]_vars
=============================================================================
