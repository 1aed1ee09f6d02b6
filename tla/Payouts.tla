------------------------------ MODULE Payouts ------------------------------
(***************************************************************************)
(* Lightning: POST /api/pay and POST /api/invoice, with any number of      *)
(* requests in flight, each one split where the handler awaits the         *)
(* database or LNbits. LNbits is external: it decodes an invoice, accepts  *)
(* an order and settles it at any later time, also after the handler that  *)
(* sent it has timed out or died.                                          *)
(*                                                                         *)
(* What is counted are whole sats, after decode_invoice; what is forwarded *)
(* is the invoice itself, and LNbits pays its millisats.                   *)
(***************************************************************************)
EXTENDS Integers, FiniteSets

CONSTANTS
    Learners,                \* participants
    Requests,                \* slots for in-flight requests
    Invoices,                \* BOLT11 invoices
    MsatOf,                  \* MsatOf[i]: the millisats an invoice asks for
    Configurations,          \* the ways the server may be configured
    MaxPaymentSats,          \* MAX_PAYMENT_SATS
    MaxParticipantPayoutSats,\* MAX_PARTICIPANT_PAYOUT_SATS
    InvoiceAmounts,          \* amounts learners ask an invoice for
    FirstSecond, LastSecond, \* unix seconds the model's clock runs through
    MaxFaults,               \* bound: failed statements, dropped handlers
    MaxAuditFailures,        \* bound: audit rows that could not be written
    None                     \* no learner, no invoice, no artifact

MaxInvoiceSats == 1000000                   \* create_invoice
Payments == {"invoice", "payment"}          \* lightning_log.kind
Seconds == FirstSecond..LastSecond

\* A BOLT11 string or its payment hash; a simulated one is the amount and
\* the unix second it was made in.
Artifacts == Invoices \cup (({0} \cup InvoiceAmounts) \X Seconds)

ASSUME ConstantsAssumption ==
    /\ Requests # {} /\ IsFiniteSet(Requests)
    /\ MsatOf \in [Invoices -> Nat]
    /\ Configurations \subseteq [lnbits : BOOLEAN, optIn : BOOLEAN]
    /\ MaxPaymentSats \in Nat /\ MaxParticipantPayoutSats \in Nat
    /\ InvoiceAmounts \subseteq 1..MaxInvoiceSats
    /\ FirstSecond \in Nat /\ LastSecond \in Nat /\ FirstSecond <= LastSecond
    /\ MaxFaults \in Nat /\ MaxAuditFailures \in Nat
    /\ None \notin Learners \cup Artifacts
    /\ \A i \in Invoices : i \notin ({0} \cup InvoiceAmounts) \X Seconds

VARIABLES
    config,        \* LNBITS_URL and LNBITS_ADMIN_KEY are set (lnbits), and
                   \* LIGHTNING_REAL_ALLOW_PAYOUTS=1 (optIn); never changes
    second,        \* the server's clock
    audit,         \* allowed rows of lightning_payment_audit, per learner
    lost,          \* history: allowed rows whose INSERT failed, per learner
    log,           \* lightning_log: log[kind][artifact] is the row's learner
    req,           \* the local variables of each request
    orders,        \* LNbits: orders it accepted, [invoice, payer]
    settled,       \* LNbits: on whose order it paid an invoice, or None
    paid,          \* LNbits: millisats it moved on each learner's orders
    faults,        \* history: faults so far, for MaxFaults
    auditFailures  \* history: audit rows lost so far, for MaxAuditFailures

lnbits == <<orders, settled, paid>>
history == <<faults, auditFailures>>
vars == <<config, second, audit, lost, log, req, orders, settled, paid, faults,
          auditFailures>>

-----------------------------------------------------------------------------
(* Configuration and pure functions.                                       *)

PayoutsAllowed == config.lnbits /\ config.optIn

\* LNbits answers in millisats; the residue of a sat is not counted.
SatsOf(i) == MsatOf[i] \div 1000

\* Faulty: no per-call ceiling.
DecideParticipantCapOnly(amount, spent) ==
    IF spent + amount > MaxParticipantPayoutSats THEN "participant_cap" ELSE "allowed"

\* Faulty: compares what was spent before this payment.
DecideBeforePayment(amount, spent) ==
    IF amount > MaxPaymentSats THEN "per_call_cap"
    ELSE IF spent > MaxParticipantPayoutSats THEN "participant_cap"
    ELSE "allowed"

Decide(amount, spent) ==
    IF amount > MaxPaymentSats THEN "per_call_cap"
    ELSE IF spent + amount > MaxParticipantPayoutSats THEN "participant_cap"
    ELSE "allowed"

Outcomes == {"none", "allowed", "simulated", "decode_failed", "per_call_cap", "participant_cap"}

Stages == {"idle", "decode", "spent", "audit", "pay", "paying", "log", "ok", "failed"}

Idle == [pc |-> "idle", who |-> None, kind |-> "payment", invoice |-> None,
         amount |-> 0, decision |-> "none", artifact |-> None]

\* The sum of a learner's rows, amount_sats; the millisats their invoices ask
\* for are history, no row has them.
NoRows == [sats |-> 0, msats |-> 0, invoices |-> {}]

WithRow(rows, r) ==
    [rows EXCEPT ![req[r].who] = [sats |-> @.sats + req[r].amount,
                                  msats |-> @.msats + MsatOf[req[r].invoice],
                                  invoices |-> @.invoices \cup {req[r].invoice}]]

-----------------------------------------------------------------------------
Init ==
    /\ config \in Configurations
    /\ second = FirstSecond
    /\ audit = [l \in Learners |-> NoRows]
    /\ lost = [l \in Learners |-> NoRows]
    /\ log = [k \in Payments |-> [a \in Artifacts |-> None]]
    /\ req = [r \in Requests |-> Idle]
    /\ orders = {}
    /\ settled = [i \in Invoices |-> None]
    /\ paid = [l \in Learners |-> 0]
    /\ faults = 0
    /\ auditFailures = 0

At(r, pc) == req[r].pc = pc

\* Only r's local variables change.
Local(r, state) ==
    /\ req' = [req EXCEPT ![r] = state]
    /\ UNCHANGED <<config, second, audit, lost, log, lnbits, history>>

GoTo(r, pc) == req' = [req EXCEPT ![r].pc = pc]

Fault == faults < MaxFaults /\ faults' = faults + 1 /\ UNCHANGED auditFailures

-----------------------------------------------------------------------------
(* POST /api/invoice.                                                      *)

\* Simulated: the string is made of the amount and the second, so two
\* requests for the same amount in one second get the same string.
SubmitSimulatedInvoice(r, l, amount) ==
    /\ At(r, "idle") /\ ~config.lnbits
    /\ Local(r, [Idle EXCEPT !.pc = "log", !.who = l, !.kind = "invoice",
                             !.artifact = <<amount, second>>])

\* LNbits makes a new invoice for every call.
SubmitRealInvoice(r, l, i) ==
    /\ At(r, "idle") /\ config.lnbits /\ InvoiceAmounts # {}
    /\ log["invoice"][i] = None
    /\ \A q \in Requests : req[q].kind = "invoice" => req[q].artifact # i
    /\ Local(r, [Idle EXCEPT !.pc = "log", !.who = l, !.kind = "invoice",
                             !.artifact = i])

-----------------------------------------------------------------------------
(* POST /api/pay, up to the audit row.                                     *)

\* Without the opt-in the payment hash is the unix second, in hex.
SubmitSimulated(r, l, i) ==
    /\ At(r, "idle") /\ ~PayoutsAllowed
    /\ Local(r, [Idle EXCEPT !.pc = "audit", !.who = l, !.invoice = i,
                             !.decision = "simulated",
                             !.artifact = <<0, second>>])

SubmitReal(r, l, i) ==
    /\ At(r, "idle") /\ PayoutsAllowed
    /\ Local(r, [Idle EXCEPT !.pc = "decode", !.who = l, !.invoice = i])

DecodeOk(r) ==
    /\ At(r, "decode")
    /\ Local(r, [req[r] EXCEPT !.pc = "spent", !.amount = SatsOf(req[r].invoice)])

DecodeFails(r) ==
    /\ At(r, "decode")
    /\ Local(r, [req[r] EXCEPT !.pc = "audit", !.decision = "decode_failed"])

\* Faulty: an allowed payment is forwarded before its row is written.
ReadSpentThenPay(r) ==
    LET decision == Decide(req[r].amount, audit[req[r].who].sats) IN
    /\ At(r, "spent")
    /\ Local(r, [req[r] EXCEPT !.pc = IF decision = "allowed" THEN "pay" ELSE "audit",
                               !.decision = decision])

\* The sum of the learner's allowed rows, and the decision on it. The next
\* await is the audit row: other requests of the learner run in between.
ReadSpent(r) ==
    /\ At(r, "spent")
    /\ Local(r, [req[r] EXCEPT !.pc = "audit",
                     !.decision = Decide(req[r].amount, audit[req[r].who].sats)])

\* Where the handler goes once write_audit has returned.
AfterAudit(r) ==
    CASE req[r].decision = "allowed" -> "pay"
      [] req[r].decision = "simulated" -> "log"
      [] OTHER -> "failed"

\* Rows with another decision are written too, and never read.
WriteAudit(r) ==
    /\ At(r, "audit")
    /\ audit' = IF req[r].decision = "allowed" THEN WithRow(audit, r) ELSE audit
    /\ GoTo(r, AfterAudit(r))
    /\ UNCHANGED <<config, second, lost, log, lnbits, history>>

\* write_audit only logs an error of its INSERT: the handler goes on.
AuditLost(r) ==
    /\ At(r, "audit") /\ auditFailures < MaxAuditFailures
    /\ lost' = IF req[r].decision = "allowed" THEN WithRow(lost, r) ELSE lost
    /\ GoTo(r, AfterAudit(r))
    /\ auditFailures' = auditFailures + 1
    /\ UNCHANGED <<config, second, audit, log, lnbits, faults>>

-----------------------------------------------------------------------------
(* The order to LNbits, its answer, and the proof ledger.                  *)

\* The HTTP request reaches LNbits.
Forward(r) ==
    /\ At(r, "pay")
    /\ orders' = orders \cup {[invoice |-> req[r].invoice, payer |-> req[r].who]}
    /\ GoTo(r, "paying")
    /\ UNCHANGED <<config, second, audit, lost, log, settled, paid, history>>

\* LNbits pays an invoice once, whoever ordered it, to the millisat.
Settle(o) ==
    /\ o \in orders /\ settled[o.invoice] = None
    /\ settled' = [settled EXCEPT ![o.invoice] = o.payer]
    /\ paid' = [paid EXCEPT ![o.payer] = @ + MsatOf[o.invoice]]
    /\ UNCHANGED <<config, second, audit, lost, log, req, orders, history>>

PaidAnswer(r) ==
    /\ At(r, "paying") /\ settled[req[r].invoice] = req[r].who
    /\ Local(r, [req[r] EXCEPT !.pc = "log", !.artifact = req[r].invoice])

\* Faulty: an order that failed still leaves a proof.
ErrorAnswerLogged(r) ==
    /\ At(r, "paying")
    /\ Local(r, [req[r] EXCEPT !.pc = "log", !.artifact = req[r].invoice])

\* Faulty: gives the learner the sats of a failed order back.
ErrorAnswerRefunded(r) ==
    /\ At(r, "paying")
    /\ audit' = [audit EXCEPT ![req[r].who].sats = @ - req[r].amount]
    /\ GoTo(r, "failed")
    /\ UNCHANGED <<config, second, lost, log, lnbits, history>>

\* An error status, a lost connection or the client's 20 s: the order may
\* have been accepted all the same, and may settle later.
ErrorAnswer(r) ==
    /\ At(r, "paying")
    /\ Local(r, [req[r] EXCEPT !.pc = "failed"])

LogRow(r) == log[req[r].kind][req[r].artifact]

LogArtifact(r) ==
    /\ At(r, "log") /\ LogRow(r) = None
    /\ log' = [log EXCEPT ![req[r].kind][req[r].artifact] = req[r].who]
    /\ GoTo(r, "ok")
    /\ UNCHANGED <<config, second, audit, lost, lnbits, history>>

\* Faulty: INSERT OR IGNORE.
LogConflictIgnored(r) ==
    /\ At(r, "log") /\ LogRow(r) # None
    /\ Local(r, [req[r] EXCEPT !.pc = "ok"])

\* (kind, artifact) is the primary key: the INSERT fails, and the answer is
\* an error whatever has been paid.
LogConflict(r) ==
    /\ At(r, "log") /\ LogRow(r) # None
    /\ Local(r, [req[r] EXCEPT !.pc = "failed"])

\* The SELECT or the last INSERT fails.
DatabaseFails(r) ==
    /\ At(r, "spent") \/ At(r, "log")
    /\ Fault
    /\ GoTo(r, "failed")
    /\ UNCHANGED <<config, second, audit, lost, log, lnbits>>

Deliver(r) ==
    /\ At(r, "ok") \/ At(r, "failed")
    /\ Local(r, Idle)

\* The router's timeout, the client hanging up or a crash of the server
\* drops the handler wherever it waits.
Drop(r) ==
    /\ ~At(r, "idle")
    /\ Fault
    /\ req' = [req EXCEPT ![r] = Idle]
    /\ UNCHANGED <<config, second, audit, lost, log, lnbits>>

\* Only the simulated strings are made of the clock; where no step reads it,
\* the model lets it stand still.
Tick ==
    /\ second < LastSecond /\ ~PayoutsAllowed
    /\ second' = second + 1
    /\ UNCHANGED <<config, audit, lost, log, req, lnbits, history>>

-----------------------------------------------------------------------------
Submit(r) ==
    \E l \in Learners :
        \/ \E amount \in InvoiceAmounts : SubmitSimulatedInvoice(r, l, amount)
        \/ \E i \in Invoices :
              SubmitRealInvoice(r, l, i) \/ SubmitSimulated(r, l, i) \/ SubmitReal(r, l, i)

Pay(r) ==
    \/ DecodeOk(r) \/ DecodeFails(r) \/ ReadSpent(r)
    \/ WriteAudit(r) \/ AuditLost(r)
    \/ Forward(r) \/ PaidAnswer(r) \/ ErrorAnswer(r)

Finish(r) ==
    LogArtifact(r) \/ LogConflict(r) \/ DatabaseFails(r) \/ Deliver(r) \/ Drop(r)

Next ==
    \/ \E r \in Requests : Submit(r) \/ Pay(r) \/ Finish(r)
    \/ \E o \in orders : Settle(o)
    \/ Tick

Spec == Init /\ [][Next]_vars

-----------------------------------------------------------------------------
(* Properties.                                                             *)

Rows == [Learners -> [sats : Nat, msats : Nat, invoices : SUBSET Invoices]]

Request == [pc : Stages, who : Learners \cup {None}, kind : Payments,
            invoice : Invoices \cup {None}, amount : Nat,
            decision : Outcomes, artifact : Artifacts \cup {None}]

RequestOK(x) ==
    /\ x.pc # "idle" => x.who \in Learners
    /\ x.pc \in {"decode", "spent", "audit", "pay", "paying"}
          => x.kind = "payment" /\ x.invoice \in Invoices
    /\ x.pc \in {"decode", "spent"} => x.decision = "none"
    /\ x.pc \in {"pay", "paying"} => x.decision = "allowed"
    /\ x.decision = "allowed" => x.amount <= MaxPaymentSats
    /\ x.pc = "audit" /\ x.decision = "simulated" => x.artifact \in Artifacts
    /\ x.pc \in {"log", "ok"} => x.artifact \in Artifacts

\* Every variable keeps its type; a request that may reach LNbits has been
\* allowed and asks for no more than the per-call ceiling.
TypeOK ==
    /\ config \in Configurations
    /\ second \in Seconds
    /\ audit \in Rows /\ lost \in Rows
    /\ log \in [Payments -> [Artifacts -> Learners \cup {None}]]
    /\ req \in [Requests -> Request]
    /\ \A r \in Requests : RequestOK(req[r])
    /\ orders \subseteq [invoice : Invoices, payer : Learners]
    /\ settled \in [Invoices -> Learners \cup {None}]
    /\ paid \in [Learners -> Nat]
    /\ faults \in 0..MaxFaults /\ auditFailures \in 0..MaxAuditFailures

\* Everything counted against a learner, also by a row that was lost.
Counted == [l \in Learners |-> audit[l].sats + lost[l].sats]

\* The millisats of the same payments: more, by less than a sat each.
AskedFor == [l \in Learners |-> audit[l].msats + lost[l].msats]

AuditCeiling == MaxParticipantPayoutSats + (Cardinality(Requests) - 1) * MaxPaymentSats

Ceiling == AuditCeiling + MaxAuditFailures * MaxPaymentSats

\* pay_invoice reads the sum and writes its row in separate statements: N
\* concurrent requests overrun the learner's ceiling, but never by more
\* than N - 1 payments. Requests served one at a time keep it.
AuditBound ==
    \A l \in Learners :
        /\ audit[l].sats <= AuditCeiling
        /\ lost[l].sats <= auditFailures * MaxPaymentSats

\* A payment LNbits made for a learner was first counted against that
\* learner: the row is written before the order leaves, and a failed or
\* unanswered order is never given back.
CountedFirst ==
    \A i \in Invoices : settled[i] # None =>
        i \in audit[settled[i]].invoices \cup lost[settled[i]].invoices

\* A 'payment' row for a real invoice says that LNbits paid it on the order
\* of the row's learner: missions accept the row as proof.
LogMeansPaid ==
    \A i \in Invoices : log["payment"][i] # None => settled[i] = log["payment"][i]

\* A caller who is told "paid", or given an invoice, finds the row that
\* complete_mission will look for, under its own id.
AnswerProvable ==
    \A r \in Requests :
        At(r, "ok") => log[req[r].kind][req[r].artifact] = req[r].who

\* The handler keeps the promise of PayoutBudget: what is counted stays within
\* Ceiling, and millisats move only for payments that were counted before, each
\* with less than a sat that the count leaves out.
Budget == INSTANCE PayoutBudget WITH
              Amounts <- {MsatOf[i] : i \in Invoices},
              counted <- Counted, asked <- AskedFor, moved <- paid
ImplementsBudget == Budget!Spec

\* .env.example and lightning.rs call the setting a cumulative ceiling on
\* what a learner is paid.
CeilingKept == \A l \in Learners : paid[l] <= 1000 * MaxParticipantPayoutSats

=============================================================================
