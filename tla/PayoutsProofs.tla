--------------------------- MODULE PayoutsProofs ---------------------------
(***************************************************************************)
(* What Payouts guarantees for every number of learners, requests and      *)
(* invoices, every ceiling and every configuration.                        *)
(***************************************************************************)
EXTENDS Payouts, FiniteSetTheorems, TLAPS

-----------------------------------------------------------------------------
(* Type correctness.                                                       *)

LEMMA IdleType == Idle \in Request /\ RequestOK(Idle) /\ Idle.pc = "idle"
  BY DEF Idle, Request, RequestOK, Stages, Payments, Outcomes

LEMMA MsatOfType == \A i \in Invoices : MsatOf[i] \in Nat
  BY ConstantsAssumption

LEMMA SatsOfType == \A i \in Invoices : SatsOf(i) \in Nat
  BY ConstantsAssumption DEF SatsOf

\* The two ceilings of decide.
LEMMA DecideSpec ==
    ASSUME NEW amount \in Nat, NEW spent \in Nat
    PROVE  /\ Decide(amount, spent) \in Outcomes \ {"none", "simulated"}
           /\ Decide(amount, spent) = "allowed" =>
                /\ amount <= MaxPaymentSats
                /\ spent + amount <= MaxParticipantPayoutSats
  BY ConstantsAssumption DEF Decide, Outcomes

\* A step that replaces one request by a well-formed one keeps the requests.
LEMMA RequestsType ==
    ASSUME TypeOK, NEW r \in Requests, NEW x \in Request, RequestOK(x),
           req' = [req EXCEPT ![r] = x]
    PROVE  /\ req' \in [Requests -> Request]
           /\ \A q \in Requests : RequestOK(req'[q])
  BY DEF TypeOK

LEMMA LocalType ==
    ASSUME TypeOK, NEW r \in Requests, NEW x \in Request, RequestOK(x), Local(r, x)
    PROVE  TypeOK'
<1>1. /\ req' \in [Requests -> Request]
      /\ \A q \in Requests : RequestOK(req'[q])
  BY RequestsType DEF Local
<1> QED
  BY <1>1 DEF TypeOK, Local, lnbits, history, Rows, RequestOK

\* Moving on to pc keeps the request well-formed where pc asks for no more
\* than the request holds.
LEMMA GoToType ==
    ASSUME TypeOK, NEW r \in Requests, NEW pc \in Stages, GoTo(r, pc),
           RequestOK([req[r] EXCEPT !.pc = pc])
    PROVE  /\ req' \in [Requests -> Request]
           /\ \A q \in Requests : RequestOK(req'[q])
           /\ req' = [req EXCEPT ![r] = [req[r] EXCEPT !.pc = pc]]
<1>1. [req[r] EXCEPT !.pc = pc] \in Request
  BY DEF TypeOK, Request
<1>2. req' = [req EXCEPT ![r] = [req[r] EXCEPT !.pc = pc]]
  BY DEF GoTo, TypeOK
<1> QED
  BY <1>1, <1>2, RequestsType

LEMMA WithRowType ==
    ASSUME TypeOK, NEW r \in Requests, req[r].who \in Learners,
           req[r].invoice \in Invoices, NEW rows \in Rows
    PROVE  /\ WithRow(rows, r) \in Rows
           /\ \A l \in Learners :
                 /\ WithRow(rows, r)[l].sats =
                       IF l = req[r].who THEN rows[l].sats + req[r].amount
                       ELSE rows[l].sats
                 /\ WithRow(rows, r)[l].msats =
                       IF l = req[r].who THEN rows[l].msats + MsatOf[req[r].invoice]
                       ELSE rows[l].msats
                 /\ WithRow(rows, r)[l].invoices =
                       IF l = req[r].who THEN rows[l].invoices \cup {req[r].invoice}
                       ELSE rows[l].invoices
<1>1. /\ rows[req[r].who].sats + req[r].amount \in Nat
      /\ rows[req[r].who].msats + MsatOf[req[r].invoice] \in Nat
      /\ rows[req[r].who].invoices \cup {req[r].invoice} \in SUBSET Invoices
  BY MsatOfType DEF Rows, TypeOK, Request
<1> DEFINE row == [sats |-> rows[req[r].who].sats + req[r].amount,
                   msats |-> rows[req[r].who].msats + MsatOf[req[r].invoice],
                   invoices |-> rows[req[r].who].invoices \cup {req[r].invoice}]
<1>2. row \in [sats : Nat, msats : Nat, invoices : SUBSET Invoices]
  BY <1>1
<1>3. WithRow(rows, r) = [rows EXCEPT ![req[r].who] = row]
  BY DEF WithRow
<1>4. /\ row.sats = rows[req[r].who].sats + req[r].amount
      /\ row.msats = rows[req[r].who].msats + MsatOf[req[r].invoice]
      /\ row.invoices = rows[req[r].who].invoices \cup {req[r].invoice}
  OBVIOUS
<1> HIDE DEF row
<1> QED
  BY <1>2, <1>3, <1>4 DEF Rows

LEMMA AfterAuditType ==
    ASSUME TypeOK, NEW r \in Requests, At(r, "audit")
    PROVE  /\ AfterAudit(r) \in {"pay", "log", "failed"}
           /\ AfterAudit(r) = "pay" => req[r].decision = "allowed"
           /\ AfterAudit(r) = "log" => req[r].decision = "simulated"
           /\ RequestOK([req[r] EXCEPT !.pc = AfterAudit(r)])
<1>1. /\ AfterAudit(r) \in {"pay", "log", "failed"}
      /\ AfterAudit(r) = "pay" => req[r].decision = "allowed"
      /\ AfterAudit(r) = "log" => req[r].decision = "simulated"
  BY DEF AfterAudit
<1> QED
  BY <1>1 DEF TypeOK, RequestOK, Request, At

LEMMA InitType == Init => TypeOK
<1> SUFFICES ASSUME Init PROVE TypeOK
  OBVIOUS
<1>1. /\ config \in Configurations /\ second \in Seconds /\ faults \in 0..MaxFaults
      /\ auditFailures \in 0..MaxAuditFailures
  BY ConstantsAssumption DEF Init, Seconds
<1>2. req \in [Requests -> Request] /\ \A r \in Requests : RequestOK(req[r])
  BY IdleType DEF Init
<1>3. audit \in Rows /\ lost \in Rows /\ paid \in [Learners -> Nat]
  BY DEF Init, Rows, NoRows
<1>4. /\ log \in [Payments -> [Artifacts -> Learners \cup {None}]]
      /\ settled \in [Invoices -> Learners \cup {None}]
      /\ orders \subseteq [invoice : Invoices, payer : Learners]
  BY DEF Init
<1> QED
  BY <1>1, <1>2, <1>3, <1>4 DEF TypeOK

LEMMA SubmitType ==
    ASSUME TypeOK, NEW r \in Requests, Submit(r)
    PROVE  TypeOK'
<1> PICK l \in Learners :
        \/ \E amount \in InvoiceAmounts : SubmitSimulatedInvoice(r, l, amount)
        \/ \E i \in Invoices :
              SubmitRealInvoice(r, l, i) \/ SubmitSimulated(r, l, i) \/ SubmitReal(r, l, i)
  BY DEF Submit
<1>1. ASSUME NEW amount \in InvoiceAmounts, SubmitSimulatedInvoice(r, l, amount)
      PROVE  TypeOK'
  <2> DEFINE x == [Idle EXCEPT !.pc = "log", !.who = l, !.kind = "invoice",
                               !.artifact = <<amount, second>>]
  <2>1. <<amount, second>> \in Artifacts
    BY DEF Artifacts, TypeOK
  <2>2. x \in Request /\ RequestOK(x)
    BY <2>1 DEF Idle, Request, RequestOK, Stages, Payments, Outcomes
  <2>3. Local(r, x)
    BY <1>1 DEF SubmitSimulatedInvoice
  <2> QED
    BY <2>2, <2>3, LocalType
<1>2. ASSUME NEW i \in Invoices, SubmitRealInvoice(r, l, i)
      PROVE  TypeOK'
  <2> DEFINE x == [Idle EXCEPT !.pc = "log", !.who = l, !.kind = "invoice",
                               !.artifact = i]
  <2>1. x \in Request /\ RequestOK(x)
    BY DEF Idle, Request, RequestOK, Stages, Payments, Outcomes, Artifacts
  <2>2. Local(r, x)
    BY <1>2 DEF SubmitRealInvoice
  <2> QED
    BY <2>1, <2>2, LocalType
<1>3. ASSUME NEW i \in Invoices, SubmitSimulated(r, l, i)
      PROVE  TypeOK'
  <2> DEFINE x == [Idle EXCEPT !.pc = "audit", !.who = l, !.invoice = i,
                               !.decision = "simulated",
                               !.artifact = <<0, second>>]
  <2>1. <<0, second>> \in Artifacts
    BY DEF Artifacts, TypeOK
  <2>2. x \in Request /\ RequestOK(x)
    BY <2>1 DEF Idle, Request, RequestOK, Stages, Payments, Outcomes
  <2>3. Local(r, x)
    BY <1>3 DEF SubmitSimulated
  <2> QED
    BY <2>2, <2>3, LocalType
<1>4. ASSUME NEW i \in Invoices, SubmitReal(r, l, i)
      PROVE  TypeOK'
  <2> DEFINE x == [Idle EXCEPT !.pc = "decode", !.who = l, !.invoice = i]
  <2>1. x \in Request /\ RequestOK(x)
    BY DEF Idle, Request, RequestOK, Stages, Payments, Outcomes
  <2>2. Local(r, x)
    BY <1>4 DEF SubmitReal
  <2> QED
    BY <2>1, <2>2, LocalType
<1> QED
  BY <1>1, <1>2, <1>3, <1>4

LEMMA PayType ==
    ASSUME TypeOK, NEW r \in Requests, Pay(r)
    PROVE  TypeOK'
<1> USE DEF At
<1>1. CASE DecodeOk(r)
  <2> DEFINE x == [req[r] EXCEPT !.pc = "spent", !.amount = SatsOf(req[r].invoice)]
  <2>1. SatsOf(req[r].invoice) \in Nat
    BY <1>1, SatsOfType DEF DecodeOk, TypeOK, RequestOK
  <2>2. x \in Request /\ RequestOK(x)
    BY <1>1, <2>1 DEF DecodeOk, TypeOK, Request, RequestOK, Stages
  <2> QED
    BY <1>1, <2>2, LocalType DEF DecodeOk
<1>2. CASE DecodeFails(r)
  <2> DEFINE x == [req[r] EXCEPT !.pc = "audit", !.decision = "decode_failed"]
  <2>1. x \in Request /\ RequestOK(x)
    BY <1>2 DEF DecodeFails, TypeOK, Request, RequestOK, Stages, Outcomes
  <2> QED
    BY <1>2, <2>1, LocalType DEF DecodeFails
<1>3. CASE ReadSpent(r)
  <2> DEFINE d == Decide(req[r].amount, audit[req[r].who].sats)
             x == [req[r] EXCEPT !.pc = "audit", !.decision = d]
  <2>1. req[r].amount \in Nat /\ audit[req[r].who].sats \in Nat
    BY <1>3 DEF ReadSpent, TypeOK, Request, RequestOK, Rows
  <2>2. /\ d \in Outcomes \ {"none", "simulated"}
        /\ d = "allowed" => req[r].amount <= MaxPaymentSats
    BY <2>1, DecideSpec
  <2> HIDE DEF d
  <2>3. x \in Request /\ RequestOK(x)
    BY <1>3, <2>2 DEF ReadSpent, TypeOK, Request, RequestOK, Stages
  <2>4. Local(r, x)
    BY <1>3 DEF ReadSpent, d
  <2> QED
    BY <2>3, <2>4, LocalType
<1>4. ASSUME At(r, "audit"), GoTo(r, AfterAudit(r)), audit' \in Rows, lost' \in Rows,
             auditFailures' \in 0..MaxAuditFailures,
             UNCHANGED <<config, second, log, lnbits, faults>>
      PROVE  TypeOK'
  <2>1. AfterAudit(r) \in Stages /\ RequestOK([req[r] EXCEPT !.pc = AfterAudit(r)])
    BY <1>4, AfterAuditType DEF Stages
  <2>2. req' \in [Requests -> Request] /\ \A q \in Requests : RequestOK(req'[q])
    BY <1>4, <2>1, GoToType
  <2> QED
    BY <1>4, <2>2 DEF TypeOK, lnbits, RequestOK
<1>5. At(r, "audit") => /\ WithRow(audit, r) \in Rows
                        /\ WithRow(lost, r) \in Rows
  BY WithRowType DEF TypeOK, RequestOK
<1>6. CASE WriteAudit(r)
  BY <1>4, <1>5, <1>6 DEF WriteAudit, TypeOK, history
<1>7. CASE AuditLost(r)
  <2>1. auditFailures' \in 0..MaxAuditFailures
    BY <1>7, ConstantsAssumption DEF AuditLost, TypeOK
  <2> QED
    BY <1>4, <1>5, <1>7, <2>1 DEF AuditLost, TypeOK
<1>8. CASE Forward(r)
  <2>1. RequestOK([req[r] EXCEPT !.pc = "paying"])
    BY <1>8 DEF Forward, TypeOK, Request, RequestOK
  <2>2. req' \in [Requests -> Request] /\ \A q \in Requests : RequestOK(req'[q])
    BY <1>8, <2>1, GoToType DEF Forward, Stages
  <2>3. orders' \subseteq [invoice : Invoices, payer : Learners]
    BY <1>8 DEF Forward, TypeOK, RequestOK
  <2> QED
    BY <1>8, <2>2, <2>3 DEF Forward, TypeOK, history, RequestOK
<1>9. CASE PaidAnswer(r)
  <2> DEFINE x == [req[r] EXCEPT !.pc = "log", !.artifact = req[r].invoice]
  <2>1. req[r].invoice \in Artifacts
    BY <1>9 DEF PaidAnswer, TypeOK, RequestOK, Artifacts
  <2>2. x \in Request /\ RequestOK(x)
    BY <1>9, <2>1 DEF PaidAnswer, TypeOK, Request, RequestOK, Stages
  <2> QED
    BY <1>9, <2>2, LocalType DEF PaidAnswer
<1>10. CASE ErrorAnswer(r)
  <2> DEFINE x == [req[r] EXCEPT !.pc = "failed"]
  <2>1. x \in Request /\ RequestOK(x)
    BY <1>10 DEF ErrorAnswer, TypeOK, Request, RequestOK, Stages
  <2> QED
    BY <1>10, <2>1, LocalType DEF ErrorAnswer
<1> QED
  BY <1>1, <1>2, <1>3, <1>6, <1>7, <1>8, <1>9, <1>10 DEF Pay

LEMMA FinishType ==
    ASSUME TypeOK, NEW r \in Requests, Finish(r)
    PROVE  TypeOK'
<1> USE DEF At
<1>1. CASE LogArtifact(r)
  <2>1. RequestOK([req[r] EXCEPT !.pc = "ok"])
    BY <1>1 DEF LogArtifact, TypeOK, Request, RequestOK
  <2>2. req' \in [Requests -> Request] /\ \A q \in Requests : RequestOK(req'[q])
    BY <1>1, <2>1, GoToType DEF LogArtifact, Stages
  <2>3. /\ req[r].kind \in Payments /\ req[r].artifact \in Artifacts
        /\ req[r].who \in Learners
    BY <1>1 DEF LogArtifact, TypeOK, Request, RequestOK
  <2>4. log' \in [Payments -> [Artifacts -> Learners \cup {None}]]
    BY <1>1, <2>3 DEF LogArtifact, TypeOK
  <2> QED
    BY <1>1, <2>2, <2>4 DEF LogArtifact, TypeOK, lnbits, history, RequestOK
<1>2. CASE LogConflict(r)
  <2> DEFINE x == [req[r] EXCEPT !.pc = "failed"]
  <2>1. x \in Request /\ RequestOK(x)
    BY <1>2 DEF LogConflict, TypeOK, Request, RequestOK, Stages
  <2> QED
    BY <1>2, <2>1, LocalType DEF LogConflict
<1>3. ASSUME Fault PROVE faults' \in 0..MaxFaults /\ auditFailures' = auditFailures
  BY <1>3, ConstantsAssumption DEF Fault, TypeOK
<1>4. CASE DatabaseFails(r)
  <2>1. RequestOK([req[r] EXCEPT !.pc = "failed"])
    BY <1>4 DEF DatabaseFails, TypeOK, Request, RequestOK
  <2>2. req' \in [Requests -> Request] /\ \A q \in Requests : RequestOK(req'[q])
    BY <1>4, <2>1, GoToType DEF DatabaseFails, Stages
  <2> QED
    BY <1>3, <1>4, <2>2 DEF DatabaseFails, TypeOK, lnbits, RequestOK
<1>5. CASE Deliver(r)
  BY <1>5, IdleType, LocalType DEF Deliver
<1>6. CASE Drop(r)
  <2>1. req' \in [Requests -> Request] /\ \A q \in Requests : RequestOK(req'[q])
    BY <1>6, IdleType, RequestsType DEF Drop
  <2> QED
    BY <1>3, <1>6, <2>1 DEF Drop, TypeOK, lnbits, RequestOK
<1> QED
  BY <1>1, <1>2, <1>4, <1>5, <1>6 DEF Finish

LEMMA SettleType ==
    ASSUME TypeOK, NEW o \in orders, Settle(o)
    PROVE  TypeOK'
<1>1. o.invoice \in Invoices /\ o.payer \in Learners /\ MsatOf[o.invoice] \in Nat
  BY MsatOfType DEF TypeOK
<1>2. settled' \in [Invoices -> Learners \cup {None}] /\ paid' \in [Learners -> Nat]
  BY <1>1 DEF Settle, TypeOK
<1> QED
  BY <1>2 DEF Settle, TypeOK, history, RequestOK

LEMMA TypeStep == TypeOK /\ [Next]_vars => TypeOK'
<1> SUFFICES ASSUME TypeOK, [Next]_vars PROVE TypeOK'
  OBVIOUS
<1>1. CASE Tick
  <2>1. second' \in Seconds
    BY <1>1, ConstantsAssumption DEF Tick, TypeOK, Seconds
  <2> QED
    BY <1>1, <2>1 DEF Tick, TypeOK, lnbits, history, RequestOK
<1>2. CASE UNCHANGED vars
  BY <1>2 DEF vars, TypeOK, RequestOK
<1> QED
  BY <1>1, <1>2, SubmitType, PayType, FinishType, SettleType DEF Next

\* Whatever the interleaving, the requests are well-formed, and one that may
\* reach LNbits was allowed within the per-call ceiling.
THEOREM TypeCorrect == Spec => []TypeOK
  BY InitType, TypeStep, PTL DEF Spec

-----------------------------------------------------------------------------
(* Counted before moved.                                                   *)

\* The request r takes no step that another request can see in its own
\* local variables.
LEMMA OthersKept ==
    ASSUME TypeOK, NEW r \in Requests, Submit(r) \/ Pay(r) \/ Finish(r)
    PROVE  \A q \in Requests \ {r} : req'[q] = req[q]
  BY DEF TypeOK, Submit, SubmitSimulatedInvoice, SubmitRealInvoice, SubmitSimulated,
         SubmitReal, Pay, DecodeOk, DecodeFails, ReadSpent, WriteAudit, AuditLost,
         Forward, PaidAnswer, ErrorAnswer, Finish, LogArtifact, LogConflict,
         DatabaseFails, Deliver, Drop, Local, GoTo

\* A new request is a payment that is decoded or, simulated, audited, or an
\* invoice that is logged.
LEMMA SubmitEffect ==
    ASSUME TypeOK, NEW r \in Requests, Submit(r)
    PROVE  /\ UNCHANGED <<audit, lost, log, orders, settled, auditFailures>>
           /\ req'[r].pc \in {"log", "audit", "decode"}
           /\ req'[r].pc = "log" => req'[r].kind = "invoice"
           /\ req'[r].pc = "audit" => req'[r].artifact \notin Invoices
           /\ req'[r].amount = 0 /\ req'[r].decision # "allowed"
<1> PICK l \in Learners :
        \/ \E amount \in InvoiceAmounts : SubmitSimulatedInvoice(r, l, amount)
        \/ \E i \in Invoices :
              SubmitRealInvoice(r, l, i) \/ SubmitSimulated(r, l, i) \/ SubmitReal(r, l, i)
  BY DEF Submit
<1> DEFINE New(x) == /\ x.pc \in {"log", "audit", "decode"}
                     /\ x.pc = "log" => x.kind = "invoice"
                     /\ x.pc = "audit" => x.artifact \notin Invoices
                     /\ x.amount = 0 /\ x.decision # "allowed"
<1>1. ASSUME NEW x, Local(r, x), New(x)
      PROVE  /\ UNCHANGED <<audit, lost, log, orders, settled, auditFailures>>
             /\ New(req'[r])
  <2>1. req'[r] = x
    BY <1>1 DEF Local, TypeOK
  <2> QED
    BY <1>1, <2>1 DEF Local, lnbits, history
<1>2. ASSUME NEW amount \in InvoiceAmounts
      PROVE  New([Idle EXCEPT !.pc = "log", !.who = l, !.kind = "invoice",
                              !.artifact = <<amount, second>>])
  BY DEF Idle
<1>3. ASSUME NEW i \in Invoices
      PROVE  /\ New([Idle EXCEPT !.pc = "log", !.who = l, !.kind = "invoice",
                                 !.artifact = i])
             /\ New([Idle EXCEPT !.pc = "decode", !.who = l, !.invoice = i])
  BY DEF Idle
<1>4. <<0, second>> \notin Invoices
  BY ConstantsAssumption DEF TypeOK
<1>5. ASSUME NEW i \in Invoices
      PROVE  New([Idle EXCEPT !.pc = "audit", !.who = l, !.invoice = i,
                              !.decision = "simulated", !.artifact = <<0, second>>])
  BY <1>4 DEF Idle
<1> HIDE DEF New
<1>6. UNCHANGED <<audit, lost, log, orders, settled, auditFailures>> /\ New(req'[r])
  BY <1>1, <1>2, <1>3, <1>5
  DEF SubmitSimulatedInvoice, SubmitRealInvoice, SubmitSimulated, SubmitReal
<1> QED
  BY <1>6 DEF New

Covered == [l \in Learners |-> audit[l].invoices \cup lost[l].invoices]

\* CountedFirst made inductive: the same holds of an order that LNbits has
\* accepted and of a request that is about to send one.
CountedInv ==
    /\ \A r \in Requests :
          req[r].pc \in {"pay", "paying"} => req[r].invoice \in Covered[req[r].who]
    /\ \A o \in orders : o.invoice \in Covered[o.payer]
    /\ CountedFirst

LEMMA CountedInit == Init => CountedInv
  BY IdleType DEF Init, CountedInv, CountedFirst, Idle

\* A step of r that sends nothing and writes no audit row.
LEMMA CountedQuiet ==
    ASSUME CountedInv, NEW r \in Requests, \A q \in Requests \ {r} : req'[q] = req[q],
           req'[r].pc \notin {"pay", "paying"},
           UNCHANGED <<audit, lost, orders, settled>>
    PROVE  CountedInv'
  BY DEF CountedInv, CountedFirst, Covered

\* The audit row, written or lost, covers the payment it allows.
LEMMA CountedAudit ==
    ASSUME TypeOK, CountedInv, NEW r \in Requests, WriteAudit(r) \/ AuditLost(r)
    PROVE  CountedInv'
<1>1. \A q \in Requests \ {r} : req'[q] = req[q]
  BY OthersKept DEF Pay
<1>2. At(r, "audit") /\ req' = [req EXCEPT ![r].pc = AfterAudit(r)]
  BY DEF WriteAudit, AuditLost, GoTo
<1>3. /\ req'[r].pc = AfterAudit(r) /\ req'[r].who = req[r].who
      /\ req'[r].invoice = req[r].invoice
  BY <1>2 DEF TypeOK, Request
<1>4. req[r].who \in Learners /\ req[r].invoice \in Invoices
  BY <1>2 DEF At, TypeOK, RequestOK
<1>13. /\ audit \in Rows /\ lost \in Rows
      /\ \/ /\ audit' = IF req[r].decision = "allowed" THEN WithRow(audit, r) ELSE audit
            /\ lost' = lost
         \/ /\ lost' = IF req[r].decision = "allowed" THEN WithRow(lost, r) ELSE lost
            /\ audit' = audit
  BY DEF WriteAudit, AuditLost, TypeOK
<1>14. \A rows \in Rows, l \in Learners :
        WithRow(rows, r)[l].invoices =
            IF l = req[r].who THEN rows[l].invoices \cup {req[r].invoice}
            ELSE rows[l].invoices
  BY <1>4, WithRowType
<1>15. \A l \in Learners : /\ audit[l].invoices \subseteq audit'[l].invoices
                           /\ lost[l].invoices \subseteq lost'[l].invoices
  BY <1>13, <1>14
<1>5. \A l \in Learners : Covered[l] \subseteq Covered'[l]
  BY <1>15 DEF Covered
<1>6. req'[r].pc \in {"pay", "paying"} => req[r].invoice \in Covered'[req[r].who]
  <2>1. req'[r].pc \in {"pay", "paying"} => req[r].decision = "allowed"
    BY <1>2, <1>3, AfterAuditType
  <2> QED
    BY <1>4, <1>13, <1>14, <2>1 DEF Covered
<1>7. orders' = orders /\ settled' = settled
  BY DEF WriteAudit, AuditLost, lnbits
<1>8. \A q \in Requests : req[q].pc \in {"pay", "paying"} => req[q].who \in Learners
  BY DEF TypeOK, RequestOK
<1>9. \A o \in orders : o.payer \in Learners
  BY DEF TypeOK
<1>10. \A q \in Requests :
          req'[q].pc \in {"pay", "paying"} => req'[q].invoice \in Covered'[req'[q].who]
  BY <1>1, <1>3, <1>5, <1>6, <1>8 DEF CountedInv
<1>11. \A o \in orders : o.invoice \in Covered'[o.payer]
  BY <1>5, <1>9 DEF CountedInv
<1>12. CountedFirst'
  BY <1>5, <1>7 DEF CountedInv, CountedFirst, Covered, TypeOK
<1> QED
  BY <1>7, <1>10, <1>11, <1>12 DEF CountedInv

LEMMA CountedStep == TypeOK /\ CountedInv /\ [Next]_vars => CountedInv'
<1> SUFFICES ASSUME TypeOK, CountedInv, [Next]_vars PROVE CountedInv'
  OBVIOUS
<1>1. ASSUME NEW r \in Requests, Submit(r) PROVE CountedInv'
  <2>1. req'[r].pc \in {"log", "audit", "decode"} /\ UNCHANGED <<audit, lost, orders, settled>>
    BY <1>1, SubmitEffect
  <2> QED
    BY <1>1, <2>1, OthersKept, CountedQuiet
<1>2. ASSUME NEW r \in Requests, Finish(r) PROVE CountedInv'
  <2>1. req'[r].pc \notin {"pay", "paying"} /\ UNCHANGED <<audit, lost, orders, settled>>
    BY <1>2 DEF Finish, LogArtifact, LogConflict, DatabaseFails, Deliver, Drop, Local,
                GoTo, Idle, lnbits, TypeOK, Request
  <2> QED
    BY <1>2, <2>1, OthersKept, CountedQuiet
<1>3. ASSUME NEW r \in Requests, Pay(r) PROVE CountedInv'
  <2>1. CASE Forward(r)
    <3>1. /\ At(r, "pay") /\ req' = [req EXCEPT ![r].pc = "paying"]
          /\ UNCHANGED <<audit, lost, settled>>
          /\ orders' = orders \cup {[invoice |-> req[r].invoice, payer |-> req[r].who]}
      BY <2>1 DEF Forward, GoTo, history
    <3>2. req[r].invoice \in Covered[req[r].who]
      BY <3>1 DEF At, CountedInv
    <3>3. \A q \in Requests :
             req'[q].pc \in {"pay", "paying"} => req'[q].invoice \in Covered[req'[q].who]
      BY <3>1, <3>2 DEF CountedInv, TypeOK, Request
    <3>4. \A o \in orders' : o.invoice \in Covered[o.payer]
      BY <3>1, <3>2 DEF CountedInv
    <3> QED
      BY <3>1, <3>3, <3>4 DEF CountedInv, CountedFirst, Covered
  <2>2. CASE DecodeOk(r) \/ DecodeFails(r) \/ ReadSpent(r) \/ PaidAnswer(r) \/ ErrorAnswer(r)
    <3>1. req'[r].pc \notin {"pay", "paying"} /\ UNCHANGED <<audit, lost, orders, settled>>
      BY <2>2 DEF DecodeOk, DecodeFails, ReadSpent, PaidAnswer, ErrorAnswer, Local,
                  lnbits, TypeOK, Request
    <3> QED
      BY <1>3, <3>1, OthersKept, CountedQuiet
  <2> QED
    BY <1>3, <2>1, <2>2, CountedAudit DEF Pay
<1>4. ASSUME NEW o \in orders, Settle(o) PROVE CountedInv'
  BY <1>4 DEF Settle, CountedInv, CountedFirst, Covered, TypeOK
<1>5. CASE Tick \/ UNCHANGED vars
  BY <1>5 DEF Tick, vars, lnbits, CountedInv, CountedFirst, Covered
<1> QED
  BY <1>1, <1>2, <1>3, <1>4, <1>5 DEF Next

\* No interleaving, lost row, failed order or late settlement lets LNbits
\* make a payment that was not counted against its learner first.
THEOREM CountedBeforeMoved == Spec => []CountedFirst
<1>1. Init => TypeOK /\ CountedInv
  BY InitType, CountedInit
<1>2. TypeOK /\ CountedInv /\ [Next]_vars => (TypeOK /\ CountedInv)'
  BY TypeStep, CountedStep
<1>3. TypeOK /\ CountedInv => CountedFirst
  BY DEF CountedInv
<1> QED
  BY <1>1, <1>2, <1>3, PTL DEF Spec

-----------------------------------------------------------------------------
(* The proof ledger.                                                       *)

\* LogMeansPaid and AnswerProvable made inductive: a handler that is about to
\* log an LNbits payment has seen it paid, and a simulated hash is never the
\* hash of an invoice.
LedgerInv ==
    /\ \A r \in Requests :
          /\ req[r].pc = "audit" /\ req[r].decision = "simulated"
                => req[r].artifact \notin Invoices
          /\ req[r].pc \in {"log", "ok"} /\ req[r].kind = "payment" /\ req[r].artifact \in Invoices
                => settled[req[r].artifact] = req[r].who
    /\ LogMeansPaid
    /\ AnswerProvable

LEMMA LedgerInit == Init => LedgerInv
<1> SUFFICES ASSUME Init PROVE LedgerInv
  OBVIOUS
<1>1. \A r \in Requests : req[r].pc = "idle"
  BY IdleType DEF Init
<1>2. \A i \in Invoices : log["payment"][i] = None
  BY DEF Init, Payments, Artifacts
<1> QED
  BY <1>1, <1>2 DEF LedgerInv, LogMeansPaid, AnswerProvable, At

\* A step of r that logs nothing keeps the invariant if r's next state does.
LEMMA LedgerQuiet ==
    ASSUME LedgerInv, NEW r \in Requests, \A q \in Requests \ {r} : req'[q] = req[q],
           req'[r].pc = "audit" /\ req'[r].decision = "simulated"
                => req'[r].artifact \notin Invoices,
           req'[r].pc = "log" /\ req'[r].kind = "payment" /\ req'[r].artifact \in Invoices
                => settled[req'[r].artifact] = req'[r].who,
           req'[r].pc # "ok",
           UNCHANGED <<log, settled>>
    PROVE  LedgerInv'
<1>1. LogMeansPaid'
  BY DEF LedgerInv, LogMeansPaid
<1>2. AnswerProvable'
  BY DEF LedgerInv, AnswerProvable, At
<1>3. \A q \in Requests :
          /\ req'[q].pc = "audit" /\ req'[q].decision = "simulated"
                => req'[q].artifact \notin Invoices
          /\ req'[q].pc \in {"log", "ok"} /\ req'[q].kind = "payment" /\ req'[q].artifact \in Invoices
                => settled'[req'[q].artifact] = req'[q].who
  BY DEF LedgerInv
<1> QED
  BY <1>1, <1>2, <1>3 DEF LedgerInv

LEMMA LedgerPay ==
    ASSUME TypeOK, LedgerInv, NEW r \in Requests, Pay(r)
    PROVE  LedgerInv'
<1> USE DEF At
<1>1. \A q \in Requests \ {r} : req'[q] = req[q]
  BY OthersKept
<1>2. UNCHANGED <<log, settled>>
  BY DEF Pay, DecodeOk, DecodeFails, ReadSpent, WriteAudit, AuditLost, Forward,
         PaidAnswer, ErrorAnswer, Local, lnbits
<1>3. CASE DecodeOk(r) \/ DecodeFails(r) \/ Forward(r) \/ ErrorAnswer(r)
  <2>1. DecodeOk(r) => req'[r].pc = "spent"
    BY DEF DecodeOk, Local, TypeOK, Request
  <2>2. DecodeFails(r) => req'[r].pc = "audit" /\ req'[r].decision = "decode_failed"
    BY DEF DecodeFails, Local, TypeOK, Request
  <2>3. Forward(r) => req'[r].pc = "paying"
    BY DEF Forward, GoTo, TypeOK, Request
  <2>4. ErrorAnswer(r) => req'[r].pc = "failed"
    BY DEF ErrorAnswer, Local, TypeOK, Request
  <2> QED
    BY <1>1, <1>2, <1>3, <2>1, <2>2, <2>3, <2>4, LedgerQuiet
<1>4. CASE ReadSpent(r)
  <2>1. req[r].amount \in Nat /\ audit[req[r].who].sats \in Nat
    BY <1>4 DEF ReadSpent, TypeOK, Request, RequestOK, Rows
  <2>2. req'[r].pc = "audit" /\ req'[r].decision # "simulated"
    BY <1>4, <2>1, DecideSpec DEF ReadSpent, Local, TypeOK, Request
  <2> QED
    BY <1>1, <1>2, <2>2, LedgerQuiet
<1>5. CASE WriteAudit(r) \/ AuditLost(r)
  <2>1. At(r, "audit") /\ req' = [req EXCEPT ![r].pc = AfterAudit(r)]
    BY <1>5 DEF WriteAudit, AuditLost, GoTo
  <2>2. /\ req'[r].pc = AfterAudit(r) /\ req'[r].artifact = req[r].artifact
    BY <2>1 DEF TypeOK, Request
  <2>3. req'[r].pc \in {"pay", "log", "failed"}
        /\ (req'[r].pc = "log" => req'[r].artifact \notin Invoices)
    BY <2>1, <2>2, AfterAuditType DEF LedgerInv
  <2> QED
    BY <1>1, <1>2, <2>3, LedgerQuiet
<1>6. CASE PaidAnswer(r)
  <2>1. /\ req'[r].pc = "log" /\ req'[r].artifact = req[r].invoice
        /\ req'[r].who = req[r].who /\ settled[req[r].invoice] = req[r].who
    BY <1>6 DEF PaidAnswer, Local, TypeOK, Request
  <2> QED
    BY <1>1, <1>2, <2>1, LedgerQuiet
<1> QED
  BY <1>3, <1>4, <1>5, <1>6 DEF Pay

LEMMA LedgerFinish ==
    ASSUME TypeOK, LedgerInv, NEW r \in Requests, Finish(r)
    PROVE  LedgerInv'
<1> USE DEF At
<1>1. \A q \in Requests \ {r} : req'[q] = req[q]
  BY OthersKept
<1>2. CASE LogArtifact(r)
  <2>1. /\ req[r].pc = "log" /\ log[req[r].kind][req[r].artifact] = None
        /\ log' = [log EXCEPT ![req[r].kind][req[r].artifact] = req[r].who]
        /\ settled' = settled
    BY <1>2 DEF LogArtifact, LogRow, lnbits
  <2>2. /\ req'[r].pc = "ok" /\ req'[r].kind = req[r].kind
        /\ req'[r].artifact = req[r].artifact /\ req'[r].who = req[r].who
    BY <1>2 DEF LogArtifact, GoTo, TypeOK, Request
  <2>3. /\ req[r].kind \in Payments /\ req[r].artifact \in Artifacts
        /\ req[r].who \in Learners
    BY <2>1 DEF TypeOK, Request, RequestOK
  <2>4. \A k \in Payments, a \in Artifacts :
           log'[k][a] = IF k = req[r].kind /\ a = req[r].artifact THEN req[r].who
                        ELSE log[k][a]
    BY <2>1, <2>3 DEF TypeOK
  <2>5. LogMeansPaid'
    <3> SUFFICES ASSUME NEW i \in Invoices, log'["payment"][i] # None
                 PROVE  settled[i] = log'["payment"][i]
      BY <2>1 DEF LogMeansPaid
    <3>1. i \in Artifacts /\ "payment" \in Payments
      BY DEF Artifacts, Payments
    <3> QED
      BY <2>1, <2>4, <3>1 DEF LedgerInv, LogMeansPaid
  <2>6. AnswerProvable'
    <3> SUFFICES ASSUME NEW q \in Requests, req'[q].pc = "ok"
                 PROVE  log'[req'[q].kind][req'[q].artifact] = req'[q].who
      BY DEF AnswerProvable
    <3>1. CASE q = r
      BY <2>2, <2>3, <2>4, <3>1
    <3>2. CASE q # r
      <4>1. /\ req'[q] = req[q] /\ req[q].pc = "ok"
            /\ log[req[q].kind][req[q].artifact] = req[q].who
        BY <1>1, <3>2 DEF LedgerInv, AnswerProvable
      <4>2. /\ req[q].kind \in Payments /\ req[q].artifact \in Artifacts
            /\ req[q].who # None
        BY <4>1, ConstantsAssumption DEF TypeOK, Request, RequestOK
      <4> QED
        BY <2>1, <2>4, <4>1, <4>2
    <3> QED
      BY <3>1, <3>2
  <2> QED
    BY <1>1, <2>1, <2>2, <2>5, <2>6 DEF LedgerInv
<1>3. CASE LogConflict(r) \/ DatabaseFails(r) \/ Deliver(r) \/ Drop(r)
  <2>1. req'[r].pc \in {"failed", "idle"} /\ UNCHANGED <<log, settled>>
    BY <1>3 DEF LogConflict, DatabaseFails, Deliver, Drop, Local, GoTo, lnbits, Idle,
                TypeOK, Request
  <2> QED
    BY <1>1, <2>1, LedgerQuiet
<1> QED
  BY <1>2, <1>3 DEF Finish

LEMMA LedgerStep == TypeOK /\ LedgerInv /\ [Next]_vars => LedgerInv'
<1> SUFFICES ASSUME TypeOK, LedgerInv, [Next]_vars PROVE LedgerInv'
  OBVIOUS
<1>1. ASSUME NEW r \in Requests, Submit(r) PROVE LedgerInv'
  BY <1>1, SubmitEffect, OthersKept, LedgerQuiet
<1>2. ASSUME NEW o \in orders, Settle(o) PROVE LedgerInv'
  <2>1. /\ settled[o.invoice] = None /\ settled' = [settled EXCEPT ![o.invoice] = o.payer]
        /\ UNCHANGED <<log, req>>
    BY <1>2 DEF Settle
  <2>2. \A i \in Invoices : settled[i] # None => settled'[i] = settled[i]
    BY <2>1 DEF TypeOK
  <2>3. \A r \in Requests : req[r].pc \in {"log", "ok"} => req[r].who # None
    BY ConstantsAssumption DEF TypeOK, RequestOK
  <2> QED
    BY <2>1, <2>2, <2>3 DEF LedgerInv, LogMeansPaid, AnswerProvable, At
<1>3. CASE Tick \/ UNCHANGED vars
  BY <1>3 DEF Tick, vars, lnbits, LedgerInv, LogMeansPaid, AnswerProvable, At
<1> QED
  BY <1>1, <1>2, <1>3, LedgerPay, LedgerFinish DEF Next

LEMMA LedgerAlways == Spec => [](TypeOK /\ LedgerInv)
<1>1. Init => TypeOK /\ LedgerInv
  BY InitType, LedgerInit
<1>2. TypeOK /\ LedgerInv /\ [Next]_vars => (TypeOK /\ LedgerInv)'
  BY TypeStep, LedgerStep
<1> QED
  BY <1>1, <1>2, PTL DEF Spec

\* A payment row for an invoice is only ever written after LNbits paid it on
\* the order of the row's learner.
THEOREM LoggedMeansPaid == Spec => []LogMeansPaid
<1>1. LedgerInv => LogMeansPaid
  BY DEF LedgerInv
<1> QED
  BY <1>1, LedgerAlways, PTL

\* Whoever is answered "paid", or given an invoice, owns the row that
\* complete_mission looks for, however hashes and invoices collide.
THEOREM AnswersProvable == Spec => []AnswerProvable
<1>1. LedgerInv => AnswerProvable
  BY DEF LedgerInv
<1> QED
  BY <1>1, LedgerAlways, PTL

-----------------------------------------------------------------------------
(* How far concurrent requests can overrun a learner's ceiling.            *)

P == MaxPaymentSats

\* l's requests that were allowed and have not written their row yet.
Deciders(l) ==
    {r \in Requests : req[r].pc = "audit" /\ req[r].decision = "allowed" /\ req[r].who = l}

Amounts == [r \in Requests |-> req[r].amount]

\* The rows hold `sats` and the requests S, of the given amounts, will add
\* theirs. One of them read the sum last: with its own row the ceiling of
\* the learner was kept when it decided, so every other member of S, and
\* every request that has written its row since, exceeds it by one payment
\* at most.
Within(S, amounts, sats) ==
    IF S = {} THEN sats <= AuditCeiling
    ELSE \E r \in S : sats + amounts[r] + (Cardinality(S) - 1) * P <= AuditCeiling

LEMMA CeilingTypes ==
    /\ P \in Nat /\ AuditCeiling \in Int
    /\ Cardinality(Requests) \in Nat \ {0}
    /\ AuditCeiling = MaxParticipantPayoutSats + (Cardinality(Requests) - 1) * P
<1>1. Cardinality(Requests) \in Nat \ {0}
  BY ConstantsAssumption, FS_CardinalityType, FS_EmptySet
<1> QED
  BY <1>1, ConstantsAssumption DEF P, AuditCeiling

LEMMA Subsets ==
    ASSUME NEW S \in SUBSET Requests
    PROVE  /\ IsFiniteSet(S) /\ Cardinality(S) \in Nat
           /\ Cardinality(S) <= Cardinality(Requests)
           /\ S # {} => Cardinality(S) >= 1
           /\ \A r \in S : Cardinality(S \ {r}) = Cardinality(S) - 1
           /\ \A r \in Requests \ S : Cardinality(S \cup {r}) = Cardinality(S) + 1
<1>1. IsFiniteSet(S) /\ Cardinality(S) <= Cardinality(Requests)
  BY ConstantsAssumption, FS_Subset
<1>2. Cardinality(S) \in Nat /\ (S # {} => Cardinality(S) # 0)
  BY <1>1, FS_CardinalityType, FS_EmptySet
<1> QED
  BY <1>1, <1>2, FS_RemoveElement, FS_AddElement

\* A member writes its row, loses it or is dropped.
LEMMA WithinShrinks ==
    ASSUME NEW S \in SUBSET Requests, NEW r \in S,
           NEW a \in [Requests -> Nat], NEW b \in [Requests -> Nat],
           \A q \in S : a[q] <= P,
           \A q \in S \ {r} : b[q] = a[q],
           NEW s \in Nat, NEW t \in Nat, t <= s + a[r],
           Within(S, a, s)
    PROVE  Within(S \ {r}, b, t)
<1> DEFINE k == Cardinality(S) - 1
<1>1. k \in Nat /\ Cardinality(S \ {r}) = k
  BY Subsets
<1>2. PICK q \in S : s + a[q] + k * P <= AuditCeiling
  BY DEF Within
<1>3. P \in Nat /\ AuditCeiling \in Int
  BY CeilingTypes
<1>4. CASE S \ {r} = {}
  <2>1. k = 0 /\ q = r
    BY <1>1, <1>4, FS_EmptySet
  <2>2. k * P = 0
    BY <1>3, <2>1
  <2>3. t <= AuditCeiling
    BY <1>2, <1>3, <2>1, <2>2
  <2> QED
    BY <1>4, <2>3 DEF Within
<1>5. CASE S \ {r} # {}
  <2>1. k >= 1
    BY <1>1, <1>5, Subsets
  <2>2. (k - 1) * P + P = k * P /\ k * P \in Nat /\ (k - 1) * P \in Nat
    BY <1>1, <1>3, <2>1
  <2> HIDE DEF k
  <2>3. CASE q # r
    <3>1. t + b[q] + (k - 1) * P <= AuditCeiling
      BY <1>2, <1>3, <2>2, <2>3
    <3> QED
      BY <1>1, <1>5, <2>3, <3>1 DEF Within
  <2>4. CASE q = r
    <3>1. PICK p \in S \ {r} : TRUE
      BY <1>5
    <3>2. b[p] <= P
      BY <3>1
    <3>3. t + b[p] + (k - 1) * P <= AuditCeiling
      BY <1>2, <1>3, <2>2, <2>4, <3>2
    <3> QED
      BY <1>1, <1>5, <3>1, <3>3 DEF Within
  <2> QED
    BY <2>3, <2>4
<1> QED
  BY <1>4, <1>5

\* A request reads the sum and is allowed: everyone in S read it earlier.
LEMMA WithinGrows ==
    ASSUME NEW S \in SUBSET Requests, NEW r \in Requests \ S,
           NEW b \in [Requests -> Nat], NEW s \in Nat,
           s + b[r] <= MaxParticipantPayoutSats
    PROVE  Within(S \cup {r}, b, s)
<1> DEFINE T == S \cup {r}
           k == Cardinality(T) - 1
           m == Cardinality(Requests) - 1
<1>1. k \in Nat /\ m \in Nat /\ k <= m
  <2>1. T \in SUBSET Requests /\ T # {}
    OBVIOUS
  <2> HIDE DEF T
  <2>2. /\ Cardinality(T) \in Nat /\ Cardinality(T) >= 1
        /\ Cardinality(T) <= Cardinality(Requests)
    BY <2>1, Subsets
  <2> QED
    BY <2>2, CeilingTypes
<1>2. P \in Nat /\ AuditCeiling = MaxParticipantPayoutSats + m * P
      /\ MaxParticipantPayoutSats \in Nat
  BY CeilingTypes, ConstantsAssumption
<1> HIDE DEF k, m
<1>3. k * P <= m * P /\ k * P \in Nat /\ m * P \in Nat
  <2>1. PICK d \in Nat : m = k + d
    BY <1>1
  <2>2. m * P = k * P + d * P /\ d * P \in Nat
    BY <1>1, <1>2, <2>1
  <2> QED
    BY <1>1, <1>2, <2>2
<1>4. s + b[r] + k * P <= AuditCeiling
  BY <1>2, <1>3
<1> QED
  BY <1>4 DEF Within, k

\* Nothing a member will add has changed.
LEMMA WithinSame ==
    ASSUME NEW S, NEW a, NEW b, \A q \in S : b[q] = a[q], NEW s, Within(S, a, s)
    PROVE  Within(S, b, s)
  BY DEF Within

LEMMA WithinBound ==
    ASSUME NEW S \in SUBSET Requests, NEW a \in [Requests -> Nat], NEW s \in Nat,
           Within(S, a, s)
    PROVE  s <= AuditCeiling
<1>1. CASE S = {}
  BY <1>1 DEF Within
<1>2. CASE S # {}
  <2> DEFINE k == Cardinality(S) - 1
  <2>1. PICK r \in S : s + a[r] + k * P <= AuditCeiling
    BY <1>2 DEF Within
  <2>2. k \in Nat /\ P \in Nat /\ AuditCeiling \in Int
    BY <1>2, Subsets, CeilingTypes
  <2> HIDE DEF k
  <2>3. k * P \in Nat
    BY <2>2
  <2> QED
    BY <2>1, <2>2, <2>3
<1> QED
  BY <1>1, <1>2

\* AuditBound made inductive.
AuditInv ==
    \A l \in Learners :
        /\ Within(Deciders(l), Amounts, audit[l].sats)
        /\ lost[l].sats <= auditFailures * P

LEMMA AuditInit == Init => AuditInv
<1> SUFFICES ASSUME Init, NEW l \in Learners
             PROVE  /\ Within(Deciders(l), Amounts, audit[l].sats)
                    /\ lost[l].sats <= auditFailures * P
  BY DEF AuditInv
<1>1. Deciders(l) = {}
  BY IdleType DEF Init, Deciders
<1>2. audit[l].sats = 0 /\ lost[l].sats = 0 /\ auditFailures = 0
  BY DEF Init, NoRows
<1>3. 0 <= AuditCeiling
  <2>1. (Cardinality(Requests) - 1) * P \in Nat
    BY CeilingTypes
  <2> QED
    BY <2>1, CeilingTypes, ConstantsAssumption
<1> QED
  BY <1>1, <1>2, <1>3, CeilingTypes DEF Within

LEMMA DecidersType ==
    ASSUME TypeOK
    PROVE  /\ Amounts \in [Requests -> Nat]
           /\ \A l : Deciders(l) \in SUBSET Requests
           /\ \A l, r : r \in Deciders(l) => Amounts[r] <= P
           /\ \A l \in Learners : audit[l].sats \in Nat /\ lost[l].sats \in Nat
  BY DEF TypeOK, Request, RequestOK, Amounts, Deciders, P, Rows

\* A step that lets nobody decide, count or forget a payment.
LEMMA AuditQuiet ==
    ASSUME AuditInv, NEW l \in Learners,
           Deciders(l)' = Deciders(l),
           \A q \in Deciders(l) : Amounts'[q] = Amounts[q],
           UNCHANGED <<audit, lost, auditFailures>>
    PROVE  /\ Within(Deciders(l)', Amounts', audit'[l].sats)
           /\ lost'[l].sats <= auditFailures' * P
  BY WithinSame DEF AuditInv

\* What a step of r means for the learners it does not decide for.
LEMMA OtherDeciders ==
    ASSUME TypeOK, TypeOK', NEW r \in Requests, NEW l \in Learners,
           \A q \in Requests \ {r} : req'[q] = req[q]
    PROVE  /\ Deciders(l)' \ {r} = Deciders(l) \ {r}
           /\ \A q \in Requests \ {r} : Amounts'[q] = Amounts[q]
  BY DEF Deciders, Amounts, TypeOK

\* What a step of r counts against l: at most r's own amount, and only when r
\* was deciding for l; r starts deciding only within the ceiling.
AuditEffect(r, l) ==
    /\ r \in Deciders(l)' =>
          /\ r \notin Deciders(l)
          /\ audit[l].sats + Amounts'[r] <= MaxParticipantPayoutSats
    /\ \/ audit'[l].sats = audit[l].sats
       \/ r \in Deciders(l) /\ audit'[l].sats = audit[l].sats + Amounts[r]
    /\ \/ lost'[l].sats = lost[l].sats /\ auditFailures' = auditFailures
       \/ lost'[l].sats <= lost[l].sats + P /\ auditFailures' = auditFailures + 1

\* A step that writes no row and after which r is not deciding.
LEMMA EffectNone ==
    ASSUME NEW r \in Requests, NEW l \in Learners,
           req'[r].pc # "audit" \/ req'[r].decision # "allowed",
           UNCHANGED <<audit, lost, auditFailures>>
    PROVE  AuditEffect(r, l)
  BY DEF AuditEffect, Deciders

LEMMA EffectReadSpent ==
    ASSUME TypeOK, TypeOK', NEW r \in Requests, NEW l \in Learners, ReadSpent(r)
    PROVE  AuditEffect(r, l)
<1> DEFINE d == Decide(req[r].amount, audit[req[r].who].sats)
<1>1. /\ req[r].pc = "spent" /\ UNCHANGED <<audit, lost, auditFailures>>
      /\ req' = [req EXCEPT ![r] = [req[r] EXCEPT !.pc = "audit", !.decision = d]]
  BY DEF ReadSpent, Local, At, history
<1>2. req[r].amount \in Nat /\ audit[req[r].who].sats \in Nat
  BY <1>1 DEF TypeOK, Request, RequestOK, Rows
<1>3. d = "allowed" => audit[req[r].who].sats + req[r].amount <= MaxParticipantPayoutSats
  BY <1>2, DecideSpec
<1> HIDE DEF d
<1>4. /\ req'[r].pc = "audit" /\ req'[r].decision = d
      /\ req'[r].amount = req[r].amount /\ req'[r].who = req[r].who
  BY <1>1 DEF TypeOK, Request
<1>5. Amounts'[r] = req[r].amount
  BY <1>4 DEF Amounts
<1> QED
  BY <1>1, <1>3, <1>4, <1>5 DEF AuditEffect, Deciders

LEMMA EffectAudit ==
    ASSUME TypeOK, NEW r \in Requests, NEW l \in Learners, WriteAudit(r) \/ AuditLost(r)
    PROVE  AuditEffect(r, l)
<1>1. req[r].pc = "audit" /\ req' = [req EXCEPT ![r].pc = AfterAudit(r)]
  BY DEF WriteAudit, AuditLost, GoTo, At
<1>2. req'[r].pc # "audit"
  BY <1>1, AfterAuditType DEF At, TypeOK, Request
<1>3. r \notin Deciders(l)'
  BY <1>2 DEF Deciders
<1>4. req[r].who \in Learners /\ req[r].invoice \in Invoices /\ req[r].amount \in Nat
  BY <1>1 DEF TypeOK, Request, RequestOK
<1>5. \A rows \in Rows : WithRow(rows, r)[l].sats =
           IF l = req[r].who THEN rows[l].sats + req[r].amount ELSE rows[l].sats
  BY <1>4, WithRowType
<1>6. req[r].decision = "allowed" => req[r].amount <= P
  BY DEF TypeOK, RequestOK, P
<1>7. /\ audit \in Rows /\ lost \in Rows /\ P \in Nat
      /\ audit[l].sats \in Nat /\ lost[l].sats \in Nat
  BY CeilingTypes DEF TypeOK, Rows
<1>8. Amounts[r] = req[r].amount
  BY DEF Amounts
<1>9. CASE WriteAudit(r)
  <2>1. /\ audit' = IF req[r].decision = "allowed" THEN WithRow(audit, r) ELSE audit
        /\ lost' = lost /\ auditFailures' = auditFailures
    BY <1>9 DEF WriteAudit, history
  <2>2. \/ audit'[l].sats = audit[l].sats
        \/ r \in Deciders(l) /\ audit'[l].sats = audit[l].sats + Amounts[r]
    <3>1. CASE req[r].decision = "allowed" /\ l = req[r].who
      BY <1>1, <1>5, <1>7, <1>8, <2>1, <3>1 DEF Deciders
    <3>2. CASE ~(req[r].decision = "allowed" /\ l = req[r].who)
      BY <1>5, <1>7, <2>1, <3>2
    <3> QED
      BY <3>1, <3>2
  <2> QED
    BY <1>3, <2>1, <2>2 DEF AuditEffect
<1>10. CASE AuditLost(r)
  <2>1. /\ lost' = IF req[r].decision = "allowed" THEN WithRow(lost, r) ELSE lost
        /\ audit' = audit /\ auditFailures' = auditFailures + 1
    BY <1>10 DEF AuditLost
  <2>2. lost'[l].sats <= lost[l].sats + P
    BY <1>4, <1>5, <1>6, <1>7, <2>1
  <2> QED
    BY <1>3, <2>1, <2>2 DEF AuditEffect
<1> QED
  BY <1>9, <1>10

LEMMA EffectAny ==
    ASSUME TypeOK, TypeOK', NEW r \in Requests, NEW l \in Learners,
           Submit(r) \/ Pay(r) \/ Finish(r)
    PROVE  AuditEffect(r, l)
<1>1. CASE Submit(r)
  BY <1>1, SubmitEffect, EffectNone
<1>2. CASE Pay(r)
  <2>1. CASE DecodeOk(r) \/ DecodeFails(r) \/ Forward(r) \/ PaidAnswer(r) \/ ErrorAnswer(r)
    <3>1. req'[r].pc # "audit" \/ req'[r].decision # "allowed"
      <4>1. DecodeOk(r) => req'[r].pc = "spent"
        BY DEF DecodeOk, Local, TypeOK, Request
      <4>2. DecodeFails(r) => req'[r].decision = "decode_failed"
        BY DEF DecodeFails, Local, TypeOK, Request
      <4>3. Forward(r) => req'[r].pc = "paying"
        BY DEF Forward, GoTo, TypeOK, Request
      <4>4. PaidAnswer(r) => req'[r].pc = "log"
        BY DEF PaidAnswer, Local, TypeOK, Request
      <4>5. ErrorAnswer(r) => req'[r].pc = "failed"
        BY DEF ErrorAnswer, Local, TypeOK, Request
      <4> QED
        BY <2>1, <4>1, <4>2, <4>3, <4>4, <4>5
    <3>2. UNCHANGED <<audit, lost, auditFailures>>
      BY <2>1 DEF DecodeOk, DecodeFails, Forward, PaidAnswer, ErrorAnswer, Local, history
    <3> QED
      BY <3>1, <3>2, EffectNone
  <2> QED
    BY <1>2, <2>1, EffectReadSpent, EffectAudit DEF Pay
<1>3. CASE Finish(r)
  <2>1. req'[r].pc \in {"ok", "failed", "idle"}
    BY <1>3 DEF Finish, LogArtifact, LogConflict, DatabaseFails, Deliver, Drop, Local,
                GoTo, Idle, TypeOK, Request
  <2>2. UNCHANGED <<audit, lost, auditFailures>>
    BY <1>3 DEF Finish, LogArtifact, LogConflict, DatabaseFails, Deliver, Drop, Local,
                history, Fault
  <2> QED
    BY <2>1, <2>2, EffectNone
<1> QED
  BY <1>1, <1>2, <1>3

LEMMA AuditStep == TypeOK /\ AuditInv /\ [Next]_vars => AuditInv'
<1> SUFFICES ASSUME TypeOK, AuditInv, [Next]_vars PROVE AuditInv'
  OBVIOUS
<1> TypeOK'
  BY TypeStep
<1>1. ASSUME NEW r \in Requests, Submit(r) \/ Pay(r) \/ Finish(r), NEW l \in Learners
      PROVE  /\ Within(Deciders(l)', Amounts', audit'[l].sats)
             /\ lost'[l].sats <= auditFailures' * P
  <2> DEFINE D == Deciders(l)
             E == Deciders(l)'
  <2>1. /\ AuditEffect(r, l)
        /\ E \ {r} = D \ {r}
        /\ \A q \in Requests \ {r} : Amounts'[q] = Amounts[q]
    BY <1>1, EffectAny, OthersKept, OtherDeciders
  <2>2. /\ D \in SUBSET Requests /\ E \in SUBSET Requests
        /\ Amounts \in [Requests -> Nat] /\ Amounts' \in [Requests -> Nat]
        /\ \A q \in D : Amounts[q] <= P
        /\ audit[l].sats \in Nat /\ lost[l].sats \in Nat
        /\ audit'[l].sats \in Nat /\ lost'[l].sats \in Nat
        /\ P \in Nat /\ auditFailures \in Nat
    BY DecidersType, CeilingTypes DEF TypeOK, Deciders, Amounts, Request, Rows
  <2>3. Within(D, Amounts, audit[l].sats) /\ lost[l].sats <= auditFailures * P
    BY DEF AuditInv
  <2>4. lost'[l].sats <= auditFailures' * P
    <3>1. (auditFailures + 1) * P = auditFailures * P + P
      BY <2>2
    <3> QED
      BY <2>1, <2>2, <2>3, <3>1 DEF AuditEffect
  <2>5. Within(E, Amounts', audit'[l].sats)
    <3>1. CASE r \in D
      <4>1. E = D \ {r} /\ audit'[l].sats <= audit[l].sats + Amounts[r]
        BY <2>1, <2>2, <3>1 DEF AuditEffect
      <4> HIDE DEF D, E
      <4> QED
        BY <2>1, <2>2, <2>3, <3>1, <4>1, WithinShrinks
    <3>2. CASE r \in E
      <4>1. /\ r \notin D /\ E = D \cup {r} /\ audit'[l].sats = audit[l].sats
            /\ audit[l].sats + Amounts'[r] <= MaxParticipantPayoutSats
        BY <2>1, <3>2 DEF AuditEffect
      <4> HIDE DEF D, E
      <4> QED
        BY <2>2, <4>1, WithinGrows
    <3>3. CASE r \notin D /\ r \notin E
      <4>1. /\ E = D /\ audit'[l].sats = audit[l].sats
            /\ \A q \in D : Amounts'[q] = Amounts[q]
        <5>1. E = D
          BY <2>1, <3>3
        <5>2. audit'[l].sats = audit[l].sats
          BY <2>1, <3>3 DEF AuditEffect
        <5>3. \A q \in D : q \in Requests \ {r}
          BY <2>2, <3>3
        <5> QED
          BY <2>1, <5>1, <5>2, <5>3
      <4> HIDE DEF D, E
      <4> QED
        BY <2>3, <4>1, WithinSame
    <3> QED
      BY <3>1, <3>2, <3>3
  <2> QED
    BY <2>4, <2>5
<1>2. CASE (\E o \in orders : Settle(o)) \/ Tick \/ UNCHANGED vars
  <2>1. UNCHANGED <<req, audit, lost, auditFailures>>
    BY <1>2 DEF Settle, Tick, vars, history
  <2>2. \A l \in Learners : Deciders(l)' = Deciders(l)
    BY <2>1 DEF Deciders
  <2>3. Amounts' = Amounts
    BY <2>1 DEF Amounts
  <2> QED
    BY <2>1, <2>2, <2>3 DEF AuditInv
<1> QED
  BY <1>1, <1>2 DEF Next, AuditInv

\* With N request slots, the rows of a learner exceed the ceiling by at most
\* N - 1 payments, and rows that could not be written by one payment each.
THEOREM CeilingOverrunBounded == Spec => []AuditBound
<1>1. Init => TypeOK /\ AuditInv
  BY InitType, AuditInit
<1>2. TypeOK /\ AuditInv /\ [Next]_vars => (TypeOK /\ AuditInv)'
  BY TypeStep, AuditStep
<1>3. TypeOK /\ AuditInv => AuditBound
  BY DecidersType, WithinBound DEF AuditInv, AuditBound, P
<1> QED
  BY <1>1, <1>2, <1>3, PTL DEF Spec

-----------------------------------------------------------------------------
(* The refinement of PayoutBudget.                                         *)

\* The millisats of the invoices of S fit side by side into room: each takes an
\* interval of its own. It says that their sum is at most room, without a sum.
Laid(place, S, room) ==
    /\ \A i \in S : place[i] + MsatOf[i] <= room
    /\ \A i, j \in S : i # j => \/ place[i] + MsatOf[i] <= place[j]
                                \/ place[j] + MsatOf[j] <= place[i]

Fits(S, room) == \E place \in [Invoices -> Nat] : Laid(place, S, room)

LEMMA FitsWider ==
    ASSUME NEW S \in SUBSET Invoices, NEW T \in SUBSET S,
           NEW room \in Nat, NEW wider \in Nat, room <= wider, Fits(S, room)
    PROVE  Fits(T, wider)
<1>1. PICK place \in [Invoices -> Nat] : Laid(place, S, room)
  BY DEF Fits
<1>2. \A i \in S : place[i] + MsatOf[i] \in Nat
  BY MsatOfType
<1>3. Laid(place, T, wider)
  BY <1>1, <1>2 DEF Laid
<1> QED
  BY <1>3 DEF Fits

\* A further invoice goes on top.
LEMMA FitsAdd ==
    ASSUME NEW S \in SUBSET Invoices, NEW room \in Nat, NEW i \in Invoices, i \notin S,
           Fits(S, room)
    PROVE  Fits(S \cup {i}, room + MsatOf[i])
<1>1. PICK place \in [Invoices -> Nat] : Laid(place, S, room)
  BY DEF Fits
<1> DEFINE above == [place EXCEPT ![i] = room]
<1>2. above \in [Invoices -> Nat] /\ above[i] = room /\ \A j \in S : above[j] = place[j]
  OBVIOUS
<1>3. MsatOf[i] \in Nat /\ \A j \in S : place[j] + MsatOf[j] \in Nat
  BY MsatOfType
<1> HIDE DEF above
<1>4. Laid(above, S \cup {i}, room + MsatOf[i])
  BY <1>1, <1>2, <1>3 DEF Laid
<1> QED
  BY <1>2, <1>4 DEF Fits

\* Taking an invoice out, what lies above it moves down.
LEMMA FitsRemove ==
    ASSUME NEW S \in SUBSET Invoices, NEW room \in Nat, NEW i \in S, Fits(S, room)
    PROVE  MsatOf[i] <= room /\ Fits(S \ {i}, room - MsatOf[i])
<1>1. PICK place \in [Invoices -> Nat] : Laid(place, S, room)
  BY DEF Fits
<1>2. /\ MsatOf[i] \in Nat /\ place[i] \in Nat
      /\ \A j \in Invoices : MsatOf[j] \in Nat /\ place[j] \in Nat
  BY MsatOfType
<1> DEFINE lower == [j \in Invoices |->
                       IF place[j] + MsatOf[j] <= place[i] THEN place[j]
                       ELSE IF MsatOf[i] <= place[j] THEN place[j] - MsatOf[i]
                       ELSE 0]
<1>3. lower \in [Invoices -> Nat]
  BY <1>2
<1>4. \A j \in S \ {i} :
         \/ place[j] + MsatOf[j] <= place[i] /\ lower[j] = place[j]
         \/ place[i] + MsatOf[i] <= place[j] /\ lower[j] = place[j] - MsatOf[i]
  BY <1>1, <1>2 DEF Laid
<1> HIDE DEF lower
<1>5. Laid(lower, S \ {i}, room - MsatOf[i])
  <2>1. \A j \in S \ {i} : lower[j] + MsatOf[j] <= room - MsatOf[i]
    BY <1>1, <1>2, <1>4 DEF Laid
  <2>2. ASSUME NEW j \in S \ {i}, NEW k \in S \ {i}, j # k
        PROVE  lower[j] + MsatOf[j] <= lower[k] \/ lower[k] + MsatOf[k] <= lower[j]
    <3>1. \/ place[j] + MsatOf[j] <= place[k]
          \/ place[k] + MsatOf[k] <= place[j]
      BY <1>1, <2>2 DEF Laid
    <3>2. j \in Invoices /\ k \in Invoices /\ i \in Invoices
      OBVIOUS
    <3> QED
      BY <1>2, <1>4, <3>1, <3>2
  <2> QED
    BY <2>1, <2>2 DEF Laid
<1>6. MsatOf[i] <= room
  BY <1>1, <1>2 DEF Laid
<1> QED
  BY <1>3, <1>5, <1>6 DEF Fits

Unpaid(l) == {i \in Covered[l] : settled[i] # l}

\* The amount a request is judged and counted with is that of its invoice.
SatsKnown(x) ==
    x.pc = "spent" \/ (x.pc = "audit" /\ x.decision = "allowed")
        => x.amount = SatsOf(x.invoice)

\* Millisats that moved were asked for by counted payments, and what these asked for
\* and has not moved has room for every invoice of theirs that may still be paid.
LearnerBudget(l) ==
    /\ paid[l] <= AskedFor[l]
    /\ Fits(Unpaid(l), AskedFor[l] - paid[l])
    /\ \A i \in Covered[l] : SatsOf(i) <= MaxPaymentSats

BudgetInv ==
    /\ \A r \in Requests : SatsKnown(req[r])
    /\ \A l \in Learners : LearnerBudget(l)

LEMMA BudgetTypes ==
    ASSUME TypeOK, NEW l \in Learners
    PROVE  /\ Counted[l] \in Nat /\ AskedFor[l] \in Nat /\ paid[l] \in Nat
           /\ audit[l].sats \in Nat /\ lost[l].sats \in Nat
           /\ Covered[l] \in SUBSET Invoices /\ Unpaid(l) \in SUBSET Invoices
  BY DEF TypeOK, Rows, Counted, AskedFor, Covered, Unpaid

LEMMA BudgetInit == Init => BudgetInv
<1> SUFFICES ASSUME Init PROVE BudgetInv
  OBVIOUS
<1>1. \A r \in Requests : SatsKnown(req[r])
  BY DEF Init, Idle, SatsKnown
<1>2. ASSUME NEW l \in Learners PROVE LearnerBudget(l)
  <2>1. AskedFor[l] = 0 /\ paid[l] = 0 /\ Covered[l] = {} /\ Unpaid(l) = {}
    BY DEF Init, NoRows, AskedFor, Covered, Unpaid
  <2>2. [i \in Invoices |-> 0] \in [Invoices -> Nat]
    OBVIOUS
  <2>3. Laid([i \in Invoices |-> 0], {}, 0)
    BY DEF Laid
  <2>4. Fits({}, 0)
    BY <2>2, <2>3 DEF Fits
  <2> QED
    BY <2>1, <2>4 DEF LearnerBudget
<1> QED
  BY <1>1, <1>2 DEF BudgetInv

\* A step of r that neither counts nor pays.
LEMMA BudgetQuiet ==
    ASSUME BudgetInv, NEW r \in Requests, \A q \in Requests \ {r} : req'[q] = req[q],
           SatsKnown(req'[r]), UNCHANGED <<audit, lost, settled, paid>>
    PROVE  BudgetInv'
  BY DEF BudgetInv, LearnerBudget, SatsKnown, Counted, AskedFor, Covered, Unpaid

\* What an audit row, written or lost, adds to its learner's account.
LEMMA CountedEffect ==
    ASSUME TypeOK, NEW r \in Requests, WriteAudit(r) \/ AuditLost(r)
    PROVE  IF req[r].decision = "allowed"
           THEN /\ req[r].who \in Learners /\ req[r].invoice \in Invoices
                /\ Counted' = [Counted EXCEPT ![req[r].who] = @ + req[r].amount]
                /\ AskedFor' = [AskedFor EXCEPT ![req[r].who] = @ + MsatOf[req[r].invoice]]
                /\ Covered' = [Covered EXCEPT ![req[r].who] = @ \cup {req[r].invoice}]
           ELSE Counted' = Counted /\ AskedFor' = AskedFor /\ Covered' = Covered
<1>1. /\ req[r].who \in Learners /\ req[r].invoice \in Invoices
      /\ req[r].amount \in Nat /\ audit \in Rows /\ lost \in Rows
  BY DEF WriteAudit, AuditLost, At, TypeOK, RequestOK, Request
<1>2. CASE req[r].decision # "allowed"
  BY <1>2 DEF WriteAudit, AuditLost, Counted, AskedFor, Covered
<1>3. CASE req[r].decision = "allowed"
  <2> DEFINE w == req[r].who
             i == req[r].invoice
  <2>1. \A rows \in Rows, l \in Learners :
          /\ WithRow(rows, r)[l].sats =
                IF l = w THEN rows[l].sats + req[r].amount ELSE rows[l].sats
          /\ WithRow(rows, r)[l].msats =
                IF l = w THEN rows[l].msats + MsatOf[i] ELSE rows[l].msats
          /\ WithRow(rows, r)[l].invoices =
                IF l = w THEN rows[l].invoices \cup {i} ELSE rows[l].invoices
    BY <1>1, WithRowType
  <2>2. \/ audit' = WithRow(audit, r) /\ lost' = lost
        \/ lost' = WithRow(lost, r) /\ audit' = audit
    BY <1>3 DEF WriteAudit, AuditLost
  <2>3. /\ MsatOf[i] \in Nat
        /\ \A l \in Learners : /\ audit[l].sats \in Nat /\ lost[l].sats \in Nat
                              /\ audit[l].msats \in Nat /\ lost[l].msats \in Nat
    BY <1>1, MsatOfType DEF Rows
  <2> HIDE DEF w, i
  <2>4. ASSUME NEW l \in Learners
        PROVE  /\ audit'[l].sats + lost'[l].sats =
                    IF l = w THEN audit[l].sats + lost[l].sats + req[r].amount
                    ELSE audit[l].sats + lost[l].sats
               /\ audit'[l].msats + lost'[l].msats =
                    IF l = w THEN audit[l].msats + lost[l].msats + MsatOf[i]
                    ELSE audit[l].msats + lost[l].msats
               /\ audit'[l].invoices \cup lost'[l].invoices =
                    IF l = w THEN audit[l].invoices \cup lost[l].invoices \cup {i}
                    ELSE audit[l].invoices \cup lost[l].invoices
    <3>1. /\ WithRow(audit, r)[l].sats =
                IF l = w THEN audit[l].sats + req[r].amount ELSE audit[l].sats
          /\ WithRow(lost, r)[l].sats =
                IF l = w THEN lost[l].sats + req[r].amount ELSE lost[l].sats
      BY <1>1, <2>1
    <3>2. audit'[l].sats + lost'[l].sats =
            IF l = w THEN audit[l].sats + lost[l].sats + req[r].amount
            ELSE audit[l].sats + lost[l].sats
      BY <1>1, <2>2, <2>3, <3>1
    <3>3. /\ WithRow(audit, r)[l].invoices =
                IF l = w THEN audit[l].invoices \cup {i} ELSE audit[l].invoices
          /\ WithRow(lost, r)[l].invoices =
                IF l = w THEN lost[l].invoices \cup {i} ELSE lost[l].invoices
      BY <1>1, <2>1
    <3>4. audit'[l].invoices \cup lost'[l].invoices =
            IF l = w THEN audit[l].invoices \cup lost[l].invoices \cup {i}
            ELSE audit[l].invoices \cup lost[l].invoices
      BY <2>2, <3>3
    <3>5. /\ WithRow(audit, r)[l].msats =
                IF l = w THEN audit[l].msats + MsatOf[i] ELSE audit[l].msats
          /\ WithRow(lost, r)[l].msats =
                IF l = w THEN lost[l].msats + MsatOf[i] ELSE lost[l].msats
      BY <1>1, <2>1
    <3>6. audit'[l].msats + lost'[l].msats =
            IF l = w THEN audit[l].msats + lost[l].msats + MsatOf[i]
            ELSE audit[l].msats + lost[l].msats
      BY <1>1, <2>2, <2>3, <3>5
    <3> QED
      BY <3>2, <3>4, <3>6
  <2> USE DEF w, i
  <2>5. Counted' = [Counted EXCEPT ![w] = @ + req[r].amount]
    BY <2>4 DEF Counted
  <2>6. Covered' = [Covered EXCEPT ![w] = @ \cup {i}]
    BY <2>4 DEF Covered
  <2>7. AskedFor' = [AskedFor EXCEPT ![w] = @ + MsatOf[i]]
    BY <2>4 DEF AskedFor
  <2> QED
    BY <1>1, <1>3, <2>5, <2>6, <2>7
<1> QED
  BY <1>2, <1>3

LEMMA BudgetAudit ==
    ASSUME TypeOK, BudgetInv, NEW r \in Requests, WriteAudit(r) \/ AuditLost(r)
    PROVE  BudgetInv'
<1>1. /\ \A q \in Requests \ {r} : req'[q] = req[q]
      /\ At(r, "audit") /\ UNCHANGED <<settled, paid>>
      /\ req' = [req EXCEPT ![r].pc = AfterAudit(r)]
  BY OthersKept DEF Pay, WriteAudit, AuditLost, lnbits, GoTo
<1>2. \A q \in Requests : SatsKnown(req'[q])
  <2>1. req'[r].pc \in {"pay", "log", "failed"}
    BY <1>1, AfterAuditType DEF TypeOK, Request
  <2> QED
    BY <1>1, <2>1 DEF SatsKnown, BudgetInv
<1>3. CASE req[r].decision # "allowed"
  <2>1. AskedFor' = AskedFor /\ Covered' = Covered
    BY <1>3, CountedEffect
  <2> QED
    BY <1>1, <1>2, <2>1 DEF BudgetInv, LearnerBudget, Unpaid
<1>4. CASE req[r].decision = "allowed"
  <2>1. PICK w \in Learners, i \in Invoices :
           /\ i = req[r].invoice
           /\ AskedFor' = [AskedFor EXCEPT ![w] = @ + MsatOf[i]]
           /\ Covered' = [Covered EXCEPT ![w] = @ \cup {i}]
    BY <1>4, CountedEffect
  <2>2. SatsOf(i) <= MaxPaymentSats /\ MsatOf[i] \in Nat
    BY <1>1, <1>4, <2>1, MsatOfType DEF BudgetInv, SatsKnown, At, TypeOK, RequestOK, Request
  <2>3. ASSUME NEW l \in Learners, l # w PROVE LearnerBudget(l)'
    BY <1>1, <2>1, <2>3 DEF BudgetInv, LearnerBudget, Unpaid, AskedFor, Covered
  <2>4. LearnerBudget(w)'
    <3> DEFINE room == AskedFor[w] - paid[w]
    <3>1. /\ AskedFor'[w] = AskedFor[w] + MsatOf[i] /\ Covered'[w] = Covered[w] \cup {i}
          /\ paid'[w] = paid[w] /\ settled' = settled
      BY <1>1, <2>1, <2>2 DEF AskedFor, Covered
    <3>2. /\ AskedFor[w] \in Nat /\ paid[w] \in Nat /\ Unpaid(w) \in SUBSET Invoices
          /\ paid[w] <= AskedFor[w] /\ Fits(Unpaid(w), room)
          /\ \A j \in Covered[w] : SatsOf(j) <= MaxPaymentSats
      BY <2>1, BudgetTypes DEF BudgetInv, LearnerBudget
    <3>3. room \in Nat /\ MsatOf[i] \in Nat /\ AskedFor'[w] - paid'[w] = room + MsatOf[i]
      BY <2>2, <3>1, <3>2
    <3> HIDE DEF room
    <3>4. Fits(Unpaid(w)', room + MsatOf[i])
      <4>1. CASE Unpaid(w)' = Unpaid(w)
        BY <2>1, <3>2, <3>3, <4>1, FitsWider
      <4>2. CASE Unpaid(w)' # Unpaid(w)
        <5>1. Unpaid(w)' = Unpaid(w) \cup {i} /\ i \notin Unpaid(w)
          BY <3>1, <4>2 DEF Unpaid
        <5> QED
          BY <2>1, <3>2, <3>3, <5>1, FitsAdd
      <4> QED
        BY <4>1, <4>2
    <3> QED
      BY <2>2, <3>1, <3>2, <3>3, <3>4 DEF LearnerBudget
  <2> QED
    BY <1>2, <2>3, <2>4 DEF BudgetInv
<1> QED
  BY <1>3, <1>4

LEMMA BudgetSettle ==
    ASSUME TypeOK, CountedInv, BudgetInv, NEW o \in orders, Settle(o)
    PROVE  /\ BudgetInv'
           /\ paid[o.payer] + MsatOf[o.invoice] <= AskedFor[o.payer]
<1> DEFINE w == o.payer
           i == o.invoice
           room == AskedFor[w] - paid[w]
<1>1. /\ w \in Learners /\ i \in Invoices /\ i \in Covered[w]
      /\ \A l \in Learners : settled[i] # l
      /\ settled' = [settled EXCEPT ![i] = w]
      /\ paid' = [paid EXCEPT ![w] = @ + MsatOf[i]]
      /\ UNCHANGED <<audit, lost, req>>
  BY ConstantsAssumption DEF Settle, TypeOK, CountedInv
<1>2. AskedFor' = AskedFor /\ Covered' = Covered
  BY <1>1 DEF AskedFor, Covered
<1>3. /\ AskedFor[w] \in Nat /\ paid[w] \in Nat /\ Unpaid(w) \in SUBSET Invoices
      /\ paid[w] <= AskedFor[w] /\ Fits(Unpaid(w), room)
      /\ \A j \in Covered[w] : SatsOf(j) <= MaxPaymentSats
      /\ MsatOf[i] \in Nat
  BY <1>1, BudgetTypes, MsatOfType DEF BudgetInv, LearnerBudget
<1>4. room \in Nat
  BY <1>3
<1>5. i \in Unpaid(w)
  BY <1>1 DEF Unpaid
<1> HIDE DEF room
<1>6. MsatOf[i] <= room /\ Fits(Unpaid(w) \ {i}, room - MsatOf[i])
  BY <1>3, <1>4, <1>5, FitsRemove
<1>7. Unpaid(w)' = Unpaid(w) \ {i}
  BY <1>1, <1>2 DEF Unpaid, TypeOK
<1>8. paid'[w] = paid[w] + MsatOf[i] /\ \A l \in Learners \ {w} : paid'[l] = paid[l]
  BY <1>1 DEF TypeOK
<1>9. LearnerBudget(w)'
  BY <1>2, <1>3, <1>6, <1>7, <1>8 DEF LearnerBudget, room
<1>10. ASSUME NEW l \in Learners, l # w PROVE LearnerBudget(l)'
  <2>1. Unpaid(l)' \subseteq Unpaid(l) /\ Unpaid(l) \in SUBSET Invoices
    BY <1>1, <1>2, <1>10, BudgetTypes DEF Unpaid, TypeOK
  <2>2. /\ AskedFor[l] \in Nat /\ paid[l] \in Nat /\ LearnerBudget(l)
        /\ AskedFor[l] - paid[l] \in Nat
    BY BudgetTypes DEF BudgetInv, LearnerBudget
  <2>3. Fits(Unpaid(l)', AskedFor[l] - paid[l])
    BY <2>1, <2>2, FitsWider DEF LearnerBudget
  <2> QED
    BY <1>2, <1>8, <1>10, <2>2, <2>3 DEF LearnerBudget
<1>11. BudgetInv'
  BY <1>1, <1>9, <1>10 DEF BudgetInv
<1> QED
  BY <1>1, <1>3, <1>6, <1>11 DEF room

LEMMA BudgetStep == TypeOK /\ CountedInv /\ BudgetInv /\ [Next]_vars => BudgetInv'
<1> SUFFICES ASSUME TypeOK, CountedInv, BudgetInv, [Next]_vars PROVE BudgetInv'
  OBVIOUS
<1>1. ASSUME NEW r \in Requests, Submit(r) PROVE BudgetInv'
  <2>1. SatsKnown(req'[r]) /\ UNCHANGED <<audit, lost, settled>>
    BY <1>1, SubmitEffect DEF SatsKnown
  <2>2. UNCHANGED paid
    BY <1>1 DEF Submit, SubmitSimulatedInvoice, SubmitRealInvoice, SubmitSimulated,
                SubmitReal, Local, lnbits
  <2> QED
    BY <1>1, <2>1, <2>2, OthersKept, BudgetQuiet
<1>2. ASSUME NEW r \in Requests, Finish(r) PROVE BudgetInv'
  <2>1. req'[r].pc \in {"ok", "failed", "idle"} /\ UNCHANGED <<audit, lost, settled, paid>>
    BY <1>2 DEF Finish, LogArtifact, LogConflict, DatabaseFails, Deliver, Drop, Local,
                GoTo, Idle, lnbits, TypeOK, Request
  <2> QED
    BY <1>2, <2>1, OthersKept, BudgetQuiet DEF SatsKnown
<1>3. ASSUME NEW r \in Requests, Pay(r) PROVE BudgetInv'
  <2>1. CASE DecodeOk(r) \/ DecodeFails(r) \/ Forward(r) \/ PaidAnswer(r) \/ ErrorAnswer(r)
    <3>1. DecodeOk(r) => SatsKnown(req'[r])
      BY DEF DecodeOk, Local, TypeOK, Request, SatsKnown
    <3>2. DecodeFails(r) => SatsKnown(req'[r])
      BY DEF DecodeFails, Local, TypeOK, Request, SatsKnown
    <3>3. Forward(r) \/ PaidAnswer(r) \/ ErrorAnswer(r)
            => req'[r].pc \in {"paying", "log", "failed"}
      BY DEF Forward, PaidAnswer, ErrorAnswer, Local, GoTo, TypeOK, Request
    <3>4. SatsKnown(req'[r])
      BY <2>1, <3>1, <3>2, <3>3 DEF SatsKnown
    <3>5. UNCHANGED <<audit, lost, settled, paid>>
      BY <2>1 DEF DecodeOk, DecodeFails, Forward, PaidAnswer, ErrorAnswer, Local, lnbits
    <3> QED
      BY <1>3, <3>4, <3>5, OthersKept, BudgetQuiet
  <2>2. CASE ReadSpent(r)
    <3>1. /\ req[r].amount = SatsOf(req[r].invoice) /\ UNCHANGED <<audit, lost, settled, paid>>
          /\ req'[r].amount = req[r].amount /\ req'[r].invoice = req[r].invoice
      BY <2>2 DEF ReadSpent, At, Local, lnbits, TypeOK, Request, SatsKnown, BudgetInv
    <3> QED
      BY <1>3, <3>1, OthersKept, BudgetQuiet DEF SatsKnown
  <2> QED
    BY <1>3, <2>1, <2>2, BudgetAudit DEF Pay
<1>4. ASSUME NEW o \in orders, Settle(o) PROVE BudgetInv'
  BY <1>4, BudgetSettle
<1>5. CASE Tick \/ UNCHANGED vars
  BY <1>5 DEF Tick, vars, lnbits, BudgetInv, LearnerBudget, SatsKnown, Counted, AskedFor, Covered, Unpaid
<1> QED
  BY <1>1, <1>2, <1>3, <1>4, <1>5 DEF Next

LEMMA ProductGrows ==
    ASSUME NEW each \in Nat, NEW b \in Nat, NEW a \in 0..b
    PROVE  a * each <= b * each
<1>1. b = a + (b - a) /\ b - a \in Nat /\ a \in Nat
  OBVIOUS
<1>2. b * each = a * each + (b - a) * each
  BY <1>1
<1>3. (b - a) * each \in Nat /\ a * each \in Nat /\ b * each \in Nat
  BY <1>1
<1> QED
  BY <1>2, <1>3

\* Every step of the handler and of LNbits counts, moves, or does neither.
LEMMA BudgetRefined ==
    ASSUME TypeOK, TypeOK', CountedInv, BudgetInv, AuditBound', [Next]_vars
    PROVE  [Budget!Next]_(Budget!vars)
<1>1. ASSUME UNCHANGED <<audit, lost, paid>> PROVE UNCHANGED Budget!vars
  BY <1>1 DEF Budget!vars, Counted, AskedFor
<1>2. ASSUME NEW r \in Requests, WriteAudit(r) \/ AuditLost(r)
      PROVE  [Budget!Next]_(Budget!vars)
  <2>1. UNCHANGED paid
    BY <1>2 DEF WriteAudit, AuditLost, lnbits
  <2>2. CASE req[r].decision # "allowed"
    BY <1>1, <1>2, <2>1, <2>2 DEF WriteAudit, AuditLost
  <2>3. CASE req[r].decision = "allowed"
    <3>1. PICK w \in Learners, i \in Invoices :
             /\ SatsOf(i) <= MaxPaymentSats
             /\ Counted' = [Counted EXCEPT ![w] = @ + SatsOf(i)]
             /\ AskedFor' = [AskedFor EXCEPT ![w] = @ + MsatOf[i]]
      <4>1. /\ req[r].who \in Learners /\ req[r].invoice \in Invoices
            /\ Counted' = [Counted EXCEPT ![req[r].who] = @ + req[r].amount]
            /\ AskedFor' = [AskedFor EXCEPT ![req[r].who] = @ + MsatOf[req[r].invoice]]
        BY <1>2, <2>3, CountedEffect
      <4>2. req[r].amount = SatsOf(req[r].invoice) /\ req[r].amount <= MaxPaymentSats
        BY <1>2, <2>3 DEF WriteAudit, AuditLost, At, BudgetInv, SatsKnown, TypeOK, RequestOK
      <4> QED
        BY <4>1, <4>2
    <3>2. Counted'[w] = Counted[w] + SatsOf(i)
      BY <3>1 DEF Counted
    <3>3. Counted'[w] <= Ceiling
      <4> DEFINE each == MaxPaymentSats
      <4>1. /\ each \in Nat /\ MaxAuditFailures \in Nat /\ AuditCeiling \in Int
        BY CeilingTypes, ConstantsAssumption
      <4>2. /\ auditFailures' \in 0..MaxAuditFailures
            /\ audit'[w].sats \in Nat /\ lost'[w].sats \in Nat
            /\ audit'[w].sats <= AuditCeiling /\ lost'[w].sats <= auditFailures' * each
        BY DEF TypeOK, Rows, AuditBound
      <4>3. auditFailures' * each <= MaxAuditFailures * each
        BY <4>1, <4>2, ProductGrows
      <4>4. Counted'[w] = audit'[w].sats + lost'[w].sats
        BY DEF Counted
      <4> QED
        BY <4>1, <4>2, <4>3, <4>4 DEF Ceiling
    <3>4. Budget!Count(w, MsatOf[i])
      BY <2>1, <3>1, <3>2, <3>3 DEF Budget!Count, SatsOf
    <3> QED
      BY <3>4 DEF Budget!Next
  <2> QED
    BY <2>2, <2>3
<1>3. ASSUME NEW o \in orders, Settle(o) PROVE [Budget!Next]_(Budget!vars)
  <2>1. /\ o.payer \in Learners /\ o.invoice \in Invoices
        /\ paid[o.payer] + MsatOf[o.invoice] <= AskedFor[o.payer]
    BY <1>3, BudgetSettle DEF TypeOK
  <2>2. Budget!Move(o.payer, MsatOf[o.invoice])
    BY <1>3, <2>1 DEF Settle, Budget!Move, Counted, AskedFor
  <2> QED
    BY <2>1, <2>2 DEF Budget!Next
<1>4. ASSUME NEW r \in Requests, Submit(r) \/ Finish(r) \/ (Pay(r) /\ ~WriteAudit(r) /\ ~AuditLost(r))
      PROVE  UNCHANGED <<audit, lost, paid>>
  <2>1. CASE Submit(r)
    BY <2>1 DEF Submit, SubmitSimulatedInvoice, SubmitRealInvoice, SubmitSimulated,
                SubmitReal, Local, lnbits
  <2>2. CASE Finish(r)
    BY <2>2 DEF Finish, LogArtifact, LogConflict, DatabaseFails, Deliver, Drop, Local, lnbits
  <2>3. CASE Pay(r) /\ ~WriteAudit(r) /\ ~AuditLost(r)
    BY <2>3 DEF Pay, DecodeOk, DecodeFails, ReadSpent, Forward, PaidAnswer, ErrorAnswer,
                Local, lnbits
  <2> QED
    BY <1>4, <2>1, <2>2, <2>3
<1>5. CASE Tick \/ UNCHANGED vars
  BY <1>1, <1>5 DEF Tick, vars, lnbits
<1> QED
  BY <1>1, <1>2, <1>3, <1>4, <1>5 DEF Next

\* The handler implements the abstract budget: whatever is in flight, lost or settled
\* late, millisats move only for payments that were counted before, what is counted
\* stays within the ceiling of N concurrent requests, and each payment moves less than
\* a sat more than it was counted with.
THEOREM PayoutsImplementBudget == Spec => ImplementsBudget
<1>1. Init => Budget!Init
  BY DEF Init, NoRows, Counted, AskedFor, Budget!Init
<1>2. Init => TypeOK /\ CountedInv /\ BudgetInv
  BY InitType, CountedInit, BudgetInit
<1>3. TypeOK /\ CountedInv /\ BudgetInv /\ [Next]_vars
         => (TypeOK /\ CountedInv /\ BudgetInv)'
  BY TypeStep, CountedStep, BudgetStep
<1>4. TypeOK /\ TypeOK' /\ CountedInv /\ BudgetInv /\ AuditBound' /\ [Next]_vars
         => [Budget!Next]_(Budget!vars)
  BY BudgetRefined
<1>5. Spec => []AuditBound
  BY CeilingOverrunBounded
<1> QED
  BY <1>1, <1>2, <1>3, <1>4, <1>5, PTL DEF Spec, ImplementsBudget, Budget!Spec

-----------------------------------------------------------------------------
(* The documented ceiling.                                                 *)

WholeSats == \A i \in Invoices : MsatOf[i] % 1000 = 0

WholeInv == \A l \in Learners : AskedFor[l] = 1000 * Counted[l]

\* Without residues the count says what the payments ask for.
LEMMA WholeStep ==
    ASSUME WholeSats, TypeOK, BudgetInv, WholeInv, [Next]_vars
    PROVE  WholeInv'
<1>1. ASSUME UNCHANGED <<audit, lost>> PROVE WholeInv'
  BY <1>1 DEF WholeInv, Counted, AskedFor
<1>2. ASSUME NEW r \in Requests, WriteAudit(r) \/ AuditLost(r) PROVE WholeInv'
  <2>1. CASE req[r].decision # "allowed"
    BY <1>2, <2>1, CountedEffect DEF WholeInv
  <2>2. CASE req[r].decision = "allowed"
    <3>1. PICK w \in Learners, i \in Invoices :
             /\ Counted' = [Counted EXCEPT ![w] = @ + SatsOf(i)]
             /\ AskedFor' = [AskedFor EXCEPT ![w] = @ + MsatOf[i]]
      <4>1. /\ req[r].who \in Learners /\ req[r].invoice \in Invoices
            /\ Counted' = [Counted EXCEPT ![req[r].who] = @ + req[r].amount]
            /\ AskedFor' = [AskedFor EXCEPT ![req[r].who] = @ + MsatOf[req[r].invoice]]
        BY <1>2, <2>2, CountedEffect
      <4>2. req[r].amount = SatsOf(req[r].invoice)
        BY <1>2, <2>2 DEF WriteAudit, AuditLost, At, BudgetInv, SatsKnown
      <4> QED
        BY <4>1, <4>2
    <3>2. SatsOf(i) \in Nat /\ MsatOf[i] = 1000 * SatsOf(i)
      BY MsatOfType DEF WholeSats, SatsOf
    <3>3. ASSUME NEW l \in Learners PROVE AskedFor'[l] = 1000 * Counted'[l]
      <4>1. /\ Counted'[l] = IF l = w THEN Counted[l] + SatsOf(i) ELSE Counted[l]
            /\ AskedFor'[l] = IF l = w THEN AskedFor[l] + MsatOf[i] ELSE AskedFor[l]
        BY <3>1 DEF Counted, AskedFor
      <4> QED
        BY <3>2, <4>1, BudgetTypes DEF WholeInv
    <3> QED
      BY <3>3 DEF WholeInv
  <2> QED
    BY <2>1, <2>2
<1>3. ASSUME NEW r \in Requests, Submit(r) \/ Finish(r) \/ (Pay(r) /\ ~WriteAudit(r) /\ ~AuditLost(r))
      PROVE  UNCHANGED <<audit, lost>>
  <2>1. CASE Submit(r)
    BY <2>1, SubmitEffect
  <2>2. CASE Finish(r)
    BY <2>2 DEF Finish, LogArtifact, LogConflict, DatabaseFails, Deliver, Drop, Local
  <2>3. CASE Pay(r) /\ ~WriteAudit(r) /\ ~AuditLost(r)
    BY <2>3 DEF Pay, DecodeOk, DecodeFails, ReadSpent, Forward, PaidAnswer, ErrorAnswer, Local
  <2> QED
    BY <1>3, <2>1, <2>2, <2>3
<1>4. CASE Tick \/ UNCHANGED vars \/ \E o \in orders : Settle(o)
  BY <1>1, <1>4 DEF Tick, vars, Settle
<1> QED
  BY <1>1, <1>2, <1>3, <1>4 DEF Next

\* The ceiling that .env.example documents holds of what LNbits paid, to the millisat,
\* under three conditions: requests are served one at a time, no audit row is lost and
\* every invoice asks for whole sats. The run payouts_ceiling breaks it without the
\* first; a lost row, or residues of any number of payments, break it as well.
THEOREM CeilingExactAlone ==
    ASSUME Cardinality(Requests) = 1, MaxAuditFailures = 0, WholeSats
    PROVE  Spec => []CeilingKept
<1>1. Init => TypeOK /\ CountedInv /\ BudgetInv /\ WholeInv
  <2>1. Init => WholeInv
    BY DEF Init, NoRows, WholeInv, Counted, AskedFor
  <2> QED
    BY <2>1, InitType, CountedInit, BudgetInit
<1>2. TypeOK /\ CountedInv /\ BudgetInv /\ WholeInv /\ [Next]_vars
         => (TypeOK /\ CountedInv /\ BudgetInv /\ WholeInv)'
  BY TypeStep, CountedStep, BudgetStep, WholeStep
<1>3. TypeOK /\ BudgetInv /\ WholeInv /\ AuditBound => CeilingKept
  <2> SUFFICES ASSUME TypeOK, BudgetInv, WholeInv, AuditBound, NEW l \in Learners
               PROVE  paid[l] <= 1000 * MaxParticipantPayoutSats
    BY DEF CeilingKept
  <2>1. AuditCeiling = MaxParticipantPayoutSats
    BY ConstantsAssumption DEF AuditCeiling
  <2>2. auditFailures = 0 /\ lost[l].sats <= 0
    BY ConstantsAssumption DEF TypeOK, AuditBound
  <2>3. /\ audit[l].sats <= MaxParticipantPayoutSats
        /\ audit[l].sats \in Nat /\ lost[l].sats \in Nat /\ paid[l] \in Nat
        /\ paid[l] <= 1000 * (audit[l].sats + lost[l].sats)
    BY <2>1, BudgetTypes DEF AuditBound, BudgetInv, LearnerBudget, Counted, WholeInv
  <2> QED
    BY <2>2, <2>3, ConstantsAssumption
<1>4. Spec => []AuditBound
  BY CeilingOverrunBounded
<1> QED
  BY <1>1, <1>2, <1>3, <1>4, PTL DEF Spec
============================================================================
