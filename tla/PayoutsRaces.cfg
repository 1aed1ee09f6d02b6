\* Real payouts, real invoices with simulated payments, or everything simulated:
\* two learners who may order the same invoice, two requests, a fault and a lost
\* audit row.
SPECIFICATION Spec
CONSTANTS
    Learners = {l1, l2}
    Requests = {r1, r2}
    small = small
    large = large
    excessive = excessive
    Invoices <- MCPayable
    MsatOf <- MCMsatOf
    Configurations <- MCEveryConfiguration
    MaxPaymentSats = 2
    MaxParticipantPayoutSats = 4
    InvoiceAmounts = {1}
    FirstSecond = 1
    LastSecond = 2
    MaxFaults = 1
    MaxAuditFailures = 1
    None = None
SYMMETRY Symmetry
INVARIANTS TypeOK AuditBound CountedFirst LogMeansPaid AnswerProvable
PROPERTY ImplementsBudget
