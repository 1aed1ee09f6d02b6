\* Two concurrent payments of whole sats against the documented ceiling.
SPECIFICATION Spec
CONSTANTS
    Learners = {l1}
    Requests = {r1, r2}
    small = small
    large = large
    excessive = excessive
    Invoices <- MCWholeSats
    MsatOf <- MCMsatOf
    Configurations <- MCPayoutsOnly
    MaxPaymentSats = 3
    MaxParticipantPayoutSats = 3
    InvoiceAmounts = {}
    FirstSecond = 1
    LastSecond = 1
    MaxFaults = 0
    MaxAuditFailures = 0
    None = None
SYMMETRY Symmetry
INVARIANT CeilingKept
