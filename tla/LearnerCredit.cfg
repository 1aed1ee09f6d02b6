\* The result of one lesson is shown over another, which is then credited.
SPECIFICATION Spec
CONSTANTS
    m1 = m1
    m2 = m2
    m3 = m3
    k1 = k1
    k2 = k2
    d1 = d1
    d2 = d2
    None = None
    Missions = {m1, m2, m3}
    Trees <- TwoPaths
    KindOf <- Deriving
    Secrets = {k1, k2}
    Earlier = None
    Pasted = {k1, k2}
    Slots = {d1}
    MaxLost = 0
    MaxNews = 1
INVARIANT CreditEarned
