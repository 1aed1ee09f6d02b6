\* A learner on a second device pastes a valid key that is not the one they registered.
SPECIFICATION Spec
CONSTANTS
    m1 = m1
    m2 = m2
    m3 = m3
    k1 = k1
    k2 = k2
    d1 = d1
    d2 = d2
    None = None
    Missions = {m1, m2, m3}
    Trees <- TwoPaths
    KindOf <- Publishing
    Secrets = {k1, k2}
    Earlier = k1
    Pasted = {k1, k2}
    Slots = {d1}
    MaxLost = 0
    MaxNews = 1
INVARIANT NotDeadEnded
