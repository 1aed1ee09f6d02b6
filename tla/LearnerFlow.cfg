\* A learner from another device pastes the key registered there. Two actions at once, of
\* the screen and of one that was left; two badge refreshes at once; one loss.
SPECIFICATION Spec
CONSTANTS
    m1 = m1
    m2 = m2
    m3 = m3
    k1 = k1
    k2 = k2
    d1 = d1
    d2 = d2
    None = None
    Missions = {m1, m2, m3}
    Trees <- TwoPaths
    KindOf <- Publishing
    Secrets = {k1}
    Earlier = k1
    Pasted = {k1}
    Slots = {d1, d2}
    MaxLost = 1
    MaxNews = 2
SYMMETRY Symmetry
INVARIANTS TypeOK OneAtATime BadgesEarned OwnProof AskedFirst
