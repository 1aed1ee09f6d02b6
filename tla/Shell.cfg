\* A tab, two requests in flight of which any may be lost; a workshop others run, a pruned
\* one and one id for a session of our own; a learner who may move here from another device.
SPECIFICATION Spec
CONSTANTS
    Tabs = {t1}
    Calls = {c1, c2}
    Sessions = {s1, s2, s3}
    Participants = {p1, p2}
    Workshop = s1
    Gone = s2
    Remote = {p2}
    Typo = Typo
    None = None
    MaxSubmits = 2
SYMMETRY Symmetry
INVARIANTS TypeOK NeverBlank StoredTogether ActsAsShown
