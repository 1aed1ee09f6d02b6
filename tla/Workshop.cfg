SPECIFICATION LiveSpec
CONSTANTS
    s1 = s1
    anna = anna
    a = a
    b = b
    tree = tree
    None = None
    Sessions = {s1}
    Learners = {anna}
    Lessons = {a, b}
    Trees = {tree}
    Requests = {r1, r2}
    Contests <- MCContests
    Releases = 2
    TreeMissions <- MCTreeMissions
    MinAge = 1
    Timeout = 1
    LastTime = 4
    MaxFaults = 1
INVARIANT TypeOK
INVARIANT NobodyOrphaned
INVARIANT OneCertificate
INVARIANT CertificateTrue
INVARIANT CertificateHonoured
PROPERTY BoardOnlyGrows
PROPERTY ScoresSettle
PROPERTY FinalShown
CHECK_DEADLOCK FALSE
