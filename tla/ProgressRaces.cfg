\* One learner, two requests in flight, a deploy at any moment, one day: the
\* order of lessons and the truth of the answers under every interleaving.
SPECIFICATION Spec
CONSTANTS
    Learners = {l1}
    Missions = {1, 2, 3, 4, 5}
    Lightning = Lightning
    Money = Money
    Receive = Receive
    Trees <- MCTrees
    Journeys <- MCJourneys
    Requests = {r1, r2}
    Keys = {k1}
    IdentityMissions = {4}
    Releases = 2
    TreeMissions <- MCTwoBuilds
    JourneyMissions <- MCJourneyMissions
    FirstDay = 2
    LastDay = 2
    MaxFaults = 1
    None = None
SYMMETRY Symmetry
INVARIANTS TypeOK GateOrder PointersSound AnswersTrue IdentityBound
