\* Four days, two requests that overlap midnight, the identity lesson, and a deploy
\* that reopens a finished tree.
SPECIFICATION Spec
CONSTANTS
    Learners = {l1}
    Missions = {1, 4, 5}
    Lightning = Lightning
    Money = Money
    Receive = Receive
    Trees <- MCTrees
    Journeys = {}
    Requests = {r1, r2}
    Keys = {k1}
    IdentityMissions = {4}
    Releases = 2
    TreeMissions <- MCReopening
    JourneyMissions <- MCNoJourneys
    FirstDay = 2
    LastDay = 5
    MaxFaults = 1
    None = None
SYMMETRY Symmetry
INVARIANTS StreakExact
PROPERTY ImplementsCourse
