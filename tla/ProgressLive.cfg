\* A persistent learner, two requests, one fault, a deploy that reopens a tree.
SPECIFICATION FairSpec
CONSTANTS
    Learners = {l1}
    Missions = {1, 4, 5}
    Lightning = Lightning
    Money = Money
    Receive = Receive
    Trees <- MCTrees
    Journeys = {}
    Requests = {r1, r2}
    Keys = {k1}
    IdentityMissions = {4}
    Releases = 2
    TreeMissions <- MCReopening
    JourneyMissions <- MCNoJourneys
    FirstDay = 2
    LastDay = 2
    MaxFaults = 1
    None = None
PROPERTIES TreesFinished
