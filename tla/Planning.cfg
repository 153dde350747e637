CONSTANTS
    h1 = h1
    h2 = h2
    Handlers = {h1, h2}
    Rounds = 3
    MaxRequests = 5
    MaxProposals = 2
    MaxCodes = 2
SYMMETRY HandlersSymmetry
SPECIFICATION Spec
INVARIANTS
    TypeOK
    TasksFollowTheRun
    SpecNotLost
    PublishedWasDecided
PROPERTIES
    InterviewAdvances
CHECK_DEADLOCK FALSE
