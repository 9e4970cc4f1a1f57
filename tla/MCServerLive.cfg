CONSTANTS
    Capacity = 2
    ThreadCounts = {0, 1}
    NoContext = NoContext
    Sessions = {s1, s2}
    NumWorkers = {2}
    NumThreads = {1}
    ControlBudget = 2
    NoSession = NoSession
SPECIFICATION FairSpec
PROPERTIES
    SessionsReturn
    DeactivationReturns
    AcceptLoopGoesOn
    StopReturns
CHECK_DEADLOCK FALSE
