CONSTANTS
    Capacity = 3
    ThreadCounts = {0, 1}
    NoContext = NoContext
    Sessions = {s1, s2}
    NumWorkers = {1, 2}
    NumThreads = {1, 2}
    ControlBudget = 3
    NoSession = NoSession
SPECIFICATION Spec
INVARIANTS
    CountersExact
    SessionsOnLiveContexts
    StoppedHasNoRefs
    HeldContextsActive
    HandlerUndisturbed
    OpenSessionCanClose
PROPERTY
    LifeSpec
SYMMETRY SessionSymmetry
CHECK_DEADLOCK FALSE
