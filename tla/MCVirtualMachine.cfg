CONSTANTS
    s1 = s1
    s2 = s2
    s3 = s3
    a = a
    b = b
    c1 = c1
    c2 = c2
    Sessions = {s1, s2, s3}
    Resources = {a, b}
    Contexts = {c1, c2}
    ContextOf <- TwoAndOne
    ThreadsOf <- EnoughThreads
    Scripts <- OrderedScripts
    Budget = 2
    NoSession = NoSession
SPECIFICATION FairSpec
INVARIANTS
    LocksExclusive
    NothingLeftBehind
PROPERTY
    LocksReleased
CHECK_DEADLOCK FALSE
