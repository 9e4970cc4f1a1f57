CONSTANTS
    s1 = s1
    s2 = s2
    s3 = s3
    a = a
    b = b
    c1 = c1
    c2 = c2
    Sessions = {s1, s2}
    Resources = {a}
    Contexts = {c1}
    ContextOf <- Together
    ThreadsOf <- OneThread
    Scripts <- LockScripts
    Budget = 1
    NoSession = NoSession
SPECIFICATION FairSpec
PROPERTY
    LocksReleased
CHECK_DEADLOCK FALSE
