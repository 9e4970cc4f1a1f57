CONSTANTS
    Sessions = {s1, s2}
    Callers = {c1}
    Pollers <- MCPollers
    MaxCount = 2
SPECIFICATION FairSpec
INVARIANTS
    DeltasSweptOnce
    LoneSweepExact
    TeardownSafe
PROPERTY
    SignalEndsProcess
CHECK_DEADLOCK FALSE
