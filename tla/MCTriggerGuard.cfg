CONSTANTS
    Guards = {g1, g2, g3}
    Triggerers = {t1, t2}
    NoThread = NoThread
SPECIFICATION FairSpec
INVARIANTS
    GuardInv
    GuardExcludesTrigger
PROPERTIES
    GateSpec
    BlockedBehindGuardWakes
CHECK_DEADLOCK FALSE
