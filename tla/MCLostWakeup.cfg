CONSTANTS
    Guards = {g1, g2}
    Triggerers = {t1}
    NoThread = NoThread
SPECIFICATION FairSpec
PROPERTY
    TriggerUnblocks
CHECK_DEADLOCK FALSE
