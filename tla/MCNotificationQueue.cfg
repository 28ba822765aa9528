SPECIFICATION FairSpec
CONSTANTS
    Threads = {t1, t2, t3}
    NoThread = NoThread
    MaxItems = 2
INVARIANTS
    NoLostWakeup
PROPERTIES
    ImplementsChannel
    DoneReleases
CHECK_DEADLOCK FALSE
