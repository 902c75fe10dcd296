SPECIFICATION FairSpec
CONSTANTS
    Threads = {t1}
    Dirs = {d1}
    PipeCapacity = 2
    None = None
PROPERTIES
    BlockedCallWoken
CHECK_DEADLOCK FALSE
