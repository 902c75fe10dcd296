SPECIFICATION Spec
CONSTANTS
    Threads = {t1, t2}
    Dirs = {d1, d2}
    PipeCapacity = 2
    None = None
INVARIANTS
    TypeOK
    NoSleepThrough
    ShutdownBlocksNobody
    AbortsReachTheirFile
    OnlyKnownDeadlocks
SYMMETRY Symmetry
CHECK_DEADLOCK FALSE
