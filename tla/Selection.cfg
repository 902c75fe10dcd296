SPECIFICATION FairSpec
CONSTANTS
    t1 = t1
    t2 = t2
    c1 = c1
    c2 = c2
    Threads = {t1, t2}
    Contents = {c1, c2}
    None = None
    Setups <- AllSetups
    MaxOutstanding = 2
INVARIANTS
    TypeOK
    ReadCurrent
    WrittenIsKept
PROPERTIES
    NotAllStuck
    AbortedReaderReturns
CHECK_DEADLOCK FALSE
