SPECIFICATION FairSpec
CONSTANTS
    t1 = t1
    t2 = t2
    c1 = c1
    c2 = c2
    Threads = {t1, t2}
    Contents = {c1, c2}
    None = None
    Setups <- OnlyReaders
    MaxOutstanding = 2
PROPERTIES
    ReadAnswered
