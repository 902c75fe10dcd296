SPECIFICATION FairSpec
CONSTANTS
    Threads = {t1, t2}
    Files = {"active_window"}
    Values = {1}
    None = None
    MaxEvents = 2
    MaxCalls = 2
INVARIANTS
    TypeOK
    FilesCurrent
    LocksMove
    OwnersWhole
    ArgumentsParsed
PROPERTIES
    ChangesShow
CHECK_DEADLOCK FALSE
