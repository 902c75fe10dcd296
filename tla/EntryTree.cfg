SPECIFICATION FairSpec
CONSTANTS
    Objs = {o1, o2, o3, o4, o5}
    Handles = {h1, h2}
    Threads = {t1, t2}
    Root = Root
    None = None
    Windows <- MCWindows
    Files <- MCFiles
    EventFiles <- MCEventFiles
    Paths <- MCPaths
INVARIANTS
    TypeOK
    NoUseAfterFree
    RefcountExact
    LinkedOrDeleted
    LookupRight
PROPERTIES
    AbandonedIsFreed
CHECK_DEADLOCK FALSE
