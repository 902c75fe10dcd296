SPECIFICATION FollowerSpec
CONSTANTS
    Threads = {t1, t2}
    Handles = {h1}
    MaxBacklog = 1
    INVALID = 100
    MaxEvents = 1
    PipeCapacity = 1
    Unknown = Unknown
INVARIANTS
    FollowerKnows
PROPERTIES
    BlockedReaderAnswered
    AbortedReaderReturns
    ShutdownReleasesAll
CHECK_DEADLOCK FALSE
