SPECIFICATION Spec
CONSTANTS
    Threads = {t1, t2}
    Handles = {h1, h2}
    MaxBacklog = 2
    INVALID = 100
    MaxEvents = 3
    PipeCapacity = 1
INVARIANTS
    TypeOK
    CursorInQueue
    NoLostWakeup
    BlockedIsRegistered
PROPERTIES
    InOrder
    ReadToTheEnd
    ImplementsStream
SYMMETRY Symmetry
CHECK_DEADLOCK FALSE
