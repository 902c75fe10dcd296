SPECIFICATION Spec
CONSTANTS
    Windows = {w1}
    Names = {n1}
    None = None
    Setups <- IdsReused
    MaxQueue = 3
    MaxChanges = 5
INVARIANTS
    MappedMirrored
CHECK_DEADLOCK FALSE
