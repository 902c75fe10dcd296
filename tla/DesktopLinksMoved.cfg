SPECIFICATION Spec
CONSTANTS
    Windows = {w1}
    Roaming = {w1}
    Loose = {}
    None = None
    MaxDesktops = 2
    MaxQueue = 3
    MaxChanges = 4
INVARIANTS
    LinksRight
CHECK_DEADLOCK FALSE
