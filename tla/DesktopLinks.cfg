SPECIFICATION Spec
CONSTANTS
    Windows = {w1, w2}
    Roaming = {w1}
    Loose = {w1}
    None = None
    MaxDesktops = 3
    MaxQueue = 4
    MaxChanges = 6
INVARIANTS
    TypeOK
    MapSound
    DesktopsShown
CHECK_DEADLOCK FALSE
