SPECIFICATION Spec
CONSTANTS
    Windows = {w1, w2}
    Names = {n1}
    None = None
    Setups <- AllSetups
    MaxQueue = 3
    MaxChanges = 4
INVARIANTS
    TypeOK
    NoZombies
    WindowsShown
    DirShowsWindow
SYMMETRY Symmetry
CHECK_DEADLOCK FALSE
