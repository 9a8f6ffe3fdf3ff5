CONSTANTS
    Grids = {g1, g2}
    NoGrid = NoGrid
    DisableTime = 2
    MaxLayers = 3
    MaxTimed = 6
SYMMETRY Symmetry
VIEW View
SPECIFICATION Spec
INVARIANTS
    TypeOK
    OnePlayerTrap
    OneDecoyTracked
    NoTimerSkipped
    KnownInView
CHECK_DEADLOCK FALSE
