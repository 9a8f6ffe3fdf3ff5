CONSTANTS
    Grids = {g1}
    NoGrid = NoGrid
    DisableTime = 2
    MaxLayers = 3
    MaxTimed = 6
SPECIFICATION Spec
INVARIANT RemovalEnds
CHECK_DEADLOCK FALSE
