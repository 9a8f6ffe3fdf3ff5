CONSTANTS
    MoveEnergy = 1
    Gains = {1}
    WorldEvery = 2
    MaxMonsters = 1
    Depths = {"Town", "L1", "L2"}
    MaxDescent = 1
    Readings = {"none"}
SPECIFICATION Spec
INVARIANTS
    ArenaFlagFits
CHECK_DEADLOCK FALSE
