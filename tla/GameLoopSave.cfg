CONSTANTS
    MoveEnergy = 1
    Gains = {1}
    WorldEvery = 2
    MaxMonsters = 1
    Depths = {"Town", "L1", "L2"}
    MaxDescent = 0
    Readings = {"none", "high", "mid", "low", "critical"}
SPECIFICATION Spec
INVARIANTS
    SavedLevelFits
CHECK_DEADLOCK FALSE
