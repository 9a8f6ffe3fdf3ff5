CONSTANTS
    MoveEnergy = 2
    Gains = {1, 2}
    WorldEvery = 2
    MaxMonsters = 2
    Depths = {"Town"}
    MaxDescent = 0
    Readings = {"none"}
SPECIFICATION Spec
INVARIANTS
    TypeOK
    FedOncePerTurn
    FasterMonstersFirst
    NoCommandOnTheWay
CHECK_DEADLOCK FALSE
