CONSTANTS
    Orcs = {o1, o2, o3}
    Trolls = {t1}
    Uniques = {u1}
    Monsters <- MCMonsters
    Race <- MCRace
    LevelMax = 5
    Spare = 3
    NumToCompact = 2
    Bounds <- MCBounds
VIEW View
SYMMETRY Symmetry
SPECIFICATION Spec
INVARIANTS
    TypeOK
    IndicesAgree
    TrackingFollows
    GroupsSurvive
PROPERTIES
    SavedWithoutHoles
\* assert(index) may end the game.
CHECK_DEADLOCK FALSE
