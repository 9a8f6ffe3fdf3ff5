CONSTANTS
    Height = 3
    Width = 3
    MaxHearing = 5
    NoGrid = NoGrid
SPECIFICATION Spec
INVARIANTS
    TypeOK
    QueueNeverWraps
PROPERTIES
    WorldMakesDistances
    ReloadRestoresNoise
