CONSTANTS
    NoContent = NoContent
    MaxDeaths = 4
    MaxBoots = 4
    MaxFaults = 2
SPECIFICATION FairSpec
INVARIANTS
    TypeOK
    EnteredSurvive
    LockGivenBack
PROPERTIES
    SlotSpec
    ScoringEnds
CHECK_DEADLOCK FALSE
