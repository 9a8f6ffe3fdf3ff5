CONSTANTS
    NoContent = NoContent
    NoTag = NoTag
    Tags = {t1, t2}
    MaxClock = 2
    MaxBoots = 2
    MaxFaults = 2
SPECIFICATION FairSpec
INVARIANTS
    TypeOK
    SaveNameWhole
    CommittedSurvives
    SaveDoneIsLoadable
    FailedSaveKeepsSave
    CleanSaveLeavesNoStrays
PROPERTIES
    SlotSpec
    SaveAttemptEnds
\* The machine may stay switched off.
CHECK_DEADLOCK FALSE
