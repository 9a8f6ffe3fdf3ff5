CONSTANTS
    NoContent = NoContent
    NoTag = NoTag
    Tags = {t1, t2}
    MaxClock = 2
    MaxBoots = 2
    MaxFaults = 0
SPECIFICATION Spec
INVARIANT ResumesLastSave
CHECK_DEADLOCK FALSE
