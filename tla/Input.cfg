CONSTANTS
    PlainKeys = {"a"}
    ModKeys = {"shl", "shr"}
    FifoSize = 4
    KbdQueueSize = 3
    QueueSize = 4
    AutoRepeat = 2
    MaxCount = 2
    MaxRun = 2
    MaxRest = 2
    MaxSleep = 1
    Bounds <- MCBounds
SPECIFICATION Spec
VIEW View
INVARIANTS
    TypeOK
    QueueKeepsOrder
    DisturbanceEndsAll
    RunHasItsNextStep
    KeysKeepTheirModifiers
PROPERTIES
    FlushedKeysStayGone
CHECK_DEADLOCK FALSE
