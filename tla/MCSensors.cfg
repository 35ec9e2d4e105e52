\* The updates of the history and the changes of the matrix come to their bounds.
CONSTANTS
    N = 5
    Values = {v1, v2, v3}
    NoValue = NoValue
    Sensors = {"aht", "ds"}
    ValueCount <- MCValueCount
    Precision <- MCPrecision
    Measured = {0, 2}
    InvalidValue <- MCInvalidValue
    BufferSize = 3
    Rings = 3
    EventQueue = 1
    MaxUpdates = 3
    MaxTime = 1
    Size = 2
    MoveQueue = 2
    MaxChanges = 3
    DebounceMs = 2
    StillMs = 3
    ScanMs = 2
    MaxHold = 14
    MaxPause = 6
SPECIFICATION MCSpec
CHECK_DEADLOCK FALSE
INVARIANTS HistoryCatchesUp AnswerIsSound StatesAreTold HoldIsToldRight
PROPERTIES ImplementsRecent
