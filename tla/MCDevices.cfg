CONSTANTS
    Sockets = {0, 1}
    Values = {0, 3, 6}
    Error = 1
    Bounce = 1
    Readings = 2
    MaxMoves = 2
    MaxFaults = 1
    PullPeriod = 1
    RepeatPeriod = 2
    EdgeGap = 2
    Delay = 2
    LongPress = 3
    TickWrap = 7
    Base = 2
    FirstTarget = 7
    MqttValues = {6, 8}
    NotesSize = 3
    Rests = {0}
    Beeps = 3
    Rings = {r1, r2}
SPECIFICATION MCSpec
INVARIANTS NoFailureIsTold LongHoldForgets TargetIsTold SilentInTheEnd
PROPERTIES SettledIsSeen PlugsAreTold TagsAreTold ModeIsApplied ServerIsFollowed
