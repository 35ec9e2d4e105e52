\* Calls, requests and faults come to their bounds.
CONSTANTS
    LastChannel = 1
    MaxVal = 3
    Longest = 3
    MaxTicks = 4
    MaxRepeat = 2
    Messages <- AllMessages
    MaxMessages = 3
    MaxFaults = 1
    MaxPlayed = 14
    DriverCalls = 3
    DriverFaults = 2
    LineBytes = 14
    MaxVolume = 2
    Tracks = 2
    LastOutput = 3
    Counts = 5
    MaxAsked = 3
    PlayerFaults = 2
SPECIFICATION MCSpec
CHECK_DEADLOCK FALSE
INVARIANTS PlaysAsWrittenOut ClearedIsDark AnswerIsOfTheQuery ParserRecovers VolumeIsTrue
