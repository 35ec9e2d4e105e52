CONSTANTS
    Channels = {0}
    Periods <- MCPeriods
    MaxTick = 4
    MaxMessages = 2
SPECIFICATION Spec
PROPERTIES PulseEndIsShown
