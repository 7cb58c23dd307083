CONSTANTS
    ItemNb = 2
    Version = {0, 1}
    RawValues <- MCRawValues
    DEFAULT_MIN_VALUE = 3
    DEFAULT_MIDDLE_VALUE = 6
    DEFAULT_MAX_VALUE = 7
    RawHalf = 16
    Banks = 2
    ReplyPackets = 3
    ReadDelay = 1
    WatchdogDelay = 5
    MaxCommands = 4
    MaxStops = 1
SPECIFICATION Spec
PROPERTIES ConfigIsWhole MeasuresReachFullScale LiveHostIsNotReset CoreCatchesUp HandlersEnd
