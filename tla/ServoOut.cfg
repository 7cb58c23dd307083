CONSTANTS
    SERVO_MAX_NB = 4
    MAX_QUEUE_NB = 2
    IO_BB_PINS <- DistinctPins
    MAX_UINT16 = 65535
    RefreshPeriod = 26250
    MinServoPulse = 187
    MaxServoPulse = 7500
    DefaultRaw = 2850
    Commands <- MixedCommands
SPECIFICATION FairSpec
PROPERTIES FramesAreFaithful SettledCommandsArePlayed ImplementsMailbox
