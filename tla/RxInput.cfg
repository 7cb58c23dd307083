CONSTANTS
    FIFO_SIZE = 4
    MAX_PPM_CHANNEL = 3
    TimerModulus = 65536
    FrameStartPulse = 5625
    Inactivity = 46875
    Widths <- MCWidths
    SyncWidths <- MCSyncWidths
    LowTime = 560
    GlitchTime = 4
    StartTimes <- MCStartTimes
    Period = 26250
    SilenceTimes <- MCSilenceTimes
    MaxBacklog = 5
    MaxEdges = 12
    MaxGlitches = 2
SPECIFICATION Spec
INVARIANTS LastLevelIsPins LossIsDetected
PROPERTIES PopsInOrder ChannelsNotShifted
