CONSTANTS
    MAX_OUT_NB = 2
    One = 16
    ClockModulus = 256
    Period = 4
    SPEED_COEF = 2
    MaxSpeed <- MCMaxSpeed
    Frames <- MCFrames
    GoalPackets <- MCNoGoals
    ControlMasks <- MCNoGoals
    MaxAge = 24
    MaxCommands = 2
SPECIFICATION Spec
PROPERTY LoadingMovesToFrame
