CONSTANTS
    MAX_OUT_NB = 2
    One = 16
    ClockModulus = 256
    Period = 3
    SPEED_COEF = 2
    MaxSpeed <- MCMaxSpeed
    Frames <- MCFrames
    GoalPackets <- MCGoalPackets
    ControlMasks <- MCControlMasks
    MaxAge = 6
    MaxCommands = 3
SPECIFICATION Spec
PROPERTIES GoalsMoveTogether SpeedIsLimited FrameStaysOnCourse TargetIsReached
