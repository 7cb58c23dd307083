CONSTANTS
    MAX_SERVO_NB = 2
    RawHalf = 32
    MIN_SERVO_PULSE = 2
    MAX_SERVO_PULSE = 12
    DEFAULT_OUTPUT_RAW_VALUE = 7
    MAX_CALIB_DIFF = 2
    RawValues <- MCRawValues
    Positions <- MCPositions
    OutputCalibs <- MCOutputCalibs
    DefaultCalib <- MCDefaultCalib
    MaxCommands = 4
SPECIFICATION CalibSpec
INVARIANT PulsesFollowAngles
PROPERTIES PulsesMoveSlowly CalibratedOutputArrives
