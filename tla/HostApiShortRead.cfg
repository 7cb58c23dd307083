CONSTANTS
    BoardNb = 3
    PerPacket = 2
    Banks = 2
    Calls <- MCLegalCalls
    MaxCalls = 3
    MaxVersion = 0
SPECIFICATION Spec
INVARIANT SuccessIsCurrent
CHECK_DEADLOCK FALSE
