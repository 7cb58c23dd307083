CONSTANTS
    BoardNb = 5
    PerPacket = 2
    Banks = 2
    Calls <- MCCalls
    MaxCalls = 3
    MaxVersion = 1
SPECIFICATION Spec
INVARIANTS ReadsAreCurrent WritesArePrefixes
PROPERTY CallsEnd
CHECK_DEADLOCK FALSE
