\* The programming tool: two runs on a device found in any state, two faults.
CONSTANTS
  Bits <- MCBits
  PageSize = 3
  Pages = 3
  BootSize = 1
  UserSize = 2
  MaxTransfer = 2
  Space = 32
  Files <- MCFiles
  MaxFaults = 2
  MaxSessions = 2
SPECIFICATION Spec
INVARIANT TypeOK
INVARIANT ValidatedImageIsWritten
INVARIANT ErasedIsBlank
INVARIANT DumpIsTheMemory
INVARIANT UndisturbedRunsSucceed
PROPERTY OnlyTheImageIsWritten
PROPERTY RunsEnd
CHECK_DEADLOCK FALSE
