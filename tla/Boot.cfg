SPECIFICATION FairSpec
PROPERTY OnlyUnstableFirmwareIsLeft
PROPERTY BrokenFirmwareIsLeft
