SPECIFICATION Spec
CONSTANTS
  Names <- ThreeNames
  Slots = 2
  NumFats = 2
  MaxCluster = 6
  FatEntries = 4
  SECTOR_SIZE = 1
  SPC = 1
  Lens = {2}
  MaxSize = 2
  Modes = {"read", "existing", "open_always"}
  Foreign = {"a"}
  Calls <- SafeCalls
  Unsynced = TRUE
  SeekPast = TRUE
  Failures = TRUE
INVARIANTS OnDiskSound
CHECK_DEADLOCK FALSE
