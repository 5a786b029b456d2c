SPECIFICATION FairSpec
CONSTANTS
  Names <- TwoNames
  Slots = 2
  NumFats = 2
  MaxCluster = 5
  FatEntries = 4
  SECTOR_SIZE = 2
  SPC = 2
  Lens = {3}
  MaxSize = 5
  Modes = {"read", "always", "open_always"}
  Foreign = {}
  Calls <- AllCalls
  Unsynced = FALSE
  SeekPast = FALSE
  Failures = FALSE
INVARIANTS  Consistent RenameNeverLoses
PROPERTY CallReturns
CHECK_DEADLOCK FALSE
