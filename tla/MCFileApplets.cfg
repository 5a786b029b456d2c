SPECIFICATION AppSpec
CONSTANTS
  MaxCluster = 6
  SlotCount = 4
  BaseLen = 2
  ExtLen = 1
  Letters = {"a", "b", "f", "."}
  Paths = {}
  Labels = {}
  Patterns = {}
  Calls = {"f_open", "f_mkdir", "f_unlink"}
  WellFormed = FALSE
  Commands <- SafeCommands
  DirNames <- TwoNames
  FirstFile <- f
  MaxDepth = 3
  MAX_ENTRIES = 3
  Rank <- ByteOrder
INVARIANTS  LsShown
PROPERTY AppletReturns
VIEW Tree
