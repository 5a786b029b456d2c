SPECIFICATION Spec
CONSTANTS
  MaxCluster = 6
  SlotCount = 3
  BaseLen = 2
  ExtLen = 1
  Letters = {"a", "b", "t", "x", ".", "*", "?"}
  Paths <- ListPaths
  Labels <- OneLabel
  Patterns <- EndsInB
  Calls <- ListCalls
  WellFormed = TRUE
INVARIANTS  UniqueNames ReaddirComplete
 
CHECK_DEADLOCK FALSE
VIEW Tree
