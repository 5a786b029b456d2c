CONSTANTS
  N = 3
  Dead = {2}
  Slow = {}
SPECIFICATION SmpFairSpec
INVARIANTS OwnContext OnlineHonest
PROPERTIES BootEnds 
\* Cores that have booted halt until an interrupt that may never come.
CHECK_DEADLOCK FALSE
