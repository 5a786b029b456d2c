CONSTANTS
  bsp = bsp
  ap1 = ap1
  ap2 = ap2
  heap = heap
  serial = serial
  Cores = {bsp, ap1, ap2}
  Locks = {heap, serial}
  Serial = serial
  Masked = {bsp}
  FaultAt <- Outside
SPECIFICATION FaultSpec
INVARIANTS MutualExclusion 
 
