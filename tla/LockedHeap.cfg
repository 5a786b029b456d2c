\* Two cores and two blocks: both cores can run out, and free each other's.
CONSTANTS
  bsp = bsp
  ap1 = ap1
  serial = serial
  heap = heap
  b1 = b1
  b2 = b2
  none = none
  Cores = {bsp, ap1}
  Locks = {heap, serial}
  HeapLock = heap
  SerialLock = serial
  Masked = {}
  Blocks = {b1, b2}
  None = none
  MaxFails = 1
SPECIFICATION HeapSpec
INVARIANTS NoSharedBlock WarnsOwnFailure
PROPERTIES IFRestored
