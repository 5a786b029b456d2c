\* Two cores, one of them still with interrupts masked, and buffers of three
\* characters.
CONSTANTS
  bsp = bsp
  ap1 = ap1
  serial = serial
  none = none
  Cores = {bsp, ap1}
  Locks = {serial}
  Masked = {bsp}
  SerialPort = serial
  NoCore = none
  Width = 3
SPECIFICATION LogSpec
INVARIANTS Contiguous
