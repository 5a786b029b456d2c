SPECIFICATION FairSpec
CONSTANTS
  Firmwares <- MCFirmwares
  MAX_CPUS = 2
  Lbas <- MCLbas
  LBA_LIMIT = 8
  Words = 2
  Values = {0, 1}
  Sectors <- MCSectors
  Drives <- SoundDrives
  Moments <- MCMoments
  RETRIES = 2
  Piecewise = FALSE
INVARIANTS CoresListed SectorsKept DateWasTrue
PROPERTY KernelReturns
CHECK_DEADLOCK FALSE
