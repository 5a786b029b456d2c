\* A ring of three slots: two characters fill it, and the indices wrap.
CONSTANTS
  BUF_SZ = 3
  MaxWire = 3
SPECIFICATION FairSpec
INVARIANTS ReadsOldest
PROPERTIES ImplementsKeyQueue GetcharReturns
