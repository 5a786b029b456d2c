SPECIFICATION MisuseSpec
CONSTANTS
  MaxAddr = 18
  MAX_SEGMENTS = 2
  Regions <- MCRegions
  Layouts <- MCLayouts
  BogusPtrs <- MCBogusPtrs
  Payloads <- MCPayloads
INVARIANTS Tiling BoundaryTags LiveBlocks StaleNeutral SoundAtRest
PROPERTIES OomHonest CallReturns ImplementsBlockAllocator
