SPECIFICATION ReleaseSpec
CONSTANTS
  MaxKeystrokes = 3
  ChunkKeystrokes = 2
  PointerBatch = 2
  MaxFaults = 0
  LiftsFirst = TRUE
INVARIANT NothingStaysDown
CHECK_DEADLOCK FALSE
