\* A drained promise with chunks left.
SPECIFICATION WriteSpec
CONSTANTS
  MaxChunks = 5
  ChunkSizes = {1, 2}
  High = 3
  Low = 2
  MaxBytes = 4
INVARIANTS ShutdownDrains
CHECK_DEADLOCK FALSE
