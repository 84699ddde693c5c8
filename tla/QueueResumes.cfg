\* A drain signal the queue does not listen to any more.
SPECIFICATION WriteSpec
CONSTANTS
  MaxChunks = 3
  ChunkSizes = {1}
  High = 3
  Low = 2
  MaxBytes = 4
INVARIANTS PausedByAdapter
CHECK_DEADLOCK FALSE
