\* The third pop of six messages can be out of order.
SPECIFICATION HeapSpec
CONSTANTS
  Priorities = {0, 1}
  MaxHeap = 6
INVARIANTS RootIsBest
