SPECIFICATION Spec
CONSTANTS
  Partitions = {p1}
  Workers = {w1, w2}
  Nobody = Nobody
  LeaseMs = 1
  MaxTime = 2
  MaxGrants = 0
  Aggregates = {a1}
  ShardOf <- OnePartition
  MaxSeq = 3
  MaxCrashes = 1
  MaxStepDowns = 1
SYMMETRY Symmetry
INVARIANTS
  PartitionedInv
  
  OneTokenAccepted
  StaleTokenLoses
PROPERTIES
  SentForGood
CHECK_DEADLOCK FALSE
