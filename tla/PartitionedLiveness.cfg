\* One worker or the other leads; the second partition has no aggregate.
SPECIFICATION FairSpec
CONSTANTS
  Partitions = {p1, p2}
  Workers = {w1, w2}
  Nobody = Nobody
  LeaseMs = 1
  MaxTime = 1
  MaxGrants = 0
  Aggregates = {p1}
  ShardOf <- OnePartitionEach
  MaxSeq = 2
  MaxCrashes = 0
  MaxStepDowns = 0
PROPERTIES EventuallySent
CHECK_DEADLOCK FALSE
