\* Every message is settled although a relay may crash.
SPECIFICATION TimelySpec
CONSTANTS
  Aggregates = {a1}
  Relays = {r1, r2}
  NoRelay = NoRelay
  MaxSeq = 2
  Lease = 2
  MaxAttempts = 2
  BatchSize = 2
  MaxRecords = 2
  Slots = {s1}
  Window = 1
  MaxCrashes = 1
  Keys <- MCIds
  KeyOf <- DistinctKeys
PROPERTIES EventuallySettled
