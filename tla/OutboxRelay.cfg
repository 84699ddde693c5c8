\* Two relays, batches over two aggregates that share idempotency keys, with
\* expiring leases and evictions.
SPECIFICATION Spec
CONSTANTS
  Aggregates = {a1, a2}
  Relays = {r1, r2}
  NoRelay = NoRelay
  MaxSeq = 2
  Lease = 1
  MaxAttempts = 1
  BatchSize = 2
  MaxRecords = 1
  Slots = {s1}
  Window = 1
  MaxCrashes = 0
  Keys <- Seqs
  KeyOf <- SharedKeys
SYMMETRY Symmetry
INVARIANTS RelayInv SentWasDelivered OneDispatcherPerLease
PROPERTIES DeliversInOrder
