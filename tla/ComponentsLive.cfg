\* Liveness of every part under its own fairness, and what needs its bounds.
SPECIFICATION FairSpec
CONSTANTS
  Parts = {"broker", "inbox", "idempotency", "cache", "breaker", "pool", "saga", "sink", "replication", "writes", "bulkhead"}
\* table
  Aggregates = {a1, a2}
  Relays = {p1, p2}
  NoRelay = NoRelay
  MaxSeq = 2
  Lease = 1
  MaxAttempts = 2
  BatchSize = 2
  MaxRecords = 2
\* broker
  MaxMsgs = 2
  Delays = {0, 1}
  Groups = {g1}
  HighWatermark = 2
  Visibility = 2
  MaxDeliveries = 2
  BackoffBase = 1
  BackoffFactor = 2
  BackoffMax = 2
  Immediate = TRUE
  FetchMax = 2
  MaxRevivals = 1
\* heap
  Priorities = {0, 1}
  MaxHeap = 6
\* inbox
  MaxSequence = 2
  Workers = {p1, p2}
  Gaps = {1}
  LeaseTime = 2
  RetryTime = 1
  MaxTries = 2
  MaxRuns = 3
  MaxHandlerCrashes = 1
  MaxInterventions = 0
  InLease = TRUE
\* idempotency
  Callers = {n1, n2}
  Payloads = {1, 2}
  Windows = {0, 2}
  MaxExecutions = 2
  InWindow = TRUE
\* cache
  Readers = {n1, n2}
  MaxVersion = 1
  Absent = {1}
  ValueTtls = {0, 1}
  NegativeTtl = 1
  SwrTime = 1
  MaxWaiters = 2
  MaxLoads = 2
\* coherence
  NodeCount = 3
  MaxWrites = 2
  MaxWall = 2
  MaxMessages = 3
  MaxLost = 1
  MaxRemovals = 1
  OneWritePerTick = TRUE
\* breaker
  Endpoints = {e1}
  Healing = {e1}
  Calls = {n1, n2}
  FailureThreshold = 2
  SuccessThreshold = 2
  ResetTimeout = 1
  MaxConcurrent = 1
  MaxQueued = 2
  ForcedStates = {"OPEN", "CLOSED"}
  MaxOverrides = 1
  MaxCount = 2
\* pool
  Clients = {n1, n2}
  Conns = {k1, k2, k3}
  NoConn = NoConn
  MaxSize = 1
  MinIdles = {0}
  Timers = TRUE
  SweepAlone = TRUE
\* saga
  MaxSteps = 2
  MaxRetries = 1
  Runs = {p1, p2}
\* sink
  Commits = {p1, p2}
  MaxOffset = 3
  MaxSinkFaults = 3
  OneCheckpoint = TRUE
\* replication
  Replicas = {p1, p2}
  Projections = {j1, j2}
  Capacity = 1
  SyncBatch = 2
  MaxEntries = 2
  MaxShipped = 1
  MaxRebuilds = 0
  OneEntryPerEvent = TRUE
\* writes
  MaxChunks = 4
  ChunkSizes = {1, 2}
  High = 3
  Low = 2
  MaxBytes = 4
\* limiter
  Algorithms = {"fixed", "log", "bucket"}
  Racing = {"fixed"}
  Checkers = {n1, n2}
  HitLimit = 2
  WindowTime = 2
  BucketSize = 3
  RefillRate = 1
  Costs = {1, 2}
  MaxChecks = 4
  MaxClock = 4
  MaxResets = 1
\* units
  Units = {n1, n2, n3}
  Keys = {k1, k2}
  Kinds = {"insert", "update"}
  DirtyReads = FALSE
  MaxPersisterFaults = 1
\* scheduler
  CronJobs = {c1, c2}
  OnceJobs = {o1}
  RunAllJobs = {c1}
  SkipOneJobs = {c2}
  Dependents = {o1}
  Dependency = c1
  Concurrency = 1
  Meddled = {c2}
  RemoveRunning = FALSE
  Ticks = {n1, n2}
  Triggers = {p1}
  CronPeriod = 2
  OnceAt = 2
  Deferral = 1
  MaxNow = 4
\* bulkhead
  Tenants = {t1, t2, t3, t4}
  BulkheadSlots = 1
  MaxWaiting = 2
  MaxWait = 1
INVARIANTS DeliverySafe OneHandler
PROPERTIES MessagesSettle TurnIsTaken CallersAnswered 
PROPERTIES SagaEnds RecordsDelivered CaughtUp ShutdownEnds
CHECK_DEADLOCK FALSE
