\* Two nodes check the sliding window log at once.
SPECIFICATION LimiterSpec
CONSTANTS
  Algorithms = {"log"}
  Racing = {"log"}
  Checkers = {n1, n2}
  HitLimit = 2
  WindowTime = 2
  BucketSize = 3
  RefillRate = 1
  Costs = {1, 2}
  MaxChecks = 4
  MaxClock = 4
  MaxResets = 0
INVARIANTS WithinLimit
CHECK_DEADLOCK FALSE
