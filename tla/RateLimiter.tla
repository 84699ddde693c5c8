------------------------------ MODULE RateLimiter ------------------------------
(***************************************************************************)
(* The distributed rate limiter of                                         *)
(* src/src/layers/throttling/distributed/DistributedRateLimiter.ts over    *)
(* its in-memory client: fixed window, sliding window log or token bucket, *)
(* for one identifier (keys share nothing).                                *)
(*                                                                         *)
(* A check issues several commands.  A command takes effect when it is     *)
(* issued, its answer is awaited, and other checks run and time passes     *)
(* before the next one.  Every command looks at the deadline of its key,   *)
(* so that an expired key may as well go when its time comes.              *)
(***************************************************************************)
EXTENDS Integers, Sequences, FiniteSets, Functions, Lists

CONSTANTS Algorithms,     \* those explored
          Racing,         \* those whose checks anything may interrupt
          Checkers,
          HitLimit, WindowTime,
          BucketSize, RefillRate, Costs,
          MaxChecks, MaxClock, MaxResets    \* bounds

ASSUME RateLimiterAssumption ==
  /\ Algorithms \subseteq {"fixed", "log", "bucket"} /\ Racing \subseteq Algorithms
  /\ {MaxChecks, MaxClock, MaxResets} \subseteq Nat
  /\ {HitLimit, WindowTime, BucketSize, RefillRate} \subseteq Nat \ {0}
  /\ Costs \subseteq Nat \ {0}

VARIABLES algorithm, clock,
          counters,      \* of the fixed windows
          entries,       \* of the log
          level,         \* of the bucket
          checks,        \* what each checker awaits, and what it has read
          admitted,      \* the admissions, by the clock readings they were decided on (history)
          made, resets

limiterVars == <<algorithm, clock, counters, entries, level, checks, admitted, made, resets>>

Never == MaxClock + 1       \* no deadline
FullTime == (BucketSize + RefillRate - 1) \div RefillRate
WindowsSeen == 0 .. MaxClock \div WindowTime
WindowOf(t) == t \div WindowTime

NoCounter == [n |-> 0, expires |-> Never]
EmptyLog == [hits |-> {}, expires |-> Never]
NoLevel == [tokens |-> BucketSize, since |-> -1, expires |-> Never]
Idling == [at |-> "idle", now |-> 0, cost |-> 0, read |-> 0]

LimiterInit ==
  /\ algorithm \in Algorithms
  /\ clock = 0
  /\ counters = [w \in WindowsSeen |-> NoCounter]
  /\ entries = EmptyLog
  /\ level = NoLevel
  /\ checks = [c \in Checkers |-> Idling]
  /\ admitted = <<>>
  /\ made = 0 /\ resets = 0

-----------------------------------------------------------------------------
Resting(c) == checks[c].at \in {"idle", "refused"}

\* What runs between the commands of a check.
Interrupts == algorithm \in Racing \/ \A c \in Checkers : Resting(c)

MayCheck(c) == Resting(c) /\ Interrupts /\ made < MaxChecks

Hit(now, cost) == [at |-> now, cost |-> cost]

\* Mutant: one request too many.
UnderLimitOffByOne(n) == n <= HitLimit

UnderLimit(n) == n < HitLimit

\* checkFixedWindow up to the await of incr.
CheckFixed(c) ==
  LET w == WindowOf(clock)
      n == counters[w].n
  IN  /\ algorithm = "fixed" /\ MayCheck(c)
      /\ counters' = [counters EXCEPT ![w].n = n + 1]
      /\ admitted' = IF UnderLimit(n) THEN Append(admitted, Hit(clock, 1)) ELSE admitted
      /\ checks' = [checks EXCEPT ![c] =
           IF n > 0 /\ UnderLimit(n) THEN Idling
           ELSE [Idling EXCEPT !.at = IF n = 0 THEN "expiring" ELSE "refused",
                               !.now = clock, !.cost = 1]]
      /\ made' = made + 1
      /\ UNCHANGED <<algorithm, clock, entries, level, resets>>

OutOfWindow(t, now) == t <= now - WindowTime

\* checkSlidingWindowLog: zremrangebyscore, zcard, zadd.
CheckLog(c) ==
  /\ algorithm = "log" /\ MayCheck(c)
  /\ entries' = [entries EXCEPT !.hits = {h \in @ : ~OutOfWindow(h.at, clock)}]
  /\ checks' = [checks EXCEPT ![c] = [at |-> "counting", now |-> clock, cost |-> 1, read |-> made]]
  /\ made' = made + 1
  /\ UNCHANGED <<algorithm, clock, counters, level, admitted, resets>>

CountLog(c) ==
  /\ checks[c].at = "counting"
  /\ checks' = [checks EXCEPT ![c].at = IF UnderLimit(Cardinality(entries.hits)) THEN "adding" ELSE "refused"]
  /\ UNCHANGED <<algorithm, clock, counters, entries, level, admitted, made, resets>>

AddToLog(c) ==
  /\ checks[c].at = "adding"
  /\ entries' = [entries EXCEPT !.hits = @ \cup {[at |-> checks[c].now, member |-> checks[c].read]}]
  /\ admitted' = Append(admitted, Hit(checks[c].now, 1))
  /\ checks' = [checks EXCEPT ![c].at = "expiring"]
  /\ UNCHANGED <<algorithm, clock, counters, level, made, resets>>

Refilled(l, now) ==
  LET t == l.tokens + (now - l.since) * RefillRate
  IN  IF l.since = -1 \/ t > BucketSize THEN BucketSize ELSE t

\* checkTokenBucket: hmget, hmset.
CheckBucket(c, cost) ==
  /\ algorithm = "bucket" /\ MayCheck(c)
  /\ checks' = [checks EXCEPT ![c] = [at |-> "putting", now |-> clock, cost |-> cost,
                                      read |-> Refilled(level, clock)]]
  /\ made' = made + 1
  /\ UNCHANGED <<algorithm, clock, counters, entries, level, admitted, resets>>

PutBucket(c) ==
  LET k == checks[c]
      allowed == k.read >= k.cost
  IN  /\ k.at = "putting"
      /\ level' = [level EXCEPT !.tokens = IF allowed THEN k.read - k.cost ELSE k.read,
                                !.since = k.now]
      /\ admitted' = IF allowed THEN Append(admitted, Hit(k.now, k.cost)) ELSE admitted
      /\ checks' = [checks EXCEPT ![c].at = IF allowed THEN "expiring" ELSE "refusing"]
      /\ UNCHANGED <<algorithm, clock, counters, entries, made, resets>>

-----------------------------------------------------------------------------
Deadline(ttl) == IF clock + ttl <= MaxClock THEN clock + ttl ELSE Never

\* pexpire: 0 for a key that is not there.
Expire(c) ==
  LET w == WindowOf(checks[c].now)
  IN  /\ checks[c].at \in {"expiring", "refusing"}
      /\ counters' = IF algorithm = "fixed" /\ counters[w].n > 0
                     THEN [counters EXCEPT ![w].expires = Deadline(WindowTime)] ELSE counters
      /\ entries' = IF entries.hits # {}
                    THEN [entries EXCEPT !.expires = Deadline(WindowTime)] ELSE entries
      /\ level' = IF level.since >= 0
                  THEN [level EXCEPT !.expires = Deadline(2 * FullTime)] ELSE level
      /\ checks' = [checks EXCEPT ![c] = IF @.at = "expiring" THEN Idling ELSE [@ EXCEPT !.at = "refused"]]
      /\ UNCHANGED <<algorithm, clock, admitted, made, resets>>

\* reset, or resetFixedWindow for the window of now.
Reset ==
  /\ Interrupts
  /\ resets < MaxResets /\ resets' = resets + 1
  /\ counters' = [counters EXCEPT ![WindowOf(clock)] = NoCounter]
  /\ entries' = EmptyLog
  /\ level' = NoLevel
  /\ admitted' = IF algorithm = "fixed"
                 THEN Without(admitted, {h \in Range(admitted) : WindowOf(h.at) = WindowOf(clock)})
                 ELSE <<>>
  /\ UNCHANGED <<algorithm, clock, checks, made>>

KeptKey(key, none) == IF key.expires <= clock' THEN none ELSE key

Pass ==
  /\ clock < MaxClock
  /\ Interrupts
  /\ clock' = clock + 1
  /\ counters' = [w \in WindowsSeen |-> KeptKey(counters[w], NoCounter)]
  /\ entries' = KeptKey(entries, EmptyLog)
  /\ level' = KeptKey(level, NoLevel)
  /\ UNCHANGED <<algorithm, checks, admitted, made, resets>>

LimiterNext == \/ \E c \in Checkers :
                    \/ CheckFixed(c) \/ CheckLog(c) \/ CountLog(c) \/ AddToLog(c)
                    \/ PutBucket(c) \/ Expire(c)
                    \/ \E cost \in Costs : CheckBucket(c, cost)
               \/ Reset \/ Pass

LimiterSpec == LimiterInit /\ [][LimiterNext]_limiterVars
-----------------------------------------------------------------------------
\* More than the limit in one window, in one sliding window, or more tokens than
\* the bucket held and got over some time.
OverLimit(hits) ==
  LET Hits(times) == Cardinality({j \in DOMAIN hits : hits[j].at \in times})
      Spent(i) == SumUpTo([k \in DOMAIN hits |-> hits[k].cost], i)
      From(i) == hits[i].at
  IN  \E i \in DOMAIN hits :
        CASE algorithm = "fixed" -> Hits({t \in 0 .. MaxClock : WindowOf(t) = WindowOf(From(i))}) > HitLimit
          [] algorithm = "log" -> Hits(From(i) - WindowTime + 1 .. From(i)) > HitLimit
          [] algorithm = "bucket" -> \E j \in i .. Len(hits) :
               Spent(j) - Spent(i - 1) > BucketSize + RefillRate * (From(j) - From(i))

Refused(k) == k.at \in {"refusing", "refused"}

\* No identifier gets more than its limit, however its checks interleave (the
\* module comment: "N application nodes share one counter without races"); for
\* the log and the bucket it takes checks that do not overlap.
WithinLimit == ~OverLimit(admitted)

\* A check is refused only if its admission would have broken the limit: what
\* lapsed, was refused or was reset is never counted against it.
RefusedFairly ==
  [][\A c \in Checkers :
       ~Refused(checks[c]) /\ Refused(checks'[c])
         => OverLimit(Append(admitted, Hit(checks'[c].now, checks'[c].cost)))]_limiterVars
=============================================================================
