---------------------------- MODULE ConnectionPool ----------------------------
(***************************************************************************)
(* The pool of reusable connections (class ConnectionPool of               *)
(* src/src/layers/network/engine/ConnectionPool.ts) with its clients, the  *)
(* timers of its waiters, the sweeper, and a factory whose create,         *)
(* validate and destroy take their time and fail.                          *)
(*                                                                         *)
(* A client is in one call at a time; its stage is the await the call is   *)
(* at, conn the connection the call holds there.  Between two awaits a     *)
(* call runs alone.  A connection past its lifetime is in old; an idle one *)
(* may be idle too long whenever it is swept.  Real-time timers are        *)
(* modelled: a waiter may time out at any moment.                          *)
(*                                                                         *)
(* SweepAlone says that no client is served while sweep() awaits a         *)
(* destroy.  The code does not see to that: without it a connection may be *)
(* lent and kept idle at once.                                             *)
(***************************************************************************)
EXTENDS Integers, Sequences, FiniteSets, Lists

CONSTANTS Clients, Conns, NoConn,
          MaxSize,
          MinIdles,       \* minIdle: the values a pool may be configured with
          Timers,         \* acquireTimeoutMs > 0
          SweepAlone

ASSUME PoolAssumption ==
  /\ NoConn \notin Conns
  /\ MaxSize \in Nat \ {0}
  /\ MinIdles \subseteq 0 .. MaxSize
  /\ {Timers, SweepAlone} \subseteq BOOLEAN

VARIABLES options,        \* validateOnCheckout and minIdle, given to the constructor
          idle,           \* the stack, its top last
          out, pending, waiters, closed,
          alive, old,     \* connections created and not destroyed; past their lifetime
          stage, conn,
          orphans,        \* creations for a waiter that has timed out since
          sweeping        \* sweep() and start(): where it is, what it has visited and kept

poolVars == <<options, idle, out, pending, waiters, closed, alive, old, stage, conn, orphans,
              sweeping>>

NotSweeping == [at |-> "off", visited |-> 0, keep |-> <<>>]

PoolInit == /\ options \in [validates : BOOLEAN, minIdle : MinIdles]
            /\ idle = <<>>
            /\ out = {}
            /\ pending = 0
            /\ waiters = <<>>
            /\ closed = FALSE
            /\ alive = {}
            /\ old = {}
            /\ stage = [c \in Clients |-> "away"]
            /\ conn = [c \in Clients |-> NoConn]
            /\ orphans = 0
            /\ sweeping = [NotSweeping EXCEPT !.at = "unstarted"]

-----------------------------------------------------------------------------
InIdle == {idle[i] : i \in DOMAIN idle}

Room(stack, lent, creating) == Len(stack) + Cardinality(lent) + creating < MaxSize

Served == SweepAlone => sweeping.at # "visiting"

At(c, s) == stage[c] = s

Goto(c, s, x) == /\ stage' = [stage EXCEPT ![c] = s]
                 /\ conn' = [conn EXCEPT ![c] = x]

\* The connection a successful create() returns.
New(x) == x \notin alive \cup InIdle \cup out /\ \A c \in Clients : conn[c] # x

Born(x) == alive' = alive \cup {x} /\ old' = old \ {x}

Destroyed(X) == alive' = alive \ X /\ old' = old \ X

-----------------------------------------------------------------------------
(* acquire                                                                 *)

\* Mutant: a connection under validation stays on the stack until it is lent.
PoppedLate(top) == IF options.validates THEN SubSeq(idle, 1, top) ELSE SubSeq(idle, 1, top - 1)

Popped(top) == SubSeq(idle, 1, top - 1)

\* The loop over the idle stack and what follows it, up to the next await.
Serve(c) ==
  LET usable  == {i \in DOMAIN idle : idle[i] \notin old}
      top     == CHOOSE i \in usable \cup {0} : \A j \in usable : j <= i
      expired == {idle[i] : i \in {j \in DOMAIN idle : j > top}}
  IN  /\ idle' = Popped(top)
      /\ Destroyed(expired)
      /\ IF top > 0
         THEN /\ Goto(c, IF options.validates THEN "validating" ELSE "using", idle[top])
              /\ out' = IF options.validates THEN out ELSE out \cup {idle[top]}
              /\ UNCHANGED <<pending, waiters>>
         ELSE IF Room(<<>>, out, pending)
         THEN /\ pending' = pending + 1
              /\ Goto(c, "creating", NoConn)
              /\ UNCHANGED <<out, waiters>>
         ELSE /\ waiters' = Append(waiters, c)
              /\ Goto(c, "waiting", NoConn)
              /\ UNCHANGED <<out, pending>>
      /\ UNCHANGED <<closed, orphans, sweeping, options>>

Acquire(c) == /\ At(c, "away")
              /\ ~closed
              /\ Served
              /\ Serve(c)

Validated(c, ok) ==
  /\ At(c, "validating")
  /\ Served
  /\ IF ok THEN /\ out' = out \cup {conn[c]}
                /\ Goto(c, "using", conn[c])
                /\ UNCHANGED <<alive, old>>
           ELSE /\ Destroyed({conn[c]})
                /\ Goto(c, "discarding", NoConn)
                /\ UNCHANGED out
  /\ UNCHANGED <<idle, pending, waiters, closed, orphans, sweeping, options>>

\* The loop goes on; whether the pool was closed meanwhile is not asked.
Discarded(c) == At(c, "discarding") /\ Served /\ Serve(c)

Created(c) ==
  /\ At(c, "creating")
  /\ Served
  /\ pending' = pending - 1
  /\ \E x \in {y \in Conns : New(y)} :
       IF closed THEN /\ Goto(c, "refused", NoConn)
                      /\ UNCHANGED <<out, alive, old>>
                 ELSE /\ Goto(c, "using", x)
                      /\ out' = out \cup {x}
                      /\ Born(x)
  /\ UNCHANGED <<idle, waiters, closed, orphans, sweeping, options>>

\* create() fails, or the refusal by a closed pool runs into the same catch.
CreateFailed(c) ==
  /\ At(c, "creating") \/ At(c, "refused")
  /\ Served
  /\ pending' = pending - 1
  /\ Goto(c, "away", NoConn)
  /\ UNCHANGED <<idle, out, waiters, closed, alive, old, orphans, sweeping, options>>

-----------------------------------------------------------------------------
(* Giving back.                                                            *)

Fed == waiters # <<>>

\* release: to the first waiter, else to the top of the idle stack; a dead
\* one is destroyed, and so is any in a closed pool.  One that the pool does
\* not count as lent is ignored.
Release(c) ==
  /\ At(c, "using")
  /\ Served
  /\ IF conn[c] \notin out
     THEN /\ Goto(c, "away", NoConn)
          /\ UNCHANGED <<idle, out, waiters, alive, old>>
     ELSE IF closed \/ conn[c] \in old
     THEN /\ out' = out \ {conn[c]}
          /\ Destroyed({conn[c]})
          /\ Goto(c, "returning", NoConn)
          /\ UNCHANGED <<idle, waiters>>
     ELSE IF Fed
     THEN /\ waiters' = Tail(waiters)
          /\ stage' = [stage EXCEPT ![c] = "away", ![Head(waiters)] = "using"]
          /\ conn' = [conn EXCEPT ![c] = NoConn, ![Head(waiters)] = conn[c]]
          /\ UNCHANGED <<idle, out, alive, old>>
     ELSE /\ idle' = Append(idle, conn[c])
          /\ out' = out \ {conn[c]}
          /\ Goto(c, "away", NoConn)
          /\ UNCHANGED <<waiters, alive, old>>
  /\ UNCHANGED <<pending, closed, orphans, sweeping, options>>

\* destroyCheckedOut: the connection is broken.
DestroyCheckedOut(c) ==
  /\ At(c, "using")
  /\ conn[c] \in out
  /\ Served
  /\ out' = out \ {conn[c]}
  /\ Destroyed({conn[c]})
  /\ Goto(c, "returning", NoConn)
  /\ UNCHANGED <<idle, pending, waiters, closed, orphans, sweeping, options>>

\* _wakeOrCreateForWaiters, once the connection is destroyed.  The waiter has
\* left the queue when the pool turns out to be full or closed.
Wake(c) ==
  /\ At(c, "returning")
  /\ Served
  /\ conn' = conn
  /\ IF ~Fed
     THEN /\ stage' = [stage EXCEPT ![c] = "away"]
          /\ UNCHANGED <<pending, waiters>>
     ELSE /\ waiters' = Tail(waiters)
          /\ IF closed \/ ~Room(idle, out, pending)
             THEN /\ stage' = [stage EXCEPT ![c] = "away"]
                  /\ UNCHANGED pending
             ELSE /\ stage' = [stage EXCEPT ![c] = "away", ![Head(waiters)] = "granted"]
                  /\ pending' = pending + 1
  /\ UNCHANGED <<idle, out, closed, alive, old, orphans, sweeping, options>>

\* Its replacement connection arrives.
Granted(w) ==
  /\ At(w, "granted")
  /\ Served
  /\ pending' = pending - 1
  /\ \E x \in {y \in Conns : New(y)} :
       IF closed THEN /\ Goto(w, "away", NoConn)
                      /\ UNCHANGED <<out, alive, old>>
                 ELSE /\ Goto(w, "using", x)
                      /\ out' = out \cup {x}
                      /\ Born(x)
  /\ UNCHANGED <<idle, waiters, closed, orphans, sweeping, options>>

GrantFailed(w) ==
  /\ At(w, "granted")
  /\ pending' = pending - 1
  /\ Goto(w, "away", NoConn)
  /\ UNCHANGED <<idle, out, waiters, closed, alive, old, orphans, sweeping, options>>

\* Mutant: the timer looks for its waiter in the queue only.
AwaitsQueued(w) == \E i \in DOMAIN waiters : waiters[i] = w

Awaits(w) == At(w, "waiting") \/ At(w, "granted")

\* The timer of a waiter, which may be queued, about to be granted, or lost.
TimedOut(w) ==
  /\ Timers
  /\ Awaits(w)
  /\ waiters' = Without(waiters, {w})
  /\ orphans' = IF At(w, "granted") THEN orphans + 1 ELSE orphans
  /\ Goto(w, "away", NoConn)
  /\ UNCHANGED <<idle, out, pending, closed, alive, old, sweeping, options>>

\* The replacement for a waiter that is gone is lent to nobody, for good.
OrphanDone(ok) ==
  /\ orphans > 0
  /\ orphans' = orphans - 1
  /\ pending' = pending - 1
  /\ IF ok /\ ~closed
     THEN \E x \in {y \in Conns : New(y)} : out' = out \cup {x} /\ Born(x)
     ELSE UNCHANGED <<out, alive, old>>
  /\ UNCHANGED <<idle, waiters, closed, stage, conn, sweeping, options>>

-----------------------------------------------------------------------------
(* start, sweep, close.                                                    *)

\* _ensureMinIdle: one creation at a time until there are enough.
Warm(stack) ==
  IF Len(stack) < options.minIdle /\ Room(stack, out, pending)
  THEN /\ sweeping' = [NotSweeping EXCEPT !.at = "warming"]
       /\ pending' = pending + 1
  ELSE /\ sweeping' = NotSweeping
       /\ UNCHANGED pending

Start == /\ sweeping.at = "unstarted"
         /\ Warm(idle)
         /\ UNCHANGED <<idle, out, waiters, closed, alive, old, stage, conn, orphans, options>>

Warmed(ok) ==
  /\ sweeping.at = "warming"
  /\ IF ok
     THEN \E x \in {y \in Conns : New(y)} :
            /\ idle' = Append(idle, x)
            /\ Born(x)
            /\ IF Len(idle') < options.minIdle /\ Len(idle') + Cardinality(out) + pending - 1 < MaxSize
               THEN UNCHANGED <<sweeping, pending>>
               ELSE sweeping' = NotSweeping /\ pending' = pending - 1
     ELSE /\ sweeping' = NotSweeping
          /\ pending' = pending - 1
          /\ UNCHANGED <<idle, alive, old>>
  /\ UNCHANGED <<out, waiters, closed, stage, conn, orphans, options>>

\* sweep walks the stack as it is, and awaits each destroy: the records from
\* the last one visited up to the n-th are kept, the n-th is evicted.
Evict(n) ==
  /\ sweeping.at \in {"off", "visiting"}
  /\ n \in DOMAIN idle
  /\ n > sweeping.visited
  /\ \A i \in sweeping.visited + 1 .. n - 1 : idle[i] \notin old
  /\ Destroyed({idle[n]})
  /\ sweeping' = [at |-> "visiting", visited |-> n,
                  keep |-> sweeping.keep \o SubSeq(idle, sweeping.visited + 1, n - 1)]
  /\ UNCHANGED <<idle, out, pending, waiters, closed, stage, conn, orphans, options>>

\* The rest is kept, and what was kept becomes the stack.
Swept ==
  /\ sweeping.at = "visiting"
  /\ \A i \in sweeping.visited + 1 .. Len(idle) : idle[i] \notin old
  /\ idle' = sweeping.keep \o SubSeq(idle, sweeping.visited + 1, Len(idle))
  /\ IF closed THEN sweeping' = NotSweeping /\ UNCHANGED pending ELSE Warm(idle')
  /\ UNCHANGED <<out, waiters, closed, alive, old, stage, conn, orphans, options>>

Sweep == Swept \/ \E n \in DOMAIN idle : Evict(n)

Close ==
  /\ ~closed
  /\ Served
  /\ closed' = TRUE
  /\ waiters' = <<>>
  /\ stage' = [c \in Clients |-> IF \E i \in DOMAIN waiters : waiters[i] = c
                                 THEN "away" ELSE stage[c]]
  /\ idle' = <<>>
  /\ Destroyed(InIdle)
  /\ UNCHANGED <<out, pending, conn, orphans, sweeping, options>>

Age(x) == /\ x \in alive \ old
          /\ old' = old \cup {x}
          /\ UNCHANGED <<idle, out, pending, waiters, closed, alive, stage, conn, orphans, sweeping, options>>

-----------------------------------------------------------------------------
\* A call's next step once what it awaits has come.
Answer(c) == \/ \E ok \in BOOLEAN : Validated(c, ok)
             \/ Discarded(c)
             \/ Created(c)
             \/ CreateFailed(c)
             \/ Wake(c)
             \/ Granted(c)
             \/ GrantFailed(c)
             \/ TimedOut(c)

PoolNext == \/ \E c \in Clients : Acquire(c) \/ Release(c) \/ DestroyCheckedOut(c)
            \/ \E c \in Clients : Answer(c)
            \/ \E ok \in BOOLEAN : OrphanDone(ok) \/ Warmed(ok)
            \/ Start \/ Sweep \/ Close
            \/ \E x \in Conns : Age(x)

\* The factory answers, timers fire, and a validation that is asked for over
\* and over says yes in the end.  Clients owe nothing: they may keep what
\* they were lent.
PoolFairness == /\ \A c \in Clients : /\ SF_poolVars(Answer(c))
                                     /\ SF_poolVars(Validated(c, TRUE))
                /\ WF_poolVars(sweeping.at = "visiting" /\ Sweep)

PoolSpec == PoolInit /\ [][PoolNext]_poolVars /\ PoolFairness

-----------------------------------------------------------------------------
Stages == {"away", "validating", "discarding", "creating", "refused", "waiting", "granted",
           "using", "returning"}

PoolTypeOK ==
  /\ options \in [validates : BOOLEAN, minIdle : MinIdles]
  /\ \A i \in DOMAIN idle : idle[i] \in Conns
  /\ out \subseteq Conns
  /\ pending \in Int
  /\ \A i \in DOMAIN waiters : waiters[i] \in Clients
  /\ closed \in BOOLEAN
  /\ old \subseteq alive /\ alive \subseteq Conns
  /\ stage \in [Clients -> Stages]
  /\ conn \in [Clients -> Conns \cup {NoConn}]
  /\ orphans \in Nat
  /\ sweeping.at \in {"unstarted", "off", "visiting", "warming"}

Holding(c) == conn[c] # NoConn

\* Whatever calls overlap, a connection is in the hands of one call at a time,
\* never idle meanwhile, and alive: nobody destroys what another one uses.
LentSafely ==
  /\ \A c \in Clients : Holding(c) => conn[c] \in alive /\ conn[c] \notin InIdle
  /\ \A c, d \in Clients : Holding(c) /\ conn[c] = conn[d] => c = d
  /\ sweeping.at # "visiting" => InIdle \subseteq alive
  /\ Cardinality(InIdle) = Len(idle)
  /\ InIdle \cap out = {}

\* The slots taken by creations in flight come back, however these end: as
\* long as the pool is open, pending counts exactly the calls that create.
PendingExact ==
  ~closed => pending = Cardinality({c \in Clients : stage[c] \in {"creating", "granted"}})
                         + orphans + IF sweeping.at = "warming" THEN 1 ELSE 0

\* The promise of the bound: without validation, no interleaving of creations,
\* replacements, warm-up and returns makes more than MaxSize connections.
WithinMaxSize == ~options.validates => Len(idle) + Cardinality(out) + pending <= MaxSize

\* Nobody queues beside an idle connection, unless a warm-up put it there: it
\* does not ask for waiters.
NoIdleWhileWaiting == options.minIdle = 0 /\ waiters # <<>> => idle = <<>>

\* Acquires, releases, sweeps, warm-ups and the close, in any overlap, agree on
\* who has which connection and on how many there are.
PoolSafe == LentSafely /\ PendingExact /\ WithinMaxSize /\ NoIdleWhileWaiting

\* Every acquire is answered, be it by the timer.
AcquireAnswered ==
  \A c \in Clients : stage[c] \notin {"away", "using"} ~> stage[c] \in {"away", "using"}

\* A comment of _wakeOrCreateForWaiters: "still full -- next release will try
\* again".  A client that waits is known to the pool.
WaitersAreQueued ==
  \A c \in Clients : stage[c] = "waiting" => \E i \in DOMAIN waiters : waiters[i] = c
=============================================================================
