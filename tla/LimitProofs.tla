---------------------------- MODULE LimitProofs -----------------------------
(***************************************************************************)
(*  What is lent and admitted within a limit, for any number of clients:   *)
(*  connections by the pool, requests by the rate limiter, and the slots   *)
(*  of the bulkhead. The three share no state; each part of the module is  *)
(*  about one of them.                                                     *)
(***************************************************************************)
EXTENDS ConnectionPool, RateLimiter, Bulkhead, DataLemmas

-----------------------------------------------------------------------------
(***************************************************************************)
(*  The pool lends a connection to one call at a time, for any number of   *)
(*  clients and connections and any bound.                                 *)
(*                                                                         *)
(*  PoolSafe compares the places a connection may be in, so the invariant  *)
(*  says of each where its connections come from: idle ones are different  *)
(*  and nobody's, a call that holds one holds it alone, the sweep keeps    *)
(*  what it has passed, and what is counted as pending is what the calls   *)
(*  and the timers still await. WithinMaxSize needs the count, and the     *)
(*  count needs the queue.                                                 *)
(***************************************************************************)

\* The variables have their types.
PoolTyped ==
  /\ options \in [validates : BOOLEAN, minIdle : MinIdles]
  /\ idle \in Seq(Conns) /\ out \in SUBSET Conns /\ pending \in Int
  /\ waiters \in Seq(Clients) /\ closed \in BOOLEAN
  /\ alive \in SUBSET Conns /\ old \in SUBSET alive
  /\ stage \in [Clients -> Stages] /\ conn \in [Clients -> Conns \cup {NoConn}]
  /\ orphans \in Nat
  /\ sweeping \in [at : {"unstarted", "off", "visiting", "warming"}, visited : Nat, keep : Seq(Conns)]

\* Who queues, waits, and in one place.
QueueKept == Distinct(waiters) /\ \A i \in 1 .. Len(waiters) : stage[waiters[i]] = "waiting"

\* A call holds a connection of its own exactly while it validates or uses it.
HandsKept ==
  /\ \A c \in Clients :
       /\ Holding(c) <=> stage[c] \in {"validating", "using"}
       /\ Holding(c) => conn[c] \in alive /\ conn[c] \notin InIdle
       /\ stage[c] = "validating" => conn[c] \notin out
       /\ stage[c] = "using" => conn[c] \in out
       /\ stage[c] = "refused" => closed
  /\ \A c, d \in Clients : Holding(c) /\ conn[c] = conn[d] => c = d

\* Idle connections are different ones, are not lent, and are alive but for those the
\* sweep has evicted.
IdleKept ==
  /\ Distinct(idle)
  /\ InIdle \cap out = {}
  /\ sweeping.at # "visiting" => InIdle \subseteq alive

\* The sweep keeps what it has passed without evicting.
SweepKept ==
  /\ sweeping.at # "visiting" => sweeping.visited = 0 /\ sweeping.keep = <<>>
  /\ sweeping.at = "visiting" =>
       /\ sweeping.visited \in 1 .. Len(idle)
       /\ Len(sweeping.keep) <= sweeping.visited
       /\ Distinct(sweeping.keep)
       /\ \A i \in 1 .. Len(sweeping.keep) :
            /\ sweeping.keep[i] \in alive
            /\ \E j \in 1 .. sweeping.visited : sweeping.keep[i] = idle[j]
       /\ \A i \in sweeping.visited + 1 .. Len(idle) : idle[i] \in alive

\* The creations in flight are counted, and leave room for what they create.
Creators == {c \in Clients : stage[c] \in {"creating", "granted"}}

CountKept ==
  /\ IsFiniteSet(Creators) /\ IsFiniteSet(out)
  /\ PendingExact /\ WithinMaxSize /\ NoIdleWhileWaiting
  /\ options.minIdle = 0 => sweeping.at # "warming"
  /\ ~options.validates => \A c \in Clients : stage[c] \notin {"validating", "discarding"}

PoolIInv == PoolTyped /\ QueueKept /\ HandsKept /\ IdleKept /\ SweepKept /\ CountKept

\* The types of what a step reads.
LEMMA PoolFacts ==
  ASSUME PoolTyped
  PROVE  /\ Len(idle) \in Nat /\ DOMAIN idle = 1 .. Len(idle) /\ \A i \in 1 .. Len(idle) : idle[i] \in Conns
         /\ Len(waiters) \in Nat /\ DOMAIN waiters = 1 .. Len(waiters)
         /\ \A i \in 1 .. Len(waiters) : waiters[i] \in Clients
         /\ \A c \in Clients : stage[c] \in Stages /\ conn[c] \in Conns \cup {NoConn}
         /\ sweeping.visited \in Nat /\ sweeping.keep \in Seq(Conns) /\ Len(sweeping.keep) \in Nat
         /\ sweeping.at \in {"unstarted", "off", "visiting", "warming"}
         /\ options.validates \in BOOLEAN /\ options.minIdle \in MinIdles /\ options.minIdle \in Nat
         /\ NoConn \notin Conns /\ MaxSize \in Nat
  <1>1. MinIdles \subseteq Nat
    BY PoolAssumption
  <1> QED BY <1>1, PoolAssumption, LenProperties, ElementOfSeq DEF PoolTyped

LEMMA PoolTypes == PoolTyped => PoolTypeOK
  <1> SUFFICES ASSUME PoolTyped PROVE PoolTypeOK
    OBVIOUS
  <1>1. /\ \A i \in DOMAIN idle : idle[i] \in Conns
        /\ \A i \in DOMAIN waiters : waiters[i] \in Clients
    BY PoolFacts
  <1> QED BY <1>1, PoolFacts DEF PoolTyped, PoolTypeOK

\* What is idle is somewhere in the stack.
LEMMA IdlePlace ==
  ASSUME PoolTyped
  PROVE  \A x : x \in InIdle <=> \E i \in 1 .. Len(idle) : idle[i] = x
  BY PoolFacts DEF InIdle

\* A call moves on.
LEMMA GotoMoves ==
  ASSUME PoolTyped, NEW c \in Clients, NEW s \in Stages, NEW x \in Conns \cup {NoConn}, Goto(c, s, x)
  PROVE  /\ stage' \in [Clients -> Stages] /\ conn' \in [Clients -> Conns \cup {NoConn}]
         /\ stage'[c] = s /\ conn'[c] = x
         /\ \A d \in Clients : d # c => stage'[d] = stage[d] /\ conn'[d] = conn[d]
  BY DEF PoolTyped, Goto

\* Creations go on.
LEMMA SameCreators ==
  ASSUME IsFiniteSet(Creators),
         \A d \in Clients : (stage'[d] \in {"creating", "granted"}) <=> (stage[d] \in {"creating", "granted"})
  PROVE  IsFiniteSet(Creators') /\ Cardinality(Creators') = Cardinality(Creators)
  <1>1. Creators' = Creators
    BY DEF Creators
  <1> QED BY <1>1

\* A creation begins.
LEMMA CreatorJoins ==
  ASSUME IsFiniteSet(Creators), NEW c \in Clients,
         stage[c] \notin {"creating", "granted"}, stage'[c] \in {"creating", "granted"},
         \A d \in Clients \ {c} :
           (stage'[d] \in {"creating", "granted"}) <=> (stage[d] \in {"creating", "granted"})
  PROVE  IsFiniteSet(Creators') /\ Cardinality(Creators') = Cardinality(Creators) + 1
  <1>1. Creators' = Creators \cup {c} /\ c \notin Creators
    BY DEF Creators
  <1> QED BY <1>1, FS_AddElement

\* A creation ends.
LEMMA CreatorLeaves ==
  ASSUME IsFiniteSet(Creators), NEW c \in Clients,
         stage[c] \in {"creating", "granted"}, stage'[c] \notin {"creating", "granted"},
         \A d \in Clients \ {c} :
           (stage'[d] \in {"creating", "granted"}) <=> (stage[d] \in {"creating", "granted"})
  PROVE  IsFiniteSet(Creators') /\ Cardinality(Creators') = Cardinality(Creators) - 1
  <1>1. Creators' = Creators \ {c} /\ c \in Creators
    BY DEF Creators
  <1> QED BY <1>1, FS_RemoveElement

\* The count of creations in its parts.
LEMMA CreationsCounted ==
  PendingExact <=> (~closed => pending = Cardinality(Creators) + orphans
                                           + IF sweeping.at = "warming" THEN 1 ELSE 0)
  BY DEF PendingExact, Creators

\* A call that does not queue, and an unchanged queue.
LEMMA QueueStays ==
  ASSUME PoolTyped, QueueKept, NEW c \in Clients, stage[c] # "waiting", UNCHANGED waiters,
         \A d \in Clients : d # c => stage'[d] = stage[d]
  PROVE  QueueKept'
  <1>1. \A i \in 1 .. Len(waiters) : waiters[i] \in Clients
    BY PoolFacts
  <1> QED BY <1>1 DEF QueueKept, Distinct

\* The stack stays, and what of it lives.
LEMMA StackStays ==
  ASSUME PoolTyped, IdleKept, SweepKept, UNCHANGED <<idle, sweeping>>,
         \A x \in InIdle : x \notin out' /\ (x \in alive => x \in alive')
  PROVE  IdleKept' /\ SweepKept'
  <1>1. InIdle' = InIdle /\ \A i \in 1 .. Len(idle) : idle[i] \in InIdle
    BY IdlePlace DEF InIdle
  <1>2. IdleKept'
    BY <1>1 DEF IdleKept, Distinct
  <1>3. SweepKept'
    <2>1. CASE sweeping.at # "visiting"
      BY <2>1 DEF SweepKept
    <2>2. CASE sweeping.at = "visiting"
      <3>1. \A i \in 1 .. Len(sweeping.keep) : sweeping.keep[i] \in InIdle
        <4>1. sweeping.visited \in 1 .. Len(idle)
          BY <2>2 DEF SweepKept
        <4>2. \A j \in 1 .. sweeping.visited : idle[j] \in InIdle
          BY <1>1, <4>1, PoolFacts
        <4> QED BY <2>2, <4>2 DEF SweepKept
      <3>2. \A i \in sweeping.visited + 1 .. Len(idle) : idle[i] \in InIdle
        BY <1>1, PoolFacts
      <3> QED BY <2>2, <3>1, <3>2 DEF SweepKept, Distinct
    <2> QED BY <2>1, <2>2
  <1> QED BY <1>2, <1>3

\* The validation of a connection says yes or no.
LEMMA ValidatedKeeps ==
  ASSUME PoolIInv, SweepAlone, NEW c \in Clients, NEW ok \in BOOLEAN, Validated(c, ok)
  PROVE  PoolIInv'
  <1> USE DEF PoolIInv
  <1> DEFINE x == conn[c]
  <1>1. /\ stage[c] = "validating" /\ sweeping.at # "visiting"
        /\ UNCHANGED <<idle, pending, waiters, closed, orphans, sweeping, options>>
    BY DEF Validated, At, Served
  <1>2. x \in Conns /\ x \in alive /\ x \notin InIdle /\ x \notin out
    BY <1>1, PoolFacts DEF HandsKept, Holding
  <1>3. InIdle' = InIdle
    BY <1>1 DEF InIdle
  <1>4. CASE ok
    <2>1. out' = out \cup {x} /\ Goto(c, "using", x) /\ UNCHANGED <<alive, old>>
      BY <1>4 DEF Validated
    <2>2. /\ stage' \in [Clients -> Stages] /\ conn' \in [Clients -> Conns \cup {NoConn}]
          /\ stage'[c] = "using" /\ conn'[c] = x
          /\ \A d \in Clients : d # c => stage'[d] = stage[d] /\ conn'[d] = conn[d]
      BY <1>2, <2>1, GotoMoves DEF Stages
    <2>3. PoolTyped'
      BY <1>1, <1>2, <2>1, <2>2 DEF PoolTyped
    <2>4. QueueKept'
      BY <1>1, <2>2, QueueStays
    <2>5. HandsKept'
      BY <1>1, <1>2, <1>3, <2>1, <2>2 DEF HandsKept, Holding
    <2>6. IdleKept' /\ SweepKept'
      BY <1>1, <1>2, <2>1, StackStays DEF IdleKept
    <2>7. CountKept'
      <3>1. IsFiniteSet(Creators') /\ Cardinality(Creators') = Cardinality(Creators)
        BY <1>1, <2>2, SameCreators DEF CountKept
      <3>2. IsFiniteSet(out')
        BY <2>1, FS_AddElement DEF CountKept
      <3>3. PendingExact'
        BY <1>1, <3>1, CreationsCounted DEF CountKept, PendingExact, Creators
      <3>4. options.validates
        BY <1>1 DEF CountKept
      <3> QED BY <1>1, <3>1, <3>2, <3>3, <3>4 DEF CountKept, WithinMaxSize, NoIdleWhileWaiting
    <2> QED BY <2>3, <2>4, <2>5, <2>6, <2>7
  <1>5. CASE ~ok
    <2>1. Destroyed({x}) /\ Goto(c, "discarding", NoConn) /\ UNCHANGED out
      BY <1>5 DEF Validated
    <2>2. /\ stage' \in [Clients -> Stages] /\ conn' \in [Clients -> Conns \cup {NoConn}]
          /\ stage'[c] = "discarding" /\ conn'[c] = NoConn
          /\ \A d \in Clients : d # c => stage'[d] = stage[d] /\ conn'[d] = conn[d]
      BY <2>1, GotoMoves DEF Stages
    <2>3. PoolTyped'
      BY <1>1, <1>2, <2>1, <2>2 DEF PoolTyped, Destroyed
    <2>4. QueueKept'
      BY <1>1, <2>2, QueueStays
    <2>5. HandsKept'
      BY <1>1, <1>2, <1>3, <2>1, <2>2 DEF HandsKept, Holding, Destroyed
    <2>6. IdleKept' /\ SweepKept'
      BY <1>1, <1>2, <2>1, StackStays DEF IdleKept, Destroyed
    <2>7. CountKept'
      <3>1. IsFiniteSet(Creators') /\ Cardinality(Creators') = Cardinality(Creators)
        BY <1>1, <2>2, SameCreators DEF CountKept
      <3>3. PendingExact'
        BY <1>1, <3>1, CreationsCounted DEF CountKept, PendingExact, Creators
      <3>4. options.validates
        BY <1>1 DEF CountKept
      <3> QED BY <1>1, <2>1, <3>1, <3>3, <3>4 DEF CountKept, WithinMaxSize, NoIdleWhileWaiting
    <2> QED BY <2>3, <2>4, <2>5, <2>6, <2>7
  <1> QED BY <1>4, <1>5

\* A connection is born: it is nobody's yet.
LEMMA NewIsFree ==
  ASSUME PoolTyped, NEW x \in {y \in Conns : New(y)}
  PROVE  /\ x \in Conns /\ x \notin alive /\ x \notin InIdle /\ x \notin out
         /\ \A c \in Clients : conn[c] # x
  BY DEF New

\* create() or the replacement for a waiter ends with a connection, or finds the pool closed.
LEMMA CreationEnds ==
  ASSUME PoolIInv, NEW c \in Clients, stage[c] \in {"creating", "granted"},
         NEW x \in {y \in Conns : New(y)}, NEW s \in {"refused", "away"}, pending' = pending - 1,
         IF closed THEN Goto(c, s, NoConn) /\ UNCHANGED <<out, alive, old>>
                   ELSE Goto(c, "using", x) /\ out' = out \cup {x} /\ Born(x),
         UNCHANGED <<idle, waiters, closed, orphans, sweeping, options>>
  PROVE  PoolIInv'
  <1> USE DEF PoolIInv
  <1>1. /\ x \in Conns /\ x \notin alive /\ x \notin InIdle /\ x \notin out
        /\ \A d \in Clients : conn[d] # x
    BY NewIsFree
  <1>2. InIdle' = InIdle
    BY DEF InIdle
  <1>3. CASE closed
    <2>1. Goto(c, s, NoConn) /\ UNCHANGED <<out, alive, old>>
      BY <1>3
    <2>2. /\ stage' \in [Clients -> Stages] /\ conn' \in [Clients -> Conns \cup {NoConn}]
          /\ stage'[c] = s /\ conn'[c] = NoConn
          /\ \A d \in Clients : d # c => stage'[d] = stage[d] /\ conn'[d] = conn[d]
      BY <2>1, GotoMoves DEF Stages
    <2>3. PoolTyped'
      BY <2>1, <2>2 DEF PoolTyped
    <2>4. QueueKept'
      BY <2>2, QueueStays
    <2>5. HandsKept'
      BY <1>2, <1>3, <2>1, <2>2 DEF HandsKept, Holding
    <2>6. IdleKept' /\ SweepKept'
      BY <2>1, StackStays DEF IdleKept
    <2>7. CountKept'
      <3>1. IsFiniteSet(Creators')
        BY <2>2, CreatorLeaves DEF CountKept
      <3>2. PendingExact'
        BY <1>3 DEF PendingExact
      <3>3. WithinMaxSize'
        <4>1. ~options.validates => Len(idle) + Cardinality(out) + pending <= MaxSize
          BY DEF CountKept, WithinMaxSize
        <4>2. Cardinality(out) \in Int
          BY FS_CardinalityType DEF CountKept
        <4> QED BY <2>1, <4>1, <4>2, PoolFacts DEF WithinMaxSize, PoolTyped
      <3> QED BY <2>1, <2>2, <3>1, <3>2, <3>3 DEF CountKept, NoIdleWhileWaiting
    <2> QED BY <2>3, <2>4, <2>5, <2>6, <2>7
  <1>4. CASE ~closed
    <2>1. Goto(c, "using", x) /\ out' = out \cup {x} /\ alive' = alive \cup {x} /\ old' = old \ {x}
      BY <1>4 DEF Born
    <2>2. /\ stage' \in [Clients -> Stages] /\ conn' \in [Clients -> Conns \cup {NoConn}]
          /\ stage'[c] = "using" /\ conn'[c] = x
          /\ \A d \in Clients : d # c => stage'[d] = stage[d] /\ conn'[d] = conn[d]
      BY <1>1, <2>1, GotoMoves DEF Stages
    <2>3. PoolTyped'
      BY <1>1, <2>1, <2>2 DEF PoolTyped
    <2>4. QueueKept'
      BY <2>2, QueueStays
    <2>5. HandsKept'
      BY <1>1, <1>2, <2>1, <2>2, PoolFacts DEF HandsKept, Holding
    <2>6. IdleKept' /\ SweepKept'
      BY <1>1, <2>1, StackStays DEF IdleKept
    <2>7. CountKept'
      <3>1. IsFiniteSet(Creators') /\ Cardinality(Creators') = Cardinality(Creators) - 1
        BY <2>2, CreatorLeaves DEF CountKept
      <3>2. IsFiniteSet(out') /\ Cardinality(out') = Cardinality(out) + 1 /\ Cardinality(out) \in Nat
        BY <1>1, <2>1, FS_AddElement, FS_CardinalityType DEF CountKept
      <3>3. PendingExact'
        <4>1. pending = Cardinality(Creators) + orphans + IF sweeping.at = "warming" THEN 1 ELSE 0
          BY <1>4, CreationsCounted DEF CountKept
        <4>2. Cardinality(Creators) \in Nat /\ orphans \in Nat /\ pending \in Int
          BY FS_CardinalityType DEF CountKept, PoolTyped
        <4>3. pending' = Cardinality(Creators') + orphans' + IF sweeping'.at = "warming" THEN 1 ELSE 0
          BY <3>1, <4>1, <4>2
        <4> QED BY <4>3 DEF PendingExact, Creators
      <3>4. WithinMaxSize'
        <4>1. ~options.validates => Len(idle) + Cardinality(out) + pending <= MaxSize
          BY DEF CountKept, WithinMaxSize
        <4> QED BY <3>2, <4>1, PoolFacts DEF WithinMaxSize, PoolTyped
      <3> QED BY <2>2, <3>1, <3>2, <3>3, <3>4 DEF CountKept, NoIdleWhileWaiting
    <2> QED BY <2>3, <2>4, <2>5, <2>6, <2>7
  <1> QED BY <1>3, <1>4

\* A creation that succeeds keeps the invariant: its connection takes the room it was counted for.
LEMMA CreatedKeeps ==
  ASSUME PoolIInv, NEW c \in Clients, Created(c) \/ Granted(c)
  PROVE  PoolIInv'
  <1>1. CASE Created(c)
    <2>1. PICK x \in {y \in Conns : New(y)} :
            IF closed THEN Goto(c, "refused", NoConn) /\ UNCHANGED <<out, alive, old>>
                      ELSE Goto(c, "using", x) /\ out' = out \cup {x} /\ Born(x)
      BY <1>1 DEF Created
    <2>2. /\ stage[c] \in {"creating", "granted"} /\ pending' = pending - 1
          /\ UNCHANGED <<idle, waiters, closed, orphans, sweeping, options>>
      BY <1>1 DEF Created, At
    <2> QED BY <2>1, <2>2, CreationEnds
  <1>2. CASE Granted(c)
    <2>1. PICK x \in {y \in Conns : New(y)} :
            IF closed THEN Goto(c, "away", NoConn) /\ UNCHANGED <<out, alive, old>>
                      ELSE Goto(c, "using", x) /\ out' = out \cup {x} /\ Born(x)
      BY <1>2 DEF Granted
    <2>2. /\ stage[c] \in {"creating", "granted"} /\ pending' = pending - 1
          /\ UNCHANGED <<idle, waiters, closed, orphans, sweeping, options>>
      BY <1>2 DEF Granted, At
    <2> QED BY <2>1, <2>2, CreationEnds
  <1> QED BY <1>1, <1>2

\* A creation fails, or what came of it is refused.
LEMMA CreationFails ==
  ASSUME PoolIInv, NEW c \in Clients, CreateFailed(c) \/ GrantFailed(c)
  PROVE  PoolIInv'
  <1> USE DEF PoolIInv
  <1>1. /\ stage[c] \in {"creating", "granted", "refused"} /\ Goto(c, "away", NoConn)
        /\ pending' = pending - 1
        /\ UNCHANGED <<idle, out, waiters, closed, alive, old, orphans, sweeping, options>>
    BY DEF CreateFailed, GrantFailed, At
  <1>2. InIdle' = InIdle
    BY <1>1 DEF InIdle
  <1>3. /\ stage' \in [Clients -> Stages] /\ conn' \in [Clients -> Conns \cup {NoConn}]
        /\ stage'[c] = "away" /\ conn'[c] = NoConn
        /\ \A d \in Clients : d # c => stage'[d] = stage[d] /\ conn'[d] = conn[d]
    BY <1>1, GotoMoves DEF Stages
  <1>4. PoolTyped'
    BY <1>1, <1>3 DEF PoolTyped
  <1>5. QueueKept'
    BY <1>1, <1>3, QueueStays
  <1>6. HandsKept'
    BY <1>1, <1>2, <1>3 DEF HandsKept, Holding
  <1>7. IdleKept' /\ SweepKept'
    BY <1>1, StackStays DEF IdleKept
  <1>8. CountKept'
    <2>1. /\ IsFiniteSet(Creators')
          /\ stage[c] # "refused" => Cardinality(Creators') = Cardinality(Creators) - 1
      <3>1. CASE stage[c] = "refused"
        BY <1>3, <3>1, SameCreators DEF CountKept
      <3>2. CASE stage[c] # "refused"
        BY <1>1, <1>3, <3>2, CreatorLeaves DEF CountKept
      <3> QED BY <3>1, <3>2
    <2>2. PendingExact'
      <3> SUFFICES ASSUME ~closed PROVE PendingExact'
        BY <1>1 DEF PendingExact
      <3>1. Cardinality(Creators') = Cardinality(Creators) - 1
        BY <2>1 DEF HandsKept
      <3>2. pending = Cardinality(Creators) + orphans + IF sweeping.at = "warming" THEN 1 ELSE 0
        BY CreationsCounted DEF CountKept
      <3>3. Cardinality(Creators) \in Nat /\ orphans \in Nat /\ pending \in Int
        BY FS_CardinalityType DEF CountKept, PoolTyped
      <3>4. pending' = Cardinality(Creators') + orphans' + IF sweeping'.at = "warming" THEN 1 ELSE 0
        BY <1>1, <3>1, <3>2, <3>3
      <3> QED BY <3>4 DEF PendingExact, Creators
    <2>3. WithinMaxSize'
      <3>1. ~options.validates => Len(idle) + Cardinality(out) + pending <= MaxSize
        BY DEF CountKept, WithinMaxSize
      <3>2. Cardinality(out) \in Int
        BY FS_CardinalityType DEF CountKept
      <3> QED BY <1>1, <3>1, <3>2, PoolFacts DEF WithinMaxSize, PoolTyped
    <2> QED BY <1>1, <1>3, <2>1, <2>2, <2>3 DEF CountKept, NoIdleWhileWaiting
  <1> QED BY <1>4, <1>5, <1>6, <1>7, <1>8

\* A replacement arrives for a waiter that is gone.
LEMMA OrphanDoneKeeps ==
  ASSUME PoolIInv, NEW ok \in BOOLEAN, OrphanDone(ok)
  PROVE  PoolIInv'
  <1> USE DEF PoolIInv
  <1>1. /\ orphans > 0 /\ orphans' = orphans - 1 /\ pending' = pending - 1
        /\ UNCHANGED <<idle, waiters, closed, stage, conn, sweeping, options>>
    BY DEF OrphanDone
  <1>2. InIdle' = InIdle /\ Creators' = Creators
    BY <1>1 DEF InIdle, Creators
  <1>3. QueueKept'
    BY <1>1 DEF QueueKept, Distinct
  <1>4. PendingExact'
    <2>1. Cardinality(Creators) \in Nat /\ orphans \in Nat /\ pending \in Int
      BY FS_CardinalityType DEF CountKept, PoolTyped
    <2> QED BY <1>1, <1>2, <2>1 DEF CountKept, PendingExact, Creators
  <1>5. Cardinality(out) \in Nat /\ IsFiniteSet(out)
    BY FS_CardinalityType DEF CountKept
  <1>6. CASE ok /\ ~closed
    <2>1. PICK x \in {y \in Conns : New(y)} : out' = out \cup {x} /\ Born(x)
      BY <1>6 DEF OrphanDone
    <2>2. /\ x \in Conns /\ x \notin alive /\ x \notin InIdle /\ x \notin out
          /\ \A d \in Clients : conn[d] # x
      BY NewIsFree
    <2>3. alive' = alive \cup {x} /\ old' = old \ {x} /\ out' = out \cup {x}
      BY <2>1 DEF Born
    <2>4. PoolTyped'
      BY <1>1, <2>2, <2>3 DEF PoolTyped
    <2>5. HandsKept'
      BY <1>1, <1>2, <2>2, <2>3 DEF HandsKept, Holding
    <2>6. IdleKept' /\ SweepKept'
      BY <1>1, <2>2, <2>3, StackStays DEF IdleKept
    <2>7. IsFiniteSet(out') /\ Cardinality(out') = Cardinality(out) + 1
      BY <1>5, <2>2, <2>3, FS_AddElement
    <2>8. WithinMaxSize'
      BY <1>1, <1>5, <2>7, PoolFacts DEF CountKept, WithinMaxSize, PoolTyped
    <2>9. CountKept'
      BY <1>1, <1>2, <1>4, <2>7, <2>8 DEF CountKept, NoIdleWhileWaiting
    <2> QED BY <1>3, <2>4, <2>5, <2>6, <2>9
  <1>7. CASE ~(ok /\ ~closed)
    <2>1. UNCHANGED <<out, alive, old>>
      BY <1>7 DEF OrphanDone
    <2>2. PoolTyped'
      BY <1>1, <2>1 DEF PoolTyped
    <2>3. HandsKept'
      BY <1>1, <1>2, <2>1 DEF HandsKept, Holding
    <2>4. IdleKept' /\ SweepKept'
      BY <1>1, <2>1, StackStays DEF IdleKept
    <2>5. WithinMaxSize'
      BY <1>1, <1>5, <2>1, PoolFacts DEF CountKept, WithinMaxSize, PoolTyped
    <2>6. CountKept'
      BY <1>1, <1>2, <1>4, <2>1, <2>5 DEF CountKept, NoIdleWhileWaiting
    <2> QED BY <1>3, <2>2, <2>3, <2>4, <2>6
  <1> QED BY <1>6, <1>7

\* A connection passes its lifetime.
LEMMA AgeKeeps ==
  ASSUME PoolIInv, NEW x \in Conns, Age(x)
  PROVE  PoolIInv'
  <1> USE DEF PoolIInv
  <1>1. /\ x \in alive /\ old' = old \cup {x}
        /\ UNCHANGED <<idle, out, pending, waiters, closed, alive, stage, conn, orphans, sweeping, options>>
    BY DEF Age
  <1>2. PoolTyped'
    BY <1>1 DEF PoolTyped
  <1>3. InIdle' = InIdle /\ Creators' = Creators
    BY <1>1 DEF InIdle, Creators
  <1>4. QueueKept' /\ HandsKept'
    BY <1>1, <1>3 DEF QueueKept, HandsKept, Distinct, Holding
  <1>5. IdleKept' /\ SweepKept'
    BY <1>1, StackStays DEF IdleKept
  <1>6. CountKept'
    BY <1>1, <1>3 DEF CountKept, PendingExact, WithinMaxSize, NoIdleWhileWaiting, Creators
  <1> QED BY <1>2, <1>4, <1>5, <1>6

\* A broken connection leaves, and so does a dead one that is given back.
LEMMA LentIsDestroyed ==
  ASSUME PoolIInv, NEW c \in Clients, stage[c] = "using", out' = out \ {conn[c]},
         Destroyed({conn[c]}), Goto(c, "returning", NoConn),
         UNCHANGED <<idle, pending, waiters, closed, orphans, sweeping, options>>
  PROVE  PoolIInv'
  <1> USE DEF PoolIInv
  <1>1. /\ stage' \in [Clients -> Stages] /\ conn' \in [Clients -> Conns \cup {NoConn}]
        /\ stage'[c] = "returning" /\ conn'[c] = NoConn
        /\ \A d \in Clients : d # c => stage'[d] = stage[d] /\ conn'[d] = conn[d]
    BY GotoMoves DEF Stages
  <1>2. conn[c] \in Conns /\ conn[c] \notin InIdle
    BY PoolFacts DEF HandsKept, Holding
  <1>3. InIdle' = InIdle
    BY DEF InIdle
  <1>4. PoolTyped'
    BY <1>1 DEF PoolTyped, Destroyed
  <1>5. QueueKept'
    BY <1>1, QueueStays
  <1>6. HandsKept'
    BY <1>1, <1>3 DEF HandsKept, Holding, Destroyed
  <1>7. IdleKept' /\ SweepKept'
    BY <1>2, StackStays DEF IdleKept, Destroyed
  <1>8. CountKept'
    <2>1. IsFiniteSet(Creators') /\ Cardinality(Creators') = Cardinality(Creators)
      BY <1>1, SameCreators DEF CountKept
    <2>2. /\ IsFiniteSet(out') /\ Cardinality(out') <= Cardinality(out)
          /\ Cardinality(out) \in Nat /\ Cardinality(out') \in Nat
      BY FS_Subset, FS_CardinalityType DEF CountKept
    <2>3. PendingExact'
      BY <2>1, CreationsCounted DEF CountKept, PendingExact, Creators
    <2>4. WithinMaxSize'
      BY <2>2, PoolFacts DEF CountKept, WithinMaxSize, PoolTyped
    <2> QED BY <1>1, <2>1, <2>2, <2>3, <2>4 DEF CountKept, NoIdleWhileWaiting
  <1> QED BY <1>4, <1>5, <1>6, <1>7, <1>8

\* The first of the queue, and the queue behind it.
LEMMA FirstInQueue ==
  ASSUME PoolTyped, QueueKept, waiters # <<>>
  PROVE  /\ Head(waiters) \in Clients /\ stage[Head(waiters)] = "waiting"
         /\ Tail(waiters) \in Seq(Clients) /\ Distinct(Tail(waiters))
         /\ \A i \in 1 .. Len(Tail(waiters)) :
              /\ Tail(waiters)[i] \in Clients /\ Tail(waiters)[i] # Head(waiters)
              /\ stage[Tail(waiters)[i]] = "waiting"
  <1>1. waiters \in Seq(Clients) /\ Len(waiters) \in Nat /\ Len(waiters) # 0
    BY EmptySeq, LenProperties DEF PoolTyped
  <1>2. Head(waiters) = waiters[1] /\ 1 \in 1 .. Len(waiters)
    BY <1>1
  <1>3. /\ Tail(waiters) \in Seq(Clients) /\ Len(Tail(waiters)) = Len(waiters) - 1
        /\ \A i \in 1 .. Len(Tail(waiters)) : Tail(waiters)[i] = waiters[i + 1]
    BY <1>1, HeadTailProperties
  <1>4. \A i \in 1 .. Len(Tail(waiters)) : i + 1 \in 1 .. Len(waiters) /\ i + 1 # 1
    BY <1>1, <1>3
  <1>5. \A i \in 1 .. Len(waiters) : waiters[i] \in Clients /\ stage[waiters[i]] = "waiting"
    BY PoolFacts DEF QueueKept
  <1>6. Distinct(Tail(waiters))
    BY <1>3, <1>4 DEF QueueKept, Distinct
  <1>7. \A i \in 1 .. Len(Tail(waiters)) : Tail(waiters)[i] # waiters[1]
    BY <1>2, <1>3, <1>4 DEF QueueKept, Distinct
  <1> QED BY <1>2, <1>3, <1>4, <1>5, <1>6, <1>7

\* The queue without its first.
LEMMA QueueMoves ==
  ASSUME PoolTyped, QueueKept, waiters # <<>>, waiters' = Tail(waiters), NEW c \in Clients, stage[c] # "waiting",
         \A d \in Clients : d # c /\ d # Head(waiters) => stage'[d] = stage[d]
  PROVE  QueueKept'
  <1>1. PICK q : q = Tail(waiters)
    OBVIOUS
  <1>2. /\ Distinct(q)
        /\ \A i \in 1 .. Len(q) : q[i] \in Clients /\ q[i] # Head(waiters) /\ stage[q[i]] = "waiting"
    BY <1>1, FirstInQueue
  <1> QED BY <1>1, <1>2 DEF QueueKept, Distinct

\* A connection that is given back goes to the first waiter, to the stack, or away.
LEMMA ReleaseKeeps ==
  ASSUME PoolIInv, SweepAlone, NEW c \in Clients, Release(c)
  PROVE  PoolIInv'
  <1> USE DEF PoolIInv
  <1> DEFINE x == conn[c]
  <1>1. /\ stage[c] = "using" /\ sweeping.at # "visiting"
        /\ UNCHANGED <<pending, closed, orphans, sweeping, options>>
    BY DEF Release, At, Served
  <1>2. /\ x \in Conns /\ x \in alive /\ x \notin InIdle /\ x \in out
        /\ \A d \in Clients : d # c /\ Holding(d) => conn[d] # x
    BY <1>1, PoolFacts DEF HandsKept, Holding
  <1>3. CASE closed \/ x \in old
    BY <1>1, <1>2, <1>3, LentIsDestroyed DEF Release
  <1>4. CASE ~(closed \/ x \in old) /\ Fed
    <2> DEFINE h == Head(waiters)
    <2>1. /\ waiters # <<>> /\ waiters' = Tail(waiters)
          /\ stage' = [stage EXCEPT ![c] = "away", ![h] = "using"]
          /\ conn' = [conn EXCEPT ![c] = NoConn, ![h] = x]
          /\ UNCHANGED <<idle, out, alive, old>>
      BY <1>2, <1>4 DEF Release, Fed
    <2>2. h \in Clients /\ stage[h] = "waiting" /\ h # c /\ Tail(waiters) \in Seq(Clients)
      BY <1>1, <2>1, FirstInQueue
    <2>3. PICK w \in Clients : w = h
      BY <2>2
    <2> HIDE DEF h, x
    <2>4. /\ stage' \in [Clients -> Stages] /\ conn' \in [Clients -> Conns \cup {NoConn}]
          /\ stage'[c] = "away" /\ conn'[c] = NoConn /\ stage'[w] = "using" /\ conn'[w] = x
          /\ \A d \in Clients : d # c /\ d # w => stage'[d] = stage[d] /\ conn'[d] = conn[d]
      BY <1>2, <2>1, <2>2, <2>3 DEF PoolTyped, Stages
    <2>5. PoolTyped'
      BY <1>1, <2>1, <2>2, <2>4 DEF PoolTyped
    <2>6. QueueKept'
      BY <1>1, <2>1, <2>3, <2>4, QueueMoves DEF h
    <2>7. InIdle' = InIdle
      BY <2>1 DEF InIdle
    <2>8. HandsKept'
      <3>1. ASSUME NEW d \in Clients
            PROVE  /\ conn'[d] # NoConn <=> stage'[d] \in {"validating", "using"}
                   /\ conn'[d] # NoConn => conn'[d] \in alive /\ conn'[d] \notin InIdle
                   /\ stage'[d] = "validating" => conn'[d] \notin out
                   /\ stage'[d] = "using" => conn'[d] \in out
                   /\ stage'[d] = "refused" => closed
        <4>1. CASE d # c /\ d # w
          BY <2>4, <4>1 DEF HandsKept, Holding
        <4>2. CASE d = c
          BY <2>4, <4>2
        <4>3. CASE d = w
          BY <1>2, <2>4, <4>3, PoolFacts
        <4> QED BY <4>1, <4>2, <4>3
      <3>2. \A d \in Clients : d # w /\ conn'[d] # NoConn => conn'[d] # x
        BY <1>2, <2>4 DEF Holding
      <3>3. ASSUME NEW d \in Clients, NEW e \in Clients, conn'[d] # NoConn, conn'[d] = conn'[e]
            PROVE  d = e
        <4>1. CASE d = w \/ e = w
          BY <2>4, <3>2, <3>3, <4>1
        <4>2. CASE d # w /\ e # w
          BY <2>4, <3>3, <4>2 DEF HandsKept, Holding
        <4> QED BY <4>1, <4>2
      <3> QED BY <1>1, <2>1, <2>7, <3>1, <3>3 DEF HandsKept, Holding
    <2>9. IdleKept' /\ SweepKept'
      BY <1>1, <2>1, StackStays DEF IdleKept
    <2>10. CountKept'
      <3>1. IsFiniteSet(Creators') /\ Cardinality(Creators') = Cardinality(Creators)
        BY <1>1, <2>2, <2>3, <2>4, SameCreators DEF CountKept
      <3>2. PendingExact'
        BY <1>1, <3>1, CreationsCounted DEF CountKept, PendingExact, Creators
      <3>3. NoIdleWhileWaiting'
        BY <1>1, <2>1 DEF CountKept, NoIdleWhileWaiting
      <3>4. \A d \in Clients : stage'[d] \in {"validating", "discarding"} => stage[d] \in {"validating", "discarding"}
        BY <2>4
      <3> QED BY <1>1, <2>1, <3>1, <3>2, <3>3, <3>4 DEF CountKept, WithinMaxSize
    <2> QED BY <2>5, <2>6, <2>8, <2>9, <2>10
  <1>5. CASE ~(closed \/ x \in old) /\ ~Fed
    <2>1. /\ waiters = <<>> /\ UNCHANGED <<waiters, alive, old>>
          /\ idle' = Append(idle, x) /\ out' = out \ {x} /\ Goto(c, "away", NoConn)
      BY <1>2, <1>5 DEF Release, Fed
    <2>2. /\ stage' \in [Clients -> Stages] /\ conn' \in [Clients -> Conns \cup {NoConn}]
          /\ stage'[c] = "away" /\ conn'[c] = NoConn
          /\ \A d \in Clients : d # c => stage'[d] = stage[d] /\ conn'[d] = conn[d]
      BY <2>1, GotoMoves DEF Stages
    <2>3. idle \in Seq(Conns) /\ Len(idle) \in Nat
      BY PoolFacts DEF PoolTyped
    <2>4. /\ idle' \in Seq(Conns) /\ Len(idle') = Len(idle) + 1 /\ idle'[Len(idle) + 1] = x
          /\ \A i \in 1 .. Len(idle) : idle'[i] = idle[i]
      BY <1>2, <2>1, <2>3, AppendProperties
    <2>5. PoolTyped'
      BY <1>1, <2>1, <2>2, <2>4 DEF PoolTyped
    <2>6. QueueKept'
      BY <1>1, <2>1, <2>2, QueueStays
    <2>7. \A y : y \in InIdle' <=> y \in InIdle \/ y = x
      <3>1. \A i \in 1 .. Len(idle) + 1 : i \in 1 .. Len(idle) \/ i = Len(idle) + 1
        BY <2>3
      <3>2. \A y : y \in InIdle' <=> \E i \in 1 .. Len(idle') : idle'[i] = y
        BY <2>4, LenProperties DEF InIdle
      <3>3. \A y : y \in InIdle <=> \E i \in 1 .. Len(idle) : idle[i] = y
        BY IdlePlace
      <3>4. Len(idle) + 1 \in 1 .. Len(idle) + 1 /\ \A i \in 1 .. Len(idle) : i \in 1 .. Len(idle) + 1
        BY <2>3
      <3> QED BY <2>4, <3>1, <3>2, <3>3, <3>4
    <2>8. HandsKept'
      BY <1>1, <1>2, <2>1, <2>2, <2>7 DEF HandsKept, Holding
    <2>9. IdleKept'
      <3>1. Distinct(idle')
        <4>1. \A i \in 1 .. Len(idle) : idle[i] # x
          BY <1>2, IdlePlace
        <4>2. \A i \in 1 .. Len(idle) + 1 : i \in 1 .. Len(idle) \/ i = Len(idle) + 1
          BY <2>3
        <4> QED BY <2>4, <4>1, <4>2 DEF IdleKept, Distinct
      <3> QED BY <1>1, <1>2, <2>1, <2>7, <3>1 DEF IdleKept
    <2>10. SweepKept'
      BY <1>1 DEF SweepKept
    <2>11. CountKept'
      <3>1. IsFiniteSet(Creators') /\ Cardinality(Creators') = Cardinality(Creators)
        BY <1>1, <2>2, SameCreators DEF CountKept
      <3>2. PendingExact'
        BY <1>1, <3>1, CreationsCounted DEF CountKept, PendingExact, Creators
      <3>3. /\ IsFiniteSet(out') /\ Cardinality(out') = Cardinality(out) - 1
            /\ Cardinality(out) \in Nat
        BY <1>2, <2>1, FS_RemoveElement, FS_CardinalityType DEF CountKept
      <3>4. WithinMaxSize'
        BY <1>1, <2>3, <2>4, <3>3, PoolFacts DEF CountKept, WithinMaxSize, PoolTyped
      <3> QED BY <1>1, <2>1, <2>2, <3>1, <3>2, <3>3, <3>4 DEF CountKept, NoIdleWhileWaiting
    <2> QED BY <2>5, <2>6, <2>8, <2>9, <2>10, <2>11
  <1> QED BY <1>3, <1>4, <1>5

\* Destroying a connection that is lent (destroyCheckedOut) keeps the invariant.
LEMMA DestroyCheckedOutKeeps ==
  ASSUME PoolIInv, NEW c \in Clients, DestroyCheckedOut(c)
  PROVE  PoolIInv'
  BY LentIsDestroyed DEF DestroyCheckedOut, At

\* The first waiter is granted a new connection, or is lost.
LEMMA WakeKeeps ==
  ASSUME PoolIInv, SweepAlone, NEW c \in Clients, Wake(c)
  PROVE  PoolIInv'
  <1> USE DEF PoolIInv
  <1>1. /\ stage[c] = "returning" /\ sweeping.at # "visiting" /\ conn' = conn
        /\ UNCHANGED <<idle, out, closed, alive, old, orphans, sweeping, options>>
    BY DEF Wake, At, Served
  <1>2. InIdle' = InIdle
    BY <1>1 DEF InIdle
  <1>3. IdleKept' /\ SweepKept'
    BY <1>1, StackStays DEF IdleKept
  <1>4. ~Holding(c)
    BY <1>1 DEF HandsKept
  <1>5. CASE ~Fed \/ closed \/ ~Room(idle, out, pending)
    <2>1. /\ stage' = [stage EXCEPT ![c] = "away"] /\ UNCHANGED pending
          /\ UNCHANGED waiters \/ (waiters # <<>> /\ waiters' = Tail(waiters))
      BY <1>5 DEF Wake, Fed
    <2>2. /\ stage' \in [Clients -> Stages] /\ stage'[c] = "away"
          /\ \A d \in Clients : d # c => stage'[d] = stage[d]
      BY <2>1 DEF PoolTyped, Stages
    <2>3. PoolTyped' /\ QueueKept'
      <3>1. CASE UNCHANGED waiters
        BY <1>1, <2>1, <2>2, <3>1, QueueStays DEF PoolTyped
      <3>2. CASE waiters # <<>> /\ waiters' = Tail(waiters)
        <4>1. Tail(waiters) \in Seq(Clients)
          BY <3>2, FirstInQueue
        <4>2. PoolTyped'
          BY <1>1, <2>1, <2>2, <3>2, <4>1 DEF PoolTyped
        <4>3. QueueKept'
          BY <1>1, <2>2, <3>2, QueueMoves
        <4> QED BY <4>2, <4>3
      <3> QED BY <2>1, <3>1, <3>2
    <2>4. HandsKept'
      BY <1>1, <1>2, <1>4, <2>2 DEF HandsKept, Holding
    <2>5. CountKept'
      <3>1. IsFiniteSet(Creators') /\ Cardinality(Creators') = Cardinality(Creators)
        BY <1>1, <2>2, SameCreators DEF CountKept
      <3>2. PendingExact'
        BY <1>1, <2>1, <3>1, CreationsCounted DEF CountKept, PendingExact, Creators
      <3>3. NoIdleWhileWaiting'
        BY <1>1, <2>1 DEF CountKept, NoIdleWhileWaiting
      <3> QED BY <1>1, <2>1, <2>2, <3>1, <3>2, <3>3 DEF CountKept, WithinMaxSize
    <2> QED BY <1>3, <2>3, <2>4, <2>5
  <1>6. CASE Fed /\ ~closed /\ Room(idle, out, pending)
    <2> DEFINE h == Head(waiters)
    <2>1. /\ waiters # <<>> /\ waiters' = Tail(waiters) /\ pending' = pending + 1
          /\ stage' = [stage EXCEPT ![c] = "away", ![h] = "granted"]
      BY <1>6 DEF Wake, Fed
    <2>2. h \in Clients /\ stage[h] = "waiting" /\ h # c /\ Tail(waiters) \in Seq(Clients)
      BY <1>1, <2>1, FirstInQueue
    <2>3. PICK w \in Clients : w = h
      BY <2>2
    <2> HIDE DEF h
    <2>4. /\ stage' \in [Clients -> Stages] /\ stage'[c] = "away" /\ stage'[w] = "granted"
          /\ \A d \in Clients : d # c /\ d # w => stage'[d] = stage[d]
      BY <2>1, <2>2, <2>3 DEF PoolTyped, Stages
    <2>5. PoolTyped'
      BY <1>1, <2>1, <2>2, <2>4 DEF PoolTyped
    <2>6. QueueKept'
      BY <1>1, <2>1, <2>3, <2>4, QueueMoves DEF h
    <2>7. HandsKept'
      BY <1>1, <1>2, <1>4, <2>2, <2>3, <2>4 DEF HandsKept, Holding
    <2>8. CountKept'
      <3>1. IsFiniteSet(Creators') /\ Cardinality(Creators') = Cardinality(Creators) + 1
        BY <1>1, <2>2, <2>3, <2>4, CreatorJoins DEF CountKept
      <3>2. Cardinality(Creators) \in Nat /\ orphans \in Nat /\ pending \in Int /\ Cardinality(out) \in Nat
        BY FS_CardinalityType DEF CountKept, PoolTyped
      <3>3. PendingExact'
        <4>1. pending = Cardinality(Creators) + orphans + IF sweeping.at = "warming" THEN 1 ELSE 0
          BY <1>6, CreationsCounted DEF CountKept
        <4>2. pending' = Cardinality(Creators') + orphans' + IF sweeping'.at = "warming" THEN 1 ELSE 0
          BY <1>1, <2>1, <3>1, <3>2, <4>1
        <4> QED BY <4>2 DEF PendingExact, Creators
      <3>4. WithinMaxSize'
        BY <1>1, <1>6, <2>1, <3>2, PoolFacts DEF WithinMaxSize, Room
      <3>5. NoIdleWhileWaiting'
        BY <1>1, <2>1 DEF CountKept, NoIdleWhileWaiting
      <3>6. \A d \in Clients : stage'[d] \in {"validating", "discarding"} => stage[d] \in {"validating", "discarding"}
        BY <2>4
      <3> QED BY <1>1, <3>1, <3>3, <3>4, <3>5, <3>6 DEF CountKept
    <2> QED BY <1>3, <2>5, <2>6, <2>7, <2>8
  <1> QED BY <1>5, <1>6

\* A waiter gives up, queued or not, or while its connection is made.
LEMMA TimedOutKeeps ==
  ASSUME PoolIInv, NEW c \in Clients, TimedOut(c)
  PROVE  PoolIInv'
  <1> USE DEF PoolIInv
  <1> DEFINE q == Without(waiters, {c})
  <1>1. /\ stage[c] \in {"waiting", "granted"} /\ Goto(c, "away", NoConn) /\ waiters' = q
        /\ orphans' = IF stage[c] = "granted" THEN orphans + 1 ELSE orphans
        /\ UNCHANGED <<idle, out, pending, closed, alive, old, sweeping, options>>
    BY DEF TimedOut, Awaits, At
  <1>2. /\ stage' \in [Clients -> Stages] /\ conn' \in [Clients -> Conns \cup {NoConn}]
        /\ stage'[c] = "away" /\ conn'[c] = NoConn
        /\ \A d \in Clients : d # c => stage'[d] = stage[d] /\ conn'[d] = conn[d]
    BY <1>1, GotoMoves DEF Stages
  <1>3. PICK r \in Seq(Clients) : r = q
    BY WithoutProperties DEF PoolTyped
  <1>4. /\ Distinct(r)
        /\ \A i \in 1 .. Len(r) : r[i] # c /\ \E j \in 1 .. Len(waiters) : waiters[j] = r[i]
    <2>1. PICK s \in Seq(Clients) : s = waiters
      BY DEF PoolTyped
    <2>2. PICK gone : gone = {c}
      OBVIOUS
    <2>3. Distinct(s) /\ r = Without(s, gone)
      BY <1>3, <2>1, <2>2 DEF QueueKept
    <2>4. Distinct(r)
      BY <2>3, WithoutDistinct
    <2>5. \A i \in 1 .. Len(r) : r[i] \notin gone /\ \E j \in 1 .. Len(s) : s[j] = r[i]
      BY <2>3, WithoutProperties
    <2> QED BY <2>1, <2>2, <2>4, <2>5
  <1> HIDE DEF q
  <1>5. waiters' = r /\ InIdle' = InIdle
    BY <1>1, <1>3 DEF InIdle
  <1>6. PoolTyped'
    BY <1>1, <1>2, <1>5 DEF PoolTyped
  <1>7. QueueKept'
    <2>1. \A i \in 1 .. Len(r) : r[i] \in Clients /\ r[i] # c /\ stage[r[i]] = "waiting"
      BY <1>4, PoolFacts DEF QueueKept
    <2> QED BY <1>2, <1>4, <1>5, <2>1 DEF QueueKept, Distinct
  <1>8. HandsKept'
    BY <1>1, <1>2, <1>5 DEF HandsKept, Holding
  <1>9. IdleKept' /\ SweepKept'
    BY <1>1, StackStays DEF IdleKept
  <1>10. CountKept'
    <2>1. /\ IsFiniteSet(Creators')
          /\ Cardinality(Creators') = IF stage[c] = "granted" THEN Cardinality(Creators) - 1 ELSE Cardinality(Creators)
      <3>1. CASE stage[c] = "granted"
        BY <1>2, <3>1, CreatorLeaves DEF CountKept
      <3>2. CASE stage[c] = "waiting"
        BY <1>2, <3>2, SameCreators DEF CountKept
      <3> QED BY <1>1, <3>1, <3>2
    <2>2. PendingExact'
      <3>1. ~closed => pending = Cardinality(Creators) + orphans + IF sweeping.at = "warming" THEN 1 ELSE 0
        BY CreationsCounted DEF CountKept
      <3>2. Cardinality(Creators) \in Nat /\ orphans \in Nat
        BY FS_CardinalityType DEF CountKept, PoolTyped
      <3>3. ~closed' => pending' = Cardinality(Creators') + orphans' + IF sweeping'.at = "warming" THEN 1 ELSE 0
        BY <1>1, <2>1, <3>1, <3>2
      <3> QED BY <3>3 DEF PendingExact, Creators
    <2>3. NoIdleWhileWaiting'
      <3>1. r # <<>> => waiters # <<>>
        <4> SUFFICES ASSUME r # <<>> PROVE waiters # <<>>
          OBVIOUS
        <4>1. Len(r) \in Nat /\ Len(r) # 0
          BY LenProperties, EmptySeq
        <4>2. 1 \in 1 .. Len(r)
          BY <4>1
        <4> QED BY <1>4, <4>2, EmptySeq
      <3> QED BY <1>1, <1>5, <3>1 DEF CountKept, NoIdleWhileWaiting
    <2> QED BY <1>1, <1>2, <2>1, <2>2, <2>3 DEF CountKept, WithinMaxSize
  <1> QED BY <1>6, <1>7, <1>8, <1>9, <1>10

\* The pool closes: the waiters are refused and what is idle is destroyed.
LEMMA CloseKeeps ==
  ASSUME PoolIInv, SweepAlone, Close
  PROVE  PoolIInv'
  <1> USE DEF PoolIInv
  <1>1. /\ sweeping.at # "visiting" /\ closed' = TRUE /\ waiters' = <<>> /\ idle' = <<>>
        /\ stage' = [c \in Clients |-> IF \E i \in DOMAIN waiters : waiters[i] = c THEN "away" ELSE stage[c]]
        /\ alive' = alive \ InIdle /\ old' = old \ InIdle
        /\ UNCHANGED <<out, pending, conn, orphans, sweeping, options>>
    BY DEF Close, Served, Destroyed
  <1>2. ASSUME NEW c \in Clients
        PROVE  stage'[c] = stage[c] \/ (stage[c] = "waiting" /\ stage'[c] = "away")
    BY <1>1, PoolFacts DEF QueueKept
  <1>3. InIdle' = {}
    BY <1>1, EmptySeq, LenProperties DEF InIdle
  <1>4. stage' \in [Clients -> Stages]
    BY <1>1, <1>2 DEF PoolTyped, Stages
  <1>5. PoolTyped'
    BY <1>1, <1>4, EmptySeq DEF PoolTyped
  <1>6. QueueKept'
    BY <1>1, EmptySeq DEF QueueKept, Distinct
  <1>7. HandsKept'
    <2>1. \A c \in Clients : /\ Holding(c)' <=> stage'[c] \in {"validating", "using"}
                             /\ Holding(c)' <=> Holding(c)
      BY <1>1, <1>2 DEF HandsKept, Holding
    <2> QED BY <1>1, <1>2, <1>3, <2>1 DEF HandsKept
  <1>8. IdleKept' /\ SweepKept'
    BY <1>1, <1>3, EmptySeq DEF IdleKept, SweepKept, Distinct
  <1>9. CountKept'
    <2>1. IsFiniteSet(Creators') /\ Cardinality(Creators') = Cardinality(Creators)
      BY <1>2, SameCreators DEF CountKept
    <2>2. WithinMaxSize'
      <3>1. Len(idle') = 0 /\ Cardinality(out) \in Nat /\ pending \in Int
        BY <1>1, EmptySeq, FS_CardinalityType DEF CountKept, PoolTyped
      <3> QED BY <1>1, <3>1, PoolFacts DEF CountKept, WithinMaxSize
    <2> QED BY <1>1, <1>2, <2>1, <2>2 DEF CountKept, PendingExact, NoIdleWhileWaiting
  <1> QED BY <1>5, <1>6, <1>7, <1>8, <1>9

\* What serving a call leaves of the stack.
LEMMA StackServed ==
  ASSUME PoolTyped, IdleKept, sweeping.at # "visiting", NEW top \in 0 .. Len(idle),
         idle' = Popped(top), Destroyed({idle[i] : i \in {j \in DOMAIN idle : j > top}})
  PROVE  /\ idle' \in Seq(Conns) /\ Len(idle') = (IF top > 0 THEN top - 1 ELSE 0) /\ Distinct(idle')
         /\ \A i \in 1 .. Len(idle') : i < top /\ i \in 1 .. Len(idle) /\ idle'[i] = idle[i]
         /\ alive' \subseteq alive /\ old' \subseteq old /\ old' \subseteq alive'
         /\ \A x \in alive : x \notin InIdle => x \in alive'
         /\ InIdle' \subseteq InIdle \cap alive'
         /\ top > 0 => idle[top] \in Conns /\ idle[top] \in alive' /\ idle[top] \in InIdle /\ idle[top] \notin InIdle'
  <1>1. Len(idle) \in Nat /\ DOMAIN idle = 1 .. Len(idle) /\ \A i \in 1 .. Len(idle) : idle[i] \in Conns
    BY PoolFacts
  <1>2. idle' = SubSeq(idle, 1, top - 1) /\ 1 \in Int /\ top - 1 \in Int /\ \A i \in 1 .. top - 1 : i \in 1 .. Len(idle)
    BY <1>1 DEF Popped
  <1>3. /\ idle' \in Seq(Conns) /\ Len(idle') = (IF top > 0 THEN top - 1 ELSE 0)
        /\ \A i \in 1 .. Len(idle') : i < top /\ i \in 1 .. Len(idle) /\ idle'[i] = idle[i]
    <2>1. /\ SubSeq(idle, 1, top - 1) \in Seq(Conns)
          /\ Len(SubSeq(idle, 1, top - 1)) = IF 1 <= top - 1 THEN top - 1 - 1 + 1 ELSE 0
          /\ \A i \in 1 .. top - 1 - 1 + 1 : SubSeq(idle, 1, top - 1)[i] = idle[1 + i - 1]
      BY <1>1, <1>2, SubSeqProperties
    <2>2. PICK s : s = SubSeq(idle, 1, top - 1)
      OBVIOUS
    <2>3. s \in Seq(Conns) /\ Len(s) = (IF top > 0 THEN top - 1 ELSE 0)
      BY <1>1, <2>1, <2>2
    <2>4. ASSUME NEW i \in 1 .. Len(s)
          PROVE  i < top /\ i \in 1 .. Len(idle) /\ s[i] = idle[i]
      <3>1. i \in Nat /\ i < top /\ i \in 1 .. Len(idle)
        <4>1. Len(s) \in Nat /\ top \in Nat /\ top <= Len(idle) /\ (Len(s) = 0 \/ Len(s) = top - 1)
          BY <1>1, <2>3
        <4> QED BY <1>1, <4>1
      <3>2. i \in 1 .. top - 1 - 1 + 1 /\ 1 + i - 1 = i
        BY <1>1, <3>1
      <3> QED BY <2>1, <2>2, <3>1, <3>2
    <2> QED BY <1>2, <2>2, <2>3, <2>4
  <1>4. Distinct(idle')
    BY <1>3 DEF IdleKept, Distinct
  <1> DEFINE E == {idle[i] : i \in {j \in DOMAIN idle : j > top}}
  <1>5. alive' = alive \ E /\ old' = old \ E /\ E \subseteq InIdle
    BY DEF Destroyed, InIdle
  <1>6. ASSUME NEW i \in 1 .. Len(idle), i <= top
        PROVE  idle[i] \in InIdle /\ idle[i] \in alive /\ idle[i] \notin E
    <2>1. idle[i] \in InIdle /\ InIdle \subseteq alive
      BY IdlePlace DEF IdleKept
    <2>2. \A j \in DOMAIN idle : j > top => idle[i] # idle[j]
      <3>1. \A j \in 1 .. Len(idle) : j > top => i # j
        BY <1>6
      <3> QED BY <1>1, <3>1 DEF IdleKept, Distinct
    <2> QED BY <2>1, <2>2
  <1>7. \A y : y \in InIdle' <=> \E i \in 1 .. Len(idle') : idle'[i] = y
    BY <1>3, LenProperties DEF InIdle
  <1> HIDE DEF E
  <1>8. InIdle' \subseteq InIdle \cap alive'
    <2>1. \A i \in 1 .. Len(idle') : i <= top /\ i \in 1 .. Len(idle) /\ idle'[i] = idle[i]
      BY <1>3
    <2> QED BY <1>5, <1>6, <1>7, <2>1
  <1>9. ASSUME top > 0
        PROVE  idle[top] \in Conns /\ idle[top] \in alive' /\ idle[top] \in InIdle /\ idle[top] \notin InIdle'
    <2>1. top \in 1 .. Len(idle) /\ top <= top
      BY <1>9
    <2>2. idle[top] \in Conns /\ idle[top] \in alive' /\ idle[top] \in InIdle
      BY <1>1, <1>5, <1>6, <2>1
    <2>3. \A i \in 1 .. Len(idle') : idle'[i] # idle[top]
      <3>1. \A i \in 1 .. Len(idle') : i # top /\ i \in 1 .. Len(idle) /\ idle'[i] = idle[i]
        BY <1>3
      <3> QED BY <2>1, <3>1 DEF IdleKept, Distinct
    <2> QED BY <1>7, <2>2, <2>3
  <1>10. old' \subseteq alive'
    BY <1>5 DEF PoolTyped
  <1> QED BY <1>3, <1>4, <1>5, <1>8, <1>9, <1>10

\* A call without a connection goes on without one.
LEMMA HandsOff ==
  ASSUME HandsKept, NEW c \in Clients, conn'[c] = NoConn, stage'[c] \in {"creating", "waiting"},
         \A d \in Clients : d # c => stage'[d] = stage[d] /\ conn'[d] = conn[d],
         UNCHANGED <<closed, out>>, InIdle' \subseteq InIdle,
         \A x \in alive : x \notin InIdle => x \in alive'
  PROVE  HandsKept'
  <1>1. ASSUME NEW d \in Clients
        PROVE  /\ Holding(d)' <=> stage'[d] \in {"validating", "using"}
               /\ Holding(d)' => conn'[d] \in alive' /\ conn'[d] \notin InIdle'
               /\ stage'[d] = "validating" => conn'[d] \notin out'
               /\ stage'[d] = "using" => conn'[d] \in out'
               /\ stage'[d] = "refused" => closed'
    <2>1. CASE d = c
      BY <2>1 DEF Holding
    <2>2. CASE d # c
      BY <2>2 DEF HandsKept, Holding
    <2> QED BY <2>1, <2>2
  <1>2. \A d, e \in Clients : Holding(d)' /\ conn'[d] = conn'[e] => d = e
    BY DEF HandsKept, Holding
  <1> QED BY <1>1, <1>2 DEF HandsKept

\* acquire, and its loop again after a connection that was no good.
LEMMA ServeKeeps ==
  ASSUME PoolIInv, SweepAlone, NEW c \in Clients, Acquire(c) \/ Discarded(c)
  PROVE  PoolIInv'
  <1> USE DEF PoolIInv
  <1> DEFINE usable == {i \in DOMAIN idle : idle[i] \notin old}
             last == CHOOSE i \in usable \cup {0} : \A j \in usable : j <= i
  <1>1. /\ stage[c] \in {"away", "discarding"} /\ sweeping.at # "visiting" /\ Serve(c)
        /\ UNCHANGED <<closed, orphans, sweeping, options>>
    BY DEF Acquire, Discarded, At, Served, Serve
  <1>2. last \in 0 .. Len(idle)
    <2>1. usable \cup {0} \in SUBSET (0 .. Len(idle)) /\ usable \cup {0} # {} /\ Len(idle) \in Nat
      BY PoolFacts
    <2> HIDE DEF usable
    <2>2. \E i \in usable \cup {0} : \A j \in usable : j <= i
      BY <2>1, GreatestNumber
    <2> QED BY <2>1, <2>2
  <1>3. PICK top \in 0 .. Len(idle) : top = last
    BY <1>2
  <1>4. /\ idle' = Popped(top)
        /\ Destroyed({idle[i] : i \in {j \in DOMAIN idle : j > top}})
        /\ top > 0 => /\ Goto(c, IF options.validates THEN "validating" ELSE "using", idle[top])
                      /\ out' = IF options.validates THEN out ELSE out \cup {idle[top]}
                      /\ UNCHANGED <<pending, waiters>>
        /\ ~(top > 0) /\ Room(<<>>, out, pending) =>
                      /\ pending' = pending + 1
                      /\ Goto(c, "creating", NoConn)
                      /\ UNCHANGED <<out, waiters>>
        /\ ~(top > 0) /\ ~Room(<<>>, out, pending) =>
                      /\ waiters' = Append(waiters, c)
                      /\ Goto(c, "waiting", NoConn)
                      /\ UNCHANGED <<out, pending>>
    <2> HIDE DEF PoolIInv
    <2> QED BY <1>1, <1>3 DEF Serve
  <1> HIDE DEF usable, last
  <1>5. /\ idle' \in Seq(Conns) /\ Len(idle') = (IF top > 0 THEN top - 1 ELSE 0) /\ Distinct(idle')
        /\ \A i \in 1 .. Len(idle') : i < top /\ i \in 1 .. Len(idle) /\ idle'[i] = idle[i]
        /\ alive' \subseteq alive /\ old' \subseteq old /\ old' \subseteq alive'
        /\ \A x \in alive : x \notin InIdle => x \in alive'
        /\ InIdle' \subseteq InIdle \cap alive'
        /\ top > 0 => idle[top] \in Conns /\ idle[top] \in alive' /\ idle[top] \in InIdle /\ idle[top] \notin InIdle'
    BY <1>1, <1>4, StackServed
  <1>6. Len(idle) \in Nat /\ Len(idle') \in Nat /\ Len(idle') <= Len(idle) /\ (top > 0 => Len(idle') + 1 <= Len(idle))
    BY <1>3, <1>5, PoolFacts
  <1>7. SweepKept'
    BY <1>1 DEF SweepKept
  <1>8. ~Holding(c)
    BY <1>1 DEF HandsKept
  <1>9. Cardinality(Creators) \in Nat /\ orphans \in Nat /\ pending \in Int /\ Cardinality(out) \in Nat
        /\ MaxSize \in Nat
    BY PoolFacts, FS_CardinalityType DEF CountKept, PoolTyped
  <1>10. CASE top > 0
    <2> DEFINE s == IF options.validates THEN "validating" ELSE "using"
    <2>1. PICK x \in Conns : x = idle[top]
      BY <1>5, <1>10
    <2>2. /\ Goto(c, s, x) /\ out' = (IF options.validates THEN out ELSE out \cup {x}) /\ UNCHANGED <<pending, waiters>>
      BY <1>4, <1>10, <2>1
    <2>3. /\ stage' \in [Clients -> Stages] /\ conn' \in [Clients -> Conns \cup {NoConn}]
          /\ stage'[c] = s /\ conn'[c] = x
          /\ \A d \in Clients : d # c => stage'[d] = stage[d] /\ conn'[d] = conn[d]
      <3>1. s \in Stages
        BY DEF Stages
      <3> QED BY <2>2, <3>1, GotoMoves
    <2>4. x \in alive' /\ x \in InIdle /\ x \notin InIdle' /\ x \notin out
      BY <1>5, <1>10, <2>1 DEF IdleKept
    <2>5. PoolTyped'
      BY <1>1, <1>5, <2>2, <2>3 DEF PoolTyped
    <2>6. QueueKept'
      BY <1>1, <2>2, <2>3, QueueStays
    <2>7. HandsKept'
      <3>1. ASSUME NEW d \in Clients
            PROVE  /\ Holding(d)' <=> stage'[d] \in {"validating", "using"}
                   /\ Holding(d)' => conn'[d] \in alive' /\ conn'[d] \notin InIdle'
                   /\ stage'[d] = "validating" => conn'[d] \notin out'
                   /\ stage'[d] = "using" => conn'[d] \in out'
                   /\ stage'[d] = "refused" => closed'
        <4>1. CASE d = c
          BY <2>1, <2>2, <2>3, <2>4, <4>1, PoolFacts DEF Holding
        <4>2. CASE d # c
          BY <1>1, <1>5, <2>2, <2>3, <2>4, <4>2 DEF HandsKept, Holding
        <4> QED BY <4>1, <4>2
      <3>2. \A d \in Clients : Holding(d) => conn[d] # x
        BY <2>4 DEF HandsKept
      <3>3. \A d, e \in Clients : Holding(d)' /\ conn'[d] = conn'[e] => d = e
        BY <1>8, <2>3, <3>2 DEF HandsKept, Holding
      <3> QED BY <3>1, <3>3 DEF HandsKept
    <2>8. IdleKept'
      BY <1>5, <2>2, <2>4 DEF IdleKept
    <2>9. CountKept'
      <3>1. IsFiniteSet(Creators') /\ Cardinality(Creators') = Cardinality(Creators)
        BY <1>1, <2>3, SameCreators DEF CountKept
      <3>2. PendingExact'
        BY <1>1, <2>2, <3>1, CreationsCounted DEF CountKept, PendingExact, Creators
      <3>3. /\ IsFiniteSet(out') /\ Cardinality(out') \in Nat
            /\ ~options.validates => Cardinality(out') = Cardinality(out) + 1
        BY <1>9, <2>2, <2>4, FS_AddElement, FS_CardinalityType DEF CountKept
      <3>4. WithinMaxSize'
        BY <1>1, <1>6, <1>9, <1>10, <2>2, <3>3 DEF CountKept, WithinMaxSize
      <3>5. NoIdleWhileWaiting'
        <4>1. Len(idle) # 0 => idle # <<>>
          BY EmptySeq
        <4>2. idle # <<>>
          BY <1>6, <1>10, <4>1
        <4> QED BY <1>1, <2>2, <4>2 DEF CountKept, NoIdleWhileWaiting
      <3>6. ~options.validates => \A d \in Clients : stage'[d] \notin {"validating", "discarding"}
        BY <2>3 DEF CountKept
      <3> QED BY <1>1, <3>1, <3>2, <3>3, <3>4, <3>5, <3>6 DEF CountKept
    <2> QED BY <1>7, <2>5, <2>6, <2>7, <2>8, <2>9
  <1>11. CASE ~(top > 0)
    <2>1. idle' = <<>>
      <3>1. Len(idle') = 0
        BY <1>5, <1>11
      <3> QED BY <1>5, <3>1, EmptySeq
    <2>2. IdleKept' /\ NoIdleWhileWaiting'
      <3>1. UNCHANGED out
        BY <1>4, <1>11
      <3> QED BY <1>5, <2>1, <3>1 DEF IdleKept, NoIdleWhileWaiting
    <2>3. CASE Room(<<>>, out, pending)
      <3>1. pending' = pending + 1 /\ Goto(c, "creating", NoConn) /\ UNCHANGED <<out, waiters>>
        BY <1>4, <1>11, <2>3
      <3>2. /\ stage' \in [Clients -> Stages] /\ conn' \in [Clients -> Conns \cup {NoConn}]
            /\ stage'[c] = "creating" /\ conn'[c] = NoConn
            /\ \A d \in Clients : d # c => stage'[d] = stage[d] /\ conn'[d] = conn[d]
        BY <3>1, GotoMoves DEF Stages
      <3>3. PoolTyped'
        BY <1>1, <1>5, <3>1, <3>2 DEF PoolTyped
      <3>4. QueueKept'
        BY <1>1, <3>1, <3>2, QueueStays
      <3>5. HandsKept'
        BY <1>1, <1>5, <3>1, <3>2, HandsOff
      <3>6. CountKept'
        <4>1. IsFiniteSet(Creators') /\ Cardinality(Creators') = Cardinality(Creators) + 1
          BY <1>1, <3>2, CreatorJoins DEF CountKept
        <4>2. PendingExact'
          <5>1. ~closed => pending = Cardinality(Creators) + orphans + IF sweeping.at = "warming" THEN 1 ELSE 0
            BY CreationsCounted DEF CountKept
          <5>2. ~closed' => pending' = Cardinality(Creators') + orphans' + IF sweeping'.at = "warming" THEN 1 ELSE 0
            BY <1>1, <1>9, <3>1, <4>1, <5>1
          <5> QED BY <5>2 DEF PendingExact, Creators
        <4>3. WithinMaxSize'
          BY <1>1, <1>9, <2>1, <2>3, <3>1, EmptySeq DEF WithinMaxSize, Room
        <4> QED BY <1>1, <2>2, <3>1, <3>2, <4>1, <4>2, <4>3 DEF CountKept
      <3> QED BY <1>7, <2>2, <3>3, <3>4, <3>5, <3>6
    <2>4. CASE ~Room(<<>>, out, pending)
      <3>1. waiters' = Append(waiters, c) /\ Goto(c, "waiting", NoConn) /\ UNCHANGED <<out, pending>>
        BY <1>4, <1>11, <2>4
      <3>2. /\ stage' \in [Clients -> Stages] /\ conn' \in [Clients -> Conns \cup {NoConn}]
            /\ stage'[c] = "waiting" /\ conn'[c] = NoConn
            /\ \A d \in Clients : d # c => stage'[d] = stage[d] /\ conn'[d] = conn[d]
        BY <3>1, GotoMoves DEF Stages
      <3>3. /\ waiters' \in Seq(Clients) /\ Len(waiters') = Len(waiters) + 1
            /\ waiters'[Len(waiters) + 1] = c
            /\ \A i \in 1 .. Len(waiters) : waiters'[i] = waiters[i]
        BY <3>1, AppendProperties DEF PoolTyped
      <3>4. PoolTyped'
        BY <1>1, <1>5, <3>1, <3>2, <3>3 DEF PoolTyped
      <3>5. QueueKept'
        <4>1. \A i \in 1 .. Len(waiters) : waiters[i] \in Clients /\ waiters[i] # c /\ stage[waiters[i]] = "waiting"
          BY <1>1, PoolFacts DEF QueueKept
        <4>2. \A i \in 1 .. Len(waiters) + 1 : i \in 1 .. Len(waiters) \/ i = Len(waiters) + 1
          BY PoolFacts
        <4>3. \A i \in 1 .. Len(waiters') : stage'[waiters'[i]] = "waiting"
          BY <3>2, <3>3, <4>1, <4>2
        <4>4. Distinct(waiters')
          BY <3>3, <4>1, <4>2 DEF QueueKept, Distinct
        <4> QED BY <4>3, <4>4 DEF QueueKept
      <3>6. HandsKept'
        BY <1>1, <1>5, <3>1, <3>2, HandsOff
      <3>7. CountKept'
        <4>1. IsFiniteSet(Creators') /\ Cardinality(Creators') = Cardinality(Creators)
          BY <1>1, <3>2, SameCreators DEF CountKept
        <4>2. PendingExact'
          BY <1>1, <3>1, <4>1, CreationsCounted DEF CountKept, PendingExact, Creators
        <4>3. WithinMaxSize'
          BY <1>1, <1>6, <1>9, <3>1 DEF CountKept, WithinMaxSize
        <4> QED BY <1>1, <2>2, <3>1, <3>2, <4>1, <4>2, <4>3 DEF CountKept
      <3> QED BY <1>7, <2>2, <3>4, <3>5, <3>6, <3>7
    <2> QED BY <2>3, <2>4
  <1> QED BY <1>10, <1>11

\* The sweeper creates for minIdle, or rests.
LEMMA WarmKeeps ==
  ASSUME PoolIInv, NEW stack \in Seq(Conns), Len(stack) <= Len(idle), Warm(stack), sweeping.at # "warming",
         UNCHANGED <<out, closed, stage, orphans, options>>, idle' = stack
  PROVE  /\ sweeping' \in [at : {"unstarted", "off", "visiting", "warming"}, visited : Nat, keep : Seq(Conns)]
         /\ pending' \in Int /\ sweeping'.at # "visiting" /\ SweepKept'
         /\ PendingExact' /\ WithinMaxSize'
         /\ options.minIdle = 0 => sweeping'.at # "warming"
  <1>1. Len(stack) \in Nat /\ Len(idle) \in Nat /\ MaxSize \in Nat /\ options.minIdle \in Nat
    BY LenProperties, PoolFacts DEF PoolIInv
  <1>2. Cardinality(Creators) \in Nat /\ orphans \in Nat /\ pending \in Int /\ Cardinality(out) \in Nat
    BY FS_CardinalityType DEF PoolIInv, CountKept, PoolTyped
  <1>3. /\ ~closed => pending = Cardinality(Creators) + orphans
        /\ ~options.validates => Len(idle) + Cardinality(out) + pending <= MaxSize
    BY <1>2, CreationsCounted DEF PoolIInv, CountKept, WithinMaxSize
  <1>4. Creators' = Creators
    BY DEF Creators
  <1>5. CASE Len(stack) < options.minIdle /\ Room(stack, out, pending)
    <2>1. sweeping' = [NotSweeping EXCEPT !.at = "warming"] /\ pending' = pending + 1
      BY <1>5 DEF Warm
    <2>2. /\ sweeping'.at = "warming" /\ sweeping'.visited = 0 /\ sweeping'.keep = <<>>
          /\ sweeping' \in [at : {"unstarted", "off", "visiting", "warming"}, visited : Nat, keep : Seq(Conns)]
      BY <2>1, EmptySeq DEF NotSweeping
    <2>3. PendingExact'
      <3>1. ~closed' => pending' = Cardinality(Creators') + orphans' + IF sweeping'.at = "warming" THEN 1 ELSE 0
        BY <1>2, <1>3, <1>4, <2>1, <2>2
      <3> QED BY <3>1 DEF PendingExact, Creators
    <2>4. WithinMaxSize'
      BY <1>1, <1>2, <1>5, <2>1 DEF WithinMaxSize, Room
    <2> QED BY <1>1, <1>2, <1>5, <2>1, <2>2, <2>3, <2>4 DEF SweepKept
  <1>6. CASE ~(Len(stack) < options.minIdle /\ Room(stack, out, pending))
    <2>1. sweeping' = NotSweeping /\ UNCHANGED pending
      BY <1>6 DEF Warm
    <2>2. /\ sweeping'.at = "off" /\ sweeping'.visited = 0 /\ sweeping'.keep = <<>>
          /\ sweeping' \in [at : {"unstarted", "off", "visiting", "warming"}, visited : Nat, keep : Seq(Conns)]
      BY <2>1, EmptySeq DEF NotSweeping
    <2>3. PendingExact'
      <3>1. ~closed' => pending' = Cardinality(Creators') + orphans' + IF sweeping'.at = "warming" THEN 1 ELSE 0
        BY <1>2, <1>3, <1>4, <2>1, <2>2
      <3> QED BY <3>1 DEF PendingExact, Creators
    <2>4. WithinMaxSize'
      BY <1>1, <1>2, <1>3, <2>1 DEF WithinMaxSize
    <2> QED BY <1>2, <2>1, <2>2, <2>3, <2>4 DEF SweepKept
  <1> QED BY <1>5, <1>6

\* Starting the sweeper keeps the invariant.
LEMMA StartKeeps ==
  ASSUME PoolIInv, Start
  PROVE  PoolIInv'
  <1>1. /\ sweeping.at = "unstarted" /\ Warm(idle)
        /\ UNCHANGED <<idle, out, waiters, closed, alive, old, stage, conn, orphans, options>>
    BY DEF Start
  <1>2. PICK stack \in Seq(Conns) : stack = idle
    BY DEF PoolIInv, PoolTyped
  <1>3. Len(stack) <= Len(idle)
    BY <1>2, LenProperties
  <1>4. Warm(stack) /\ idle' = stack /\ sweeping.at # "warming"
    BY <1>1, <1>2
  <1>5. /\ sweeping' \in [at : {"unstarted", "off", "visiting", "warming"}, visited : Nat, keep : Seq(Conns)]
        /\ pending' \in Int /\ sweeping'.at # "visiting" /\ SweepKept'
        /\ PendingExact' /\ WithinMaxSize'
        /\ options.minIdle = 0 => sweeping'.at # "warming"
    BY <1>1, <1>3, <1>4, WarmKeeps
  <1>6. InIdle' = InIdle /\ Creators' = Creators
    BY <1>1 DEF InIdle, Creators
  <1>7. PoolTyped'
    BY <1>1, <1>5 DEF PoolIInv, PoolTyped
  <1>8. QueueKept' /\ HandsKept' /\ IdleKept'
    BY <1>1, <1>6 DEF PoolIInv, QueueKept, HandsKept, IdleKept, Distinct, Holding
  <1>9. CountKept'
    BY <1>1, <1>5, <1>6 DEF PoolIInv, CountKept, NoIdleWhileWaiting
  <1> QED BY <1>5, <1>7, <1>8, <1>9 DEF PoolIInv

\* A connection made for minIdle goes on the stack, or was not made.
LEMMA WarmedKeeps ==
  ASSUME PoolIInv, NEW ok \in BOOLEAN, Warmed(ok)
  PROVE  PoolIInv'
  <1> USE DEF PoolIInv
  <1>1. /\ sweeping.at = "warming"
        /\ UNCHANGED <<out, waiters, closed, stage, conn, orphans, options>>
    BY DEF Warmed
  <1>2. QueueKept' /\ Creators' = Creators
    BY <1>1 DEF QueueKept, Distinct, Creators
  <1>3. Cardinality(Creators) \in Nat /\ orphans \in Nat /\ pending \in Int /\ Cardinality(out) \in Nat
        /\ Len(idle) \in Nat /\ MaxSize \in Nat /\ idle \in Seq(Conns)
    BY FS_CardinalityType, PoolFacts DEF CountKept, PoolTyped
  <1>4. /\ ~closed => pending = Cardinality(Creators) + orphans + 1
        /\ ~options.validates => Len(idle) + Cardinality(out) + pending <= MaxSize
        /\ options.minIdle # 0
    BY <1>1, <1>3, CreationsCounted DEF CountKept, WithinMaxSize
  <1>5. /\ NotSweeping.at = "off" /\ NotSweeping.visited = 0 /\ NotSweeping.keep = <<>>
        /\ NotSweeping \in [at : {"unstarted", "off", "visiting", "warming"}, visited : Nat, keep : Seq(Conns)]
    BY EmptySeq DEF NotSweeping
  <1>6. CASE ok
    <2>1. PICK x \in {y \in Conns : New(y)} :
            /\ idle' = Append(idle, x)
            /\ Born(x)
            /\ IF Len(idle') < options.minIdle /\ Len(idle') + Cardinality(out) + pending - 1 < MaxSize
               THEN UNCHANGED <<sweeping, pending>>
               ELSE sweeping' = NotSweeping /\ pending' = pending - 1
      BY <1>6 DEF Warmed
    <2>2. /\ x \in Conns /\ x \notin alive /\ x \notin InIdle /\ x \notin out
          /\ \A d \in Clients : conn[d] # x
      BY NewIsFree
    <2>3. alive' = alive \cup {x} /\ old' = old \ {x}
      BY <2>1 DEF Born
    <2>4. /\ idle' \in Seq(Conns) /\ Len(idle') = Len(idle) + 1 /\ idle'[Len(idle) + 1] = x
          /\ \A i \in 1 .. Len(idle) : idle'[i] = idle[i]
      BY <1>3, <2>1, <2>2, AppendProperties
    <2>5. \/ /\ sweeping' = sweeping /\ pending' = pending
             /\ Len(idle') + Cardinality(out) + pending - 1 < MaxSize
          \/ sweeping' = NotSweeping /\ pending' = pending - 1
      BY <2>1
    <2>6. sweeping'.at \in {"warming", "off"} /\ sweeping'.visited = 0 /\ sweeping'.keep = <<>>
      BY <1>1, <1>5, <2>5 DEF SweepKept
    <2>7. PoolTyped'
      BY <1>1, <1>3, <1>5, <2>2, <2>3, <2>4, <2>5 DEF PoolTyped
    <2>8. \A y : y \in InIdle' <=> y \in InIdle \/ y = x
      <3>1. \A i \in 1 .. Len(idle) + 1 : i \in 1 .. Len(idle) \/ i = Len(idle) + 1
        BY <1>3
      <3>2. \A y : y \in InIdle' <=> \E i \in 1 .. Len(idle') : idle'[i] = y
        BY <2>4, LenProperties DEF InIdle
      <3>3. \A y : y \in InIdle <=> \E i \in 1 .. Len(idle) : idle[i] = y
        BY IdlePlace
      <3>4. Len(idle) + 1 \in 1 .. Len(idle) + 1 /\ \A i \in 1 .. Len(idle) : i \in 1 .. Len(idle) + 1
        BY <1>3
      <3> QED BY <2>4, <3>1, <3>2, <3>3, <3>4
    <2>9. HandsKept'
      BY <1>1, <2>2, <2>3, <2>8 DEF HandsKept, Holding
    <2>10. IdleKept'
      <3>1. Distinct(idle')
        <4>1. \A i \in 1 .. Len(idle) : idle[i] # x
          BY <2>2, IdlePlace
        <4>2. \A i \in 1 .. Len(idle) + 1 : i \in 1 .. Len(idle) \/ i = Len(idle) + 1
          BY <1>3
        <4> QED BY <2>4, <4>1, <4>2 DEF IdleKept, Distinct
      <3> QED BY <1>1, <2>2, <2>3, <2>8, <3>1 DEF IdleKept
    <2>11. SweepKept'
      BY <2>6 DEF SweepKept
    <2>12. CountKept'
      <3>1. ~closed' => pending' = Cardinality(Creators') + orphans' + IF sweeping'.at = "warming" THEN 1 ELSE 0
        BY <1>1, <1>2, <1>3, <1>4, <1>5, <2>5
      <3>2. PendingExact'
        BY <3>1 DEF PendingExact, Creators
      <3>3. WithinMaxSize'
        BY <1>1, <1>3, <1>4, <2>4, <2>5 DEF WithinMaxSize
      <3> QED BY <1>1, <1>2, <1>4, <3>2, <3>3 DEF CountKept, NoIdleWhileWaiting
    <2> QED BY <1>2, <2>7, <2>9, <2>10, <2>11, <2>12
  <1>7. CASE ~ok
    <2>1. sweeping' = NotSweeping /\ pending' = pending - 1 /\ UNCHANGED <<idle, alive, old>>
      BY <1>7 DEF Warmed
    <2>2. InIdle' = InIdle
      BY <2>1 DEF InIdle
    <2>3. PoolTyped'
      BY <1>1, <1>3, <1>5, <2>1 DEF PoolTyped
    <2>4. HandsKept' /\ IdleKept' /\ SweepKept'
      BY <1>1, <1>5, <2>1, <2>2 DEF HandsKept, Holding, IdleKept, SweepKept, Distinct
    <2>5. CountKept'
      <3>1. ~closed' => pending' = Cardinality(Creators') + orphans' + IF sweeping'.at = "warming" THEN 1 ELSE 0
        BY <1>1, <1>2, <1>3, <1>4, <1>5, <2>1
      <3>2. PendingExact'
        BY <3>1 DEF PendingExact, Creators
      <3>3. WithinMaxSize'
        BY <1>1, <1>3, <1>4, <2>1 DEF WithinMaxSize
      <3> QED BY <1>1, <1>2, <1>4, <3>2, <3>3 DEF CountKept, NoIdleWhileWaiting
    <2> QED BY <1>2, <2>3, <2>4, <2>5
  <1> QED BY <1>6, <1>7

\* What the sweep keeps when it has come to m: connections of the stack up to there, each once and alive.
LEMMA KeepGrows ==
  ASSUME PoolIInv, NEW m \in sweeping.visited .. Len(idle)
  PROVE  LET q == sweeping.keep \o SubSeq(idle, sweeping.visited + 1, m)
         IN  /\ q \in Seq(Conns) /\ Len(q) <= m /\ Distinct(q)
             /\ \A i \in 1 .. Len(q) : q[i] \in alive /\ \E j \in 1 .. m : q[i] = idle[j]
             /\ \A i \in sweeping.visited + 1 .. Len(idle) : idle[i] \in alive
             /\ sweeping.visited \in Nat
  <1> USE DEF PoolIInv
  <1>1. PICK v \in Nat, k \in Seq(Conns), L \in Nat : v = sweeping.visited /\ k = sweeping.keep /\ L = Len(idle)
    BY PoolFacts
  <1>2. \A i \in 1 .. L : idle[i] \in Conns
    BY <1>1, PoolFacts
  <1>3. /\ Len(k) <= v /\ Distinct(k)
        /\ \A i \in 1 .. Len(k) : k[i] \in alive /\ \E j \in 1 .. v : k[i] = idle[j]
        /\ \A i \in v + 1 .. L : idle[i] \in alive
    <2>1. CASE sweeping.at = "visiting"
      BY <1>1, <2>1 DEF SweepKept
    <2>2. CASE sweeping.at # "visiting"
      <3>1. k = <<>> /\ Len(k) = 0 /\ v = 0
        BY <1>1, <2>2, EmptySeq DEF SweepKept
      <3>2. \A i \in 1 .. L : idle[i] \in alive
        BY <1>1, <2>2, IdlePlace DEF IdleKept
      <3> QED BY <3>1, <3>2 DEF Distinct
    <2> QED BY <2>1, <2>2
  <1>4. Len(k) \in Nat /\ m \in Nat /\ v <= m /\ m <= L /\ v + 1 \in Int
    BY <1>1, LenProperties
  <1>5. PICK s \in Seq(Conns) : /\ s = SubSeq(idle, v + 1, m) /\ Len(s) = m - v
                                /\ \A i \in 1 .. m - v : s[i] = idle[v + i]
    <2>1. \A i \in v + 1 .. m : idle[i] \in Conns
      BY <1>2, <1>4
    <2>2. /\ SubSeq(idle, v + 1, m) \in Seq(Conns)
          /\ Len(SubSeq(idle, v + 1, m)) = IF v + 1 <= m THEN m - (v + 1) + 1 ELSE 0
          /\ \A i \in 1 .. m - (v + 1) + 1 : SubSeq(idle, v + 1, m)[i] = idle[v + 1 + i - 1]
      BY <1>4, <2>1, SubSeqProperties
    <2>3. m - (v + 1) + 1 = m - v /\ (IF v + 1 <= m THEN m - (v + 1) + 1 ELSE 0) = m - v
          /\ \A i \in 1 .. m - v : v + 1 + i - 1 = v + i
      BY <1>4
    <2>4. PICK s : s = SubSeq(idle, v + 1, m)
      OBVIOUS
    <2>5. s \in Seq(Conns) /\ Len(s) = m - v
      BY <2>2, <2>3, <2>4
    <2>6. \A i \in 1 .. m - v : s[i] = idle[v + i]
      BY <2>2, <2>3, <2>4
    <2> QED BY <2>4, <2>5, <2>6
  <1>6. PICK q \in Seq(Conns) : /\ q = k \o s /\ Len(q) = Len(k) + (m - v)
                                /\ \A i \in 1 .. Len(k) + (m - v) : q[i] = IF i <= Len(k) THEN k[i] ELSE s[i - Len(k)]
    <2>1. /\ k \o s \in Seq(Conns) /\ Len(k \o s) = Len(k) + Len(s)
          /\ \A i \in 1 .. Len(k) + Len(s) : (k \o s)[i] = IF i <= Len(k) THEN k[i] ELSE s[i - Len(k)]
      BY ConcatProperties
    <2>2. PICK q : q = k \o s
      OBVIOUS
    <2>3. \A i \in 1 .. Len(k) + (m - v) : q[i] = IF i <= Len(k) THEN k[i] ELSE s[i - Len(k)]
      BY <1>5, <2>1, <2>2
    <2>4. q \in Seq(Conns) /\ Len(q) = Len(k) + (m - v)
      BY <1>5, <2>1, <2>2
    <2> QED BY <2>2, <2>3, <2>4
  <1>7. Len(q) <= m
    BY <1>3, <1>4, <1>6
  <1>8. ASSUME NEW i \in 1 .. Len(q)
        PROVE  /\ i <= Len(k) => i \in 1 .. Len(k) /\ q[i] = k[i]
               /\ i > Len(k) => /\ v + (i - Len(k)) \in v + 1 .. m
                                /\ q[i] = idle[v + (i - Len(k))]
    <2>1. CASE i <= Len(k)
      BY <1>4, <1>6, <2>1
    <2>2. CASE i > Len(k)
      <3>1. i - Len(k) \in 1 .. m - v /\ v + (i - Len(k)) \in v + 1 .. m
        BY <1>4, <1>6, <2>2
      <3> QED BY <1>4, <1>5, <1>6, <2>2, <3>1
    <2> QED BY <1>4, <2>1, <2>2
  <1>9. ASSUME NEW i \in 1 .. Len(q)
        PROVE  q[i] \in alive /\ \E j \in 1 .. m : q[i] = idle[j]
    <2>1. CASE i <= Len(k)
      <3>1. PICK j \in 1 .. v : k[i] = idle[j]
        BY <1>3, <1>8, <2>1
      <3>2. j \in 1 .. m
        BY <1>4
      <3> QED BY <1>3, <1>8, <2>1, <3>1, <3>2
    <2>2. CASE i > Len(k)
      <3>1. PICK j \in v + 1 .. m : q[i] = idle[j]
        BY <1>8, <2>2
      <3>2. j \in 1 .. m /\ j \in v + 1 .. L
        BY <1>4
      <3> QED BY <1>3, <3>1, <3>2
    <2> QED BY <1>4, <2>1, <2>2
  \* What was kept before is of other places than what is kept now.
  <1>10. ASSUME NEW i \in 1 .. Len(q), NEW j \in 1 .. Len(q), q[i] = q[j], i <= Len(k), j > Len(k)
         PROVE  FALSE
    <2>1. PICK a \in 1 .. v : k[i] = idle[a]
      BY <1>3, <1>8, <1>10
    <2>2. PICK b \in v + 1 .. m : q[j] = idle[b]
      BY <1>8, <1>10
    <2>3. a \in 1 .. L /\ b \in 1 .. L /\ a # b
      BY <1>4
    <2> QED BY <1>1, <1>8, <1>10, <2>1, <2>2, <2>3 DEF IdleKept, Distinct
  <1>11. ASSUME NEW i \in 1 .. Len(q), NEW j \in 1 .. Len(q), q[i] = q[j]
         PROVE  i = j
    <2>1. CASE i <= Len(k) /\ j <= Len(k)
      BY <1>3, <1>8, <1>11, <2>1 DEF Distinct
    <2>2. CASE i > Len(k) /\ j > Len(k)
      <3>1. PICK a \in v + 1 .. m : a = v + (i - Len(k)) /\ q[i] = idle[a]
        BY <1>8, <2>2
      <3>2. PICK b \in v + 1 .. m : b = v + (j - Len(k)) /\ q[j] = idle[b]
        BY <1>8, <2>2
      <3>3. a \in 1 .. L /\ b \in 1 .. L /\ idle[a] = idle[b]
        <4>1. idle[a] = idle[b]
          BY <1>11, <3>1, <3>2
        <4>2. \A e \in v + 1 .. m : e \in 1 .. L
          BY <1>4
        <4> QED BY <4>1, <4>2
      <3>4. a = b
        BY <1>1, <3>3 DEF IdleKept, Distinct
      <3> QED BY <1>4, <3>1, <3>2, <3>4
    <2>3. i \in Nat /\ j \in Nat
      BY <1>6, LenProperties
    <2> QED BY <1>4, <1>10, <1>11, <2>1, <2>2, <2>3
  <1>12. Distinct(q)
    BY <1>11 DEF Distinct
  <1> QED BY <1>1, <1>3, <1>5, <1>6, <1>7, <1>9, <1>12

\* The sweep evicts the n-th, and awaits its destroy.
LEMMA EvictKeeps ==
  ASSUME PoolIInv, NEW n \in DOMAIN idle, Evict(n)
  PROVE  PoolIInv'
  <1> USE DEF PoolIInv
  <1>1. /\ sweeping.at \in {"off", "visiting"} /\ n > sweeping.visited
        /\ alive' = alive \ {idle[n]} /\ old' = old \ {idle[n]}
        /\ sweeping' = [at |-> "visiting", visited |-> n,
                        keep |-> sweeping.keep \o SubSeq(idle, sweeping.visited + 1, n - 1)]
        /\ UNCHANGED <<idle, out, pending, waiters, closed, stage, conn, orphans, options>>
    BY DEF Evict, Destroyed
  <1>2. n \in 1 .. Len(idle) /\ Len(idle) \in Nat /\ n \in Nat /\ sweeping.visited \in Nat
    BY PoolFacts
  <1>3. n - 1 \in sweeping.visited .. Len(idle)
    BY <1>1, <1>2
  <1>4. PICK q : q = sweeping.keep \o SubSeq(idle, sweeping.visited + 1, n - 1)
    OBVIOUS
  <1>5. /\ q \in Seq(Conns) /\ Len(q) <= n - 1 /\ Distinct(q)
        /\ \A i \in 1 .. Len(q) : q[i] \in alive /\ \E j \in 1 .. n - 1 : q[i] = idle[j]
        /\ \A i \in sweeping.visited + 1 .. Len(idle) : idle[i] \in alive
    BY <1>3, <1>4, KeepGrows
  <1>6. sweeping'.at = "visiting" /\ sweeping'.visited = n /\ sweeping'.keep = q
        /\ sweeping' = [at |-> "visiting", visited |-> n, keep |-> q]
    BY <1>1, <1>4
  <1>7. InIdle' = InIdle /\ Creators' = Creators /\ idle[n] \in InIdle
    BY <1>1 DEF InIdle, Creators
  <1>8. PoolTyped'
    <2>1. sweeping' \in [at : {"unstarted", "off", "visiting", "warming"}, visited : Nat, keep : Seq(Conns)]
      BY <1>2, <1>5, <1>6
    <2> QED BY <1>1, <2>1 DEF PoolTyped
  <1>9. QueueKept'
    BY <1>1 DEF QueueKept, Distinct
  <1>10. HandsKept'
    BY <1>1, <1>7 DEF HandsKept, Holding
  <1>11. IdleKept'
    BY <1>1, <1>6, <1>7 DEF IdleKept, Distinct
  <1>12. SweepKept'
    <2>1. ASSUME NEW i \in 1 .. Len(idle), i # n
          PROVE  idle[i] # idle[n]
      BY <1>2, <2>1 DEF IdleKept, Distinct
    <2>2. ASSUME NEW i \in 1 .. Len(q)
          PROVE  q[i] \in alive' /\ \E j \in 1 .. n : q[i] = idle[j]
      <3>1. PICK j \in 1 .. n - 1 : q[i] = idle[j]
        BY <1>5
      <3>2. j \in 1 .. n /\ j \in 1 .. Len(idle) /\ j # n
        BY <1>2
      <3> QED BY <1>1, <1>5, <2>1, <3>1, <3>2
    <2>3. ASSUME NEW i \in n + 1 .. Len(idle)
          PROVE  idle[i] \in alive'
      <3>1. i \in sweeping.visited + 1 .. Len(idle) /\ i \in 1 .. Len(idle) /\ i # n
        BY <1>1, <1>2
      <3> QED BY <1>1, <1>5, <2>1, <3>1
    <2>4. Len(q) <= n
      BY <1>2, <1>5, LenProperties
    <2> QED BY <1>1, <1>2, <1>5, <1>6, <2>2, <2>3, <2>4 DEF SweepKept
  <1>13. CountKept'
    <2>1. PendingExact'
      <3>1. ~closed => pending = Cardinality(Creators) + orphans + 0
        BY <1>1, CreationsCounted DEF CountKept
      <3>2. ~closed' => pending' = Cardinality(Creators') + orphans' + IF sweeping'.at = "warming" THEN 1 ELSE 0
        BY <1>1, <1>6, <1>7, <3>1
      <3> QED BY <3>2 DEF PendingExact, Creators
    <2> QED BY <1>1, <1>6, <1>7, <2>1 DEF CountKept, WithinMaxSize, NoIdleWhileWaiting
  <1> QED BY <1>8, <1>9, <1>10, <1>11, <1>12, <1>13

\* The sweep ends, and what it kept becomes the stack.
LEMMA SweptKeeps ==
  ASSUME PoolIInv, Swept
  PROVE  PoolIInv'
  <1> USE DEF PoolIInv
  <1>1. /\ sweeping.at = "visiting"
        /\ idle' = sweeping.keep \o SubSeq(idle, sweeping.visited + 1, Len(idle))
        /\ IF closed THEN sweeping' = NotSweeping /\ UNCHANGED pending ELSE Warm(idle')
        /\ UNCHANGED <<out, waiters, closed, alive, old, stage, conn, orphans, options>>
    BY DEF Swept
  <1>2. Len(idle) \in sweeping.visited .. Len(idle) /\ Len(idle) \in Nat
    BY <1>1, PoolFacts DEF SweepKept
  <1>3. PICK q : q = sweeping.keep \o SubSeq(idle, sweeping.visited + 1, Len(idle))
    OBVIOUS
  <1>4. /\ q \in Seq(Conns) /\ Len(q) <= Len(idle) /\ Distinct(q)
        /\ \A i \in 1 .. Len(q) : q[i] \in alive /\ \E j \in 1 .. Len(idle) : q[i] = idle[j]
    BY <1>2, <1>3, KeepGrows
  <1>5. idle' = q
    BY <1>1, <1>3
  <1>6. InIdle' \subseteq InIdle \cap alive
    <2>1. InIdle' = {q[i] : i \in 1 .. Len(q)}
      BY <1>4, <1>5, LenProperties DEF InIdle
    <2> QED BY <1>4, <2>1, IdlePlace
  <1>7. /\ sweeping' \in [at : {"unstarted", "off", "visiting", "warming"}, visited : Nat, keep : Seq(Conns)]
        /\ pending' \in Int /\ sweeping'.at # "visiting" /\ SweepKept'
        /\ PendingExact' /\ WithinMaxSize'
        /\ options.minIdle = 0 => sweeping'.at # "warming"
    <2>1. CASE closed
      <3>1. sweeping' = NotSweeping /\ UNCHANGED pending
        BY <1>1, <2>1
      <3>2. /\ sweeping'.at = "off" /\ sweeping'.visited = 0 /\ sweeping'.keep = <<>>
            /\ sweeping' \in [at : {"unstarted", "off", "visiting", "warming"}, visited : Nat, keep : Seq(Conns)]
        BY <3>1, EmptySeq DEF NotSweeping
      <3>3. Len(q) \in Nat /\ Cardinality(out) \in Nat /\ pending \in Int /\ MaxSize \in Nat
        BY <1>4, LenProperties, FS_CardinalityType, PoolFacts DEF CountKept, PoolTyped
      <3>4. WithinMaxSize'
        <4>1. ~options.validates => Len(idle) + Cardinality(out) + pending <= MaxSize
          BY DEF CountKept, WithinMaxSize
        <4>2. Len(idle') = Len(q) /\ out' = out /\ pending' = pending /\ options' = options
          BY <1>1, <1>5, <3>1
        <4> QED BY <1>2, <1>4, <3>3, <4>1, <4>2 DEF WithinMaxSize
      <3>5. PendingExact'
        BY <1>1, <2>1 DEF PendingExact
      <3> QED BY <3>1, <3>2, <3>3, <3>4, <3>5 DEF SweepKept
    <2>2. CASE ~closed
      <3>1. Warm(q) /\ sweeping.at # "warming"
        BY <1>1, <1>5, <2>2
      <3>2. PICK stack \in Seq(Conns) : stack = q
        BY <1>4
      <3> HIDE DEF PoolIInv
      <3> QED BY <1>1, <1>4, <1>5, <3>1, <3>2, WarmKeeps
    <2> QED BY <2>1, <2>2
  <1>8. Creators' = Creators
    BY <1>1 DEF Creators
  <1>9. PoolTyped'
    BY <1>1, <1>4, <1>5, <1>7 DEF PoolTyped
  <1>10. QueueKept'
    BY <1>1 DEF QueueKept, Distinct
  <1>11. HandsKept'
    BY <1>1, <1>6 DEF HandsKept, Holding
  <1>12. IdleKept'
    BY <1>1, <1>4, <1>5, <1>6 DEF IdleKept
  <1>13. NoIdleWhileWaiting'
    <2>1. idle # <<>>
      BY <1>1, EmptySeq DEF SweepKept
    <2> QED BY <1>1, <2>1 DEF CountKept, NoIdleWhileWaiting
  <1>14. CountKept'
    BY <1>1, <1>7, <1>8, <1>13 DEF CountKept
  <1> QED BY <1>7, <1>9, <1>10, <1>11, <1>12, <1>14

\* The pool is empty in the beginning.
LEMMA PoolStarts == PoolInit => PoolIInv
  <1> SUFFICES ASSUME PoolInit PROVE PoolIInv
    OBVIOUS
  <1> USE DEF PoolInit
  <1>1. /\ sweeping = [at |-> "unstarted", visited |-> 0, keep |-> <<>>]
        /\ idle = <<>> /\ Len(idle) = 0 /\ waiters = <<>> /\ Len(waiters) = 0 /\ <<>> \in Seq(Conns) /\ <<>> \in Seq(Clients)
    BY EmptySeq DEF NotSweeping
  <1>2. PoolTyped
    <2>1. sweeping \in [at : {"unstarted", "off", "visiting", "warming"}, visited : Nat, keep : Seq(Conns)]
      <3>1. <<>> \in Seq(Conns)
        BY EmptySeq
      <3>2. sweeping = [at |-> "unstarted", visited |-> 0, keep |-> <<>>]
        BY DEF NotSweeping
      <3> HIDE DEF PoolInit
      <3> QED BY <3>1, <3>2
    <2>2. stage \in [Clients -> Stages] /\ conn \in [Clients -> Conns \cup {NoConn}]
      BY DEF Stages
    <2>3. idle \in Seq(Conns) /\ waiters \in Seq(Clients)
      BY <1>1
    <2>4. options \in [validates : BOOLEAN, minIdle : MinIdles]
      OBVIOUS
    <2>5. out = {} /\ alive = {} /\ old = {} /\ pending = 0 /\ orphans = 0 /\ closed = FALSE
      OBVIOUS
    <2> HIDE DEF PoolInit
    <2>6. \A S : {} \in SUBSET S
      OBVIOUS
    <2>7. out \in SUBSET Conns
      BY <2>5, <2>6
    <2>8. alive \in SUBSET Conns
      BY <2>5, <2>6
    <2>9. old \in SUBSET alive
      BY <2>5, <2>6
    <2>10. pending \in Int /\ orphans \in Nat
      BY <2>5
    <2>11. closed \in BOOLEAN
      BY <2>5, Zenon
    <2> QED BY <2>1, <2>2, <2>3, <2>4, <2>7, <2>8, <2>9, <2>10, <2>11 DEF PoolTyped
  <1>3. InIdle = {} /\ Creators = {} /\ IsFiniteSet({}) /\ Cardinality({}) = 0
    BY <1>1, FS_EmptySet, LenProperties DEF InIdle, Creators
  <1>4. QueueKept /\ IdleKept /\ SweepKept /\ HandsKept
    BY <1>1, <1>3 DEF QueueKept, IdleKept, SweepKept, HandsKept, Holding, Distinct
  <1>5. PendingExact
    <2>1. pending = Cardinality(Creators) + orphans + 0 /\ sweeping.at # "warming"
      BY <1>1, <1>3
    <2> QED BY <2>1, CreationsCounted
  <1>6. WithinMaxSize
    BY <1>1, <1>3, PoolAssumption DEF WithinMaxSize
  <1>7. CountKept
    BY <1>1, <1>3, <1>5, <1>6 DEF CountKept, NoIdleWhileWaiting
  <1> QED BY <1>2, <1>4, <1>7 DEF PoolIInv

\* No step of the pool breaks its invariant.
LEMMA PoolInductive ==
  ASSUME PoolIInv, [PoolNext]_poolVars, SweepAlone
  PROVE  PoolIInv'
  <1>1. CASE UNCHANGED poolVars
    <2>1. InIdle' = InIdle /\ Creators' = Creators
      BY <1>1 DEF poolVars, InIdle, Creators
    <2>2. PoolTyped' /\ QueueKept' /\ HandsKept' /\ IdleKept' /\ SweepKept'
      BY <1>1, <2>1 DEF PoolIInv, poolVars, PoolTyped, QueueKept, HandsKept, IdleKept, SweepKept, Distinct, Holding
    <2>3. CountKept'
      BY <1>1, <2>1 DEF PoolIInv, poolVars, CountKept, PendingExact, Creators, WithinMaxSize, NoIdleWhileWaiting
    <2> QED BY <2>2, <2>3 DEF PoolIInv
  <1>2. CASE \E c \in Clients : Acquire(c) \/ Release(c) \/ DestroyCheckedOut(c)
    BY <1>2, ServeKeeps, ReleaseKeeps, DestroyCheckedOutKeeps
  <1>3. CASE \E c \in Clients : Answer(c)
    BY <1>3, ValidatedKeeps, ServeKeeps, CreatedKeeps, CreationFails, WakeKeeps, TimedOutKeeps DEF Answer
  <1>4. CASE \E ok \in BOOLEAN : OrphanDone(ok) \/ Warmed(ok)
    BY <1>4, OrphanDoneKeeps, WarmedKeeps
  <1>5. CASE Start \/ Sweep \/ Close
    BY <1>5, StartKeeps, SweptKeeps, EvictKeeps, CloseKeeps DEF Sweep
  <1>6. CASE \E x \in Conns : Age(x)
    BY <1>6, AgeKeeps
  <1> QED BY <1>1, <1>2, <1>3, <1>4, <1>5, <1>6 DEF PoolNext

\* The invariant says what the pool promises.
LEMMA PoolIsSafe == PoolIInv => PoolSafe
  <1> SUFFICES ASSUME PoolIInv PROVE PoolSafe
    OBVIOUS
  <1>1. idle \in Seq(Conns) /\ Distinct(idle)
    BY DEF PoolIInv, PoolTyped, IdleKept
  <1>2. Cardinality(InIdle) = Len(idle)
    BY <1>1, DistinctCount DEF InIdle
  <1>3. LentSafely
    BY <1>2 DEF PoolIInv, HandsKept, IdleKept, LentSafely
  <1> QED BY <1>3 DEF PoolIInv, CountKept, PoolSafe

\* Whatever acquires, releases, validations, creations, time-outs, sweeps and the close overlap, a connection is lent to
\* one call at a time, the creations in flight are counted exactly and the bound on connections holds (ConnectionPool),
\* as long as no client is served while a sweep awaits a destroy.
THEOREM LendsSafely == ASSUME SweepAlone PROVE PoolSpec => []PoolSafe
  <1>1. PoolIInv /\ [PoolNext]_poolVars => PoolIInv'
    BY PoolInductive
  <1> QED BY <1>1, PoolStarts, PoolIsSafe, PTL DEF PoolSpec

-----------------------------------------------------------------------------
(***************************************************************************)
(*  The rate limiter keeps its limit, for any number of checkers, any      *)
(*  limit, window and bucket: with checks that interleave at will for the  *)
(*  fixed window, and with checks that nothing interrupts for the log and  *)
(*  the bucket.                                                            *)
(*                                                                         *)
(*  WithinLimit speaks of what was admitted, and no algorithm keeps that:  *)
(*  the fixed window has a counter that is never below the admissions of   *)
(*  its window while the window lasts; the log has an entry of its own     *)
(*  for each admission that still counts; and what was spent since any     *)
(*  admission, with what the bucket holds now, never exceeds what it held  *)
(*  and got. Expiry must not come too soon for any of them: a key goes     *)
(*  only when what it counts no longer matters.                            *)
(***************************************************************************)

CheckStages == {"idle", "expiring", "counting", "adding", "putting", "refusing", "refused"}

CheckType == [at : CheckStages, now : 0 .. MaxClock, cost : Nat, read : Nat]

\* The variables have their types, and nothing is admitted in advance.
LimiterTyped ==
  /\ algorithm \in Algorithms /\ clock \in 0 .. MaxClock
  /\ counters \in [WindowsSeen -> [n : Nat, expires : Nat]]
  /\ entries \in [hits : SUBSET [at : Nat, member : Nat], expires : Nat]
  /\ level \in [tokens : 0 .. BucketSize, since : -1 .. MaxClock, expires : Nat]
  /\ checks \in [Checkers -> CheckType]
  /\ admitted \in Seq([at : 0 .. MaxClock, cost : Nat])
  /\ made \in Nat /\ resets \in Nat
  /\ level.since <= clock
  /\ \A j \in 1 .. Len(admitted) : admitted[j].at <= clock
  /\ \A c \in Checkers : checks[c].now <= clock /\ (checks[c].at = "putting" => checks[c].read <= BucketSize)

\* A check that nothing interrupts is the only one, and takes no time.
OneCheck ==
  algorithm \in {"log", "bucket"} =>
    /\ \A c \in Checkers : ~Resting(c) => checks[c].now = clock
    /\ \A c, d \in Checkers : ~Resting(c) /\ ~Resting(d) => c = d

\* The admissions of a window are counted until it is over.
AdmittedAt(times) == {j \in 1 .. Len(admitted) : admitted[j].at \in times}
WindowHits(w) == AdmittedAt({t \in 0 .. MaxClock : WindowOf(t) = w})
FixedKept ==
  algorithm = "fixed" =>
    /\ \A c \in Checkers : checks[c].at \in {"idle", "expiring", "refused"}
    /\ \A w \in WindowsSeen :
         /\ Cardinality(WindowHits(w)) <= HitLimit
         /\ WindowOf(clock) <= w => Cardinality(WindowHits(w)) <= counters[w].n
         /\ counters[w].expires <= MaxClock => (w + 1) * WindowTime <= counters[w].expires

\* Each admission that still counts has an entry of its own.
AdmittedIn(from, to) == AdmittedAt(from .. to)
Recent == AdmittedIn(clock - WindowTime + 1, clock)
Entered(g, R, a, H) ==
  /\ g \in [R -> H]
  /\ \A j \in R : g[j].at = a[j].at
  /\ \A i, j \in R : g[i] = g[j] => i = j
LogStage(c) ==
  /\ checks[c].at \in {"idle", "counting", "adding", "expiring", "refused"}
  /\ checks[c].at \in {"counting", "adding"} => checks[c].read < made /\ \A h \in entries.hits : h.member < checks[c].read
  /\ checks[c].at = "adding" => Cardinality(entries.hits) < HitLimit
  /\ checks[c].at = "expiring" => entries.hits # {}
LogLimited == \A t \in 0 .. clock : Cardinality(AdmittedIn(t - WindowTime + 1, t)) <= HitLimit
LogExpiry ==
  (\A c \in Checkers : checks[c].at # "expiring") /\ entries.expires <= MaxClock =>
    \A j \in 1 .. Len(admitted) : admitted[j].at + WindowTime <= entries.expires
LogState ==
  /\ \A c \in Checkers : LogStage(c)
  /\ IsFiniteSet(entries.hits) /\ \A h \in entries.hits : h.member < made
  /\ LogLimited /\ LogExpiry
  /\ \E g : Entered(g, Recent, admitted, entries.hits)
LogKept == algorithm = "log" => LogState

\* What was spent since an admission and what there is now never exceed what the
\* bucket held and got.
TokensSpent(j) == SumUpTo([k \in 1 .. Len(admitted) |-> admitted[k].cost], j)
BucketStage(c) ==
  /\ checks[c].at \in {"idle", "putting", "expiring", "refusing", "refused"}
  /\ checks[c].at = "putting" => checks[c].read = Refilled(level, clock)
  /\ checks[c].at \in {"expiring", "refusing"} => level.since = clock
SpentFrom(i) ==
  /\ \A j \in i .. Len(admitted) :
       TokensSpent(j) - TokensSpent(i - 1) <= BucketSize + RefillRate * (admitted[j].at - admitted[i].at)
  /\ TokensSpent(Len(admitted)) - TokensSpent(i - 1) + Refilled(level, clock)
       <= BucketSize + RefillRate * (clock - admitted[i].at)
BucketExpiry ==
  (\A c \in Checkers : checks[c].at \notin {"expiring", "refusing"}) /\ level.expires <= MaxClock =>
    level.since >= 0 /\ level.since + FullTime <= level.expires
BucketState ==
  /\ \A c \in Checkers : BucketStage(c)
  /\ \A i \in 1 .. Len(admitted) : SpentFrom(i)
  /\ BucketExpiry
BucketKept == algorithm = "bucket" => BucketState

LimiterIInv == LimiterTyped /\ OneCheck /\ FixedKept /\ LogKept /\ BucketKept

-----------------------------------------------------------------------------
\* What the assumption says of each constant.
LEMMA LimiterFacts ==
  /\ {HitLimit, WindowTime, BucketSize, RefillRate} \subseteq Nat \ {0}
  /\ MaxClock \in Nat /\ MaxChecks \in Nat /\ MaxResets \in Nat
  /\ \A a \in Algorithms : a \in {"fixed", "log", "bucket"}
  /\ \A cost \in Costs : cost \in Nat
  /\ Never \in Nat
  BY RateLimiterAssumption DEF Never

\* The windows there are, and their bounds.
LEMMA WindowFacts ==
  /\ \A t \in 0 .. MaxClock :
       /\ WindowOf(t) \in WindowsSeen /\ WindowOf(t) \in Nat
       /\ WindowOf(t) * WindowTime <= t
       /\ t < (WindowOf(t) + 1) * WindowTime
       /\ \A w \in WindowsSeen : (w + 1) * WindowTime <= t => w < WindowOf(t)
  /\ \A w \in WindowsSeen : w \in Nat /\ (w + 1) * WindowTime \in Nat
  /\ \A t, u \in 0 .. MaxClock : t <= u => WindowOf(t) <= WindowOf(u)
  <1>1. WindowTime \in Nat \ {0} /\ MaxClock \in Nat
    BY LimiterFacts
  <1>2. PICK m \in Nat : m = MaxClock \div WindowTime
    BY <1>1, Division
  <1>3. ASSUME NEW t \in Nat PROVE /\ WindowOf(t) \in Nat
                                   /\ WindowOf(t) * WindowTime <= t
                                   /\ t < (WindowOf(t) + 1) * WindowTime
    BY <1>1, Division DEF WindowOf
  <1>4. ASSUME NEW t \in Nat, NEW a \in Nat, a * WindowTime <= t PROVE a <= WindowOf(t)
    BY <1>1, <1>4, DivisionBound DEF WindowOf
  <1>5. \A t, u \in Nat : t <= u => WindowOf(t) <= WindowOf(u)
    <2> SUFFICES ASSUME NEW t \in Nat, NEW u \in Nat, t <= u PROVE WindowOf(t) <= WindowOf(u)
      OBVIOUS
    <2>1. PICK a \in Nat : a = WindowOf(t)
      BY <1>3
    <2>2. a * WindowTime \in Int /\ a * WindowTime <= t
      BY <1>1, <1>3, <2>1, ProductOrder
    <2> QED BY <1>4, <2>1, <2>2
  <1>6. WindowsSeen = 0 .. m /\ m = WindowOf(MaxClock)
    BY <1>2 DEF WindowsSeen, WindowOf
  <1>7. \A w \in WindowsSeen : w \in Nat /\ (w + 1) * WindowTime \in Nat
    <2> SUFFICES ASSUME NEW w \in Nat PROVE (w + 1) * WindowTime \in Nat
      BY <1>6
    <2> QED BY <1>1
  <1>8. ASSUME NEW t \in 0 .. MaxClock, NEW w \in WindowsSeen, (w + 1) * WindowTime <= t
        PROVE  w < WindowOf(t)
    <2>1. w + 1 <= WindowOf(t)
      BY <1>4, <1>7, <1>8
    <2> QED BY <1>3, <1>7, <2>1
  <1>9. \A t \in 0 .. MaxClock : t \in Nat /\ WindowOf(t) \in WindowsSeen
    <2> SUFFICES ASSUME NEW t \in 0 .. MaxClock PROVE t \in Nat /\ WindowOf(t) \in WindowsSeen
      OBVIOUS
    <2>1. t \in Nat /\ t <= MaxClock
      BY <1>1
    <2>2. WindowOf(t) \in Nat /\ WindowOf(t) <= m
      BY <1>1, <1>3, <1>5, <1>6, <2>1
    <2> QED BY <1>6, <2>1, <2>2
  <1> QED BY <1>3, <1>5, <1>7, <1>8, <1>9

\* A bucket refills in its full time.
LEMMA FullTimeFacts == FullTime \in Nat /\ BucketSize <= FullTime * RefillRate
  <1>1. PICK b \in Nat, r \in Nat \ {0} : b = BucketSize /\ r = RefillRate
    BY LimiterFacts
  <1>2. b + r - 1 \in Nat /\ FullTime = (b + r - 1) \div r
    BY <1>1 DEF FullTime
  <1>3. PICK d \in Nat : d = FullTime /\ b + r - 1 < (d + 1) * r
    BY <1>2, Division
  <1>4. (d + 1) * r = d * r + r /\ d * r \in Nat
    BY SMTT(30)
  <1>5. b <= d * r
    BY <1>3, <1>4
  <1> QED BY <1>1, <1>3, <1>5

-----------------------------------------------------------------------------
HitType == [at : 0 .. MaxClock, cost : Nat]

\* The admissions before it and the new one.
LEMMA OneMoreHit ==
  ASSUME NEW a \in Seq(HitType), NEW h \in HitType
  PROVE  /\ Len(a) \in Nat
         /\ Append(a, h) \in Seq(HitType)
         /\ Len(Append(a, h)) = Len(a) + 1
         /\ \A j \in 1 .. Len(a) : Append(a, h)[j] = a[j] /\ a[j] \in HitType
         /\ Append(a, h)[Len(a) + 1] = h
  BY AppendProperties, LenProperties, ElementOfSeq

\* The types of what a step reads.
LEMMA LimiterTypes ==
  ASSUME LimiterTyped
  PROVE  /\ clock \in Nat /\ clock <= MaxClock /\ WindowOf(clock) \in WindowsSeen
         /\ admitted \in Seq(HitType) /\ Len(admitted) \in Nat /\ DOMAIN admitted = 1 .. Len(admitted)
         /\ \A j \in 1 .. Len(admitted) : /\ admitted[j] \in HitType /\ admitted[j].at \in 0 .. MaxClock
                                          /\ admitted[j].cost \in Nat
                                          /\ WindowOf(admitted[j].at) \in WindowsSeen
         /\ \A w \in WindowsSeen : counters[w].n \in Nat /\ counters[w].expires \in Nat
         /\ entries.hits \in SUBSET [at : Nat, member : Nat] /\ entries.expires \in Nat
         /\ level.tokens \in Nat /\ level.since \in Int /\ level.expires \in Nat
         /\ Refilled(level, clock) \in 0 .. BucketSize
  <1>1. clock \in 0 .. MaxClock /\ MaxClock \in Nat
    BY LimiterFacts DEF LimiterTyped
  <1>2. admitted \in Seq(HitType) /\ Len(admitted) \in Nat /\ DOMAIN admitted = 1 .. Len(admitted)
    BY LenProperties DEF LimiterTyped, HitType
  <1>3. ASSUME NEW j \in 1 .. Len(admitted)
        PROVE  /\ admitted[j] \in HitType /\ admitted[j].at \in 0 .. MaxClock
               /\ admitted[j].cost \in Nat
               /\ WindowOf(admitted[j].at) \in WindowsSeen
    <2>1. admitted[j] \in HitType
      BY <1>2, ElementOfSeq
    <2>2. admitted[j].at \in 0 .. MaxClock /\ admitted[j].cost \in Nat
      BY <2>1 DEF HitType
    <2> QED BY <2>1, <2>2, WindowFacts
  <1>4. \A w \in WindowsSeen : counters[w].n \in Nat /\ counters[w].expires \in Nat
    BY DEF LimiterTyped
  <1>5. /\ entries.hits \in SUBSET [at : Nat, member : Nat] /\ entries.expires \in Nat
        /\ level.tokens \in 0 .. BucketSize /\ level.since \in -1 .. MaxClock /\ level.expires \in Nat
    BY DEF LimiterTyped
  <1>6. /\ BucketSize \in Nat /\ RefillRate \in Nat
        /\ level.tokens \in Nat /\ level.since \in Int
    BY <1>1, <1>5, LimiterFacts
  <1>7. Refilled(level, clock) \in 0 .. BucketSize
    <2>1. PICK x \in Int : x = (clock - level.since) * RefillRate
      BY <1>1, <1>6
    <2>2. level.since # -1 => x >= 0
      <3>1. PICK d \in Int : d = clock - level.since
        BY <1>1, <1>6
      <3>2. level.since <= clock
        BY DEF LimiterTyped
      <3>3. level.since # -1 => d >= 0
        BY <1>1, <1>6, <3>1, <3>2
      <3>4. d \in Nat => d * RefillRate \in Nat
        BY <1>6
      <3> QED BY <2>1, <3>1, <3>3, <3>4
    <2>3. level.since \in -1 .. MaxClock /\ level.tokens \in 0 .. BucketSize
      BY <1>5
    <2> QED BY <1>6, <2>1, <2>2, <2>3 DEF Refilled
  <1>8. clock \in Nat /\ clock <= MaxClock /\ WindowOf(clock) \in WindowsSeen
    BY <1>1, WindowFacts
  <1>9. level.tokens \in Nat /\ level.since \in Int /\ level.expires \in Nat
    BY <1>5, <1>6
  <1> QED BY <1>2, <1>3, <1>4, <1>5, <1>7, <1>8, <1>9

-----------------------------------------------------------------------------
\* The deadline of a key is a number.
LEMMA DeadlineType ==
  ASSUME LimiterTyped, NEW d \in Nat
  PROVE  Deadline(d) \in Nat
  BY LimiterTypes, LimiterFacts DEF Deadline

\* An admission of now keeps the types.
LEMMA AdmittedTyped ==
  ASSUME LimiterTyped, NEW cost \in Nat, NEW t \in 0 .. MaxClock, t <= clock
  PROVE  /\ Append(admitted, Hit(t, cost)) \in Seq(HitType)
         /\ \A j \in 1 .. Len(Append(admitted, Hit(t, cost))) : Append(admitted, Hit(t, cost))[j].at <= clock
  <1>1. Hit(t, cost) \in HitType /\ Hit(t, cost).at = t
    BY DEF Hit, HitType
  <1>2. PICK a \in Seq(HitType) : a = Append(admitted, Hit(t, cost))
    BY <1>1, LimiterTypes, OneMoreHit
  <1>3. /\ Len(a) = Len(admitted) + 1 /\ \A j \in 1 .. Len(admitted) : a[j] = admitted[j]
        /\ a[Len(admitted) + 1] = Hit(t, cost) /\ Len(admitted) \in Nat
    BY <1>1, <1>2, LimiterTypes, OneMoreHit
  <1>4. \A j \in 1 .. Len(a) : j \in 1 .. Len(admitted) \/ j = Len(admitted) + 1
    BY <1>3
  <1>5. \A j \in 1 .. Len(admitted) : admitted[j].at <= clock
    BY DEF LimiterTyped
  <1>6. \A j \in 1 .. Len(a) : a[j].at <= clock
    BY <1>1, <1>3, <1>4, <1>5
  <1> QED BY <1>2, <1>6

\* A check that goes on keeps the types.
LEMMA CheckGoesOn ==
  ASSUME LimiterTyped, NEW c \in Checkers, NEW k \in CheckType, checks' = [checks EXCEPT ![c] = k], clock' = clock,
         k.now <= clock, k.at = "putting" => k.read <= BucketSize
  PROVE  /\ checks' \in [Checkers -> CheckType]
         /\ \A d \in Checkers : checks'[d].now <= clock' /\ (checks'[d].at = "putting" => checks'[d].read <= BucketSize)
         /\ checks'[c] = k /\ \A d \in Checkers : d # c => checks'[d] = checks[d]
  BY DEF LimiterTyped

\* No step breaks the types.
LEMMA LimiterTypeInductive ==
  ASSUME LimiterTyped, [LimiterNext]_limiterVars
  PROVE  LimiterTyped'
  <1> USE DEF HitType
  <1>1. CASE UNCHANGED limiterVars
    BY <1>1 DEF limiterVars, LimiterTyped
  <1>2. ASSUME NEW c \in Checkers, CheckFixed(c) PROVE LimiterTyped'
    <2>1. counters' \in [WindowsSeen -> [n : Nat, expires : Nat]]
      <3>1. PICK w \in WindowsSeen : counters' = [counters EXCEPT ![w].n = counters[w].n + 1]
        BY <1>2, LimiterTypes DEF CheckFixed
      <3>2. PICK f : f = counters /\ f \in [WindowsSeen -> [n : Nat, expires : Nat]]
        BY DEF LimiterTyped
      <3>3. PICK g \in [n : Nat, expires : Nat] : g = f[w]
        BY ONLY <3>2, w \in WindowsSeen
      <3>4. PICK r \in [n : Nat, expires : Nat] : r = [g EXCEPT !.n = g.n + 1]
        <4>1. PICK m \in Nat : m = g.n + 1
          BY ONLY g \in [n : Nat, expires : Nat]
        <4>2. [g EXCEPT !.n = m] \in [n : Nat, expires : Nat]
          BY ONLY g \in [n : Nat, expires : Nat], m \in Nat
        <4> QED BY ONLY <4>1, <4>2
      <3>5. counters' = [f EXCEPT ![w] = r]
        BY ONLY <3>1, <3>2, <3>3, <3>4, w \in WindowsSeen
      <3>6. [f EXCEPT ![w] = r] \in [WindowsSeen -> [n : Nat, expires : Nat]]
        BY ONLY <3>2, w \in WindowsSeen, r \in [n : Nat, expires : Nat]
      <3> QED BY ONLY <3>5, <3>6
    <2>2. PICK k \in CheckType : /\ checks' = [checks EXCEPT ![c] = k]
                                 /\ k.now <= clock /\ k.at # "putting"
      <3>1. \E k \in {Idling, [Idling EXCEPT !.at = "expiring", !.now = clock, !.cost = 1],
                      [Idling EXCEPT !.at = "refused", !.now = clock, !.cost = 1]} :
               checks' = [checks EXCEPT ![c] = k]
        BY <1>2 DEF CheckFixed
      <3>2. PICK t \in 0 .. MaxClock : t = clock
        BY DEF LimiterTyped
      <3>3. 0 \in 0 .. MaxClock /\ 0 <= clock /\ t <= clock
        BY <3>2, LimiterTypes, LimiterFacts
      <3>4. Idling \in CheckType /\ Idling.now = 0 /\ Idling.at = "idle"
        BY <3>3 DEF Idling, CheckStages, CheckType
      <3>5. ASSUME NEW s \in {"expiring", "refused"}
            PROVE  /\ [Idling EXCEPT !.at = s, !.now = t, !.cost = 1] \in CheckType
                   /\ [Idling EXCEPT !.at = s, !.now = t, !.cost = 1].now = t
                   /\ [Idling EXCEPT !.at = s, !.now = t, !.cost = 1].at = s
        BY DEF Idling, CheckStages, CheckType
      <3>6. PICK k : /\ checks' = [checks EXCEPT ![c] = k]
                     /\ \/ k = Idling
                        \/ \E s \in {"expiring", "refused"} : k = [Idling EXCEPT !.at = s, !.now = clock, !.cost = 1]
        BY <3>1
      <3>7. CASE k = Idling
        BY <3>3, <3>4, <3>6, <3>7
      <3>8. ASSUME NEW s \in {"expiring", "refused"}, k = [Idling EXCEPT !.at = s, !.now = t, !.cost = 1]
            PROVE  k \in CheckType /\ k.now <= clock /\ k.at # "putting"
        BY <3>3, <3>5, <3>8
      <3>9. k \in CheckType /\ k.now <= clock /\ k.at # "putting"
        BY <3>2, <3>3, <3>4, <3>6, <3>7, <3>8
      <3> QED BY <3>6, <3>9
    <2>4. admitted' = admitted \/ admitted' = Append(admitted, Hit(clock, 1))
      BY <1>2 DEF CheckFixed
    <2>5. admitted' \in Seq(HitType) /\ \A j \in 1 .. Len(admitted') : admitted'[j].at <= clock
      <3>1. CASE admitted' = admitted
        BY <3>1 DEF LimiterTyped
      <3>2. CASE admitted' = Append(admitted, Hit(clock, 1))
        <4>1. clock \in 0 .. MaxClock /\ clock <= clock /\ 1 \in Nat
          BY LimiterTypes
        <4> QED BY <3>2, <4>1, AdmittedTyped
      <3> QED BY <2>4, <3>1, <3>2
    <2>6. /\ UNCHANGED <<algorithm, clock, entries, level, resets>> /\ made' = made + 1
      BY <1>2 DEF CheckFixed
    <2>7. /\ checks' \in [Checkers -> CheckType]
          /\ \A d \in Checkers : checks'[d].now <= clock' /\ (checks'[d].at = "putting" => checks'[d].read <= BucketSize)
      BY <2>2, <2>6, CheckGoesOn
    <2> QED BY <2>1, <2>5, <2>6, <2>7 DEF LimiterTyped
  <1>3. ASSUME NEW c \in Checkers, CheckLog(c) PROVE LimiterTyped'
    <2>1. /\ entries' = [entries EXCEPT !.hits = {h \in @ : ~OutOfWindow(h.at, clock)}]
          /\ checks' = [checks EXCEPT ![c] = [at |-> "counting", now |-> clock, cost |-> 1, read |-> made]]
          /\ made' = made + 1
          /\ UNCHANGED <<algorithm, clock, counters, level, admitted, resets>>
      BY <1>3 DEF CheckLog
    <2>2. entries' \in [hits : SUBSET [at : Nat, member : Nat], expires : Nat]
      BY <2>1 DEF LimiterTyped
    <2>3. PICK k : k = [at |-> "counting", now |-> clock, cost |-> 1, read |-> made]
      OBVIOUS
    <2>4. k \in CheckType /\ k.now = clock /\ k.at # "putting" /\ checks' = [checks EXCEPT ![c] = k]
      BY <2>1, <2>3 DEF LimiterTyped, CheckStages, CheckType
    <2>5. /\ checks' \in [Checkers -> CheckType]
          /\ \A d \in Checkers : checks'[d].now <= clock' /\ (checks'[d].at = "putting" => checks'[d].read <= BucketSize)
      <3>1. k.now <= clock
        BY <2>4, LimiterTypes
      <3> QED BY <2>1, <2>4, <3>1, CheckGoesOn
    <2> QED BY <2>1, <2>2, <2>5 DEF LimiterTyped
  <1>4. ASSUME NEW c \in Checkers, CountLog(c) PROVE LimiterTyped'
    <2>1. PICK s \in {"adding", "refused"} : checks' = [checks EXCEPT ![c].at = s]
      BY <1>4 DEF CountLog
    <2>2. UNCHANGED <<algorithm, clock, counters, entries, level, admitted, made, resets>>
      BY <1>4 DEF CountLog
    <2>3. PICK k : k = [checks[c] EXCEPT !.at = s]
      OBVIOUS
    <2>4. k \in CheckType /\ k.now <= clock /\ k.at # "putting" /\ checks' = [checks EXCEPT ![c] = k]
      BY <2>1, <2>3 DEF LimiterTyped, CheckType, CheckStages
    <2>5. /\ checks' \in [Checkers -> CheckType]
          /\ \A d \in Checkers : checks'[d].now <= clock' /\ (checks'[d].at = "putting" => checks'[d].read <= BucketSize)
      BY <2>2, <2>4, CheckGoesOn
    <2> QED BY <2>2, <2>5 DEF LimiterTyped
  <1>5. ASSUME NEW c \in Checkers, AddToLog(c) PROVE LimiterTyped'
    <2>1. /\ entries' = [entries EXCEPT !.hits = @ \cup {[at |-> checks[c].now, member |-> checks[c].read]}]
          /\ admitted' = Append(admitted, Hit(checks[c].now, 1))
          /\ checks' = [checks EXCEPT ![c].at = "expiring"]
          /\ UNCHANGED <<algorithm, clock, counters, level, made, resets>>
      BY <1>5 DEF AddToLog
    <2>2. checks[c].now \in 0 .. MaxClock /\ checks[c].now <= clock /\ checks[c].read \in Nat /\ checks[c].now \in Nat
      BY LimiterFacts DEF LimiterTyped, CheckType
    <2>3. entries' \in [hits : SUBSET [at : Nat, member : Nat], expires : Nat]
      <3>1. PICK x \in [at : Nat, member : Nat] : entries' = [entries EXCEPT !.hits = @ \cup {x}]
        BY <2>1, <2>2
      <3> QED BY <3>1 DEF LimiterTyped
    <2>4. admitted' \in Seq(HitType) /\ \A j \in 1 .. Len(admitted') : admitted'[j].at <= clock
      BY <2>1, <2>2, AdmittedTyped
    <2>5. PICK k : k = [checks[c] EXCEPT !.at = "expiring"]
      OBVIOUS
    <2>6. k \in CheckType /\ k.now <= clock /\ k.at # "putting" /\ checks' = [checks EXCEPT ![c] = k]
      BY <2>1, <2>5 DEF LimiterTyped, CheckType, CheckStages
    <2>7. /\ checks' \in [Checkers -> CheckType]
          /\ \A d \in Checkers : checks'[d].now <= clock' /\ (checks'[d].at = "putting" => checks'[d].read <= BucketSize)
      BY <2>1, <2>6, CheckGoesOn
    <2> QED BY <2>1, <2>3, <2>4, <2>7 DEF LimiterTyped
  <1>6. ASSUME NEW c \in Checkers, NEW cost \in Costs, CheckBucket(c, cost) PROVE LimiterTyped'
    <2>1. PICK r \in Nat : r = Refilled(level, clock) /\ r <= BucketSize
      BY LimiterTypes
    <2>2. PICK k : k = [at |-> "putting", now |-> clock, cost |-> cost, read |-> r]
      OBVIOUS
    <2>3. k \in CheckType /\ k.now = clock /\ k.read = r
      BY <2>2, LimiterFacts DEF LimiterTyped, CheckStages, CheckType
    <2>4. /\ checks' = [checks EXCEPT ![c] = k] /\ made' = made + 1
          /\ UNCHANGED <<algorithm, clock, counters, entries, level, admitted, resets>>
      BY <1>6, <2>1, <2>2 DEF CheckBucket
    <2>5. /\ checks' \in [Checkers -> CheckType]
          /\ \A d \in Checkers : checks'[d].now <= clock' /\ (checks'[d].at = "putting" => checks'[d].read <= BucketSize)
      <3>1. k.now <= clock
        BY <2>3, LimiterTypes
      <3> QED BY <2>1, <2>3, <2>4, <3>1, CheckGoesOn
    <2> QED BY <2>4, <2>5 DEF LimiterTyped
  <1>7. ASSUME NEW c \in Checkers, PutBucket(c) PROVE LimiterTyped'
    <2>1. PICK k \in CheckType : k = checks[c] /\ k.at = "putting" /\ k.read \in Nat /\ k.cost \in Nat
                                 /\ k.now \in 0 .. MaxClock /\ k.now <= clock /\ k.read <= BucketSize
      BY <1>7 DEF PutBucket, LimiterTyped, CheckType
    <2>2. /\ level' = [level EXCEPT !.tokens = IF k.read >= k.cost THEN k.read - k.cost ELSE k.read, !.since = k.now]
          /\ admitted' = IF k.read >= k.cost THEN Append(admitted, Hit(k.now, k.cost)) ELSE admitted
          /\ checks' = [checks EXCEPT ![c].at = IF k.read >= k.cost THEN "expiring" ELSE "refusing"]
          /\ UNCHANGED <<algorithm, clock, counters, entries, made, resets>>
      BY <1>7, <2>1 DEF PutBucket
    <2>3. level' \in [tokens : 0 .. BucketSize, since : -1 .. MaxClock, expires : Nat] /\ level'.since <= clock
      <3>1. PICK x \in 0 .. BucketSize : x = IF k.read >= k.cost THEN k.read - k.cost ELSE k.read
        BY <2>1, LimiterFacts
      <3>2. k.now \in -1 .. MaxClock
        BY <2>1, LimiterFacts
      <3>3. level' = [level EXCEPT !.tokens = x, !.since = k.now]
        BY <2>2, <3>1
      <3> QED BY <2>1, <3>2, <3>3 DEF LimiterTyped
    <2>4. admitted' \in Seq(HitType) /\ \A j \in 1 .. Len(admitted') : admitted'[j].at <= clock
      <3>1. CASE admitted' = admitted
        BY <3>1 DEF LimiterTyped
      <3>2. CASE admitted' = Append(admitted, Hit(k.now, k.cost))
        BY <2>1, <3>2, AdmittedTyped
      <3> QED BY <2>2, <3>1, <3>2
    <2>5. PICK s \in {"expiring", "refusing"} : checks' = [checks EXCEPT ![c].at = s]
      BY <2>2
    <2>6. PICK l : l = [checks[c] EXCEPT !.at = s]
      OBVIOUS
    <2>7. l \in CheckType /\ l.now <= clock /\ l.at # "putting" /\ checks' = [checks EXCEPT ![c] = l]
      BY <2>1, <2>5, <2>6 DEF LimiterTyped, CheckType, CheckStages
    <2>8. /\ checks' \in [Checkers -> CheckType]
          /\ \A d \in Checkers : checks'[d].now <= clock' /\ (checks'[d].at = "putting" => checks'[d].read <= BucketSize)
      BY <2>2, <2>7, CheckGoesOn
    <2> QED BY <2>2, <2>3, <2>4, <2>8 DEF LimiterTyped
  <1>8. ASSUME NEW c \in Checkers, Expire(c) PROVE LimiterTyped'
    <2>1. PICK s \in Nat, l \in Nat : s = Deadline(WindowTime) /\ l = Deadline(2 * FullTime)
      BY DeadlineType, LimiterFacts, FullTimeFacts
    <2>2. WindowOf(checks[c].now) \in WindowsSeen
      BY WindowFacts DEF LimiterTyped, CheckType
    <2>3. PICK w \in WindowsSeen : w = WindowOf(checks[c].now)
      BY <2>2
    <2>4. counters' \in [WindowsSeen -> [n : Nat, expires : Nat]]
      <3>1. counters' = counters \/ counters' = [counters EXCEPT ![w].expires = s]
        BY <1>8, <2>1, <2>3 DEF Expire
      <3> QED BY <2>1, <3>1 DEF LimiterTyped
    <2>5. entries' \in [hits : SUBSET [at : Nat, member : Nat], expires : Nat]
      <3>1. entries' = entries \/ entries' = [entries EXCEPT !.expires = s]
        BY <1>8, <2>1 DEF Expire
      <3> QED BY <2>1, <3>1 DEF LimiterTyped
    <2>6. level' \in [tokens : 0 .. BucketSize, since : -1 .. MaxClock, expires : Nat] /\ level'.since = level.since
      <3>1. level' = level \/ level' = [level EXCEPT !.expires = l]
        BY <1>8, <2>1 DEF Expire
      <3> QED BY <2>1, <3>1 DEF LimiterTyped
    <2>7. UNCHANGED <<algorithm, clock, admitted, made, resets>>
      BY <1>8 DEF Expire
    <2>8. PICK k \in CheckType : checks' = [checks EXCEPT ![c] = k] /\ k.now <= clock /\ k.at # "putting"
      <3>1. checks' = [checks EXCEPT ![c] = Idling] \/ checks' = [checks EXCEPT ![c] = [checks[c] EXCEPT !.at = "refused"]]
        BY <1>8 DEF Expire
      <3>2. CASE checks' = [checks EXCEPT ![c] = Idling]
        <4>1. 0 \in 0 .. MaxClock /\ 0 <= clock
          BY LimiterTypes, LimiterFacts
        <4>2. Idling \in CheckType /\ Idling.now <= clock /\ Idling.at # "putting"
          BY <4>1 DEF Idling, CheckStages, CheckType
        <4> QED BY <3>2, <4>2
      <3>3. CASE checks' = [checks EXCEPT ![c] = [checks[c] EXCEPT !.at = "refused"]]
        <4>1. [checks[c] EXCEPT !.at = "refused"] \in CheckType
          BY DEF LimiterTyped, CheckType, CheckStages
        <4>2. [checks[c] EXCEPT !.at = "refused"].now <= clock /\ [checks[c] EXCEPT !.at = "refused"].at # "putting"
          BY DEF LimiterTyped, CheckType
        <4> QED BY <3>3, <4>1, <4>2
      <3> QED BY <3>1, <3>2, <3>3
    <2>9. /\ checks' \in [Checkers -> CheckType]
          /\ \A d \in Checkers : checks'[d].now <= clock' /\ (checks'[d].at = "putting" => checks'[d].read <= BucketSize)
      BY <2>7, <2>8, CheckGoesOn
    <2> QED BY <2>4, <2>5, <2>6, <2>7, <2>9 DEF LimiterTyped
  <1>9. ASSUME Reset PROVE LimiterTyped'
    <2>1. counters' \in [WindowsSeen -> [n : Nat, expires : Nat]]
      <3>1. NoCounter \in [n : Nat, expires : Nat]
        BY LimiterFacts DEF NoCounter
      <3> QED BY <1>9, <3>1 DEF Reset, LimiterTyped
    <2>2. entries' \in [hits : SUBSET [at : Nat, member : Nat], expires : Nat]
      BY <1>9, LimiterFacts DEF Reset, EmptyLog
    <2>3. level' \in [tokens : 0 .. BucketSize, since : -1 .. MaxClock, expires : Nat] /\ level'.since <= clock
      BY <1>9, LimiterFacts, LimiterTypes DEF Reset, NoLevel
    <2>4. admitted' \in Seq(HitType) /\ \A j \in 1 .. Len(admitted') : admitted'[j].at <= clock
      <3>1. PICK S : admitted' = <<>> \/ admitted' = Without(admitted, S)
        BY <1>9 DEF Reset
      <3>2. CASE admitted' = <<>>
        <4>1. \A j \in 1 .. Len(<<>>) : FALSE
          OBVIOUS
        <4>2. <<>> \in Seq(HitType)
          BY EmptySeq
        <4> QED BY <3>2, <4>1, <4>2
      <3>3. CASE admitted' = Without(admitted, S)
        <4>1. PICK a \in Seq(HitType) : a = admitted
          BY LimiterTypes
        <4>5. /\ Without(a, S) \in Seq(HitType)
              /\ \A i \in 1 .. Len(Without(a, S)) : /\ Without(a, S)[i] \notin S
                                                   /\ \E j \in 1 .. Len(a) : a[j] = Without(a, S)[i]
          BY ONLY a \in Seq(HitType), WithoutProperties
        <4>2. PICK b : b = Without(a, S)
          OBVIOUS
        <4>3. b \in Seq(HitType) /\ \A i \in 1 .. Len(b) : \E j \in 1 .. Len(a) : a[j] = b[i]
          BY <4>2, <4>5
        <4>4. \A j \in 1 .. Len(a) : a[j].at <= clock
          BY <4>1 DEF LimiterTyped
        <4> QED BY <3>3, <4>1, <4>2, <4>3, <4>4
      <3> QED BY <3>1, <3>2, <3>3
    <2>5. UNCHANGED <<algorithm, clock, checks, made>> /\ resets' = resets + 1
      BY <1>9 DEF Reset
    <2>6. \A c \in Checkers : checks'[c].now <= clock' /\ (checks'[c].at = "putting" => checks'[c].read <= BucketSize)
      BY <2>5 DEF LimiterTyped
    <2>7. algorithm' \in Algorithms /\ clock' \in 0 .. MaxClock /\ checks' \in [Checkers -> CheckType] /\ made' \in Nat /\ resets' \in Nat
      BY <2>5 DEF LimiterTyped
    <2>8. level'.since <= clock' /\ \A k \in 1 .. Len(admitted') : admitted'[k].at <= clock'
      BY <2>3, <2>4, <2>5
    <2> QED BY <2>1, <2>2, <2>3, <2>4, <2>6, <2>7, <2>8 DEF LimiterTyped
  <1>10. ASSUME Pass PROVE LimiterTyped'
    <2>1. /\ clock' = clock + 1 /\ clock' \in 0 .. MaxClock
          /\ UNCHANGED <<algorithm, checks, admitted, made, resets>>
      BY <1>10, LimiterTypes, LimiterFacts DEF Pass
    <2>2. counters' \in [WindowsSeen -> [n : Nat, expires : Nat]]
      <3>1. NoCounter \in [n : Nat, expires : Nat]
        BY LimiterFacts DEF NoCounter
      <3>2. counters' = [w \in WindowsSeen |-> KeptKey(counters[w], NoCounter)]
        BY <1>10 DEF Pass
      <3>3. \A w \in WindowsSeen : KeptKey(counters[w], NoCounter) \in [n : Nat, expires : Nat]
        BY <3>1 DEF KeptKey, LimiterTyped
      <3> QED BY <3>2, <3>3
    <2>3. entries' \in [hits : SUBSET [at : Nat, member : Nat], expires : Nat]
      BY <1>10, LimiterFacts DEF Pass, EmptyLog, KeptKey, LimiterTyped
    <2>4. level' \in [tokens : 0 .. BucketSize, since : -1 .. MaxClock, expires : Nat] /\ level'.since <= clock'
      <3>1. level' = level \/ level' = NoLevel
        BY <1>10 DEF Pass, KeptKey
      <3>2. NoLevel \in [tokens : 0 .. BucketSize, since : -1 .. MaxClock, expires : Nat] /\ NoLevel.since <= clock'
        BY <2>1, LimiterFacts, LimiterTypes DEF NoLevel
      <3> QED BY <2>1, <3>1, <3>2, LimiterTypes DEF LimiterTyped
    <2>5. \A d \in Checkers : checks[d].now <= clock'
      <3>1. \A d \in Checkers : checks[d].now <= clock /\ checks[d].now \in 0 .. MaxClock
        BY DEF LimiterTyped, CheckType
      <3> QED BY <2>1, <3>1, LimiterTypes, LimiterFacts
    <2>6. \A j \in 1 .. Len(admitted) : admitted[j].at <= clock'
      <3>1. \A j \in 1 .. Len(admitted) : admitted[j].at <= clock
        BY DEF LimiterTyped
      <3> QED BY <2>1, <3>1, LimiterTypes, LimiterFacts
    <2> QED BY <2>1, <2>2, <2>3, <2>4, <2>5, <2>6 DEF LimiterTyped
  <1> QED BY <1>1, <1>2, <1>3, <1>4, <1>5, <1>6, <1>7, <1>8, <1>9, <1>10 DEF LimiterNext

\* Admissions are counted.
LEMMA AdmittedCounts ==
  ASSUME LimiterTyped, NEW S
  PROVE  IsFiniteSet(AdmittedAt(S)) /\ Cardinality(AdmittedAt(S)) \in Nat
  <1>1. IsFiniteSet(1 .. Len(admitted))
    <2>1. Len(admitted) \in Nat
      BY LimiterTypes
    <2> QED BY <2>1, FS_Interval
  <1>2. AdmittedAt(S) \in SUBSET (1 .. Len(admitted))
    BY DEF AdmittedAt
  <1> QED BY <1>1, <1>2, FS_Subset, FS_CardinalityType

\* The new one counts at its time.
LEMMA AdmittedOneMore ==
  ASSUME LimiterTyped, NEW h \in HitType, admitted' = Append(admitted, h), NEW S
  PROVE  /\ AdmittedAt(S)' = IF h.at \in S THEN AdmittedAt(S) \cup {Len(admitted) + 1} ELSE AdmittedAt(S)
         /\ Cardinality(AdmittedAt(S)') = Cardinality(AdmittedAt(S)) + (IF h.at \in S THEN 1 ELSE 0)
  <1>1. PICK n \in Nat : n = Len(admitted)
    BY LimiterTypes
  <1>2. PICK a \in Seq(HitType) : a = admitted
    BY LimiterTypes
  <1>3. PICK b : b = Append(a, h)
    OBVIOUS
  <1>4. Len(b) = n + 1 /\ b[n + 1] = h /\ \A j \in 1 .. n : b[j] = a[j]
    BY <1>1, <1>2, <1>3, OneMoreHit
  <1>5. PICK A : A = AdmittedAt(S)
    OBVIOUS
  <1>6. A = {j \in 1 .. n : a[j].at \in S}
    BY <1>1, <1>2, <1>5 DEF AdmittedAt
  <1>7. AdmittedAt(S)' = {j \in 1 .. n + 1 : b[j].at \in S}
    BY <1>2, <1>3, <1>4 DEF AdmittedAt
  <1>8. n + 1 \notin A /\ \A j \in 1 .. n + 1 : j \in 1 .. n \/ j = n + 1
    BY <1>6
  <1>9. 1 .. n \subseteq 1 .. n + 1 /\ n + 1 \in 1 .. n + 1
    OBVIOUS
  <1>10. CASE h.at \in S
    <2>1. AdmittedAt(S)' = A \cup {n + 1}
      BY <1>4, <1>6, <1>7, <1>8, <1>9, <1>10
    <2>2. IsFiniteSet(A) /\ Cardinality(A) \in Nat
      BY <1>5, AdmittedCounts
    <2>3. Cardinality(A \cup {n + 1}) = Cardinality(A) + 1
      BY <1>8, <2>2, FS_AddElement
    <2> QED BY <1>1, <1>5, <1>10, <2>1, <2>3
  <1>11. CASE h.at \notin S
    <2>1. AdmittedAt(S)' = A
      BY <1>4, <1>6, <1>7, <1>8, <1>9, <1>11
    <2>2. Cardinality(A) \in Nat
      BY <1>5, AdmittedCounts
    <2> QED BY <1>5, <1>11, <2>1, <2>2
  <1> QED BY <1>10, <1>11

\* Without some, no more count than before.
LEMMA AdmittedLess ==
  ASSUME LimiterTyped, NEW T, admitted' = Without(admitted, T), NEW S
  PROVE  /\ Cardinality(AdmittedAt(S)') \in Nat
         /\ Cardinality(AdmittedAt(S)') <= Cardinality(AdmittedAt(S))
         /\ (\A j \in 1 .. Len(admitted) : admitted[j].at \in S => admitted[j] \in T) => Cardinality(AdmittedAt(S)') = 0
  <1>1. PICK a \in Seq(HitType) : a = admitted
    BY LimiterTypes
  <1>2. PICK b : b = Without(a, T)
    OBVIOUS
  <1>3. b \in Seq(HitType) /\ Len(b) \in Nat
    BY <1>2, WithoutProperties, LenProperties
  <1>4. PICK e : LeavesOf(e, b, a, Len(a), T)
    BY <1>2, WithoutKeepsOrder
  <1>5. PICK A, B : A = {j \in 1 .. Len(a) : a[j].at \in S} /\ B = {j \in 1 .. Len(b) : b[j].at \in S}
    OBVIOUS
  <1>6. A = AdmittedAt(S) /\ B = AdmittedAt(S)'
    BY <1>1, <1>2, <1>5 DEF AdmittedAt
  <1>7. PICK g : g = [j \in B |-> e[j]]
    OBVIOUS
  <1>8. \A j \in 1 .. Len(b) : e[j] \in 1 .. Len(a) /\ b[j] = a[e[j]] /\ a[e[j]] \notin T
    BY <1>4 DEF LeavesOf
  <1>9. g \in [B -> A]
    BY <1>5, <1>7, <1>8
  <1>10. \A i, j \in B : g[i] = g[j] => i = j
    <2> SUFFICES ASSUME NEW i \in B, NEW j \in B, g[i] = g[j], i < j \/ j < i PROVE FALSE
      BY <1>3, <1>5
    <2>1. e[i] = e[j] /\ i \in 1 .. Len(b) /\ j \in 1 .. Len(b) /\ e[i] \in Nat /\ e[j] \in Nat
      BY <1>5, <1>7, <1>8
    <2>2. e[i] < e[j] \/ e[j] < e[i]
      BY <2>1, <1>4 DEF LeavesOf
    <2> QED BY <2>1, <2>2
  <1>11. IsFiniteSet(A) /\ Cardinality(A) \in Nat
    BY <1>6, AdmittedCounts
  <1>12. IsFiniteSet(B) /\ Cardinality(B) <= Cardinality(A)
    BY <1>9, <1>10, <1>11, InjectionCount
  <1>13. Cardinality(B) \in Nat
    BY <1>12, FS_CardinalityType
  <1>14. ASSUME \A j \in 1 .. Len(a) : a[j].at \in S => a[j] \in T PROVE Cardinality(B) = 0
    <2>1. B = {}
      BY <1>5, <1>8, <1>14
    <2> QED BY <2>1, FS_EmptySet
  <1> QED BY <1>1, <1>6, <1>11, <1>12, <1>13, <1>14

-----------------------------------------------------------------------------
\* With nothing in between, a check that begins or goes on is alone.
LEMMA AloneThen ==
  ASSUME Racing \subseteq {"fixed"}, LimiterTyped, OneCheck, algorithm # "fixed", NEW c \in Checkers,
         Interrupts \/ ~Resting(c)
  PROVE  \A d \in Checkers : d # c => Resting(d)
  <1>1. algorithm \in {"log", "bucket"} /\ algorithm \notin Racing
    BY LimiterFacts DEF LimiterTyped
  <1> QED BY <1>1 DEF OneCheck, Interrupts

\* No step breaks it.
LEMMA OneCheckInductive ==
  ASSUME Racing \subseteq {"fixed"}, LimiterTyped, OneCheck, [LimiterNext]_limiterVars
  PROVE  OneCheck'
  <1>1. CASE UNCHANGED limiterVars
    BY <1>1 DEF limiterVars, OneCheck, Resting
  <1>2. ASSUME NEW c \in Checkers, NEW k, checks' = [checks EXCEPT ![c] = k],
               k.at \in {"idle", "refused"} \/ k.now = clock \/ (~Resting(c) /\ k.now = checks[c].now),
               UNCHANGED <<algorithm, clock>>, Interrupts \/ ~Resting(c)
        PROVE  OneCheck'
    <2> SUFFICES ASSUME algorithm \in {"log", "bucket"}
                 PROVE  /\ \A d \in Checkers : ~Resting(d)' => checks'[d].now = clock
                        /\ \A d, b \in Checkers : ~Resting(d)' /\ ~Resting(b)' => d = b
      BY <1>2 DEF OneCheck
    <2>1. \A d \in Checkers : d # c => Resting(d)
      BY <1>2, AloneThen
    <2>2. checks'[c] = k /\ \A d \in Checkers : d # c => checks'[d] = checks[d]
      BY <1>2 DEF LimiterTyped
    <2>3. \A d \in Checkers : d # c => Resting(d)'
      BY <2>1, <2>2 DEF Resting
    <2>4. ~Resting(c)' => k.now = clock
      BY <1>2, <2>2 DEF OneCheck, Resting
    <2> QED BY <2>2, <2>3, <2>4
  <1>3. ASSUME NEW c \in Checkers, CheckFixed(c) PROVE OneCheck'
    BY <1>3 DEF CheckFixed, OneCheck
  <1>4. ASSUME NEW c \in Checkers, CheckLog(c) PROVE OneCheck'
    <2>1. PICK k : k = [at |-> "counting", now |-> clock, cost |-> 1, read |-> made]
      OBVIOUS
    <2>2. k.now = clock /\ checks' = [checks EXCEPT ![c] = k] /\ Interrupts /\ UNCHANGED <<algorithm, clock>>
      BY <1>4, <2>1 DEF CheckLog, MayCheck
    <2> QED BY <1>2, <2>2
  <1>5. ASSUME NEW c \in Checkers, CountLog(c) \/ AddToLog(c) \/ PutBucket(c) PROVE OneCheck'
    <2>1. PICK s : checks' = [checks EXCEPT ![c].at = s]
      BY <1>5 DEF CountLog, AddToLog, PutBucket
    <2>2. UNCHANGED <<algorithm, clock>> /\ ~Resting(c)
      BY <1>5 DEF CountLog, AddToLog, PutBucket, Resting
    <2>3. PICK k : k = [checks[c] EXCEPT !.at = s]
      OBVIOUS
    <2>4. k.now = checks[c].now /\ checks' = [checks EXCEPT ![c] = k]
      BY <2>1, <2>3 DEF LimiterTyped, CheckType
    <2> QED BY <1>2, <2>2, <2>4
  <1>6. ASSUME NEW c \in Checkers, NEW cost \in Costs, CheckBucket(c, cost) PROVE OneCheck'
    <2>1. PICK k : k = [at |-> "putting", now |-> clock, cost |-> cost, read |-> Refilled(level, clock)]
      OBVIOUS
    <2>2. k.now = clock /\ checks' = [checks EXCEPT ![c] = k] /\ Interrupts /\ UNCHANGED <<algorithm, clock>>
      BY <1>6, <2>1 DEF CheckBucket, MayCheck
    <2> QED BY <1>2, <2>2
  <1>7. ASSUME NEW c \in Checkers, Expire(c) PROVE OneCheck'
    <2>1. PICK k : k = IF checks[c].at = "expiring" THEN Idling ELSE [checks[c] EXCEPT !.at = "refused"]
      OBVIOUS
    <2>2. k.at \in {"idle", "refused"}
      BY <2>1 DEF Idling, LimiterTyped, CheckType
    <2>3. checks' = [checks EXCEPT ![c] = k] /\ ~Resting(c) /\ UNCHANGED <<algorithm, clock>>
      BY <1>7, <2>1 DEF Expire, Resting
    <2> QED BY <1>2, <2>2, <2>3
  <1>8. CASE Reset
    BY <1>8 DEF Reset, OneCheck, Resting
  <1>9. CASE Pass
    <2>1. UNCHANGED <<algorithm, checks>> /\ Interrupts
      BY <1>9 DEF Pass
    <2>2. algorithm \in {"log", "bucket"} => \A d \in Checkers : Resting(d)
      BY <2>1 DEF Interrupts
    <2> QED BY <2>1, <2>2 DEF OneCheck, Resting
  <1> QED BY <1>1, <1>3, <1>4, <1>5, <1>6, <1>7, <1>8, <1>9 DEF LimiterNext

-----------------------------------------------------------------------------
\* The set of times of a window.
LEMMA WindowTimes ==
  ASSUME NEW t \in 0 .. MaxClock, NEW w
  PROVE  t \in {u \in 0 .. MaxClock : WindowOf(u) = w} <=> WindowOf(t) = w
  OBVIOUS

\* No step breaks what is known of the fixed windows.
LEMMA FixedInductive ==
  ASSUME LimiterTyped, FixedKept, [LimiterNext]_limiterVars
  PROVE  FixedKept'
  <1>1. algorithm' = algorithm
    BY DEF LimiterNext, limiterVars, CheckFixed, CheckLog, CountLog, AddToLog, CheckBucket, PutBucket, Expire, Reset, Pass
  <1> SUFFICES ASSUME algorithm = "fixed" PROVE FixedKept'
    BY <1>1 DEF FixedKept
  <1> DEFINE Kept(w) == /\ Cardinality(WindowHits(w)) <= HitLimit
                        /\ WindowOf(clock) <= w => Cardinality(WindowHits(w)) <= counters[w].n
                        /\ counters[w].expires <= MaxClock => (w + 1) * WindowTime <= counters[w].expires
  <1>2. /\ \A c \in Checkers : checks[c].at \in {"idle", "expiring", "refused"}
        /\ \A w \in WindowsSeen : Kept(w)
    BY DEF FixedKept
  <1>3. /\ clock \in 0 .. MaxClock /\ WindowOf(clock) \in WindowsSeen /\ clock \in Nat
        /\ \A w \in WindowsSeen : Cardinality(WindowHits(w)) \in Nat /\ counters[w].n \in Nat /\ w \in Nat
    BY LimiterTypes, WindowFacts, AdmittedCounts DEF LimiterTyped, WindowHits
  <1>4. CASE UNCHANGED limiterVars
    <2>1. \A w \in WindowsSeen : WindowHits(w)' = WindowHits(w)
      BY <1>4 DEF limiterVars, WindowHits, AdmittedAt
    <2> QED BY <1>2, <1>4, <2>1 DEF limiterVars, FixedKept
  <1>5. ASSUME NEW c \in Checkers, CheckFixed(c) PROVE FixedKept'
    <2>1. PICK v \in WindowsSeen, n \in Nat : v = WindowOf(clock) /\ n = counters[v].n
      BY <1>3
    <2>2. counters' = [counters EXCEPT ![v].n = n + 1] /\ UNCHANGED clock
      BY <1>5, <2>1 DEF CheckFixed
    <2>3. /\ counters'[v].n = n + 1
          /\ \A w \in WindowsSeen : w # v => counters'[w].n = counters[w].n
          /\ \A w \in WindowsSeen : counters'[w].expires = counters[w].expires
      BY <2>1, <2>2 DEF LimiterTyped
    <2>4. \/ admitted' = admitted
          \/ n < HitLimit /\ admitted' = Append(admitted, Hit(clock, 1))
      BY <1>5, <2>1 DEF CheckFixed, UnderLimit
    <2>5. ASSUME NEW w \in WindowsSeen PROVE Kept(w)'
      <3>1. CASE admitted' = admitted
        <4>1. WindowHits(w)' = WindowHits(w)
          BY <3>1 DEF WindowHits, AdmittedAt
        <4> QED BY <1>2, <1>3, <2>1, <2>2, <2>3, <4>1
      <3>2. CASE n < HitLimit /\ admitted' = Append(admitted, Hit(clock, 1))
        <4>1. Hit(clock, 1) \in HitType /\ Hit(clock, 1).at = clock
          BY <1>3 DEF Hit, HitType
        <4>2. PICK S : S = {u \in 0 .. MaxClock : WindowOf(u) = w}
          OBVIOUS
        <4>3. clock \in S <=> w = v
          BY <1>3, <2>1, <4>2
        <4>4. Cardinality(AdmittedAt(S)') = Cardinality(AdmittedAt(S)) + (IF clock \in S THEN 1 ELSE 0)
          BY <3>2, <4>1, AdmittedOneMore
        <4>5. Cardinality(WindowHits(w)') = Cardinality(WindowHits(w)) + (IF w = v THEN 1 ELSE 0)
          BY <4>2, <4>3, <4>4 DEF WindowHits
        <4>6. CASE w = v
          <5>1. WindowOf(clock) <= w
            BY <1>3, <2>1, <4>6
          <5>2. Cardinality(WindowHits(w)') = Cardinality(WindowHits(w)) + 1 /\ Cardinality(WindowHits(w)) <= n
            BY <1>2, <2>1, <4>5, <4>6, <5>1
          <5>3. HitLimit \in Nat
            BY LimiterFacts
          <5> QED BY <1>2, <1>3, <2>1, <2>3, <3>2, <4>6, <5>2, <5>3
        <4>7. CASE w # v
          BY <1>2, <1>3, <2>1, <2>2, <2>3, <4>5, <4>7
        <4> QED BY <4>6, <4>7
      <3> QED BY <2>4, <3>1, <3>2
    <2>6. \A d \in Checkers : checks'[d].at \in {"idle", "expiring", "refused"}
      <3>1. PICK e : e = IF n > 0 /\ UnderLimit(n) THEN Idling
                         ELSE [Idling EXCEPT !.at = IF n = 0 THEN "expiring" ELSE "refused", !.now = clock, !.cost = 1]
        OBVIOUS
      <3>2. e.at \in {"idle", "expiring", "refused"}
        BY <3>1 DEF Idling
      <3>3. checks' = [checks EXCEPT ![c] = e]
        BY <1>5, <2>1, <3>1 DEF CheckFixed
      <3>4. \A d \in Checkers : checks[d].at \in {"idle", "expiring", "refused"}
        BY <1>2
      <3>5. checks \in [Checkers -> CheckType]
        BY DEF LimiterTyped
      <3>6. \A d \in Checkers : checks'[d] = IF d = c THEN e ELSE checks[d]
        BY <3>3, <3>5
      <3> QED BY <3>2, <3>4, <3>6
    <2> QED BY <2>5, <2>6 DEF FixedKept
  <1>6. ASSUME NEW c \in Checkers, CheckLog(c) \/ CountLog(c) \/ AddToLog(c) \/ PutBucket(c) \/ \E cost \in Costs : CheckBucket(c, cost)
        PROVE  FixedKept'
    <2>1. checks[c].at \notin {"counting", "adding", "putting"}
      BY <1>2
    <2> QED BY <1>6, <2>1 DEF CheckLog, CountLog, AddToLog, PutBucket, CheckBucket
  <1>7. ASSUME NEW c \in Checkers, Expire(c) PROVE FixedKept'
    <2>1. UNCHANGED <<clock, admitted>>
      BY <1>7 DEF Expire
    <2>2. PICK k \in CheckType : k = checks[c]
      BY DEF LimiterTyped
    <2>3. PICK v \in WindowsSeen : v = WindowOf(k.now)
      BY WindowFacts DEF CheckType
    <2>4. k.now \in 0 .. MaxClock /\ k.now <= clock /\ k.now \in Nat
      BY <2>2, LimiterFacts DEF LimiterTyped, CheckType
    <2>5. counters' = counters \/ counters' = [counters EXCEPT ![v].expires = Deadline(WindowTime)]
      BY <1>7, <2>2, <2>3 DEF Expire
    <2>6. \A w \in WindowsSeen : WindowHits(w)' = WindowHits(w) /\ counters'[w].n = counters[w].n
      <3>1. \A w \in WindowsSeen : WindowHits(w)' = WindowHits(w)
        BY <2>1 DEF WindowHits, AdmittedAt
      <3>2. \A w \in WindowsSeen : counters'[w].n = counters[w].n
        BY <2>5 DEF LimiterTyped
      <3> QED BY <3>1, <3>2
    <2>7. Deadline(WindowTime) <= MaxClock => (v + 1) * WindowTime <= Deadline(WindowTime)
      <3>1. PICK m \in Nat \ {0} : m = WindowTime
        BY LimiterFacts
      <3>2. v * m <= k.now /\ v \in Nat
        BY <2>3, <2>4, <3>1, WindowFacts
      <3>3. (v + 1) * m = v * m + m /\ v * m \in Nat
        BY <3>1, <3>2, SMTT(30)
      <3>4. (v + 1) * m <= clock + m
        BY <1>3, <2>4, <3>2, <3>3
      <3>5. Deadline(WindowTime) \in {clock + m, MaxClock + 1} /\ MaxClock \in Nat
        BY <3>1, LimiterFacts DEF Deadline, Never
      <3> QED BY <3>1, <3>4, <3>5
    <2>8. \A w \in WindowsSeen : counters'[w].expires = counters[w].expires \/ (w = v /\ counters'[w].expires = Deadline(WindowTime))
      BY <2>5 DEF LimiterTyped
    <2>9. \A w \in WindowsSeen : Kept(w)'
      BY <1>2, <2>1, <2>6, <2>7, <2>8
    <2>10. \A d \in Checkers : checks'[d].at \in {"idle", "expiring", "refused"}
      <3>1. PICK l : l = IF checks[c].at = "expiring" THEN Idling ELSE [checks[c] EXCEPT !.at = "refused"]
        OBVIOUS
      <3>2. l.at \in {"idle", "refused"}
        BY <3>1 DEF Idling, LimiterTyped, CheckType
      <3>3. checks' = [checks EXCEPT ![c] = l]
        BY <1>7, <3>1 DEF Expire
      <3>4. \A d \in Checkers : checks[d].at \in {"idle", "expiring", "refused"}
        BY <1>2
      <3>5. checks \in [Checkers -> CheckType]
        BY DEF LimiterTyped
      <3>6. \A d \in Checkers : checks'[d] = IF d = c THEN l ELSE checks[d]
        BY <3>3, <3>5
      <3> QED BY <3>2, <3>4, <3>6
    <2> QED BY <2>9, <2>10 DEF FixedKept
  <1>8. CASE Reset
    <2>0. PICK v \in WindowsSeen : v = WindowOf(clock)
      BY <1>3
    <2>1. PICK T : v = WindowOf(clock) /\ T = {h \in Range(admitted) : WindowOf(h.at) = v}
      BY <2>0
    <2>2. /\ counters' = [counters EXCEPT ![v] = NoCounter] /\ UNCHANGED <<clock, checks>>
          /\ admitted' = Without(admitted, T)
      BY <1>8, <2>1 DEF Reset
    <2>3. /\ counters'[v] = NoCounter /\ \A w \in WindowsSeen : w # v => counters'[w] = counters[w]
      BY <2>1, <2>2 DEF LimiterTyped
    <2>4. ASSUME NEW w \in WindowsSeen PROVE Kept(w)'
      <3>1. PICK S : S = {u \in 0 .. MaxClock : WindowOf(u) = w}
        OBVIOUS
      <3>2. /\ Cardinality(AdmittedAt(S)') \in Nat
            /\ Cardinality(AdmittedAt(S)') <= Cardinality(AdmittedAt(S))
            /\ (\A j \in 1 .. Len(admitted) : admitted[j].at \in S => admitted[j] \in T) => Cardinality(AdmittedAt(S)') = 0
        BY <2>2, AdmittedLess
      <3>3. WindowHits(w) = AdmittedAt(S) /\ WindowHits(w)' = AdmittedAt(S)'
        BY <3>1 DEF WindowHits
      <3>4. CASE w = v
        <4>1. \A j \in 1 .. Len(admitted) : admitted[j].at \in S => admitted[j] \in T
          <5>1. DOMAIN admitted = 1 .. Len(admitted)
            BY LimiterTypes
          <5> QED BY <2>1, <3>1, <3>4, <5>1 DEF Range
        <4>2. Cardinality(WindowHits(w)') = 0
          BY <3>2, <3>3, <4>1
        <4>3. counters'[w].n = 0 /\ counters'[w].expires = MaxClock + 1 /\ MaxClock \in Nat /\ HitLimit \in Nat
          BY <2>3, <3>4, LimiterFacts DEF NoCounter, Never
        <4> QED BY <4>2, <4>3
      <3>5. CASE w # v
        <4>1. counters'[w] = counters[w]
          BY <2>3, <3>5
        <4>2. HitLimit \in Nat
          BY LimiterFacts
        <4> QED BY <1>2, <1>3, <2>2, <3>2, <3>3, <4>1, <4>2
      <3> QED BY <3>4, <3>5
    <2> QED BY <1>2, <2>2, <2>4 DEF FixedKept
  <1>9. CASE Pass
    <2>1. /\ clock' = clock + 1 /\ clock' \in 0 .. MaxClock /\ UNCHANGED <<admitted, checks>>
          /\ counters' = [w \in WindowsSeen |-> KeptKey(counters[w], NoCounter)]
      BY <1>3, <1>9, LimiterFacts DEF Pass
    <2>2. ASSUME NEW w \in WindowsSeen PROVE Kept(w)'
      <3>1. WindowHits(w)' = WindowHits(w)
        BY <2>1 DEF WindowHits, AdmittedAt
      <3>2. counters'[w] = KeptKey(counters[w], NoCounter)
        BY <2>1
      <3>3. WindowOf(clock) <= WindowOf(clock') /\ WindowOf(clock) \in Nat /\ WindowOf(clock') \in Nat
        BY <1>3, <2>1, WindowFacts
      <3>4. counters[w].expires \in Nat /\ (w + 1) * WindowTime \in Nat /\ MaxClock \in Nat
        BY LimiterTypes, WindowFacts, LimiterFacts
      <3>5. CASE counters[w].expires <= clock'
        <4>1. counters[w].expires <= MaxClock
          BY <2>1, <3>4, <3>5
        <4>2. (w + 1) * WindowTime <= clock'
          <5>1. (w + 1) * WindowTime <= counters[w].expires
            BY <1>2, <4>1
          <5> QED BY <1>3, <2>1, <3>4, <3>5, <5>1
        <4>3. w < WindowOf(clock')
          BY <2>1, <4>2, WindowFacts
        <4>4. counters'[w].expires = MaxClock + 1
          BY <3>2, <3>5 DEF KeptKey, NoCounter, Never
        <4> QED BY <1>2, <1>3, <3>1, <3>3, <3>4, <4>3, <4>4
      <3>6. CASE ~(counters[w].expires <= clock')
        <4>1. counters'[w] = counters[w]
          BY <3>2, <3>6 DEF KeptKey
        <4>2. WindowOf(clock') <= w => WindowOf(clock) <= w
          BY <1>3, <3>3
        <4> QED BY <1>2, <3>1, <4>1, <4>2
      <3> QED BY <3>5, <3>6
    <2> QED BY <1>2, <2>1, <2>2 DEF FixedKept
  <1> QED BY <1>4, <1>5, <1>6, <1>7, <1>8, <1>9 DEF LimiterNext

-----------------------------------------------------------------------------
\* How a step changes the checks.
LEMMA CheckMoves ==
  ASSUME LimiterTyped, NEW c \in Checkers, NEW k, checks' = [checks EXCEPT ![c] = k]
  PROVE  checks'[c] = k /\ \A d \in Checkers : d # c => checks'[d] = checks[d]
  BY DEF LimiterTyped

\* Fewer admissions count, and their entries are still there.
LEMMA EnteredLess ==
  ASSUME NEW g, NEW R, NEW a, NEW H, Entered(g, R, a, H), NEW S \in SUBSET R, NEW G, \A j \in S : g[j] \in G
  PROVE  \E f : Entered(f, S, a, G)
  <1>1. PICK f : f = [j \in S |-> g[j]]
    OBVIOUS
  <1>2. f \in [S -> G] /\ \A j \in S : f[j] = g[j] /\ j \in R
    BY <1>1
  <1>3. Entered(f, S, a, G)
    BY <1>2 DEF Entered
  <1> QED BY <1>3

\* One admission more, with an entry of its own.
LEMMA EnteredOneMore ==
  ASSUME NEW g, NEW R, NEW a, NEW H, Entered(g, R, a, H), NEW n, n \notin R, NEW x, x \notin H,
         NEW b, \A j \in R : b[j] = a[j], b[n].at = x.at
  PROVE  \E f : Entered(f, R \cup {n}, b, H \cup {x})
  <1>1. PICK f : f = [j \in R \cup {n} |-> IF j = n THEN x ELSE g[j]]
    OBVIOUS
  <1>2. \A j \in R : f[j] = g[j] /\ f[j] \in H /\ j # n
    BY <1>1 DEF Entered
  <1>3. f[n] = x /\ f \in [R \cup {n} -> H \cup {x}]
    BY <1>1, <1>2
  <1>4. \A j \in R \cup {n} : f[j].at = b[j].at
    BY <1>2, <1>3 DEF Entered
  <1>5. \A i, j \in R \cup {n} : f[i] = f[j] => i = j
    BY <1>2, <1>3 DEF Entered
  <1>6. Entered(f, R \cup {n}, b, H \cup {x})
    BY <1>3, <1>4, <1>5 DEF Entered
  <1> QED BY <1>6

\* No step of the log breaks what is known of it.
LEMMA LogInductive ==
  ASSUME Racing \subseteq {"fixed"}, LimiterTyped, OneCheck, LogKept, [LimiterNext]_limiterVars
  PROVE  LogKept'
  <1>1. algorithm' = algorithm
    BY DEF LimiterNext, limiterVars, CheckFixed, CheckLog, CountLog, AddToLog, CheckBucket, PutBucket, Expire, Reset, Pass
  <1> SUFFICES ASSUME algorithm = "log"
               PROVE  LogState'
    BY <1>1 DEF LogKept
  <1>2. /\ \A c \in Checkers : LogStage(c)
        /\ IsFiniteSet(entries.hits) /\ \A h \in entries.hits : h.member < made
        /\ LogLimited /\ LogExpiry
    BY DEF LogKept, LogState
  <1>3. PICK g : Entered(g, Recent, admitted, entries.hits)
    BY DEF LogKept, LogState
  <1>4. /\ clock \in 0 .. MaxClock /\ clock \in Nat /\ MaxClock \in Nat /\ WindowTime \in Nat \ {0} /\ HitLimit \in Nat
        /\ made \in Nat /\ entries \in [hits : SUBSET [at : Nat, member : Nat], expires : Nat]
        /\ checks \in [Checkers -> CheckType]
    BY LimiterTypes, LimiterFacts DEF LimiterTyped
  <1>5. ASSUME UNCHANGED <<clock, admitted>>
        PROVE  Recent' = Recent /\ LogLimited'
    BY <1>2, <1>5 DEF Recent, AdmittedIn, AdmittedAt, LogLimited
  <1>6. CASE UNCHANGED limiterVars
    <2>1. Recent' = Recent /\ LogLimited' /\ UNCHANGED <<clock, admitted, entries, checks, made>>
      BY <1>5, <1>6 DEF limiterVars
    <2>2. LogExpiry' /\ \A c \in Checkers : LogStage(c)'
      BY <1>2, <2>1 DEF LogExpiry, LogStage
    <2> QED BY <1>2, <1>3, <2>1, <2>2 DEF LogState
  <1>7. ASSUME NEW c \in Checkers, CheckLog(c) PROVE LogState'
    <2>1. /\ entries' = [entries EXCEPT !.hits = {h \in @ : ~OutOfWindow(h.at, clock)}]
          /\ checks' = [checks EXCEPT ![c] = [at |-> "counting", now |-> clock, cost |-> 1, read |-> made]]
          /\ made' = made + 1 /\ UNCHANGED <<clock, admitted>>
          /\ Interrupts
      BY <1>7 DEF CheckLog, MayCheck
    <2>2. PICK k : k = [at |-> "counting", now |-> clock, cost |-> 1, read |-> made]
      OBVIOUS
    <2>3. /\ k.at = "counting" /\ k.read = made /\ checks' = [checks EXCEPT ![c] = k]
      BY <2>1, <2>2
    <2>4. checks'[c] = k /\ \A d \in Checkers : d # c => checks'[d] = checks[d]
      BY <2>3, CheckMoves
    <2>5. \A d \in Checkers : d # c => Resting(d)
      BY <2>1, AloneThen
    <2>6. /\ entries'.hits = {h \in entries.hits : ~OutOfWindow(h.at, clock)} /\ entries'.expires = entries.expires
      BY <1>4, <2>1
    <2>7. entries'.hits \subseteq entries.hits
      BY <2>6
    <2>8. IsFiniteSet(entries'.hits)
      BY <1>2, <2>7, FS_Subset
    <2>9. \A h \in entries'.hits : h.member < made /\ h.member < made' /\ h.member \in Nat
      BY <1>2, <1>4, <2>1, <2>7
    <2>10. \A d \in Checkers : LogStage(d)'
      <3>1. LogStage(c)'
        BY <1>4, <2>1, <2>3, <2>4, <2>9 DEF LogStage
      <3>2. \A d \in Checkers : d # c => LogStage(d)'
        BY <2>4, <2>5 DEF LogStage, Resting
      <3> QED BY <3>1, <3>2
    <2>11. LogExpiry'
      <3>1. \A d \in Checkers : checks[d].at # "expiring"
        BY <1>7, <2>5 DEF Resting, CheckLog, MayCheck
      <3> QED BY <1>2, <2>1, <2>6, <3>1 DEF LogExpiry
    <2>12. LogLimited' /\ Recent' = Recent
      BY <1>5, <2>1
    <2>13. \E f : Entered(f, Recent, admitted, entries'.hits)
      <3>1. ASSUME NEW j \in Recent PROVE g[j] \in entries'.hits
        <4>1. g[j] \in entries.hits /\ g[j].at = admitted[j].at /\ admitted[j].at \in clock - WindowTime + 1 .. clock
          BY <1>3, <3>1 DEF Entered, Recent, AdmittedIn, AdmittedAt
        <4>2. ~(g[j].at <= clock - WindowTime)
          BY <1>4, <4>1
        <4> QED BY <2>6, <4>1, <4>2 DEF OutOfWindow
      <3> QED BY <1>3, <3>1, EnteredLess
    <2> QED BY <2>1, <2>8, <2>9, <2>10, <2>11, <2>12, <2>13 DEF LogState
  <1>8. ASSUME NEW c \in Checkers, CountLog(c) PROVE LogState'
    <2>1. PICK s : s = IF UnderLimit(Cardinality(entries.hits)) THEN "adding" ELSE "refused"
      OBVIOUS
    <2>2. PICK k : k = [checks[c] EXCEPT !.at = s]
      OBVIOUS
    <2>3. k.at = s /\ k.read = checks[c].read
      BY <1>4, <2>2 DEF CheckType
    <2>4. checks[c].at = "counting" /\ checks' = [checks EXCEPT ![c] = k] /\ UNCHANGED <<clock, entries, admitted, made>>
      BY <1>8, <2>1, <2>2 DEF CountLog
    <2>5. checks'[c] = k /\ \A d \in Checkers : d # c => checks'[d] = checks[d]
      BY <2>4, CheckMoves
    <2>6. s \in {"adding", "refused"} /\ (s = "adding" => Cardinality(entries.hits) < HitLimit)
      BY <2>1 DEF UnderLimit
    <2>7. \A d \in Checkers : LogStage(d)'
      <3>1. LogStage(c)'
        BY <1>2, <2>3, <2>4, <2>5, <2>6 DEF LogStage
      <3>2. \A d \in Checkers : d # c => LogStage(d)'
        BY <1>2, <2>4, <2>5 DEF LogStage
      <3> QED BY <3>1, <3>2
    <2>8. \A d \in Checkers : d # c => Resting(d)
      BY <2>4, AloneThen DEF Resting
    <2>9. LogExpiry'
      <3>1. \A d \in Checkers : checks[d].at # "expiring"
        BY <2>4, <2>8 DEF Resting
      <3> QED BY <1>2, <2>4, <3>1 DEF LogExpiry
    <2> QED BY <1>2, <1>3, <1>5, <2>4, <2>7, <2>9 DEF LogState
  <1>9. ASSUME NEW c \in Checkers, AddToLog(c) PROVE LogState'
    <2>1. PICK x \in [at : Nat, member : Nat] : x = [at |-> checks[c].now, member |-> checks[c].read]
      <3>1. checks[c] \in CheckType /\ MaxClock \in Nat
        BY <1>4
      <3>2. checks[c].now \in Nat /\ checks[c].read \in Nat
        BY <3>1 DEF CheckType
      <3> QED BY <3>2
    <2>2. PICK k : k = [checks[c] EXCEPT !.at = "expiring"]
      OBVIOUS
    <2>3. /\ checks[c].at = "adding" /\ checks' = [checks EXCEPT ![c] = k] /\ k.at = "expiring"
          /\ entries' = [entries EXCEPT !.hits = @ \cup {x}]
          /\ admitted' = Append(admitted, Hit(checks[c].now, 1))
          /\ UNCHANGED <<clock, made>>
      BY <1>4, <1>9, <2>1, <2>2 DEF AddToLog, CheckType
    <2>4. checks'[c] = k /\ \A d \in Checkers : d # c => checks'[d] = checks[d]
      BY <2>3, CheckMoves
    <2>5. \A d \in Checkers : d # c => Resting(d)
      BY <2>3, AloneThen DEF Resting
    <2>6. checks[c].now = clock /\ x.at = clock /\ x.member = checks[c].read
      BY <2>1, <2>3 DEF OneCheck, Resting
    <2>7. entries'.hits = entries.hits \cup {x}
      BY <1>4, <2>3
    <2>8. /\ checks[c].read < made /\ \A h \in entries.hits : h.member < checks[c].read
          /\ Cardinality(entries.hits) < HitLimit
      BY <1>2, <2>3 DEF LogStage
    <2>9. x \notin entries.hits
      BY <1>4, <2>6, <2>8 DEF CheckType
    <2>10. IsFiniteSet(entries'.hits) /\ \A h \in entries'.hits : h.member < made'
      BY <1>2, <2>3, <2>6, <2>7, <2>8, FS_AddElement
    <2>11. \A d \in Checkers : LogStage(d)'
      <3>1. LogStage(c)'
        BY <2>3, <2>4, <2>7 DEF LogStage
      <3>2. \A d \in Checkers : d # c => LogStage(d)'
        BY <2>4, <2>5 DEF LogStage, Resting
      <3> QED BY <3>1, <3>2
    <2>12. LogExpiry'
      BY <2>3, <2>4 DEF LogExpiry
    <2>13. PICK h \in HitType : h = Hit(checks[c].now, 1)
      BY <1>4, <2>6 DEF Hit, HitType
    <2>14. h.at = clock /\ admitted' = Append(admitted, h)
      BY <2>3, <2>6, <2>13 DEF Hit
    <2>15. PICK n \in Nat : n = Len(admitted) + 1
      BY LimiterTypes
    <2>16. clock \in clock - WindowTime + 1 .. clock
      BY <1>4
    <2>17. Recent' = Recent \cup {n} /\ Cardinality(Recent') = Cardinality(Recent) + 1
      <3>1. PICK S : S = clock - WindowTime + 1 .. clock
        OBVIOUS
      <3>2. h.at \in S
        BY <2>14, <2>16, <3>1
      <3>3. /\ AdmittedAt(S)' = AdmittedAt(S) \cup {n}
            /\ Cardinality(AdmittedAt(S)') = Cardinality(AdmittedAt(S)) + 1
        BY <2>14, <2>15, <3>2, AdmittedOneMore
      <3>4. Recent = AdmittedAt(S) /\ Recent' = AdmittedAt(S)'
        BY <2>3, <3>1 DEF Recent, AdmittedIn
      <3> QED BY <3>3, <3>4
    <2>18. Cardinality(Recent) < HitLimit /\ Cardinality(Recent) \in Nat
      <3>1. g \in [Recent -> entries.hits] /\ \A i, j \in Recent : g[i] = g[j] => i = j
        BY <1>3 DEF Entered
      <3>2. IsFiniteSet(entries.hits)
        BY <1>2
      <3>3. PICK R, H : R = Recent /\ H = entries.hits
        OBVIOUS
      <3>4. IsFiniteSet(H) /\ g \in [R -> H] /\ \A i, j \in R : g[i] = g[j] => i = j
        BY <3>1, <3>2, <3>3
      <3>5. Cardinality(R) \in Nat /\ Cardinality(H) \in Nat /\ Cardinality(R) <= Cardinality(H)
        BY <3>4, InjectionCount
      <3> QED BY <1>4, <2>8, <3>3, <3>5
    <2>19. LogLimited'
      <3> SUFFICES ASSUME NEW t \in 0 .. clock PROVE Cardinality(AdmittedIn(t - WindowTime + 1, t)') <= HitLimit
        BY <2>3 DEF LogLimited, AdmittedIn
      <3>1. CASE t = clock
        <4>1. AdmittedIn(t - WindowTime + 1, t)' = Recent'
          BY <2>3, <3>1 DEF AdmittedIn, Recent
        <4>2. Cardinality(Recent') <= HitLimit
          BY <1>4, <2>17, <2>18
        <4> QED BY <4>1, <4>2
      <3>2. CASE t # clock
        <4>1. PICK S : S = t - WindowTime + 1 .. t
          OBVIOUS
        <4>2. h.at \notin S
          BY <1>4, <2>14, <3>2, <4>1
        <4>3. Cardinality(AdmittedAt(S)') = Cardinality(AdmittedAt(S)) + 0
          BY <2>14, <4>2, AdmittedOneMore
        <4>4. Cardinality(AdmittedAt(S)) <= HitLimit /\ Cardinality(AdmittedAt(S)) \in Nat
          BY <1>2, <4>1, AdmittedCounts DEF LogLimited, AdmittedIn
        <4> QED BY <4>1, <4>3, <4>4 DEF AdmittedIn
      <3> QED BY <3>1, <3>2
    <2>20. \E f : Entered(f, Recent', admitted', entries'.hits)
      <3>1. PICK a \in Seq(HitType), b \in Seq(HitType) : a = admitted /\ b = Append(a, h)
        BY LimiterTypes, OneMoreHit
      <3>2. /\ Len(a) \in Nat /\ \A j \in 1 .. Len(a) : b[j] = a[j]
            /\ b[Len(a) + 1] = h
        BY <3>1, OneMoreHit
      <3>3. PICK R, H : R = Recent /\ H = entries.hits
        OBVIOUS
      <3>4. R \subseteq 1 .. Len(a)
        BY <3>1, <3>3 DEF Recent, AdmittedIn, AdmittedAt
      <3>5. n \notin R /\ (\A j \in R : b[j] = a[j]) /\ b[n].at = x.at
        BY <2>6, <2>14, <2>15, <3>1, <3>2, <3>4
      <3>6. Entered(g, R, a, H) /\ x \notin H
        BY <1>3, <2>9, <3>1, <3>3
      <3>7. \E f : Entered(f, R \cup {n}, b, H \cup {x})
        BY <3>5, <3>6, EnteredOneMore
      <3> QED BY <2>7, <2>14, <2>17, <3>1, <3>3, <3>7
    <2> QED BY <2>10, <2>11, <2>12, <2>19, <2>20 DEF LogState
  <1>10. ASSUME NEW c \in Checkers, Expire(c) PROVE LogState'
    <2>1. checks[c].at = "expiring" /\ entries.hits # {}
      BY <1>2, <1>10 DEF Expire, LogStage
    <2>2. /\ entries' = [entries EXCEPT !.expires = Deadline(WindowTime)]
          /\ checks' = [checks EXCEPT ![c] = Idling] /\ UNCHANGED <<clock, admitted, made>>
      BY <1>10, <2>1 DEF Expire
    <2>3. checks'[c] = Idling /\ \A d \in Checkers : d # c => checks'[d] = checks[d]
      BY <2>2, CheckMoves
    <2>4. entries'.hits = entries.hits /\ entries'.expires = Deadline(WindowTime)
      BY <1>4, <2>2
    <2>5. \A d \in Checkers : LogStage(d)'
      <3>1. LogStage(c)'
        BY <2>3 DEF LogStage, Idling
      <3>2. \A d \in Checkers : d # c => LogStage(d)'
        BY <1>2, <2>2, <2>3, <2>4 DEF LogStage
      <3> QED BY <3>1, <3>2
    <2>6. LogExpiry'
      <3>1. Deadline(WindowTime) <= MaxClock => Deadline(WindowTime) = clock + WindowTime
        BY <1>4 DEF Deadline, Never
      <3>2. \A j \in 1 .. Len(admitted) : admitted[j].at \in Nat /\ admitted[j].at <= clock
        BY <1>4, LimiterTypes, SMTT(30) DEF LimiterTyped
      <3>3. \A j \in 1 .. Len(admitted) : admitted[j].at + WindowTime <= clock + WindowTime
        BY <1>4, <3>2
      <3> QED BY <2>2, <2>4, <3>1, <3>3, SMTT(20) DEF LogExpiry
    <2> QED BY <1>2, <1>3, <1>5, <2>2, <2>4, <2>5, <2>6 DEF LogState
  <1>11. ASSUME Reset PROVE LogState'
    <2>1. /\ entries' = EmptyLog /\ admitted' = <<>> /\ UNCHANGED <<clock, checks, made>> /\ Interrupts
      BY <1>11 DEF Reset
    <2>2. \A d \in Checkers : Resting(d)
      BY <2>1 DEF Interrupts
    <2>3. entries'.hits = {} /\ entries'.expires = MaxClock + 1
      BY <2>1 DEF EmptyLog, Never
    <2>4. \A S : AdmittedAt(S)' = {}
      <3>1. \A j \in 1 .. Len(<<>>) : FALSE
        OBVIOUS
      <3> QED BY <2>1, <3>1 DEF AdmittedAt
    <2>5. \A d \in Checkers : LogStage(d)'
      BY <2>1, <2>2 DEF LogStage, Resting
    <2>6. LogExpiry'
      BY <1>4, <2>3 DEF LogExpiry
    <2>7. LogLimited'
      <3> SUFFICES ASSUME NEW t \in 0 .. clock PROVE Cardinality(AdmittedIn(t - WindowTime + 1, t)') <= HitLimit
        BY <2>1 DEF LogLimited, AdmittedIn
      <3>1. PICK S : S = t - WindowTime + 1 .. t
        OBVIOUS
      <3>2. AdmittedIn(t - WindowTime + 1, t)' = AdmittedAt(S)'
        BY <3>1 DEF AdmittedIn
      <3>3. AdmittedIn(t - WindowTime + 1, t)' = {}
        BY <2>4, <3>2
      <3>4. Cardinality({}) = 0 /\ 0 <= HitLimit
        BY <1>4, FS_EmptySet
      <3> QED BY <3>3, <3>4
    <2>8. \E f : Entered(f, Recent', admitted', entries'.hits)
      <3>1. PICK S : S = clock - WindowTime + 1 .. clock
        OBVIOUS
      <3>2. Recent' = AdmittedAt(S)'
        BY <2>1, <3>1 DEF Recent, AdmittedIn
      <3>3. PICK f : f = [j \in {} |-> 0]
        OBVIOUS
      <3>4. Entered(f, {}, admitted', entries'.hits)
        BY <3>3 DEF Entered
      <3> QED BY <2>4, <3>2, <3>4
    <2>9. IsFiniteSet(entries'.hits) /\ \A h \in entries'.hits : h.member < made'
      BY <2>3, FS_EmptySet
    <2> QED BY <2>5, <2>6, <2>7, <2>8, <2>9 DEF LogState
  <1>12. ASSUME Pass PROVE LogState'
    <2>1. /\ clock' = clock + 1 /\ clock < MaxClock /\ Interrupts /\ UNCHANGED <<admitted, checks, made>>
          /\ entries' = KeptKey(entries, EmptyLog)
      BY <1>12 DEF Pass
    <2>2. \A d \in Checkers : Resting(d)
      BY <2>1 DEF Interrupts
    <2>3. \A d \in Checkers : LogStage(d)'
      BY <2>1, <2>2 DEF LogStage, Resting
    <2>4. \A j \in 1 .. Len(admitted) : admitted[j].at \in Nat /\ admitted[j].at <= clock
      <3>1. \A j \in 1 .. Len(admitted) : admitted[j].at \in 0 .. MaxClock
        BY LimiterTypes
      <3>2. \A j \in 1 .. Len(admitted) : admitted[j].at <= clock
        BY DEF LimiterTyped
      <3> QED BY <1>4, <3>1, <3>2
    <2>5. Recent' \in SUBSET Recent
      BY <1>4, <2>1, <2>4 DEF Recent, AdmittedIn, AdmittedAt
    <2>6. Cardinality(Recent) <= HitLimit
      BY <1>2, <1>4 DEF LogLimited, Recent
    <2>7. IsFiniteSet(Recent) /\ Cardinality(Recent) \in Nat
      BY AdmittedCounts DEF Recent, AdmittedIn
    <2>8. Cardinality(Recent') <= HitLimit
      <3>1. Cardinality(Recent') <= Cardinality(Recent) /\ IsFiniteSet(Recent')
        BY <2>5, <2>7, FS_Subset
      <3>2. Cardinality(Recent') \in Nat
        BY <3>1, FS_CardinalityType
      <3> QED BY <1>4, <2>6, <2>7, <3>1, <3>2
    <2>9. LogLimited'
      <3> SUFFICES ASSUME NEW t \in 0 .. clock' PROVE Cardinality(AdmittedIn(t - WindowTime + 1, t)') <= HitLimit
        BY DEF LogLimited, AdmittedIn
      <3>1. CASE t = clock'
        <4>1. AdmittedIn(t - WindowTime + 1, t)' = Recent'
          BY <3>1 DEF AdmittedIn, Recent
        <4> QED BY <2>8, <4>1
      <3>2. CASE t # clock'
        <4>1. t \in 0 .. clock
          BY <1>4, <2>1, <3>2
        <4>2. AdmittedIn(t - WindowTime + 1, t)' = AdmittedIn(t - WindowTime + 1, t)
          BY <2>1 DEF AdmittedIn, AdmittedAt
        <4> QED BY <1>2, <4>1, <4>2 DEF LogLimited
      <3> QED BY <3>1, <3>2
    <2>10. entries.expires \in Nat /\ \A d \in Checkers : checks[d].at # "expiring"
      BY <1>4, <2>2 DEF Resting
    <2>11. CASE entries.expires <= clock'
      <3>1. entries' = EmptyLog
        BY <2>1, <2>11 DEF KeptKey
      <3>2. entries'.hits = {} /\ entries'.expires = MaxClock + 1
        BY <3>1 DEF EmptyLog, Never
      <3>3. LogExpiry'
        BY <1>4, <3>2 DEF LogExpiry
      <3>4. Recent' = {}
        <4>1. \A j \in 1 .. Len(admitted) : admitted[j].at + WindowTime <= entries.expires
          BY <1>2, <1>4, <2>1, <2>10, <2>11 DEF LogExpiry
        <4>2. \A j \in 1 .. Len(admitted) : admitted[j].at \notin clock' - WindowTime + 1 .. clock'
          BY <1>4, <2>1, <2>4, <2>10, <2>11, <4>1
        <4> QED BY <2>1, <4>2 DEF Recent, AdmittedIn, AdmittedAt
      <3>5. \E f : Entered(f, Recent', admitted', entries'.hits)
        <4>1. PICK f : f = [j \in {} |-> 0]
          OBVIOUS
        <4>2. Entered(f, {}, admitted', entries'.hits)
          BY <4>1 DEF Entered
        <4> QED BY <3>4, <4>2
      <3>6. IsFiniteSet(entries'.hits) /\ \A h \in entries'.hits : h.member < made'
        BY <3>2, FS_EmptySet
      <3> QED BY <2>3, <2>9, <3>3, <3>5, <3>6 DEF LogState
    <2>12. CASE ~(entries.expires <= clock')
      <3>1. entries' = entries
        BY <2>1, <2>12 DEF KeptKey
      <3>2. LogExpiry'
        BY <1>2, <2>1, <3>1 DEF LogExpiry
      <3>3. \A j \in Recent' : g[j] \in entries.hits
        BY <1>3, <2>5 DEF Entered
      <3>4. \E f : Entered(f, Recent', admitted, entries.hits)
        BY <1>3, <2>5, <3>3, EnteredLess
      <3> QED BY <1>2, <2>1, <2>3, <2>9, <3>1, <3>2, <3>4 DEF LogState
    <2> QED BY <2>11, <2>12
  <1>13. ASSUME NEW c \in Checkers, CheckFixed(c) \/ PutBucket(c) \/ \E cost \in Costs : CheckBucket(c, cost)
         PROVE  LogState'
    <2>1. checks[c].at # "putting"
      BY <1>2 DEF LogStage
    <2> QED BY <1>13, <2>1 DEF CheckFixed, PutBucket, CheckBucket
  <1> QED BY <1>6, <1>7, <1>8, <1>9, <1>10, <1>11, <1>12, <1>13 DEF LimiterNext

-----------------------------------------------------------------------------
\* What is spent by the first admissions.
LEMMA SpentFacts ==
  ASSUME LimiterTyped
  PROVE  TokensSpent(0) = 0 /\ \A j \in 0 .. Len(admitted) : TokensSpent(j) \in Int
  <1>1. PICK s : s = [k \in 1 .. Len(admitted) |-> admitted[k].cost]
    OBVIOUS
  <1>2. Len(admitted) \in Nat /\ \A k \in 1 .. Len(admitted) : s[k] \in Int
    BY <1>1, LimiterTypes
  <1>3. SumUpTo(s, 0) = 0 /\ \A k \in 0 .. Len(admitted) : SumUpTo(s, k) \in Int
    BY <1>2, SumUpToProperties
  <1> QED BY <1>1, <1>3 DEF TokensSpent

\* The next admission adds its cost.
LEMMA SpentOneMore ==
  ASSUME LimiterTyped, NEW h \in HitType, admitted' = Append(admitted, h)
  PROVE  /\ Len(admitted') = Len(admitted) + 1 /\ admitted'[Len(admitted) + 1] = h
         /\ \A j \in 1 .. Len(admitted) : admitted'[j] = admitted[j]
         /\ \A j \in 0 .. Len(admitted) : TokensSpent(j)' = TokensSpent(j)
         /\ TokensSpent(Len(admitted))' = TokensSpent(Len(admitted)) + h.cost
  <1>1. PICK a \in Seq(HitType), b \in Seq(HitType) : a = admitted /\ b = Append(a, h)
    BY LimiterTypes, OneMoreHit
  <1>2. PICK n \in Nat : n = Len(a)
    BY <1>1, OneMoreHit
  <1>3. Len(b) = n + 1 /\ b[n + 1] = h /\ \A j \in 1 .. n : b[j] = a[j] /\ a[j] \in HitType
    BY <1>1, <1>2, OneMoreHit
  <1>4. PICK s : s = [k \in 1 .. n |-> a[k].cost]
    OBVIOUS
  <1>5. PICK r : r = [k \in 1 .. n + 1 |-> b[k].cost]
    OBVIOUS
  <1>6. \A k \in 1 .. n : k \in 1 .. n + 1 /\ s[k] \in Int /\ s[k] = r[k]
    BY <1>3, <1>4, <1>5 DEF HitType
  <1>7. n + 1 \in 1 .. n + 1 /\ r[n + 1] = h.cost /\ h.cost \in Int
    BY <1>3, <1>5 DEF HitType
  <1>8. \A k \in 1 .. n + 1 : k \in 1 .. n \/ k = n + 1
    OBVIOUS
  <1>9. \A k \in 1 .. n + 1 : r[k] \in Int
    BY <1>6, <1>7, <1>8
  <1>10. \A j \in 0 .. n : SumUpTo(s, j) = SumUpTo(r, j)
    <2> SUFFICES ASSUME NEW j \in 0 .. n PROVE SumUpTo(s, j) = SumUpTo(r, j)
      OBVIOUS
    <2>1. \A k \in 1 .. j : k \in 1 .. n
      OBVIOUS
    <2>2. j \in Nat /\ \A k \in 1 .. j : s[k] \in Int /\ s[k] = r[k]
      BY <1>6, <2>1
    <2> QED BY <2>2, SumUpToAgrees
  <1>11. SumUpTo(r, n + 1) = SumUpTo(r, n) + h.cost
    <2>1. \A k \in 1 .. n + 1 : SumUpTo(r, k) = SumUpTo(r, k - 1) + r[k]
      <3>1. PICK m \in Nat : m = n + 1
        OBVIOUS
      <3>2. \A k \in 1 .. m : r[k] \in Int
        BY <1>9, <3>1
      <3>3. \A k \in 1 .. m : SumUpTo(r, k) = SumUpTo(r, k - 1) + r[k]
        BY <3>2, SumUpToProperties
      <3> QED BY <3>1, <3>3
    <2>2. n + 1 - 1 = n
      OBVIOUS
    <2> QED BY <1>7, <2>1, <2>2
  <1>12. \A j : TokensSpent(j) = SumUpTo(s, j) /\ TokensSpent(j)' = SumUpTo(r, j)
    BY <1>1, <1>2, <1>3, <1>4, <1>5 DEF TokensSpent
  <1>13. n \in 0 .. n
    OBVIOUS
  <1>14. Len(admitted) = n /\ admitted' = b /\ \A j \in 1 .. n : b[j] = admitted[j]
    BY <1>1, <1>2, <1>3
  <1>15. \A j \in 0 .. n : TokensSpent(j)' = TokensSpent(j)
    BY <1>10, <1>12
  <1>16. TokensSpent(n + 1)' = TokensSpent(n) + h.cost
    BY <1>10, <1>11, <1>12, <1>13
  <1>17. Len(admitted') = Len(admitted) + 1 /\ admitted'[Len(admitted) + 1] = h
    BY <1>3, <1>14
  <1>18. \A j \in 1 .. Len(admitted) : admitted'[j] = admitted[j]
    BY <1>3, <1>14
  <1>19. \A j \in 0 .. Len(admitted) : TokensSpent(j)' = TokensSpent(j)
    BY <1>14, <1>15
  <1>20. TokensSpent(Len(admitted))' = TokensSpent(Len(admitted)) + h.cost
    <2>1. Len(admitted') = n + 1
      BY <1>3, <1>14
    <2> QED BY <1>14, <1>16, <2>1
  <1> QED BY <1>17, <1>18, <1>19, <1>20

\* A tick adds at most the refill of a tick, and the full time fills the bucket.
LEMMA RefillFacts ==
  ASSUME LimiterTyped
  PROVE  /\ Refilled(level, clock) \in 0 .. BucketSize
         /\ Refilled(level, clock + 1) \in 0 .. BucketSize
         /\ Refilled(level, clock + 1) <= Refilled(level, clock) + RefillRate
         /\ level.since >= 0 /\ level.since + FullTime <= clock + 1 => Refilled(level, clock + 1) = BucketSize
  <1>1. PICK r \in Nat \ {0}, b \in Nat \ {0}, f \in Nat : r = RefillRate /\ b = BucketSize /\ f = FullTime /\ b <= f * r
    BY LimiterFacts, FullTimeFacts
  <1>2. PICK t \in Nat, s \in Int, x \in 0 .. b :
          t = clock /\ s = level.since /\ x = level.tokens /\ s <= t /\ s >= -1
    <2>1. clock \in Nat /\ level.since \in -1 .. MaxClock /\ level.tokens \in 0 .. b /\ level.since <= clock
      BY <1>1, LimiterTypes DEF LimiterTyped
    <2>2. -1 .. MaxClock \subseteq Int /\ \A y \in -1 .. MaxClock : y >= -1
      BY LimiterFacts
    <2> QED BY <2>1, <2>2
  <1>3. PICK d \in Nat : d = t - s
    BY <1>2
  <1>4. PICK y \in Nat : y = d * r
    BY <1>1
  <1>5. (d + 1) * r = y + r
    BY <1>4, SMTT(30)
  <1>6. (t - s) * r = y /\ (t + 1 - s) * r = y + r
    BY <1>2, <1>3, <1>4, <1>5
  <1>7. /\ Refilled(level, clock) = (IF s = -1 \/ x + y > b THEN b ELSE x + y)
        /\ Refilled(level, clock + 1) = (IF s = -1 \/ x + (y + r) > b THEN b ELSE x + (y + r))
    BY <1>1, <1>2, <1>6 DEF Refilled
  <1>8. s >= 0 /\ s + f <= t + 1 => b <= y + r
    <2> SUFFICES ASSUME s + f <= t + 1 PROVE b <= y + r
      OBVIOUS
    <2>1. f <= d + 1
      BY <1>2, <1>3
    <2>2. f * r <= (d + 1) * r
      BY <2>1, ProductOrder
    <2>3. f * r \in Int
      BY ProductOrder
    <2> QED BY <1>1, <1>5, <2>2, <2>3
  <1> QED BY <1>1, <1>2, <1>7, <1>8

\* Time refills as much as it adds to the bound.
LEMMA RefillTime ==
  ASSUME NEW t \in Int, NEW u \in Int
  PROVE  /\ RefillRate * (t - u) \in Int
         /\ RefillRate * (t + 1 - u) = RefillRate * (t - u) + RefillRate
         /\ RefillRate * (t - t) = 0
  <1>1. PICK r \in Nat : r = RefillRate
    BY LimiterFacts
  <1>2. PICK d \in Int : d = t - u
    OBVIOUS
  <1>3. t + 1 - u = d + 1 /\ t - t = 0
    BY <1>2
  <1>4. r * d \in Int /\ r * (d + 1) = r * d + r /\ r * 0 = 0
    BY SMTT(30)
  <1> QED BY <1>1, <1>2, <1>3, <1>4

\* No step of the bucket breaks what is known of it.
LEMMA BucketInductive ==
  ASSUME Racing \subseteq {"fixed"}, LimiterTyped, OneCheck, BucketKept, [LimiterNext]_limiterVars
  PROVE  BucketKept'
  <1>1. algorithm' = algorithm
    BY DEF LimiterNext, limiterVars, CheckFixed, CheckLog, CountLog, AddToLog, CheckBucket, PutBucket, Expire, Reset, Pass
  <1> SUFFICES ASSUME algorithm = "bucket" PROVE BucketState'
    BY <1>1 DEF BucketKept
  <1>2. /\ \A c \in Checkers : BucketStage(c)
        /\ \A i \in 1 .. Len(admitted) : SpentFrom(i)
        /\ BucketExpiry
    BY DEF BucketKept, BucketState
  <1>3. /\ clock \in Nat /\ MaxClock \in Nat /\ BucketSize \in Nat /\ RefillRate \in Nat
        /\ level \in [tokens : 0 .. BucketSize, since : -1 .. MaxClock, expires : Nat]
        /\ checks \in [Checkers -> CheckType] /\ Len(admitted) \in Nat
    BY LimiterTypes, LimiterFacts DEF LimiterTyped
  <1>4. ASSUME UNCHANGED <<clock, admitted>>, Refilled(level, clock)' = Refilled(level, clock)
        PROVE  \A i \in 1 .. Len(admitted') : SpentFrom(i)'
    BY <1>2, <1>4 DEF SpentFrom, TokensSpent
  <1>5. CASE UNCHANGED limiterVars
    <2>1. UNCHANGED <<clock, admitted, level, checks>>
      BY <1>5 DEF limiterVars
    <2>2. Refilled(level, clock)' = Refilled(level, clock)
      BY <2>1 DEF Refilled
    <2>3. BucketExpiry' /\ \A c \in Checkers : BucketStage(c)'
      BY <1>2, <2>1, <2>2 DEF BucketExpiry, BucketStage
    <2> QED BY <1>4, <2>1, <2>2, <2>3 DEF BucketState
  <1>6. ASSUME NEW c \in Checkers, NEW cost \in Costs, CheckBucket(c, cost) PROVE BucketState'
    <2>1. PICK k : k = [at |-> "putting", now |-> clock, cost |-> cost, read |-> Refilled(level, clock)]
      OBVIOUS
    <2>2. /\ checks' = [checks EXCEPT ![c] = k] /\ k.at = "putting" /\ k.read = Refilled(level, clock)
          /\ Resting(c) /\ Interrupts /\ UNCHANGED <<clock, admitted, level>>
      BY <1>6, <2>1 DEF CheckBucket, MayCheck
    <2>3. checks'[c] = k /\ \A d \in Checkers : d # c => checks'[d] = checks[d]
      BY <2>2, CheckMoves
    <2>4. \A d \in Checkers : Resting(d)
      BY <2>2, AloneThen
    <2>5. Refilled(level, clock)' = Refilled(level, clock)
      BY <2>2 DEF Refilled
    <2>6. \A d \in Checkers : BucketStage(d)'
      <3>1. BucketStage(c)'
        BY <2>2, <2>3, <2>5 DEF BucketStage
      <3>2. \A d \in Checkers : d # c => BucketStage(d)'
        BY <2>3, <2>4 DEF BucketStage, Resting
      <3> QED BY <3>1, <3>2
    <2>7. BucketExpiry'
      <3>1. \A d \in Checkers : checks[d].at \notin {"expiring", "refusing"}
        BY <2>4 DEF Resting
      <3> QED BY <1>2, <2>2, <3>1 DEF BucketExpiry
    <2> QED BY <1>4, <2>2, <2>5, <2>6, <2>7 DEF BucketState
  <1>7. ASSUME NEW c \in Checkers, PutBucket(c) PROVE BucketState'
    <2>1. PICK k \in CheckType : k = checks[c]
      BY <1>3
    <2>2. k.at = "putting" /\ ~Resting(c)
      BY <1>7, <2>1 DEF PutBucket, Resting
    <2>3. k.now = clock /\ k.read = Refilled(level, clock) /\ k.read \in 0 .. BucketSize /\ k.cost \in Nat
      <3>1. k.now = clock
        BY <2>1, <2>2 DEF OneCheck
      <3>2. k.read = Refilled(level, clock)
        BY <1>2, <2>1, <2>2 DEF BucketStage
      <3> QED BY <3>1, <3>2, LimiterTypes DEF CheckType
    <2>4. \A d \in Checkers : d # c => Resting(d)
      BY <2>2, AloneThen
    <2>6. PICK x \in 0 .. BucketSize : x = IF k.read >= k.cost THEN k.read - k.cost ELSE k.read
      <3>1. PICK y \in Int, z \in Nat : y = k.read /\ z = k.cost /\ 0 <= y /\ y <= BucketSize
        <4>1. \A y \in 0 .. BucketSize : y \in Int /\ 0 <= y /\ y <= BucketSize
          BY <1>3
        <4> QED BY <2>3, <4>1
      <3>2. CASE y >= z
        <4>1. y - z \in 0 .. BucketSize
          BY <1>3, <3>1, <3>2
        <4> QED BY <3>1, <3>2, <4>1
      <3>3. CASE ~(y >= z)
        BY <2>3, <3>1, <3>3
      <3> QED BY <3>2, <3>3
    <2>7. PICK s \in {"expiring", "refusing"} : s = IF k.read >= k.cost THEN "expiring" ELSE "refusing"
      OBVIOUS
    <2>8. PICK l : l = [k EXCEPT !.at = s]
      OBVIOUS
    <2>9. /\ level' = [level EXCEPT !.tokens = x, !.since = clock]
          /\ admitted' = IF k.read >= k.cost THEN Append(admitted, Hit(clock, k.cost)) ELSE admitted
          /\ checks' = [checks EXCEPT ![c] = l]
          /\ UNCHANGED clock
      BY <1>7, <2>1, <2>3, <2>6, <2>7, <2>8 DEF PutBucket
    <2>10. l.at = s
      BY <2>8 DEF CheckType
    <2>11. checks'[c] = l /\ \A d \in Checkers : d # c => checks'[d] = checks[d]
      BY <2>9, CheckMoves
    <2>12. level'.tokens = x /\ level'.since = clock
      BY <1>3, <2>9
    <2>13. Refilled(level, clock)' = x
      <3>1. (clock - clock) * RefillRate = 0
        BY <1>3
      <3>2. Refilled(level, clock)' = IF clock = -1 \/ x + 0 > BucketSize THEN BucketSize ELSE x + 0
        BY <2>9, <2>12, <3>1 DEF Refilled
      <3> QED BY <1>3, <3>2
    <2>14. \A d \in Checkers : BucketStage(d)'
      <3>1. BucketStage(c)'
        BY <2>7, <2>9, <2>10, <2>11, <2>12 DEF BucketStage
      <3>2. \A d \in Checkers : d # c => BucketStage(d)'
        BY <2>4, <2>11 DEF BucketStage, Resting
      <3> QED BY <3>1, <3>2
    <2>15. BucketExpiry'
      BY <2>7, <2>10, <2>11 DEF BucketExpiry
    <2>16. CASE ~(k.read >= k.cost)
      <3>1. UNCHANGED <<clock, admitted>> /\ Refilled(level, clock)' = Refilled(level, clock)
        BY <2>3, <2>6, <2>9, <2>13, <2>16
      <3> QED BY <1>4, <2>14, <2>15, <3>1 DEF BucketState
    <2>17. CASE k.read >= k.cost
      <3>1. PICK h \in HitType : h = Hit(clock, k.cost)
        <4>1. clock \in 0 .. MaxClock /\ k.cost \in Nat
          BY <2>3, LimiterTypes
        <4>2. Hit(clock, k.cost) \in HitType
          BY <4>1 DEF Hit, HitType
        <4> QED BY <4>2
      <3>2. h.at = clock /\ h.cost = k.cost /\ admitted' = Append(admitted, h)
        BY <2>9, <2>17, <3>1 DEF Hit
      <3>3. PICK n \in Nat : n = Len(admitted)
        BY <1>3
      <3>4. /\ Len(admitted') = n + 1 /\ admitted'[n + 1] = h
            /\ \A j \in 1 .. n : admitted'[j] = admitted[j]
            /\ \A j \in 0 .. n : TokensSpent(j)' = TokensSpent(j) /\ TokensSpent(j) \in Int
            /\ TokensSpent(n + 1)' = TokensSpent(n) + k.cost
        <4>1. \A j \in 0 .. n : TokensSpent(j) \in Int
          BY <3>3, SpentFacts
        <4>2. /\ Len(admitted') = Len(admitted) + 1 /\ admitted'[Len(admitted) + 1] = h
              /\ \A j \in 1 .. Len(admitted) : admitted'[j] = admitted[j]
              /\ \A j \in 0 .. Len(admitted) : TokensSpent(j)' = TokensSpent(j)
              /\ TokensSpent(Len(admitted))' = TokensSpent(Len(admitted)) + h.cost
          BY <3>2, SpentOneMore
        <4>3. Len(admitted') = n + 1 /\ admitted'[n + 1] = h
          BY <3>3, <4>2
        <4>4. /\ \A j \in 1 .. n : admitted'[j] = admitted[j]
              /\ \A j \in 0 .. n : TokensSpent(j)' = TokensSpent(j)
          BY <3>3, <4>2
        <4>5. TokensSpent(n + 1)' = TokensSpent(n) + k.cost
          BY <3>2, <3>3, <4>2, <4>3
        <4> QED BY <4>1, <4>3, <4>4, <4>5
      <3>5. ASSUME NEW i \in 1 .. n + 1 PROVE SpentFrom(i)'
        <4>1. CASE i \in 1 .. n
          <5>1. PICK u \in Int : u = admitted[i].at
            <6>1. admitted[i].at \in 0 .. MaxClock
              BY <3>3, <4>1, LimiterTypes
            <6> QED BY <1>3, <6>1
          <5>2. PICK z \in Int : z = RefillRate * (clock - u)
            BY <1>3, RefillTime
          <5>3. PICK v \in Int, w \in Int : v = TokensSpent(n) /\ w = TokensSpent(i - 1) /\ TokensSpent(i - 1)' = w
            <6>1. i - 1 \in 0 .. n /\ n \in 0 .. n
              BY <4>1
            <6> QED BY <3>4, <6>1
          <5>4. v - w + k.read <= BucketSize + z
            BY <1>2, <2>3, <3>3, <4>1, <5>1, <5>2, <5>3 DEF SpentFrom
          <5>5. x = k.read - k.cost /\ x >= 0 /\ k.read \in Int /\ k.cost \in Int
            BY <1>3, <2>3, <2>6, <2>17
          <5>6. PICK q \in Int : q = TokensSpent(n + 1)' /\ q = v + k.cost
            BY <3>4, <5>3, <5>5
          <5>7. q - w + x <= BucketSize + z /\ q - w <= BucketSize + z
            <6>1. PICK b \in Int, y \in Int, e \in Int : b = BucketSize /\ y = k.read /\ e = k.cost
              BY <1>3, <5>5
            <6>2. q = v + e /\ x = y - e /\ x >= 0 /\ v - w + y <= b + z
              BY <5>4, <5>5, <5>6, <6>1
            <6>3. x \in Int
              BY <6>1, <6>2
            <6>4. q - w + x <= b + z /\ q - w <= b + z
              BY <6>2, <6>3
            <6> QED BY <6>1, <6>4
          <5>8. TokensSpent(n + 1)' - w + x <= BucketSize + z
            BY <5>6, <5>7
          <5>9. TokensSpent(n + 1)' - w <= BucketSize + z
            BY <5>6, <5>7
          <5>10. admitted'[i].at = u /\ admitted'[n + 1].at = clock
            BY <3>2, <3>4, <4>1, <5>1
          <5>11. \A j \in i .. n : TokensSpent(j)' - w <= BucketSize + RefillRate * (admitted'[j].at - u)
            <6> SUFFICES ASSUME NEW j \in i .. n PROVE TokensSpent(j)' - w <= BucketSize + RefillRate * (admitted'[j].at - u)
              OBVIOUS
            <6>1. j \in 1 .. n /\ j \in 0 .. n
              BY <4>1
            <6>2. TokensSpent(j) - w <= BucketSize + RefillRate * (admitted[j].at - u)
              BY <1>2, <3>3, <4>1, <5>1, <5>3 DEF SpentFrom
            <6> QED BY <3>4, <6>1, <6>2
          <5>12. \A j \in i .. n + 1 : TokensSpent(j)' - w <= BucketSize + RefillRate * (admitted'[j].at - u)
            <6>1. \A j \in i .. n + 1 : j \in i .. n \/ j = n + 1
              BY <4>1
            <6> QED BY <5>2, <5>9, <5>10, <5>11, <6>1
          <5> QED BY <2>9, <2>13, <3>4, <5>2, <5>3, <5>8, <5>10, <5>12 DEF SpentFrom
        <4>2. CASE i = n + 1
          <5>1. i - 1 = n /\ n \in 0 .. n
            BY <4>2
          <5>2. PICK v \in Int : v = TokensSpent(n) /\ TokensSpent(i - 1)' = v /\ TokensSpent(n + 1)' = v + k.cost
            BY <3>4, <5>1
          <5>3. admitted'[i].at = clock /\ RefillRate * (clock - clock) = 0
            BY <1>3, <3>2, <3>4, <4>2, RefillTime
          <5>4. x = k.read - k.cost /\ k.read \in 0 .. BucketSize /\ k.cost \in Nat /\ x >= 0
            BY <2>3, <2>6, <2>17
          <5>5. PICK b \in Int, y \in Int, e \in Int, zero \in Int :
                   b = BucketSize /\ y = k.read /\ e = k.cost /\ zero = RefillRate * (clock - clock)
            BY <1>3, <5>3, <5>4
          <5>6. y <= b /\ e >= 0 /\ x = y - e /\ x >= 0 /\ zero = 0
            BY <1>3, <5>3, <5>4, <5>5
          <5>7. v + e - v + x <= b + zero /\ v + e - v <= b + zero
            BY <5>6
          <5>8. \A j \in i .. n + 1 : j = n + 1
            BY <4>2
          <5>9. TokensSpent(n + 1)' - TokensSpent(i - 1)' + Refilled(level, clock)' <= BucketSize + RefillRate * (clock - clock)
            BY <2>13, <5>2, <5>7, <5>5
          <5>10. TokensSpent(n + 1)' - TokensSpent(i - 1)' <= BucketSize + RefillRate * (clock - clock)
            BY <5>2, <5>7, <5>5
          <5>11. admitted'[i].at = clock /\ admitted'[n + 1].at = clock
            BY <4>2, <5>3
          <5>12. \A j \in i .. n + 1 :
                   TokensSpent(j)' - TokensSpent(i - 1)' <= BucketSize + RefillRate * (admitted'[j].at - clock)
            BY <5>8, <5>10, <5>11
          <5> QED BY <2>9, <3>4, <5>9, <5>11, <5>12 DEF SpentFrom
        <4> QED BY <4>1, <4>2
      <3> QED BY <2>14, <2>15, <3>4, <3>5 DEF BucketState
    <2> QED BY <2>16, <2>17
  <1>8. ASSUME NEW c \in Checkers, Expire(c) PROVE BucketState'
    <2>1. level.since = clock /\ checks[c].at \in {"expiring", "refusing"}
      BY <1>2, <1>8 DEF BucketStage, Expire
    <2>2. PICK k : k = IF checks[c].at = "expiring" THEN Idling ELSE [checks[c] EXCEPT !.at = "refused"]
      OBVIOUS
    <2>3. k.at \in {"idle", "refused"}
      BY <1>3, <2>2 DEF Idling, CheckType
    <2>4. /\ checks' = [checks EXCEPT ![c] = k] /\ UNCHANGED <<clock, admitted>>
          /\ level' = [level EXCEPT !.expires = Deadline(2 * FullTime)]
      BY <1>3, <1>8, <2>1, <2>2 DEF Expire
    <2>5. checks'[c] = k /\ \A d \in Checkers : d # c => checks'[d] = checks[d]
      BY <2>4, CheckMoves
    <2>6. level'.tokens = level.tokens /\ level'.since = level.since /\ level'.expires = Deadline(2 * FullTime)
      BY <1>3, <2>4
    <2>7. Refilled(level, clock)' = Refilled(level, clock)
      BY <2>4, <2>6 DEF Refilled
    <2>8. \A d \in Checkers : BucketStage(d)'
      <3>1. BucketStage(c)'
        BY <2>3, <2>5 DEF BucketStage
      <3>2. \A d \in Checkers : d # c => BucketStage(d)'
        BY <1>2, <2>4, <2>5, <2>6, <2>7 DEF BucketStage
      <3> QED BY <3>1, <3>2
    <2>9. BucketExpiry'
      <3>1. PICK f \in Nat : f = FullTime
        BY FullTimeFacts
      <3>2. Deadline(2 * f) <= MaxClock => Deadline(2 * f) = clock + 2 * f
        BY <1>3 DEF Deadline, Never
      <3> QED BY <1>3, <2>1, <2>6, <3>1, <3>2 DEF BucketExpiry
    <2> QED BY <1>4, <2>4, <2>7, <2>8, <2>9 DEF BucketState
  <1>9. ASSUME Reset PROVE BucketState'
    <2>1. /\ level' = NoLevel /\ admitted' = <<>> /\ UNCHANGED <<clock, checks>> /\ Interrupts
      BY <1>9 DEF Reset
    <2>2. \A d \in Checkers : Resting(d)
      BY <2>1 DEF Interrupts
    <2>3. \A d \in Checkers : BucketStage(d)'
      BY <2>1, <2>2 DEF BucketStage, Resting
    <2>4. BucketExpiry'
      BY <1>3, <2>1 DEF BucketExpiry, NoLevel, Never
    <2>5. \A i \in 1 .. Len(admitted') : FALSE
      BY <2>1
    <2> QED BY <2>3, <2>4, <2>5 DEF BucketState
  <1>10. ASSUME Pass PROVE BucketState'
    <2>1. /\ clock' = clock + 1 /\ clock < MaxClock /\ Interrupts /\ UNCHANGED <<admitted, checks>>
          /\ level' = KeptKey(level, NoLevel)
      BY <1>10 DEF Pass
    <2>2. \A d \in Checkers : Resting(d)
      BY <2>1 DEF Interrupts
    <2>3. \A d \in Checkers : BucketStage(d)'
      BY <2>1, <2>2 DEF BucketStage, Resting
    <2>4. BucketExpiry'
      <3>1. CASE level' = level
        BY <1>2, <2>1, <3>1 DEF BucketExpiry
      <3>2. CASE level' = NoLevel
        BY <1>3, <3>2 DEF BucketExpiry, NoLevel, Never
      <3> QED BY <2>1, <3>1, <3>2 DEF KeptKey
    <2>5. PICK x \in Int, y \in Int : x = Refilled(level, clock) /\ y = Refilled(level, clock)' /\ y <= x + RefillRate
      <3>1. /\ Refilled(level, clock) \in 0 .. BucketSize
            /\ Refilled(level, clock + 1) \in 0 .. BucketSize
            /\ Refilled(level, clock + 1) <= Refilled(level, clock) + RefillRate
            /\ level.since >= 0 /\ level.since + FullTime <= clock + 1 => Refilled(level, clock + 1) = BucketSize
        BY RefillFacts
      <3>2. CASE level.expires <= clock'
        <4>1. Refilled(level, clock)' = BucketSize
          BY <2>1, <3>2 DEF KeptKey, NoLevel, Refilled
        <4>2. level.expires <= MaxClock /\ level.expires \in Nat
          BY <1>3, <2>1, <3>2
        <4>3. level.since >= 0 /\ level.since + FullTime <= level.expires
          BY <1>2, <2>2, <4>2 DEF BucketExpiry, Resting
        <4>4. level.since + FullTime <= clock + 1
          <5>1. level.since \in Int /\ FullTime \in Nat
            BY LimiterTypes, FullTimeFacts
          <5> QED BY <1>3, <2>1, <3>2, <4>2, <4>3, <5>1
        <4>5. Refilled(level, clock + 1) = BucketSize
          BY <3>1, <4>3, <4>4
        <4> QED BY <1>3, <3>1, <4>1, <4>5
      <3>3. CASE ~(level.expires <= clock')
        <4>1. level' = level
          BY <2>1, <3>3 DEF KeptKey
        <4>2. Refilled(level, clock)' = Refilled(level, clock + 1)
          BY <2>1, <4>1 DEF Refilled
        <4> QED BY <1>3, <3>1, <4>2
      <3> QED BY <3>2, <3>3
    <2>6. ASSUME NEW i \in 1 .. Len(admitted) PROVE SpentFrom(i)'
      <3>1. PICK n \in Nat : n = Len(admitted)
        BY <1>3
      <3>2. PICK u \in Int : u = admitted[i].at
        <4>1. admitted[i].at \in 0 .. MaxClock
          BY LimiterTypes
        <4> QED BY <1>3, <4>1
      <3>3. PICK z \in Int : z = RefillRate * (clock - u) /\ RefillRate * (clock + 1 - u) = z + RefillRate
        BY <1>3, RefillTime
      <3>4. \A j : TokensSpent(j)' = TokensSpent(j)
        BY <2>1 DEF TokensSpent
      <3>5. PICK v \in Int, w \in Int : v = TokensSpent(n) /\ w = TokensSpent(i - 1)
        <4>1. i - 1 \in 0 .. n /\ n \in 0 .. n
          BY <3>1
        <4> QED BY <3>1, <4>1, SpentFacts
      <3>6. v - w + x <= BucketSize + z
        BY <1>2, <2>5, <3>1, <3>2, <3>3, <3>5 DEF SpentFrom
      <3>7. v - w + y <= BucketSize + (z + RefillRate)
        <4>1. PICK b \in Int, r \in Int : b = BucketSize /\ r = RefillRate
          BY <1>3
        <4>2. y <= x + r /\ v - w + x <= b + z
          BY <2>5, <3>6, <4>1
        <4>3. v - w + y <= b + (z + r)
          BY <4>2
        <4> QED BY <4>1, <4>3
      <3>8. \A j \in i .. n : TokensSpent(j) - w <= BucketSize + RefillRate * (admitted[j].at - u)
        BY <1>2, <3>1, <3>2, <3>5 DEF SpentFrom
      <3>9. TokensSpent(n)' = v /\ TokensSpent(i - 1)' = w
        BY <3>4, <3>5
      <3>10. TokensSpent(n)' - TokensSpent(i - 1)' + Refilled(level, clock)' <= BucketSize + RefillRate * (clock' - u)
        <4>1. RefillRate * (clock' - u) = z + RefillRate
          BY <1>3, <2>1, <3>3
        <4>2. v - w + Refilled(level, clock)' <= BucketSize + RefillRate * (clock' - u)
          BY <2>5, <3>7, <4>1
        <4> QED BY <3>9, <4>2
      <3>11. \A j \in i .. n : TokensSpent(j)' - TokensSpent(i - 1)' <= BucketSize + RefillRate * (admitted[j].at - u)
        BY <3>4, <3>8, <3>9
      <3> QED BY <2>1, <3>1, <3>2, <3>10, <3>11 DEF SpentFrom
    <2> QED BY <2>1, <2>3, <2>4, <2>6 DEF BucketState
  <1>11. ASSUME NEW c \in Checkers, CheckFixed(c) \/ CheckLog(c) \/ CountLog(c) \/ AddToLog(c) PROVE BucketState'
    <2>1. checks[c].at \notin {"counting", "adding"}
      BY <1>2 DEF BucketStage
    <2> QED BY <1>11, <2>1 DEF CheckFixed, CheckLog, CountLog, AddToLog
  <1> QED BY <1>5, <1>6, <1>7, <1>8, <1>9, <1>10, <1>11 DEF LimiterNext

-----------------------------------------------------------------------------
\* The invariant holds before the first check.
LEMMA LimiterStarts == LimiterInit => LimiterIInv
  <1> SUFFICES ASSUME LimiterInit PROVE LimiterIInv
    OBVIOUS
  <1>1. /\ MaxClock \in Nat /\ Never \in Nat /\ BucketSize \in Nat /\ HitLimit \in Nat
        /\ Never = MaxClock + 1
    BY LimiterFacts DEF Never
  <1>2. /\ algorithm \in Algorithms /\ clock = 0 /\ counters = [w \in WindowsSeen |-> NoCounter]
        /\ entries = EmptyLog /\ level = NoLevel /\ checks = [c \in Checkers |-> Idling]
        /\ admitted = <<>> /\ made = 0 /\ resets = 0
    BY DEF LimiterInit
  <1>3. Len(admitted) = 0 /\ \A j \in 1 .. Len(admitted) : FALSE
    BY <1>2
  <1>4. \A c \in Checkers : checks[c] = Idling
    BY <1>2
  <1>5. \A times : AdmittedAt(times) = {}
    BY <1>3 DEF AdmittedAt
  <1>6. Cardinality({}) = 0 /\ 0 <= HitLimit /\ IsFiniteSet({})
    BY <1>1, FS_EmptySet
  <1>7. LimiterTyped
    <2>1. NoCounter \in [n : Nat, expires : Nat] /\ EmptyLog \in [hits : SUBSET [at : Nat, member : Nat], expires : Nat]
      BY <1>1 DEF NoCounter, EmptyLog
    <2>2. NoLevel \in [tokens : 0 .. BucketSize, since : -1 .. MaxClock, expires : Nat] /\ NoLevel.since <= 0
      BY <1>1 DEF NoLevel
    <2>3. Idling \in CheckType /\ Idling.now = 0 /\ Idling.at = "idle"
      BY <1>1 DEF Idling, CheckType, CheckStages
    <2>4. /\ algorithm \in Algorithms /\ clock \in 0 .. MaxClock /\ made \in Nat /\ resets \in Nat
          /\ admitted \in Seq([at : 0 .. MaxClock, cost : Nat])
      BY <1>1, <1>2
    <2>5. /\ counters \in [WindowsSeen -> [n : Nat, expires : Nat]]
          /\ entries \in [hits : SUBSET [at : Nat, member : Nat], expires : Nat]
          /\ level \in [tokens : 0 .. BucketSize, since : -1 .. MaxClock, expires : Nat] /\ level.since <= clock
      BY <1>2, <2>1, <2>2
    <2>6. checks \in [Checkers -> CheckType]
      BY <1>2, <2>3
    <2>7. \A c \in Checkers : checks[c].now <= clock /\ (checks[c].at = "putting" => checks[c].read <= BucketSize)
      BY <1>2, <1>4, <2>3
    <2> QED BY <1>3, <2>4, <2>5, <2>6, <2>7 DEF LimiterTyped
  <1>8. OneCheck
    BY <1>4 DEF OneCheck, Resting, Idling
  <1>9. FixedKept
    <2>1. \A c \in Checkers : checks[c].at \in {"idle", "expiring", "refused"}
      BY <1>4 DEF Idling
    <2>2. \A w \in WindowsSeen : counters[w].n = 0 /\ ~(counters[w].expires <= MaxClock)
      BY <1>1, <1>2 DEF NoCounter
    <2>3. \A w \in WindowsSeen : WindowHits(w) = {}
      BY <1>5 DEF WindowHits
    <2>4. \A w \in WindowsSeen : Cardinality(WindowHits(w)) = 0
      BY ONLY <1>6, <2>3
    <2>5. \A w \in WindowsSeen :
            /\ Cardinality(WindowHits(w)) <= HitLimit
            /\ Cardinality(WindowHits(w)) <= counters[w].n
            /\ ~(counters[w].expires <= MaxClock)
      <3> SUFFICES ASSUME NEW w \in WindowsSeen
                   PROVE  /\ Cardinality(WindowHits(w)) <= HitLimit
                          /\ Cardinality(WindowHits(w)) <= counters[w].n
                          /\ ~(counters[w].expires <= MaxClock)
        OBVIOUS
      <3>1. Cardinality(WindowHits(w)) = 0 /\ counters[w].n = 0 /\ ~(counters[w].expires <= MaxClock)
        BY <2>2, <2>4
      <3>2. 0 <= counters[w].n
        BY <3>1
      <3> QED BY ONLY <1>6, <3>1, <3>2
    <2> QED BY ONLY <2>1, <2>5 DEF FixedKept
  <1>10. LogKept
    <2>1. entries.hits = {} /\ ~(entries.expires <= MaxClock)
      BY <1>1, <1>2 DEF EmptyLog
    <2>2. \A c \in Checkers : LogStage(c)
      BY <1>4 DEF LogStage, Idling
    <2>3. LogLimited
      BY <1>5, <1>6 DEF LogLimited, AdmittedIn
    <2>4. LogExpiry
      BY <2>1 DEF LogExpiry
    <2>5. \E g : Entered(g, Recent, admitted, entries.hits)
      <3>1. PICK g : g = [j \in {} |-> 0]
        OBVIOUS
      <3>2. Entered(g, {}, admitted, entries.hits)
        BY <3>1 DEF Entered
      <3> QED BY <1>5, <3>2 DEF Recent, AdmittedIn
    <2> QED BY <1>6, <2>1, <2>2, <2>3, <2>4, <2>5 DEF LogKept, LogState
  <1>11. BucketKept
    <2>1. \A c \in Checkers : BucketStage(c)
      BY <1>4 DEF BucketStage, Idling
    <2>2. ~(level.expires <= MaxClock)
      BY <1>1, <1>2 DEF NoLevel
    <2> QED BY <1>3, <2>1, <2>2 DEF BucketKept, BucketState, BucketExpiry
  <1> QED BY <1>7, <1>8, <1>9, <1>10, <1>11 DEF LimiterIInv

\* No step breaks it, unless a check of the log or of the bucket is interrupted.
LEMMA LimiterInductive ==
  ASSUME Racing \subseteq {"fixed"}, LimiterIInv, [LimiterNext]_limiterVars
  PROVE  LimiterIInv'
  BY LimiterTypeInductive, OneCheckInductive, FixedInductive, LogInductive, BucketInductive DEF LimiterIInv

\* What is counted, entered or spent bounds what is admitted.
LEMMA LimiterIsSafe ==
  ASSUME LimiterIInv
  PROVE  WithinLimit
  <1> DEFINE Hits(times) == Cardinality({j \in DOMAIN admitted : admitted[j].at \in times})
             SpentBy(k) == SumUpTo([j \in DOMAIN admitted |-> admitted[j].cost], k)
             From(k) == admitted[k].at
  <1>1. LimiterTyped
    BY DEF LimiterIInv
  <1>2. DOMAIN admitted = 1 .. Len(admitted) /\ algorithm \in {"fixed", "log", "bucket"}
    BY <1>1, LimiterFacts DEF LimiterTyped
  <1>3. \A times : Hits(times) = Cardinality(AdmittedAt(times))
    BY <1>2 DEF AdmittedAt
  <1>4. \A k : SpentBy(k) = TokensSpent(k)
    BY <1>2 DEF TokensSpent
  <1>5. HitLimit \in Nat /\ MaxClock \in Nat /\ \A times : Cardinality(AdmittedAt(times)) \in Nat
    BY <1>1, LimiterFacts, AdmittedCounts
  <1>6. \A i \in 1 .. Len(admitted) : From(i) \in 0 .. MaxClock /\ From(i) <= clock /\ clock \in 0 .. MaxClock
    BY <1>1, LimiterTypes DEF LimiterTyped
  <1>7. ASSUME NEW i \in 1 .. Len(admitted), algorithm = "fixed"
        PROVE  ~(Hits({t \in 0 .. MaxClock : WindowOf(t) = WindowOf(From(i))}) > HitLimit)
    <2>1. PICK w \in WindowsSeen : w = WindowOf(From(i))
      BY <1>6, WindowFacts
    <2>2. Cardinality(WindowHits(w)) <= HitLimit
      BY <1>7, <2>1 DEF LimiterIInv, FixedKept
    <2>3. Cardinality(AdmittedAt({t \in 0 .. MaxClock : WindowOf(t) = w})) <= HitLimit
      BY <2>2 DEF WindowHits
    <2>4. Cardinality(AdmittedAt({t \in 0 .. MaxClock : WindowOf(t) = WindowOf(From(i))})) <= HitLimit
      BY <2>1, <2>3
    <2> QED BY <1>3, <1>5, <2>4
  <1>8. ASSUME NEW i \in 1 .. Len(admitted), algorithm = "log"
        PROVE  ~(Hits(From(i) - WindowTime + 1 .. From(i)) > HitLimit)
    <2>1. PICK t : t = From(i)
      OBVIOUS
    <2>2. t \in 0 .. clock
      BY <1>5, <1>6, <2>1
    <2>3. Cardinality(AdmittedIn(t - WindowTime + 1, t)) <= HitLimit
      BY <1>8, <2>2 DEF LimiterIInv, LogKept, LogState, LogLimited
    <2>4. Hits(t - WindowTime + 1 .. t) <= HitLimit /\ Hits(t - WindowTime + 1 .. t) \in Nat
      BY <1>3, <1>5, <2>3 DEF AdmittedIn
    <2> QED BY <1>5, <2>1, <2>4
  <1>9. ASSUME NEW i \in 1 .. Len(admitted), NEW j \in i .. Len(admitted), algorithm = "bucket"
        PROVE  ~(SpentBy(j) - SpentBy(i - 1) > BucketSize + RefillRate * (From(j) - From(i)))
    <2>1. TokensSpent(j) - TokensSpent(i - 1) <= BucketSize + RefillRate * (admitted[j].at - admitted[i].at)
      BY <1>9 DEF LimiterIInv, BucketKept, BucketState, SpentFrom
    <2>2. PICK v \in Int, w \in Int, z \in Int, b \in Int :
            v = TokensSpent(j) /\ w = TokensSpent(i - 1) /\ b = BucketSize /\ z = RefillRate * (From(j) - From(i))
      <3>1. i - 1 \in 0 .. Len(admitted) /\ j \in 0 .. Len(admitted) /\ j \in 1 .. Len(admitted)
        BY <1>1, LimiterTypes
      <3>2. TokensSpent(j) \in Int /\ TokensSpent(i - 1) \in Int
        BY <1>1, <3>1, SpentFacts
      <3>3. From(j) \in Int /\ From(i) \in Int
        BY <1>5, <1>6, <3>1
      <3>4. RefillRate * (From(j) - From(i)) \in Int
        BY <3>3, RefillTime
      <3> QED BY <3>2, <3>4, LimiterFacts
    <2>3. ~(v - w > b + z)
      BY <2>1, <2>2
    <2> QED BY <1>4, <2>2, <2>3
  <1>10. ~OverLimit(admitted)
    BY <1>2, <1>7, <1>8, <1>9 DEF OverLimit
  <1> QED BY <1>10 DEF WithinLimit

\* No identifier gets more than its limit: at most HitLimit checks in a fixed
\* window or in any window of the log, and never more tokens than the bucket
\* held and got.  Checks of the fixed window may interleave in any way, for its
\* incr both counts and answers; the log and the bucket read, decide and write in
\* commands of their own, and keep the limit only while nothing runs between them.
THEOREM KeepsWithinLimit ==
  ASSUME Racing \subseteq {"fixed"}
  PROVE  LimiterSpec => []WithinLimit
  <1>1. LimiterIInv /\ [LimiterNext]_limiterVars => LimiterIInv'
    BY LimiterInductive
  <1>2. LimiterIInv => WithinLimit
    BY LimiterIsSafe
  <1> QED BY <1>1, <1>2, LimiterStarts, PTL DEF LimiterSpec

-----------------------------------------------------------------------------
(***************************************************************************)
(*  The rate limiter refuses only what would break the limit, under the    *)
(*  same conditions.                                                       *)
(*                                                                         *)
(*  A refusal shows what the algorithm holds against a caller, so that     *)
(*  must not be more than was admitted: the counter of a window is at      *)
(*  most its admissions or the limit is reached; each entry of the log is  *)
(*  an admission's own, and those that are counted are recent; and a       *)
(*  bucket that is not full lacks what was spent since some admission.     *)
(***************************************************************************)

\* What is counted was admitted, up to the limit.
FixedFair ==
  algorithm = "fixed" =>
    \A w \in WindowsSeen : counters[w].n <= Cardinality(WindowHits(w)) \/ HitLimit <= Cardinality(WindowHits(w))

\* Each entry is an admission's, and one that is counted still matters.
Backed(e, H, a) ==
  /\ e \in [H -> 1 .. Len(a)]
  /\ \A h \in H : a[e[h]].at = h.at
  /\ \A h, i \in H : e[h] = e[i] => h = i
LogFair ==
  algorithm = "log" =>
    /\ \E e : Backed(e, entries.hits, admitted)
    /\ \A c \in Checkers : checks[c].at = "counting" =>
         checks[c].cost = 1 /\ \A h \in entries.hits : ~OutOfWindow(h.at, clock)

\* The bucket is full, or what it lacks was spent since some admission.
FullSince(i) ==
  BucketSize + RefillRate * (clock - admitted[i].at)
    <= TokensSpent(Len(admitted)) - TokensSpent(i - 1) + Refilled(level, clock)
BucketFair ==
  algorithm = "bucket" =>
    Refilled(level, clock) = BucketSize \/ \E i \in 1 .. Len(admitted) : FullSince(i)

FairInv == LimiterIInv /\ FixedFair /\ LogFair /\ BucketFair

\* The algorithm is chosen once.
LEMMA OneAlgorithm ==
  ASSUME [LimiterNext]_limiterVars
  PROVE  algorithm' = algorithm
  BY DEF LimiterNext, limiterVars, CheckFixed, CheckLog, CountLog, AddToLog, CheckBucket, PutBucket, Expire, Reset, Pass

\* The steps of each algorithm.
LEMMA FixedSteps ==
  ASSUME FixedKept, algorithm = "fixed", [LimiterNext]_limiterVars
  PROVE  (\E c \in Checkers : CheckFixed(c) \/ Expire(c)) \/ Reset \/ Pass \/ UNCHANGED limiterVars
  <1>1. \A c \in Checkers : checks[c].at \in {"idle", "expiring", "refused"}
    BY DEF FixedKept
  <1>2. \A c \in Checkers : ~CheckLog(c) /\ ~CountLog(c) /\ ~AddToLog(c) /\ ~PutBucket(c)
    BY <1>1 DEF CheckLog, CountLog, AddToLog, PutBucket
  <1>3. \A c \in Checkers, cost \in Costs : ~CheckBucket(c, cost)
    BY DEF CheckBucket
  <1> QED BY <1>2, <1>3 DEF LimiterNext

LEMMA LogSteps ==
  ASSUME LogKept, algorithm = "log", [LimiterNext]_limiterVars
  PROVE  \/ \E c \in Checkers : CheckLog(c) \/ CountLog(c) \/ AddToLog(c) \/ Expire(c)
         \/ Reset \/ Pass \/ UNCHANGED limiterVars
  <1>1. \A c \in Checkers : checks[c].at # "putting"
    BY DEF LogKept, LogState, LogStage
  <1>2. \A c \in Checkers : ~CheckFixed(c) /\ ~PutBucket(c)
    BY <1>1 DEF CheckFixed, PutBucket
  <1>3. \A c \in Checkers, cost \in Costs : ~CheckBucket(c, cost)
    BY DEF CheckBucket
  <1> QED BY <1>2, <1>3 DEF LimiterNext

LEMMA BucketSteps ==
  ASSUME BucketKept, algorithm = "bucket", [LimiterNext]_limiterVars
  PROVE  \/ \E c \in Checkers : (\E cost \in Costs : CheckBucket(c, cost)) \/ PutBucket(c) \/ Expire(c)
         \/ Reset \/ Pass \/ UNCHANGED limiterVars
  <1>1. \A c \in Checkers : checks[c].at \notin {"counting", "adding"}
    BY DEF BucketKept, BucketState, BucketStage
  <1>2. \A c \in Checkers : ~CheckFixed(c) /\ ~CheckLog(c) /\ ~CountLog(c) /\ ~AddToLog(c)
    BY <1>1 DEF CheckFixed, CheckLog, CountLog, AddToLog
  <1> QED BY <1>2 DEF LimiterNext

\* Without some at other times, no fewer count than before.
LEMMA AdmittedStill ==
  ASSUME LimiterTyped, NEW T, admitted' = Without(admitted, T), NEW S, \A h \in T : h.at \notin S
  PROVE  Cardinality(AdmittedAt(S)) <= Cardinality(AdmittedAt(S)')
  <1>1. PICK a \in Seq(HitType) : a = admitted
    BY LimiterTypes
  <1>2. PICK b : b = Without(a, T)
    OBVIOUS
  <1>3. b \in Seq(HitType) /\ Len(b) \in Nat
    BY <1>2, WithoutProperties, LenProperties
  <1>4. PICK e : LeavesOf(e, b, a, Len(a), T)
    BY <1>2, WithoutKeepsOrder
  <1>5. PICK A, B : A = {j \in 1 .. Len(a) : a[j].at \in S} /\ B = {j \in 1 .. Len(b) : b[j].at \in S}
    OBVIOUS
  <1>6. A = AdmittedAt(S) /\ B = AdmittedAt(S)'
    BY <1>1, <1>2, <1>5 DEF AdmittedAt
  <1>7. PICK g : g = [k \in A |-> CHOOSE i \in B : e[i] = k]
    OBVIOUS
  <1>8. ASSUME NEW k \in A PROVE g[k] \in B /\ e[g[k]] = k
    <2>1. k \in 1 .. Len(a) /\ a[k] \notin T
      BY <1>5
    <2>2. PICK i \in 1 .. Len(b) : e[i] = k /\ b[i] = a[k]
      BY <1>4, <2>1 DEF LeavesOf
    <2>3. i \in B /\ e[i] = k
      BY <1>5, <2>2
    <2> QED BY <1>7, <2>3
  <1>9. g \in [A -> B]
    BY <1>7, <1>8
  <1>10. \A k, l \in A : g[k] = g[l] => k = l
    BY <1>8
  <1>11. IsFiniteSet(B)
    <2>1. IsFiniteSet(1 .. Len(b)) /\ B \in SUBSET (1 .. Len(b))
      BY <1>3, <1>5, FS_Interval
    <2> QED BY <2>1, FS_Subset
  <1> QED BY <1>6, <1>9, <1>10, <1>11, InjectionCount

\* No step of a fixed window counts more than it admits, below the limit.
LEMMA FixedFairInductive ==
  ASSUME LimiterTyped, FixedKept, FixedFair, [LimiterNext]_limiterVars
  PROVE  FixedFair'
  <1> SUFFICES ASSUME algorithm = "fixed" PROVE FixedFair'
    BY OneAlgorithm DEF FixedFair
  <1>1. \A w \in WindowsSeen : counters[w].n <= Cardinality(WindowHits(w)) \/ HitLimit <= Cardinality(WindowHits(w))
    BY DEF FixedFair
  <1>2. /\ clock \in 0 .. MaxClock /\ WindowOf(clock) \in WindowsSeen /\ clock \in Nat /\ HitLimit \in Nat
        /\ \A w \in WindowsSeen : Cardinality(WindowHits(w)) \in Nat /\ counters[w].n \in Nat /\ w \in Nat
        /\ counters \in [WindowsSeen -> [n : Nat, expires : Nat]]
    BY LimiterTypes, LimiterFacts, WindowFacts, AdmittedCounts DEF LimiterTyped, WindowHits
  <1>3. ASSUME admitted' = admitted, \A w \in WindowsSeen : counters'[w].n = counters[w].n \/ counters'[w].n = 0
        PROVE  FixedFair'
    <2>1. \A w \in WindowsSeen : WindowHits(w)' = WindowHits(w)
      BY <1>3 DEF WindowHits, AdmittedAt
    <2> QED BY <1>1, <1>2, <1>3, <2>1 DEF FixedFair
  <1>4. ASSUME NEW c \in Checkers, CheckFixed(c) PROVE FixedFair'
    <2>1. PICK v \in WindowsSeen, n \in Nat : v = WindowOf(clock) /\ n = counters[v].n
      BY <1>2
    <2>2. counters' = [counters EXCEPT ![v].n = n + 1]
      BY <1>4, <2>1 DEF CheckFixed
    <2>3. counters'[v].n = n + 1 /\ \A w \in WindowsSeen : w # v => counters'[w].n = counters[w].n
      BY <1>2, <2>1, <2>2
    <2>4. CASE ~(n < HitLimit)
      <3>1. admitted' = admitted
        BY <1>4, <2>1, <2>4 DEF CheckFixed, UnderLimit
      <3>2. \A w \in WindowsSeen : WindowHits(w)' = WindowHits(w)
        BY <3>1 DEF WindowHits, AdmittedAt
      <3>3. HitLimit <= Cardinality(WindowHits(v))
        BY <1>1, <1>2, <2>1, <2>4
      <3> QED BY <1>1, <2>3, <3>2, <3>3 DEF FixedFair
    <2>5. CASE n < HitLimit
      <3>1. admitted' = Append(admitted, Hit(clock, 1))
        BY <1>4, <2>1, <2>5 DEF CheckFixed, UnderLimit
      <3>2. Hit(clock, 1) \in HitType /\ Hit(clock, 1).at = clock
        BY <1>2 DEF Hit, HitType
      <3>3. ASSUME NEW w \in WindowsSeen
            PROVE  Cardinality(WindowHits(w)') = Cardinality(WindowHits(w)) + (IF w = v THEN 1 ELSE 0)
        <4>1. PICK S : S = {u \in 0 .. MaxClock : WindowOf(u) = w}
          OBVIOUS
        <4>2. clock \in S <=> w = v
          BY <1>2, <2>1, <4>1
        <4>3. Cardinality(AdmittedAt(S)') = Cardinality(AdmittedAt(S)) + (IF clock \in S THEN 1 ELSE 0)
          BY <3>1, <3>2, AdmittedOneMore
        <4> QED BY <4>1, <4>2, <4>3 DEF WindowHits
      <3>4. ASSUME NEW w \in WindowsSeen
            PROVE  counters'[w].n <= Cardinality(WindowHits(w)') \/ HitLimit <= Cardinality(WindowHits(w)')
        <4>1. PICK d \in Nat : d = Cardinality(WindowHits(w))
          BY <1>2
        <4>2. CASE w = v
          <5>1. n <= d \/ HitLimit <= d
            BY <1>1, <2>1, <4>1, <4>2
          <5>2. Cardinality(WindowHits(w)') = d + 1
            BY <3>3, <4>1, <4>2
          <5> QED BY <1>2, <2>3, <4>2, <5>1, <5>2
        <4>3. CASE w # v
          <5>1. Cardinality(WindowHits(w)') = d
            BY <3>3, <4>1, <4>3
          <5> QED BY <1>1, <2>3, <4>1, <4>3, <5>1
        <4> QED BY <4>2, <4>3
      <3> QED BY <3>4 DEF FixedFair
    <2> QED BY <2>4, <2>5
  <1>5. ASSUME NEW c \in Checkers, Expire(c) PROVE FixedFair'
    <2>1. PICK w, d : \/ counters' = [counters EXCEPT ![w].expires = d]
                      \/ counters' = counters
      BY <1>5 DEF Expire
    <2>2. \A x \in WindowsSeen : counters'[x].n = counters[x].n
      BY <1>2, <2>1
    <2> QED BY <1>3, <1>5, <2>2 DEF Expire
  <1>6. CASE Reset
    <2>1. PICK v \in WindowsSeen : v = WindowOf(clock)
      BY <1>2
    <2>2. PICK T : T = {h \in Range(admitted) : WindowOf(h.at) = v}
      OBVIOUS
    <2>3. counters' = [counters EXCEPT ![v] = NoCounter] /\ admitted' = Without(admitted, T)
      BY <1>6, <2>1, <2>2 DEF Reset
    <2>4. counters'[v].n = 0 /\ \A w \in WindowsSeen : w # v => counters'[w] = counters[w]
      BY <1>2, <2>3 DEF NoCounter
    <2>5. ASSUME NEW w \in WindowsSeen, w # v PROVE Cardinality(WindowHits(w)) <= Cardinality(WindowHits(w)') /\ Cardinality(WindowHits(w)') \in Nat
      <3>1. PICK S : S = {u \in 0 .. MaxClock : WindowOf(u) = w}
        OBVIOUS
      <3>2. \A h \in T : h.at \notin S
        BY <2>2, <2>5, <3>1
      <3>3. Cardinality(AdmittedAt(S)) <= Cardinality(AdmittedAt(S)') /\ Cardinality(AdmittedAt(S)') \in Nat
        BY <2>3, <3>2, AdmittedStill, AdmittedLess
      <3> QED BY <3>1, <3>3 DEF WindowHits
    <2>6. Cardinality(WindowHits(v)') \in Nat
      <3>1. PICK S : S = {u \in 0 .. MaxClock : WindowOf(u) = v}
        OBVIOUS
      <3>2. Cardinality(AdmittedAt(S)') \in Nat
        BY <2>3, AdmittedLess
      <3> QED BY <3>1, <3>2 DEF WindowHits
    <2>7. ASSUME NEW w \in WindowsSeen
          PROVE  counters'[w].n <= Cardinality(WindowHits(w)') \/ HitLimit <= Cardinality(WindowHits(w)')
      <3>1. CASE w = v
        BY <2>4, <2>6, <3>1
      <3>2. CASE w # v
        BY <1>1, <1>2, <2>4, <2>5, <3>2
      <3> QED BY <3>1, <3>2
    <2> QED BY <2>7 DEF FixedFair
  <1>7. CASE Pass
    <2>1. admitted' = admitted /\ \A w \in WindowsSeen : counters'[w] = KeptKey(counters[w], NoCounter)
      BY <1>7 DEF Pass
    <2>2. \A w \in WindowsSeen : counters'[w].n = counters[w].n \/ counters'[w].n = 0
      BY <2>1 DEF KeptKey, NoCounter
    <2> QED BY <1>3, <2>1, <2>2
  <1>8. CASE UNCHANGED limiterVars
    BY <1>3, <1>8 DEF limiterVars
  <1> QED BY <1>4, <1>5, <1>6, <1>7, <1>8, FixedSteps

\* No step of the log keeps an entry that nobody was admitted for.
LEMMA LogFairInductive ==
  ASSUME Racing \subseteq {"fixed"}, LimiterTyped, OneCheck, LogKept, LogFair, [LimiterNext]_limiterVars
  PROVE  LogFair'
  <1> SUFFICES ASSUME algorithm = "log" PROVE LogFair'
    BY OneAlgorithm DEF LogFair
  <1>1. PICK e : Backed(e, entries.hits, admitted)
    BY DEF LogFair
  <1>2. /\ clock \in Nat /\ MaxClock \in Nat /\ WindowTime \in Nat
        /\ entries \in [hits : SUBSET [at : Nat, member : Nat], expires : Nat]
        /\ checks \in [Checkers -> CheckType] /\ Len(admitted) \in Nat /\ admitted \in Seq(HitType)
    BY LimiterTypes, LimiterFacts DEF LimiterTyped
  <1> DEFINE Fresh(c) == checks[c].at = "counting" =>
                           checks[c].cost = 1 /\ \A h \in entries.hits : ~OutOfWindow(h.at, clock)
  <1>3. \A c \in Checkers : Fresh(c)
    BY DEF LogFair
  <1>4. ASSUME admitted' = admitted, entries'.hits \subseteq entries.hits
        PROVE  \E f : Backed(f, entries'.hits, admitted')
    <2>1. PICK H : H = entries'.hits /\ H \subseteq entries.hits
      BY <1>4
    <2>2. PICK f : f = [h \in H |-> e[h]]
      OBVIOUS
    <2>3. Backed(f, H, admitted)
      BY <1>1, <2>1, <2>2 DEF Backed
    <2> QED BY <1>4, <2>1, <2>3
  <1>5. ASSUME NEW c \in Checkers, CheckLog(c) PROVE LogFair'
    <2>1. PICK k : k = [at |-> "counting", now |-> clock, cost |-> 1, read |-> made]
      OBVIOUS
    <2>2. /\ entries' = [entries EXCEPT !.hits = {h \in @ : ~OutOfWindow(h.at, clock)}]
          /\ checks' = [checks EXCEPT ![c] = k] /\ UNCHANGED <<clock, admitted>> /\ Interrupts /\ k.cost = 1
      BY <1>5, <2>1 DEF CheckLog, MayCheck
    <2>3. checks'[c] = k /\ \A d \in Checkers : d # c => checks'[d] = checks[d]
      BY <2>2, CheckMoves
    <2>4. \A d \in Checkers : d # c => checks[d].at # "counting"
      BY <2>2, AloneThen DEF Resting
    <2>5. entries'.hits = {h \in entries.hits : ~OutOfWindow(h.at, clock)}
      BY <1>2, <2>2
    <2>6. \E f : Backed(f, entries'.hits, admitted')
      BY <1>4, <2>2, <2>5
    <2>7. \A h \in entries'.hits : ~OutOfWindow(h.at, clock')
      BY <2>2, <2>5
    <2>8. \A d \in Checkers : Fresh(d)'
      BY <2>2, <2>3, <2>4, <2>7
    <2> QED BY <2>6, <2>8 DEF LogFair
  <1>6. ASSUME NEW c \in Checkers, CountLog(c) \/ Expire(c) PROVE LogFair'
    <2>1. PICK k : k = checks'[c] /\ k.at # "counting" /\ checks' = [checks EXCEPT ![c] = k]
      <3>1. CASE CountLog(c)
        <4>1. PICK s \in {"adding", "refused"} : checks' = [checks EXCEPT ![c].at = s]
          BY <3>1 DEF CountLog
        <4>2. checks'[c].at = s /\ checks' = [checks EXCEPT ![c] = checks'[c]]
          BY <1>2, <4>1 DEF CheckType
        <4> QED BY <4>2
      <3>2. CASE Expire(c)
        <4>1. PICK k : k = IF checks[c].at = "expiring" THEN Idling ELSE [checks[c] EXCEPT !.at = "refused"]
          OBVIOUS
        <4>2. k.at # "counting"
          BY <1>2, <4>1 DEF Idling, CheckType
        <4>3. checks' = [checks EXCEPT ![c] = k]
          BY <3>2, <4>1 DEF Expire
        <4> QED BY <1>2, <4>2, <4>3
      <3> QED BY <1>6, <3>1, <3>2
    <2>2. entries'.hits = entries.hits /\ UNCHANGED <<clock, admitted>>
      <3>1. CASE CountLog(c)
        BY <3>1 DEF CountLog
      <3>2. CASE Expire(c)
        <4>1. PICK d : entries' = [entries EXCEPT !.expires = d] \/ entries' = entries
          BY <3>2 DEF Expire
        <4> QED BY <1>2, <3>2, <4>1 DEF Expire
      <3> QED BY <1>6, <3>1, <3>2
    <2>3. \A d \in Checkers : d # c => checks'[d] = checks[d]
      BY <2>1, CheckMoves
    <2>4. \A d \in Checkers : Fresh(d)'
      BY <1>3, <2>1, <2>2, <2>3
    <2>5. \E f : Backed(f, entries'.hits, admitted')
      BY <1>4, <2>2
    <2> QED BY <2>4, <2>5 DEF LogFair
  <1>7. ASSUME NEW c \in Checkers, AddToLog(c) PROVE LogFair'
    <2>1. PICK k \in CheckType : k = checks[c]
      BY <1>2
    <2>2. PICK x : x = [at |-> k.now, member |-> k.read]
      OBVIOUS
    <2>3. PICK h \in HitType : h = Hit(k.now, 1) /\ h.at = x.at
      <3>1. k.now \in 0 .. MaxClock
        BY DEF CheckType
      <3>2. Hit(k.now, 1) \in HitType /\ Hit(k.now, 1).at = k.now
        BY <3>1 DEF Hit, HitType
      <3> QED BY <2>2, <3>2
    <2>4. /\ entries'.hits = entries.hits \cup {x} /\ admitted' = Append(admitted, h)
          /\ ~Resting(c)
      BY <1>2, <1>7, <2>1, <2>2, <2>3 DEF AddToLog, Resting
    <2>5. PICK n, a, b : /\ n = Len(a) /\ n \in Nat /\ a \in Seq(HitType)
                          /\ a = admitted /\ b = admitted' /\ b = Append(a, h)
      BY <1>2, <2>4
    <2>6. Len(b) = n + 1 /\ b[n + 1] = h /\ \A j \in 1 .. n : b[j] = a[j]
      BY <2>5, OneMoreHit
    <2>7. PICK H : H = entries.hits
      OBVIOUS
    <2>8. PICK f : f = [g \in H \cup {x} |-> IF g = x THEN n + 1 ELSE e[g]]
      OBVIOUS
    <2>9. Backed(f, H \cup {x}, b)
      <3>1. f[x] = n + 1 /\ \A g \in H : g # x => f[g] = e[g] /\ e[g] \in 1 .. n
        BY <1>1, <2>5, <2>7, <2>8 DEF Backed
      <3>2. f \in [H \cup {x} -> 1 .. Len(b)]
        <4>1. 1 .. Len(b) = 1 .. n \cup {n + 1}
          BY ONLY <2>5, <2>6
        <4>2. \A g \in H \cup {x} : f[g] \in 1 .. Len(b)
          BY ONLY <3>1, <4>1
        <4> QED BY <2>8, <4>2
      <3>3. ASSUME NEW g \in H \cup {x} PROVE b[f[g]].at = g.at
        <4>1. CASE g = x
          BY <2>3, <2>6, <3>1, <4>1
        <4>2. CASE g # x
          BY <1>1, <2>5, <2>6, <2>7, <3>1, <4>2 DEF Backed
        <4> QED BY <4>1, <4>2
      <3>4. ASSUME NEW g \in H \cup {x}, NEW i \in H \cup {x}, f[g] = f[i] PROVE g = i
        <4>1. \A j \in 1 .. n : j # n + 1
          BY ONLY <2>5
        <4> QED BY <1>1, <2>7, <3>1, <3>4, <4>1 DEF Backed
      <3> QED BY <3>2, <3>3, <3>4 DEF Backed
    <2>10. checks'[c].at = "expiring" /\ \A d \in Checkers : d # c => checks'[d] = checks[d]
      BY <1>2, <1>7 DEF AddToLog, CheckType
    <2>11. \A d \in Checkers : d # c => checks[d].at # "counting"
      BY <2>4, AloneThen DEF Resting
    <2>12. \A d \in Checkers : Fresh(d)'
      BY <2>10, <2>11
    <2> QED BY <2>4, <2>5, <2>7, <2>9, <2>12 DEF LogFair
  <1>8. CASE Reset \/ Pass
    <2>1. Interrupts /\ checks' = checks
      BY <1>8 DEF Reset, Pass
    <2>2. \A d \in Checkers : checks[d].at # "counting"
      <3>1. algorithm \notin Racing
        OBVIOUS
      <3> QED BY <2>1, <3>1 DEF Interrupts, Resting
    <2>3. \E f : Backed(f, entries'.hits, admitted')
      <3>1. CASE entries'.hits = {}
        <4>1. PICK f : f = [h \in {} |-> 1]
          OBVIOUS
        <4>2. Backed(f, {}, admitted')
          BY <4>1 DEF Backed
        <4> QED BY <3>1, <4>2
      <3>2. CASE entries' = entries /\ admitted' = admitted
        BY <1>4, <3>2
      <3>3. entries'.hits = {} \/ (entries' = entries /\ admitted' = admitted)
        BY <1>8 DEF Reset, Pass, KeptKey, EmptyLog
      <3> QED BY <3>1, <3>2, <3>3
    <2>4. \A d \in Checkers : Fresh(d)'
      BY <2>1, <2>2
    <2> QED BY <2>3, <2>4 DEF LogFair
  <1>9. CASE UNCHANGED limiterVars
    <2>1. UNCHANGED <<clock, admitted, entries, checks>>
      BY <1>9 DEF limiterVars
    <2>2. \A d \in Checkers : Fresh(d)'
      BY <1>3, <2>1
    <2>3. \E f : Backed(f, entries'.hits, admitted')
      BY <1>4, <2>1
    <2> QED BY <2>2, <2>3 DEF LogFair
  <1> QED BY <1>5, <1>6, <1>7, <1>8, <1>9, LogSteps

\* A tick adds its refill or fills the bucket, and a full one stays full.
LEMMA RefillsUp ==
  ASSUME LimiterTyped
  PROVE  /\ Refilled(level, clock + 1) = BucketSize
            \/ Refilled(level, clock + 1) >= Refilled(level, clock) + RefillRate
         /\ Refilled(level, clock) = BucketSize => Refilled(level, clock + 1) = BucketSize
  <1>1. PICK r \in Nat, b \in Nat : r = RefillRate /\ b = BucketSize /\ r > 0
    BY LimiterFacts
  <1>2. PICK t \in Int, s \in Int, x \in Int : t = clock /\ s = level.since /\ x = level.tokens /\ x <= b
    <2>1. clock \in Nat /\ level.since \in Int /\ level.tokens \in 0 .. b
      BY <1>1, LimiterTypes DEF LimiterTyped
    <2> QED BY <2>1
  <1>3. PICK d \in Int : d = t - s
    OBVIOUS
  <1>4. PICK y \in Int : y = d * r
    OBVIOUS
  <1>5. (d + 1) * r = y + r
    BY <1>4, SMTT(30)
  <1>6. (t - s) * r = y /\ (t + 1 - s) * r = y + r
    BY <1>2, <1>3, <1>4, <1>5
  <1>7. /\ Refilled(level, clock) = (IF s = -1 \/ x + y > b THEN b ELSE x + y)
        /\ Refilled(level, clock + 1) = (IF s = -1 \/ x + (y + r) > b THEN b ELSE x + (y + r))
    BY <1>1, <1>2, <1>6 DEF Refilled
  <1> QED BY <1>1, <1>2, <1>7

\* No step of the bucket takes more than was spent.
LEMMA BucketFairInductive ==
  ASSUME Racing \subseteq {"fixed"}, LimiterTyped, OneCheck, BucketKept, BucketFair, [LimiterNext]_limiterVars
  PROVE  BucketFair'
  <1> SUFFICES ASSUME algorithm = "bucket" PROVE BucketFair'
    BY OneAlgorithm DEF BucketFair
  <1>1. Refilled(level, clock) = BucketSize \/ \E i \in 1 .. Len(admitted) : FullSince(i)
    BY DEF BucketFair
  <1>2. /\ clock \in Nat /\ MaxClock \in Nat /\ BucketSize \in Nat /\ RefillRate \in Nat
        /\ level \in [tokens : 0 .. BucketSize, since : -1 .. MaxClock, expires : Nat]
        /\ checks \in [Checkers -> CheckType] /\ Len(admitted) \in Nat
        /\ Refilled(level, clock) \in 0 .. BucketSize
    BY LimiterTypes, LimiterFacts DEF LimiterTyped
  <1>3. ASSUME UNCHANGED <<clock, admitted>>, Refilled(level, clock)' = Refilled(level, clock)
        PROVE  BucketFair'
    BY <1>1, <1>3 DEF FullSince, TokensSpent, BucketFair
  <1>4. ASSUME Refilled(level, clock)' = BucketSize PROVE BucketFair'
    BY <1>4 DEF BucketFair
  <1>5. ASSUME NEW c \in Checkers, NEW cost \in Costs, CheckBucket(c, cost) PROVE BucketFair'
    <2>1. UNCHANGED <<clock, admitted, level>>
      BY <1>5 DEF CheckBucket
    <2>2. Refilled(level, clock)' = Refilled(level, clock)
      BY <2>1 DEF Refilled
    <2> QED BY <1>3, <2>1, <2>2
  <1>6. ASSUME NEW c \in Checkers, PutBucket(c) PROVE BucketFair'
    <2>1. PICK k \in CheckType : k = checks[c]
      BY <1>2
    <2>2. k.at = "putting" /\ ~Resting(c)
      BY <1>6, <2>1 DEF PutBucket, Resting
    <2>3. k.now = clock /\ k.read = Refilled(level, clock) /\ k.cost \in Nat
      <3>1. k.now = clock
        BY <2>1, <2>2 DEF OneCheck
      <3>2. k.read = Refilled(level, clock)
        BY <2>1, <2>2 DEF BucketKept, BucketState, BucketStage
      <3> QED BY <3>1, <3>2 DEF CheckType
    <2>4. PICK y \in Int, m \in Int, b \in Int : y = k.read /\ m = k.cost /\ b = BucketSize /\ 0 <= y /\ y <= b /\ 0 <= m
      <3>1. \A y \in 0 .. BucketSize : y \in Int /\ 0 <= y /\ y <= BucketSize
        BY <1>2
      <3> QED BY <1>2, <2>3, <3>1
    <2>5. PICK x \in Int : x = (IF y >= m THEN y - m ELSE y) /\ 0 <= x /\ x <= b
      <3>1. CASE y >= m
        BY <2>4, <3>1
      <3>2. CASE ~(y >= m)
        BY <2>4, <3>2
      <3> QED BY <3>1, <3>2
    <2>6. level' = [level EXCEPT !.tokens = x, !.since = clock] /\ UNCHANGED clock
      BY <1>6, <2>1, <2>3, <2>4, <2>5 DEF PutBucket
    <2>7. Refilled(level, clock)' = x
      <3>1. (clock - clock) * RefillRate = 0
        BY <1>2
      <3>2. level'.tokens = x /\ level'.since = clock
        BY <1>2, <2>6
      <3>3. Refilled(level, clock)' = IF clock = -1 \/ x + 0 > BucketSize THEN BucketSize ELSE x + 0
        BY <2>6, <3>1, <3>2 DEF Refilled
      <3> QED BY <1>2, <2>4, <2>5, <3>3
    <2>8. CASE ~(y >= m)
      <3>1. admitted' = admitted
        BY <1>6, <2>1, <2>4, <2>8 DEF PutBucket
      <3>2. x = Refilled(level, clock)
        BY <2>3, <2>4, <2>5, <2>8
      <3> QED BY <1>3, <2>6, <2>7, <3>1, <3>2
    <2>9. CASE y >= m
      <3>1. PICK h \in HitType : h = Hit(clock, k.cost)
        <4>1. clock \in 0 .. MaxClock /\ k.cost \in Nat
          BY <2>3, LimiterTypes
        <4>2. Hit(clock, k.cost) \in HitType
          BY <4>1 DEF Hit, HitType
        <4> QED BY <4>2
      <3>2. h.at = clock /\ h.cost = m /\ admitted' = Append(admitted, h)
        BY <1>6, <2>1, <2>3, <2>4, <2>9, <3>1 DEF Hit, PutBucket
      <3>3. PICK n \in Nat : n = Len(admitted)
        BY <1>2
      <3>4. /\ Len(admitted') = n + 1 /\ admitted'[n + 1] = h
            /\ \A j \in 1 .. n : admitted'[j] = admitted[j]
            /\ \A j \in 0 .. n : TokensSpent(j)' = TokensSpent(j) /\ TokensSpent(j) \in Int
            /\ TokensSpent(n + 1)' = TokensSpent(n) + m
        <4>1. \A j \in 0 .. n : TokensSpent(j) \in Int
          BY <3>3, SpentFacts
        <4>2. /\ Len(admitted') = Len(admitted) + 1 /\ admitted'[Len(admitted) + 1] = h
              /\ \A j \in 1 .. Len(admitted) : admitted'[j] = admitted[j]
              /\ \A j \in 0 .. Len(admitted) : TokensSpent(j)' = TokensSpent(j)
              /\ TokensSpent(Len(admitted))' = TokensSpent(Len(admitted)) + h.cost
          BY <3>2, SpentOneMore
        <4>3. Len(admitted') = n + 1 /\ admitted'[n + 1] = h
          BY <3>3, <4>2
        <4>4. /\ \A j \in 1 .. n : admitted'[j] = admitted[j]
              /\ \A j \in 0 .. n : TokensSpent(j)' = TokensSpent(j)
          BY <3>3, <4>2
        <4>5. TokensSpent(n + 1)' = TokensSpent(n) + m
          BY <3>2, <3>3, <4>2, <4>3
        <4> QED BY <4>1, <4>3, <4>4, <4>5
      <3>5. PICK v \in Int : v = TokensSpent(n) /\ TokensSpent(n)' = v /\ TokensSpent(n + 1)' = v + m
        <4>1. n \in 0 .. n
          OBVIOUS
        <4> QED BY <3>4, <4>1
      <3>6. CASE y = b
        <4>1. RefillRate * (clock - clock) = 0
          BY <1>2, RefillTime
        <4>2. b + 0 <= (v + m) - v + x
          BY <2>5, <2>9, <3>6
        <4>3. /\ admitted'[n + 1].at = clock /\ (n + 1) - 1 = n /\ n + 1 \in 1 .. n + 1
          BY <3>2, <3>4
        <4>4. BucketSize + RefillRate * (clock - clock) <= TokensSpent(n + 1)' - TokensSpent(n)' + x
          BY <2>4, <3>5, <4>1, <4>2
        <4>5. FullSince(n + 1)'
          BY <2>6, <2>7, <3>4, <4>3, <4>4 DEF FullSince
        <4> QED BY <3>4, <4>3, <4>5 DEF BucketFair
      <3>7. CASE y # b
        <4>1. PICK i \in 1 .. n : FullSince(i)
          BY <1>1, <2>3, <2>4, <3>3, <3>7
        <4>2. PICK u \in Int, z \in Int : u = admitted[i].at /\ z = RefillRate * (clock - u)
          <5>1. admitted[i].at \in 0 .. MaxClock
            BY <3>3, <4>1, LimiterTypes
          <5>2. admitted[i].at \in Int /\ clock \in Int
            BY <1>2, <5>1
          <5> QED BY <5>2, RefillTime
        <4>3. PICK w \in Int : w = TokensSpent(i - 1) /\ TokensSpent(i - 1)' = w
          <5>1. i - 1 \in 0 .. n
            OBVIOUS
          <5> QED BY <3>4, <5>1
        <4>4. b + z <= v - w + y
          BY <2>3, <2>4, <3>3, <3>5, <4>1, <4>2, <4>3 DEF FullSince
        <4>5. b + z <= (v + m) - w + x
          BY <2>5, <2>9, <4>4
        <4>6. admitted'[i].at = u /\ i \in 1 .. n + 1
          BY <3>4, <4>1, <4>2
        <4>7. BucketSize + RefillRate * (clock - u) <= TokensSpent(n + 1)' - TokensSpent(i - 1)' + x
          BY <2>4, <3>5, <4>2, <4>3, <4>5
        <4>8. FullSince(i)'
          BY <2>6, <2>7, <3>4, <4>6, <4>7 DEF FullSince
        <4> QED BY <3>4, <4>6, <4>8 DEF BucketFair
      <3> QED BY <3>6, <3>7
    <2> QED BY <2>8, <2>9
  <1>7. ASSUME NEW c \in Checkers, Expire(c) PROVE BucketFair'
    <2>1. PICK d : level' = [level EXCEPT !.expires = d] \/ level' = level
      BY <1>7 DEF Expire
    <2>2. level'.tokens = level.tokens /\ level'.since = level.since /\ UNCHANGED <<clock, admitted>>
      BY <1>2, <1>7, <2>1 DEF Expire
    <2>3. Refilled(level, clock)' = Refilled(level, clock)
      BY <2>2 DEF Refilled
    <2> QED BY <1>3, <2>2, <2>3
  <1>8. CASE Reset
    <2>1. level' = NoLevel
      BY <1>8 DEF Reset
    <2>2. Refilled(level, clock)' = BucketSize
      BY <2>1 DEF Refilled, NoLevel
    <2> QED BY <1>4, <2>2
  <1>9. CASE Pass
    <2>1. clock' = clock + 1 /\ admitted' = admitted /\ (level' = NoLevel \/ level' = level)
      BY <1>9 DEF Pass, KeptKey
    <2>2. CASE level' = NoLevel
      <3>1. Refilled(level, clock)' = BucketSize
        BY <2>2 DEF Refilled, NoLevel
      <3> QED BY <1>4, <3>1
    <2>3. CASE level' = level
      <3>1. PICK y \in Int, x \in Int, b \in Int, r \in Int :
              /\ y = Refilled(level, clock) /\ x = Refilled(level, clock + 1) /\ b = BucketSize /\ r = RefillRate
        <4>1. Refilled(level, clock) \in 0 .. BucketSize /\ Refilled(level, clock + 1) \in 0 .. BucketSize
          BY RefillFacts
        <4> QED BY <1>2, <4>1
      <3>2. x = b \/ x >= y + r
        BY <3>1, RefillsUp
      <3>3. Refilled(level, clock)' = x
        BY <2>1, <2>3, <3>1
      <3>4. CASE x = b
        BY <1>4, <3>1, <3>3, <3>4
      <3>5. CASE x # b
        <4>1. y # b
          BY <3>1, <3>5, RefillsUp
        <4>11. PICK n \in Nat : n = Len(admitted)
          BY <1>2, LimiterTypes, LenProperties
        <4>2. PICK i \in 1 .. n : FullSince(i)
          BY <1>1, <1>2, <3>1, <4>1, <4>11
        <4>3. PICK u \in Int, z \in Int : u = admitted[i].at /\ z = RefillRate * (clock - u)
          <5>1. admitted[i].at \in 0 .. MaxClock
            BY <4>2, <4>11, LimiterTypes
          <5>2. admitted[i].at \in Int /\ clock \in Int
            BY <1>2, <5>1
          <5>3. PICK o \in Int : o = admitted[i].at
            BY <5>2
          <5>4. RefillRate * (clock - o) \in Int
            BY <5>2, RefillTime
          <5> QED BY <5>3, <5>4
        <4>4. RefillRate * (clock + 1 - u) = z + r
          <5>1. clock \in Int
            BY <1>2
          <5> QED BY <3>1, <4>3, <5>1, RefillTime
        <4>5. PICK w \in Int, v \in Int : w = TokensSpent(i - 1) /\ v = TokensSpent(n)
          <5>1. i - 1 \in 0 .. n /\ n \in 0 .. n
            BY <4>2, <4>11
          <5>2. TokensSpent(i - 1) \in Int /\ TokensSpent(n) \in Int
            BY <4>11, <5>1, SpentFacts
          <5> QED BY <5>2
        <4>6. TokensSpent(i - 1)' = w /\ TokensSpent(n)' = v /\ Len(admitted') = n /\ admitted'[i].at = u
          BY <2>1, <4>2, <4>11, <4>3, <4>5 DEF TokensSpent
        <4>7. b + z <= v - w + y
          BY <3>1, <4>2, <4>11, <4>3, <4>5 DEF FullSince
        <4>8. b + (z + r) <= v - w + x
          BY <3>2, <3>5, <4>7
        <4>9. BucketSize + RefillRate * (clock + 1 - u) <= v - w + x
          BY <3>1, <4>4, <4>8
        <4>10. FullSince(i)'
          <5>1. clock' = clock + 1 /\ TokensSpent(Len(admitted))' = v
            BY <2>1, <4>6
          <5>2. BucketSize + RefillRate * (clock' - admitted'[i].at)
                  <= TokensSpent(Len(admitted))' - TokensSpent(i - 1)' + Refilled(level, clock)'
            <6>1. clock' - admitted'[i].at = clock + 1 - u
              <7>1. admitted'[i].at = u
                BY <4>6
              <7>2. clock' = clock + 1
                BY <5>1
              <7>3. PICK o \in Int : o = clock
                BY <1>2
              <7>4. PICK p \in Int : p = o + 1 /\ p = clock'
                BY <7>2, <7>3
              <7>5. clock' - admitted'[i].at = p - u
                BY <7>1, <7>4
              <7>6. p - u = o + 1 - u
                BY <7>4
              <7> QED BY <7>3, <7>5, <7>6
            <6>2. BucketSize + RefillRate * (clock' - admitted'[i].at) <= v - w + x
              BY <4>9, <6>1
            <6> QED BY <3>3, <4>6, <5>1, <6>2
          <5> QED BY <5>2 DEF FullSince
        <4> QED BY <4>2, <4>11, <4>6, <4>10 DEF BucketFair
      <3> QED BY <3>4, <3>5
    <2> QED BY <2>1, <2>2, <2>3
  <1>10. CASE UNCHANGED limiterVars
    <2>1. UNCHANGED <<clock, admitted, level>>
      BY <1>10 DEF limiterVars
    <2>2. Refilled(level, clock)' = Refilled(level, clock)
      BY <2>1 DEF Refilled
    <2> QED BY <1>3, <2>1, <2>2
  <1> QED BY <1>5, <1>6, <1>7, <1>8, <1>9, <1>10, BucketSteps

\* Nothing is admitted, counted or spent in the beginning.
LEMMA FairStarts == LimiterInit => FairInv
  <1> SUFFICES ASSUME LimiterInit PROVE FairInv
    OBVIOUS
  <1>1. LimiterIInv
    BY LimiterStarts
  <1>2. LimiterTyped
    BY <1>1 DEF LimiterIInv
  <1>3. FixedFair
    <2>1. \A w \in WindowsSeen : counters[w].n = 0 /\ Cardinality(WindowHits(w)) \in Nat
      BY <1>2, AdmittedCounts DEF LimiterInit, NoCounter, WindowHits
    <2> QED BY <2>1 DEF FixedFair
  <1>4. LogFair
    <2>1. entries.hits = {} /\ \A c \in Checkers : checks[c].at = "idle"
      BY DEF LimiterInit, EmptyLog, Idling
    <2>2. PICK e : e = [h \in {} |-> 1]
      OBVIOUS
    <2>3. Backed(e, entries.hits, admitted)
      BY <2>1, <2>2 DEF Backed
    <2> QED BY <2>1, <2>3 DEF LogFair
  <1>5. BucketFair
    BY DEF LimiterInit, BucketFair, Refilled, NoLevel
  <1> QED BY <1>1, <1>3, <1>4, <1>5 DEF FairInv

\* No step breaks it, unless a check of the log or of the bucket is interrupted.
LEMMA FairInductive ==
  ASSUME Racing \subseteq {"fixed"}, FairInv, [LimiterNext]_limiterVars
  PROVE  FairInv'
  <1>1. LimiterIInv /\ LimiterTyped /\ OneCheck /\ FixedKept /\ LogKept /\ BucketKept
        /\ FixedFair /\ LogFair /\ BucketFair
    BY DEF FairInv, LimiterIInv
  <1>2. LimiterIInv'
    BY <1>1, LimiterInductive
  <1>3. FixedFair'
    BY <1>1, FixedFairInductive
  <1>4. LogFair'
    BY <1>1, LogFairInductive
  <1>5. BucketFair'
    BY <1>1, BucketFairInductive
  <1> QED BY <1>2, <1>3, <1>4, <1>5 DEF FairInv

-----------------------------------------------------------------------------
\* One more than the limit in a window is over the limit.
LEMMA OverInWindow ==
  ASSUME LimiterTyped, NEW h \in HitType, NEW S, h.at \in S, HitLimit <= Cardinality(AdmittedAt(S)),
         \/ algorithm = "fixed" /\ S = {t \in 0 .. MaxClock : WindowOf(t) = WindowOf(h.at)}
         \/ algorithm = "log" /\ S = h.at - WindowTime + 1 .. h.at
  PROVE  OverLimit(Append(admitted, h))
  <1>1. PICK a \in Seq(HitType), n \in Nat : a = admitted /\ n = Len(a)
    BY LimiterTypes
  <1>2. PICK b : b = Append(a, h)
    OBVIOUS
  <1>3. b \in Seq(HitType) /\ Len(b) = n + 1 /\ b[n + 1] = h /\ \A j \in 1 .. n : b[j] = a[j]
    BY <1>1, <1>2, OneMoreHit
  <1>4. DOMAIN b = 1 .. n + 1 /\ n + 1 \in DOMAIN b
    BY <1>3, LenProperties
  <1>5. PICK A : A = AdmittedAt(S)
    OBVIOUS
  <1>6. A = {j \in 1 .. n : a[j].at \in S}
    BY <1>1, <1>5 DEF AdmittedAt
  <1>7. {j \in DOMAIN b : b[j].at \in S} = A \cup {n + 1}
    <2>1. \A j \in 1 .. n + 1 : j \in 1 .. n \/ j = n + 1
      OBVIOUS
    <2>2. n + 1 \notin 1 .. n /\ 1 .. n \subseteq 1 .. n + 1
      OBVIOUS
    <2> QED BY <1>3, <1>4, <1>6, <2>1, <2>2
  <1>8. IsFiniteSet(A) /\ Cardinality(A) \in Nat /\ n + 1 \notin A
    <2>1. n + 1 \notin A
      BY <1>6
    <2> QED BY <1>5, <2>1, AdmittedCounts
  <1>9. Cardinality(A \cup {n + 1}) = Cardinality(A) + 1
    BY <1>8, FS_AddElement
  <1>10. Cardinality({j \in DOMAIN b : b[j].at \in S}) > HitLimit
    <2>1. HitLimit \in Nat /\ HitLimit <= Cardinality(A)
      BY <1>5, LimiterFacts
    <2>2. Cardinality(A \cup {n + 1}) > HitLimit
      BY <1>8, <1>9, <2>1
    <2> QED BY <1>7, <2>2
  <1>11. CASE algorithm = "fixed" /\ S = {t \in 0 .. MaxClock : WindowOf(t) = WindowOf(h.at)}
    <2>1. Cardinality({j \in DOMAIN b : b[j].at \in {t \in 0 .. MaxClock : WindowOf(t) = WindowOf(b[n + 1].at)}}) > HitLimit
      BY <1>3, <1>10, <1>11
    <2>2. OverLimit(b)
      BY <1>4, <1>11, <2>1 DEF OverLimit
    <2> QED BY <1>1, <1>2, <2>2
  <1>12. CASE algorithm = "log" /\ S = h.at - WindowTime + 1 .. h.at
    <2>1. Cardinality({j \in DOMAIN b : b[j].at \in b[n + 1].at - WindowTime + 1 .. b[n + 1].at}) > HitLimit
      BY <1>3, <1>10, <1>12
    <2>2. OverLimit(b)
      BY <1>4, <1>12, <2>1 DEF OverLimit
    <2> QED BY <1>1, <1>2, <2>2
  <1> QED BY <1>11, <1>12

\* What the bucket held is not enough, alone or with what was spent since.
LEMMA OverInBucket ==
  ASSUME LimiterTyped, algorithm = "bucket", BucketFair, NEW cost \in Nat, Refilled(level, clock) < cost,
         NEW h \in HitType, h = Hit(clock, cost)
  PROVE  OverLimit(Append(admitted, h))
  <1>1. PICK a \in Seq(HitType), n \in Nat : a = admitted /\ n = Len(a)
    BY LimiterTypes
  <1>2. PICK b : b = Append(a, h)
    OBVIOUS
  <1>3. /\ b \in Seq(HitType) /\ Len(b) = n + 1 /\ b[n + 1] = h
        /\ \A j \in 1 .. n : b[j] = a[j] /\ a[j] \in HitType
    BY <1>1, <1>2, OneMoreHit
  <1>4. DOMAIN b = 1 .. n + 1
    BY <1>3, LenProperties
  <1>5. h.at = clock /\ h.cost = cost
    BY DEF Hit
  <1>6. PICK s : s = [k \in 1 .. n |-> a[k].cost]
    OBVIOUS
  <1>7. PICK r : r = [k \in DOMAIN b |-> b[k].cost]
    OBVIOUS
  <1>8. \A k \in 1 .. n : k \in DOMAIN b /\ s[k] \in Int /\ s[k] = r[k]
    BY <1>3, <1>4, <1>6, <1>7 DEF HitType
  <1>9. n + 1 \in DOMAIN b /\ r[n + 1] = cost
    BY <1>3, <1>4, <1>5, <1>7
  <1>10. \A k \in 1 .. n + 1 : r[k] \in Int
    <2>1. \A k \in 1 .. n + 1 : k \in 1 .. n \/ k = n + 1
      OBVIOUS
    <2> QED BY <1>8, <1>9, <2>1
  <1>11. \A j \in 0 .. n : SumUpTo(s, j) = SumUpTo(r, j)
    <2> SUFFICES ASSUME NEW j \in 0 .. n PROVE SumUpTo(s, j) = SumUpTo(r, j)
      OBVIOUS
    <2>1. \A k \in 1 .. j : k \in 1 .. n
      OBVIOUS
    <2>2. j \in Nat /\ \A k \in 1 .. j : s[k] \in Int /\ s[k] = r[k]
      BY <1>8, <2>1
    <2> QED BY <2>2, SumUpToAgrees
  <1>12. SumUpTo(r, n + 1) = SumUpTo(r, n) + cost
    <2>1. PICK m \in Nat : m = n + 1
      OBVIOUS
    <2>2. \A k \in 1 .. m : r[k] \in Int
      BY <1>10, <2>1
    <2>3. \A k \in 1 .. m : SumUpTo(r, k) = SumUpTo(r, k - 1) + r[k]
      BY <2>2, SumUpToProperties
    <2>4. m \in 1 .. m /\ m - 1 = n
      BY <2>1
    <2> QED BY <1>9, <2>1, <2>3, <2>4
  <1>13. \A j : TokensSpent(j) = SumUpTo(s, j)
    BY <1>1, <1>6 DEF TokensSpent
  <1>14. PICK y \in Int, v \in Int, x \in Int : y = Refilled(level, clock) /\ v = TokensSpent(n) /\ x = BucketSize
    <2>1. Refilled(level, clock) \in 0 .. BucketSize /\ BucketSize \in Nat
      BY LimiterTypes, LimiterFacts
    <2>2. n \in 0 .. n
      OBVIOUS
    <2>3. TokensSpent(n) \in Int
      BY <1>1, <2>2, SpentFacts
    <2> QED BY <2>1, <2>3
  <1>15. SumUpTo(r, n + 1) = v + cost
    BY <1>11, <1>12, <1>13, <1>14
  <1>16. ASSUME NEW i \in 1 .. n + 1, SumUpTo(r, n + 1) - SumUpTo(r, i - 1) > BucketSize + RefillRate * (b[n + 1].at - b[i].at)
         PROVE  OverLimit(b)
    <2>1. n + 1 \in i .. Len(b) /\ i \in DOMAIN b
      BY <1>3, <1>4
    <2>2. \E j \in i .. Len(b) : SumUpTo(r, j) - SumUpTo(r, i - 1) > BucketSize + RefillRate * (b[j].at - b[i].at)
      BY <1>16, <2>1
    <2> QED BY <1>7, <2>1, <2>2 DEF OverLimit
  <1>17. CASE y = x
    <2>1. PICK t \in Int : t = clock
      BY LimiterTypes
    <2>2. RefillRate * (t - t) = 0
      BY RefillTime
    <2>3. n \in 0 .. n /\ n + 1 - 1 = n /\ n + 1 \in 1 .. n + 1
      OBVIOUS
    <2>4. SumUpTo(r, n) = v
      BY <1>11, <1>13, <1>14, <2>3
    <2>5. (v + cost) - v > x + 0
      BY <1>14, <1>17
    <2>6. SumUpTo(r, n + 1) - SumUpTo(r, n + 1 - 1) > BucketSize + RefillRate * (b[n + 1].at - b[n + 1].at)
      BY <1>3, <1>5, <1>14, <1>15, <2>1, <2>2, <2>3, <2>4, <2>5
    <2> QED BY <1>1, <1>2, <1>16, <2>3, <2>6
  <1>18. CASE y # x
    <2>1. PICK i \in 1 .. n : FullSince(i)
      BY <1>1, <1>14, <1>18 DEF BucketFair
    <2>2. i - 1 \in 0 .. n /\ i \in 1 .. n + 1
      BY <2>1
    <2>3. PICK w \in Int : w = TokensSpent(i - 1)
      BY <1>1, <2>2, SpentFacts
    <2>4. PICK z \in Int : z = RefillRate * (clock - a[i].at)
      <3>1. PICK t \in Int, u \in Int : t = clock /\ u = a[i].at
        <4>1. a[i].at \in 0 .. MaxClock
          BY <1>1, <2>1, LimiterTypes
        <4> QED BY <4>1, LimiterTypes
      <3>2. RefillRate * (t - u) \in Int
        BY RefillTime
      <3> QED BY <3>1, <3>2
    <2>5. x + z <= v - w + y
      BY <1>1, <1>14, <2>1, <2>3, <2>4 DEF FullSince
    <2>6. SumUpTo(r, i - 1) = w
      BY <1>11, <1>13, <2>2, <2>3
    <2>7. (v + cost) - w > x + z
      BY <1>14, <2>5
    <2>8. SumUpTo(r, n + 1) - SumUpTo(r, i - 1) > BucketSize + RefillRate * (b[n + 1].at - b[i].at)
      BY <1>3, <1>5, <1>14, <1>15, <2>1, <2>4, <2>6, <2>7
    <2> QED BY <1>1, <1>2, <1>16, <2>2, <2>8
  <1> QED BY <1>17, <1>18

\* A refusal: by the counter, by the entries or by what the bucket holds.
LEMMA RefusalsFair ==
  ASSUME Racing \subseteq {"fixed"}, FairInv, LimiterNext, NEW c \in Checkers, ~Refused(checks[c]), Refused(checks'[c])
  PROVE  OverLimit(Append(admitted, Hit(checks'[c].now, checks'[c].cost)))
  <1>1. LimiterTyped /\ OneCheck /\ FixedKept /\ LogKept /\ BucketKept /\ FixedFair /\ LogFair /\ BucketFair
    BY DEF FairInv, LimiterIInv
  <1>2. /\ checks \in [Checkers -> CheckType] /\ clock \in 0 .. MaxClock /\ clock \in Nat /\ HitLimit \in Nat
        /\ algorithm \in {"fixed", "log", "bucket"}
    BY <1>1, LimiterTypes, LimiterFacts DEF LimiterTyped
  <1>3. ASSUME algorithm = "fixed" PROVE OverLimit(Append(admitted, Hit(checks'[c].now, checks'[c].cost)))
    <2>1. checks[c].at \in {"idle", "expiring", "refused"} /\ checks[c].at # "refused"
      BY <1>1, <1>3 DEF FixedKept, Refused
    <2>2. PICK d \in Checkers : CheckFixed(d) \/ Expire(d)
      <3>1. ~Pass /\ ~Reset /\ ~UNCHANGED limiterVars
        BY DEF Pass, Reset, limiterVars, Refused
      <3> QED BY <1>1, <1>3, <3>1, FixedSteps
    <2>3. CheckFixed(d) /\ d = c
      <3>1. d = c
        BY <1>2, <2>2 DEF CheckFixed, Expire, Refused
      <3>2. ~Expire(c)
        BY <1>2, <2>1 DEF Expire, Refused, Idling
      <3> QED BY <2>2, <3>1, <3>2
    <2>4. PICK w \in WindowsSeen, n \in Nat : w = WindowOf(clock) /\ n = counters[w].n
      BY <1>1, <1>2, LimiterTypes
    <2>5. ~(n < HitLimit) /\ checks'[c].now = clock /\ checks'[c].cost = 1
      BY <1>2, <2>1, <2>3, <2>4 DEF CheckFixed, UnderLimit, Refused, Idling
    <2>6. HitLimit <= Cardinality(WindowHits(w))
      <3>1. counters[w].n <= Cardinality(WindowHits(w)) \/ HitLimit <= Cardinality(WindowHits(w))
        BY <1>1, <1>3 DEF FixedFair
      <3>2. Cardinality(WindowHits(w)) \in Nat
        BY <1>1, AdmittedCounts DEF WindowHits
      <3> QED BY <1>2, <2>4, <2>5, <3>1, <3>2
    <2>7. PICK h \in HitType : h = Hit(clock, 1) /\ h.at = clock
      <3>1. Hit(clock, 1) \in HitType /\ Hit(clock, 1).at = clock
        BY <1>2 DEF Hit, HitType
      <3> QED BY <3>1
    <2>8. PICK S : S = {t \in 0 .. MaxClock : WindowOf(t) = w}
      OBVIOUS
    <2>9. HitLimit <= Cardinality(AdmittedAt(S)) /\ h.at \in S
          /\ S = {t \in 0 .. MaxClock : WindowOf(t) = WindowOf(h.at)}
      BY <1>2, <2>4, <2>6, <2>7, <2>8 DEF WindowHits
    <2>10. OverLimit(Append(admitted, h))
      BY ONLY <1>1, <1>3, <2>9, h \in HitType, OverInWindow
    <2> QED BY <2>5, <2>7, <2>10
  <1>4. ASSUME algorithm = "log" PROVE OverLimit(Append(admitted, Hit(checks'[c].now, checks'[c].cost)))
    <2>1. LogStage(c)
      BY <1>1, <1>4 DEF LogKept, LogState
    <2>2. PICK d \in Checkers : CheckLog(d) \/ CountLog(d) \/ AddToLog(d) \/ Expire(d)
      <3>1. ~Pass /\ ~Reset /\ ~UNCHANGED limiterVars
        BY DEF Pass, Reset, limiterVars, Refused
      <3> QED BY <1>1, <1>4, <3>1, LogSteps
    <2>3. d = c
      BY <1>2, <2>2 DEF CheckLog, CountLog, AddToLog, Expire, Refused
    <2>4. CountLog(c)
      <3>1. checks[c].at \in {"idle", "counting", "adding", "expiring"}
        BY <2>1 DEF LogStage, Refused
      <3>2. ~CheckLog(c)
        <4> SUFFICES ASSUME CheckLog(c) PROVE FALSE
          OBVIOUS
        <4>1. checks'[c].at = "counting"
          BY <1>2 DEF CheckLog
        <4> QED BY <4>1 DEF Refused
      <3>4. ~AddToLog(c)
        <4> SUFFICES ASSUME AddToLog(c) PROVE FALSE
          OBVIOUS
        <4>1. checks'[c].at = "expiring"
          BY <1>2 DEF AddToLog
        <4> QED BY <4>1 DEF Refused
      <3>3. ~Expire(c)
        BY <1>2, <3>1 DEF Expire, Refused, Idling
      <3> QED BY <2>2, <2>3, <3>2, <3>3, <3>4
    <2>5. /\ checks[c].at = "counting" /\ ~(Cardinality(entries.hits) < HitLimit)
          /\ checks'[c].now = checks[c].now /\ checks'[c].cost = checks[c].cost
      BY <1>2, <2>4 DEF CountLog, UnderLimit, Refused
    <2>6. checks[c].now = clock /\ checks[c].cost = 1 /\ \A h \in entries.hits : ~OutOfWindow(h.at, clock)
      <3>1. ~Resting(c)
        BY <2>5 DEF Resting
      <3>2. checks[c].now = clock
        BY <1>1, <1>4, <3>1 DEF OneCheck
      <3> QED BY <1>1, <1>4, <2>5, <3>2 DEF LogFair
    <2>7. PICK H, a : H = entries.hits /\ a = admitted /\ a \in Seq(HitType)
      BY <1>1, LimiterTypes
    <2>8. PICK e : Backed(e, H, a)
      BY <1>1, <1>4, <2>7 DEF LogFair
    <2>9. PICK S : S = clock - WindowTime + 1 .. clock
      OBVIOUS
    <2>10. \A k \in H : e[k] \in AdmittedAt(S)
      <3> SUFFICES ASSUME NEW k \in H PROVE e[k] \in AdmittedAt(S)
        OBVIOUS
      <3>1. e[k] \in 1 .. Len(a) /\ a[e[k]].at = k.at
        BY <2>8 DEF Backed
      <3>2. PICK j \in 1 .. Len(a) : j = e[k]
        BY <3>1
      <3>3. PICK t \in Int : t = a[j].at
        <4>1. a[j].at \in 0 .. MaxClock
          BY <1>1, <2>7, <3>2, LimiterTypes
        <4> QED BY <4>1
      <3>4. t <= clock
        BY <1>1, <2>7, <3>3 DEF LimiterTyped
      <3>5. ~(t <= clock - WindowTime)
        BY <2>6, <2>7, <3>1, <3>2, <3>3 DEF OutOfWindow
      <3>6. t \in S
        BY <1>2, <2>9, <3>4, <3>5, LimiterFacts
      <3> QED BY <2>7, <3>2, <3>3, <3>6 DEF AdmittedAt
    <2>11. e \in [H -> AdmittedAt(S)] /\ \A i, k \in H : e[i] = e[k] => i = k
      BY <2>8, <2>10 DEF Backed
    <2>12. IsFiniteSet(H)
      BY <1>1, <1>4, <2>7 DEF LogKept, LogState
    <2>13. IsFiniteSet(AdmittedAt(S)) /\ Cardinality(AdmittedAt(S)) \in Nat
      BY <1>1, AdmittedCounts
    <2>14. Cardinality(H) <= Cardinality(AdmittedAt(S)) /\ Cardinality(H) \in Nat
      <3>1. PICK A : A = AdmittedAt(S)
        OBVIOUS
      <3>2. IsFiniteSet(A) /\ e \in [H -> A] /\ \A i, k \in H : e[i] = e[k] => i = k
        BY <2>11, <2>13, <3>1
      <3>3. Cardinality(H) <= Cardinality(A)
        BY <3>2, InjectionCount
      <3>4. Cardinality(H) \in Nat
        BY <2>12, FS_CardinalityType
      <3> QED BY <3>1, <3>3, <3>4
    <2>15. HitLimit <= Cardinality(AdmittedAt(S))
      BY <1>2, <2>5, <2>7, <2>13, <2>14
    <2>16. PICK h \in HitType : h = Hit(clock, 1) /\ h.at = clock
      <3>1. Hit(clock, 1) \in HitType /\ Hit(clock, 1).at = clock
        BY <1>2 DEF Hit, HitType
      <3> QED BY <3>1
    <2>17. S = h.at - WindowTime + 1 .. h.at /\ h.at \in S
      BY <1>2, <2>9, <2>16, LimiterFacts
    <2>18. OverLimit(Append(admitted, h))
      BY ONLY <1>1, <1>4, <2>15, <2>17, h \in HitType, OverInWindow
    <2> QED BY <2>5, <2>6, <2>16, <2>18
  <1>5. ASSUME algorithm = "bucket" PROVE OverLimit(Append(admitted, Hit(checks'[c].now, checks'[c].cost)))
    <2>1. BucketStage(c)
      BY <1>1, <1>5 DEF BucketKept, BucketState
    <2>2. PICK d \in Checkers : (\E cost \in Costs : CheckBucket(d, cost)) \/ PutBucket(d) \/ Expire(d)
      <3>1. ~Pass /\ ~Reset /\ ~UNCHANGED limiterVars
        BY DEF Pass, Reset, limiterVars, Refused
      <3> QED BY <1>1, <1>5, <3>1, BucketSteps
    <2>3. d = c
      BY <1>2, <2>2 DEF CheckBucket, PutBucket, Expire, Refused
    <2>4. PutBucket(c)
      <3>1. \A cost \in Costs : ~CheckBucket(c, cost)
        BY <1>2 DEF CheckBucket, Refused
      <3>2. ~Expire(c)
        BY <1>2 DEF Expire, Refused, Idling
      <3> QED BY <2>2, <2>3, <3>1, <3>2
    <2>5. PICK k \in CheckType : k = checks[c]
      BY <1>2
    <2>6. /\ k.at = "putting" /\ ~(k.read >= k.cost)
          /\ checks'[c].now = k.now /\ checks'[c].cost = k.cost
      BY <1>2, <2>4, <2>5 DEF PutBucket, Refused
    <2>7. k.now = clock
      <3>1. ~Resting(c)
        BY <2>5, <2>6 DEF Resting
      <3> QED BY <1>1, <1>5, <2>5, <3>1 DEF OneCheck
    <2>8. k.read = Refilled(level, clock)
      BY <2>1, <2>5, <2>6 DEF BucketStage
    <2>9. k.cost \in Nat /\ k.read \in Nat
      BY DEF CheckType
    <2>10. Refilled(level, clock) < k.cost
      BY <2>6, <2>8, <2>9
    <2>11. PICK q \in Nat : q = k.cost
      BY <2>9
    <2>12. PICK h \in HitType : h = Hit(clock, q)
      BY <1>2 DEF Hit, HitType
    <2>13. OverLimit(Append(admitted, h))
      BY <1>1, <1>5, <2>10, <2>11, <2>12, OverInBucket
    <2> QED BY <2>6, <2>7, <2>11, <2>12, <2>13
  <1> QED BY <1>2, <1>3, <1>4, <1>5

\* A check is refused only if its admission would have broken the limit: what the
\* counter, the log and the bucket hold against a caller was all admitted and not
\* reset.  Checks of the fixed window may interleave in any way, those of the log and
\* the bucket run without interruption.
THEOREM RefusesFairly ==
  ASSUME Racing \subseteq {"fixed"}
  PROVE  LimiterSpec => RefusedFairly
  <1>1. FairInv /\ [LimiterNext]_limiterVars => FairInv'
    BY FairInductive
  <1>2. FairInv /\ [LimiterNext]_limiterVars =>
          [\A c \in Checkers :
             ~Refused(checks[c]) /\ Refused(checks'[c])
               => OverLimit(Append(admitted, Hit(checks'[c].now, checks'[c].cost)))]_limiterVars
    BY RefusalsFair
  <1> QED BY <1>1, <1>2, FairStarts, PTL DEF LimiterSpec, RefusedFairly

-----------------------------------------------------------------------------
(***************************************************************************)
(*  The bulkhead gives its slots exactly and in turn, for any number of    *)
(*  tenants and slots, any queue and any deadlines.                        *)
(*                                                                         *)
(*  Everything that frees a slot ends in the pump, so the pump is treated  *)
(*  once, for any number of slots in use and any tickets held: those in    *)
(*  time stand in the queue in their order, the first of them are served,  *)
(*  and the others stay in it.                                             *)
(***************************************************************************)

Tickets == {"none", "queued", "live", "spent"}

Waiter == [tenant : Tenants, left : Nat]

Live(held) == {t \in Tenants : held[t] = "live"}

\* A queue in which every tenant that is said to be queued has one place.
QueueOf(w, held) ==
  /\ w \in Seq(Waiter)
  /\ \A i \in 1 .. Len(w) : held[w[i].tenant] = "queued"
  /\ \A i, j \in 1 .. Len(w) : w[i].tenant = w[j].tenant => i = j
  /\ \A t \in Tenants : held[t] = "queued" => \E i \in 1 .. Len(w) : w[i].tenant = t

\* The live tickets are counted.
LiveAre(held, n) ==
  /\ held \in [Tenants -> Tickets]
  /\ IsFiniteSet(Live(held)) /\ n = Cardinality(Live(held))

BulkheadIInv ==
  /\ QueueOf(waiting, ticket) /\ LiveAre(ticket, occupied)
  /\ occupied \in Nat /\ occupied <= BulkheadSlots
  /\ Len(waiting) <= MaxWaiting
  /\ Len(waiting) > 0 => occupied = BulkheadSlots

-----------------------------------------------------------------------------
\* A queue with one place for each tenant is as long as it has tenants.
LEMMA WaitersCount ==
  ASSUME NEW w \in Seq(Waiter), \A i, j \in 1 .. Len(w) : w[i].tenant = w[j].tenant => i = j
  PROVE  IsFiniteSet(Waiters(w)) /\ Cardinality(Waiters(w)) = Len(w) /\ Len(w) \in Nat
  <1>1. Len(w) \in Nat /\ DOMAIN w = 1 .. Len(w) /\ \A i \in 1 .. Len(w) : w[i] \in Waiter
    BY LenProperties, ElementOfSeq
  <1>2. PICK s : s = [i \in 1 .. Len(w) |-> w[i].tenant]
    OBVIOUS
  <1>3. PICK n \in Nat : n = Len(w)
    BY <1>1
  <1>4. s \in [1 .. n -> Tenants]
    BY <1>1, <1>2, <1>3 DEF Waiter
  <1>5. s \in Seq(Tenants) /\ Len(s) = n /\ DOMAIN s = 1 .. n
    BY <1>3, <1>4, IsASeq
  <1>6. Distinct(s)
    BY <1>2, <1>3, <1>5 DEF Distinct
  <1>7. IsFiniteSet({s[i] : i \in DOMAIN s}) /\ Cardinality({s[i] : i \in DOMAIN s}) = Len(s)
    BY <1>5, <1>6, DistinctCount
  <1>8. Waiters(w) = {s[i] : i \in DOMAIN s}
    BY <1>1, <1>2, <1>3, <1>5 DEF Waiters
  <1> QED BY <1>3, <1>5, <1>7, <1>8

\* Those in time, and where they stand in the queue.
LEMMA InTimeLeaves ==
  ASSUME NEW w \in Seq(Waiter)
  PROVE  /\ InTime(w) \in Seq(Waiter)
         /\ \E e : /\ e \in [1 .. Len(InTime(w)) -> 1 .. Len(w)]
                   /\ \A i \in 1 .. Len(InTime(w)) : InTime(w)[i] = w[e[i]] /\ w[e[i]].left > 0
                   /\ \A i, j \in 1 .. Len(InTime(w)) : i < j => e[i] < e[j]
                   /\ \A k \in 1 .. Len(w) : w[k].left > 0 => \E i \in 1 .. Len(InTime(w)) : e[i] = k
  <1>1. PICK S : S = {x \in Range(w) : x.left = 0}
    OBVIOUS
  <1>2. PICK q : q = Without(w, S)
    OBVIOUS
  <1>3. q \in Seq(Waiter)
    BY <1>2, WithoutProperties
  <1>4. PICK e : LeavesOf(e, q, w, Len(w), S)
    BY <1>2, WithoutKeepsOrder
  <1>5. Len(w) \in Nat /\ DOMAIN w = 1 .. Len(w) /\ \A i \in 1 .. Len(w) : w[i] \in Waiter
    BY LenProperties, ElementOfSeq
  <1>6. \A i \in 1 .. Len(w) : w[i].left \in Nat /\ (w[i] \notin S <=> w[i].left > 0)
    <2> SUFFICES ASSUME NEW i \in 1 .. Len(w) PROVE w[i].left \in Nat /\ (w[i] \notin S <=> w[i].left > 0)
      OBVIOUS
    <2>1. w[i] \in Range(w)
      BY <1>5 DEF Range
    <2>2. w[i].left \in Nat
      BY <1>5 DEF Waiter
    <2> QED BY <1>1, <2>1, <2>2
  <1>7. \A i \in 1 .. Len(q) : e[i] \in 1 .. Len(w)
    BY <1>4 DEF LeavesOf
  <1>8. \A i \in 1 .. Len(q) : q[i] = w[e[i]] /\ w[e[i]].left > 0
    BY <1>4, <1>6, <1>7 DEF LeavesOf
  <1>9. \A k \in 1 .. Len(w) : w[k].left > 0 => \E i \in 1 .. Len(q) : e[i] = k
    BY <1>4, <1>6 DEF LeavesOf
  <1>10. e \in [1 .. Len(q) -> 1 .. Len(w)] /\ \A i, j \in 1 .. Len(q) : i < j => e[i] < e[j]
    BY <1>4 DEF LeavesOf
  <1>11. InTime(w) = q
    BY <1>1, <1>2 DEF InTime
  <1> QED BY <1>3, <1>8, <1>9, <1>10, <1>11

\* What pump leaves: the waiters behind those it serves, and their tickets.
PumpGives(w, n, q, e, held, after) ==
  /\ q \in Seq(Waiter) /\ n \in 0 .. Len(q)
  /\ e \in [1 .. Len(q) -> 1 .. Len(w)]
  /\ \A i \in 1 .. Len(q) : q[i] = w[e[i]] /\ w[e[i]].left > 0
  /\ \A i, j \in 1 .. Len(q) : i < j => e[i] < e[j]
  /\ \A k \in 1 .. Len(w) : w[k].left > 0 => \E i \in 1 .. Len(q) : e[i] = k
  /\ after \in [Tenants -> Tickets]
  /\ \A i \in 1 .. Len(q) : after[q[i].tenant] = IF i <= n THEN "live" ELSE "queued"
  /\ \A k \in 1 .. Len(w) : w[k].left = 0 => after[w[k].tenant] = "none"
  /\ \A t \in Tenants : (\A k \in 1 .. Len(w) : w[k].tenant # t) => after[t] = held[t]

\* Pump serves the oldest in time, as many as slots are free.
LEMMA HandOutServes ==
  ASSUME NEW used \in Nat, NEW held \in [Tenants -> Tickets], used <= BulkheadSlots,
         QueueOf(waiting, held), HandOut(used, held)
  PROVE  \E n, q, e : /\ PumpGives(waiting, n, q, e, held, ticket')
                      /\ occupied' = used + n /\ used + n <= BulkheadSlots
                      /\ n < Len(q) => used + n = BulkheadSlots
                      /\ waiting' = SubSeq(q, n + 1, Len(q))
  <1>1. PICK w : w = waiting
    OBVIOUS
  <1>2. w \in Seq(Waiter) /\ \A i, j \in 1 .. Len(w) : w[i].tenant = w[j].tenant => i = j
    BY <1>1 DEF QueueOf
  <1>3. PICK q : q = InTime(w)
    OBVIOUS
  <1>4. q \in Seq(Waiter)
    BY <1>2, <1>3, InTimeLeaves
  <1>5. PICK e : /\ e \in [1 .. Len(q) -> 1 .. Len(w)]
                 /\ \A i \in 1 .. Len(q) : q[i] = w[e[i]] /\ w[e[i]].left > 0
                 /\ \A i, j \in 1 .. Len(q) : i < j => e[i] < e[j]
                 /\ \A k \in 1 .. Len(w) : w[k].left > 0 => \E i \in 1 .. Len(q) : e[i] = k
    BY <1>2, <1>3, InTimeLeaves
  <1>6. /\ Len(w) \in Nat /\ DOMAIN w = 1 .. Len(w) /\ \A i \in 1 .. Len(w) : w[i] \in Waiter
        /\ Len(q) \in Nat /\ DOMAIN q = 1 .. Len(q) /\ \A i \in 1 .. Len(q) : q[i] \in Waiter
    BY <1>2, <1>4, LenProperties, ElementOfSeq
  <1>7. BulkheadSlots \in Nat
    BY BulkheadAssumption
  <1>8. PICK free \in Nat : free = (IF BulkheadSlots > used THEN BulkheadSlots - used ELSE 0) /\ used + free = BulkheadSlots
    BY <1>7
  <1>9. PICK n \in 0 .. Len(q) : n = (IF free < Len(q) THEN free ELSE Len(q)) /\ n <= free /\ (n < Len(q) => n = free)
    <2>1. PICK l \in Nat : l = Len(q)
      BY <1>6
    <2>2. PICK n : n = IF free < l THEN free ELSE l
      OBVIOUS
    <2>3. n \in 0 .. l /\ n <= free /\ (n < l => n = free)
      BY <2>2
    <2> QED BY <2>1, <2>2, <2>3
  <1>10. PICK next : next = Waiters(SubSeq(q, 1, n))
    OBVIOUS
  <1>11. PICK gone : gone = Waiters(w) \ Waiters(q)
    OBVIOUS
  <1>12. /\ occupied' = used + n
         /\ waiting' = SubSeq(q, n + 1, Len(q))
         /\ ticket' = [t \in Tenants |-> CASE t \in next -> "live" [] t \in gone -> "none" [] OTHER -> held[t]]
    BY <1>1, <1>3, <1>8, <1>9, <1>10, <1>11 DEF HandOut
  <1>13. next = {q[i].tenant : i \in 1 .. n}
    <2>1. /\ SubSeq(q, 1, n) \in Seq(Waiter) /\ Len(SubSeq(q, 1, n)) = n
          /\ \A i \in 1 .. n : SubSeq(q, 1, n)[i] = q[i]
      <3>1. 1 \in 1 .. Len(q) + 1 /\ n \in 0 .. Len(q) /\ \A i \in 1 .. n : q[i] \in Waiter
        BY <1>6
      <3>2. \A i \in 1 .. n : 1 + i - 1 = i
        OBVIOUS
      <3>3. n \in Int /\ 1 \in Int /\ (IF 1 <= n THEN n - 1 + 1 ELSE 0) = n
        BY <1>9
      <3> QED BY <1>4, <1>6, <3>1, <3>2, <3>3, SubSeqProperties
    <2>2. DOMAIN SubSeq(q, 1, n) = 1 .. n
      BY <2>1, LenProperties
    <2> QED BY <1>10, <2>1, <2>2 DEF Waiters
  <1>14. Waiters(q) = {q[i].tenant : i \in 1 .. Len(q)} /\ Waiters(w) = {w[i].tenant : i \in 1 .. Len(w)}
    BY <1>6 DEF Waiters
  <1>15. \A i, j \in 1 .. Len(q) : q[i].tenant = q[j].tenant => i = j
    <2> SUFFICES ASSUME NEW i \in 1 .. Len(q), NEW j \in 1 .. Len(q), q[i].tenant = q[j].tenant PROVE i = j
      OBVIOUS
    <2>1. e[i] = e[j] /\ e[i] \in Int
      BY <1>2, <1>5
    <2>2. ~(i < j) /\ ~(j < i)
      BY <1>5, <2>1
    <2> QED BY <2>2
  <1>16. ASSUME NEW i \in 1 .. Len(q)
         PROVE  ticket'[q[i].tenant] = IF i <= n THEN "live" ELSE "queued"
    <2>1. q[i].tenant \in Tenants /\ q[i].tenant \notin gone
      BY <1>6, <1>11, <1>14 DEF Waiter
    <2>2. q[i].tenant \in next <=> i <= n
      <3>1. \A j \in 1 .. n : j \in 1 .. Len(q) /\ j <= n
        BY <1>6
      <3>2. i <= n => i \in 1 .. n
        OBVIOUS
      <3> QED BY <1>13, <1>15, <3>1, <3>2
    <2>3. held[q[i].tenant] = "queued"
      <3>1. q[i] = w[e[i]] /\ e[i] \in 1 .. Len(w)
        BY <1>5
      <3> QED BY <1>1, <3>1 DEF QueueOf
    <2> QED BY <1>12, <2>1, <2>2, <2>3
  <1>17. ASSUME NEW k \in 1 .. Len(w), w[k].left = 0
         PROVE  ticket'[w[k].tenant] = "none"
    <2>1. w[k].tenant \in Tenants
      BY <1>6 DEF Waiter
    <2>2. \A i \in 1 .. Len(q) : q[i].tenant # w[k].tenant
      <3> SUFFICES ASSUME NEW i \in 1 .. Len(q), q[i].tenant = w[k].tenant PROVE FALSE
        OBVIOUS
      <3>1. e[i] \in 1 .. Len(w) /\ w[e[i]].tenant = w[k].tenant /\ w[e[i]].left > 0
        BY <1>5
      <3>2. e[i] = k
        BY <1>2, <3>1
      <3> QED BY <1>17, <3>1, <3>2
    <2>3. w[k].tenant \in gone
      BY <1>11, <1>14, <2>2
    <2>4. \A j \in 1 .. n : j \in 1 .. Len(q)
      BY <1>6
    <2>5. w[k].tenant \notin next
      BY <1>13, <2>2, <2>4
    <2> QED BY <1>12, <2>1, <2>3, <2>5
  <1>18. ASSUME NEW t \in Tenants, \A k \in 1 .. Len(w) : w[k].tenant # t
         PROVE  ticket'[t] = held[t]
    <2>1. t \notin gone
      BY <1>11, <1>14, <1>18
    <2>2. t \notin next
      <3> SUFFICES ASSUME NEW i \in 1 .. n, q[i].tenant = t PROVE FALSE
        BY <1>13
      <3>1. i \in 1 .. Len(q)
        BY <1>6
      <3>2. e[i] \in 1 .. Len(w) /\ w[e[i]].tenant = t
        BY <1>5, <3>1
      <3> QED BY <1>18, <3>2
    <2> QED BY <1>12, <2>1, <2>2
  <1>19. ticket' \in [Tenants -> Tickets]
    BY <1>12 DEF Tickets
  <1>20. PumpGives(w, n, q, e, held, ticket')
    BY <1>4, <1>5, <1>16, <1>17, <1>18, <1>19 DEF PumpGives
  <1>21. used + n <= BulkheadSlots /\ (n < Len(q) => used + n = BulkheadSlots)
    BY <1>7, <1>8, <1>9
  <1> QED BY <1>1, <1>12, <1>20, <1>21

\* Pumping keeps the invariant.
LEMMA HandOutKeeps ==
  ASSUME NEW used \in Nat, NEW held \in [Tenants -> Tickets], used <= BulkheadSlots, Len(waiting) <= MaxWaiting,
         QueueOf(waiting, held), LiveAre(held, used), HandOut(used, held)
  PROVE  BulkheadIInv'
  <1>1. PICK n, q, e : /\ PumpGives(waiting, n, q, e, held, ticket')
                       /\ occupied' = used + n /\ used + n <= BulkheadSlots
                       /\ n < Len(q) => used + n = BulkheadSlots
                       /\ waiting' = SubSeq(q, n + 1, Len(q))
    BY HandOutServes
  <1>2. PICK w : w = waiting
    OBVIOUS
  <1>3. PICK after : after = ticket'
    OBVIOUS
  <1>4. PICK left : left = waiting'
    OBVIOUS
  <1>5. PumpGives(w, n, q, e, held, after) /\ left = SubSeq(q, n + 1, Len(q))
    BY <1>1, <1>2, <1>3, <1>4
  <1>6. /\ q \in Seq(Waiter) /\ n \in 0 .. Len(q) /\ after \in [Tenants -> Tickets]
        /\ e \in [1 .. Len(q) -> 1 .. Len(w)]
        /\ \A i \in 1 .. Len(q) : q[i] = w[e[i]]
        /\ \A i, j \in 1 .. Len(q) : i < j => e[i] < e[j]
    BY <1>5 DEF PumpGives
  <1>7. \A i \in 1 .. Len(q) : after[q[i].tenant] = IF i <= n THEN "live" ELSE "queued"
    BY <1>5 DEF PumpGives
  <1>8. /\ w \in Seq(Waiter)
        /\ \A i \in 1 .. Len(w) : held[w[i].tenant] = "queued"
        /\ \A i, j \in 1 .. Len(w) : w[i].tenant = w[j].tenant => i = j
        /\ \A t \in Tenants : held[t] = "queued" => \E i \in 1 .. Len(w) : w[i].tenant = t
    BY <1>2 DEF QueueOf
  <1>9. /\ Len(q) \in Nat /\ Len(w) \in Nat /\ \A i \in 1 .. Len(q) : q[i] \in Waiter
        /\ \A k \in 1 .. Len(w) : w[k].left \in Nat
    <2>1. \A k \in 1 .. Len(w) : w[k] \in Waiter
      BY <1>8, ElementOfSeq
    <2>2. Len(q) \in Nat /\ Len(w) \in Nat /\ \A i \in 1 .. Len(q) : q[i] \in Waiter
      BY <1>6, <1>8, LenProperties, ElementOfSeq
    <2> QED BY <2>1, <2>2 DEF Waiter
  <1>10. /\ left \in Seq(Waiter) /\ Len(left) = Len(q) - n
         /\ \A i \in 1 .. Len(q) - n : left[i] = q[n + i]
    BY <1>5, <1>6, Suffix
  <1>11. \A i, j \in 1 .. Len(q) : e[i] = e[j] => i = j
    <2> SUFFICES ASSUME NEW i \in 1 .. Len(q), NEW j \in 1 .. Len(q), e[i] = e[j] PROVE i = j
      OBVIOUS
    <2>1. e[i] \in Int
      BY <1>6
    <2>2. ~(i < j) /\ ~(j < i)
      BY <1>6, <2>1
    <2> QED BY <2>2
  <1>12. \A i, j \in 1 .. Len(q) : q[i].tenant = q[j].tenant => i = j
    <2> SUFFICES ASSUME NEW i \in 1 .. Len(q), NEW j \in 1 .. Len(q), q[i].tenant = q[j].tenant PROVE i = j
      OBVIOUS
    <2>1. e[i] \in 1 .. Len(w) /\ e[j] \in 1 .. Len(w)
      BY <1>6
    <2>2. w[e[i]].tenant = w[e[j]].tenant
      BY <1>6
    <2>3. e[i] = e[j]
      BY <1>8, <2>1, <2>2
    <2> QED BY <1>11, <2>3
  <1>13. QueueOf(left, after)
    <2>1. \A i \in 1 .. Len(left) : n + i \in 1 .. Len(q) /\ left[i] = q[n + i] /\ ~(n + i <= n)
      <3>1. \A i \in 1 .. Len(q) - n : n + i \in 1 .. Len(q) /\ ~(n + i <= n)
        BY <1>6, <1>9
      <3> QED BY <1>10, <3>1
    <2>2. \A i \in 1 .. Len(left) : after[left[i].tenant] = "queued"
      BY <1>7, <2>1
    <2>3. \A i, j \in 1 .. Len(left) : left[i].tenant = left[j].tenant => i = j
      <3> SUFFICES ASSUME NEW i \in 1 .. Len(left), NEW j \in 1 .. Len(left), left[i].tenant = left[j].tenant
                   PROVE  i = j
        OBVIOUS
      <3>1. n + i = n + j
        BY <1>12, <2>1
      <3> QED BY <1>6, <1>9, <3>1
    <2>4. ASSUME NEW t \in Tenants, after[t] = "queued"
          PROVE  \E i \in 1 .. Len(left) : left[i].tenant = t
      <3>1. PICK k \in 1 .. Len(w) : w[k].tenant = t
        <4>1. CASE \A k \in 1 .. Len(w) : w[k].tenant # t
          BY <1>5, <1>8, <2>4, <4>1 DEF PumpGives
        <4> QED BY <4>1
      <3>2. w[k].left > 0
        <4>1. w[k].left # 0
          BY <1>5, <2>4, <3>1 DEF PumpGives
        <4>2. w[k].left \in Nat
          BY <1>9, <3>1
        <4> QED BY <4>1, <4>2
      <3>3. PICK i \in 1 .. Len(q) : e[i] = k
        BY <1>5, <3>2 DEF PumpGives
      <3>4. after[q[i].tenant] = "queued"
        BY <1>6, <2>4, <3>1, <3>3
      <3>5. ~(i <= n)
        BY <1>7, <3>4
      <3>6. PICK j \in 1 .. Len(left) : n + j = i
        <4>1. i - n \in 1 .. Len(left) /\ n + (i - n) = i
          BY <1>6, <1>9, <1>10, <3>5
        <4> QED BY <4>1
      <3>7. left[j].tenant = t
        BY <1>6, <2>1, <3>1, <3>3, <3>6
      <3> QED BY <3>7
    <2> QED BY <1>10, <2>2, <2>3, <2>4 DEF QueueOf
  <1>14. PICK p : p = SubSeq(q, 1, n)
    OBVIOUS
  <1>15. p \in Seq(Waiter) /\ Len(p) = n /\ \A i \in 1 .. n : p[i] = q[i] /\ i \in 1 .. Len(q)
    <2>1. 1 \in 1 .. Len(q) + 1 /\ \A i \in 1 .. n : q[i] \in Waiter /\ i \in 1 .. Len(q)
      BY <1>6, <1>9
    <2>2. \A i \in 1 .. n : 1 + i - 1 = i
      OBVIOUS
    <2>3. n \in Int /\ 1 \in Int /\ (IF 1 <= n THEN n - 1 + 1 ELSE 0) = n
      BY <1>6, <1>9
    <2> QED BY <1>6, <1>9, <1>14, <2>1, <2>2, <2>3, SubSeqProperties
  <1>16. /\ IsFiniteSet(Waiters(p)) /\ Cardinality(Waiters(p)) = n
         /\ Waiters(p) = {q[i].tenant : i \in 1 .. n}
    <2>1. \A i, j \in 1 .. Len(p) : p[i].tenant = p[j].tenant => i = j
      BY <1>12, <1>15
    <2>2. DOMAIN p = 1 .. n
      BY <1>15, LenProperties
    <2>3. IsFiniteSet(Waiters(p)) /\ Cardinality(Waiters(p)) = n
      BY <1>15, <2>1, WaitersCount
    <2>4. Waiters(p) = {p[i].tenant : i \in 1 .. n}
      BY <2>2 DEF Waiters
    <2>5. \A i \in 1 .. n : p[i] = q[i]
      BY <1>15
    <2>6. {p[i].tenant : i \in 1 .. n} = {q[i].tenant : i \in 1 .. n}
      BY <2>5
    <2> QED BY <2>3, <2>4, <2>6
  <1>17. LiveAre(after, used + n)
    <2>1. Live(after) = Live(held) \cup Waiters(p)
      <3>1. ASSUME NEW t \in Waiters(p) PROVE t \in Tenants /\ after[t] = "live"
        <4>1. PICK i \in 1 .. n : t = q[i].tenant
          BY <1>16
        <4>2. i \in 1 .. Len(q) /\ i <= n
          BY <1>15
        <4> QED BY <1>7, <1>9, <4>1, <4>2 DEF Waiter
      <3>2. ASSUME NEW t \in Tenants, t \notin Waiters(p)
            PROVE  after[t] = "live" <=> held[t] = "live"
        <4>1. CASE \A k \in 1 .. Len(w) : w[k].tenant # t
          BY <1>5, <4>1 DEF PumpGives
        <4>2. ASSUME NEW k \in 1 .. Len(w), w[k].tenant = t PROVE after[t] # "live" /\ held[t] # "live"
          <5>1. held[t] = "queued"
            BY <1>8, <4>2
          <5>2. CASE w[k].left = 0
            BY <1>5, <4>2, <5>1, <5>2 DEF PumpGives
          <5>3. CASE w[k].left # 0
            <6>1. w[k].left > 0
              <7>1. w[k].left \in Nat
                BY <1>9
              <7> QED BY <5>3, <7>1
            <6>2. PICK i \in 1 .. Len(q) : e[i] = k
              BY <1>5, <6>1 DEF PumpGives
            <6>3. q[i].tenant = t
              BY <1>6, <4>2, <6>2
            <6>4. ~(i <= n)
              <7>1. i <= n => i \in 1 .. n
                BY <1>6
              <7> QED BY <1>16, <3>2, <6>3, <7>1
            <6> QED BY <1>7, <5>1, <6>3, <6>4
          <5> QED BY <5>2, <5>3
        <4> QED BY <4>1, <4>2
      <3> QED BY <3>1, <3>2 DEF Live
    <2>2. Live(held) \cap Waiters(p) = {}
      <3> SUFFICES ASSUME NEW t \in Waiters(p), held[t] = "live" PROVE FALSE
        BY DEF Live
      <3>1. PICK i \in 1 .. n : t = q[i].tenant
        BY <1>16
      <3>2. i \in 1 .. Len(q)
        BY <1>15
      <3>3. e[i] \in 1 .. Len(w) /\ t = w[e[i]].tenant
        BY <1>6, <3>1, <3>2
      <3> QED BY <1>8, <3>3
    <2>3. IsFiniteSet(Live(held)) /\ Cardinality(Live(held)) = used
      BY DEF LiveAre
    <2>4. IsFiniteSet(Live(after)) /\ Cardinality(Live(after)) = used + n
      <3>1. PICK A, B : A = Live(held) /\ B = Waiters(p)
        OBVIOUS
      <3>2. IsFiniteSet(A) /\ IsFiniteSet(B) /\ Cardinality(A) = used /\ Cardinality(B) = n /\ A \cap B = {}
        BY <1>16, <2>2, <2>3, <3>1
      <3>3. IsFiniteSet(A \cup B) /\ Cardinality(A \cup B) = Cardinality(A) + Cardinality(B) - Cardinality(A \cap B)
        BY <3>2, FS_Union
      <3>4. Cardinality({}) = 0
        BY FS_EmptySet
      <3>5. n \in Nat
        BY <1>6, <1>9
      <3>6. Cardinality(A \cup B) = used + n
        <4>1. Cardinality(A \cap B) = 0
          BY <3>2, <3>4
        <4>2. Cardinality(A \cup B) = used + n - 0
          BY <3>2, <3>3, <4>1
        <4> QED BY <3>5, <4>2
      <3> QED BY <2>1, <3>1, <3>3, <3>6
    <2> QED BY <1>6, <2>4 DEF LiveAre
  <1>18. Len(q) <= Len(w)
    <2>1. IsFiniteSet(1 .. Len(w)) /\ Cardinality(1 .. Len(w)) = Len(w) /\ Cardinality(1 .. Len(q)) = Len(q)
      <3>1. \A k \in Nat : IsFiniteSet(1 .. k) /\ Cardinality(1 .. k) = k
        BY FS_Interval
      <3> QED BY <1>9, <3>1
    <2>2. PICK S, T : S = 1 .. Len(q) /\ T = 1 .. Len(w)
      OBVIOUS
    <2>3. IsFiniteSet(T) /\ e \in [S -> T] /\ \A i, j \in S : e[i] = e[j] => i = j
      BY <1>6, <1>11, <2>1, <2>2
    <2>4. Cardinality(S) <= Cardinality(T)
      BY <2>3, InjectionCount
    <2> QED BY <2>1, <2>2, <2>4
  <1>19. used + n \in Nat /\ n \in Nat /\ MaxWaiting \in Nat
    BY <1>6, <1>9, BulkheadAssumption
  <1>20. Len(left) <= MaxWaiting /\ (Len(left) > 0 => used + n = BulkheadSlots)
    <2>1. Len(left) <= Len(w) /\ (Len(left) > 0 => n < Len(q))
      BY <1>6, <1>9, <1>10, <1>18
    <2>2. Len(w) <= MaxWaiting /\ Len(left) \in Nat
      BY <1>2, <1>10, LenProperties
    <2> QED BY <1>1, <1>9, <1>19, <2>1, <2>2
  <1> QED BY <1>1, <1>3, <1>4, <1>13, <1>17, <1>19, <1>20 DEF BulkheadIInv

\* Pumping gives slots to those in time, and in their turn.
LEMMA HandOutInTurn ==
  ASSUME NEW used \in Nat, NEW held \in [Tenants -> Tickets], used <= BulkheadSlots,
         QueueOf(waiting, held), HandOut(used, held),
         NEW i \in 1 .. Len(waiting), ticket'[waiting[i].tenant] = "live"
  PROVE  /\ waiting[i].left > 0
         /\ \A j \in 1 .. i : waiting[j].left > 0 => ticket'[waiting[j].tenant] = "live"
  <1>1. PICK w : w = waiting
    OBVIOUS
  <1>2. PICK after : after = ticket'
    OBVIOUS
  <1>3. PICK n, q, e : PumpGives(w, n, q, e, held, after)
    BY <1>1, <1>2, HandOutServes
  <1>4. /\ q \in Seq(Waiter) /\ n \in 0 .. Len(q)
        /\ e \in [1 .. Len(q) -> 1 .. Len(w)]
        /\ \A k \in 1 .. Len(q) : q[k] = w[e[k]]
        /\ \A k, l \in 1 .. Len(q) : k < l => e[k] < e[l]
    BY <1>3 DEF PumpGives
  <1>5. /\ \A k \in 1 .. Len(q) : after[q[k].tenant] = IF k <= n THEN "live" ELSE "queued"
        /\ \A k \in 1 .. Len(w) : w[k].left = 0 => after[w[k].tenant] = "none"
        /\ \A k \in 1 .. Len(w) : w[k].left > 0 => \E m \in 1 .. Len(q) : e[m] = k
    BY <1>3 DEF PumpGives
  <1>6. Len(w) \in Nat /\ Len(q) \in Nat /\ \A k \in 1 .. Len(w) : w[k].left \in Nat
    <2>1. w \in Seq(Waiter)
      BY <1>1 DEF QueueOf
    <2>2. \A k \in 1 .. Len(w) : w[k] \in Waiter
      BY <2>1, ElementOfSeq
    <2>3. Len(w) \in Nat /\ Len(q) \in Nat
      BY <1>4, <2>1, LenProperties
    <2> QED BY <2>2, <2>3 DEF Waiter
  <1>7. i \in 1 .. Len(w) /\ after[w[i].tenant] = "live"
    BY <1>1, <1>2
  <1>8. w[i].left > 0
    BY <1>5, <1>6, <1>7
  <1>9. PICK m \in 1 .. Len(q) : e[m] = i
    BY <1>5, <1>7, <1>8
  <1>10. m <= n
    BY <1>4, <1>5, <1>7, <1>9
  <1>11. ASSUME NEW j \in 1 .. i, w[j].left > 0 PROVE after[w[j].tenant] = "live"
    <2>1. j \in 1 .. Len(w)
      BY <1>6, <1>7
    <2>2. PICK k \in 1 .. Len(q) : e[k] = j
      BY <1>5, <1>11, <2>1
    <2>3. ~(m < k)
      BY <1>4, <1>6, <1>7, <1>9, <2>1, <2>2
    <2>4. k <= n
      BY <1>4, <1>6, <1>10, <2>3
    <2> QED BY <1>4, <1>5, <2>2, <2>4
  <1> QED BY <1>1, <1>2, <1>8, <1>11

-----------------------------------------------------------------------------
\* Nobody holds or waits for a slot in the beginning.
LEMMA BulkheadStarts == BulkheadInit => BulkheadIInv
  <1> SUFFICES ASSUME BulkheadInit PROVE BulkheadIInv
    OBVIOUS
  <1>1. occupied = 0 /\ waiting = <<>> /\ ticket = [t \in Tenants |-> "none"]
    BY DEF BulkheadInit
  <1>2. Len(waiting) = 0 /\ waiting \in Seq(Waiter) /\ \A i \in 1 .. Len(waiting) : FALSE
    BY <1>1, EmptySeq
  <1>3. QueueOf(waiting, ticket)
    BY <1>1, <1>2 DEF QueueOf
  <1>4. Live(ticket) = {}
    BY <1>1 DEF Live
  <1>5. LiveAre(ticket, occupied)
    <2>1. ticket \in [Tenants -> Tickets]
      BY <1>1 DEF Tickets
    <2> QED BY <1>1, <1>4, <2>1, FS_EmptySet DEF LiveAre
  <1>6. BulkheadSlots \in Nat /\ MaxWaiting \in Nat
    BY BulkheadAssumption
  <1> QED BY <1>1, <1>2, <1>3, <1>5, <1>6 DEF BulkheadIInv

\* One live ticket more, or one less.
LEMMA LiveChanges ==
  ASSUME NEW held, NEW n, LiveAre(held, n), n \in Nat, NEW t \in Tenants
  PROVE  /\ held[t] # "live" => LiveAre([held EXCEPT ![t] = "live"], n + 1)
         /\ held[t] = "live" => n > 0 /\ LiveAre([held EXCEPT ![t] = "spent"], n - 1)
         /\ held[t] # "live" => LiveAre([held EXCEPT ![t] = "queued"], n)
  <1>1. held \in [Tenants -> Tickets]
    BY DEF LiveAre
  <1>2. PICK A : A = Live(held)
    OBVIOUS
  <1>3. IsFiniteSet(A) /\ n = Cardinality(A)
    BY <1>2 DEF LiveAre
  <1>4. ASSUME held[t] # "live" PROVE LiveAre([held EXCEPT ![t] = "live"], n + 1)
    <2>1. Live([held EXCEPT ![t] = "live"]) = A \cup {t} /\ t \notin A
      BY <1>1, <1>2, <1>4 DEF Live
    <2>2. IsFiniteSet(A \cup {t}) /\ Cardinality(A \cup {t}) = n + 1
      BY <1>3, <2>1, FS_AddElement
    <2>3. [held EXCEPT ![t] = "live"] \in [Tenants -> Tickets]
      BY <1>1 DEF Tickets
    <2> QED BY <2>1, <2>2, <2>3 DEF LiveAre
  <1>5. ASSUME held[t] = "live" PROVE n > 0 /\ LiveAre([held EXCEPT ![t] = "spent"], n - 1)
    <2>1. Live([held EXCEPT ![t] = "spent"]) = A \ {t} /\ t \in A
      BY <1>1, <1>2, <1>5 DEF Live
    <2>2. IsFiniteSet(A \ {t}) /\ Cardinality(A \ {t}) = n - 1
      BY <1>3, <2>1, FS_RemoveElement
    <2>3. [held EXCEPT ![t] = "spent"] \in [Tenants -> Tickets]
      BY <1>1 DEF Tickets
    <2>4. n - 1 \in Nat
      BY <2>2, FS_CardinalityType
    <2>5. LiveAre([held EXCEPT ![t] = "spent"], n - 1)
      BY <2>1, <2>2, <2>3 DEF LiveAre
    <2>6. n > 0
      BY <2>4
    <2> QED BY <2>5, <2>6
  <1>6. ASSUME held[t] # "live" PROVE LiveAre([held EXCEPT ![t] = "queued"], n)
    <2>1. Live([held EXCEPT ![t] = "queued"]) = A
      BY <1>1, <1>2, <1>6 DEF Live
    <2>2. [held EXCEPT ![t] = "queued"] \in [Tenants -> Tickets]
      BY <1>1 DEF Tickets
    <2> QED BY <1>3, <2>1, <2>2 DEF LiveAre
  <1> QED BY <1>4, <1>5, <1>6

\* A ticket that is not queued may change.
LEMMA QueueOfOthers ==
  ASSUME NEW w, NEW held \in [Tenants -> Tickets], NEW t \in Tenants, NEW v \in {"none", "live", "spent"},
         QueueOf(w, held), held[t] # "queued"
  PROVE  QueueOf(w, [held EXCEPT ![t] = v])
  <1>1. PICK h : h = [held EXCEPT ![t] = v]
    OBVIOUS
  <1>2. h[t] = v /\ \A u \in Tenants : u # t => h[u] = held[u]
    BY <1>1
  <1>3. w \in Seq(Waiter) /\ \A i \in 1 .. Len(w) : w[i].tenant \in Tenants
    <2>1. w \in Seq(Waiter)
      BY DEF QueueOf
    <2>2. \A i \in 1 .. Len(w) : w[i] \in Waiter
      BY <2>1, ElementOfSeq
    <2> QED BY <2>1, <2>2 DEF Waiter
  <1>4. \A i \in 1 .. Len(w) : h[w[i].tenant] = "queued"
    BY <1>2, <1>3 DEF QueueOf
  <1>5. \A u \in Tenants : h[u] = "queued" => held[u] = "queued"
    BY <1>2
  <1>6. QueueOf(w, h)
    BY <1>3, <1>4, <1>5 DEF QueueOf
  <1> QED BY <1>1, <1>6

\* acquire keeps the invariant.
LEMMA AcquireSlotKeeps ==
  ASSUME BulkheadIInv, NEW t \in Tenants, AcquireSlot(t)
  PROVE  BulkheadIInv'
  <1>1. /\ QueueOf(waiting, ticket) /\ LiveAre(ticket, occupied)
        /\ occupied \in Nat /\ occupied <= BulkheadSlots /\ Len(waiting) <= MaxWaiting
        /\ Len(waiting) > 0 => occupied = BulkheadSlots
    BY DEF BulkheadIInv
  <1>2. BulkheadSlots \in Nat /\ MaxWaiting \in Nat /\ MaxWait \in Nat /\ ticket \in [Tenants -> Tickets]
    BY <1>1, BulkheadAssumption DEF LiveAre
  <1>3. ticket[t] # "queued" /\ ticket[t] # "live"
    BY DEF AcquireSlot
  <1>4. PICK w : w = waiting
    OBVIOUS
  <1>5. PICK h : h = ticket
    OBVIOUS
  <1>6. /\ w \in Seq(Waiter) /\ Len(w) \in Nat
        /\ \A i \in 1 .. Len(w) : w[i] \in Waiter
    <2>1. w \in Seq(Waiter)
      BY <1>1, <1>4 DEF QueueOf
    <2> QED BY <2>1, LenProperties, ElementOfSeq
  <1>7. CASE occupied < BulkheadSlots
    <2>1. /\ occupied' = occupied + 1 /\ ticket' = [h EXCEPT ![t] = "live"] /\ waiting' = w
      BY <1>1, <1>2, <1>4, <1>5, <1>7 DEF AcquireSlot
    <2>2. LiveAre([h EXCEPT ![t] = "live"], occupied + 1)
      BY <1>1, <1>3, <1>5, LiveChanges
    <2>3. QueueOf(w, [h EXCEPT ![t] = "live"])
      BY <1>1, <1>2, <1>3, <1>4, <1>5, QueueOfOthers
    <2>4. ~(Len(w) > 0)
      BY <1>1, <1>2, <1>4, <1>7
    <2>5. occupied + 1 \in Nat /\ occupied + 1 <= BulkheadSlots
      BY <1>1, <1>2, <1>7
    <2> QED BY <1>1, <1>4, <2>1, <2>2, <2>3, <2>4, <2>5 DEF BulkheadIInv
  <1>8. CASE ~(occupied < BulkheadSlots)
    <2>1. PICK x : x = [tenant |-> t, left |-> MaxWait]
      OBVIOUS
    <2>2. x \in Waiter /\ x.tenant = t
      BY <1>2, <2>1 DEF Waiter
    <2>3. PICK g : g = [h EXCEPT ![t] = "queued"]
      OBVIOUS
    <2>4. PICK v : v = Append(w, x)
      OBVIOUS
    <2>5. /\ ticket' = g /\ waiting' = v /\ occupied' = occupied /\ Len(w) < MaxWaiting
      BY <1>1, <1>2, <1>4, <1>5, <1>8, <2>1, <2>3, <2>4 DEF AcquireSlot
    <2>6. LiveAre(g, occupied)
      BY <1>1, <1>3, <1>5, <2>3, LiveChanges
    <2>7. /\ v \in Seq(Waiter) /\ Len(v) = Len(w) + 1
          /\ \A i \in 1 .. Len(w) : v[i] = w[i]
          /\ v[Len(w) + 1] = x
      BY <1>6, <2>2, <2>4, AppendProperties
    <2>8. g[t] = "queued" /\ \A u \in Tenants : u # t => g[u] = h[u]
      BY <1>2, <1>5, <2>3
    <2>9. \A i \in 1 .. Len(w) : w[i].tenant \in Tenants /\ h[w[i].tenant] = "queued" /\ w[i].tenant # t
      <3>1. \A i \in 1 .. Len(w) : h[w[i].tenant] = "queued"
        BY <1>1, <1>4, <1>5 DEF QueueOf
      <3> QED BY <1>3, <1>5, <1>6, <3>1 DEF Waiter
    <2>10. \A i \in 1 .. Len(v) : i \in 1 .. Len(w) \/ i = Len(w) + 1
      BY <1>6, <2>7
    <2>11. QueueOf(v, g)
      <3>1. \A i \in 1 .. Len(v) : g[v[i].tenant] = "queued"
        BY <2>2, <2>7, <2>8, <2>9, <2>10
      <3>2. \A i, j \in 1 .. Len(w) : w[i].tenant = w[j].tenant => i = j
        BY <1>1, <1>4 DEF QueueOf
      <3>3. \A i, j \in 1 .. Len(v) : v[i].tenant = v[j].tenant => i = j
        <4> SUFFICES ASSUME NEW i \in 1 .. Len(v), NEW j \in 1 .. Len(v), v[i].tenant = v[j].tenant PROVE i = j
          OBVIOUS
        <4>1. CASE i \in 1 .. Len(w) /\ j \in 1 .. Len(w)
          BY <2>7, <3>2, <4>1
        <4>2. CASE i \in 1 .. Len(w) /\ j = Len(w) + 1
          BY <2>2, <2>7, <2>9, <4>2
        <4>3. CASE j \in 1 .. Len(w) /\ i = Len(w) + 1
          BY <2>2, <2>7, <2>9, <4>3
        <4> QED BY <2>10, <4>1, <4>2, <4>3
      <3>4. ASSUME NEW u \in Tenants, g[u] = "queued" PROVE \E i \in 1 .. Len(v) : v[i].tenant = u
        <4>1. CASE u = t
          <5>1. Len(w) + 1 \in 1 .. Len(v)
            BY <1>6, <2>7
          <5> QED BY <2>2, <2>7, <4>1, <5>1
        <4>2. CASE u # t
          <5>1. h[u] = "queued"
            BY <2>8, <3>4, <4>2
          <5>2. PICK i \in 1 .. Len(w) : w[i].tenant = u
            BY <1>1, <1>4, <1>5, <5>1 DEF QueueOf
          <5>3. i \in 1 .. Len(v) /\ v[i].tenant = u
            BY <1>6, <2>7, <5>2
          <5> QED BY <5>3
        <4> QED BY <4>1, <4>2
      <3> QED BY <2>7, <3>1, <3>3, <3>4 DEF QueueOf
    <2>12. Len(v) <= MaxWaiting /\ occupied = BulkheadSlots
      BY <1>1, <1>2, <1>6, <1>8, <2>5, <2>7
    <2> QED BY <1>1, <2>5, <2>6, <2>11, <2>12 DEF BulkheadIInv
  <1> QED BY <1>7, <1>8

\* A release is a pump with a slot less; what it keeps of the tickets.
LEMMA SlotReleased ==
  ASSUME BulkheadIInv, NEW t \in Tenants, ticket[t] = "live"
  PROVE  /\ [ticket EXCEPT ![t] = "spent"] \in [Tenants -> Tickets]
         /\ occupied - 1 \in Nat /\ occupied - 1 <= BulkheadSlots
         /\ QueueOf(waiting, [ticket EXCEPT ![t] = "spent"])
         /\ LiveAre([ticket EXCEPT ![t] = "spent"], occupied - 1)
  <1>1. PICK h, w, n : h = ticket /\ w = waiting /\ n = occupied
    OBVIOUS
  <1>2. QueueOf(w, h) /\ LiveAre(h, n) /\ n \in Nat /\ n <= BulkheadSlots /\ h[t] = "live"
    BY <1>1 DEF BulkheadIInv
  <1>3. h \in [Tenants -> Tickets]
    BY <1>2 DEF LiveAre
  <1>4. n > 0 /\ LiveAre([h EXCEPT ![t] = "spent"], n - 1)
    BY <1>2, LiveChanges
  <1>5. QueueOf(w, [h EXCEPT ![t] = "spent"])
    BY <1>2, <1>3, QueueOfOthers
  <1>6. [h EXCEPT ![t] = "spent"] \in [Tenants -> Tickets]
    BY <1>4 DEF LiveAre
  <1>7. n - 1 \in Nat /\ n - 1 <= BulkheadSlots
    BY <1>2, <1>4, BulkheadAssumption
  <1> QED BY <1>1, <1>4, <1>5, <1>6, <1>7

\* A pump that nothing else goes with.
LEMMA PumpServes ==
  ASSUME BulkheadIInv
  PROVE  /\ ticket \in [Tenants -> Tickets] /\ occupied \in Nat /\ occupied <= BulkheadSlots
         /\ QueueOf(waiting, ticket) /\ LiveAre(ticket, occupied) /\ Len(waiting) <= MaxWaiting
  BY DEF BulkheadIInv, LiveAre

\* Time changes only what is left to the waiters.
LEMMA BulkheadTickKeeps ==
  ASSUME BulkheadIInv, BulkheadTick
  PROVE  BulkheadIInv'
  <1>1. PICK w, v : w = waiting /\ v = waiting'
    OBVIOUS
  <1>2. w \in Seq(Waiter) /\ Len(w) \in Nat /\ DOMAIN w = 1 .. Len(w) /\ \A i \in 1 .. Len(w) : w[i] \in Waiter
    <2>1. w \in Seq(Waiter)
      BY <1>1 DEF BulkheadIInv, QueueOf
    <2> QED BY <2>1, LenProperties, ElementOfSeq
  <1>3. v = [i \in 1 .. Len(w) |-> [w[i] EXCEPT !.left = IF @ = 0 THEN 0 ELSE @ - 1]] /\ UNCHANGED <<occupied, ticket>>
    BY <1>1, <1>2 DEF BulkheadTick
  <1>4. \A i \in 1 .. Len(w) : v[i] \in Waiter /\ v[i].tenant = w[i].tenant
    <2> SUFFICES ASSUME NEW i \in 1 .. Len(w) PROVE v[i] \in Waiter /\ v[i].tenant = w[i].tenant
      OBVIOUS
    <2>1. PICK l \in Nat : l = w[i].left
      BY <1>2 DEF Waiter
    <2>2. PICK m \in Nat : m = IF l = 0 THEN 0 ELSE l - 1
      <3>1. (IF l = 0 THEN 0 ELSE l - 1) \in Nat
        OBVIOUS
      <3> QED BY <3>1
    <2>3. v[i] = [w[i] EXCEPT !.left = m]
      BY <1>3, <2>1, <2>2
    <2> QED BY <1>2, <2>3 DEF Waiter
  <1>5. v \in Seq(Waiter) /\ Len(v) = Len(w)
    <2>1. PICK n \in Nat : n = Len(w)
      BY <1>2
    <2>2. v \in [1 .. n -> Waiter]
      BY <1>3, <1>4, <2>1
    <2> QED BY <2>1, <2>2, IsASeq
  <1>6. QueueOf(w, ticket)
    BY <1>1 DEF BulkheadIInv
  <1>7. QueueOf(v, ticket)
    BY <1>4, <1>5, <1>6 DEF QueueOf
  <1> QED BY <1>1, <1>3, <1>5, <1>7 DEF BulkheadIInv

\* No step breaks the invariant.
LEMMA BulkheadInductive ==
  ASSUME BulkheadIInv, [BulkheadNext]_bulkheadVars
  PROVE  BulkheadIInv'
  <1>1. CASE UNCHANGED bulkheadVars
    BY <1>1 DEF bulkheadVars, BulkheadIInv
  <1>2. ASSUME NEW t \in Tenants, ReleaseSlot(t) PROVE BulkheadIInv'
    <2>1. CASE ticket[t] = "live" /\ HandOut(occupied - 1, [ticket EXCEPT ![t] = "spent"])
      <3>1. PICK h, n : h = [ticket EXCEPT ![t] = "spent"] /\ n = occupied - 1
        OBVIOUS
      <3>2. /\ h \in [Tenants -> Tickets] /\ n \in Nat /\ n <= BulkheadSlots
            /\ QueueOf(waiting, h) /\ LiveAre(h, n) /\ HandOut(n, h)
        BY <2>1, <3>1, SlotReleased
      <3>3. Len(waiting) <= MaxWaiting
        BY PumpServes
      <3> QED BY <3>2, <3>3, HandOutKeeps
    <2>2. CASE UNCHANGED bulkheadVars
      BY <2>2, <1>1
    <2> QED BY <1>2, <2>1, <2>2 DEF ReleaseSlot
  <1>3. CASE PumpBulkhead
    <2>1. PICK h, n : h = ticket /\ n = occupied
      OBVIOUS
    <2>2. /\ h \in [Tenants -> Tickets] /\ n \in Nat /\ n <= BulkheadSlots /\ Len(waiting) <= MaxWaiting
          /\ QueueOf(waiting, h) /\ LiveAre(h, n) /\ HandOut(n, h)
      BY <1>3, <2>1, PumpServes DEF PumpBulkhead
    <2> QED BY <2>2, HandOutKeeps
  <1> QED BY <1>1, <1>2, <1>3, AcquireSlotKeeps, BulkheadTickKeeps DEF BulkheadNext

\* The invariant holds throughout.
LEMMA BulkheadInvariant == BulkheadSpec => []BulkheadIInv
  <1>1. BulkheadIInv /\ [BulkheadNext]_bulkheadVars => BulkheadIInv'
    BY BulkheadInductive
  <1> QED BY <1>1, BulkheadStarts, PTL DEF BulkheadSpec

\* The invariant says what was to be shown.
LEMMA BulkheadSafe == BulkheadIInv => SlotsExact
  <1> SUFFICES ASSUME BulkheadIInv PROVE SlotsExact
    OBVIOUS
  <1>1. ticket \in [Tenants -> {"none", "queued", "live", "spent"}]
    BY DEF BulkheadIInv, LiveAre, Tickets
  <1>2. occupied = Cardinality({t \in Tenants : ticket[t] = "live"}) /\ occupied <= BulkheadSlots
    BY DEF BulkheadIInv, LiveAre, Live
  <1>3. PICK w : w = waiting
    OBVIOUS
  <1>4. /\ w \in Seq(Waiter) /\ Len(w) \in Nat /\ DOMAIN w = 1 .. Len(w)
        /\ \A i \in 1 .. Len(w) : w[i].tenant \in Tenants
    <2>1. w \in Seq(Waiter)
      BY <1>3 DEF BulkheadIInv, QueueOf
    <2>2. Len(w) \in Nat /\ DOMAIN w = 1 .. Len(w) /\ \A i \in 1 .. Len(w) : w[i] \in Waiter
      BY <2>1, LenProperties, ElementOfSeq
    <2> QED BY <2>1, <2>2 DEF Waiter
  <1>5. Waiters(w) = {t \in Tenants : ticket[t] = "queued"}
    <2>1. QueueOf(w, ticket)
      BY <1>3 DEF BulkheadIInv
    <2> QED BY <1>4, <2>1 DEF Waiters, QueueOf
  <1>6. Len(w) = Cardinality(Waiters(w))
    <2>1. \A i, j \in 1 .. Len(w) : w[i].tenant = w[j].tenant => i = j
      BY <1>3 DEF BulkheadIInv, QueueOf
    <2> QED BY <1>4, <2>1, WaitersCount
  <1>7. Len(w) <= MaxWaiting /\ (w # <<>> => occupied = BulkheadSlots)
    <2>1. w # <<>> => Len(w) > 0
      BY <1>4, EmptySeq
    <2> QED BY <1>3, <2>1 DEF BulkheadIInv
  <1> QED BY <1>1, <1>2, <1>3, <1>5, <1>6, <1>7 DEF SlotsExact

\* The slots and the queue are exact: a slot is one tenant's, at most MaxWaiting
\* tenants wait, each in one place, and nobody waits beside a free slot, whatever is
\* released twice, pumped or overdue.
THEOREM KeepsSlotsExact == BulkheadSpec => []SlotsExact
  <1> QED BY BulkheadSafe, BulkheadInvariant, PTL

\* Who is given a slot is in time, and so was everyone before him who still waits.
InTurn ==
  \A i \in DOMAIN waiting : ticket'[waiting[i].tenant] = "live"
    => /\ waiting[i].left > 0
       /\ \A j \in 1 .. i : waiting[j].left > 0 => ticket'[waiting[j].tenant] = "live"

\* No step gives a slot out of turn.
LEMMA TurnsKept ==
  ASSUME BulkheadIInv, [BulkheadNext]_bulkheadVars
  PROVE  [InTurn]_bulkheadVars
  <1>1. /\ DOMAIN waiting = 1 .. Len(waiting) /\ ticket \in [Tenants -> Tickets]
        /\ \A i \in 1 .. Len(waiting) : waiting[i].tenant \in Tenants /\ ticket[waiting[i].tenant] = "queued"
    <2>1. waiting \in Seq(Waiter) /\ \A i \in 1 .. Len(waiting) : ticket[waiting[i].tenant] = "queued"
      BY DEF BulkheadIInv, QueueOf
    <2>2. ticket \in [Tenants -> Tickets]
      BY DEF BulkheadIInv, LiveAre
    <2>3. DOMAIN waiting = 1 .. Len(waiting) /\ \A i \in 1 .. Len(waiting) : waiting[i] \in Waiter
      BY <2>1, LenProperties, ElementOfSeq
    <2> QED BY <2>1, <2>2, <2>3 DEF Waiter
  <1>2. ASSUME NEW t \in Tenants, ticket[t] # "queued", NEW v, ticket' = [ticket EXCEPT ![t] = v] PROVE InTurn
    <2>1. \A i \in DOMAIN waiting : ticket'[waiting[i].tenant] = "queued"
      BY <1>1, <1>2
    <2> QED BY <2>1 DEF InTurn
  <1>3. ASSUME NEW n \in Nat, NEW h \in [Tenants -> Tickets], n <= BulkheadSlots, QueueOf(waiting, h), HandOut(n, h)
        PROVE  InTurn
    <2>1. \A i \in 1 .. Len(waiting) : ticket'[waiting[i].tenant] = "live"
            => /\ waiting[i].left > 0
               /\ \A j \in 1 .. i : waiting[j].left > 0 => ticket'[waiting[j].tenant] = "live"
      BY <1>3, HandOutInTurn
    <2> QED BY <1>1, <2>1 DEF InTurn
  <1>4. ASSUME UNCHANGED ticket PROVE InTurn
    <2>1. \A i \in DOMAIN waiting : ticket'[waiting[i].tenant] = "queued"
      BY <1>1, <1>4
    <2> QED BY <2>1 DEF InTurn
  <1>5. ASSUME NEW t \in Tenants, AcquireSlot(t) PROVE InTurn
    <2>1. ticket[t] # "queued" /\ \E v : ticket' = [ticket EXCEPT ![t] = v]
      BY <1>5 DEF AcquireSlot
    <2> QED BY <1>2, <2>1
  <1>6. ASSUME NEW t \in Tenants, ReleaseSlot(t) PROVE InTurn \/ UNCHANGED bulkheadVars
    <2>1. CASE ticket[t] = "live" /\ HandOut(occupied - 1, [ticket EXCEPT ![t] = "spent"])
      BY <1>3, <2>1, SlotReleased
    <2> QED BY <1>6, <2>1 DEF ReleaseSlot
  <1>7. CASE PumpBulkhead
    BY <1>3, <1>7, PumpServes DEF PumpBulkhead
  <1>8. CASE BulkheadTick
    BY <1>4, <1>8 DEF BulkheadTick
  <1> QED BY <1>5, <1>6, <1>7, <1>8 DEF BulkheadNext

\* Slots are given in turn: to nobody before an earlier waiter who is still in
\* time, and to nobody whose deadline has passed.
THEOREM GivesSlotsInTurn == BulkheadSpec => SlotsInTurn
  <1>1. [BulkheadNext]_bulkheadVars /\ BulkheadIInv => [InTurn]_bulkheadVars
    BY TurnsKept
  <1> QED BY <1>1, BulkheadInvariant, PTL DEF BulkheadSpec, SlotsInTurn, InTurn
=============================================================================
