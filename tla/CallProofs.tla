----------------------------- MODULE CallProofs -----------------------------
(***************************************************************************)
(*  What is called, how often and when, for any number of callers, jobs    *)
(*  and ticks: the circuit breaker with its probe scheduler, the registry  *)
(*  that makes calls idempotent, and the scheduler of jobs. The three      *)
(*  share no state; each part of the module is about one of them.          *)
(***************************************************************************)
EXTENDS CircuitBreaker, Idempotency, JobScheduler, DataLemmas

-----------------------------------------------------------------------------
(***************************************************************************)
(*  Probes are rationed exactly, for any number of calls and endpoints     *)
(*  and any thresholds.                                                    *)
(*                                                                         *)
(*  The pump asks breaker after breaker in a recursion, so what it keeps   *)
(*  is stated for its states first: every waiter stands in the queue       *)
(*  once, the slots counted are those of the calls that probe, and of a    *)
(*  half-open breaker's probes none is gone.                               *)
(***************************************************************************)

CallStages == {"idle", "calling", "queued", "probing"}
Breakers == [state : {"CLOSED", "OPEN", "HALF_OPEN"},
             failures : 0 .. MaxCount, successes : 0 .. MaxCount,
             probes : 0 .. SuccessThreshold, wait : 0 .. ResetTimeout]
PumpStates == [queued : Seq(Calls), breaker : [Endpoints -> Breakers],
               doing : [Calls -> CallStages], probing : Nat]

\* The calls in flight, those to one endpoint, and the probes among them.
AllInFlight(d) == {c \in Calls : d[c] \in {"calling", "probing"}}
FlightTo(d, e) == {c \in Calls : target[c] = e /\ d[c] \in {"calling", "probing"}}
ProbesIn(d) == {c \in Calls : d[c] = "probing"}

\* An open breaker counts no probes, a half-open one none that is gone.
Sound(b, k) == /\ b.state = "OPEN" => b.probes = 0
               /\ b.state = "HALF_OPEN" => b.probes <= k

\* What pump keeps of its state, whoever is asked or expires: each waiter stands
\* in the queue once, and slots and probes are counted.
Rationed(s) ==
  /\ s \in PumpStates
  /\ Len(s.queued) <= MaxQueued
  /\ \A i \in 1 .. Len(s.queued) : s.doing[s.queued[i]] = "queued"
  /\ \A i, j \in 1 .. Len(s.queued) : s.queued[i] = s.queued[j] => i = j
  /\ IsFiniteSet(AllInFlight(s.doing))
  /\ s.probing = Cardinality(ProbesIn(s.doing)) /\ s.probing <= MaxConcurrent
  /\ \A e \in Endpoints : Sound(s.breaker[e], Cardinality(FlightTo(s.doing, e)))

BreakerNow == [queued |-> queued, breaker |-> breaker, doing |-> doing, probing |-> probing]

BreakerIInv == /\ Rationed(BreakerNow)
               /\ NoIdleSlot
               /\ target \in [Calls -> Endpoints]

\* What the assumption says of each constant.
LEMMA BreakerFacts ==
  /\ FailureThreshold \in Nat /\ SuccessThreshold \in Nat /\ SuccessThreshold > 0
  /\ MaxConcurrent \in Nat /\ MaxConcurrent > 0 /\ MaxQueued \in Nat
  /\ ResetTimeout \in Nat /\ MaxCount \in Nat
  BY BreakerAssumption

\* What the breaker does with its own counters.
LEMMA AskedProperties ==
  ASSUME NEW b \in Breakers, NEW k \in Nat, Sound(b, k)
  PROVE  /\ Asked(b) \in Breakers
         /\ Sound(Asked(b), IF Admits(b) THEN k + 1 ELSE k)
  <1>1. /\ Current(b) \in Breakers
        /\ Current(b).probes = b.probes
        /\ Current(b).state = "OPEN" => b.state = "OPEN"
        /\ Current(b).state = "HALF_OPEN" => b.probes <= k
        /\ Current(b).state = "OPEN" => b.probes = 0
    <2>1. CASE b.state = "OPEN" /\ b.wait = 0
      <3>1. Current(b) = [b EXCEPT !.state = "HALF_OPEN", !.successes = 0] /\ b.probes = 0
        BY <2>1 DEF Current, Sound
      <3>2. 0 \in 0 .. MaxCount
        BY BreakerFacts
      <3>3. /\ [b EXCEPT !.state = "HALF_OPEN", !.successes = 0] \in Breakers
            /\ [b EXCEPT !.state = "HALF_OPEN", !.successes = 0].probes = b.probes
            /\ [b EXCEPT !.state = "HALF_OPEN", !.successes = 0].state = "HALF_OPEN"
        BY <3>2 DEF Breakers
      <3> QED BY <3>1, <3>3
    <2>2. CASE ~(b.state = "OPEN" /\ b.wait = 0)
      BY <2>2 DEF Current, Sound
    <2> QED BY <2>1, <2>2
  <1>2. b.probes \in Nat
    BY BreakerFacts DEF Breakers
  <1>3. CASE Admits(b) /\ Current(b).state = "HALF_OPEN"
    <2>1. b.probes < SuccessThreshold
      BY <1>3 DEF Admits
    <2>2. Asked(b) = [Current(b) EXCEPT !.probes = Current(b).probes + 1]
      BY <1>3 DEF Asked
    <2>3. /\ Asked(b) \in Breakers
          /\ Asked(b).probes = b.probes + 1 /\ Asked(b).state = "HALF_OPEN"
      BY <1>1, <1>2, <1>3, <2>1, <2>2, BreakerFacts DEF Breakers
    <2> QED BY <1>1, <1>2, <1>3, <2>3 DEF Sound
  <1>4. CASE ~(Admits(b) /\ Current(b).state = "HALF_OPEN")
    <2>1. Asked(b) = Current(b)
      BY <1>4 DEF Asked
    <2> QED BY <1>1, <1>2, <2>1 DEF Sound
  <1> QED BY <1>3, <1>4

\* What recording an outcome (onSuccess, onFailure) does to the counters.
LEMMA RecordedProperties ==
  ASSUME NEW b \in Breakers, NEW ok \in BOOLEAN, NEW k \in Nat, Sound(b, k + 1)
  PROVE  Recorded(b, ok) \in Breakers /\ Sound(Recorded(b, ok), k)
  <1>1. /\ b.probes \in 0 .. SuccessThreshold /\ SuccessThreshold \in Nat
        /\ \A n \in 0 .. MaxCount : Counted(n) \in 0 .. MaxCount
        /\ 0 \in 0 .. MaxCount /\ 0 \in 0 .. SuccessThreshold /\ ResetTimeout \in 0 .. ResetTimeout
    BY BreakerFacts DEF Breakers, Counted
  <1>2. /\ Released(b) \in Breakers /\ Released(b).state = b.state
        /\ Released(b).probes = IF b.probes > 0 THEN b.probes - 1 ELSE 0
        /\ Released(b).successes = b.successes /\ Released(b).failures = b.failures
    BY <1>1 DEF Breakers, Released
  <1>3. /\ Opened(b) \in Breakers /\ Opened(b).state = "OPEN"
        /\ Sound(b, k + 1) => Opened(b).probes = 0
        /\ Opened(b).failures = b.failures
    BY <1>1 DEF Breakers, Opened, Sound
  <1>4. CASE ok
    <2>1. CASE b.state = "HALF_OPEN"
      <3>1. \/ Recorded(b, ok) = [Released(b) EXCEPT !.successes = Counted(Released(b).successes),
                                                    !.state = "CLOSED", !.failures = 0]
            \/ Recorded(b, ok) = [Released(b) EXCEPT !.successes = Counted(Released(b).successes)]
        BY <1>1, <1>4, <2>1, BreakerFacts DEF Recorded, RecordSuccess, Breakers
      <3>2. /\ Recorded(b, ok) \in Breakers
            /\ \/ Recorded(b, ok).state = "CLOSED"
               \/ Recorded(b, ok).state = "HALF_OPEN" /\ Recorded(b, ok).probes = Released(b).probes
        BY <1>1, <1>2, <2>1, <3>1 DEF Breakers
      <3>3. Released(b).probes <= k
        BY <1>1, <1>2, <2>1 DEF Sound
      <3> QED BY <3>2, <3>3 DEF Sound
    <2>2. CASE b.state # "HALF_OPEN"
      <3>1. Recorded(b, ok) = [b EXCEPT !.failures = 0, !.successes = Counted(b.successes)]
        BY <1>4, <2>2 DEF Recorded, RecordSuccess
      <3>2. /\ Recorded(b, ok) \in Breakers
            /\ Recorded(b, ok).state = b.state /\ Recorded(b, ok).probes = b.probes
        <4>1. PICK n \in 0 .. MaxCount : n = Counted(b.successes)
          BY <1>1 DEF Breakers
        <4> QED BY ONLY b \in Breakers, <1>1, <3>1, <4>1 DEF Breakers
      <3> QED BY <2>2, <3>2 DEF Sound
    <2> QED BY <2>1, <2>2
  <1>5. CASE ~ok
    <2>1. \/ b.state \in {"HALF_OPEN", "CLOSED"} /\ Recorded(b, ok) = [Opened(b) EXCEPT !.successes = 0]
          \/ Recorded(b, ok) = [Opened(b) EXCEPT !.successes = 0, !.failures = Counted(Opened(b).failures)]
          \/ b.state # "HALF_OPEN" /\ Recorded(b, ok) = [b EXCEPT !.successes = 0, !.failures = Counted(b.failures)]
      BY <1>5 DEF Recorded, RecordFailure
    <2>2. CASE Recorded(b, ok) \in {[Opened(b) EXCEPT !.successes = 0],
                  [Opened(b) EXCEPT !.successes = 0, !.failures = Counted(Opened(b).failures)]}
      BY <1>1, <1>3, <2>2 DEF Breakers, Sound
    <2>3. CASE b.state # "HALF_OPEN" /\ Recorded(b, ok) = [b EXCEPT !.successes = 0, !.failures = Counted(b.failures)]
      <3>1. /\ Recorded(b, ok) \in Breakers
            /\ Recorded(b, ok).state = b.state /\ Recorded(b, ok).probes = b.probes
        <4>1. PICK n \in 0 .. MaxCount : n = Counted(b.failures)
          BY <1>1 DEF Breakers
        <4> QED BY ONLY b \in Breakers, <1>1, <2>3, <4>1 DEF Breakers
      <3> QED BY <2>3, <3>1 DEF Sound
    <2> QED BY <2>1, <2>2, <2>3
  <1> QED BY <1>4, <1>5

\* The call c comes to stage x, the others stay.
CallMoved(d, g, c, x) == g = [d EXCEPT ![c] = x]

\* A call that starts is one more in flight to its endpoint.
LEMMA CallStarts ==
  ASSUME NEW d \in [Calls -> CallStages], IsFiniteSet(AllInFlight(d)), NEW c \in Calls,
         d[c] \notin {"calling", "probing"}, NEW x \in {"calling", "probing"},
         target \in [Calls -> Endpoints], NEW g, CallMoved(d, g, c, x)
  PROVE  /\ g \in [Calls -> CallStages]
         /\ IsFiniteSet(AllInFlight(g))
         /\ \A e \in Endpoints : /\ Cardinality(FlightTo(d, e)) \in Nat
                                 /\ Cardinality(FlightTo(g, e)) = Cardinality(FlightTo(d, e))
                                      + IF target[c] = e THEN 1 ELSE 0
         /\ Cardinality(ProbesIn(g)) = Cardinality(ProbesIn(d)) + IF x = "probing" THEN 1 ELSE 0
         /\ Cardinality(ProbesIn(d)) \in Nat
  <1>1. g \in [Calls -> CallStages] /\ g[c] = x /\ \A k \in Calls : k # c => g[k] = d[k]
    BY DEF CallStages, CallMoved
  <1>2. AllInFlight(g) = AllInFlight(d) \cup {c}
    BY <1>1 DEF AllInFlight
  <1>3. IsFiniteSet(AllInFlight(g))
    <2>1. IsFiniteSet(AllInFlight(d) \cup {c})
      BY FS_AddElement
    <2> QED BY <1>2, <2>1
  <1>4. ASSUME NEW e \in Endpoints
        PROVE  /\ Cardinality(FlightTo(d, e)) \in Nat
               /\ Cardinality(FlightTo(g, e)) = Cardinality(FlightTo(d, e))
                    + IF target[c] = e THEN 1 ELSE 0
    <2>1. IsFiniteSet(FlightTo(d, e))
      <3>1. FlightTo(d, e) \subseteq AllInFlight(d)
        BY DEF FlightTo, AllInFlight
      <3> QED BY <3>1, FS_Subset
    <2>2. Cardinality(FlightTo(d, e)) \in Nat
      BY <2>1, FS_CardinalityType
    <2>3. CASE target[c] = e
      <3>1. FlightTo(g, e) = FlightTo(d, e) \cup {c} /\ c \notin FlightTo(d, e)
        BY <1>1, <2>3 DEF FlightTo
      <3> QED BY <2>1, <2>2, <2>3, <3>1, FS_AddElement
    <2>4. CASE target[c] # e
      <3>1. FlightTo(g, e) = FlightTo(d, e)
        BY <1>1, <2>4 DEF FlightTo
      <3> QED BY <2>2, <2>4, <3>1
    <2> QED BY <2>2, <2>3, <2>4
  <1>5. IsFiniteSet(ProbesIn(d))
    <2>1. ProbesIn(d) \subseteq AllInFlight(d)
      BY DEF ProbesIn, AllInFlight
    <2> QED BY <2>1, FS_Subset
  <1>6. Cardinality(ProbesIn(d)) \in Nat
    BY <1>5, FS_CardinalityType
  <1>7. Cardinality(ProbesIn(g)) = Cardinality(ProbesIn(d)) + IF x = "probing" THEN 1 ELSE 0
    <2>1. CASE x = "probing"
      <3>1. ProbesIn(g) = ProbesIn(d) \cup {c} /\ c \notin ProbesIn(d)
        BY <1>1, <2>1 DEF ProbesIn
      <3>2. Cardinality(ProbesIn(d) \cup {c}) = Cardinality(ProbesIn(d)) + 1
        BY <1>5, <3>1, FS_AddElement
      <3> QED BY <2>1, <3>1, <3>2
    <2>2. CASE x # "probing"
      <3>1. ProbesIn(g) = ProbesIn(d)
        BY <1>1, <2>2 DEF ProbesIn
      <3> QED BY <1>6, <2>2, <3>1
    <2> QED BY <2>1, <2>2
  <1> QED BY <1>1, <1>3, <1>4, <1>6, <1>7

\* The endpoint's breaker is asked.
AsksAt(k, h, e) == h = [k EXCEPT ![e] = Asked(k[e])]

\* A call asks its endpoint's breaker, and is in flight if it is let through.
LEMMA Admission ==
  ASSUME target \in [Calls -> Endpoints],
         NEW d \in [Calls -> CallStages], IsFiniteSet(AllInFlight(d)),
         NEW k \in [Endpoints -> Breakers],
         \A x \in Endpoints : Sound(k[x], Cardinality(FlightTo(d, x))),
         NEW c \in Calls, d[c] \notin {"calling", "probing"}, NEW y \in {"calling", "probing"},
         NEW g, CallMoved(d, g, c, IF Admits(k[target[c]]) THEN y ELSE "idle"),
         NEW h, AsksAt(k, h, target[c])
  PROVE  /\ g \in [Calls -> CallStages] /\ h \in [Endpoints -> Breakers]
         /\ IsFiniteSet(AllInFlight(g))
         /\ \A x \in Endpoints : Sound(h[x], Cardinality(FlightTo(g, x)))
         /\ Cardinality(ProbesIn(g)) = Cardinality(ProbesIn(d))
              + IF Admits(k[target[c]]) /\ y = "probing" THEN 1 ELSE 0
         /\ Cardinality(ProbesIn(d)) \in Nat
  <1> DEFINE e == target[c]
             b == k[e]
  <1>1. e \in Endpoints /\ b \in Breakers /\ Sound(b, Cardinality(FlightTo(d, e)))
    OBVIOUS
  <1> HIDE DEF e, b
  <1>2. \A x \in Endpoints : Cardinality(FlightTo(d, x)) \in Nat
    <2> SUFFICES ASSUME NEW x \in Endpoints PROVE Cardinality(FlightTo(d, x)) \in Nat
      OBVIOUS
    <2>1. FlightTo(d, x) \subseteq AllInFlight(d)
      BY DEF FlightTo, AllInFlight
    <2> QED BY <2>1, FS_Subset, FS_CardinalityType
  <1>3. Cardinality(ProbesIn(d)) \in Nat
    <2>1. ProbesIn(d) \subseteq AllInFlight(d)
      BY DEF ProbesIn, AllInFlight
    <2> QED BY <2>1, FS_Subset, FS_CardinalityType
  <1>4. Asked(b) \in Breakers /\ Sound(Asked(b), Cardinality(FlightTo(d, e)) + IF Admits(b) THEN 1 ELSE 0)
    <2>1. /\ Asked(b) \in Breakers
          /\ Sound(Asked(b), IF Admits(b) THEN Cardinality(FlightTo(d, e)) + 1
                                          ELSE Cardinality(FlightTo(d, e)))
      BY <1>1, <1>2, AskedProperties
    <2>2. CASE Admits(b)
      BY <2>1, <2>2
    <2>3. CASE ~Admits(b)
      <3>1. Cardinality(FlightTo(d, e)) + 0 = Cardinality(FlightTo(d, e))
        BY <1>1, <1>2
      <3> QED BY <2>1, <2>3, <3>1
    <2> QED BY <2>2, <2>3
  <1>5. /\ h \in [Endpoints -> Breakers] /\ h[e] = Asked(b)
        /\ \A x \in Endpoints : x # e => h[x] = k[x]
    BY <1>1, <1>4 DEF AsksAt, e, b
  <1>6. /\ g \in [Calls -> CallStages]
        /\ IsFiniteSet(AllInFlight(g))
        /\ \A x \in Endpoints : Cardinality(FlightTo(g, x)) = Cardinality(FlightTo(d, x))
                                   + IF e = x /\ Admits(b) THEN 1 ELSE 0
        /\ Cardinality(ProbesIn(g)) = Cardinality(ProbesIn(d))
             + IF Admits(b) /\ y = "probing" THEN 1 ELSE 0
    <2>1. CASE Admits(b)
      <3>1. CallMoved(d, g, c, y)
        BY <2>1 DEF b, e
      <3>2. /\ g \in [Calls -> CallStages]
            /\ IsFiniteSet(AllInFlight(g))
            /\ \A x \in Endpoints : /\ Cardinality(FlightTo(d, x)) \in Nat
                                    /\ Cardinality(FlightTo(g, x)) = Cardinality(FlightTo(d, x))
                                         + IF target[c] = x THEN 1 ELSE 0
            /\ Cardinality(ProbesIn(g)) = Cardinality(ProbesIn(d)) + IF y = "probing" THEN 1 ELSE 0
        BY <3>1, CallStarts
      <3> QED BY <2>1, <3>2 DEF e
    <2>2. CASE ~Admits(b)
      <3>1. g = [d EXCEPT ![c] = "idle"]
        BY <2>2 DEF b, e, CallMoved
      <3>2. g \in [Calls -> CallStages] /\ g[c] = "idle" /\ \A z \in Calls : z # c => g[z] = d[z]
        BY <3>1 DEF CallStages
      <3>3. /\ AllInFlight(g) = AllInFlight(d) /\ ProbesIn(g) = ProbesIn(d)
            /\ \A x \in Endpoints : FlightTo(g, x) = FlightTo(d, x)
        BY <3>2 DEF AllInFlight, ProbesIn, FlightTo
      <3> QED BY <1>2, <1>3, <2>2, <3>2, <3>3
    <2> QED BY <2>1, <2>2
  <1>7. ASSUME NEW x \in Endpoints PROVE Sound(h[x], Cardinality(FlightTo(g, x)))
    <2>1. CASE x = e
      <3>1. Cardinality(FlightTo(g, e)) = Cardinality(FlightTo(d, e)) + IF Admits(b) THEN 1 ELSE 0
        BY <1>1, <1>6
      <3> QED BY <1>4, <1>5, <2>1, <3>1
    <2>2. CASE x # e
      BY <1>2, <1>5, <1>6, <2>2
    <2> QED BY <2>1, <2>2
  <1> QED BY <1>3, <1>5, <1>6, <1>7 DEF b, e

\* A call that ends is one less.
LEMMA CallEnds ==
  ASSUME NEW d \in [Calls -> CallStages], IsFiniteSet(AllInFlight(d)), NEW c \in Calls,
         d[c] \in {"calling", "probing"}, target \in [Calls -> Endpoints],
         NEW g, CallMoved(d, g, c, "idle")
  PROVE  /\ g \in [Calls -> CallStages]
         /\ IsFiniteSet(AllInFlight(g))
         /\ \A e \in Endpoints : /\ Cardinality(FlightTo(g, e)) \in Nat
                                 /\ Cardinality(FlightTo(d, e)) = Cardinality(FlightTo(g, e))
                                      + IF target[c] = e THEN 1 ELSE 0
         /\ Cardinality(ProbesIn(d)) = Cardinality(ProbesIn(g)) + IF d[c] = "probing" THEN 1 ELSE 0
         /\ Cardinality(ProbesIn(g)) \in Nat
  <1> DEFINE x == d[c]
  <1>1. /\ g \in [Calls -> CallStages] /\ g[c] = "idle" /\ CallMoved(g, d, c, x)
        /\ \A k \in Calls : k # c => g[k] = d[k]
    BY DEF CallStages, CallMoved
  <1> HIDE DEF x
  <1>2. AllInFlight(g) \subseteq AllInFlight(d)
    BY <1>1 DEF AllInFlight
  <1>3. IsFiniteSet(AllInFlight(g))
    BY <1>2, FS_Subset
  <1>4. x \in {"calling", "probing"} /\ g[c] \notin {"calling", "probing"}
    BY <1>1 DEF x
  <1>5. /\ \A e \in Endpoints : /\ Cardinality(FlightTo(g, e)) \in Nat
                                /\ Cardinality(FlightTo(d, e)) = Cardinality(FlightTo(g, e))
                                     + IF target[c] = e THEN 1 ELSE 0
        /\ Cardinality(ProbesIn(d)) = Cardinality(ProbesIn(g)) + IF x = "probing" THEN 1 ELSE 0
        /\ Cardinality(ProbesIn(g)) \in Nat
    BY <1>1, <1>3, <1>4, CallStarts
  <1> QED BY <1>1, <1>3, <1>5 DEF x

\* Nothing is left to pump.
Pumped(s) == s.queued = <<>> \/ s.probing >= MaxConcurrent

\* One turn of the pump keeps the rationing, and takes its waiter from the queue.
LEMMA PumpOnceKeeps ==
  ASSUME target \in [Calls -> Endpoints], NEW s, Rationed(s)
  PROVE  /\ Rationed(PumpOnce(s))
         /\ Pumped(s) => PumpOnce(s) = s
         /\ ~Pumped(s) => Len(PumpOnce(s).queued) = Len(s.queued) - 1
  <1>1. CASE Pumped(s)
    BY <1>1 DEF Pumped, PumpOnce
  <1>2. CASE ~Pumped(s)
    <2> DEFINE q == s.queued
               d == s.doing
               c == Head(q)
               e == target[c]
               b == s.breaker[e]
               r == PumpOnce(s)
    <2>1. /\ q \in Seq(Calls) /\ q # <<>> /\ d \in [Calls -> CallStages] /\ s.probing \in Nat
          /\ s.breaker \in [Endpoints -> Breakers] /\ s.probing < MaxConcurrent
          /\ Len(q) <= MaxQueued
          /\ \A i \in 1 .. Len(q) : d[q[i]] = "queued"
          /\ \A i, j \in 1 .. Len(q) : q[i] = q[j] => i = j
          /\ IsFiniteSet(AllInFlight(d))
          /\ s.probing = Cardinality(ProbesIn(d))
          /\ \A x \in Endpoints : Sound(s.breaker[x], Cardinality(FlightTo(d, x)))
      BY <1>2, BreakerFacts DEF Rationed, PumpStates, Pumped
    <2>2. /\ Len(q) \in Nat /\ Len(q) >= 1 /\ c = q[1] /\ c \in Calls /\ e \in Endpoints
          /\ Tail(q) \in Seq(Calls) /\ Len(Tail(q)) = Len(q) - 1
          /\ \A i \in 1 .. Len(q) - 1 : Tail(q)[i] = q[i + 1]
      BY <2>1, HeadTailProperties, LenProperties, EmptySeq
    <2>3. /\ r.queued = Tail(q)
          /\ r.breaker = [s.breaker EXCEPT ![e] = Asked(b)]
          /\ r.doing = [d EXCEPT ![c] = IF Admits(b) THEN "probing" ELSE "idle"]
          /\ r.probing = IF Admits(b) THEN s.probing + 1 ELSE s.probing
          /\ r = [queued |-> r.queued, breaker |-> r.breaker, doing |-> r.doing, probing |-> r.probing]
      <3> DEFINE B == [s.breaker EXCEPT ![e] = Asked(b)]
                 D == [d EXCEPT ![c] = IF Admits(b) THEN "probing" ELSE "idle"]
                 P == IF Admits(b) THEN s.probing + 1 ELSE s.probing
      <3>1. r = [queued |-> Tail(q), breaker |-> B, doing |-> D, probing |-> P]
        <4>1. ~(q = <<>> \/ s.probing >= MaxConcurrent)
          BY <1>2 DEF Pumped
        <4> QED BY <4>1 DEF PumpOnce
      <3> HIDE DEF B, D, P, r, q
      <3>2. /\ r.queued = Tail(q) /\ r.breaker = B /\ r.doing = D /\ r.probing = P
        BY <3>1
      <3> QED BY <3>1, <3>2 DEF B, D, P
    <2> HIDE DEF q, d, c, e, b, r
    <2>4. d[c] = "queued" /\ \A i \in 1 .. Len(q) - 1 : Tail(q)[i] # c /\ d[Tail(q)[i]] = "queued"
      <3>1. \A i \in 1 .. Len(q) - 1 : i + 1 \in 1 .. Len(q) /\ i + 1 # 1 /\ 1 \in 1 .. Len(q)
        BY <2>2
      <3>2. 1 \in 1 .. Len(q)
        BY <2>2
      <3> QED BY <2>1, <2>2, <3>1, <3>2
    <2>5. /\ \A i \in 1 .. Len(r.queued) : r.doing[r.queued[i]] = "queued"
          /\ \A i, j \in 1 .. Len(r.queued) : r.queued[i] = r.queued[j] => i = j
      <3>1. \A i \in 1 .. Len(q) - 1 : Tail(q)[i] \in Calls
        BY <2>2, ElementOfSeq
      <3>2. \A i \in 1 .. Len(q) - 1 : i + 1 \in 1 .. Len(q)
        BY <2>2
      <3>3. \A i, j \in 1 .. Len(q) - 1 : Tail(q)[i] = Tail(q)[j] => i = j
        <4> SUFFICES ASSUME NEW i \in 1 .. Len(q) - 1, NEW j \in 1 .. Len(q) - 1, Tail(q)[i] = Tail(q)[j]
                     PROVE  i = j
          OBVIOUS
        <4>1. i + 1 = j + 1
          BY <2>1, <2>2, <3>2
        <4> QED BY <2>2, <4>1
      <3>4. \A k \in Calls : k # c => r.doing[k] = d[k]
        BY <2>1, <2>3
      <3> QED BY <2>2, <2>3, <2>4, <3>1, <3>3, <3>4
    <2>6. Cardinality(ProbesIn(d)) \in Nat /\ s.probing = Cardinality(ProbesIn(d))
      BY <2>1
    <2>7. /\ CallMoved(d, r.doing, c, IF Admits(s.breaker[target[c]]) THEN "probing" ELSE "idle")
          /\ AsksAt(s.breaker, r.breaker, target[c]) /\ d[c] \notin {"calling", "probing"}
      BY <2>3, <2>4 DEF CallMoved, AsksAt, b, e
    <2>8. /\ r.doing \in [Calls -> CallStages] /\ r.breaker \in [Endpoints -> Breakers]
          /\ IsFiniteSet(AllInFlight(r.doing))
          /\ \A x \in Endpoints : Sound(r.breaker[x], Cardinality(FlightTo(r.doing, x)))
          /\ Cardinality(ProbesIn(r.doing))
               = Cardinality(ProbesIn(d)) + IF Admits(s.breaker[target[c]]) THEN 1 ELSE 0
      <3> DEFINE y == "probing"
      <3>1. y \in {"calling", "probing"} /\ y = "probing"
            /\ CallMoved(d, r.doing, c, IF Admits(s.breaker[target[c]]) THEN y ELSE "idle")
        BY <2>7
      <3> HIDE DEF y
      <3> DEFINE g == r.doing
                 h == r.breaker
                 k == s.breaker
      <3>2. /\ CallMoved(d, g, c, IF Admits(k[target[c]]) THEN y ELSE "idle")
            /\ AsksAt(k, h, target[c]) /\ d[c] \notin {"calling", "probing"}
            /\ d \in [Calls -> CallStages] /\ IsFiniteSet(AllInFlight(d)) /\ c \in Calls
            /\ k \in [Endpoints -> Breakers]
            /\ \A x \in Endpoints : Sound(k[x], Cardinality(FlightTo(d, x)))
        BY <2>1, <2>2, <2>7, <3>1
      <3> HIDE DEF g, h, k
      <3>3. /\ g \in [Calls -> CallStages] /\ h \in [Endpoints -> Breakers]
            /\ IsFiniteSet(AllInFlight(g))
            /\ \A x \in Endpoints : Sound(h[x], Cardinality(FlightTo(g, x)))
            /\ Cardinality(ProbesIn(g)) = Cardinality(ProbesIn(d))
                 + IF Admits(k[target[c]]) /\ y = "probing" THEN 1 ELSE 0
        BY <3>1, <3>2, Admission
      <3> QED BY <3>1, <3>3 DEF g, h, k
    <2>9. r.probing = Cardinality(ProbesIn(r.doing)) /\ r.probing <= MaxConcurrent /\ r.probing \in Nat
      BY <2>1, <2>3, <2>6, <2>8, BreakerFacts DEF b, e
    <2>10. r.queued \in Seq(Calls) /\ Len(r.queued) <= MaxQueued
      BY <2>1, <2>2, <2>3, BreakerFacts
    <2>11. r \in PumpStates
      BY <2>3, <2>8, <2>9, <2>10 DEF PumpStates
    <2> QED BY <1>2, <2>2, <2>3, <2>5, <2>8, <2>9, <2>10, <2>11 DEF Rationed, r, q
  <1> QED BY <1>1, <1>2

\* The loop of pump ends with the queue empty or the slots taken.
LEMMA PumpAllKeeps ==
  ASSUME target \in [Calls -> Endpoints], NEW s, Rationed(s)
  PROVE  Rationed(PumpAll(s)) /\ Pumped(PumpAll(s))
  <1> DEFINE T == {x \in PumpStates : Rationed(x)}
             L == Len(s.queued)
             G == [p \in Nat \X T |-> PumpOnce(p[2])]
             Is(f) == f = [n \in 0 .. L |-> IF n = 0 THEN s ELSE PumpOnce(f[n - 1])]
  <1>1. s \in T /\ L \in Nat
    BY LenProperties DEF Rationed, PumpStates
  <1>2. G \in [Nat \X T -> T]
    <2>1. \A x \in T : PumpOnce(x) \in T
      BY PumpOnceKeeps DEF Rationed
    <2> QED BY <2>1
  <1>3. PICK f \in [0 .. L -> T] : Recursive(f, L, s, G)
    <2> HIDE DEF T, G, L
    <2> QED BY <1>1, <1>2, Recursion
  <1>4. Is(f)
    <2>1. ASSUME NEW n \in 0 .. L, n # 0 PROVE G[<<n, f[n - 1]>>] = PumpOnce(f[n - 1])
      <3>1. n \in Nat /\ f[n - 1] \in T
        BY <1>1, <2>1
      <3>2. <<n, f[n - 1]>> \in Nat \X T
        BY <3>1
      <3> HIDE DEF T
      <3> QED BY <3>2
    <2> HIDE DEF G, L
    <2> QED BY <1>3, <2>1 DEF Recursive
  <1>5. PICK from : Is(from) /\ PumpAll(s) = from[L]
    <2>1. PumpAll(s) = (CHOOSE g : Is(g))[L]
      BY DEF PumpAll
    <2> HIDE DEF Is
    <2> QED BY <1>4, <2>1
  <1>6. from[0] = s /\ \A n \in 1 .. L : from[n] = PumpOnce(from[n - 1])
    <2>1. 0 \in 0 .. L /\ \A n \in 1 .. L : n \in 0 .. L /\ n # 0
      BY <1>1
    <2> HIDE DEF L
    <2> QED BY <1>5, <2>1, Zenon
  <1> DEFINE Q == {n \in Nat : n <= L => /\ Rationed(from[n])
                                         /\ Pumped(from[n]) \/ Len(from[n].queued) = L - n}
  <1>7. 0 \in Q
    BY <1>1, <1>6
  <1>8. ASSUME NEW n \in Nat, n \in Q PROVE n + 1 \in Q
    <2> SUFFICES ASSUME n + 1 <= L
                 PROVE  /\ Rationed(from[n + 1])
                        /\ Pumped(from[n + 1]) \/ Len(from[n + 1].queued) = L - (n + 1)
      OBVIOUS
    <2>1. n + 1 \in 1 .. L /\ n + 1 - 1 = n /\ n <= L
      BY <1>1
    <2>2. from[n + 1] = PumpOnce(from[n])
      BY <1>6, <2>1
    <2>3. Rationed(from[n]) /\ (Pumped(from[n]) \/ Len(from[n].queued) = L - n)
      <3> HIDE DEF L
      <3>1. n <= L => Rationed(from[n]) /\ (Pumped(from[n]) \/ Len(from[n].queued) = L - n)
        BY <1>8
      <3> QED BY <2>1, <3>1
    <2>4. /\ Rationed(from[n + 1])
          /\ Pumped(from[n]) => from[n + 1] = from[n]
          /\ ~Pumped(from[n]) => Len(from[n + 1].queued) = Len(from[n].queued) - 1
      BY <2>2, <2>3, PumpOnceKeeps
    <2> HIDE DEF L
    <2>5. CASE Pumped(from[n])
      BY ONLY <2>3, <2>4, <2>5
    <2>6. CASE ~Pumped(from[n])
      <3>1. Len(from[n].queued) = L - n /\ Len(from[n + 1].queued) = Len(from[n].queued) - 1
        BY ONLY <2>3, <2>4, <2>6
      <3>2. L \in Nat
        BY <1>1
      <3>3. Len(from[n + 1].queued) = L - (n + 1)
        BY ONLY <3>1, <3>2, n \in Nat
      <3> QED BY ONLY <2>4, <3>3
    <2> QED BY ONLY <2>5, <2>6
  <1>9. \A n \in Nat : n \in Q
    <2> HIDE DEF Q
    <2> QED BY <1>7, <1>8, Induction, SMTT(20)
  <1>10. Rationed(from[L]) /\ (Pumped(from[L]) \/ Len(from[L].queued) = 0)
    <2> HIDE DEF L
    <2>1. L \in Q
      BY <1>1, <1>9
    <2> QED BY <1>1, <2>1
  <1>11. Len(from[L].queued) = 0 => from[L].queued = <<>>
    <2>1. from[L].queued \in Seq(Calls)
      BY <1>10 DEF Rationed, PumpStates
    <2> QED BY <2>1, EmptySeq
  <1> HIDE DEF L
  <1> QED BY <1>5, <1>10, <1>11 DEF Pumped

\* The waiters that have expired leave, and pump starts.
LEMMA PumpKeeps ==
  ASSUME target \in [Calls -> Endpoints], NEW s, Rationed(s), NEW n \in 0 .. Len(s.queued)
  PROVE  Rationed(Pump(s, n)) /\ Pumped(Pump(s, n))
  <1> DEFINE q == s.queued
             d == s.doing
             g == [c \in Calls |-> IF \E i \in 1 .. n : q[i] = c THEN "idle" ELSE d[c]]
             p == SubSeq(q, n + 1, Len(q))
             r == [s EXCEPT !.queued = p, !.doing = g]
  <1>1. /\ q \in Seq(Calls) /\ Len(q) \in Nat /\ d \in [Calls -> CallStages]
        /\ \A i \in 1 .. Len(q) : d[q[i]] = "queued" /\ q[i] \in Calls
        /\ \A i, j \in 1 .. Len(q) : q[i] = q[j] => i = j
        /\ Len(q) <= MaxQueued /\ MaxQueued \in Nat
    BY LenProperties, ElementOfSeq, BreakerFacts DEF Rationed, PumpStates
  <1>2. /\ p \in Seq(Calls) /\ Len(p) = Len(q) - n
        /\ \A i \in 1 .. Len(q) - n : p[i] = q[n + i]
    BY <1>1, Suffix
  <1>3. g \in [Calls -> CallStages]
    BY <1>1 DEF CallStages
  <1>4. \A c \in Calls : g[c] = d[c] \/ (g[c] = "idle" /\ d[c] = "queued")
    BY <1>1
  <1>5. /\ r.queued = p /\ r.doing = g /\ r.breaker = s.breaker /\ r.probing = s.probing
        /\ r \in PumpStates
    <2> HIDE DEF p, g
    <2> QED BY <1>2, <1>3 DEF Rationed, PumpStates
  <1>6. \A i \in 1 .. Len(p) : g[p[i]] = "queued"
    <2> SUFFICES ASSUME NEW i \in 1 .. Len(p) PROVE g[p[i]] = "queued"
      OBVIOUS
    <2>1. i \in 1 .. Len(q) - n /\ n + i \in 1 .. Len(q)
      BY <1>1, <1>2
    <2>2. p[i] = q[n + i] /\ q[n + i] \in Calls /\ d[q[n + i]] = "queued"
      BY <1>1, <1>2, <2>1
    <2>3. \A j \in 1 .. n : q[j] # q[n + i]
      <3> SUFFICES ASSUME NEW j \in 1 .. n, q[j] = q[n + i] PROVE FALSE
        OBVIOUS
      <3>1. j \in 1 .. Len(q) /\ j # n + i
        BY <1>1, <2>1
      <3> QED BY <1>1, <2>1, <3>1
    <2> QED BY <2>2, <2>3
  <1>7. \A i, j \in 1 .. Len(p) : p[i] = p[j] => i = j
    <2> SUFFICES ASSUME NEW i \in 1 .. Len(p), NEW j \in 1 .. Len(p), p[i] = p[j] PROVE i = j
      OBVIOUS
    <2>1. /\ i \in 1 .. Len(q) - n /\ j \in 1 .. Len(q) - n
          /\ n + i \in 1 .. Len(q) /\ n + j \in 1 .. Len(q)
      BY <1>1, <1>2
    <2>2. n + i = n + j
      BY <1>1, <1>2, <2>1
    <2> QED BY <2>1, <2>2
  <1> HIDE DEF p, g
  <1>8. /\ AllInFlight(g) = AllInFlight(d) /\ ProbesIn(g) = ProbesIn(d)
        /\ \A e \in Endpoints : FlightTo(g, e) = FlightTo(d, e)
    BY <1>4 DEF AllInFlight, ProbesIn, FlightTo
  <1>9. Len(p) <= MaxQueued
    BY <1>1, <1>2
  <1> HIDE DEF r
  <1>10. Rationed(r)
    BY <1>5, <1>6, <1>7, <1>8, <1>9 DEF Rationed
  <1>11. Pump(s, n) = PumpAll(r)
    BY DEF Pump, r, p, g
  <1> QED BY <1>10, <1>11, PumpAllKeeps

\* Rationed, field by field.
LEMMA RationedFields ==
  ASSUME NEW q, NEW k, NEW d, NEW p, NEW r,
         r = [queued |-> q, breaker |-> k, doing |-> d, probing |-> p]
  PROVE  Rationed(r) <=>
           /\ q \in Seq(Calls) /\ k \in [Endpoints -> Breakers] /\ d \in [Calls -> CallStages]
           /\ p \in Nat
           /\ Len(q) <= MaxQueued
           /\ \A i \in 1 .. Len(q) : d[q[i]] = "queued"
           /\ \A i, j \in 1 .. Len(q) : q[i] = q[j] => i = j
           /\ IsFiniteSet(AllInFlight(d))
           /\ p = Cardinality(ProbesIn(d)) /\ p <= MaxConcurrent
           /\ \A e \in Endpoints : Sound(k[e], Cardinality(FlightTo(d, e)))
  <1>1. r.queued = q /\ r.breaker = k /\ r.doing = d /\ r.probing = p
    OBVIOUS
  <1>2. r \in PumpStates <=>
          /\ q \in Seq(Calls) /\ k \in [Endpoints -> Breakers] /\ d \in [Calls -> CallStages]
          /\ p \in Nat
    BY DEF PumpStates
  <1> QED BY <1>1, <1>2 DEF Rationed

\* Whatever pump leaves is the state that follows.
LEMMA PumpedState ==
  ASSUME target \in [Calls -> Endpoints], target' = target,
         NEW s, Rationed(s), NEW n \in 0 .. Len(s.queued), Becomes(Pump(s, n))
  PROVE  Rationed(BreakerNow)' /\ NoIdleSlot'
  <1> DEFINE r == Pump(s, n)
  <1>1. Rationed(r) /\ Pumped(r)
    BY PumpKeeps
  <1> HIDE DEF r
  <1>2. queued' = r.queued /\ breaker' = r.breaker /\ doing' = r.doing /\ probing' = r.probing
    BY DEF Becomes, r
  <1>3. r \in PumpStates
    BY <1>1 DEF Rationed
  <1>4. r = [queued |-> r.queued, breaker |-> r.breaker, doing |-> r.doing, probing |-> r.probing]
    BY <1>3 DEF PumpStates
  <1>5. BreakerNow' = r
    BY <1>2, <1>4 DEF BreakerNow
  <1>6. r.probing <= MaxConcurrent /\ r.probing \in Nat
    BY <1>1, <1>3 DEF Rationed, PumpStates
  <1>7. NoIdleSlot'
    BY <1>1, <1>2, <1>6, BreakerFacts DEF NoIdleSlot, Pumped
  <1> QED BY <1>1, <1>5, <1>7 DEF Rationed, FlightTo, AllInFlight, ProbesIn, PumpStates, Sound

\* The same for the actions that change the state themselves.
LEMMA ChangedState ==
  ASSUME target' = target,
         NEW q, NEW k, NEW d, NEW p, queued' = q, breaker' = k, doing' = d, probing' = p,
         q \in Seq(Calls), k \in [Endpoints -> Breakers], d \in [Calls -> CallStages], p \in Nat,
         Len(q) <= MaxQueued,
         \A i \in 1 .. Len(q) : d[q[i]] = "queued",
         \A i, j \in 1 .. Len(q) : q[i] = q[j] => i = j,
         IsFiniteSet(AllInFlight(d)),
         p = Cardinality(ProbesIn(d)), p <= MaxConcurrent,
         \A e \in Endpoints : Sound(k[e], Cardinality(FlightTo(d, e)))
  PROVE  Rationed(BreakerNow)'
  <1> DEFINE r == [queued |-> q, breaker |-> k, doing |-> d, probing |-> p]
  <1>1. BreakerNow' = r
    BY DEF BreakerNow
  <1>2. Rationed(r)
    BY RationedFields
  <1> HIDE DEF r
  <1> QED BY <1>1, <1>2 DEF Rationed, FlightTo, AllInFlight, ProbesIn, PumpStates, Sound

\* What the invariant says of the variables.
LEMMA BreakerFields ==
  ASSUME BreakerIInv
  PROVE  /\ queued \in Seq(Calls) /\ breaker \in [Endpoints -> Breakers]
         /\ doing \in [Calls -> CallStages] /\ probing \in Nat
         /\ Len(queued) <= MaxQueued /\ Len(queued) \in Nat
         /\ \A i \in 1 .. Len(queued) : queued[i] \in Calls /\ doing[queued[i]] = "queued"
         /\ \A i, j \in 1 .. Len(queued) : queued[i] = queued[j] => i = j
         /\ IsFiniteSet(AllInFlight(doing))
         /\ probing = Cardinality(ProbesIn(doing)) /\ probing <= MaxConcurrent
         /\ \A e \in Endpoints : Sound(breaker[e], Cardinality(FlightTo(doing, e)))
         /\ \A e \in Endpoints : Cardinality(FlightTo(doing, e)) \in Nat
  <1>1. BreakerNow = [queued |-> queued, breaker |-> breaker, doing |-> doing, probing |-> probing]
    BY DEF BreakerNow
  <1>2. Rationed(BreakerNow)
    BY DEF BreakerIInv
  <1>3. \A e \in Endpoints : FlightTo(doing, e) \subseteq AllInFlight(doing)
    BY DEF FlightTo, AllInFlight
  <1> HIDE DEF BreakerIInv
  <1>4. /\ queued \in Seq(Calls) /\ breaker \in [Endpoints -> Breakers]
        /\ doing \in [Calls -> CallStages] /\ probing \in Nat
        /\ Len(queued) <= MaxQueued
        /\ \A i \in 1 .. Len(queued) : doing[queued[i]] = "queued"
        /\ \A i, j \in 1 .. Len(queued) : queued[i] = queued[j] => i = j
        /\ IsFiniteSet(AllInFlight(doing))
        /\ probing = Cardinality(ProbesIn(doing)) /\ probing <= MaxConcurrent
        /\ \A e \in Endpoints : Sound(breaker[e], Cardinality(FlightTo(doing, e)))
    BY <1>1, <1>2, RationedFields
  <1>5. \A e \in Endpoints : Cardinality(FlightTo(doing, e)) \in Nat
    BY <1>3, <1>4, FS_Subset, FS_CardinalityType
  <1> QED BY <1>4, <1>5, LenProperties, ElementOfSeq

\* All breakers are closed in the beginning, and nothing is queued.
LEMMA BreakerStarts == BreakerInit => BreakerIInv
  <1> SUFFICES ASSUME BreakerInit PROVE BreakerIInv
    OBVIOUS
  <1>1. /\ queued \in Seq(Calls) /\ Len(queued) = 0 /\ probing = 0 /\ probing \in Nat
        /\ target \in [Calls -> Endpoints]
    BY EmptySeq DEF BreakerInit
  <1>2. NewBreaker \in Breakers /\ NewBreaker.state = "CLOSED"
    BY BreakerFacts DEF NewBreaker, Breakers
  <1>3. /\ breaker \in [Endpoints -> Breakers] /\ \A e \in Endpoints : breaker[e].state = "CLOSED"
        /\ doing \in [Calls -> CallStages] /\ \A c \in Calls : doing[c] = "idle"
    BY <1>2 DEF BreakerInit, CallStages
  <1>4. AllInFlight(doing) = {} /\ ProbesIn(doing) = {}
    BY <1>3 DEF AllInFlight, ProbesIn
  <1>5. IsFiniteSet(AllInFlight(doing)) /\ Cardinality(ProbesIn(doing)) = 0
    BY <1>4, FS_EmptySet
  <1>6. \A e \in Endpoints : Sound(breaker[e], Cardinality(FlightTo(doing, e)))
    BY <1>3 DEF Sound
  <1>7. NoIdleSlot
    BY DEF BreakerInit, NoIdleSlot
  <1>8. BreakerNow = [queued |-> queued, breaker |-> breaker, doing |-> doing, probing |-> probing]
    BY DEF BreakerNow
  <1>9. Rationed(BreakerNow)
    <2>1. /\ Len(queued) <= MaxQueued /\ probing <= MaxConcurrent
          /\ \A i \in 1 .. Len(queued) : doing[queued[i]] = "queued"
          /\ \A i, j \in 1 .. Len(queued) : queued[i] = queued[j] => i = j
      BY <1>1, BreakerFacts
    <2>2. probing = Cardinality(ProbesIn(doing))
      BY <1>1, <1>5
    <2> QED BY <1>1, <1>3, <1>5, <1>6, <1>8, <2>1, <2>2, RationedFields
  <1> QED BY <1>1, <1>7, <1>9 DEF BreakerIInv

\* A call asks the breaker itself (y is "calling") or with a ticket ("probing").
LEMMA AskKeeps ==
  ASSUME BreakerIInv, UNCHANGED <<target, queued>>, NEW c \in Calls, doing[c] = "idle",
         NEW y \in {"calling", "probing"},
         AsksAt(breaker, breaker', target[c]),
         CallMoved(doing, doing', c, IF Admits(breaker[target[c]]) THEN y ELSE "idle"),
         probing' = probing + IF Admits(breaker[target[c]]) /\ y = "probing" THEN 1 ELSE 0,
         probing' <= MaxConcurrent
  PROVE  Rationed(BreakerNow)'
  <1> DEFINE k == breaker'
             d == doing'
             n == probing'
  <1>1. target \in [Calls -> Endpoints]
    BY DEF BreakerIInv
  <1>2. /\ d \in [Calls -> CallStages] /\ k \in [Endpoints -> Breakers]
        /\ IsFiniteSet(AllInFlight(d))
        /\ \A x \in Endpoints : Sound(k[x], Cardinality(FlightTo(d, x)))
        /\ Cardinality(ProbesIn(d)) = Cardinality(ProbesIn(doing))
             + IF Admits(breaker[target[c]]) /\ y = "probing" THEN 1 ELSE 0
    <2>1. AsksAt(breaker, k, target[c])
          /\ CallMoved(doing, d, c, IF Admits(breaker[target[c]]) THEN y ELSE "idle")
          /\ doing[c] \notin {"calling", "probing"}
      OBVIOUS
    <2>2. /\ doing \in [Calls -> CallStages] /\ breaker \in [Endpoints -> Breakers]
          /\ IsFiniteSet(AllInFlight(doing))
          /\ \A x \in Endpoints : Sound(breaker[x], Cardinality(FlightTo(doing, x)))
      BY BreakerFields
    <2>3. PICK d0 \in [Calls -> CallStages], k0 \in [Endpoints -> Breakers] :
            d0 = doing /\ k0 = breaker
      BY <2>2
    <2>4. /\ IsFiniteSet(AllInFlight(d0))
          /\ \A x \in Endpoints : Sound(k0[x], Cardinality(FlightTo(d0, x)))
          /\ d0[c] \notin {"calling", "probing"}
          /\ CallMoved(d0, d, c, IF Admits(k0[target[c]]) THEN y ELSE "idle")
          /\ AsksAt(k0, k, target[c])
      BY <2>1, <2>2, <2>3
    <2> HIDE DEF k, d
    <2>5. /\ d \in [Calls -> CallStages] /\ k \in [Endpoints -> Breakers]
          /\ IsFiniteSet(AllInFlight(d))
          /\ \A x \in Endpoints : Sound(k[x], Cardinality(FlightTo(d, x)))
          /\ Cardinality(ProbesIn(d)) = Cardinality(ProbesIn(d0))
               + IF Admits(k0[target[c]]) /\ y = "probing" THEN 1 ELSE 0
      BY <1>1, <2>4, Admission
    <2> QED BY <2>3, <2>5
  <1>3. n = Cardinality(ProbesIn(d)) /\ n \in Nat /\ n <= MaxConcurrent
    <2> HIDE DEF d
    <2> QED BY <1>2, BreakerFields
  <1>4. \A i \in 1 .. Len(queued) : d[queued[i]] = "queued"
    <2>1. \A i \in 1 .. Len(queued) : queued[i] # c
      BY BreakerFields
    <2>2. \A z \in Calls : z # c => d[z] = doing[z]
      BY BreakerFields DEF CallMoved
    <2> HIDE DEF d
    <2> QED BY <2>1, <2>2, BreakerFields
  <1>5. queued' = queued /\ breaker' = k /\ doing' = d /\ probing' = n /\ target' = target
    OBVIOUS
  <1> HIDE DEF k, d, n
  <1> QED BY <1>2, <1>3, <1>4, <1>5, BreakerFields, ChangedState

\* The breaker of an endpoint changes on its own: no call starts or ends.
LEMMA BreakersKeep ==
  ASSUME BreakerIInv, UNCHANGED <<target, queued, doing, probing>>,
         breaker' \in [Endpoints -> Breakers],
         \A e \in Endpoints : \A k \in Nat : Sound(breaker[e], k) => Sound(breaker'[e], k)
  PROVE  BreakerIInv'
  <1> DEFINE h == breaker'
  <1>1. \A e \in Endpoints : Sound(h[e], Cardinality(FlightTo(doing, e)))
    BY BreakerFields
  <1>2. queued' = queued /\ breaker' = h /\ doing' = doing /\ probing' = probing /\ target' = target
        /\ h \in [Endpoints -> Breakers]
    OBVIOUS
  <1> HIDE DEF h
  <1>3. /\ \A i \in 1 .. Len(queued) : doing[queued[i]] = "queued"
    BY BreakerFields
  <1>4. Rationed(BreakerNow)'
    BY <1>1, <1>2, <1>3, BreakerFields, ChangedState
  <1> QED BY <1>2, <1>4 DEF BreakerIInv, NoIdleSlot

\* No step of the breakers or of the pump breaks the rationing.
LEMMA BreakerInductive ==
  ASSUME ForcedStates \subseteq {"OPEN", "CLOSED"}, BreakerIInv, [BreakerNext]_breakerVars
  PROVE  BreakerIInv'
  <1>1. target \in [Calls -> Endpoints] /\ NoIdleSlot
    BY DEF BreakerIInv
  <1>2. ASSUME NEW c \in Calls, Admit(c) PROVE BreakerIInv'
    <2> DEFINE y == "calling"
    <2>1. /\ doing[c] = "idle" /\ AsksAt(breaker, breaker', target[c])
          /\ CallMoved(doing, doing', c, IF Admits(breaker[target[c]]) THEN y ELSE "idle")
          /\ UNCHANGED <<target, queued, probing>>
          /\ y \in {"calling", "probing"} /\ y # "probing"
      BY <1>2 DEF Admit, AsksAt, CallMoved
    <2> HIDE DEF y
    <2>2. /\ probing' = probing + IF Admits(breaker[target[c]]) /\ y = "probing" THEN 1 ELSE 0
          /\ probing' <= MaxConcurrent
      BY <2>1, BreakerFields
    <2>3. Rationed(BreakerNow)'
      BY <2>1, <2>2, AskKeeps
    <2> QED BY <1>1, <2>1, <2>3 DEF BreakerIInv, NoIdleSlot
  <1>3. ASSUME NEW c \in Calls, Schedule(c) PROVE BreakerIInv'
    <2>1. CASE probing < MaxConcurrent
      <3> DEFINE y == "probing"
      <3>1. /\ doing[c] = "idle" /\ AsksAt(breaker, breaker', target[c])
            /\ CallMoved(doing, doing', c, IF Admits(breaker[target[c]]) THEN y ELSE "idle")
            /\ probing' = IF Admits(breaker[target[c]]) THEN probing + 1 ELSE probing
            /\ UNCHANGED <<target, queued>>
            /\ y \in {"calling", "probing"} /\ y = "probing"
        BY <1>3, <2>1 DEF Schedule, AsksAt, CallMoved
      <3> HIDE DEF y
      <3>2. /\ probing' = probing + IF Admits(breaker[target[c]]) /\ y = "probing" THEN 1 ELSE 0
            /\ probing' <= MaxConcurrent
        BY <2>1, <3>1, BreakerFields, BreakerFacts
      <3>3. Rationed(BreakerNow)'
        BY <3>1, <3>2, AskKeeps
      <3>4. queued = <<>>
        BY <1>1, <2>1, BreakerFacts, BreakerFields DEF NoIdleSlot
      <3> QED BY <1>1, <3>1, <3>3, <3>4 DEF BreakerIInv, NoIdleSlot
    <2>2. CASE ~(probing < MaxConcurrent)
      <3> DEFINE q == Append(queued, c)
                 d == [doing EXCEPT ![c] = "queued"]
      <3>1. /\ queued' = q /\ doing' = d /\ breaker' = breaker /\ probing' = probing
            /\ target' = target
            /\ doing[c] = "idle" /\ Len(queued) < MaxQueued
        BY <1>3, <2>2 DEF Schedule
      <3>2. /\ q \in Seq(Calls) /\ Len(q) = Len(queued) + 1 /\ q[Len(queued) + 1] = c
            /\ \A i \in 1 .. Len(queued) : q[i] = queued[i]
        BY BreakerFields, AppendProperties
      <3>3. /\ d \in [Calls -> CallStages] /\ d[c] = "queued"
            /\ \A z \in Calls : z # c => d[z] = doing[z]
        BY BreakerFields DEF CallStages
      <3>4. /\ AllInFlight(d) = AllInFlight(doing) /\ ProbesIn(d) = ProbesIn(doing)
            /\ \A x \in Endpoints : FlightTo(d, x) = FlightTo(doing, x)
        BY <3>1, <3>3 DEF AllInFlight, ProbesIn, FlightTo
      <3>5. \A i \in 1 .. Len(q) : i = Len(queued) + 1 \/ i \in 1 .. Len(queued)
        BY <3>2, BreakerFields
      <3>6. \A i \in 1 .. Len(queued) : queued[i] # c
        BY <3>1, BreakerFields
      <3> HIDE DEF q, d
      <3>7. ASSUME NEW i \in 1 .. Len(q) PROVE d[q[i]] = "queued"
        <4>1. CASE i = Len(queued) + 1
          BY ONLY <3>2, <3>3, <4>1
        <4>2. CASE i \in 1 .. Len(queued)
          <5>1. queued[i] \in Calls /\ doing[queued[i]] = "queued"
            BY <4>2, BreakerFields
          <5>2. q[i] = queued[i]
            BY ONLY <3>2, <4>2
          <5>3. d[queued[i]] = "queued"
            BY ONLY <3>3, <5>1
          <5> QED BY ONLY <5>2, <5>3
        <4> QED BY ONLY <3>5, <4>1, <4>2, i \in 1 .. Len(q)
      <3>8. \A i, j \in 1 .. Len(q) : q[i] = q[j] => i = j
        BY <3>2, <3>5, <3>6, BreakerFields
      <3>9. Len(q) <= MaxQueued
        BY <3>1, <3>2, BreakerFacts, BreakerFields
      <3>10. Rationed(BreakerNow)'
        <4>1. IsFiniteSet(AllInFlight(d)) /\ probing = Cardinality(ProbesIn(d))
          BY <3>4, BreakerFields
        <4>2. \A e \in Endpoints : Sound(breaker[e], Cardinality(FlightTo(d, e)))
          BY <3>4, BreakerFields
        <4> QED BY <3>1, <3>2, <3>3, <3>7, <3>8, <3>9, <4>1, <4>2, BreakerFields, ChangedState
      <3>11. NoIdleSlot'
        BY <2>2, <3>1, BreakerFields, BreakerFacts DEF NoIdleSlot
      <3> QED BY <1>1, <3>1, <3>10, <3>11 DEF BreakerIInv
    <2> QED BY <2>1, <2>2
  <1>4. ASSUME NEW c \in Calls, NEW ok \in BOOLEAN, doing[c] \in {"calling", "probing"},
               NEW k, k = [breaker EXCEPT ![target[c]] = Recorded(breaker[target[c]], ok)],
               NEW d, CallMoved(doing, d, c, "idle")
        PROVE  /\ k \in [Endpoints -> Breakers] /\ d \in [Calls -> CallStages]
               /\ IsFiniteSet(AllInFlight(d)) /\ Cardinality(ProbesIn(d)) \in Nat
               /\ Cardinality(ProbesIn(doing)) = Cardinality(ProbesIn(d))
                    + IF doing[c] = "probing" THEN 1 ELSE 0
               /\ \A i \in 1 .. Len(queued) : d[queued[i]] = "queued"
               /\ \A e \in Endpoints : Sound(k[e], Cardinality(FlightTo(d, e)))
    <2>1. /\ d \in [Calls -> CallStages]
          /\ IsFiniteSet(AllInFlight(d))
          /\ \A e \in Endpoints : /\ Cardinality(FlightTo(d, e)) \in Nat
                                  /\ Cardinality(FlightTo(doing, e)) = Cardinality(FlightTo(d, e))
                                       + IF target[c] = e THEN 1 ELSE 0
          /\ Cardinality(ProbesIn(doing)) = Cardinality(ProbesIn(d))
               + IF doing[c] = "probing" THEN 1 ELSE 0
          /\ Cardinality(ProbesIn(d)) \in Nat
      BY <1>1, <1>4, BreakerFields, CallEnds
    <2> DEFINE e == target[c]
               b == breaker[e]
    <2>2. e \in Endpoints /\ b \in Breakers /\ Sound(b, Cardinality(FlightTo(doing, e)))
      BY <1>1, BreakerFields
    <2> HIDE DEF e, b
    <2>3. Cardinality(FlightTo(doing, e)) = Cardinality(FlightTo(d, e)) + 1
          /\ Cardinality(FlightTo(d, e)) \in Nat
      BY <2>1, <2>2 DEF e
    <2>4. Recorded(b, ok) \in Breakers /\ Sound(Recorded(b, ok), Cardinality(FlightTo(d, e)))
      BY <1>4, <2>2, <2>3, RecordedProperties
    <2>5. /\ k \in [Endpoints -> Breakers] /\ k[e] = Recorded(b, ok)
          /\ \A x \in Endpoints : x # e => k[x] = breaker[x]
      BY <1>4, <2>2, <2>4, BreakerFields DEF b, e
    <2>6. ASSUME NEW x \in Endpoints PROVE Sound(k[x], Cardinality(FlightTo(d, x)))
      <3>1. CASE x = e
        BY <2>4, <2>5, <3>1
      <3>2. CASE x # e
        <4>1. Cardinality(FlightTo(d, x)) = Cardinality(FlightTo(doing, x))
          BY <2>1, <3>2 DEF e
        <4> QED BY <2>5, <3>2, <4>1, BreakerFields
      <3> QED BY <3>1, <3>2
    <2>7. \A i \in 1 .. Len(queued) : d[queued[i]] = "queued"
      <3>1. \A i \in 1 .. Len(queued) : queued[i] # c
        BY <1>4, BreakerFields
      <3>2. \A z \in Calls : z # c => d[z] = doing[z]
        BY <1>4, BreakerFields DEF CallMoved
      <3> QED BY <3>1, <3>2, BreakerFields
    <2> QED BY <2>1, <2>5, <2>6, <2>7
  <1>5. ASSUME NEW c \in Calls, Finish(c) PROVE BreakerIInv'
    <2>1. PICK ok \in BOOLEAN :
            breaker' = [breaker EXCEPT ![target[c]] = Recorded(breaker[target[c]], ok)]
      BY <1>5 DEF Finish, Outcomes
    <2> DEFINE k == [breaker EXCEPT ![target[c]] = Recorded(breaker[target[c]], ok)]
               d == [doing EXCEPT ![c] = "idle"]
    <2>2. /\ doing[c] = "calling" /\ CallMoved(doing, d, c, "idle")
          /\ queued' = queued /\ breaker' = k /\ doing' = d /\ probing' = probing /\ target' = target
      BY <1>5, <2>1 DEF Finish, CallMoved
    <2>3. k = [breaker EXCEPT ![target[c]] = Recorded(breaker[target[c]], ok)]
      OBVIOUS
    <2> HIDE DEF k, d
    <2>4. /\ k \in [Endpoints -> Breakers] /\ d \in [Calls -> CallStages]
          /\ IsFiniteSet(AllInFlight(d)) /\ Cardinality(ProbesIn(d)) \in Nat
          /\ Cardinality(ProbesIn(doing)) = Cardinality(ProbesIn(d))
               + IF doing[c] = "probing" THEN 1 ELSE 0
          /\ \A i \in 1 .. Len(queued) : d[queued[i]] = "queued"
          /\ \A e \in Endpoints : Sound(k[e], Cardinality(FlightTo(d, e)))
      BY <1>4, <2>2, <2>3
    <2>5. probing = Cardinality(ProbesIn(d))
      BY <2>2, <2>4, BreakerFields
    <2>6. Rationed(BreakerNow)'
      BY <2>2, <2>4, <2>5, BreakerFields, ChangedState
    <2> QED BY <1>1, <2>2, <2>6 DEF BreakerIInv, NoIdleSlot
  <1>6. ASSUME NEW c \in Calls, FinishProbe(c) PROVE BreakerIInv'
    <2> DEFINE d == [doing EXCEPT ![c] = "idle"]
               K(ok) == [breaker EXCEPT ![target[c]] = Recorded(breaker[target[c]], ok)]
    <2>1. PICK ok \in BOOLEAN, n \in 0 .. Len(queued) :
            Becomes(Pump([breaker |-> K(ok), doing |-> d, probing |-> probing - 1, queued |-> queued], n))
      BY <1>6 DEF FinishProbe, Outcomes, SlotFreed
    <2> DEFINE k == K(ok)
               s == [breaker |-> k, doing |-> d, probing |-> probing - 1, queued |-> queued]
    <2>2. /\ doing[c] = "probing" /\ CallMoved(doing, d, c, "idle") /\ target' = target
          /\ k = [breaker EXCEPT ![target[c]] = Recorded(breaker[target[c]], ok)]
          /\ Becomes(Pump(s, n))
      BY <1>6, <2>1 DEF FinishProbe, CallMoved
    <2> HIDE DEF k, d
    <2>3. /\ k \in [Endpoints -> Breakers] /\ d \in [Calls -> CallStages]
          /\ IsFiniteSet(AllInFlight(d)) /\ Cardinality(ProbesIn(d)) \in Nat
          /\ Cardinality(ProbesIn(doing)) = Cardinality(ProbesIn(d))
               + IF doing[c] = "probing" THEN 1 ELSE 0
          /\ \A i \in 1 .. Len(queued) : d[queued[i]] = "queued"
          /\ \A e \in Endpoints : Sound(k[e], Cardinality(FlightTo(d, e)))
      BY <1>4, <2>2
    <2>4. /\ probing - 1 = Cardinality(ProbesIn(d)) /\ probing - 1 \in Nat
          /\ probing - 1 <= MaxConcurrent
      BY <2>2, <2>3, BreakerFields, BreakerFacts
    <2> DEFINE p == probing - 1
    <2>5. s = [queued |-> queued, breaker |-> k, doing |-> d, probing |-> p]
      OBVIOUS
    <2>6. s.queued = queued
      OBVIOUS
    <2> HIDE DEF s
    <2>7. Rationed(s)
      <3>1. p \in Nat /\ p = Cardinality(ProbesIn(d)) /\ p <= MaxConcurrent
        BY <2>4
      <3>2. /\ queued \in Seq(Calls) /\ Len(queued) <= MaxQueued
            /\ \A i, j \in 1 .. Len(queued) : queued[i] = queued[j] => i = j
        BY BreakerFields
      <3> HIDE DEF p
      <3> QED BY <2>3, <2>5, <3>1, <3>2, RationedFields
    <2>8. Rationed(BreakerNow)' /\ NoIdleSlot'
      BY <1>1, <2>2, <2>6, <2>7, PumpedState
    <2> QED BY <1>1, <2>2, <2>8 DEF BreakerIInv
  <1>7. ASSUME PumpByTimer PROVE BreakerIInv'
    <2> DEFINE s == [breaker |-> breaker, doing |-> doing, probing |-> probing, queued |-> queued]
    <2>1. PICK n \in 1 .. Len(queued) : Becomes(Pump(s, n))
      BY <1>7 DEF PumpByTimer
    <2>2. s = BreakerNow /\ s.queued = queued /\ target' = target
      BY <1>7 DEF PumpByTimer, BreakerNow
    <2>3. n \in 0 .. Len(queued)
      BY BreakerFields
    <2>4. Rationed(s)
      BY <2>2 DEF BreakerIInv
    <2> HIDE DEF s
    <2>5. Rationed(BreakerNow)' /\ NoIdleSlot'
      BY <1>1, <2>1, <2>2, <2>3, <2>4, PumpedState
    <2> QED BY <1>1, <2>2, <2>5 DEF BreakerIInv
  <1>8. ASSUME NEW e \in Endpoints, NEW s \in ForcedStates, ForceState(e, s) PROVE BreakerIInv'
    <2> DEFINE b == breaker[e]
               f == IF s = "OPEN" THEN [Opened(b) EXCEPT !.wait = ResetTimeout]
                                  ELSE [b EXCEPT !.state = s]
    <2>1. breaker' = [breaker EXCEPT ![e] = f] /\ UNCHANGED <<target, queued, doing, probing>>
      BY <1>8 DEF ForceState
    <2>2. b \in Breakers
      BY BreakerFields
    <2>3. f \in Breakers /\ \A k \in Nat : Sound(b, k) => Sound(f, k)
      <3>1. CASE s = "OPEN"
        <4>1. /\ Opened(b) \in Breakers /\ Opened(b).state = "OPEN"
              /\ \A k \in Nat : Sound(b, k) => Opened(b).probes = 0
          <5>1. ResetTimeout \in 0 .. ResetTimeout /\ 0 \in 0 .. SuccessThreshold
            BY BreakerFacts
          <5> QED BY <2>2, <5>1 DEF Opened, Sound, Breakers
        <4>2. f = [Opened(b) EXCEPT !.wait = ResetTimeout] /\ ResetTimeout \in 0 .. ResetTimeout
          BY <3>1, BreakerFacts
        <4> HIDE DEF f, b
        <4>3. f \in Breakers /\ f.state = "OPEN" /\ f.probes = Opened(b).probes
          BY <4>1, <4>2 DEF Breakers
        <4> QED BY <4>1, <4>3 DEF Sound
      <3>2. CASE s # "OPEN"
        <4>1. s = "CLOSED" /\ f = [b EXCEPT !.state = "CLOSED"]
          BY <3>2
        <4> HIDE DEF f
        <4>2. f \in Breakers /\ f.state = "CLOSED"
          BY <2>2, <4>1 DEF Breakers
        <4> QED BY <4>2 DEF Sound
      <3> QED BY <3>1, <3>2
    <2> HIDE DEF f
    <2>4. /\ breaker' \in [Endpoints -> Breakers] /\ breaker'[e] = f
          /\ \A x \in Endpoints : x # e => breaker'[x] = breaker[x]
      BY <2>1, <2>3, BreakerFields
    <2>5. \A x \in Endpoints : \A k \in Nat : Sound(breaker[x], k) => Sound(breaker'[x], k)
      BY <2>3, <2>4
    <2> QED BY <2>1, <2>4, <2>5, BreakersKeep
  <1>9. ASSUME Restart PROVE BreakerIInv'
    <2> DEFINE k == [e \in Endpoints |-> [Current(breaker[e]) EXCEPT !.probes = 0]]
               d == [c \in Calls |-> "idle"]
    <2>1. /\ breaker' = k /\ doing' = d /\ probing' = 0 /\ queued' = <<>> /\ target' = target
      BY <1>9 DEF Restart
    <2>2. ASSUME NEW e \in Endpoints
          PROVE  [Current(breaker[e]) EXCEPT !.probes = 0] \in Breakers
                 /\ [Current(breaker[e]) EXCEPT !.probes = 0].probes = 0
      <3>1. Current(breaker[e]) \in Breakers
        <4>1. breaker[e] \in Breakers /\ 0 \in 0 .. MaxCount
          BY BreakerFields, BreakerFacts
        <4> QED BY <4>1 DEF Current, Breakers
      <3>2. 0 \in 0 .. SuccessThreshold
        BY BreakerFacts
      <3> QED BY <3>1, <3>2 DEF Breakers
    <2>3. k \in [Endpoints -> Breakers] /\ \A e \in Endpoints : k[e].probes = 0
      BY <2>2
    <2>4. d \in [Calls -> CallStages] /\ AllInFlight(d) = {} /\ ProbesIn(d) = {}
          /\ \A e \in Endpoints : FlightTo(d, e) = {}
      BY DEF CallStages, AllInFlight, ProbesIn, FlightTo
    <2> HIDE DEF k, d
    <2>5. IsFiniteSet(AllInFlight(d)) /\ 0 = Cardinality(ProbesIn(d)) /\ 0 \in Nat /\ 0 <= MaxConcurrent
      BY <2>4, FS_EmptySet, BreakerFacts
    <2>6. \A e \in Endpoints : Sound(k[e], Cardinality(FlightTo(d, e)))
      BY <2>3, <2>4, FS_EmptySet DEF Sound
    <2> DEFINE q == queued'
    <2>7. /\ q \in Seq(Calls) /\ Len(q) = 0 /\ queued' = q
      BY <2>1, EmptySeq
    <2> HIDE DEF q
    <2>8. /\ Len(q) <= MaxQueued
          /\ \A i \in 1 .. Len(q) : d[q[i]] = "queued"
          /\ \A i, j \in 1 .. Len(q) : q[i] = q[j] => i = j
      BY <2>7, BreakerFacts
    <2>9. Rationed(BreakerNow)'
      BY <2>1, <2>3, <2>4, <2>5, <2>6, <2>7, <2>8, ChangedState
    <2> QED BY <1>1, <2>1, <2>9 DEF BreakerIInv, NoIdleSlot
  <1>10. ASSUME BreakerTick PROVE BreakerIInv'
    <2> DEFINE F(b) == [b EXCEPT !.wait = IF b.wait = 0 THEN 0 ELSE b.wait - 1]
    <2>1. breaker' = [e \in Endpoints |-> F(breaker[e])] /\ UNCHANGED <<target, queued, doing, probing>>
      BY <1>10 DEF BreakerTick
    <2>2. ASSUME NEW b \in Breakers
          PROVE  F(b) \in Breakers /\ \A k \in Nat : Sound(b, k) => Sound(F(b), k)
      <3>1. (IF b.wait = 0 THEN 0 ELSE b.wait - 1) \in 0 .. ResetTimeout
        BY BreakerFacts DEF Breakers
      <3> QED BY <3>1 DEF Breakers, Sound
    <2> HIDE DEF F
    <2>3. /\ breaker' \in [Endpoints -> Breakers]
          /\ \A e \in Endpoints : \A k \in Nat : Sound(breaker[e], k) => Sound(breaker'[e], k)
      BY <2>1, <2>2, BreakerFields
    <2> QED BY <2>1, <2>3, BreakersKeep
  <1>11. ASSUME UNCHANGED <<breaker, doing, target, probing, queued>> PROVE BreakerIInv'
    BY <1>11, BreakerFields, BreakersKeep
  <1>12. ASSUME NEW e \in Endpoints, Recover(e) PROVE BreakerIInv'
    BY <1>11, <1>12 DEF Recover
  <1>13. CASE UNCHANGED breakerVars
    BY <1>11, <1>13 DEF breakerVars
  <1> QED BY <1>2, <1>3, <1>5, <1>6, <1>7, <1>8, <1>9, <1>10, <1>12, <1>13 DEF BreakerNext

\* The rationing says what was to be shown.
LEMMA BreakerSafe == BreakerIInv => BreakerTypeOK /\ ProbesExact
  <1> SUFFICES ASSUME BreakerIInv PROVE BreakerTypeOK /\ ProbesExact
    OBVIOUS
  <1>1. target \in [Calls -> Endpoints] /\ NoIdleSlot
    BY DEF BreakerIInv
  <1>2. ProbesIn(doing) = {c \in Calls : doing[c] = "probing"}
        /\ \A e \in Endpoints : FlightTo(doing, e) = InFlight(e)
    BY DEF ProbesIn, FlightTo, InFlight
  <1>3. SlotsCounted
    BY <1>2, BreakerFields DEF SlotsCounted
  <1>4. NoPhantomProbe
    BY <1>2, BreakerFields DEF NoPhantomProbe, Sound
  <1>5. DOMAIN queued = 1 .. Len(queued)
    BY BreakerFields, LenProperties
  <1>6. BreakerTypeOK
    BY <1>1, <1>5, BreakerFields DEF BreakerTypeOK, Breakers, CallStages
  <1> QED BY <1>1, <1>3, <1>4, <1>6 DEF ProbesExact

\* In every state, with any number of calls in flight, probes are rationed exactly
\* (ProbeScheduler's pump, EndpointBreaker's _admit and _transition): the slots
\* counted are those taken, none is idle beside a waiter, and a half-open breaker
\* counts no probe that is gone, unless an operator forces a breaker half-open.
THEOREM RationsProbes ==
  ASSUME ForcedStates \subseteq {"OPEN", "CLOSED"}
  PROVE  BreakerSpec => [](BreakerTypeOK /\ ProbesExact)
  <1>1. BreakerIInv /\ [BreakerNext]_breakerVars => BreakerIInv'
    BY BreakerInductive
  <1> QED BY <1>1, BreakerSafe, BreakerStarts, PTL DEF BreakerSpec

-----------------------------------------------------------------------------
(***************************************************************************)
(*  Calls with one key are one operation, while operations end within the  *)
(*  window.                                                                *)
(*                                                                         *)
(*  Executions are numbered in their order; whoever executes, executes     *)
(*  what the record says, and whoever joins has joined that.               *)
(***************************************************************************)

\* Executions are numbered in the order they start, each for one payload.
Numbered == /\ payload \in [Callers -> Payloads]
            /\ \E n \in 0 .. MaxExecutions : started \in [1 .. n -> Payloads]

\* Who executes, executes what the record says, and nobody else does; who joins
\* has joined that, with the same payload.  So a record in flight has time left.
RecordTells ==
  /\ entry.state = "in-flight" => (window > 0 => entry.left > 0)
  /\ entry.state \in {"in-flight", "succeeded"}
       => entry.execution \in DOMAIN started /\ started[entry.execution] = entry.payload
  /\ entry.state = "succeeded" => entry.execution \in succeeded
  /\ \A c \in Callers : executes[c] # 0 \/ joins[c] # 0
       => entry.state = "in-flight" /\ entry.payload = payload[c]
  /\ \A c \in Callers : executes[c] # 0 => executes[c] = entry.execution
  /\ \A c \in Callers : joins[c] # 0 => joins[c] = entry.execution

IdemIInv == /\ IdemTypeOK
            /\ Numbered
            /\ RecordTells
            /\ OneExecution
            /\ \A g \in given : g[2] \in succeeded /\ started[g[2]] = g[1]

\* A new execution gets the next number.
LEMMA NextExecution ==
  ASSUME IdemIInv, NEW p \in Payloads, NEW n, n = Cardinality(DOMAIN started) + 1, n \in Executions
  PROVE  LET s == [i \in DOMAIN started \cup {n} |-> IF i = n THEN p ELSE started[i]]
         IN  /\ \E k \in 0 .. MaxExecutions : s \in [1 .. k -> Payloads]
             /\ n \notin DOMAIN started
             /\ n \in Nat \ {0}
  <1> DEFINE s == [i \in DOMAIN started \cup {n} |-> IF i = n THEN p ELSE started[i]]
  <1>1. PICK k \in 0 .. MaxExecutions : started \in [1 .. k -> Payloads]
    BY DEF IdemIInv, Numbered
  <1>2. MaxExecutions \in Nat
    BY IdempotencyAssumption
  <1>3. DOMAIN started = 1 .. k /\ Cardinality(1 .. k) = k
    BY <1>1, <1>2, FS_Interval
  <1>4. n = k + 1 /\ k + 1 \in 0 .. MaxExecutions
    BY <1>2, <1>3 DEF Executions
  <1>5. 1 .. k + 1 = DOMAIN started \cup {n} /\ n \notin DOMAIN started
    BY <1>2, <1>3, <1>4
  <1>6. s \in [1 .. k + 1 -> Payloads]
    BY <1>1, <1>3, <1>5
  <1> QED BY <1>2, <1>4, <1>5, <1>6

\* The registry is empty in the beginning.
LEMMA IdemStarts == IdemInit => IdemIInv
  <1> SUFFICES ASSUME IdemInit PROVE IdemIInv
    OBVIOUS
  <1>1. window \in Nat /\ MaxExecutions \in Nat
    BY IdempotencyAssumption DEF IdemInit
  <1>2. IdemTypeOK
    BY <1>1 DEF IdemInit, IdemTypeOK, NoEntry
  <1>3. Numbered
    <2>1. started = [n \in {} |-> 0] /\ payload \in [Callers -> Payloads]
      BY DEF IdemInit
    <2>2. 1 .. 0 = {} /\ 0 \in 0 .. MaxExecutions
      BY <1>1
    <2>3. started \in [1 .. 0 -> Payloads]
      BY <2>1, <2>2
    <2> QED BY <2>1, <2>2, <2>3 DEF Numbered
  <1>4. RecordTells
    BY DEF IdemInit, RecordTells, NoEntry
  <1>5. OneExecution /\ given = {}
    BY DEF IdemInit, OneExecution
  <1> QED BY <1>2, <1>3, <1>4, <1>5 DEF IdemIInv

\* No call, outcome or expiry breaks it, while operations end within the window.
LEMMA IdemInductive == InWindow /\ IdemIInv /\ [IdemNext]_idemVars => IdemIInv'
  <1> SUFFICES ASSUME InWindow, IdemIInv, [IdemNext]_idemVars PROVE IdemIInv'
    OBVIOUS
  <1>1. /\ window \in Nat /\ window \in Windows
        /\ entry \in [execution : Executions \cup {0}, payload : Payloads \cup {0},
                      state : {"none", "in-flight", "succeeded", "failed"}, left : 0 .. window]
        /\ executes \in [Callers -> Executions \cup {0}]
        /\ joins \in [Callers -> Executions \cup {0}]
        /\ succeeded \subseteq DOMAIN started
        /\ payload \in [Callers -> Payloads]
    BY IdempotencyAssumption DEF IdemIInv, IdemTypeOK, Numbered
  <1>2. /\ entry.state = "in-flight" => Unexpired = entry
        /\ Unexpired = entry \/ Unexpired = NoEntry
    BY <1>1 DEF Unexpired, IdemIInv, RecordTells
  <1>3. /\ Unexpired \in [execution : Executions \cup {0}, payload : Payloads \cup {0},
                          state : {"none", "in-flight", "succeeded", "failed"}, left : 0 .. window]
        /\ NoEntry.state = "none"
    BY <1>1, <1>2 DEF NoEntry
  <1>4. ASSUME UNCHANGED <<window, executes, joins, payload, started, succeeded, given>>,
               entry' = Unexpired
        PROVE  IdemIInv'
    <2>1. RecordTells'
      BY <1>1, <1>2, <1>3, <1>4 DEF IdemIInv, RecordTells
    <2> QED BY <1>1, <1>3, <1>4, <2>1 DEF IdemIInv, IdemTypeOK, Numbered, OneExecution
  <1>5. ASSUME NEW c \in Callers, Begin(c) PROVE IdemIInv'
    <2> DEFINE e == Unexpired
               n == Cardinality(DOMAIN started) + 1
    <2>1. /\ executes[c] = 0 /\ joins[c] = 0
          /\ UNCHANGED <<window, payload, succeeded>>
      BY <1>5 DEF Begin, Free
    <2>2. CASE e.state # "none" /\ Conflicts(c, e)
      BY <1>4, <1>5, <2>1, <2>2 DEF Begin
    <2>3. CASE (e.state = "none" \/ ~Conflicts(c, e)) /\ Executable(e)
      <3>1. /\ n \in Executions
            /\ started' = [i \in DOMAIN started \cup {n} |-> IF i = n THEN payload[c] ELSE started[i]]
            /\ entry' = [execution |-> n, payload |-> payload[c], state |-> "in-flight", left |-> window]
            /\ executes' = [executes EXCEPT ![c] = n]
            /\ UNCHANGED <<joins, given>>
        BY <1>5, <2>3 DEF Begin, Executable
      <3>2. /\ \E k \in 0 .. MaxExecutions : started' \in [1 .. k -> Payloads]
            /\ n \notin DOMAIN started
            /\ n \in Nat \ {0}
        BY <1>1, <3>1, NextExecution
      <3> HIDE DEF n
      <3>3. /\ DOMAIN started' = DOMAIN started \cup {n}
            /\ started'[n] = payload[c]
            /\ \A i \in DOMAIN started : started'[i] = started[i]
        BY <3>1, <3>2
      <3>4. \A d \in Callers : executes[d] = 0 /\ joins[d] = 0
        <4>1. entry.state # "in-flight"
          BY <1>2, <2>3 DEF Executable
        <4> QED BY <4>1 DEF IdemIInv, RecordTells
      <3>5. IdemTypeOK'
        BY <1>1, <2>1, <3>1, <3>3 DEF IdemTypeOK
      <3>6. RecordTells'
        BY <1>1, <2>1, <3>1, <3>2, <3>3, <3>4 DEF RecordTells
      <3>7. OneExecution'
        BY <1>1, <3>1, <3>4 DEF OneExecution
      <3>8. \A g \in given' : g[2] \in succeeded' /\ started'[g[2]] = g[1]
        BY <1>1, <2>1, <3>1, <3>3 DEF IdemIInv
      <3> QED BY <1>1, <2>1, <3>2, <3>5, <3>6, <3>7, <3>8 DEF IdemIInv, Numbered
    <2>4. CASE ~Executable(e) /\ ~Conflicts(c, e) /\ e.state = "in-flight"
      <3>1. /\ entry' = e
            /\ joins' = [joins EXCEPT ![c] = e.execution]
            /\ UNCHANGED <<executes, started, given>>
        BY <1>5, <2>4 DEF Begin, Executable
      <3>2. entry' = entry
        BY <1>2, <1>3, <2>4, <3>1
      <3>3. RecordTells'
        BY <1>1, <2>1, <2>4, <3>1, <3>2 DEF IdemIInv, RecordTells, Conflicts
      <3>4. IdemTypeOK'
        BY <1>1, <2>1, <3>1, <3>2 DEF IdemTypeOK
      <3> QED BY <2>1, <3>1, <3>3, <3>4 DEF IdemIInv, Numbered, OneExecution
    <2>5. CASE ~Executable(e) /\ ~Conflicts(c, e) /\ e.state = "succeeded"
      <3>1. /\ entry' = e
            /\ given' = given \cup {<<payload[c], e.execution>>}
            /\ UNCHANGED <<executes, joins, started>>
        BY <1>5, <2>5 DEF Begin, Executable
      <3>2. entry' = entry
        BY <1>2, <1>3, <2>5, <3>1
      <3>3. e.execution \in succeeded /\ started[e.execution] = payload[c]
        BY <2>5, <3>1, <3>2 DEF IdemIInv, RecordTells, Conflicts
      <3>4. RecordTells' /\ IdemTypeOK'
        BY <1>1, <2>1, <3>1, <3>2 DEF IdemIInv, RecordTells, IdemTypeOK
      <3>5. \A g \in given' : g[2] \in succeeded' /\ started'[g[2]] = g[1]
        BY <2>1, <3>1, <3>3 DEF IdemIInv
      <3> QED BY <2>1, <3>1, <3>4, <3>5 DEF IdemIInv, Numbered, OneExecution
    <2> QED BY <1>3, <2>2, <2>3, <2>4, <2>5 DEF Executable
  <1>6. ASSUME NEW c \in Callers, NEW ok \in BOOLEAN, Settle(c, ok) PROVE IdemIInv'
    <2> DEFINE x == executes[c]
    <2>1. /\ x # 0 /\ entry.state = "in-flight" /\ entry.execution = x
          /\ x \in DOMAIN started /\ started[x] = entry.payload
          /\ \A d \in Callers : executes[d] # 0 \/ joins[d] # 0 => payload[d] = entry.payload
          /\ entry.payload = payload[c]
      BY <1>6 DEF Settle, IdemIInv, RecordTells
    <2>2. /\ executes' = [executes EXCEPT ![c] = 0]
          /\ succeeded' = IF ok THEN succeeded \cup {x} ELSE succeeded
          /\ entry' = [entry EXCEPT !.state = IF ok THEN "succeeded" ELSE "failed", !.execution = x]
          /\ joins' = [d \in Callers |-> IF d \in Told(ok) THEN 0 ELSE joins[d]]
          /\ given' = IF ok THEN given \cup {<<payload[d], x>> : d \in Told(ok) \cup {c}} ELSE given
          /\ UNCHANGED <<window, payload, started>>
      BY <1>6, <2>1 DEF Settle
    <2>3. \A d \in Callers : executes'[d] = 0 /\ joins'[d] = 0
      <3>1. \A d \in Callers : d # c => executes[d] = 0
        BY <1>6, <2>1 DEF IdemIInv, OneExecution
      <3>2. \A d \in Callers : joins[d] # 0 => d \in Told(ok)
        BY DEF Told, IdemIInv, RecordTells
      <3> QED BY <1>1, <2>2, <3>1, <3>2
    <2>4. IdemTypeOK'
      <3>1. entry' \in [execution : Executions \cup {0}, payload : Payloads \cup {0},
                        state : {"none", "in-flight", "succeeded", "failed"}, left : 0 .. window]
        BY <1>1, <2>2
      <3>2. succeeded' \subseteq DOMAIN started
        BY <1>1, <2>1, <2>2
      <3>3. /\ executes' \in [Callers -> Executions \cup {0}]
            /\ joins' \in [Callers -> Executions \cup {0}]
        BY <1>1, <2>2
      <3> QED BY <1>1, <2>2, <3>1, <3>2, <3>3 DEF IdemTypeOK
    <2>5. RecordTells'
      BY <1>1, <2>1, <2>2, <2>3 DEF RecordTells
    <2>6. \A g \in given' : g[2] \in succeeded' /\ started'[g[2]] = g[1]
      <3>1. \A d \in Told(ok) \cup {c} : payload[d] = started[x]
        BY <2>1 DEF Told
      <3>2. ASSUME NEW g \in given', g \notin given PROVE ok /\ g[2] = x /\ g[1] = started[x]
        <4>1. ok /\ \E d \in Told(ok) \cup {c} : g = <<payload[d], x>>
          BY <2>2, <3>2
        <4>2. PICK d \in Told(ok) \cup {c} : g = <<payload[d], x>>
          BY <4>1
        <4>3. payload[d] = started[x]
          BY <3>1
        <4> HIDE DEF x
        <4>4. g[1] = payload[d] /\ g[2] = x
          BY <4>2
        <4> QED BY <4>1, <4>3, <4>4
      <3> QED BY <2>2, <3>2 DEF IdemIInv
    <2>7. OneExecution'
      BY <2>3 DEF OneExecution
    <2> QED BY <2>2, <2>4, <2>5, <2>6, <2>7 DEF IdemIInv, Numbered
  <1>7. CASE SweepEntry
    BY <1>4, <1>7 DEF SweepEntry
  <1>8. CASE IdemTick
    <2>1. /\ entry.left > 0 /\ (entry.state = "in-flight" => entry.left > 1)
          /\ entry' = [entry EXCEPT !.left = @ - 1]
          /\ UNCHANGED <<window, executes, joins, payload, started, succeeded, given>>
      BY <1>8 DEF IdemTick
    <2>2. /\ entry'.state = entry.state /\ entry'.execution = entry.execution
          /\ entry'.payload = entry.payload /\ entry'.left = entry.left - 1
      BY <1>1, <2>1
    <2>3. IdemTypeOK'
      BY <1>1, <2>1 DEF IdemTypeOK
    <2>4. RecordTells'
      BY <1>1, <2>1, <2>2 DEF IdemIInv, RecordTells
    <2> QED BY <2>1, <2>3, <2>4 DEF IdemIInv, Numbered, OneExecution
  <1>9. CASE UNCHANGED idemVars
    BY <1>9 DEF idemVars, IdemIInv, IdemTypeOK, Numbered, RecordTells, OneExecution
  <1> QED BY <1>5, <1>6, <1>7, <1>8, <1>9 DEF IdemNext

LEMMA IdemSafe == ASSUME InWindow PROVE IdemIInv => CallsDeduplicated
  BY InWindow DEF IdemIInv, CallsDeduplicated, ResultsAreOwn

\* While operations end within the window, calls with one key are one operation: one
\* execution at a time, and each caller gets the result of one for its own payload.
THEOREM DeduplicatesCalls == ASSUME InWindow PROVE IdemSpec => []CallsDeduplicated
  <1>1. IdemIInv => CallsDeduplicated
    BY InWindow, IdemSafe
  <1>2. IdemIInv /\ [IdemNext]_idemVars => IdemIInv'
    BY InWindow, IdemInductive
  <1> QED BY <1>1, <1>2, IdemStarts, PTL DEF IdemSpec

-----------------------------------------------------------------------------
(***************************************************************************)
(*  The scheduler runs each slot of a job once and has each job in one     *)
(*  place, for any number of jobs, ticks that overlap and callers who      *)
(*  trigger, switch and unregister them, any period and any concurrency,   *)
(*  while no job is unregistered as it runs.                               *)
(*                                                                         *)
(*  A tick changes jobs and queue entry after entry before its next        *)
(*  await, so the invariant is stated of jobs, queue, ticks and slots as   *)
(*  such and also holds between two turns of the loop, with the tick at    *)
(*  "loop". It says of an entry that every slot that was run or is         *)
(*  blocked lies before its time, and of a run that what its job still     *)
(*  has to run was not run yet; for a run-all job that nobody delays,      *)
(*  that no slot before these is missing.                                  *)
(***************************************************************************)

JobRecords == [there : BOOLEAN, enabled : BOOLEAN, running : Int, executed : BOOLEAN,
               blocked : Seq(Nat), last : {"never", "success", "failure"}]
FireEntries == [job : Jobs, at : Nat]
\* A tick in its loop is at "loop".
TickRecords == [at : {"off", "running", "between", "loop"}, time : Nat, batch : Seq(FireEntries),
                job : Jobs \cup {Dependency}, slots : Seq(Nat)]

Busy(r) == r.at \in {"running", "between"}
JobsIn(q) == {e.job : e \in Range(q)}
InHand(r) == JobsIn(r.batch) \cup (IF Busy(r) THEN {r.job} ELSE {})
OneEach(q) == Distinct(q) /\ \A a, b \in Range(q) : a.job = b.job => a = b

\* A job is in the queue once, or once in the hands of one tick.
TickShaped(q, r) ==
  /\ OneEach(r.batch)
  /\ Busy(r) => r.job \in Jobs \ JobsIn(r.batch)
  /\ JobsIn(q) \cap InHand(r) = {}
  /\ \A e \in Range(r.batch) : e.at <= r.time
  /\ r.at = "off" => r.batch = <<>>

Structured(q, tk) ==
  /\ q \in Seq(FireEntries) /\ OneEach(q)
  /\ tk \in [Ticks -> TickRecords]
  /\ \A k \in Ticks : TickShaped(q, tk[k])
  /\ \A k, l \in Ticks : k # l => InHand(tk[k]) \cap InHand(tk[l]) = {}

\* No recurring job is lost.
NoneLost(js, q, tk) ==
  \A j \in CronJobs : js[j].there => j \in JobsIn(q) \/ \E k \in Ticks : j \in InHand(tk[k])

\* The run-all jobs that nobody delays.
Undelayed == RunAllJobs \ (Meddled \cup Dependents)

\* An entry's time is after every slot that was run or is kept back.
EntryOK(e, js, sr) ==
  /\ \A x \in Range(sr[e.job]) \cup Range(js[e.job].blocked) : x < e.at
  /\ e.job \in OnceJobs => sr[e.job] = <<>> /\ js[e.job].blocked = <<>>
  /\ e.job \in Undelayed => /\ js[e.job].running = 0 /\ js[e.job].blocked = <<>>
                            /\ e.at > 0 /\ e.at % CronPeriod = 0
                            /\ Range(sr[e.job]) = SlotsIn(0, e.at - 1)

\* The slots that a tick still runs are not run yet, and not after its time.
RunOK(r, js, sr) ==
  /\ js[r.job].there /\ js[r.job].executed /\ js[r.job].blocked = <<>>
  /\ Distinct(r.slots)
  /\ \A x \in Range(r.slots) : x <= r.time /\ x \notin Range(sr[r.job])
  /\ \A x \in Range(sr[r.job]) : x <= r.time
  /\ r.job \in Undelayed => /\ js[r.job].running = IF r.at = "running" THEN 1 ELSE 0
                            /\ Range(sr[r.job]) \cup Range(r.slots) = SlotsIn(0, r.time)

JobOK(j, js, sr) ==
  /\ Distinct(sr[j]) /\ Distinct(js[j].blocked)
  /\ Range(sr[j]) \cap Range(js[j].blocked) = {}
  /\ js[j].running > 0 => js[j].executed
  /\ j \in Undelayed => js[j].there /\ js[j].enabled

TickOK(r, js, sr) == /\ \A e \in Range(r.batch) : EntryOK(e, js, sr)
                     /\ Busy(r) => RunOK(r, js, sr)

\* What holds of jobs, queue, ticks and slots, also inside the loop of a tick.
Scheduled(js, q, tk, sr) ==
  /\ js \in [Jobs -> JobRecords] /\ sr \in [Jobs -> Seq(Nat)]
  /\ Structured(q, tk)
  /\ NoneLost(js, q, tk)
  /\ \A e \in Range(q) : EntryOK(e, js, sr)
  /\ \A k \in Ticks : TickOK(tk[k], js, sr)
  /\ \A j \in Jobs : JobOK(j, js, sr)

SchedulerIInv ==
  /\ Scheduled(jobs, queue, ticks, slotsRun)
  /\ \A k \in Ticks : ticks[k].at # "loop"
  /\ now \in Nat
  /\ triggered \in [Triggers -> SUBSET Meddled]

-----------------------------------------------------------------------------
(* Slots.                                                                  *)

\* What the assumption says of each constant.
LEMMA JobFacts ==
  /\ IsFiniteSet(Jobs) /\ Jobs = CronJobs \cup OnceJobs /\ CronJobs \cap OnceJobs = {}
  /\ RunAllJobs \subseteq CronJobs /\ SkipOneJobs \subseteq CronJobs
  /\ Undelayed \subseteq CronJobs
  /\ Dependents \subseteq Jobs /\ Meddled \subseteq Jobs
  /\ Concurrency \in Nat \ {0} /\ CronPeriod \in Nat \ {0}
  /\ OnceAt \in Nat \ {0} /\ Deferral \in Nat \ {0}
  BY JobSchedulerAssumption DEF Jobs, Undelayed

\* A number divided by the period.
LEMMA Periods ==
  ASSUME NEW t \in Nat, NEW w \in Nat \ {0}
  PROVE  /\ t \div w \in Nat /\ (t \div w) * w \in Nat
         /\ t % w \in Nat /\ t = ((t \div w) * w) + (t % w) /\ (t % w) < w
  OBVIOUS

\* A multiple of the period.
LEMMA Multiple ==
  ASSUME NEW a \in Nat, NEW w \in Nat \ {0}
  PROVE  a * w \in Nat /\ (a * w) % w = 0 /\ (a * w) \div w = a
  OBVIOUS

\* The next slot after t is the first: no slot lies between.
LEMMA NextAfterProperties ==
  ASSUME NEW t \in Nat
  PROVE  /\ NextAfter(t) \in Nat /\ NextAfter(t) > t /\ NextAfter(t) % CronPeriod = 0
         /\ SlotsIn(0, NextAfter(t) - 1) = SlotsIn(0, t)
  <1>1. PICK w \in Nat \ {0} : w = CronPeriod
    BY JobFacts
  <1>2. PICK d \in Nat : d = t \div w /\ d * w <= t /\ t < (d + 1) * w
    BY Division
  <1>3. PICK n \in Nat : n = (d + 1) * w
    OBVIOUS
  <1>4. n % w = 0 /\ NextAfter(t) = n /\ n > t
    BY <1>1, <1>2, <1>3, Multiple DEF NextAfter
  <1>5. ASSUME NEW s \in 1 .. n - 1, s % w = 0 PROVE s <= t
    <2>1. PICK c \in Nat : c = s \div w /\ s = c * w
      BY <1>5, Periods
    <2>2. c * w < (d + 1) * w
      BY <1>3, <2>1
    <2>3. c < d + 1
      BY <2>2, ProductOrder
    <2>4. c * w <= d * w
      BY <2>3, ProductOrder
    <2> QED BY <1>2, <2>1, <2>4
  <1>6. {s \in 0 + 1 .. n - 1 : s % w = 0} = {s \in 0 + 1 .. t : s % w = 0}
    <2>1. \A s \in 0 + 1 .. n - 1 : s \in 1 .. n - 1 /\ (s <= t => s \in 0 + 1 .. t)
      OBVIOUS
    <2>2. \A s \in 0 + 1 .. t : s \in 0 + 1 .. n - 1
      BY <1>4
    <2> QED BY <1>5, <2>1, <2>2
  <1> QED BY <1>1, <1>4, <1>6 DEF SlotsIn

\* The slots between two times are listed once each.
LEMMA SlotsBetweenProperties ==
  ASSUME NEW from \in Nat, NEW to \in Nat, from <= to
  PROVE  /\ SlotsBetween(from, to) \in Seq(Nat)
         /\ Range(SlotsBetween(from, to)) = SlotsIn(from, to)
         /\ Distinct(SlotsBetween(from, to))
  <1>1. PICK w \in Nat \ {0} : w = CronPeriod
    BY JobFacts
  <1>2. PICK f \in Nat : f = from \div w /\ f * w <= from /\ from < (f + 1) * w
    BY Division
  <1>3. PICK g \in Nat : g = to \div w /\ g * w <= to /\ to < (g + 1) * w
    BY Division
  <1>4. f <= g
    BY <1>2, <1>3, DivisionBound
  <1>5. PICK m \in Nat : m = g - f
    BY <1>4
  <1> DEFINE S == [i \in 1 .. m |-> (f + i) * w]
  <1>6. SlotsBetween(from, to) = S
    BY <1>1, <1>2, <1>3, <1>5 DEF SlotsBetween
  <1>7. \A i \in 1 .. m : (f + i) * w \in Nat
    OBVIOUS
  <1>8. S \in Seq(Nat) /\ Len(S) = m /\ DOMAIN S = 1 .. m
    BY <1>7
  <1>9. ASSUME NEW i \in 1 .. m
        PROVE  (f + i) * w \in from + 1 .. to /\ ((f + i) * w) % w = 0
    <2>1. PICK c \in Nat : c = f + i /\ f + 1 <= c /\ c <= g
      BY <1>5
    <2>2. (f + 1) * w <= c * w /\ c * w <= g * w
      BY <2>1, ProductOrder
    <2>3. c * w \in Nat /\ (c * w) % w = 0
      BY Multiple
    <2>4. PICK u \in Nat, v \in Nat, x \in Nat : u = (f + 1) * w /\ v = g * w /\ x = c * w
      BY <2>3
    <2>5. x \in from + 1 .. to
      BY <1>2, <1>3, <2>2, <2>4
    <2> QED BY <2>1, <2>3, <2>4, <2>5
  <1>10. ASSUME NEW s \in from + 1 .. to, s % w = 0
         PROVE  \E i \in 1 .. m : (f + i) * w = s
    <2>1. PICK c \in Nat : c = s \div w /\ s = c * w
      BY <1>10, Periods
    <2>2. c * w <= to /\ f * w < c * w
      BY <1>2, <2>1
    <2>3. c <= g
      BY <1>3, <2>2, DivisionBound
    <2>4. f < c
      BY <2>2, ProductOrder
    <2>5. c - f \in 1 .. m /\ f + (c - f) = c
      BY <1>5, <2>3, <2>4
    <2> QED BY <2>1, <2>5
  <1>11. Range(S) = {s \in from + 1 .. to : s % w = 0}
    BY <1>8, <1>9, <1>10 DEF Range
  <1>12. Distinct(S)
    <2> SUFFICES ASSUME NEW i \in 1 .. m, NEW j \in 1 .. m, (f + i) * w = (f + j) * w PROVE i = j
      BY <1>8 DEF Distinct
    <2>1. PICK a \in Nat, b \in Nat : a = f + i /\ b = f + j
      OBVIOUS
    <2>2. a = b
      <3>1. (a * w) \div w = a /\ (b * w) \div w = b
        BY Multiple
      <3> QED BY <2>1, <3>1
    <2> QED BY <2>1, <2>2
  <1> QED BY <1>1, <1>6, <1>8, <1>11, <1>12 DEF SlotsIn

\* A push adds one entry.
LEMMA PushedProperties ==
  ASSUME NEW q \in Seq(FireEntries), Distinct(q), NEW f \in FireEntries, f \notin Range(q)
  PROVE  /\ Pushed(q, f) \in Seq(FireEntries) /\ Distinct(Pushed(q, f))
         /\ Range(Pushed(q, f)) = Range(q) \cup {f}
  BY RangeOfInserted DEF Pushed

-----------------------------------------------------------------------------
(* Entries and ticks.                                                      *)

\* What the invariant says depends on the job's own record and slots.
LEMMA SameJob ==
  ASSUME NEW js, NEW sr, NEW js2, NEW sr2, NEW j, js2[j] = js[j], sr2[j] = sr[j]
  PROVE  /\ \A e : e.job = j => (EntryOK(e, js, sr) <=> EntryOK(e, js2, sr2))
         /\ \A r : r.job = j => (RunOK(r, js, sr) <=> RunOK(r, js2, sr2))
         /\ JobOK(j, js, sr) <=> JobOK(j, js2, sr2)
  <1>1. \A e : e.job = j => (EntryOK(e, js, sr) <=> EntryOK(e, js2, sr2))
    BY DEF EntryOK
  <1>2. \A r : r.job = j => (RunOK(r, js, sr) <=> RunOK(r, js2, sr2))
    BY DEF RunOK
  <1>3. JobOK(j, js, sr) <=> JobOK(j, js2, sr2)
    BY DEF JobOK
  <1> QED BY <1>1, <1>2, <1>3

\* Tick k lets job j go.
LetsGo(tk, k, j, tk2) ==
  /\ tk2 \in [Ticks -> TickRecords] /\ \A l \in Ticks \ {k} : tk2[l] = tk[l]
  /\ tk2[k].at = "loop" /\ tk2[k].time = tk[k].time
  /\ OneEach(tk2[k].batch) /\ Range(tk2[k].batch) \subseteq Range(tk[k].batch)
  /\ j \in InHand(tk[k]) /\ j \notin JobsIn(tk2[k].batch)
  /\ InHand(tk[k]) \subseteq JobsIn(tk2[k].batch) \cup {j}

\* Nothing changes of the other jobs, and j stays registered or not.
Blocks(js, j, js2) ==
  /\ js2 \in [Jobs -> JobRecords] /\ \A i \in Jobs \ {j} : js2[i] = js[i]
  /\ js2[j].there = js[j].there

\* At most one entry of j is new in the queue, and one is if j recurs.
Returns(js, q, sr, j, js2, q2) ==
  /\ q2 \in Seq(FireEntries) /\ Distinct(q2)
  /\ \E F \in SUBSET FireEntries : /\ Range(q2) = Range(q) \cup F
                                   /\ \A f \in F : f.job = j /\ EntryOK(f, js2, sr)
                                   /\ \A f, g \in F : f = g
                                   /\ j \in CronJobs /\ js[j].there => F # {}

\* A tick lets a job go that it has in hand.
LEMMA HandedBack ==
  ASSUME NEW js, NEW q, NEW tk, NEW sr, Scheduled(js, q, tk, sr),
         NEW k \in Ticks, NEW j \in Jobs, NEW tk2, LetsGo(tk, k, j, tk2),
         NEW js2, Blocks(js, j, js2), JobOK(j, js2, sr),
         NEW q2, Returns(js, q, sr, j, js2, q2)
  PROVE  Scheduled(js2, q2, tk2, sr)
  <1>20. /\ tk2 \in [Ticks -> TickRecords] /\ \A l \in Ticks \ {k} : tk2[l] = tk[l]
         /\ tk2[k].at = "loop" /\ tk2[k].time = tk[k].time
         /\ OneEach(tk2[k].batch) /\ Range(tk2[k].batch) \subseteq Range(tk[k].batch)
         /\ j \in InHand(tk[k]) /\ j \notin JobsIn(tk2[k].batch)
         /\ InHand(tk[k]) \subseteq JobsIn(tk2[k].batch) \cup {j}
    BY DEF LetsGo
  <1>21. /\ js2 \in [Jobs -> JobRecords] /\ \A i \in Jobs \ {j} : js2[i] = js[i]
         /\ js2[j].there = js[j].there
    BY DEF Blocks
  <1>22. PICK F \in SUBSET FireEntries :
           /\ Range(q2) = Range(q) \cup F
           /\ \A f \in F : f.job = j /\ EntryOK(f, js2, sr)
           /\ \A f, g \in F : f = g
           /\ j \in CronJobs /\ js[j].there => F # {}
    BY DEF Returns
  <1>23. q2 \in Seq(FireEntries) /\ Distinct(q2)
    BY DEF Returns
  <1> USE <1>20, <1>21, <1>22, <1>23
  <1>1. ~Busy(tk2[k]) /\ InHand(tk2[k]) = JobsIn(tk2[k].batch)
    BY DEF Busy, InHand
  <1>2. InHand(tk2[k]) \subseteq InHand(tk[k]) \ {j}
    BY <1>1 DEF InHand, JobsIn
  <1>3. Structured(q, tk) /\ TickShaped(q, tk[k])
    BY DEF Scheduled, Structured
  <1>4. j \notin JobsIn(q) /\ \A l \in Ticks \ {k} : j \notin InHand(tk[l])
    BY <1>3 DEF Structured, TickShaped
  <1>5. /\ JobsIn(q2) = JobsIn(q) \cup {f.job : f \in F} /\ JobsIn(q2) \subseteq JobsIn(q) \cup {j}
        /\ F # {} => j \in JobsIn(q2)
    BY DEF JobsIn
  <1>6. Structured(q2, tk2)
    <2>1. OneEach(q2)
      <3> SUFFICES ASSUME NEW a \in Range(q2), NEW b \in Range(q2), a.job = b.job PROVE a = b
        BY DEF OneEach
      <3>1. CASE a \in Range(q) /\ b \in Range(q)
        BY <1>3, <3>1 DEF Structured, OneEach
      <3>2. \A x \in Range(q) : x.job # j
        BY <1>4 DEF JobsIn
      <3> QED BY <3>1, <3>2
    <2>2. \A l \in Ticks : TickShaped(q2, tk2[l])
      <3>1. TickShaped(q2, tk2[k])
        <4>1. JobsIn(q2) \cap InHand(tk2[k]) = {}
          BY <1>2, <1>3, <1>5 DEF TickShaped
        <4>2. \A e \in Range(tk2[k].batch) : e.at <= tk2[k].time
          BY <1>3 DEF TickShaped
        <4> QED BY <1>1, <4>1, <4>2 DEF TickShaped
      <3>2. ASSUME NEW l \in Ticks \ {k} PROVE TickShaped(q2, tk2[l])
        <4>1. TickShaped(q, tk[l]) /\ tk2[l] = tk[l] /\ j \notin InHand(tk[l])
          BY <1>3, <1>4 DEF Structured
        <4>2. JobsIn(q2) \cap InHand(tk[l]) = {}
          BY <1>5, <4>1 DEF TickShaped
        <4> QED BY <4>1, <4>2 DEF TickShaped
      <3> QED BY <3>1, <3>2
    <2>3. \A l, m \in Ticks : l # m => InHand(tk2[l]) \cap InHand(tk2[m]) = {}
      <3>1. \A l \in Ticks : InHand(tk2[l]) \subseteq InHand(tk[l])
        BY <1>2
      <3>2. \A l, m \in Ticks : l # m => InHand(tk[l]) \cap InHand(tk[m]) = {}
        BY <1>3 DEF Structured
      <3> QED BY <3>1, <3>2
    <2> QED BY <2>1, <2>2, <2>3 DEF Structured
  <1>7. NoneLost(js2, q2, tk2)
    <2> SUFFICES ASSUME NEW i \in CronJobs, js2[i].there
                 PROVE  i \in JobsIn(q2) \/ \E l \in Ticks : i \in InHand(tk2[l])
      BY DEF NoneLost
    <2>1. CASE i = j
      BY <1>5, <2>1
    <2>2. CASE i # j
      <3>1. js[i].there
        BY <2>2, JobFacts
      <3>2. i \in JobsIn(q) \/ \E l \in Ticks : i \in InHand(tk[l])
        BY <3>1 DEF Scheduled, NoneLost
      <3>3. i \in InHand(tk[k]) => i \in InHand(tk2[k])
        BY <1>1, <2>2
      <3> QED BY <1>5, <3>2, <3>3
    <2> QED BY <2>1, <2>2
  <1>8. \A i \in Jobs \ {j} : js2[i] = js[i] /\ sr[i] = sr[i]
    OBVIOUS
  <1>9. \A e \in Range(q2) : EntryOK(e, js2, sr)
    <2>1. ASSUME NEW e \in Range(q) PROVE EntryOK(e, js2, sr)
      <3>1. e.job \in Jobs \ {j}
        <4>1. e \in FireEntries
          BY <1>3, RangeFacts DEF Structured
        <4> QED BY <1>4, <4>1 DEF JobsIn, FireEntries
      <3>2. EntryOK(e, js, sr)
        BY DEF Scheduled
      <3> QED BY <1>8, <3>1, <3>2, SameJob
    <2> QED BY <2>1
  <1>10. \A l \in Ticks : TickOK(tk2[l], js2, sr)
    <2>1. ASSUME NEW l \in Ticks, NEW e \in Range(tk2[l].batch) PROVE EntryOK(e, js2, sr)
      <3>1. e.job # j /\ e \in Range(tk[l].batch)
        BY <1>4 DEF JobsIn, InHand
      <3>2. e \in FireEntries
        BY <2>1, RangeFacts DEF TickRecords
      <3>3. EntryOK(e, js, sr)
        BY <3>1 DEF Scheduled, TickOK
      <3> QED BY <1>8, <3>1, <3>2, <3>3, SameJob DEF FireEntries
    <2>2. ASSUME NEW l \in Ticks, Busy(tk2[l]) PROVE RunOK(tk2[l], js2, sr)
      <3>1. l # k /\ tk2[l] = tk[l]
        BY <1>1, <2>2
      <3>2. tk[l].job \in Jobs \ {j}
        BY <1>3, <1>4, <2>2, <3>1 DEF Structured, TickShaped, InHand
      <3>3. RunOK(tk[l], js, sr)
        BY <2>2, <3>1 DEF Scheduled, TickOK
      <3>4. js2[tk[l].job] = js[tk[l].job]
        BY <1>8, <3>2
      <3>5. RunOK(tk[l], js2, sr)
        BY <3>3, <3>4 DEF RunOK
      <3> QED BY <3>1, <3>5
    <2> QED BY <2>1, <2>2 DEF TickOK
  <1>11. \A i \in Jobs : JobOK(i, js2, sr)
    BY <1>8, SameJob DEF Scheduled
  <1> QED BY <1>6, <1>7, <1>9, <1>10, <1>11 DEF Scheduled

SlotsOnlyOf(sr, j, sr2) == sr2 \in [Jobs -> Seq(Nat)] /\ \A i \in Jobs \ {j} : sr2[i] = sr[i]

\* The ticks keep what they have in hand.
HoldOn(tk, j, tk2) ==
  /\ tk2 \in [Ticks -> TickRecords]
  /\ \A l \in Ticks : tk2[l] = tk[l] \/ /\ tk[l].job = j /\ Busy(tk[l]) /\ Busy(tk2[l])
                                        /\ tk2[l].job = j /\ tk2[l].batch = tk[l].batch
                                        /\ tk2[l].time = tk[l].time

StillOK(js, tk, sr, j, js2, tk2, sr2) ==
  /\ (\A l \in Ticks : Busy(tk[l]) => tk[l].job # j)
        => \A e \in FireEntries : e.job = j /\ EntryOK(e, js, sr) => EntryOK(e, js2, sr2)
  /\ \A l \in Ticks : tk[l].job = j /\ Busy(tk[l]) /\ RunOK(tk[l], js, sr) => RunOK(tk2[l], js2, sr2)
  /\ JobOK(j, js2, sr2)

\* One job changes, with the ticks that handle it, but not where it is.
LEMMA StaysPlaced ==
  ASSUME NEW js, NEW q, NEW tk, NEW sr, Scheduled(js, q, tk, sr), NEW j \in Jobs,
         NEW js2, Blocks(js, j, js2), NEW sr2, SlotsOnlyOf(sr, j, sr2),
         NEW tk2, HoldOn(tk, j, tk2), StillOK(js, tk, sr, j, js2, tk2, sr2)
  PROVE  Scheduled(js2, q, tk2, sr2)
  <1>0. /\ js2 \in [Jobs -> JobRecords] /\ sr2 \in [Jobs -> Seq(Nat)] /\ tk2 \in [Ticks -> TickRecords]
        /\ \A i \in Jobs \ {j} : js2[i] = js[i] /\ sr2[i] = sr[i]
        /\ js2[j].there = js[j].there
        /\ \A l \in Ticks : tk2[l] = tk[l] \/ /\ tk[l].job = j /\ Busy(tk[l]) /\ Busy(tk2[l])
                                              /\ tk2[l].job = j /\ tk2[l].batch = tk[l].batch
                                              /\ tk2[l].time = tk[l].time
    BY DEF Blocks, SlotsOnlyOf, HoldOn
  <1>20. /\ (\A l \in Ticks : Busy(tk[l]) => tk[l].job # j)
               => \A e \in FireEntries : e.job = j /\ EntryOK(e, js, sr) => EntryOK(e, js2, sr2)
         /\ \A l \in Ticks : tk[l].job = j /\ Busy(tk[l]) /\ RunOK(tk[l], js, sr) => RunOK(tk2[l], js2, sr2)
         /\ JobOK(j, js2, sr2)
    BY DEF StillOK
  <1> USE <1>0, <1>20
  <1>1. Structured(q, tk)
    BY DEF Scheduled
  <1>2. \A l \in Ticks : /\ InHand(tk2[l]) = InHand(tk[l]) /\ tk2[l].batch = tk[l].batch
                         /\ tk2[l].time = tk[l].time /\ tk2[l].job = tk[l].job
                         /\ Busy(tk2[l]) <=> Busy(tk[l])
    BY DEF InHand
  <1>3. Structured(q, tk2)
    <2>1. ASSUME NEW l \in Ticks PROVE TickShaped(q, tk2[l])
      <3>1. TickShaped(q, tk[l])
        BY <1>1 DEF Structured
      <3>2. tk2[l].at = "off" => ~Busy(tk2[l])
        BY DEF Busy
      <3> QED BY <1>2, <3>1, <3>2 DEF TickShaped
    <2>2. \A l, m \in Ticks : l # m => InHand(tk2[l]) \cap InHand(tk2[m]) = {}
      BY <1>1, <1>2 DEF Structured
    <2> QED BY <1>1, <2>1, <2>2 DEF Structured
  <1>4. NoneLost(js2, q, tk2)
    <2>1. \A i \in Jobs : js2[i].there = js[i].there
      OBVIOUS
    <2>2. CronJobs \subseteq Jobs
      BY JobFacts
    <2> QED BY <1>2, <2>1, <2>2 DEF NoneLost, Scheduled
  <1>5. \A i \in Jobs \ {j} : js2[i] = js[i] /\ sr2[i] = sr[i]
    OBVIOUS
  <1>6. ASSUME NEW e \in FireEntries, EntryOK(e, js, sr),
               \A l \in Ticks : Busy(tk[l]) => tk[l].job # e.job
        PROVE  EntryOK(e, js2, sr2)
    <2>1. CASE e.job = j
      BY <1>6, <2>1
    <2>2. CASE e.job # j
      <3>1. e.job \in Jobs \ {j}
        BY <2>2 DEF FireEntries
      <3> QED BY <1>5, <1>6, <3>1, SameJob
    <2> QED BY <2>1, <2>2
  <1>7. \A e \in Range(q) : EntryOK(e, js2, sr2)
    <2> SUFFICES ASSUME NEW e \in Range(q) PROVE EntryOK(e, js2, sr2)
      OBVIOUS
    <2>1. e \in FireEntries /\ EntryOK(e, js, sr)
      BY <1>1, RangeFacts DEF Structured, Scheduled
    <2>2. \A l \in Ticks : Busy(tk[l]) => tk[l].job # e.job
      <3>1. e.job \in JobsIn(q)
        BY DEF JobsIn
      <3>2. \A l \in Ticks : JobsIn(q) \cap InHand(tk[l]) = {} /\ (Busy(tk[l]) => tk[l].job \in InHand(tk[l]))
        BY <1>1 DEF Structured, TickShaped, InHand
      <3> QED BY <3>1, <3>2
    <2> QED BY <1>6, <2>1, <2>2
  <1>8. \A l \in Ticks : \A e \in Range(tk2[l].batch) : EntryOK(e, js2, sr2)
    <2> SUFFICES ASSUME NEW l \in Ticks, NEW e \in Range(tk[l].batch) PROVE EntryOK(e, js2, sr2)
      BY <1>2
    <2>1. tk[l] \in TickRecords /\ TickOK(tk[l], js, sr) /\ TickShaped(q, tk[l])
      BY <1>1 DEF Structured, Scheduled
    <2>2. e \in FireEntries /\ EntryOK(e, js, sr)
      <3>1. tk[l].batch \in Seq(FireEntries)
        BY <2>1 DEF TickRecords
      <3> QED BY <2>1, <3>1, RangeFacts DEF TickOK
    <2>3. \A m \in Ticks : Busy(tk[m]) => tk[m].job # e.job
      <3>1. e.job \in JobsIn(tk[l].batch) /\ e.job \in InHand(tk[l])
        BY DEF JobsIn, InHand
      <3>2. \A m \in Ticks : Busy(tk[m]) => tk[m].job \in InHand(tk[m])
        BY DEF InHand
      <3>3. Busy(tk[l]) => tk[l].job # e.job
        BY <2>1, <3>1 DEF TickShaped
      <3>4. \A m \in Ticks : m # l => InHand(tk[m]) \cap InHand(tk[l]) = {}
        BY <1>1 DEF Structured
      <3> QED BY <3>1, <3>2, <3>3, <3>4
    <2> QED BY <1>6, <2>2, <2>3
  <1>9. \A l \in Ticks : Busy(tk2[l]) => RunOK(tk2[l], js2, sr2)
    <2> SUFFICES ASSUME NEW l \in Ticks, Busy(tk[l]) PROVE RunOK(tk2[l], js2, sr2)
      BY <1>2
    <2>1. RunOK(tk[l], js, sr)
      BY DEF Scheduled, TickOK
    <2>2. CASE tk[l].job = j
      BY <2>1, <2>2
    <2>3. CASE tk[l].job # j
      <3>1. tk[l].job \in Jobs \ {j} /\ tk2[l] = tk[l]
        BY <1>1, <2>3 DEF Structured, TickShaped
      <3>2. PICK i, r : i \in Jobs \ {j} /\ i = tk[l].job /\ r = tk[l]
        BY <3>1
      <3>3. r.job = i /\ js2[i] = js[i] /\ sr2[i] = sr[i]
        BY <3>2
      <3>4. RunOK(r, js, sr) <=> RunOK(r, js2, sr2)
        BY <3>3, SameJob
      <3> QED BY <2>1, <3>1, <3>2, <3>4
    <2> QED BY <2>2, <2>3
  <1>10. \A l \in Ticks : TickOK(tk2[l], js2, sr2)
    BY <1>8, <1>9 DEF TickOK
  <1>11. \A i \in Jobs : JobOK(i, js2, sr2)
    <2>1. \A i \in Jobs \ {j} : JobOK(i, js, sr) <=> JobOK(i, js2, sr2)
      BY <1>5, SameJob
    <2> QED BY <2>1 DEF Scheduled
  <1> QED BY <1>3, <1>4, <1>7, <1>10, <1>11 DEF Scheduled

-----------------------------------------------------------------------------
(* The turns of the loop.                                                  *)

\* The job goes back to the queue, at a time that is right for it.
LEMMA PushedBack ==
  ASSUME NEW js, NEW q, NEW tk, NEW sr, Scheduled(js, q, tk, sr),
         NEW k \in Ticks, NEW j \in Jobs, NEW tk2, LetsGo(tk, k, j, tk2),
         NEW js2, Blocks(js, j, js2), JobOK(j, js2, sr),
         NEW at \in Nat, EntryOK(FireEntry(j, at), js2, sr)
  PROVE  Scheduled(js2, Pushed(q, FireEntry(j, at)), tk2, sr)
  <1>1. PICK f \in FireEntries : f = FireEntry(j, at) /\ f.job = j
    BY DEF FireEntry, FireEntries
  <1>2. q \in Seq(FireEntries) /\ Distinct(q) /\ f \notin Range(q)
    BY <1>1 DEF Scheduled, Structured, OneEach, TickShaped, JobsIn, LetsGo
  <1>3. PICK q2 \in Seq(FireEntries) : q2 = Pushed(q, f) /\ Distinct(q2) /\ Range(q2) = Range(q) \cup {f}
    BY <1>2, PushedProperties
  <1>4. PICK F \in SUBSET FireEntries : F = {f}
    OBVIOUS
  <1>5. /\ Range(q2) = Range(q) \cup F /\ \A g \in F : g.job = j /\ EntryOK(g, js2, sr)
        /\ \A g, h \in F : g = h
        /\ F # {}
    BY <1>1, <1>3, <1>4
  <1>6. Returns(js, q, sr, j, js2, q2)
    BY <1>3, <1>5 DEF Returns
  <1>7. Scheduled(js2, q2, tk2, sr)
    BY <1>6, HandedBack
  <1> QED BY <1>1, <1>3, <1>7

\* A one-shot job, or one that is not registered, does not come back.
LEMMA JobLetGo ==
  ASSUME NEW js, NEW q, NEW tk, NEW sr, Scheduled(js, q, tk, sr),
         NEW k \in Ticks, NEW j \in Jobs, NEW tk2, LetsGo(tk, k, j, tk2),
         NEW js2, Blocks(js, j, js2), JobOK(j, js2, sr),
         ~(j \in CronJobs /\ js[j].there)
  PROVE  Scheduled(js2, q, tk2, sr)
  <1>1. q \in Seq(FireEntries) /\ Distinct(q)
    BY DEF Scheduled, Structured, OneEach
  <1>2. PICK F \in SUBSET FireEntries : F = {}
    OBVIOUS
  <1>3. /\ Range(q) = Range(q) \cup F /\ \A f \in F : f.job = j /\ EntryOK(f, js2, sr)
        /\ \A f, g \in F : f = g
        /\ j \in CronJobs /\ js[j].there => F # {}
    BY <1>2
  <1>4. Returns(js, q, sr, j, js2, q)
    BY <1>1, <1>3 DEF Returns
  <1> QED BY <1>4, HandedBack

\* What the invariant says when the jobs and the queue are those of s.
SlotsKept(s, tk, sr) ==
  s = [jobs |-> s.jobs, queue |-> s.queue] /\ Scheduled(s.jobs, s.queue, tk, sr)

\* When job j is rescheduled after t, its slots up to t are done or blocked.
SlotsDone(j, t, js2, sr) ==
  /\ \A x \in Range(sr[j]) \cup Range(js2[j].blocked) : x <= t
  /\ j \in OnceJobs /\ ~js2[j].executed => sr[j] = <<>> /\ js2[j].blocked = <<>>
  /\ j \in Undelayed => /\ js2[j].running = 0 /\ js2[j].blocked = <<>>
                        /\ Range(sr[j]) = SlotsIn(0, t)

\* _reschedule.
LEMMA Rescheduling ==
  ASSUME NEW js, NEW q, NEW tk, NEW sr, Scheduled(js, q, tk, sr),
         NEW k \in Ticks, NEW j \in Jobs, NEW tk2, LetsGo(tk, k, j, tk2),
         NEW js2, Blocks(js, j, js2), JobOK(j, js2, sr), NEW t \in Nat, SlotsDone(j, t, js2, sr)
  PROVE  SlotsKept(Rescheduled([jobs |-> js2, queue |-> q], j, t), tk2, sr)
  <1> DEFINE s == [jobs |-> js2, queue |-> q]
  <1>0. /\ \A x \in Range(sr[j]) \cup Range(js2[j].blocked) : x <= t
        /\ j \in OnceJobs /\ ~js2[j].executed => sr[j] = <<>> /\ js2[j].blocked = <<>>
        /\ j \in Undelayed => /\ js2[j].running = 0 /\ js2[j].blocked = <<>>
                              /\ Range(sr[j]) = SlotsIn(0, t)
    BY DEF SlotsDone
  <1> USE <1>0
  <1>1. j \in CronJobs \/ j \in OnceJobs
    BY JobFacts
  <1>2. CASE j \in CronJobs
    <2>1. PICK n \in Nat : n = NextAfter(t) /\ n > t /\ n % CronPeriod = 0 /\ SlotsIn(0, n - 1) = SlotsIn(0, t)
      BY NextAfterProperties
    <2>2. Rescheduled(s, j, t) = [jobs |-> js2, queue |-> Pushed(q, FireEntry(j, n))]
      <3>1. Rescheduled(s, j, t) = [s EXCEPT !.queue = Pushed(@, FireEntry(j, NextAfter(t)))]
        BY <1>2, JobFacts DEF Rescheduled
      <3>2. FireEntry(j, NextAfter(t)) = FireEntry(j, n)
        BY <2>1
      <3>3. PICK f : f = FireEntry(j, n)
        OBVIOUS
      <3> QED BY <3>1, <3>2, <3>3
    <2>3. EntryOK(FireEntry(j, n), js2, sr)
      <3>1. FireEntry(j, n).job = j /\ FireEntry(j, n).at = n
        BY DEF FireEntry
      <3>2. \A x \in Range(sr[j]) \cup Range(js2[j].blocked) : x < n
        <4>1. sr[j] \in Seq(Nat) /\ js2[j].blocked \in Seq(Nat)
          BY DEF Scheduled, Blocks, JobRecords
        <4>2. \A x \in Range(sr[j]) \cup Range(js2[j].blocked) : x \in Nat
          BY <4>1, RangeFacts
        <4> QED BY <2>1, <4>2
      <3>3. j \notin OnceJobs
        BY <1>2, JobFacts
      <3> QED BY <2>1, <3>1, <3>2, <3>3 DEF EntryOK
    <2>4. Scheduled(js2, Pushed(q, FireEntry(j, n)), tk2, sr)
      BY <2>3, PushedBack
    <2> QED BY <2>2, <2>4 DEF SlotsKept
  <1>3. CASE j \in OnceJobs /\ ~js2[j].executed
    <2>1. j \notin CronJobs /\ j \notin Undelayed /\ OnceAt \in Nat
      BY <1>3, JobFacts
    <2>2. Rescheduled(s, j, t) = [jobs |-> js2, queue |-> Pushed(q, FireEntry(j, OnceAt))]
      BY <1>3, <2>1 DEF Rescheduled
    <2>3. EntryOK(FireEntry(j, OnceAt), js2, sr)
      <3>1. FireEntry(j, OnceAt).job = j /\ Range(sr[j]) \cup Range(js2[j].blocked) = {}
        BY <1>3 DEF FireEntry, Range
      <3> QED BY <1>3, <2>1, <3>1 DEF EntryOK
    <2>4. Scheduled(js2, Pushed(q, FireEntry(j, OnceAt)), tk2, sr)
      BY <2>1, <2>3, PushedBack
    <2> QED BY <2>2, <2>4 DEF SlotsKept
  <1>4. CASE j \in OnceJobs /\ js2[j].executed
    <2>1. j \notin CronJobs
      BY <1>4, JobFacts
    <2>2. Rescheduled(s, j, t) = [jobs |-> js2, queue |-> q]
      BY <1>4, <2>1 DEF Rescheduled
    <2>3. Scheduled(js2, q, tk2, sr)
      BY <2>1, JobLetGo
    <2> QED BY <2>2, <2>3 DEF SlotsKept
  <1> QED BY <1>1, <1>2, <1>3, <1>4

\* A turn of the loop that launches nothing.
LEMMA PassedOverKeeps ==
  ASSUME NEW js, NEW q, NEW tk, NEW sr, Scheduled(js, q, tk, sr),
         NEW k \in Ticks, tk[k].at = "loop", NEW e, e \in Range(tk[k].batch),
         NEW tk2, LetsGo(tk, k, e.job, tk2),
         ~Launches([jobs |-> js, queue |-> q], e)
  PROVE  SlotsKept(PassedOver([jobs |-> js, queue |-> q], e, tk[k].time), tk2, sr)
  <1>1. PICK s : s = [jobs |-> js, queue |-> q]
    OBVIOUS
  <1>2. s.jobs = js /\ s.queue = q
    BY <1>1
  <1>3. tk[k] \in TickRecords /\ TickOK(tk[k], js, sr) /\ TickShaped(q, tk[k])
    BY DEF Scheduled, Structured
  <1>4. e \in FireEntries /\ EntryOK(e, js, sr) /\ e.at <= tk[k].time
    <2>1. tk[k].batch \in Seq(FireEntries)
      BY <1>3 DEF TickRecords
    <2> QED BY <1>3, <2>1, RangeFacts DEF TickOK, TickShaped
  <1>5. PICK t \in Nat, j \in Jobs, at \in Nat : t = tk[k].time /\ j = e.job /\ at = e.at /\ at <= t
    BY <1>3, <1>4 DEF FireEntries, TickRecords
  <1>6. /\ JobOK(j, js, sr) /\ js \in [Jobs -> JobRecords] /\ sr[j] \in Seq(Nat)
        /\ Blocks(js, j, js) /\ js[j].blocked \in Seq(Nat) /\ js[j].running \in Int
    BY DEF Scheduled, Blocks, JobRecords
  <1>7. ~(j \in Undelayed /\ js[j].there)
    <2> SUFFICES ASSUME j \in Undelayed, js[j].there PROVE FALSE
      OBVIOUS
    <2>1. js[j].enabled /\ js[j].running = 0 /\ j \notin Dependents
      BY <1>4, <1>5, <1>6 DEF JobOK, EntryOK, Undelayed
    <2> QED BY <1>1, <1>2, <1>5, <2>1, JobFacts DEF Launches, DepsSatisfied
  <1>8. \A x \in Range(sr[j]) \cup Range(js[j].blocked) : x \in Nat /\ x < at
    BY <1>4, <1>5, <1>6, RangeFacts DEF EntryOK
  <1>9. \A x \in Range(sr[j]) \cup Range(js[j].blocked) : x <= t
    BY <1>5, <1>8
  <1>10. CASE ~js[j].there
    <2>1. PassedOver(s, e, t) = s
      BY <1>2, <1>5, <1>10 DEF PassedOver
    <2>2. Scheduled(js, q, tk2, sr)
      BY <1>5, <1>6, <1>10, JobLetGo
    <2> QED BY <1>1, <1>2, <1>5, <2>1, <2>2 DEF SlotsKept
  <1>11. CASE js[j].there /\ ~js[j].enabled
    <2>1. PassedOver(s, e, t) = Rescheduled(s, j, t)
      BY <1>2, <1>5, <1>11 DEF PassedOver
    <2>2. j \in OnceJobs => sr[j] = <<>> /\ js[j].blocked = <<>>
      BY <1>4, <1>5 DEF EntryOK
    <2>3. SlotsKept(Rescheduled(s, j, t), tk2, sr)
      <3>1. SlotsDone(j, t, js, sr)
        BY <1>5, <1>6, <1>7, <1>9, <1>11, <2>2 DEF SlotsDone
      <3>2. LetsGo(tk, k, j, tk2)
        BY <1>5
      <3>3. Blocks(js, j, js) /\ JobOK(j, js, sr)
        BY <1>6
      <3>4. SlotsKept(Rescheduled([jobs |-> js, queue |-> q], j, t), tk2, sr)
        BY <3>1, <3>2, <3>3, Rescheduling
      <3> QED BY <1>1, <3>4
    <2> QED BY <1>1, <1>5, <2>1, <2>3
  <1>12. CASE js[j].there /\ js[j].enabled /\ ~DepsSatisfied(s, j)
    <2>1. PICK d \in Nat : d = t + Deferral /\ d > t
      BY JobFacts
    <2>2. PassedOver(s, e, t) = [jobs |-> js, queue |-> Pushed(q, FireEntry(j, d))]
      BY <1>1, <1>5, <1>12, <2>1 DEF PassedOver
    <2>3. EntryOK(FireEntry(j, d), js, sr)
      <3>1. FireEntry(j, d).job = j /\ FireEntry(j, d).at = d
        BY DEF FireEntry
      <3>2. \A x \in Range(sr[j]) \cup Range(js[j].blocked) : x < d
        BY <1>5, <1>8, <2>1
      <3> QED BY <1>4, <1>5, <1>7, <1>12, <3>1, <3>2 DEF EntryOK
    <2>4. Scheduled(js, Pushed(q, FireEntry(j, d)), tk2, sr)
      BY <1>5, <1>6, <2>3, PushedBack
    <2> QED BY <1>1, <1>5, <2>2, <2>4 DEF SlotsKept
  <1>13. CASE js[j].there /\ js[j].enabled /\ DepsSatisfied(s, j)
    <2>1. PICK b \in Seq(Nat) : b = Append(js[j].blocked, at) /\ Range(b) = Range(js[j].blocked) \cup {at}
                               /\ (Distinct(js[j].blocked) /\ at \notin Range(js[j].blocked) => Distinct(b))
      BY <1>6, RangeOfAppend
    <2>2. PICK js2 : js2 = [js EXCEPT ![j].blocked = b]
      OBVIOUS
    <2>3. /\ js2 \in [Jobs -> JobRecords] /\ \A i \in Jobs \ {j} : js2[i] = js[i]
          /\ js2[j].there = js[j].there /\ js2[j].running = js[j].running
          /\ js2[j].executed = js[j].executed /\ js2[j].blocked = b /\ js2[j].enabled = js[j].enabled
      BY <1>6, <2>2 DEF JobRecords
    <2>4. js[j].executed
      <3>1. ~(js[j].running < Concurrency)
        BY <1>1, <1>2, <1>5, <1>13 DEF Launches
      <3> QED BY <1>6, <3>1, JobFacts DEF JobOK
    <2>5. JobOK(j, js2, sr)
      <3>1. at \notin Range(sr[j]) /\ at \notin Range(js[j].blocked)
        BY <1>8
      <3> QED BY <1>6, <2>1, <2>3, <2>4, <3>1 DEF JobOK
    <2>6. PassedOver(s, e, t) = Rescheduled([jobs |-> js2, queue |-> q], j, t)
      <3>1. [s EXCEPT !.jobs[j].blocked = b] = [jobs |-> js2, queue |-> q]
        BY <1>1, <2>2
      <3>2. [s EXCEPT !.jobs[e.job].blocked = Append(@, e.at)] = [s EXCEPT !.jobs[j].blocked = b]
        BY <1>2, <1>5, <2>1
      <3> QED BY <1>2, <1>5, <1>13, <3>1, <3>2 DEF PassedOver
    <2>7. \A x \in Range(sr[j]) \cup Range(js2[j].blocked) : x <= t
      BY <1>5, <1>9, <2>1, <2>3
    <2>8. Blocks(js, j, js2)
      BY <2>3 DEF Blocks
    <2>9. j \notin Undelayed
      BY <1>7, <1>13
    <2>10. SlotsKept(Rescheduled([jobs |-> js2, queue |-> q], j, t), tk2, sr)
      <3>1. LetsGo(tk, k, j, tk2)
        BY <1>5
      <3>2. ~(j \in OnceJobs /\ ~js2[j].executed)
        BY <2>3, <2>4
      <3>3. j \in OnceJobs /\ ~js2[j].executed => sr[j] = <<>> /\ js2[j].blocked = <<>>
        BY <3>2
      <3>4. j \in Undelayed => /\ js2[j].running = 0 /\ js2[j].blocked = <<>>
                               /\ Range(sr[j]) = SlotsIn(0, t)
        BY <2>9
      <3>5. SlotsDone(j, t, js2, sr)
        BY <2>7, <3>3, <3>4 DEF SlotsDone
      <3> QED BY <2>5, <2>8, <3>1, <3>5, Rescheduling
    <2> QED BY <1>1, <1>5, <2>6, <2>10
  <1> QED BY <1>6, <1>10, <1>11, <1>12, <1>13

\* The blocked slots of a job and those it slept through, or some of them.
Missed(m, js, e, t) ==
  /\ m \in Seq(Nat) /\ Distinct(m)
  /\ Range(m) \subseteq Range(js[e.job].blocked) \cup SlotsIn(e.at, t)
  /\ e.job \in RunAllJobs => Range(m) = Range(js[e.job].blocked) \cup SlotsIn(e.at, t)

\* _missedSlots.
LEMMA MissedSlotsProperties ==
  ASSUME NEW js \in [Jobs -> JobRecords], NEW q, NEW e \in FireEntries, NEW t \in Nat, e.at <= t,
         Distinct(js[e.job].blocked), \A x \in Range(js[e.job].blocked) : x < e.at
  PROVE  Missed(MissedSlots([jobs |-> js, queue |-> q], e, t), js, e, t)
  <1>1. PICK j \in Jobs, at \in Nat, b \in Seq(Nat) : j = e.job /\ at = e.at /\ b = js[j].blocked
    BY DEF FireEntries, JobRecords
  <1>2. PICK z : z = IF j \in CronJobs THEN SlotsBetween(at, t) ELSE <<>>
    OBVIOUS
  <1>3. /\ z \in Seq(Nat) /\ Distinct(z) /\ Range(z) \subseteq SlotsIn(at, t)
        /\ j \in CronJobs => Range(z) = SlotsIn(at, t)
    <2>1. <<>> \in Seq(Nat) /\ Distinct(<<>>) /\ Range(<<>>) = {}
      BY DEF Distinct, Range
    <2> QED BY <1>1, <1>2, <2>1, SlotsBetweenProperties
  <1>4. Range(b) \cap Range(z) = {}
    BY <1>1, <1>3, RangeFacts DEF SlotsIn
  <1>5. PICK c \in Seq(Nat) : c = b \o z /\ Range(c) = Range(b) \cup Range(z) /\ Distinct(c)
    BY <1>1, <1>3, <1>4, RangeOfConcat
  <1>6. c \in Seq(Int)
    BY RangeFacts
  <1>7. PICK a \in Seq(Int) : a = Sorted(c) /\ Range(a) = Range(c) /\ Distinct(a)
    BY <1>5, <1>6, RangeOfSorted
  <1>8. a \in Seq(Nat)
    <2>1. PICK n \in Nat : n = Len(a) /\ DOMAIN a = 1 .. n /\ a = [i \in 1 .. n |-> a[i]]
      BY LenProperties
    <2>2. \A x \in Range(a) : x \in Nat
      BY <1>1, <1>3, <1>5, <1>7, RangeFacts
    <2>3. \A i \in 1 .. n : a[i] \in Nat
      BY <2>1, <2>2 DEF Range
    <2>4. [i \in 1 .. n |-> a[i]] \in Seq(Nat)
      BY <2>3
    <2> QED BY <2>1, <2>4
  <1>9. MissedSlots([jobs |-> js, queue |-> q], e, t) =
          CASE j \in RunAllJobs -> a
            [] j \in SkipOneJobs /\ a # <<>> -> <<a[Len(a)]>>
            [] OTHER -> <<>>
    <2>1. [jobs |-> js, queue |-> q].jobs = js
      OBVIOUS
    <2> QED BY <1>1, <1>2, <1>5, <1>7, <2>1 DEF MissedSlots
  <1>10. CASE j \in RunAllJobs
    <2>1. j \notin SkipOneJobs /\ j \in CronJobs
      BY <1>10, JobSchedulerAssumption
    <2>2. MissedSlots([jobs |-> js, queue |-> q], e, t) = a
      BY <1>9, <1>10, <2>1
    <2> QED BY <1>1, <1>3, <1>5, <1>7, <1>8, <2>1, <2>2 DEF Missed
  <1>11. CASE j \notin RunAllJobs /\ j \in SkipOneJobs /\ a # <<>>
    <2>1. MissedSlots([jobs |-> js, queue |-> q], e, t) = <<a[Len(a)]>>
      BY <1>9, <1>11
    <2>2. Len(a) \in 1 .. Len(a)
      BY <1>11, EmptySeq, LenProperties
    <2>3. PICK x \in Nat : x = a[Len(a)] /\ x \in Range(a)
      BY <1>8, <2>2, RangeFacts
    <2>4. <<x>> \in Seq(Nat) /\ Distinct(<<x>>) /\ Range(<<x>>) = {x}
      BY DEF Distinct, Range
    <2>5. PICK m \in Seq(Nat) : m = <<x>> /\ Distinct(m) /\ Range(m) = {x}
      BY <2>4
    <2>6. x \in Range(js[j].blocked) \cup SlotsIn(at, t)
      BY <1>1, <1>3, <1>5, <1>7, <2>3
    <2>7. m = MissedSlots([jobs |-> js, queue |-> q], e, t)
      BY <2>1, <2>3, <2>5
    <2> QED BY <1>1, <1>11, <2>5, <2>6, <2>7 DEF Missed
  <1>12. CASE j \notin RunAllJobs /\ ~(j \in SkipOneJobs /\ a # <<>>)
    <2>1. MissedSlots([jobs |-> js, queue |-> q], e, t) = <<>>
      BY <1>9, <1>12
    <2>2. <<>> \in Seq(Nat) /\ Distinct(<<>>) /\ Range(<<>>) = {}
      BY DEF Distinct, Range
    <2> QED BY <1>1, <1>12, <2>1, <2>2 DEF Missed
  <1> QED BY <1>10, <1>11, <1>12

\* Tick k turns to entry e of its batch; b is the rest.
TurnsTo(tk, k, e, b) ==
  /\ tk[k].at = "loop" /\ e \in Range(tk[k].batch)
  /\ b \in Seq(FireEntries) /\ OneEach(b) /\ Range(b) \subseteq Range(tk[k].batch)
  /\ e.job \notin JobsIn(b) /\ JobsIn(tk[k].batch) \subseteq JobsIn(b) \cup {e.job}

\* Job j, that nothing blocks any more, is launched.
LaunchedJob(js, j, js2) ==
  /\ js2 \in [Jobs -> JobRecords] /\ \A i \in Jobs \ {j} : js2[i] = js[i]
  /\ js2[j].there /\ js2[j].enabled /\ js2[j].executed /\ js2[j].blocked = <<>>
  /\ js2[j].running = js[j].running + 1

Running(t, b, j, z) == [at |-> "running", time |-> t, batch |-> b, job |-> j, slots |-> z]

\* The tick launches the job of entry e and awaits it.
Sys(js, q) == [jobs |-> js, queue |-> q]

TickChanges(tk, k, tk2, r) ==
  tk2 = [l \in Ticks |-> tk2[l]] /\ tk2[k] = r /\ \A l \in Ticks \ {k} : tk2[l] = tk[l]

SlotAdded(sr, e) == [sr EXCEPT ![e.job] = Append(@, e.at)]

\* The tick launches the job of its next entry, with its slot, and has the missed ones before it.
LEMMA LaunchKeeps ==
  ASSUME NEW js, NEW q, NEW tk, NEW sr, Scheduled(js, q, tk, sr),
         NEW k \in Ticks, NEW e, NEW b, TurnsTo(tk, k, e, b), Launches(Sys(js, q), e), NEW tk2,
         TickChanges(tk, k, tk2, Running(tk[k].time, b, e.job, MissedSlots(Sys(js, q), e, tk[k].time))),
         NEW js2, LaunchedJob(js, e.job, js2)
  PROVE  Scheduled(js2, q, tk2, SlotAdded(sr, e))
  <1>25. PICK sr2 : sr2 = SlotAdded(sr, e) /\ sr2 = [sr EXCEPT ![e.job] = Append(@, e.at)]
    BY DEF SlotAdded
  <1>26. /\ tk2 = [l \in Ticks |-> tk2[l]] /\ \A l \in Ticks \ {k} : tk2[l] = tk[l]
         /\ tk2[k] = Running(tk[k].time, b, e.job, MissedSlots(Sys(js, q), e, tk[k].time))
    BY DEF TickChanges
  <1>0. /\ tk[k].at = "loop" /\ e \in Range(tk[k].batch)
        /\ b \in Seq(FireEntries) /\ OneEach(b) /\ Range(b) \subseteq Range(tk[k].batch)
        /\ e.job \notin JobsIn(b) /\ JobsIn(tk[k].batch) \subseteq JobsIn(b) \cup {e.job}
    BY DEF TurnsTo
  <1>24. /\ js2 \in [Jobs -> JobRecords] /\ \A i \in Jobs \ {e.job} : js2[i] = js[i]
         /\ js2[e.job].there /\ js2[e.job].enabled /\ js2[e.job].executed /\ js2[e.job].blocked = <<>>
         /\ js2[e.job].running = js[e.job].running + 1
    BY DEF LaunchedJob
  <1> USE <1>0, <1>24, <1>25, <1>26 DEF Running, Sys
  <1>1. tk[k] \in TickRecords /\ TickOK(tk[k], js, sr) /\ Structured(q, tk) /\ TickShaped(q, tk[k])
    BY DEF Scheduled, Structured
  <1>2. e \in FireEntries /\ EntryOK(e, js, sr) /\ e.at <= tk[k].time
    <2>1. tk[k].batch \in Seq(FireEntries)
      BY <1>1 DEF TickRecords
    <2> QED BY <1>1, <2>1, RangeFacts DEF TickOK, TickShaped
  <1>3. PICK t \in Nat, j \in Jobs, at \in Nat : t = tk[k].time /\ j = e.job /\ at = e.at /\ at <= t
    BY <1>1, <1>2 DEF FireEntries, TickRecords
  <1>4. /\ JobOK(j, js, sr) /\ js \in [Jobs -> JobRecords] /\ sr \in [Jobs -> Seq(Nat)]
        /\ js[j].blocked \in Seq(Nat) /\ js[j].running \in Int /\ js[j].there
    BY <1>3 DEF Scheduled, JobRecords, Launches
  <1>5. \A x \in Range(sr[j]) \cup Range(js[j].blocked) : x \in Nat /\ x < at
    BY <1>2, <1>3, <1>4, RangeFacts DEF EntryOK
  <1>6. PICK m \in Seq(Nat) :
           /\ m = MissedSlots([jobs |-> js, queue |-> q], e, t) /\ Distinct(m)
           /\ Range(m) \subseteq Range(js[j].blocked) \cup SlotsIn(at, t)
           /\ j \in RunAllJobs => Range(m) = Range(js[j].blocked) \cup SlotsIn(at, t)
    <2>1. Distinct(js[e.job].blocked) /\ \A x \in Range(js[e.job].blocked) : x < e.at
      BY <1>3, <1>4, <1>5 DEF JobOK
    <2>2. e \in FireEntries /\ e.at <= t /\ js \in [Jobs -> JobRecords]
      BY <1>2, <1>3, <1>4
    <2>3. Missed(MissedSlots([jobs |-> js, queue |-> q], e, t), js, e, t)
      BY <2>1, <2>2, MissedSlotsProperties
    <2> QED BY <1>3, <2>3 DEF Missed
  <1>7. PICK s \in Seq(Nat) : /\ s = Append(sr[j], at) /\ Range(s) = Range(sr[j]) \cup {at}
                             /\ (Distinct(sr[j]) /\ at \notin Range(sr[j]) => Distinct(s))
    BY <1>4, RangeOfAppend
  <1>8. sr2 \in [Jobs -> Seq(Nat)] /\ sr2[j] = s /\ \A i \in Jobs \ {j} : sr2[i] = sr[i]
    BY <1>3, <1>4, <1>7
  <1>9. PICK r : r = [at |-> "running", time |-> t, batch |-> b, job |-> j, slots |-> m]
    OBVIOUS
  <1>10. /\ tk2[k] = r /\ r \in TickRecords /\ Busy(r) /\ r.at = "running"
         /\ r.batch = b /\ r.job = j /\ r.time = t /\ r.slots = m
    BY <1>3, <1>6, <1>9 DEF TickRecords, Busy
  <1>11. tk2 \in [Ticks -> TickRecords]
    <2>1. \A l \in Ticks : tk2[l] \in TickRecords
      BY <1>1, <1>10 DEF Structured
    <2> QED BY <2>1
  <1>12. InHand(r) = InHand(tk[k]) /\ InHand(tk[k]) = JobsIn(tk[k].batch) /\ j \in InHand(tk[k])
    <2>1. ~Busy(tk[k])
      BY DEF Busy
    <2>2. JobsIn(b) \subseteq JobsIn(tk[k].batch) /\ j \in JobsIn(tk[k].batch)
      BY <1>3 DEF JobsIn
    <2> QED BY <1>3, <1>10, <2>1, <2>2 DEF InHand
  <1>13. \A l \in Ticks : InHand(tk2[l]) = InHand(tk[l])
    BY <1>10, <1>12
  <1>14. j \notin JobsIn(q) /\ \A l \in Ticks \ {k} : j \notin InHand(tk[l])
    BY <1>1, <1>12 DEF Structured, TickShaped
  <1>15. Structured(q, tk2)
    <2>1. TickShaped(q, r)
      <3>1. \A x \in Range(b) : x.at <= t
        BY <1>1, <1>3 DEF TickShaped
      <3>2. JobsIn(q) \cap InHand(r) = {}
        BY <1>1, <1>12 DEF TickShaped
      <3> QED BY <1>3, <1>10, <3>1, <3>2 DEF TickShaped
    <2>2. \A l \in Ticks : TickShaped(q, tk2[l])
      BY <1>1, <1>10, <2>1 DEF Structured
    <2>3. \A l, n \in Ticks : l # n => InHand(tk2[l]) \cap InHand(tk2[n]) = {}
      BY <1>1, <1>13 DEF Structured
    <2> QED BY <1>1, <1>11, <2>2, <2>3 DEF Structured
  <1>16. NoneLost(js2, q, tk2)
    <2>1. \A i \in CronJobs : js2[i].there => js[i].there
      BY <1>3, <1>4, JobFacts
    <2> QED BY <1>13, <2>1 DEF NoneLost, Scheduled
  <1>17. \A i \in Jobs \ {j} : js2[i] = js[i] /\ sr2[i] = sr[i]
    BY <1>3, <1>8
  <1>18. \A x \in Range(q) : EntryOK(x, js2, sr2)
    <2> SUFFICES ASSUME NEW x \in Range(q) PROVE EntryOK(x, js2, sr2)
      OBVIOUS
    <2>1. x \in FireEntries /\ EntryOK(x, js, sr) /\ x.job \in JobsIn(q)
      BY <1>1, RangeFacts DEF Structured, Scheduled, JobsIn
    <2>2. x.job \in Jobs \ {j}
      BY <1>14, <2>1 DEF FireEntries
    <2> QED BY <1>17, <2>1, <2>2, SameJob
  <1>19. \A l \in Ticks : \A x \in Range(tk2[l].batch) : EntryOK(x, js2, sr2)
    <2> SUFFICES ASSUME NEW l \in Ticks, NEW x \in Range(tk2[l].batch) PROVE EntryOK(x, js2, sr2)
      OBVIOUS
    <2>1. x \in FireEntries
      BY <1>11, RangeFacts DEF TickRecords
    <2>2. x \in Range(tk[l].batch)
      BY <1>10
    <2>3. EntryOK(x, js, sr)
      BY <2>2 DEF Scheduled, TickOK
    <2>4. x.job # j
      <3>1. CASE l = k
        BY <1>3, <1>10, <3>1 DEF JobsIn
      <3>2. CASE l # k
        BY <1>14, <2>2, <3>2 DEF InHand, JobsIn
      <3> QED BY <3>1, <3>2
    <2>5. x.job \in Jobs \ {j}
      BY <2>1, <2>4 DEF FireEntries
    <2> QED BY <1>17, <2>3, <2>5, SameJob
  <1>20. RunOK(r, js2, sr2)
    <2>1. r.job = j /\ r.time = t /\ r.slots = m /\ r.at = "running"
      BY <1>10
    <2>2. js2[j].there /\ js2[j].executed /\ js2[j].blocked = <<>>
      BY <1>3
    <2>3. \A x \in Range(m) : x <= t /\ x \notin Range(sr[j]) /\ x # at
      <3> SUFFICES ASSUME NEW x \in Range(m) PROVE x <= t /\ x \notin Range(sr[j]) /\ x # at
        OBVIOUS
      <3>1. CASE x \in Range(js[j].blocked)
        BY <1>3, <1>4, <1>5, <3>1 DEF JobOK
      <3>2. CASE x \in SlotsIn(at, t)
        BY <1>3, <1>5, <3>2 DEF SlotsIn
      <3> QED BY <1>6, <3>1, <3>2
    <2>4. \A x \in Range(s) : x <= t
      BY <1>3, <1>5, <1>7
    <2>5. ASSUME j \in Undelayed
          PROVE  js2[j].running = 1 /\ Range(s) \cup Range(m) = SlotsIn(0, t)
      <3>1. /\ js[j].running = 0 /\ js[j].blocked = <<>> /\ at > 0 /\ at % CronPeriod = 0
            /\ Range(sr[j]) = SlotsIn(0, at - 1)
        BY <1>2, <1>3, <2>5 DEF EntryOK
      <3>2. js2[j].running = 1
        BY <1>3, <3>1
      <3>3. Range(m) = SlotsIn(at, t)
        <4>1. j \in RunAllJobs /\ Range(<<>>) = {}
          BY <2>5 DEF Undelayed, Range
        <4> QED BY <1>6, <3>1, <4>1
      <3>4. SlotsIn(0, t) = SlotsIn(0, at - 1) \cup {at} \cup SlotsIn(at, t)
        <4>1. \A x \in 0 + 1 .. t : x \in 0 + 1 .. at - 1 \/ x = at \/ x \in at + 1 .. t
          BY <1>3
        <4>2. \A x \in 0 + 1 .. at - 1 : x \in 0 + 1 .. t
          BY <1>3
        <4>3. \A x \in at + 1 .. t : x \in 0 + 1 .. t
          BY <1>3
        <4>4. at \in 0 + 1 .. t
          BY <1>3, <3>1
        <4> QED BY <3>1, <4>1, <4>2, <4>3, <4>4 DEF SlotsIn
      <3> QED BY <1>7, <3>1, <3>2, <3>3, <3>4
    <2> QED BY <1>6, <1>7, <1>8, <2>1, <2>2, <2>3, <2>4, <2>5 DEF RunOK
  <1>21. \A l \in Ticks : Busy(tk2[l]) => RunOK(tk2[l], js2, sr2)
    <2>0. RunOK(tk2[k], js2, sr2)
      BY <1>10, <1>20
    <2> SUFFICES ASSUME NEW l \in Ticks \ {k}, Busy(tk[l]) PROVE RunOK(tk[l], js2, sr2)
      BY <2>0
    <2>1. PICK i, u : i = tk[l].job /\ u = tk[l]
      OBVIOUS
    <2>2. i \in Jobs /\ i # j
      BY <1>1, <1>14, <2>1 DEF Structured, TickShaped, InHand
    <2>3. RunOK(u, js, sr) /\ u.job = i
      BY <2>1 DEF Scheduled, TickOK
    <2>4. js2[i] = js[i] /\ sr2[i] = sr[i]
      BY <1>17, <2>2
    <2>5. RunOK(u, js2, sr2)
      BY ONLY <2>3, <2>4, SameJob
    <2> QED BY <2>1, <2>5
  <1>22. \A l \in Ticks : TickOK(tk2[l], js2, sr2)
    BY <1>19, <1>21 DEF TickOK
  <1>23. \A i \in Jobs : JobOK(i, js2, sr2)
    <2>1. JobOK(j, js2, sr2)
      <3>1. Distinct(<<>>) /\ Range(<<>>) = {}
        BY DEF Distinct, Range
      <3>2. Distinct(s)
        BY <1>4, <1>5, <1>7 DEF JobOK
      <3>3. js2[j].blocked = <<>> /\ js2[j].executed /\ js2[j].there /\ js2[j].enabled
        BY <1>3
      <3> QED BY <1>8, <3>1, <3>2, <3>3 DEF JobOK
    <2>2. ASSUME NEW i \in Jobs \ {j} PROVE JobOK(i, js2, sr2)
      <3>1. js2[i] = js[i] /\ sr2[i] = sr[i] /\ JobOK(i, js, sr)
        BY <1>17 DEF Scheduled
      <3> QED BY <3>1, SameJob
    <2> QED BY <2>1, <2>2
  <1> QED BY <1>4, <1>8, <1>15, <1>16, <1>18, <1>22, <1>23 DEF Scheduled

-----------------------------------------------------------------------------
(* The loop.                                                               *)

Loop(t, b) == [at |-> "loop", time |-> t, batch |-> b, job |-> Dependency, slots |-> <<>>]

Systems == [jobs : [Jobs -> JobRecords], queue : Seq(FireEntries)]

\* A tick in its loop has nothing but its batch.
LEMMA LoopFacts ==
  ASSUME NEW t \in Nat, NEW b \in Seq(FireEntries)
  PROVE  /\ Loop(t, b) \in TickRecords /\ Loop(t, b).at = "loop" /\ Loop(t, b).time = t
         /\ Loop(t, b).batch = b /\ ~Busy(Loop(t, b)) /\ InHand(Loop(t, b)) = JobsIn(b)
  BY DEF Loop, TickRecords, Busy, InHand

\* The rest of a batch from its entry n on, and after it.
LEMMA RestOfBatch ==
  ASSUME NEW b \in Seq(FireEntries), OneEach(b), NEW n \in 1 .. Len(b)
  PROVE  \E r \in Seq(FireEntries), z \in Seq(FireEntries) :
           /\ r = SubSeq(b, n, Len(b)) /\ z = SubSeq(b, n + 1, Len(b))
           /\ OneEach(z) /\ Range(z) \subseteq Range(r) /\ b[n] \in Range(r)
           /\ b[n].job \in Jobs /\ b[n].job \notin JobsIn(z)
           /\ JobsIn(r) \subseteq JobsIn(z) \cup {b[n].job}
  <1>1. PICK m \in Nat : m = Len(b) /\ n \in 1 .. m /\ n - 1 \in 0 .. m /\ n \in 0 .. m
    BY LenProperties
  <1>2. PICK r \in Seq(FireEntries) :
          /\ r = SubSeq(b, n, m)
          /\ \A x \in Range(r) : \E i \in n .. m : x = b[i]
          /\ \A i \in n .. m : b[i] \in Range(r)
    <2>1. PICK p \in 0 .. Len(b) : p = n - 1 /\ p + 1 = n
      BY <1>1
    <2>2. PICK r \in Seq(FireEntries) :
            /\ r = SubSeq(b, p + 1, Len(b))
            /\ \A x \in Range(r) : \E i \in p + 1 .. Len(b) : x = b[i]
            /\ \A i \in p + 1 .. Len(b) : b[i] \in Range(r)
      BY RangeOfSuffix
    <2> QED BY <1>1, <2>1, <2>2
  <1>3. PICK z \in Seq(FireEntries) :
          /\ z = SubSeq(b, n + 1, m) /\ (Distinct(b) => Distinct(z))
          /\ \A x \in Range(z) : \E i \in n + 1 .. m : x = b[i]
          /\ \A i \in n + 1 .. m : b[i] \in Range(z)
    <2>1. n \in 0 .. Len(b)
      BY <1>1
    <2> QED BY <1>1, <2>1, RangeOfSuffix
  <1>4. /\ \A i \in n + 1 .. m : i \in n .. m /\ i \in 1 .. m /\ i # n
        /\ \A i \in n .. m : i = n \/ i \in n + 1 .. m
        /\ n \in n .. m
    BY <1>1
  <1>5. \A i \in 1 .. m : b[i] \in FireEntries /\ b[i] \in Range(b)
    BY <1>1, ElementOfSeq, RangeFacts
  <1>6. \A i, j \in 1 .. m : b[i].job = b[j].job => i = j
    BY <1>1, <1>5 DEF OneEach, Distinct
  <1>7. \A x \in Range(z) : \E i \in n + 1 .. m : x = b[i]
    BY <1>3
  <1>8. OneEach(z)
    <2>1. \A x \in Range(z) : x \in Range(b)
      BY <1>4, <1>5, <1>7
    <2>2. Distinct(z)
      BY <1>3 DEF OneEach
    <2> QED BY <2>1, <2>2 DEF OneEach
  <1>9. b[n].job \in Jobs
    BY <1>1, <1>5 DEF FireEntries
  <1>10. b[n].job \notin JobsIn(z)
    <2>1. \A x \in Range(z) : x.job # b[n].job
      BY <1>1, <1>4, <1>6, <1>7
    <2> QED BY <2>1 DEF JobsIn
  <1>11. Range(z) \subseteq Range(r) /\ b[n] \in Range(r)
    BY <1>2, <1>4, <1>7
  <1>12. JobsIn(r) \subseteq JobsIn(z) \cup {b[n].job}
    <2> SUFFICES ASSUME NEW x \in Range(r) PROVE x.job \in JobsIn(z) \cup {b[n].job}
      BY DEF JobsIn
    <2>1. PICK i \in n .. m : x = b[i]
      BY <1>2
    <2>2. CASE i = n
      BY <2>1, <2>2
    <2>3. CASE i # n
      <3>1. i \in n + 1 .. m
        BY <1>4, <2>3
      <3>2. x \in Range(z)
        BY <1>3, <2>1, <3>1
      <3> QED BY <3>2 DEF JobsIn
    <2> QED BY <2>2, <2>3
  <1> QED BY <1>1, <1>2, <1>3, <1>8, <1>9, <1>10, <1>11, <1>12

\* A turn yields jobs and a queue.
LEMMA PassedOverType ==
  ASSUME NEW s \in Systems, NEW e \in FireEntries, NEW t \in Nat
  PROVE  PassedOver(s, e, t) \in Systems
  <1>1. PICK js \in [Jobs -> JobRecords], q \in Seq(FireEntries) :
          s = [jobs |-> js, queue |-> q] /\ s.jobs = js /\ s.queue = q
    BY DEF Systems
  <1>2. PICK j \in Jobs, at \in Nat : j = e.job /\ at = e.at
    BY DEF FireEntries
  <1>3. \A f \in FireEntries : Pushed(q, f) \in Seq(FireEntries)
    BY RangeOfInserted DEF Pushed
  <1>4. \A n \in Nat : FireEntry(j, n) \in FireEntries
    BY DEF FireEntry, FireEntries
  <1>5. \A n \in Nat : [jobs |-> js, queue |-> Pushed(q, FireEntry(j, n))] \in Systems
    BY <1>3, <1>4 DEF Systems
  <1>6. t + Deferral \in Nat /\ NextAfter(t) \in Nat /\ OnceAt \in Nat
    <2>1. Deferral \in Nat /\ OnceAt \in Nat
      BY JobFacts
    <2>2. t + Deferral \in Nat
      BY <2>1
    <2>3. NextAfter(t) \in Nat
      BY NextAfterProperties
    <2> QED BY <2>1, <2>2, <2>3
  <1>7. ASSUME NEW u \in [Jobs -> JobRecords]
        PROVE  Rescheduled([jobs |-> u, queue |-> q], j, t) \in Systems
    <2>1. \A n \in Nat : [jobs |-> u, queue |-> Pushed(q, FireEntry(j, n))] \in Systems
      BY <1>3, <1>4 DEF Systems
    <2>2. [jobs |-> u, queue |-> q] \in Systems
      BY DEF Systems
    <2>3. CASE j \in CronJobs
      <3>1. Rescheduled([jobs |-> u, queue |-> q], j, t) = [jobs |-> u, queue |-> Pushed(q, FireEntry(j, NextAfter(t)))]
        BY <2>3, JobFacts DEF Rescheduled
      <3> QED BY <1>6, <2>1, <3>1
    <2>4. CASE j \notin CronJobs /\ j \in OnceJobs /\ ~u[j].executed
      <3>1. Rescheduled([jobs |-> u, queue |-> q], j, t) = [jobs |-> u, queue |-> Pushed(q, FireEntry(j, OnceAt))]
        BY <2>4 DEF Rescheduled
      <3> QED BY <1>6, <2>1, <3>1
    <2>5. CASE j \notin CronJobs /\ ~(j \in OnceJobs /\ ~u[j].executed)
      <3>1. Rescheduled([jobs |-> u, queue |-> q], j, t) = [jobs |-> u, queue |-> q]
        BY <2>5 DEF Rescheduled
      <3> QED BY <2>2, <3>1
    <2> QED BY <2>3, <2>4, <2>5
  <1>8. CASE ~js[j].there
    BY <1>1, <1>2, <1>8 DEF PassedOver
  <1>9. CASE js[j].there /\ ~js[j].enabled
    <2>1. PassedOver(s, e, t) = Rescheduled(s, j, t)
      BY <1>1, <1>2, <1>9 DEF PassedOver
    <2> QED BY <1>1, <1>7, <2>1
  <1>10. CASE js[j].there /\ js[j].enabled /\ ~DepsSatisfied(s, j)
    <2>1. PassedOver(s, e, t) = [jobs |-> js, queue |-> Pushed(q, FireEntry(j, t + Deferral))]
      BY <1>1, <1>2, <1>10 DEF PassedOver
    <2> QED BY <1>5, <1>6, <2>1
  <1>11. CASE js[j].there /\ js[j].enabled /\ DepsSatisfied(s, j)
    <2>1. PICK b \in Seq(Nat) : b = Append(js[j].blocked, at)
      <3>1. js[j].blocked \in Seq(Nat)
        BY DEF JobRecords
      <3> QED BY <3>1, RangeOfAppend
    <2>2. PICK u \in [Jobs -> JobRecords] : u = [js EXCEPT ![j].blocked = b]
      BY DEF JobRecords
    <2>3. [s EXCEPT !.jobs[j].blocked = b] = [jobs |-> u, queue |-> q]
      <3>1. s = [jobs |-> js, queue |-> q]
        BY <1>1
      <3> QED BY <2>2, <3>1
    <2>4. [s EXCEPT !.jobs[e.job].blocked = Append(@, e.at)] = [s EXCEPT !.jobs[j].blocked = b]
      BY <1>1, <1>2, <2>1
    <2>5. PassedOver(s, e, t) = Rescheduled([jobs |-> u, queue |-> q], j, t)
      BY <1>1, <1>2, <1>11, <2>3, <2>4 DEF PassedOver
    <2> QED BY <1>7, <2>5
  <1> QED BY <1>8, <1>9, <1>10, <1>11

\* The systems after each turn of the loop.
Turns(f, start, batch, t) ==
  f = [n \in 0 .. Len(batch) |-> IF n = 0 THEN start ELSE PassedOver(f[n - 1], batch[n], t)]

\* The turns that RunBatch defines recursively are those of a function f.
LEMMA TurnsExist ==
  ASSUME NEW start \in Systems, NEW batch \in Seq(FireEntries), NEW t \in Nat
  PROVE  \E f : Turns(f, start, batch, t)
  <1> DEFINE G == [p \in Nat \X Systems |->
                     IF p[1] \in 1 .. Len(batch) THEN PassedOver(p[2], batch[p[1]], t) ELSE p[2]]
  <1>1. Len(batch) \in Nat /\ \A i \in 1 .. Len(batch) : batch[i] \in FireEntries
    BY LenProperties, ElementOfSeq
  <1>2. G \in [Nat \X Systems -> Systems]
    BY <1>1, PassedOverType
  <1>3. PICK f \in [0 .. Len(batch) -> Systems] : Recursive(f, Len(batch), start, G)
    <2> HIDE DEF G
    <2> QED BY <1>1, <1>2, Recursion
  <1>4. ASSUME NEW n \in 0 .. Len(batch), n # 0
        PROVE  G[<<n, f[n - 1]>>] = PassedOver(f[n - 1], batch[n], t)
    <2>1. n \in 1 .. Len(batch) /\ n - 1 \in 0 .. Len(batch) /\ f[n - 1] \in Systems
      BY <1>1, <1>4
    <2>2. <<n, f[n - 1]>> \in Nat \X Systems
      BY <2>1
    <2> QED BY <2>1, <2>2
  <1>5. Turns(f, start, batch, t)
    <2> HIDE DEF G
    <2> QED BY <1>3, <1>4 DEF Recursive, Turns
  <1> QED BY <1>5

\* Each turn goes on from the one before.
LEMMA TurnsValues ==
  ASSUME NEW f, NEW start, NEW batch \in Seq(FireEntries), NEW t, Turns(f, start, batch, t)
  PROVE  /\ f[0] = start
         /\ \A n \in 1 .. Len(batch) : f[n] = PassedOver(f[n - 1], batch[n], t)
  <1>1. PICK m \in Nat : m = Len(batch)
    BY LenProperties
  <1>2. \A n \in 0 .. m : f[n] = IF n = 0 THEN start ELSE PassedOver(f[n - 1], batch[n], t)
    BY <1>1, Zenon DEF Turns
  <1>3. 0 \in 0 .. m /\ \A n \in 1 .. m : n \in 0 .. m /\ n # 0
    BY <1>1
  <1> QED BY <1>1, <1>2, <1>3

\* The tick with the rest of the batch after its first n entries.
InLoop(tk, k, t, batch, n) == [tk EXCEPT ![k] = Loop(t, SubSeq(batch, n + 1, Len(batch)))]

\* Tick k with the entries of its batch from n on; the others are as they were.
LEMMA InLoopFacts ==
  ASSUME NEW tk \in [Ticks -> TickRecords], NEW k \in Ticks, NEW t \in Nat,
         NEW batch \in Seq(FireEntries), NEW n \in 0 .. Len(batch)
  PROVE  /\ InLoop(tk, k, t, batch, n) \in [Ticks -> TickRecords]
         /\ InLoop(tk, k, t, batch, n)[k] = Loop(t, SubSeq(batch, n + 1, Len(batch)))
         /\ SubSeq(batch, n + 1, Len(batch)) \in Seq(FireEntries)
         /\ \A l \in Ticks \ {k} : InLoop(tk, k, t, batch, n)[l] = tk[l]
  <1>1. PICK r \in Seq(FireEntries) : r = SubSeq(batch, n + 1, Len(batch))
    BY RangeOfSuffix
  <1>2. PICK u \in TickRecords : u = Loop(t, r)
    BY LoopFacts
  <1>3. InLoop(tk, k, t, batch, n) = [tk EXCEPT ![k] = u]
    BY <1>1, <1>2 DEF InLoop
  <1> QED BY <1>1, <1>2, <1>3

\* One turn that launches nothing.
LEMMA TurnKeeps ==
  ASSUME NEW tk \in [Ticks -> TickRecords], NEW k \in Ticks, NEW t \in Nat,
         NEW batch \in Seq(FireEntries), OneEach(batch), NEW n \in 1 .. Len(batch),
         NEW s, NEW sr, SlotsKept(s, InLoop(tk, k, t, batch, n - 1), sr), ~Launches(s, batch[n])
  PROVE  SlotsKept(PassedOver(s, batch[n], t), InLoop(tk, k, t, batch, n), sr)
  <1>1. Len(batch) \in Nat /\ n - 1 \in 0 .. Len(batch) /\ n \in 0 .. Len(batch) /\ (n - 1) + 1 = n
    BY LenProperties
  <1>2. PICK r \in Seq(FireEntries), z \in Seq(FireEntries) :
          /\ r = SubSeq(batch, n, Len(batch)) /\ z = SubSeq(batch, n + 1, Len(batch))
          /\ OneEach(z) /\ Range(z) \subseteq Range(r) /\ batch[n] \in Range(r)
          /\ batch[n].job \in Jobs /\ batch[n].job \notin JobsIn(z)
          /\ JobsIn(r) \subseteq JobsIn(z) \cup {batch[n].job}
    BY RestOfBatch
  <1>3. PICK a : /\ a = InLoop(tk, k, t, batch, n - 1) /\ a \in [Ticks -> TickRecords]
                 /\ a[k] = Loop(t, r) /\ \A l \in Ticks \ {k} : a[l] = tk[l]
    <2>1. PICK p \in 0 .. Len(batch) : p = n - 1 /\ p + 1 = n
      BY <1>1
    <2>2. /\ InLoop(tk, k, t, batch, p) \in [Ticks -> TickRecords]
          /\ InLoop(tk, k, t, batch, p)[k] = Loop(t, SubSeq(batch, p + 1, Len(batch)))
          /\ \A l \in Ticks \ {k} : InLoop(tk, k, t, batch, p)[l] = tk[l]
      BY InLoopFacts
    <2> QED BY <1>2, <2>1, <2>2
  <1>4. PICK c : /\ c = InLoop(tk, k, t, batch, n) /\ c \in [Ticks -> TickRecords]
                 /\ c[k] = Loop(t, z) /\ \A l \in Ticks \ {k} : c[l] = tk[l]
    <2>1. /\ InLoop(tk, k, t, batch, n) \in [Ticks -> TickRecords]
          /\ InLoop(tk, k, t, batch, n)[k] = Loop(t, SubSeq(batch, n + 1, Len(batch)))
          /\ \A l \in Ticks \ {k} : InLoop(tk, k, t, batch, n)[l] = tk[l]
      BY <1>1, InLoopFacts
    <2> QED BY <1>2, <2>1
  <1>5. PICK e : e = batch[n] /\ e \in Range(r)
    BY <1>2
  <1>6. /\ a[k].at = "loop" /\ a[k].time = t /\ a[k].batch = r /\ InHand(a[k]) = JobsIn(r)
        /\ c[k].at = "loop" /\ c[k].time = t /\ c[k].batch = z
    BY <1>3, <1>4, LoopFacts
  <1>7. LetsGo(a, k, e.job, c)
    <2>1. e.job \in JobsIn(r)
      BY <1>5 DEF JobsIn
    <2> QED BY <1>2, <1>3, <1>4, <1>5, <1>6, <2>1 DEF LetsGo
  <1>8. PICK js, q : s = [jobs |-> js, queue |-> q] /\ Scheduled(js, q, a, sr)
    BY <1>3 DEF SlotsKept
  <1>9. e \in Range(a[k].batch) /\ a[k].at = "loop" /\ ~Launches([jobs |-> js, queue |-> q], e)
    BY <1>5, <1>6, <1>8
  <1>10. SlotsKept(PassedOver([jobs |-> js, queue |-> q], e, a[k].time), c, sr)
    BY <1>7, <1>8, <1>9, PassedOverKeeps
  <1> QED BY <1>4, <1>5, <1>6, <1>8, <1>10

\* All turns up to the first that launches a job.
LEMMA TurnsKeep ==
  ASSUME NEW tk \in [Ticks -> TickRecords], NEW k \in Ticks, NEW t \in Nat,
         NEW batch \in Seq(FireEntries), OneEach(batch),
         NEW s, NEW sr, SlotsKept(s, InLoop(tk, k, t, batch, 0), sr), NEW f, Turns(f, s, batch, t),
         NEW m \in 0 .. Len(batch), \A h \in 1 .. m : ~Launches(f[h - 1], batch[h])
  PROVE  SlotsKept(f[m], InLoop(tk, k, t, batch, m), sr)
  <1> DEFINE Q == {n \in Nat : n <= m => SlotsKept(f[n], InLoop(tk, k, t, batch, n), sr)}
  <1>1. PICK L \in Nat : L = Len(batch) /\ m \in Nat /\ m <= L
    BY LenProperties
  <1>2. f[0] = s /\ \A n \in 1 .. L : f[n] = PassedOver(f[n - 1], batch[n], t)
    <2> HIDE DEF Q
    <2> QED BY <1>1, TurnsValues, SMTT(20)
  <1>3. 0 \in Q
    BY <1>2
  <1>4. ASSUME NEW n \in Nat, n \in Q PROVE n + 1 \in Q
    <2> SUFFICES ASSUME n + 1 <= m PROVE SlotsKept(f[n + 1], InLoop(tk, k, t, batch, n + 1), sr)
      OBVIOUS
    <2>1. PICK p \in 1 .. L : p = n + 1 /\ p - 1 = n /\ p \in 1 .. m
      BY <1>1
    <2>2. PICK u : u = f[n] /\ SlotsKept(u, InLoop(tk, k, t, batch, p - 1), sr) /\ ~Launches(u, batch[p])
      BY <1>1, <1>4, <2>1
    <2>3. SlotsKept(PassedOver(u, batch[p], t), InLoop(tk, k, t, batch, p), sr)
      BY <1>1, <2>1, <2>2, TurnKeeps
    <2>4. f[p] = PassedOver(u, batch[p], t)
      BY <1>2, <2>1, <2>2
    <2> QED BY <2>1, <2>3, <2>4
  <1>5. m \in Q
    <2> HIDE DEF Q
    <2> QED BY <1>1, <1>3, <1>4, Induction
  <1> QED BY <1>1, <1>5

\* The tick's batch is done.
LEMMA LoopEnds ==
  ASSUME NEW js, NEW q, NEW tk, NEW sr, Scheduled(js, q, tk, sr), NEW k \in Ticks,
         tk[k].at = "loop", tk[k].batch = <<>>,
         NEW tk2 \in [Ticks -> TickRecords], \A l \in Ticks \ {k} : tk2[l] = tk[l], tk2[k] = NoTick
  PROVE  Scheduled(js, q, tk2, sr)
  <1>1. Structured(q, tk)
    BY DEF Scheduled
  <1>2. /\ NoTick.batch = <<>> /\ NoTick.at = "off" /\ ~Busy(NoTick) /\ ~Busy(tk[k])
        /\ Range(<<>>) = {} /\ OneEach(<<>>)
    BY DEF NoTick, Busy, Range, OneEach, Distinct
  <1>3. InHand(NoTick) = {} /\ InHand(tk[k]) = {}
    BY <1>2 DEF InHand, JobsIn
  <1>4. \A l \in Ticks : InHand(tk2[l]) = InHand(tk[l])
    BY <1>3
  <1>5. Structured(q, tk2)
    <2>1. TickShaped(q, NoTick)
      BY <1>2, <1>3 DEF TickShaped
    <2>2. \A l \in Ticks : TickShaped(q, tk2[l])
      BY <1>1, <2>1 DEF Structured
    <2> QED BY <1>1, <1>4, <2>2 DEF Structured
  <1>6. NoneLost(js, q, tk2)
    BY <1>4 DEF Scheduled, NoneLost
  <1>7. \A l \in Ticks : TickOK(tk2[l], js, sr)
    <2>1. TickOK(NoTick, js, sr)
      BY <1>2 DEF TickOK
    <2> QED BY <2>1 DEF Scheduled
  <1> QED BY <1>5, <1>6, <1>7 DEF Scheduled

\* The loop stops at the first entry n whose job it launches.
StopsAt(f, batch, n) ==
  Launches(f[n - 1], batch[n]) /\ \A h \in 1 .. n - 1 : ~Launches(f[h - 1], batch[h])

LaunchesAt(k, f, batch, t, n) ==
  /\ StopsAt(f, batch, n)
  /\ jobs' = Launched([f[n - 1] EXCEPT !.jobs[batch[n].job].blocked = <<>>], batch[n].job).jobs
  /\ queue' = [f[n - 1] EXCEPT !.jobs[batch[n].job].blocked = <<>>].queue
  /\ ticks' = [ticks EXCEPT ![k] =
       [at |-> "running", time |-> t, batch |-> SubSeq(batch, n + 1, Len(batch)),
        job |-> batch[n].job, slots |-> MissedSlots(f[n - 1], batch[n], t)]]
  /\ slotsRun' = [slotsRun EXCEPT ![batch[n].job] = Append(@, batch[n].at)]

LaunchesNone(k, f, batch) ==
  /\ \A i \in 1 .. Len(batch) : ~Launches(f[i - 1], batch[i])
  /\ jobs' = f[Len(batch)].jobs /\ queue' = f[Len(batch)].queue
  /\ ticks' = [ticks EXCEPT ![k] = NoTick] /\ slotsRun' = slotsRun

\* RunBatch launches the job of the first entry that may be launched, or none.
LEMMA BatchOutcome ==
  ASSUME NEW k, NEW start \in Systems, NEW batch \in Seq(FireEntries), NEW t \in Nat,
         RunBatch(k, start, batch, t)
  PROVE  \E f : /\ Turns(f, start, batch, t)
                /\ LaunchesNone(k, f, batch) \/ \E n \in 1 .. Len(batch) : LaunchesAt(k, f, batch, t, n)
  <1> DEFINE Is(f) == f = [n \in 0 .. Len(batch) |->
                             IF n = 0 THEN start ELSE PassedOver(f[n - 1], batch[n], t)]
             Outcome(f, n) ==
               /\ jobs' = Launched([f[n - 1] EXCEPT !.jobs[batch[n].job].blocked = <<>>], batch[n].job).jobs
               /\ queue' = [f[n - 1] EXCEPT !.jobs[batch[n].job].blocked = <<>>].queue
               /\ ticks' = [ticks EXCEPT ![k] =
                    [at |-> "running", time |-> t, batch |-> SubSeq(batch, n + 1, Len(batch)),
                     job |-> batch[n].job, slots |-> MissedSlots(f[n - 1], batch[n], t)]]
               /\ slotsRun' = [slotsRun EXCEPT ![batch[n].job] = Append(@, batch[n].at)]
             None(f) ==
               /\ jobs' = f[Len(batch)].jobs /\ queue' = f[Len(batch)].queue
               /\ ticks' = [ticks EXCEPT ![k] = NoTick] /\ slotsRun' = slotsRun
             First(f, n) == Launches(f[n - 1], batch[n]) /\ \A h \in 1 .. n - 1 : ~Launches(f[h - 1], batch[h])
             Ends(f) == IF \E i \in 1 .. Len(batch) : Launches(f[i - 1], batch[i])
                        THEN Outcome(f, CHOOSE n \in 1 .. Len(batch) : First(f, n))
                        ELSE None(f)
  <1>1. Ends(CHOOSE f : Is(f))
    BY DEF RunBatch
  <1>2. \E f : Is(f)
    BY TurnsExist DEF Turns
  <1>3. PICK f : Is(f) /\ Ends(f)
    <2> HIDE DEF Is, Ends
    <2> QED BY <1>1, <1>2
  <1>4. Turns(f, start, batch, t)
    BY <1>3 DEF Turns
  <1>5. CASE \A i \in 1 .. Len(batch) : ~Launches(f[i - 1], batch[i])
    <2>1. None(f)
      <3> HIDE DEF Is, None, Outcome, First
      <3> QED BY <1>3, <1>5
    <2>2. LaunchesNone(k, f, batch)
      BY <1>5, <2>1 DEF LaunchesNone
    <2> QED BY <1>4, <2>2
  <1>6. CASE \E i \in 1 .. Len(batch) : Launches(f[i - 1], batch[i])
    <2> DEFINE S == {i \in 1 .. Len(batch) : Launches(f[i - 1], batch[i])}
    <2>1. Len(batch) \in Nat
      BY LenProperties
    <2>2. PICK n \in S : \A i \in S : n <= i
      <3>1. S \in SUBSET Nat /\ S # {}
        BY <1>6, <2>1
      <3> HIDE DEF S
      <3> QED BY <3>1, LeastNumber
    <2>3. \A h \in 1 .. n - 1 : h \in 1 .. Len(batch) /\ ~(n <= h)
      BY <2>1, <2>2
    <2>4. n \in 1 .. Len(batch) /\ First(f, n)
      BY <2>2, <2>3
    <2>5. PICK c \in 1 .. Len(batch) : First(f, c) /\ Outcome(f, c)
      <3>1. Outcome(f, CHOOSE c \in 1 .. Len(batch) : First(f, c))
        <4> HIDE DEF Is, None, Outcome, First
        <4> QED BY <1>3, <1>6
      <3> HIDE DEF Is, None, Outcome, First
      <3> QED BY <2>4, <3>1
    <2>6. LaunchesAt(k, f, batch, t, c)
      BY <2>5 DEF LaunchesAt, StopsAt
    <2> QED BY <1>4, <2>5, <2>6
  <1> QED BY <1>5, <1>6

\* A job is launched.
LEMMA LaunchedFacts ==
  ASSUME NEW js \in [Jobs -> JobRecords], NEW q, NEW j \in Jobs
  PROVE  \E js2 \in [Jobs -> JobRecords] :
           /\ js2 = Launched([jobs |-> js, queue |-> q], j).jobs
           /\ \A i \in Jobs \ {j} : js2[i] = js[i]
           /\ js2[j].there = js[j].there /\ js2[j].enabled = js[j].enabled /\ js2[j].executed
           /\ js2[j].blocked = js[j].blocked /\ js2[j].running = js[j].running + 1
  <1>0. PICK r \in JobRecords : /\ r = [js[j] EXCEPT !.running = @ + 1, !.executed = TRUE]
                               /\ r.there = js[j].there /\ r.enabled = js[j].enabled /\ r.executed
                               /\ r.blocked = js[j].blocked /\ r.running = js[j].running + 1
    <2>1. PICK a : a = js[j] /\ a \in JobRecords
      OBVIOUS
    <2>2. PICK r : r = [a EXCEPT !.running = @ + 1, !.executed = TRUE]
      OBVIOUS
    <2>3. r \in JobRecords /\ r.running = a.running + 1 /\ r.executed /\ r.blocked = a.blocked
      <3>1. r.running = a.running + 1 /\ r.blocked = a.blocked
        BY <2>1, <2>2 DEF JobRecords
      <3>2. r.executed
        BY <2>1, <2>2 DEF JobRecords
      <3>3. r \in JobRecords
        <4>1. PICK x \in Int : x = a.running + 1
          BY <2>1 DEF JobRecords
        <4>2. r = [a EXCEPT !.running = x, !.executed = TRUE]
          BY <2>2, <4>1
        <4> QED BY <2>1, <4>2 DEF JobRecords
      <3> QED BY <3>1, <3>2, <3>3
    <2>4. r.there = a.there /\ r.enabled = a.enabled
      BY <2>1, <2>2 DEF JobRecords
    <2>5. r.executed
      BY <2>3
    <2>6. r.there = js[j].there /\ r.enabled = js[j].enabled
      BY <2>1, <2>4
    <2> QED BY <2>1, <2>2, <2>3, <2>5, <2>6
  <1>1. PICK js2 : js2 = [js EXCEPT ![j] = r]
    OBVIOUS
  <1>2. /\ js2 \in [Jobs -> JobRecords] /\ \A i \in Jobs \ {j} : js2[i] = js[i]
        /\ js2[j].there = js[j].there /\ js2[j].enabled = js[j].enabled /\ js2[j].executed
        /\ js2[j].blocked = js[j].blocked /\ js2[j].running = js[j].running + 1
    BY <1>0, <1>1
  <1>3. js2 = Launched([jobs |-> js, queue |-> q], j).jobs
    BY <1>0, <1>1 DEF Launched
  <1> QED BY <1>2, <1>3

Unblocked(s, j) == [s EXCEPT !.jobs[j].blocked = <<>>]

UnblockedJob(js, q, j, js2) ==
  /\ Sys(js2, q) = Unblocked(Sys(js, q), j)
  /\ js2 \in [Jobs -> JobRecords] /\ \A i \in Jobs \ {j} : js2[i] = js[i]
  /\ js2[j].there = js[j].there /\ js2[j].enabled = js[j].enabled
  /\ js2[j].blocked = <<>> /\ js2[j].running = js[j].running

\* The blocked slots of a job are taken from it.
LEMMA UnblockedFacts ==
  ASSUME NEW js \in [Jobs -> JobRecords], NEW q, NEW j \in Jobs
  PROVE  \E js2 : UnblockedJob(js, q, j, js2)
  <1>1. PICK js2 : js2 = [js EXCEPT ![j].blocked = <<>>]
    OBVIOUS
  <1>2. <<>> \in Seq(Nat)
    OBVIOUS
  <1>3. /\ js2 \in [Jobs -> JobRecords] /\ \A i \in Jobs \ {j} : js2[i] = js[i]
        /\ js2[j].there = js[j].there /\ js2[j].enabled = js[j].enabled
        /\ js2[j].blocked = <<>> /\ js2[j].running = js[j].running
    BY <1>1, <1>2 DEF JobRecords
  <1>4. [jobs |-> js2, queue |-> q] = Unblocked([jobs |-> js, queue |-> q], j)
    BY <1>1 DEF Unblocked
  <1> QED BY <1>3, <1>4 DEF Sys, UnblockedJob

\* The loop of tick up to the next await, or to its end.
LEMMA RunBatchKeeps ==
  ASSUME NEW k \in Ticks, NEW start \in Systems, NEW batch \in Seq(FireEntries), NEW t \in Nat,
         OneEach(batch), ticks \in [Ticks -> TickRecords],
         SlotsKept(start, InLoop(ticks, k, t, batch, 0), slotsRun),
         \A l \in Ticks \ {k} : ticks[l].at # "loop",
         RunBatch(k, start, batch, t)
  PROVE  Scheduled(jobs', queue', ticks', slotsRun') /\ \A l \in Ticks : ticks'[l].at # "loop"
  <1>1. PICK m \in Nat : m = Len(batch)
    BY LenProperties
  <1>0. PICK tk \in [Ticks -> TickRecords] : tk = ticks
    OBVIOUS
  <1>2. PICK sr : tk = ticks /\ sr = slotsRun
    BY <1>0
  <1>3. PICK jj, qq, tt, ss : jj = jobs' /\ qq = queue' /\ tt = ticks' /\ ss = slotsRun'
    OBVIOUS
  <1>4. /\ SlotsKept(start, InLoop(tk, k, t, batch, 0), sr)
        /\ \A l \in Ticks \ {k} : tk[l].at # "loop"
    BY <1>2
  <1>5. PICK f : /\ Turns(f, start, batch, t)
                 /\ LaunchesNone(k, f, batch) \/ \E n \in 1 .. m : LaunchesAt(k, f, batch, t, n)
    BY <1>1, BatchOutcome
  <1>6. CASE LaunchesNone(k, f, batch)
    <2>0. /\ \A i \in 1 .. m : ~Launches(f[i - 1], batch[i])
          /\ jj = f[m].jobs /\ qq = f[m].queue
          /\ tt = [tk EXCEPT ![k] = NoTick] /\ ss = sr
      BY <1>1, <1>2, <1>3, <1>6 DEF LaunchesNone
    <2>1. m \in 0 .. Len(batch)
      BY <1>1
    <2>2. SlotsKept(f[m], InLoop(tk, k, t, batch, m), sr)
      BY <1>1, <1>4, <1>5, <2>0, <2>1, TurnsKeep
    <2>3. PICK c : /\ c = InLoop(tk, k, t, batch, m)
                   /\ c[k] = Loop(t, SubSeq(batch, m + 1, Len(batch)))
                   /\ \A l \in Ticks \ {k} : c[l] = tk[l]
      BY <2>1, InLoopFacts
    <2>4. SubSeq(batch, m + 1, Len(batch)) = <<>>
      BY <1>1, <2>1, Suffix, EmptySeq
    <2>5. c[k].at = "loop" /\ c[k].batch = <<>>
      BY <2>3, <2>4 DEF Loop
    <2>6. Scheduled(jj, qq, c, sr)
      BY <2>0, <2>2, <2>3 DEF SlotsKept
    <2>7. tt \in [Ticks -> TickRecords] /\ tt[k] = NoTick /\ \A l \in Ticks \ {k} : tt[l] = c[l] /\ tt[l] = tk[l]
      <3>1. NoTick \in TickRecords
        BY DEF NoTick, TickRecords
      <3> QED BY <2>0, <2>3, <3>1
    <2>8. Scheduled(jj, qq, tt, sr)
      BY <2>5, <2>6, <2>7, LoopEnds
    <2>9. \A l \in Ticks : tt[l].at # "loop"
      BY <1>4, <2>7 DEF NoTick
    <2> QED BY <1>3, <2>0, <2>8, <2>9
  <1>7. ASSUME NEW n \in 1 .. m, LaunchesAt(k, f, batch, t, n)
        PROVE  Scheduled(jj, qq, tt, ss) /\ \A l \in Ticks : tt[l].at # "loop"
    <2>19. /\ StopsAt(f, batch, n)
           /\ jj = Launched([f[n - 1] EXCEPT !.jobs[batch[n].job].blocked = <<>>], batch[n].job).jobs
           /\ qq = [f[n - 1] EXCEPT !.jobs[batch[n].job].blocked = <<>>].queue
           /\ tt = [tk EXCEPT ![k] =
                     [at |-> "running", time |-> t, batch |-> SubSeq(batch, n + 1, Len(batch)),
                      job |-> batch[n].job, slots |-> MissedSlots(f[n - 1], batch[n], t)]]
           /\ ss = [sr EXCEPT ![batch[n].job] = Append(@, batch[n].at)]
      BY <1>2, <1>3, <1>7 DEF LaunchesAt
    <2>1. PICK p \in 0 .. Len(batch) : p = n - 1 /\ p + 1 = n /\ n \in 1 .. Len(batch)
      BY <1>1
    <2>2. SlotsKept(f[p], InLoop(tk, k, t, batch, p), sr)
      <3>1. \A h \in 1 .. p : ~Launches(f[h - 1], batch[h])
        BY <2>19, <2>1 DEF StopsAt
      <3> QED BY <1>4, <1>5, <2>1, <3>1, TurnsKeep
    <2>0. PICK e : e = batch[n]
      OBVIOUS
    <2>3. PICK r \in Seq(FireEntries), z \in Seq(FireEntries) :
            /\ e = batch[n]
            /\ r = SubSeq(batch, n, Len(batch)) /\ z = SubSeq(batch, n + 1, Len(batch))
            /\ OneEach(z) /\ Range(z) \subseteq Range(r) /\ e \in Range(r)
            /\ e.job \in Jobs /\ e.job \notin JobsIn(z)
            /\ JobsIn(r) \subseteq JobsIn(z) \cup {e.job}
      BY <2>0, <2>1, RestOfBatch
    <2>4. PICK c : /\ c = InLoop(tk, k, t, batch, p)
                   /\ c[k] = Loop(t, SubSeq(batch, p + 1, Len(batch)))
                   /\ \A l \in Ticks \ {k} : c[l] = tk[l]
      BY InLoopFacts
    <2>5. c[k].at = "loop" /\ c[k].batch = r /\ c[k].time = t
      <3>1. c[k] = Loop(t, r)
        BY <2>1, <2>3, <2>4
      <3> QED BY <3>1, LoopFacts
    <2>6. PICK js, q : f[p] = [jobs |-> js, queue |-> q] /\ Scheduled(js, q, c, sr)
      BY <2>2, <2>4 DEF SlotsKept
    <2>7. PICK j \in Jobs : j = e.job
      BY <2>3
    <2>8. js \in [Jobs -> JobRecords]
      BY <2>6 DEF Scheduled
    <2>9. Launches([jobs |-> js, queue |-> q], e)
      BY <2>19, <2>1, <2>3, <2>6 DEF StopsAt
    <2>20. PICK js3 : UnblockedJob(js, q, j, js3)
      BY <2>8, UnblockedFacts
    <2>10. PICK js1 \in [Jobs -> JobRecords] :
             /\ Sys(js1, q) = Unblocked(Sys(js, q), j)
             /\ \A i \in Jobs \ {j} : js1[i] = js[i]
             /\ js1[j].there = js[j].there /\ js1[j].enabled = js[j].enabled
             /\ js1[j].blocked = <<>> /\ js1[j].running = js[j].running
      BY <2>20 DEF UnblockedJob
    <2>11. PICK js2 \in [Jobs -> JobRecords] :
             /\ js2 = Launched([jobs |-> js1, queue |-> q], j).jobs
             /\ \A i \in Jobs \ {j} : js2[i] = js1[i]
             /\ js2[j].there = js1[j].there /\ js2[j].enabled = js1[j].enabled /\ js2[j].executed
             /\ js2[j].blocked = js1[j].blocked /\ js2[j].running = js1[j].running + 1
      BY LaunchedFacts
    <2>12. [f[n - 1] EXCEPT !.jobs[batch[n].job].blocked = <<>>] = [jobs |-> js1, queue |-> q]
      <3>1. f[n - 1] = [jobs |-> js, queue |-> q] /\ batch[n].job = j
        BY <2>1, <2>3, <2>6, <2>7
      <3> QED BY <2>10, <3>1 DEF Unblocked, Sys
    <2>13. jj = js2 /\ qq = q
      <3>1. jj = Launched([jobs |-> js1, queue |-> q], j).jobs
        BY <2>19, <2>3, <2>7, <2>12
      <3>2. qq = [jobs |-> js1, queue |-> q].queue
        BY <2>19, <2>12
      <3> QED BY <2>11, <3>1, <3>2
    <2>14. /\ tt = [l \in Ticks |-> tt[l]]
           /\ \A l \in Ticks \ {k} : tt[l] = tk[l] /\ tt[l] = c[l]
           /\ tt[k] = Running(t, z, e.job, MissedSlots([jobs |-> js, queue |-> q], e, t))
      <3>1. PICK u : u = Running(t, z, e.job, MissedSlots([jobs |-> js, queue |-> q], e, t))
        OBVIOUS
      <3>2. tt = [tk EXCEPT ![k] = u]
        BY <2>19, <2>1, <2>3, <2>6, <3>1 DEF Running
      <3> QED BY <2>4, <3>1, <3>2
    <2>15. ss = [sr EXCEPT ![e.job] = Append(@, e.at)]
      BY <2>19, <2>3
    <2>16. LaunchedJob(js, e.job, js2)
      <3>1. js[j].there /\ js[j].enabled
        BY <2>7, <2>9 DEF Launches
      <3>2. js2[j].there /\ js2[j].enabled /\ js2[j].executed /\ js2[j].blocked = <<>>
        BY <2>10, <2>11, <3>1, Zenon
      <3>3. js2[j].running = js[j].running + 1 /\ \A i \in Jobs \ {j} : js2[i] = js[i]
        BY <2>10, <2>11
      <3> QED BY <2>7, <3>2, <3>3 DEF LaunchedJob
    <2>17. Scheduled(js2, q, tt, ss)
      <3>1. tt[k] = Running(c[k].time, z, e.job, MissedSlots([jobs |-> js, queue |-> q], e, c[k].time))
        BY <2>5, <2>14
      <3>2. TurnsTo(c, k, e, z)
        BY <2>3, <2>5 DEF TurnsTo
      <3>3. tt = [l \in Ticks |-> tt[l]] /\ \A l \in Ticks \ {k} : tt[l] = c[l]
        BY <2>14
      <3>4. Launches(Sys(js, q), e)
        BY <2>9 DEF Sys
      <3>5. TickChanges(c, k, tt, Running(c[k].time, z, e.job, MissedSlots(Sys(js, q), e, c[k].time)))
        BY <3>1, <3>3 DEF TickChanges, Sys
      <3>6. Scheduled(js2, q, tt, SlotAdded(sr, e))
        BY <2>6, <2>16, <3>2, <3>4, <3>5, LaunchKeeps
      <3> QED BY <2>15, <3>6 DEF SlotAdded
    <2>18. \A l \in Ticks : tt[l].at # "loop"
      BY <1>4, <2>14 DEF Running
    <2> QED BY <2>13, <2>17, <2>18
  <1> QED BY <1>1, <1>2, <1>3, <1>5, <1>6, <1>7

-----------------------------------------------------------------------------
(* The actions.                                                            *)

\* Before its first turn, tick k has the whole batch.
LEMMA WholeBatch ==
  ASSUME NEW tk \in [Ticks -> TickRecords], NEW k \in Ticks, NEW t \in Nat,
         NEW b \in Seq(FireEntries)
  PROVE  /\ InLoop(tk, k, t, b, 0) \in [Ticks -> TickRecords]
         /\ InLoop(tk, k, t, b, 0)[k] = Loop(t, b)
         /\ \A l \in Ticks \ {k} : InLoop(tk, k, t, b, 0)[l] = tk[l]
  <1>1. 0 \in 0 .. Len(b) /\ Len(b) \in Nat /\ 0 + 1 = 1
    BY LenProperties
  <1>2. PICK r \in Seq(FireEntries) : r = SubSeq(b, 0 + 1, Len(b))
    BY <1>1, Suffix
  <1>3. Len(r) = Len(b) /\ \A i \in 1 .. Len(b) : r[i] = b[i]
    <2>1. PICK m \in Nat : m = Len(b)
      BY LenProperties
    <2>2. Len(r) = m - 0 /\ \A i \in 1 .. m - 0 : r[i] = b[0 + i]
      BY <1>1, <1>2, <2>1, Suffix
    <2> QED BY <2>1, <2>2
  <1>4. r = b
    BY <1>3, SeqEqual
  <1>5. PICK n \in 0 .. Len(b) : n = 0
    BY <1>1
  <1>6. /\ InLoop(tk, k, t, b, n) \in [Ticks -> TickRecords]
        /\ InLoop(tk, k, t, b, n)[k] = Loop(t, SubSeq(b, n + 1, Len(b)))
        /\ \A l \in Ticks \ {k} : InLoop(tk, k, t, b, n)[l] = tk[l]
    BY InLoopFacts
  <1> QED BY <1>2, <1>4, <1>5, <1>6

\* popDue: the due entries go from the queue to the tick.
LEMMA TickTakes ==
  ASSUME NEW js, NEW q, NEW tk, NEW sr, Scheduled(js, q, tk, sr), NEW k \in Ticks,
         tk[k].at = "off", NEW t \in Nat, NEW D \in SUBSET Range(q), \A e \in D : e.at <= t,
         NEW q2, q2 = Without(q, D), NEW b, b = Without(q, Range(q) \ D)
  PROVE  /\ b \in Seq(FireEntries) /\ OneEach(b) /\ q2 \in Seq(FireEntries)
         /\ Scheduled(js, q2, InLoop(tk, k, t, b, 0), sr)
  <1>1. /\ Structured(q, tk) /\ q \in Seq(FireEntries) /\ Distinct(q) /\ OneEach(q)
        /\ tk \in [Ticks -> TickRecords]
    BY DEF Scheduled, Structured, OneEach
  <1>2. q2 \in Seq(FireEntries) /\ Range(q2) = Range(q) \ D /\ Distinct(q2)
    BY <1>1, RangeOfWithout
  <1>3. b \in Seq(FireEntries) /\ Range(b) = D /\ Distinct(b)
    <2>1. Range(q) \ (Range(q) \ D) = D
      OBVIOUS
    <2> QED BY <1>1, <2>1, RangeOfWithout
  <1>4. OneEach(q2) /\ OneEach(b) /\ JobsIn(q2) \cap JobsIn(b) = {}
    <2>1. \A x, y \in Range(q) : x.job = y.job => x = y
      BY <1>1 DEF OneEach
    <2>2. OneEach(q2)
      BY <1>2, <2>1 DEF OneEach
    <2>3. OneEach(b)
      BY <1>3, <2>1 DEF OneEach
    <2>4. \A x \in Range(q2), y \in Range(b) : x.job # y.job
      BY <1>2, <1>3, <2>1
    <2>5. JobsIn(q2) \cap JobsIn(b) = {}
      BY <2>4 DEF JobsIn
    <2> QED BY <2>2, <2>3, <2>5
  <1>5. PICK tk2 \in [Ticks -> TickRecords] :
          /\ tk2 = InLoop(tk, k, t, b, 0) /\ tk2[k] = Loop(t, b)
          /\ \A l \in Ticks \ {k} : tk2[l] = tk[l]
    BY <1>1, <1>3, WholeBatch
  <1>6. /\ ~Busy(tk2[k]) /\ InHand(tk2[k]) = JobsIn(b) /\ tk2[k].batch = b /\ tk2[k].time = t
        /\ tk2[k].at = "loop"
    BY <1>3, <1>5, LoopFacts
  <1>7. InHand(tk[k]) = {}
    <2>1. tk[k].batch = <<>> /\ ~Busy(tk[k])
      BY <1>1 DEF Structured, TickShaped, Busy
    <2> QED BY <2>1 DEF InHand, JobsIn, Range
  <1>8. JobsIn(q) = JobsIn(q2) \cup JobsIn(b)
    BY <1>2, <1>3 DEF JobsIn
  <1>9. \A l \in Ticks \ {k} : InHand(tk2[l]) = InHand(tk[l]) /\ InHand(tk[l]) \cap JobsIn(q) = {}
    BY <1>1, <1>5 DEF Structured, TickShaped
  <1>10. Structured(q2, tk2)
    <2>1. TickShaped(q2, tk2[k])
      <3>1. JobsIn(q2) \cap InHand(tk2[k]) = {}
        BY <1>4, <1>6
      <3> QED BY <1>3, <1>4, <1>6, <3>1 DEF TickShaped
    <2>2. ASSUME NEW l \in Ticks \ {k} PROVE TickShaped(q2, tk2[l])
      <3>1. TickShaped(q, tk[l]) /\ tk2[l] = tk[l]
        BY <1>1, <1>5 DEF Structured
      <3>2. JobsIn(q2) \cap InHand(tk[l]) = {}
        BY <1>8, <1>9
      <3> QED BY <3>1, <3>2 DEF TickShaped
    <2>3. \A l, n \in Ticks : l # n => InHand(tk2[l]) \cap InHand(tk2[n]) = {}
      <3>1. \A l, n \in Ticks : l # n => InHand(tk[l]) \cap InHand(tk[n]) = {}
        BY <1>1 DEF Structured
      <3>2. \A l \in Ticks \ {k} : InHand(tk2[l]) \cap InHand(tk2[k]) = {}
        BY <1>6, <1>8, <1>9
      <3> QED BY <1>9, <3>1, <3>2
    <2> QED BY <1>2, <1>4, <2>1, <2>2, <2>3 DEF Structured
  <1>11. NoneLost(js, q2, tk2)
    <2> SUFFICES ASSUME NEW j \in CronJobs, js[j].there
                 PROVE  j \in JobsIn(q2) \/ \E l \in Ticks : j \in InHand(tk2[l])
      BY DEF NoneLost
    <2>1. j \in JobsIn(q) \/ \E l \in Ticks : j \in InHand(tk[l])
      BY DEF Scheduled, NoneLost
    <2> QED BY <1>6, <1>7, <1>8, <1>9, <2>1
  <1>12. \A e \in Range(q2) : EntryOK(e, js, sr)
    BY <1>2 DEF Scheduled
  <1>13. \A l \in Ticks : TickOK(tk2[l], js, sr)
    <2>1. TickOK(tk2[k], js, sr)
      BY <1>3, <1>6 DEF TickOK, Scheduled
    <2>2. \A l \in Ticks \ {k} : TickOK(tk2[l], js, sr)
      BY <1>5 DEF Scheduled
    <2> QED BY <2>1, <2>2
  <1>14. Scheduled(js, q2, tk2, sr)
    BY <1>10, <1>11, <1>12, <1>13 DEF Scheduled
  <1> QED BY <1>2, <1>3, <1>4, <1>5, <1>14

\* tick keeps the invariant, up to its first await.
LEMMA TickSchedulerKeeps ==
  ASSUME SchedulerIInv, NEW k \in Ticks, TickScheduler(k)
  PROVE  SchedulerIInv'
  <1>1. PICK js, q, tk, sr : js = jobs /\ q = queue /\ tk = ticks /\ sr = slotsRun
    OBVIOUS
  <1>2. /\ Scheduled(js, q, tk, sr) /\ now \in Nat /\ tk[k].at = "off"
        /\ \A l \in Ticks : tk[l].at # "loop"
    BY <1>1 DEF SchedulerIInv, TickScheduler
  <1>3. PICK D, q2, b : /\ D = {e \in Range(q) : e.at <= now}
                        /\ q2 = Without(q, D) /\ b = Without(q, Range(q) \ D)
    OBVIOUS
  <1>4. /\ b \in Seq(FireEntries) /\ OneEach(b) /\ q2 \in Seq(FireEntries)
        /\ Scheduled(js, q2, InLoop(tk, k, now, b, 0), sr)
    <2>1. D \in SUBSET Range(q) /\ \A e \in D : e.at <= now
      BY <1>3
    <2> QED BY <1>2, <1>3, <2>1, TickTakes
  <1>5. RunBatch(k, [jobs |-> js, queue |-> q2], b, now)
    <2>1. RunBatch(k, [System EXCEPT !.queue = Without(@, D)], Without(queue, Range(queue) \ D), now)
      BY <1>1, <1>3 DEF TickScheduler
    <2>2. [System EXCEPT !.queue = Without(@, D)] = [jobs |-> js, queue |-> q2]
      BY <1>1, <1>3 DEF System
    <2>3. Without(queue, Range(queue) \ D) = b
      BY <1>1, <1>3
    <2> QED BY <2>1, <2>2, <2>3
  <1>6. PICK start : start = [jobs |-> js, queue |-> q2]
    OBVIOUS
  <1>7. start \in Systems /\ SlotsKept(start, InLoop(ticks, k, now, b, 0), slotsRun) /\ RunBatch(k, start, b, now)
    <2>1. js \in [Jobs -> JobRecords]
      BY <1>2 DEF Scheduled
    <2>2. start \in Systems
      BY <1>4, <1>6, <2>1 DEF Systems
    <2>3. SlotsKept(start, InLoop(tk, k, now, b, 0), sr)
      BY <1>4, <1>6 DEF SlotsKept
    <2> QED BY <1>1, <1>5, <1>6, <2>2, <2>3
  <1>8. ticks \in [Ticks -> TickRecords] /\ \A l \in Ticks \ {k} : ticks[l].at # "loop"
    BY <1>1, <1>2 DEF Scheduled, Structured
  <1>9. Scheduled(jobs', queue', ticks', slotsRun') /\ \A l \in Ticks : ticks'[l].at # "loop"
    BY <1>2, <1>4, <1>7, <1>8, RunBatchKeeps
  <1>10. now' = now /\ triggered' = triggered
    BY DEF TickScheduler
  <1> QED BY <1>9, <1>10 DEF SchedulerIInv

\* After the last slot of a job, tick reschedules it and goes on with its batch.
LEMMA NextJobKeeps ==
  ASSUME SchedulerIInv, NEW k \in Ticks, NextJob(k)
  PROVE  SchedulerIInv'
  <1>1. PICK js, q, tk, sr : js = jobs /\ q = queue /\ tk = ticks /\ sr = slotsRun
    OBVIOUS
  <1>2. /\ Scheduled(js, q, tk, sr) /\ now \in Nat /\ triggered \in [Triggers -> SUBSET Meddled]
        /\ \A l \in Ticks : tk[l].at # "loop"
    BY <1>1 DEF SchedulerIInv
  <1>3. tk[k].at = "between" /\ tk[k].slots = <<>> /\ Busy(tk[k])
    BY <1>1 DEF NextJob, Busy
  <1>4. /\ Structured(q, tk) /\ tk \in [Ticks -> TickRecords] /\ TickShaped(q, tk[k])
        /\ js \in [Jobs -> JobRecords] /\ sr \in [Jobs -> Seq(Nat)] /\ q \in Seq(FireEntries)
        /\ RunOK(tk[k], js, sr)
    BY <1>2, <1>3 DEF Scheduled, Structured, TickOK
  <1>5. PICK j \in Jobs, t \in Nat, b \in Seq(FireEntries) : j = tk[k].job /\ t = tk[k].time /\ b = tk[k].batch
    <2>1. tk[k] \in TickRecords /\ tk[k].job \in Jobs
      BY <1>3, <1>4 DEF TickShaped
    <2> QED BY <2>1 DEF TickRecords
  <1>6. /\ js[j].there /\ js[j].executed /\ js[j].blocked = <<>>
        /\ \A x \in Range(sr[j]) : x <= t
        /\ j \in Undelayed => js[j].running = 0 /\ Range(sr[j]) = SlotsIn(0, t)
    <2>1. Range(<<>>) = {}
      BY DEF Range
    <2> QED BY <1>3, <1>4, <1>5, <2>1 DEF RunOK
  <1>7. RunBatch(k, Rescheduled([jobs |-> js, queue |-> q], j, t), b, t)
    <2>1. RunBatch(k, Rescheduled(System, j, t), b, t)
      BY <1>1, <1>5, <1>6 DEF NextJob
    <2>2. System = [jobs |-> js, queue |-> q]
      BY <1>1 DEF System
    <2> QED BY <2>1, <2>2
  <1>0. PICK tk1 \in [Ticks -> TickRecords] : tk1 = tk
    BY <1>4
  <1>8. /\ InLoop(tk1, k, t, b, 0) \in [Ticks -> TickRecords]
        /\ InLoop(tk1, k, t, b, 0)[k] = Loop(t, b)
        /\ \A l \in Ticks \ {k} : InLoop(tk1, k, t, b, 0)[l] = tk1[l]
    BY ONLY WholeBatch, tk1 \in [Ticks -> TickRecords], k \in Ticks, t \in Nat, b \in Seq(FireEntries)
  <1>9. PICK tk2 : /\ tk2 = InLoop(tk, k, t, b, 0)
                   /\ tk2 \in [Ticks -> TickRecords] /\ tk2[k] = Loop(t, b)
                   /\ \A l \in Ticks \ {k} : tk2[l] = tk[l]
    BY <1>0, <1>8
  <1>10. LetsGo(tk, k, j, tk2)
    <2>1. tk2[k].at = "loop" /\ tk2[k].time = t /\ tk2[k].batch = b
      BY <1>9, LoopFacts
    <2>2. OneEach(b) /\ j \notin JobsIn(b)
      BY <1>3, <1>4, <1>5 DEF TickShaped
    <2>3. InHand(tk[k]) = JobsIn(b) \cup {j}
      BY <1>3, <1>5 DEF InHand
    <2> QED BY <1>5, <1>9, <2>1, <2>2, <2>3 DEF LetsGo
  <1>11. SlotsKept(Rescheduled([jobs |-> js, queue |-> q], j, t), tk2, sr)
    <2>1. Blocks(js, j, js) /\ JobOK(j, js, sr)
      BY <1>2, <1>4 DEF Blocks, Scheduled
    <2>2. \A x \in Range(sr[j]) \cup Range(js[j].blocked) : x <= t
      <3>1. Range(js[j].blocked) = {}
        BY <1>6 DEF Range
      <3> QED BY <1>6, <3>1
    <2>3. ~(j \in OnceJobs /\ ~js[j].executed)
      BY <1>6
    <2>4. j \in Undelayed => /\ js[j].running = 0 /\ js[j].blocked = <<>> /\ Range(sr[j]) = SlotsIn(0, t)
      BY <1>6
    <2>5. SlotsDone(j, t, js, sr)
      BY <2>2, <2>3, <2>4 DEF SlotsDone
    <2> QED BY <1>2, <1>10, <2>1, <2>5, Rescheduling
  <1>12. PICK start : start = Rescheduled([jobs |-> js, queue |-> q], j, t)
    OBVIOUS
  <1>13. start \in Systems /\ SlotsKept(start, InLoop(ticks, k, t, b, 0), slotsRun) /\ RunBatch(k, start, b, t)
    <2>1. SlotsKept(start, tk2, sr)
      BY <1>11, <1>12
    <2>2. start \in Systems
      <3>1. start = [jobs |-> start.jobs, queue |-> start.queue]
        BY <2>1 DEF SlotsKept
      <3>2. start.jobs \in [Jobs -> JobRecords] /\ start.queue \in Seq(FireEntries)
        BY <2>1 DEF SlotsKept, Scheduled, Structured
      <3> QED BY <3>1, <3>2 DEF Systems
    <2> QED BY <1>1, <1>7, <1>9, <1>12, <2>1, <2>2
  <1>14. OneEach(b) /\ ticks \in [Ticks -> TickRecords] /\ \A l \in Ticks \ {k} : ticks[l].at # "loop"
    BY <1>1, <1>2, <1>4, <1>5 DEF TickShaped
  <1>15. Scheduled(jobs', queue', ticks', slotsRun') /\ \A l \in Ticks : ticks'[l].at # "loop"
    BY <1>13, <1>14, RunBatchKeeps
  <1>16. now' = now /\ triggered' = triggered
    BY DEF NextJob
  <1> QED BY <1>2, <1>15, <1>16 DEF SchedulerIInv

\* A run of a job ends.
EndedJob(js, j, js2) ==
  /\ js2 \in [Jobs -> JobRecords] /\ \A i \in Jobs \ {j} : js2[i] = js[i]
  /\ js2[j].there = js[j].there /\ js2[j].enabled = js[j].enabled
  /\ js2[j].executed = js[j].executed /\ js2[j].blocked = js[j].blocked
  /\ js2[j].running = js[j].running - 1

\* What the end of a run changes.
LEMMA EndedFacts ==
  ASSUME NEW js \in [Jobs -> JobRecords], NEW j \in Jobs, NEW o \in {"success", "failure"},
         NEW js2, js2 = [js EXCEPT ![j].running = @ - 1, ![j].last = o]
  PROVE  EndedJob(js, j, js2)
  <1>1. PICK a : a = js[j] /\ a \in JobRecords
    OBVIOUS
  <1>2. PICK x \in Int : x = a.running - 1
    BY <1>1 DEF JobRecords
  <1>3. PICK r : r = [a EXCEPT !.running = x, !.last = o]
    OBVIOUS
  <1>4. r \in JobRecords /\ r.running = x /\ r.blocked = a.blocked
    BY <1>1, <1>3 DEF JobRecords
  <1>5. r.there = a.there /\ r.enabled = a.enabled /\ r.executed = a.executed
    BY <1>1, <1>3 DEF JobRecords
  <1>6. js2 = [js EXCEPT ![j] = r]
    BY <1>1, <1>2, <1>3
  <1>7. js2 \in [Jobs -> JobRecords] /\ js2[j] = r /\ \A i \in Jobs \ {j} : js2[i] = js[i]
    BY <1>4, <1>6
  <1>8. js2[j].there = js[j].there /\ js2[j].enabled = js[j].enabled /\ js2[j].executed = js[j].executed
    BY <1>1, <1>5, <1>7
  <1> QED BY <1>1, <1>2, <1>4, <1>7, <1>8 DEF EndedJob

\* No other tick runs the job that a tick runs.
LEMMA OneRunner ==
  ASSUME NEW js, NEW q, NEW tk, NEW sr, Scheduled(js, q, tk, sr), NEW k \in Ticks, Busy(tk[k])
  PROVE  /\ tk[k] \in TickRecords /\ tk[k].job \in Jobs /\ RunOK(tk[k], js, sr)
         /\ \A l \in Ticks \ {k} : Busy(tk[l]) => tk[l].job # tk[k].job
  <1>1. Structured(q, tk) /\ TickShaped(q, tk[k]) /\ tk[k] \in TickRecords /\ TickOK(tk[k], js, sr)
    BY DEF Scheduled, Structured
  <1>2. \A l \in Ticks : Busy(tk[l]) => tk[l].job \in InHand(tk[l])
    BY DEF InHand
  <1>3. \A l \in Ticks \ {k} : InHand(tk[l]) \cap InHand(tk[k]) = {}
    BY <1>1 DEF Structured
  <1>4. tk[k].job \in Jobs /\ RunOK(tk[k], js, sr)
    BY <1>1 DEF TickShaped, TickOK
  <1> QED BY <1>1, <1>2, <1>3, <1>4

\* The run that a tick awaits ends.
LEMMA FinishRunKeeps ==
  ASSUME SchedulerIInv, NEW k \in Ticks, FinishRun(k)
  PROVE  SchedulerIInv'
  <1>1. PICK js, q, tk, sr : js = jobs /\ q = queue /\ tk = ticks /\ sr = slotsRun
    OBVIOUS
  <1>2. /\ Scheduled(js, q, tk, sr) /\ now \in Nat /\ triggered \in [Triggers -> SUBSET Meddled]
        /\ \A l \in Ticks : tk[l].at # "loop"
    BY <1>1 DEF SchedulerIInv
  <1>3. tk[k].at = "running" /\ Busy(tk[k])
    BY <1>1 DEF FinishRun, Busy
  <1>4. PICK j \in Jobs : j = tk[k].job
    BY <1>2, <1>3, OneRunner
  <1>5. /\ tk \in [Ticks -> TickRecords] /\ js \in [Jobs -> JobRecords] /\ sr \in [Jobs -> Seq(Nat)]
        /\ tk[k] \in TickRecords /\ RunOK(tk[k], js, sr) /\ JobOK(j, js, sr)
        /\ \A l \in Ticks \ {k} : Busy(tk[l]) => tk[l].job # j
    BY <1>2, <1>3, <1>4, OneRunner DEF Scheduled, Structured
  <1>6. PICK js2, tk2 : js2 = jobs' /\ tk2 = ticks'
    OBVIOUS
  <1>7. EndedJob(js, j, js2)
    <2>1. PICK ok \in BOOLEAN : jobs' = EndedRun(ticks[k].job, ok)
      BY DEF FinishRun
    <2>2. PICK o \in {"success", "failure"} : o = IF ok THEN "success" ELSE "failure"
      OBVIOUS
    <2>3. js2 = [js EXCEPT ![j].running = @ - 1, ![j].last = o]
      BY <1>1, <1>4, <1>6, <2>1, <2>2 DEF EndedRun
    <2> QED BY <1>5, <2>3, EndedFacts
  <1>8. /\ tk2 \in [Ticks -> TickRecords] /\ \A l \in Ticks \ {k} : tk2[l] = tk[l]
        /\ tk2[k].at = "between" /\ tk2[k].job = j /\ tk2[k].batch = tk[k].batch
        /\ tk2[k].time = tk[k].time /\ tk2[k].slots = tk[k].slots /\ Busy(tk2[k])
    <2>1. tk2 = [tk EXCEPT ![k].at = "between"]
      BY <1>1, <1>6 DEF FinishRun
    <2> QED BY <1>4, <1>5, <2>1 DEF TickRecords, Busy
  <1>9. RunOK(tk2[k], js2, sr)
    <2>1. js2[j].there /\ js2[j].executed /\ js2[j].blocked = <<>>
      <3>1. js[j].there /\ js[j].executed /\ js[j].blocked = <<>>
        BY <1>4, <1>5 DEF RunOK
      <3> QED BY <1>7, <3>1 DEF EndedJob
    <2>2. j \in Undelayed => js2[j].running = 0
      BY <1>3, <1>4, <1>5, <1>7 DEF RunOK, EndedJob
    <2> QED BY <1>4, <1>5, <1>8, <2>1, <2>2 DEF RunOK
  <1>10. JobOK(j, js2, sr)
    <2>1. js2[j].running > 0 => js2[j].executed
      <3>1. js[j].running \in Int
        BY <1>5 DEF JobRecords
      <3>2. js2[j].running > 0 => js[j].running > 0
        BY <1>7, <3>1 DEF EndedJob
      <3> QED BY <1>5, <1>7, <3>2 DEF JobOK, EndedJob
    <2>2. js2[j].there = js[j].there /\ js2[j].enabled = js[j].enabled /\ js2[j].blocked = js[j].blocked
      BY <1>7 DEF EndedJob
    <2> QED BY <1>5, <2>1, <2>2 DEF JobOK
  <1>11. Scheduled(js2, q, tk2, sr)
    <2>1. js2 \in [Jobs -> JobRecords] /\ js2[j].there = js[j].there
      BY <1>7 DEF EndedJob
    <2>2. \A i \in Jobs \ {j} : js2[i] = js[i] /\ sr[i] = sr[i]
      BY <1>7 DEF EndedJob
    <2>3. \A l \in Ticks : tk2[l] = tk[l] \/ /\ tk[l].job = j /\ Busy(tk[l]) /\ Busy(tk2[l])
                                             /\ tk2[l].job = j /\ tk2[l].batch = tk[l].batch
                                             /\ tk2[l].time = tk[l].time
      BY <1>3, <1>4, <1>8
    <2>4. (\A l \in Ticks : Busy(tk[l]) => tk[l].job # j)
            => \A e \in FireEntries : e.job = j /\ EntryOK(e, js, sr) => EntryOK(e, js2, sr)
      BY <1>3, <1>4
    <2>5. \A l \in Ticks : tk[l].job = j /\ Busy(tk[l]) /\ RunOK(tk[l], js, sr) => RunOK(tk2[l], js2, sr)
      BY <1>5, <1>9
    <2>6. Blocks(js, j, js2) /\ SlotsOnlyOf(sr, j, sr)
      BY <1>5, <2>1, <2>2 DEF Blocks, SlotsOnlyOf
    <2>7. HoldOn(tk, j, tk2)
      BY <1>8, <2>3 DEF HoldOn
    <2>8. StillOK(js, tk, sr, j, js2, tk2, sr)
      BY <1>10, <2>4, <2>5 DEF StillOK
    <2> QED BY <1>2, <2>6, <2>7, <2>8, StaysPlaced
  <1>12. \A l \in Ticks : tk2[l].at # "loop"
    BY <1>2, <1>8
  <1>13. now' = now /\ triggered' = triggered /\ queue' = queue /\ slotsRun' = slotsRun
    BY DEF FinishRun
  <1> QED BY <1>1, <1>2, <1>6, <1>11, <1>12, <1>13 DEF SchedulerIInv

\* A tick runs the next slot that its job missed.
LEMMA NextSlotKeeps ==
  ASSUME SchedulerIInv, NEW k \in Ticks, NextSlot(k)
  PROVE  SchedulerIInv'
  <1>1. PICK js, q, tk, sr : js = jobs /\ q = queue /\ tk = ticks /\ sr = slotsRun
    OBVIOUS
  <1>2. /\ Scheduled(js, q, tk, sr) /\ now \in Nat /\ triggered \in [Triggers -> SUBSET Meddled]
        /\ \A l \in Ticks : tk[l].at # "loop"
    BY <1>1 DEF SchedulerIInv
  <1>3. tk[k].at = "between" /\ tk[k].slots # <<>> /\ Busy(tk[k])
    BY <1>1 DEF NextSlot, Busy
  <1>4. PICK j \in Jobs : j = tk[k].job
    BY <1>2, <1>3, OneRunner
  <1>5. /\ tk \in [Ticks -> TickRecords] /\ js \in [Jobs -> JobRecords] /\ sr \in [Jobs -> Seq(Nat)]
        /\ tk[k] \in TickRecords /\ RunOK(tk[k], js, sr) /\ JobOK(j, js, sr)
        /\ \A l \in Ticks \ {k} : Busy(tk[l]) => tk[l].job # j
    BY <1>2, <1>3, <1>4, OneRunner DEF Scheduled, Structured
  <1>6. PICK js2, tk2, sr2 : js2 = jobs' /\ tk2 = ticks' /\ sr2 = slotsRun'
    OBVIOUS
  <1>7. PICK m \in Seq(Nat) : m = tk[k].slots /\ m # <<>>
    BY <1>3, <1>5 DEF TickRecords
  <1>8. PICK h \in Nat, m2 \in Seq(Nat) : h = Head(m) /\ m2 = Tail(m) /\ Range(m) = {h} \cup Range(m2)
                                         /\ (Distinct(m) => h \notin Range(m2) /\ Distinct(m2))
    BY <1>7, HeadAndTail
  <1>9. /\ Distinct(m) /\ \A x \in Range(m) : x <= tk[k].time /\ x \notin Range(sr[j])
        /\ \A x \in Range(sr[j]) : x <= tk[k].time
        /\ js[j].there /\ js[j].executed /\ js[j].blocked = <<>>
        /\ j \in Undelayed => js[j].running = 0 /\ Range(sr[j]) \cup Range(m) = SlotsIn(0, tk[k].time)
    BY <1>3, <1>4, <1>5, <1>7 DEF RunOK
  <1>10. /\ js2 \in [Jobs -> JobRecords] /\ \A i \in Jobs \ {j} : js2[i] = js[i]
         /\ js2[j].there = js[j].there /\ js2[j].enabled = js[j].enabled /\ js2[j].executed
         /\ js2[j].blocked = js[j].blocked /\ js2[j].running = js[j].running + 1
    <2>1. js2 = Launched([jobs |-> js, queue |-> q], j).jobs
      BY <1>1, <1>4, <1>6 DEF NextSlot, System
    <2>3. js \in [Jobs -> JobRecords]
      BY <1>5
    <2>2. PICK js3 \in [Jobs -> JobRecords] :
            /\ js3 = Launched([jobs |-> js, queue |-> q], j).jobs
            /\ \A i \in Jobs \ {j} : js3[i] = js[i]
            /\ js3[j].there = js[j].there /\ js3[j].enabled = js[j].enabled /\ js3[j].executed
            /\ js3[j].blocked = js[j].blocked /\ js3[j].running = js[j].running + 1
      BY ONLY LaunchedFacts, <2>3, j \in Jobs
    <2> QED BY <2>1, <2>2, Zenon
  <1>11. /\ tk2 \in [Ticks -> TickRecords] /\ \A l \in Ticks \ {k} : tk2[l] = tk[l]
         /\ tk2[k].at = "running" /\ tk2[k].job = j /\ tk2[k].batch = tk[k].batch
         /\ tk2[k].time = tk[k].time /\ tk2[k].slots = m2 /\ Busy(tk2[k])
    <2>1. tk2 = [tk EXCEPT ![k].at = "running", ![k].slots = m2]
      BY <1>1, <1>6, <1>7, <1>8 DEF NextSlot
    <2>2. PICK r : r = [tk[k] EXCEPT !.at = "running", !.slots = m2]
      OBVIOUS
    <2>3. r \in TickRecords /\ r.at = "running" /\ r.job = j /\ r.batch = tk[k].batch
          /\ r.time = tk[k].time /\ r.slots = m2
      BY <1>4, <1>5, <2>2 DEF TickRecords
    <2>4. tk2 = [tk EXCEPT ![k] = r]
      BY <1>5, <2>1, <2>2
    <2>5. tk2 \in [Ticks -> TickRecords] /\ tk2[k] = r /\ \A l \in Ticks \ {k} : tk2[l] = tk[l]
      BY <1>5, <2>3, <2>4
    <2> QED BY <2>3, <2>5 DEF Busy
  <1>12. /\ sr2 \in [Jobs -> Seq(Nat)] /\ \A i \in Jobs \ {j} : sr2[i] = sr[i]
         /\ Range(sr2[j]) = Range(sr[j]) \cup {h} /\ Distinct(sr2[j])
    <2>1. sr2 = [sr EXCEPT ![j] = Append(@, h)]
      BY <1>1, <1>4, <1>6, <1>7, <1>8 DEF NextSlot
    <2>2. PICK s \in Seq(Nat) : /\ s = Append(sr[j], h) /\ Range(s) = Range(sr[j]) \cup {h}
                               /\ (Distinct(sr[j]) /\ h \notin Range(sr[j]) => Distinct(s))
      BY <1>5, RangeOfAppend
    <2>3. Distinct(sr[j]) /\ h \notin Range(sr[j])
      BY <1>5, <1>8, <1>9 DEF JobOK
    <2>4. sr2 = [sr EXCEPT ![j] = s]
      BY <2>1, <2>2
    <2> QED BY <1>5, <2>2, <2>3, <2>4
  <1>13. RunOK(tk2[k], js2, sr2)
    <2>1. js2[j].there /\ js2[j].executed /\ js2[j].blocked = <<>>
      BY <1>9, <1>10
    <2>2. \A x \in Range(m2) : x <= tk[k].time /\ x \notin Range(sr2[j])
      BY <1>8, <1>9, <1>12
    <2>3. \A x \in Range(sr2[j]) : x <= tk[k].time
      BY <1>8, <1>9, <1>12
    <2>4. j \in Undelayed => js2[j].running = 1 /\ Range(sr2[j]) \cup Range(m2) = SlotsIn(0, tk[k].time)
      BY <1>8, <1>9, <1>10, <1>12
    <2> QED BY <1>8, <1>9, <1>11, <2>1, <2>2, <2>3, <2>4 DEF RunOK
  <1>14. JobOK(j, js2, sr2)
    <2>1. Range(<<>>) = {} /\ Distinct(<<>>)
      BY DEF Range, Distinct
    <2>2. j \in Undelayed => js2[j].there /\ js2[j].enabled
      BY <1>5, <1>10 DEF JobOK
    <2> QED BY <1>9, <1>10, <1>12, <2>1, <2>2 DEF JobOK
  <1>15. Scheduled(js2, q, tk2, sr2)
    <2>1. \A i \in Jobs \ {j} : js2[i] = js[i] /\ sr2[i] = sr[i]
      BY <1>10, <1>12
    <2>2. \A l \in Ticks : tk2[l] = tk[l] \/ /\ tk[l].job = j /\ Busy(tk[l]) /\ Busy(tk2[l])
                                             /\ tk2[l].job = j /\ tk2[l].batch = tk[l].batch
                                             /\ tk2[l].time = tk[l].time
      BY <1>3, <1>4, <1>11
    <2>3. (\A l \in Ticks : Busy(tk[l]) => tk[l].job # j)
            => \A e \in FireEntries : e.job = j /\ EntryOK(e, js, sr) => EntryOK(e, js2, sr2)
      BY <1>3, <1>4
    <2>4. \A l \in Ticks : tk[l].job = j /\ Busy(tk[l]) /\ RunOK(tk[l], js, sr) => RunOK(tk2[l], js2, sr2)
      BY <1>5, <1>13
    <2>5. Blocks(js, j, js2) /\ SlotsOnlyOf(sr, j, sr2)
      BY <1>10, <1>12 DEF Blocks, SlotsOnlyOf
    <2>6. HoldOn(tk, j, tk2)
      BY <1>11, <2>2 DEF HoldOn
    <2>7. StillOK(js, tk, sr, j, js2, tk2, sr2)
      BY <1>14, <2>3, <2>4 DEF StillOK
    <2> QED BY <1>2, <2>5, <2>6, <2>7, StaysPlaced
  <1>16. \A l \in Ticks : tk2[l].at # "loop"
    BY <1>2, <1>11
  <1>17. now' = now /\ triggered' = triggered /\ queue' = queue
    BY DEF NextSlot
  <1> QED BY <1>1, <1>2, <1>6, <1>15, <1>16, <1>17 DEF SchedulerIInv

\* Somebody triggers or switches a job, or its trigger ends.
LEMMA MeddledKeeps ==
  ASSUME NEW js, NEW q, NEW tk, NEW sr, Scheduled(js, q, tk, sr), NEW j \in Meddled,
         NEW js2, Blocks(js, j, js2), js2[j].blocked = js[j].blocked,
         js[j].executed => js2[j].executed, js2[j].running > 0 => js2[j].executed
  PROVE  Scheduled(js2, q, tk, sr)
  <1>1. j \in Jobs /\ j \notin Undelayed
    BY JobFacts DEF Undelayed
  <1>2. SlotsOnlyOf(sr, j, sr) /\ HoldOn(tk, j, tk)
    BY DEF Scheduled, Structured, SlotsOnlyOf, HoldOn
  <1>3. \A e \in FireEntries : e.job = j /\ EntryOK(e, js, sr) => EntryOK(e, js2, sr)
    BY <1>1 DEF EntryOK
  <1>4. \A l \in Ticks : tk[l].job = j /\ Busy(tk[l]) /\ RunOK(tk[l], js, sr) => RunOK(tk[l], js2, sr)
    BY <1>1 DEF RunOK, Blocks
  <1>5. JobOK(j, js2, sr)
    BY <1>1 DEF Scheduled, JobOK
  <1>6. StillOK(js, tk, sr, j, js2, tk, sr)
    BY <1>3, <1>4, <1>5 DEF StillOK
  <1> QED BY <1>1, <1>2, <1>6, StaysPlaced

\* Somebody triggers a job.
LEMMA TriggerKeeps ==
  ASSUME SchedulerIInv, NEW c \in Triggers, NEW j \in Meddled, Trigger(c, j)
  PROVE  SchedulerIInv'
  <1>1. PICK js, q, tk, sr : js = jobs /\ q = queue /\ tk = ticks /\ sr = slotsRun
    OBVIOUS
  <1>2. /\ Scheduled(js, q, tk, sr) /\ now \in Nat /\ triggered \in [Triggers -> SUBSET Meddled]
        /\ \A l \in Ticks : tk[l].at # "loop"
    BY <1>1 DEF SchedulerIInv
  <1>3. j \in Jobs /\ js \in [Jobs -> JobRecords]
    BY <1>2, JobFacts DEF Scheduled
  <1>4. PICK js2 \in [Jobs -> JobRecords] :
          /\ js2 = Launched([jobs |-> js, queue |-> q], j).jobs
          /\ \A i \in Jobs \ {j} : js2[i] = js[i]
          /\ js2[j].there = js[j].there /\ js2[j].enabled = js[j].enabled /\ js2[j].executed
          /\ js2[j].blocked = js[j].blocked /\ js2[j].running = js[j].running + 1
    BY <1>3, LaunchedFacts
  <1>5. jobs' = js2
    BY <1>1, <1>4 DEF Trigger, System
  <1>6. Blocks(js, j, js2)
    BY <1>4 DEF Blocks
  <1>7. js2[j].executed
    BY <1>4
  <1>8. js2[j].blocked = js[j].blocked
    BY <1>4
  <1>9. Scheduled(js2, q, tk, sr)
    BY <1>2, <1>6, <1>7, <1>8, MeddledKeeps
  <1>10. triggered' \in [Triggers -> SUBSET Meddled]
    BY <1>2 DEF Trigger
  <1>11. now' = now /\ ticks' = ticks /\ queue' = queue /\ slotsRun' = slotsRun
    BY DEF Trigger
  <1> QED BY <1>1, <1>2, <1>5, <1>9, <1>10, <1>11 DEF SchedulerIInv

\* A triggered run ends.
LEMMA FinishTriggerKeeps ==
  ASSUME SchedulerIInv, NEW c \in Triggers, FinishTrigger(c)
  PROVE  SchedulerIInv'
  <1>1. PICK js, q, tk, sr : js = jobs /\ q = queue /\ tk = ticks /\ sr = slotsRun
    OBVIOUS
  <1>2. /\ Scheduled(js, q, tk, sr) /\ now \in Nat /\ triggered \in [Triggers -> SUBSET Meddled]
        /\ \A l \in Ticks : tk[l].at # "loop"
    BY <1>1 DEF SchedulerIInv
  <1>3. PICK j \in triggered[c], ok \in BOOLEAN : jobs' = EndedRun(j, ok)
    BY DEF FinishTrigger
  <1>4. j \in Meddled /\ j \in Jobs /\ js \in [Jobs -> JobRecords] /\ JobOK(j, js, sr)
    BY <1>2, JobFacts DEF Scheduled
  <1>5. PICK js2 : js2 = jobs' /\ EndedJob(js, j, js2)
    <2>1. PICK o \in {"success", "failure"} : o = IF ok THEN "success" ELSE "failure"
      OBVIOUS
    <2>2. PICK js2 : js2 = jobs' /\ js2 = [js EXCEPT ![j].running = @ - 1, ![j].last = o]
      BY <1>1, <1>3, <2>1 DEF EndedRun
    <2>3. EndedJob(js, j, js2)
      BY <1>4, <2>2, EndedFacts
    <2> QED BY <2>2, <2>3
  <1>6. Blocks(js, j, js2)
    BY <1>5 DEF Blocks, EndedJob
  <1>7. js2[j].executed = js[j].executed /\ js2[j].blocked = js[j].blocked
    BY <1>5 DEF EndedJob
  <1>8. js2[j].running > 0 => js2[j].executed
    <2>1. js[j].running \in Int
      BY <1>4 DEF JobRecords
    <2>2. js2[j].running > 0 => js[j].running > 0
      BY <1>5, <2>1 DEF EndedJob
    <2> QED BY <1>4, <1>7, <2>2 DEF JobOK
  <1>9. Scheduled(js2, q, tk, sr)
    BY <1>2, <1>4, <1>6, <1>7, <1>8, MeddledKeeps
  <1>10. triggered' \in [Triggers -> SUBSET Meddled]
    BY <1>2 DEF FinishTrigger
  <1>11. now' = now /\ ticks' = ticks /\ queue' = queue /\ slotsRun' = slotsRun
    BY DEF FinishTrigger
  <1> QED BY <1>1, <1>2, <1>5, <1>9, <1>10, <1>11 DEF SchedulerIInv

\* A job is enabled or disabled.
LEMMA SwitchKeeps ==
  ASSUME SchedulerIInv, NEW j \in Meddled, Switch(j)
  PROVE  SchedulerIInv'
  <1>1. PICK js, q, tk, sr : js = jobs /\ q = queue /\ tk = ticks /\ sr = slotsRun
    OBVIOUS
  <1>2. /\ Scheduled(js, q, tk, sr) /\ now \in Nat /\ triggered \in [Triggers -> SUBSET Meddled]
        /\ \A l \in Ticks : tk[l].at # "loop"
    BY <1>1 DEF SchedulerIInv
  <1>3. j \in Jobs /\ js \in [Jobs -> JobRecords] /\ JobOK(j, js, sr)
    BY <1>2, JobFacts DEF Scheduled
  <1>4. PICK a : a = js[j] /\ a \in JobRecords
    BY <1>3
  <1>5. PICK r : r = [a EXCEPT !.enabled = ~@]
    OBVIOUS
  <1>6. r \in JobRecords /\ r.running = a.running /\ r.blocked = a.blocked
    <2>1. PICK x \in BOOLEAN : x = ~a.enabled
      BY <1>4 DEF JobRecords
    <2>2. r = [a EXCEPT !.enabled = x]
      BY <1>5, <2>1
    <2> QED BY <1>4, <2>2 DEF JobRecords
  <1>7. r.there = a.there /\ r.executed = a.executed
    BY <1>4, <1>5 DEF JobRecords
  <1>8. PICK js2 : js2 = jobs' /\ js2 = [js EXCEPT ![j] = r]
    BY <1>1, <1>3, <1>4, <1>5 DEF Switch
  <1>9. js2 \in [Jobs -> JobRecords] /\ js2[j] = r /\ \A i \in Jobs \ {j} : js2[i] = js[i]
    BY <1>3, <1>6, <1>8
  <1>10. Blocks(js, j, js2)
    BY <1>4, <1>7, <1>9 DEF Blocks
  <1>11. js2[j].executed = js[j].executed
    BY <1>4, <1>7, <1>9
  <1>12. js2[j].blocked = js[j].blocked /\ js2[j].running = js[j].running
    BY <1>4, <1>6, <1>9
  <1>13. js2[j].running > 0 => js2[j].executed
    BY <1>3, <1>11, <1>12 DEF JobOK
  <1>14. Scheduled(js2, q, tk, sr)
    BY <1>2, <1>10, <1>11, <1>12, <1>13, MeddledKeeps
  <1>15. /\ now' = now /\ ticks' = ticks /\ queue' = queue /\ slotsRun' = slotsRun
         /\ triggered' = triggered
    BY DEF Switch
  <1> QED BY <1>1, <1>2, <1>8, <1>14, <1>15 DEF SchedulerIInv

\* A job goes that no tick runs.
LEMMA GoneKeeps ==
  ASSUME NEW js, NEW q, NEW tk, NEW sr, Scheduled(js, q, tk, sr), NEW j \in Meddled,
         \A k \in Ticks : Busy(tk[k]) => tk[k].job # j,
         NEW js2 \in [Jobs -> JobRecords], \A i \in Jobs \ {j} : js2[i] = js[i], ~js2[j].there,
         js2[j].running = js[j].running, js2[j].executed = js[j].executed,
         js2[j].blocked = js[j].blocked,
         NEW q2, q2 = Without(q, {e \in Range(q) : e.job = j})
  PROVE  Scheduled(js2, q2, tk, sr)
  <1>1. j \in Jobs /\ j \notin Undelayed
    BY JobFacts DEF Undelayed
  <1>2. /\ Structured(q, tk) /\ q \in Seq(FireEntries) /\ Distinct(q) /\ OneEach(q)
        /\ tk \in [Ticks -> TickRecords] /\ sr \in [Jobs -> Seq(Nat)]
    BY DEF Scheduled, Structured, OneEach
  <1>3. /\ q2 \in Seq(FireEntries) /\ Range(q2) = Range(q) \ {e \in Range(q) : e.job = j}
        /\ Distinct(q2)
    BY <1>2, RangeOfWithout
  <1>4. JobsIn(q2) = JobsIn(q) \ {j}
    BY <1>3 DEF JobsIn
  <1>5. OneEach(q2)
    BY <1>2, <1>3 DEF OneEach
  <1>6. Structured(q2, tk)
    <2>1. \A l \in Ticks : TickShaped(q2, tk[l])
      BY <1>2, <1>4 DEF Structured, TickShaped
    <2> QED BY <1>2, <1>3, <1>5, <2>1 DEF Structured
  <1>7. NoneLost(js2, q2, tk)
    <2> SUFFICES ASSUME NEW i \in CronJobs, js2[i].there
                 PROVE  i \in JobsIn(q2) \/ \E l \in Ticks : i \in InHand(tk[l])
      BY DEF NoneLost
    <2>1. i # j /\ js[i].there
      BY JobFacts
    <2>2. i \in JobsIn(q) \/ \E l \in Ticks : i \in InHand(tk[l])
      BY <2>1 DEF Scheduled, NoneLost
    <2> QED BY <1>4, <2>1, <2>2
  <1>8. ASSUME NEW e \in FireEntries, EntryOK(e, js, sr) PROVE EntryOK(e, js2, sr)
    <2>1. CASE e.job = j
      BY <1>1, <1>8, <2>1 DEF EntryOK
    <2>2. CASE e.job # j
      <3>1. e.job \in Jobs \ {j}
        BY <2>2 DEF FireEntries
      <3>2. js2[e.job] = js[e.job]
        BY <3>1
      <3> QED BY <1>8, <3>2 DEF EntryOK
    <2> QED BY <2>1, <2>2
  <1>9. \A e \in Range(q2) : EntryOK(e, js2, sr)
    <2>1. \A e \in Range(q) : e \in FireEntries /\ EntryOK(e, js, sr)
      BY <1>2, RangeFacts DEF Scheduled
    <2> QED BY <1>3, <1>8, <2>1
  <1>10. ASSUME NEW l \in Ticks PROVE TickOK(tk[l], js2, sr)
    <2>1. tk[l] \in TickRecords /\ TickOK(tk[l], js, sr) /\ TickShaped(q, tk[l])
      BY <1>2 DEF Structured, Scheduled
    <2>2. \A e \in Range(tk[l].batch) : EntryOK(e, js2, sr)
      <3>1. tk[l].batch \in Seq(FireEntries)
        BY <2>1 DEF TickRecords
      <3>2. \A e \in Range(tk[l].batch) : e \in FireEntries /\ EntryOK(e, js, sr)
        BY <2>1, <3>1, RangeFacts DEF TickOK
      <3> QED BY <1>8, <3>2
    <2>3. ASSUME Busy(tk[l]) PROVE RunOK(tk[l], js2, sr)
      <3>1. tk[l].job \in Jobs \ {j} /\ RunOK(tk[l], js, sr)
        BY <2>1, <2>3 DEF TickShaped, TickOK
      <3>2. js2[tk[l].job] = js[tk[l].job]
        BY <3>1
      <3> QED BY <3>1, <3>2 DEF RunOK
    <2> QED BY <2>2, <2>3 DEF TickOK
  <1>11. \A i \in Jobs : JobOK(i, js2, sr)
    <2>1. JobOK(j, js2, sr)
      BY <1>1 DEF Scheduled, JobOK
    <2>2. ASSUME NEW i \in Jobs \ {j} PROVE JobOK(i, js2, sr)
      <3>1. JobOK(i, js, sr) /\ js2[i] = js[i]
        BY DEF Scheduled
      <3> QED BY <3>1 DEF JobOK
    <2> QED BY <2>1, <2>2
  <1> QED BY <1>2, <1>6, <1>7, <1>9, <1>10, <1>11 DEF Scheduled

\* A job is unregistered while no tick runs it.
LEMMA UnregisterKeeps ==
  ASSUME ~RemoveRunning, SchedulerIInv, NEW j \in Meddled, Unregister(j)
  PROVE  SchedulerIInv'
  <1>1. PICK js, q, tk, sr : js = jobs /\ q = queue /\ tk = ticks /\ sr = slotsRun
    OBVIOUS
  <1>2. /\ Scheduled(js, q, tk, sr) /\ now \in Nat /\ triggered \in [Triggers -> SUBSET Meddled]
        /\ \A l \in Ticks : tk[l].at # "loop"
    BY <1>1 DEF SchedulerIInv
  <1>3. j \in Jobs /\ js \in [Jobs -> JobRecords]
    BY <1>2, JobFacts DEF Scheduled
  <1>4. \A k \in Ticks : Busy(tk[k]) => tk[k].job # j
    BY <1>1 DEF Unregister, Busy
  <1>5. PICK a : a = js[j] /\ a \in JobRecords
    BY <1>3
  <1>6. PICK r : r = [a EXCEPT !.there = FALSE]
    OBVIOUS
  <1>7. r \in JobRecords /\ r.running = a.running /\ r.blocked = a.blocked
    BY <1>5, <1>6 DEF JobRecords
  <1>8. ~r.there /\ r.executed = a.executed
    BY <1>5, <1>6 DEF JobRecords
  <1>9. PICK js2 : js2 = jobs' /\ js2 = [js EXCEPT ![j] = r]
    BY <1>1, <1>3, <1>5, <1>6 DEF Unregister
  <1>10. js2 \in [Jobs -> JobRecords] /\ js2[j] = r /\ \A i \in Jobs \ {j} : js2[i] = js[i]
    BY <1>3, <1>7, <1>9
  <1>11. ~js2[j].there /\ js2[j].executed = js[j].executed
    BY <1>5, <1>8, <1>10
  <1>12. js2[j].running = js[j].running /\ js2[j].blocked = js[j].blocked
    BY <1>5, <1>7, <1>10
  <1>13. PICK q2 : q2 = queue' /\ q2 = Without(q, {e \in Range(q) : e.job = j})
    BY <1>1 DEF Unregister
  <1>14. Scheduled(js2, q2, tk, sr)
    BY <1>2, <1>4, <1>10, <1>11, <1>12, <1>13, GoneKeeps
  <1>15. now' = now /\ ticks' = ticks /\ slotsRun' = slotsRun /\ triggered' = triggered
    BY DEF Unregister
  <1> QED BY <1>1, <1>2, <1>9, <1>13, <1>14, <1>15 DEF SchedulerIInv

\* No step breaks the invariant, while no job is unregistered as it runs.
LEMMA SchedulerNextKeeps ==
  ASSUME ~RemoveRunning, SchedulerIInv, [SchedulerNext]_schedulerVars
  PROVE  SchedulerIInv'
  <1>1. ASSUME NEW k \in Ticks, TickScheduler(k) PROVE SchedulerIInv'
    BY <1>1, TickSchedulerKeeps
  <1>2. ASSUME NEW k \in Ticks, FinishRun(k) PROVE SchedulerIInv'
    BY <1>2, FinishRunKeeps
  <1>3. ASSUME NEW k \in Ticks, NextSlot(k) PROVE SchedulerIInv'
    BY <1>3, NextSlotKeeps
  <1>4. ASSUME NEW k \in Ticks, NextJob(k) PROVE SchedulerIInv'
    BY <1>4, NextJobKeeps
  <1>5. ASSUME NEW c \in Triggers, FinishTrigger(c) PROVE SchedulerIInv'
    BY <1>5, FinishTriggerKeeps
  <1>6. ASSUME NEW c \in Triggers, NEW j \in Meddled, Trigger(c, j) PROVE SchedulerIInv'
    BY <1>6, TriggerKeeps
  <1>7. ASSUME NEW j \in Meddled, Switch(j) PROVE SchedulerIInv'
    BY <1>7, SwitchKeeps
  <1>8. ASSUME NEW j \in Meddled, Unregister(j) PROVE SchedulerIInv'
    BY <1>8, UnregisterKeeps
  <1>9. CASE PassNow
    <2>1. now' \in Nat
      BY <1>9 DEF PassNow, SchedulerIInv
    <2>2. jobs' = jobs /\ queue' = queue /\ ticks' = ticks /\ triggered' = triggered /\ slotsRun' = slotsRun
      BY <1>9 DEF PassNow
    <2> QED BY <2>1, <2>2 DEF SchedulerIInv
  <1>10. CASE UNCHANGED schedulerVars
    BY <1>10 DEF schedulerVars, SchedulerIInv
  <1> QED BY <1>1, <1>2, <1>3, <1>4, <1>5, <1>6, <1>7, <1>8, <1>9, <1>10 DEF SchedulerNext

-----------------------------------------------------------------------------
(* The invariant.                                                          *)

\* Each job is registered once.
LEMMA FirstQueueProperties ==
  ASSUME NEW q \in FirstQueues
  PROVE  /\ q \in Seq(FireEntries) /\ OneEach(q) /\ JobsIn(q) = Jobs
         /\ \A e \in Range(q) : e.job \in Jobs /\ e.at = FirstFire(e.job)
  <1>1. PICK n \in Nat : n = Cardinality(Jobs)
    BY JobFacts, FS_CardinalityType
  <1>2. IsFiniteSet(1 .. n) /\ Cardinality(1 .. n) = n
    BY FS_Interval
  <1>3. ASSUME NEW j \in Jobs
        PROVE  FireEntry(j, FirstFire(j)) \in FireEntries
    <2>1. 0 \in Nat
      OBVIOUS
    <2>2. NextAfter(0) \in Nat /\ OnceAt \in Nat
      BY <2>1, NextAfterProperties, JobFacts
    <2>3. FirstFire(j) \in Nat
      BY <2>2 DEF FirstFire
    <2> QED BY <2>3 DEF FireEntry, FireEntries
  <1>4. q \in [1 .. n -> {FireEntry(j, FirstFire(j)) : j \in Jobs}]
    BY <1>1 DEF FirstQueues
  <1>5. q \in [1 .. n -> FireEntries]
    BY <1>3, <1>4
  <1>6. q \in Seq(FireEntries) /\ DOMAIN q = 1 .. n /\ Len(q) = n
    BY <1>5
  <1>7. \A i \in 1 .. n : q[i].job \in Jobs /\ q[i].at = FirstFire(q[i].job)
    <2> SUFFICES ASSUME NEW i \in 1 .. n PROVE q[i].job \in Jobs /\ q[i].at = FirstFire(q[i].job)
      OBVIOUS
    <2>1. PICK j \in Jobs : q[i] = FireEntry(j, FirstFire(j))
      BY <1>4
    <2>2. q[i].job = j /\ q[i].at = FirstFire(j)
      BY <2>1 DEF FireEntry
    <2> QED BY <2>2
  <1>8. \A j \in Jobs : \E i \in 1 .. n : q[i].job = j
    BY <1>6 DEF FirstQueues
  <1> DEFINE f == [i \in 1 .. n |-> q[i].job]
  <1>9. f \in Injection(1 .. n, Jobs)
    <2>1. f \in [1 .. n -> Jobs]
      BY <1>7
    <2>2. \A j \in Jobs : \E i \in 1 .. n : f[i] = j
      BY <1>8
    <2>3. f \in Surjection(1 .. n, Jobs)
      BY <2>1, <2>2 DEF Surjection
    <2> HIDE DEF f
    <2> QED BY <1>1, <1>2, <2>3, FS_Surjection
  <1>10. \A a, b \in 1 .. n : q[a].job = q[b].job => a = b
    <2>1. \A a, b \in 1 .. n : f[a] = f[b] => a = b
      <3>1. DOMAIN f = 1 .. n
        OBVIOUS
      <3> HIDE DEF f
      <3> QED BY <1>9, <3>1 DEF Injection, IsInjective
    <2> QED BY <2>1
  <1>11. Range(q) = {q[i] : i \in 1 .. n}
    BY <1>6 DEF Range
  <1>12. OneEach(q)
    <2>1. Distinct(q)
      BY <1>6, <1>10 DEF Distinct
    <2>2. \A a, b \in Range(q) : a.job = b.job => a = b
      BY <1>10, <1>11
    <2> QED BY <2>1, <2>2 DEF OneEach
  <1>13. JobsIn(q) = Jobs
    BY <1>7, <1>8, <1>11 DEF JobsIn
  <1>14. \A e \in Range(q) : e.job \in Jobs /\ e.at = FirstFire(e.job)
    BY <1>7, <1>11
  <1> QED BY <1>6, <1>12, <1>13, <1>14

\* The invariant holds when all jobs are registered.
LEMMA SchedulerInitially ==
  ASSUME SchedulerInit
  PROVE  SchedulerIInv
  <1>1. PICK js, q, tk, sr : js = jobs /\ q = queue /\ tk = ticks /\ sr = slotsRun
    OBVIOUS
  <1>2. <<>> \in Seq(Nat) /\ Range(<<>>) = {} /\ Distinct(<<>>)
    BY DEF Range, Distinct
  <1>3. /\ js \in [Jobs -> JobRecords] /\ sr \in [Jobs -> Seq(Nat)]
        /\ \A j \in Jobs : /\ js[j].running = 0 /\ js[j].blocked = <<>> /\ sr[j] = <<>>
                           /\ js[j].there /\ js[j].enabled
    <2>1. PICK r : r = [there |-> TRUE, enabled |-> TRUE, running |-> 0, executed |-> FALSE,
                        blocked |-> <<>>, last |-> "never"]
      OBVIOUS
    <2>2. r \in JobRecords /\ r.running = 0 /\ r.blocked = <<>>
      BY <1>2, <2>1 DEF JobRecords
    <2>3. r.there /\ r.enabled
      BY <2>1
    <2>4. js = [j \in Jobs |-> r] /\ sr = [j \in Jobs |-> <<>>]
      BY <1>1, <2>1 DEF SchedulerInit
    <2> QED BY <1>2, <2>2, <2>3, <2>4
  <1>4. /\ q \in Seq(FireEntries) /\ OneEach(q) /\ JobsIn(q) = Jobs
        /\ \A e \in Range(q) : e.job \in Jobs /\ e.at = FirstFire(e.job)
    BY <1>1, FirstQueueProperties DEF SchedulerInit
  <1>5. /\ tk \in [Ticks -> TickRecords]
        /\ \A k \in Ticks : /\ tk[k].at = "off" /\ tk[k].batch = <<>> /\ ~Busy(tk[k])
                            /\ InHand(tk[k]) = {}
    <2>1. NoTick \in TickRecords /\ NoTick.at = "off" /\ NoTick.batch = <<>>
      BY DEF NoTick, TickRecords
    <2>2. \A k \in Ticks : tk[k] = NoTick
      BY <1>1 DEF SchedulerInit
    <2>3. ~Busy(NoTick)
      BY <2>1 DEF Busy
    <2>4. InHand(NoTick) = {}
      BY <1>2, <2>1, <2>3 DEF InHand, JobsIn
    <2>5. tk \in [Ticks -> TickRecords]
      BY <1>1, <2>1 DEF SchedulerInit
    <2> QED BY <2>1, <2>2, <2>3, <2>4, <2>5
  <1>6. Structured(q, tk)
    <2>1. \A k \in Ticks : TickShaped(q, tk[k])
      BY <1>2, <1>5 DEF TickShaped, OneEach
    <2> QED BY <1>4, <1>5, <2>1 DEF Structured
  <1>7. NoneLost(js, q, tk)
    BY <1>4, JobFacts DEF NoneLost
  <1>8. ASSUME NEW e \in Range(q) PROVE EntryOK(e, js, sr)
    <2>1. PICK j \in Jobs : j = e.job /\ e.at = FirstFire(j)
      BY <1>4
    <2>2. js[j].running = 0 /\ js[j].blocked = <<>> /\ sr[j] = <<>>
      BY <1>3
    <2>3. j \in Undelayed => e.at > 0 /\ e.at % CronPeriod = 0 /\ SlotsIn(0, e.at - 1) = {}
      <3> SUFFICES ASSUME j \in Undelayed
                   PROVE  e.at > 0 /\ e.at % CronPeriod = 0 /\ SlotsIn(0, e.at - 1) = {}
        OBVIOUS
      <3>1. j \notin OnceJobs
        BY JobFacts
      <3>2. PICK z \in Nat : z = 0
        OBVIOUS
      <3>3. /\ NextAfter(z) \in Nat /\ NextAfter(z) > z /\ NextAfter(z) % CronPeriod = 0
            /\ SlotsIn(0, NextAfter(z) - 1) = SlotsIn(0, z)
        BY NextAfterProperties
      <3>4. SlotsIn(0, 0) = {}
        BY DEF SlotsIn
      <3>5. e.at = NextAfter(z)
        BY <2>1, <3>1, <3>2 DEF FirstFire
      <3> QED BY <3>2, <3>3, <3>4, <3>5
    <2>4. \A x \in Range(sr[e.job]) \cup Range(js[e.job].blocked) : x < e.at
      BY <1>2, <2>1, <2>2
    <2> QED BY <1>2, <2>1, <2>2, <2>3, <2>4 DEF EntryOK
  <1>9. \A k \in Ticks : TickOK(tk[k], js, sr)
    BY <1>2, <1>5 DEF TickOK
  <1>10. \A j \in Jobs : JobOK(j, js, sr)
    BY <1>2, <1>3 DEF JobOK
  <1>11. Scheduled(js, q, tk, sr)
    BY <1>3, <1>4, <1>6, <1>7, <1>8, <1>9, <1>10 DEF Scheduled
  <1>12. now \in Nat /\ triggered \in [Triggers -> SUBSET Meddled]
    BY DEF SchedulerInit
  <1> QED BY <1>1, <1>5, <1>11, <1>12 DEF SchedulerIInv

\* The invariant says where each job is.
LEMMA HandledOnce ==
  ASSUME SchedulerIInv
  PROVE  OnePlace
  <1>1. PICK js, q, tk, sr : js = jobs /\ q = queue /\ tk = ticks /\ sr = slotsRun
    OBVIOUS
  <1>2. /\ Scheduled(js, q, tk, sr) /\ Structured(q, tk) /\ NoneLost(js, q, tk)
        /\ q \in Seq(FireEntries) /\ OneEach(q) /\ DOMAIN q = 1 .. Len(q)
    BY <1>1, LenProperties DEF SchedulerIInv, Scheduled, Structured
  <1>3. ASSUME NEW k \in Ticks
        PROVE  tk[k].at \in {"off", "running", "between"} /\ tk[k].batch \in Seq(FireEntries)
               /\ DOMAIN tk[k].batch = 1 .. Len(tk[k].batch)
    <2>1. tk[k] \in TickRecords
      BY <1>2 DEF Structured
    <2>2. tk[k].at # "loop"
      BY <1>1 DEF SchedulerIInv
    <2>3. tk[k].batch \in Seq(FireEntries) /\ tk[k].at \in {"off", "running", "between"}
      BY <2>1, <2>2 DEF TickRecords
    <2> QED BY <2>3, LenProperties
  <1>4. ASSUME NEW j \in Jobs PROVE \A k \in Ticks : k \in Handling(j) <=> j \in InHand(tk[k])
    <2> SUFFICES ASSUME NEW k \in Ticks PROVE k \in Handling(j) <=> j \in InHand(tk[k])
      OBVIOUS
    <2>1. (\E i \in DOMAIN tk[k].batch : tk[k].batch[i].job = j) <=> j \in JobsIn(tk[k].batch)
      BY DEF JobsIn, Range
    <2>2. tk[k].at = "off" => InHand(tk[k]) = {}
      <3>1. tk[k].at = "off" => tk[k].batch = <<>> /\ ~Busy(tk[k])
        BY <1>2 DEF Structured, TickShaped, Busy
      <3>2. JobsIn(<<>>) = {}
        BY DEF JobsIn, Range
      <3> QED BY <3>1, <3>2 DEF InHand
    <2>3. Busy(tk[k]) <=> tk[k].at # "off"
      BY <1>3 DEF Busy
    <2>4. tk[k].at # "off" => (j \in InHand(tk[k]) <=> j \in JobsIn(tk[k].batch) \/ tk[k].job = j)
      BY <2>3 DEF InHand
    <2>5. k \in Handling(j) <=> tk[k].at # "off" /\ (tk[k].job = j \/ j \in JobsIn(tk[k].batch))
      BY <1>1, <2>1 DEF Handling
    <2> QED BY <2>2, <2>4, <2>5
  <1> SUFFICES ASSUME NEW j \in Jobs, js[j].there
               PROVE  /\ Cardinality(InQueue(j)) + Cardinality(Handling(j)) <= 1
                      /\ j \in CronJobs => InQueue(j) \cup Handling(j) # {}
    BY <1>1 DEF OnePlace
  <1>5. InQueue(j) # {} <=> j \in JobsIn(q)
    BY <1>1 DEF InQueue, JobsIn, Range
  <1>6. Handling(j) # {} <=> \E k \in Ticks : j \in InHand(tk[k])
    <2>1. Handling(j) \subseteq Ticks
      BY DEF Handling
    <2> QED BY <1>4, <2>1
  <1>7. \A a, b \in InQueue(j) : a = b
    <2> SUFFICES ASSUME NEW a \in InQueue(j), NEW b \in InQueue(j) PROVE a = b
      OBVIOUS
    <2>1. a \in 1 .. Len(q) /\ b \in 1 .. Len(q) /\ q[a].job = j /\ q[b].job = j
      BY <1>1, <1>2 DEF InQueue
    <2>2. q[a] \in Range(q) /\ q[b] \in Range(q)
      BY <1>2, <2>1 DEF Range
    <2>3. q[a] = q[b]
      BY <1>2, <2>1, <2>2 DEF OneEach
    <2> QED BY <1>2, <2>1, <2>3 DEF OneEach, Distinct
  <1>8. \A k, l \in Handling(j) : k = l
    <2>1. Handling(j) \subseteq Ticks
      BY DEF Handling
    <2>2. \A k, l \in Ticks : k # l => InHand(tk[k]) \cap InHand(tk[l]) = {}
      BY <1>2 DEF Structured
    <2> QED BY <1>4, <2>1, <2>2
  <1>9. InQueue(j) = {} \/ Handling(j) = {}
    <2>1. \A k \in Ticks : JobsIn(q) \cap InHand(tk[k]) = {}
      BY <1>2 DEF Structured, TickShaped
    <2> QED BY <1>5, <1>6, <2>1
  <1>10. Cardinality(InQueue(j)) + Cardinality(Handling(j)) <= 1
    <2>1. PICK a \in {0, 1}, b \in {0, 1} : a = Cardinality(InQueue(j)) /\ b = Cardinality(Handling(j))
      BY <1>7, <1>8, AtMostOne
    <2>2. a = 0 \/ b = 0
      BY <1>9, <2>1, AtMostOne, FS_EmptySet
    <2> QED BY <2>1, <2>2
  <1>11. j \in CronJobs => InQueue(j) \cup Handling(j) # {}
    BY <1>2, <1>5, <1>6 DEF NoneLost
  <1> QED BY <1>10, <1>11

\* The invariant says which slots have run.
LEMMA RunOnce ==
  ASSUME SchedulerIInv
  PROVE  SlotsRunOnce
  <1>1. PICK js, q, tk, sr : js = jobs /\ q = queue /\ tk = ticks /\ sr = slotsRun
    OBVIOUS
  <1>2. /\ sr \in [Jobs -> Seq(Nat)] /\ \A e \in Range(q) : EntryOK(e, js, sr)
        /\ \A j \in Jobs : JobOK(j, js, sr)
    BY <1>1 DEF SchedulerIInv, Scheduled
  <1>3. NoSlotTwice
    <2> SUFFICES ASSUME NEW j \in Jobs PROVE IsInjective(sr[j])
      BY <1>1 DEF NoSlotTwice
    <2>1. sr[j] \in Seq(Nat) /\ Distinct(sr[j])
      BY <1>2 DEF JobOK
    <2>2. DOMAIN sr[j] = 1 .. Len(sr[j])
      BY <2>1, LenProperties
    <2> QED BY <2>1, <2>2 DEF Distinct, IsInjective
  <1>4. RunAllComplete
    <2> SUFFICES ASSUME NEW j \in Undelayed, NEW i \in InQueue(j)
                 PROVE  Range(sr[j]) = SlotsIn(0, q[i].at - 1)
      BY <1>1 DEF RunAllComplete, Undelayed
    <2>1. q[i] \in Range(q) /\ q[i].job = j
      BY <1>1 DEF InQueue, Range
    <2> QED BY <1>2, <2>1 DEF EntryOK
  <1> QED BY <1>3, <1>4 DEF SlotsRunOnce

\* A registered job is in the queue once or in one tick's hands, and every slot of a
\* run-all job is run exactly once, while no job is unregistered as it runs (tick,
\* _missedSlots, _reschedule).
THEOREM RunsEachSlotOnce ==
  ASSUME ~RemoveRunning
  PROVE  SchedulerSpec => [](OnePlace /\ SlotsRunOnce)
  <1>1. SchedulerInit => SchedulerIInv
    BY SchedulerInitially
  <1>2. SchedulerIInv /\ [SchedulerNext]_schedulerVars => SchedulerIInv'
    BY SchedulerNextKeeps
  <1>3. SchedulerIInv => OnePlace /\ SlotsRunOnce
    BY HandledOnce, RunOnce
  <1> QED BY <1>1, <1>2, <1>3, PTL DEF SchedulerSpec
=============================================================================
