---------------------------- MODULE CircuitBreaker ----------------------------
(***************************************************************************)
(* Endpoint breakers (EndpointBreaker.ts) and the scheduler that bounds    *)
(* their probes (ProbeScheduler.ts), both of                               *)
(* src/src/layers/circuit-breaker/engine, under calls that are in flight   *)
(* while the breaker changes its state, operators that override states,    *)
(* and restarts from a snapshot (BreakerRegistry.ts).                      *)
(*                                                                         *)
(* A call is admitted directly (execute, or admit and record) or by a      *)
(* ticket of the scheduler.  Its outcome meets the breaker in whatever     *)
(* state it is then; nothing says in which one the call was admitted.      *)
(* Failures are counted as they are without a window (windowMs 0).         *)
(***************************************************************************)
EXTENDS Integers, Sequences, FiniteSets

CONSTANTS Endpoints, Calls,
          Healing,          \* the endpoints whose backend is well for good at some time
          FailureThreshold, SuccessThreshold,
          ResetTimeout,
          MaxConcurrent, MaxQueued,
          ForcedStates,     \* the states an operator forces
          MaxOverrides,        \* bound: force and restart
          MaxCount          \* bound: where counters of outcomes saturate

ASSUME BreakerAssumption ==
  /\ {FailureThreshold, SuccessThreshold, MaxConcurrent, MaxQueued} \subseteq Nat \ {0}
  /\ {ResetTimeout, MaxOverrides} \subseteq Nat
  /\ Healing \subseteq Endpoints
  /\ MaxCount \in Nat /\ MaxCount >= FailureThreshold /\ MaxCount >= SuccessThreshold

VARIABLES breaker,      \* state, counters, probes in flight, time to the next probe
          doing, target,\* each call's stage and endpoint
          probing,      \* _running of the scheduler
          queued,       \* its queue
          sick,         \* endpoints whose backend may fail (environment)
          overrides

breakerVars == <<breaker, doing, target, probing, queued, sick, overrides>>

NewBreaker == [state |-> "CLOSED", failures |-> 0, successes |-> 0, probes |-> 0, wait |-> 0]

BreakerInit == /\ breaker = [e \in Endpoints |-> NewBreaker]
               /\ doing = [c \in Calls |-> "idle"]
               /\ target \in [Calls -> Endpoints]
               /\ probing = 0
               /\ queued = <<>>
               /\ sick = Endpoints
               /\ overrides = 0

-----------------------------------------------------------------------------
(* The breaker.                                                            *)

Counted(n) == IF n < MaxCount THEN n + 1 ELSE n

\* Mutant: probes that never came back stay counted.
OpenedKeepsProbes(b) == [b EXCEPT !.state = "OPEN", !.wait = ResetTimeout]

\* _transition(OPEN).
Opened(b) == IF b.state = "OPEN" THEN b
             ELSE [b EXCEPT !.state = "OPEN", !.wait = ResetTimeout, !.probes = 0]

\* _maybeHalfOpen.
Current(b) == IF b.state = "OPEN" /\ b.wait = 0
              THEN [b EXCEPT !.state = "HALF_OPEN", !.successes = 0]
              ELSE b

Admits(b) == \/ Current(b).state = "CLOSED"
             \/ Current(b).state = "HALF_OPEN" /\ b.probes < SuccessThreshold

\* What _admit leaves behind, also when it refuses.
Asked(b) == IF Admits(b) /\ Current(b).state = "HALF_OPEN"
            THEN [Current(b) EXCEPT !.probes = @ + 1]
            ELSE Current(b)

Released(b) == [b EXCEPT !.probes = IF @ > 0 THEN @ - 1 ELSE 0]

RecordSuccess(b) ==
  CASE b.state = "HALF_OPEN" /\ b.successes + 1 >= SuccessThreshold ->
         [Released(b) EXCEPT !.successes = Counted(@), !.state = "CLOSED", !.failures = 0]
    [] b.state = "HALF_OPEN" /\ b.successes + 1 < SuccessThreshold ->
         [Released(b) EXCEPT !.successes = Counted(@)]
    [] OTHER -> [b EXCEPT !.failures = 0, !.successes = Counted(@)]

RecordFailure(b) ==
  CASE b.state = "HALF_OPEN" -> [Opened(b) EXCEPT !.successes = 0]
    [] b.state = "CLOSED" /\ b.failures + 1 >= FailureThreshold ->
         [Opened(b) EXCEPT !.successes = 0, !.failures = Counted(@)]
    [] OTHER -> [b EXCEPT !.successes = 0, !.failures = Counted(@)]

Recorded(b, ok) == IF ok THEN RecordSuccess(b) ELSE RecordFailure(b)

-----------------------------------------------------------------------------
(* Calls.                                                                  *)

\* Only a sick backend fails.
Outcomes(c) == IF target[c] \in sick THEN BOOLEAN ELSE {TRUE}

\* admit, refused or not.
Admit(c) ==
  /\ doing[c] = "idle"
  /\ breaker' = [breaker EXCEPT ![target[c]] = Asked(@)]
  /\ doing' = [doing EXCEPT ![c] = IF Admits(breaker[target[c]]) THEN "calling" ELSE "idle"]
  /\ UNCHANGED <<target, probing, queued, sick, overrides>>

Finish(c) ==
  /\ doing[c] = "calling"
  /\ \E ok \in Outcomes(c) : breaker' = [breaker EXCEPT ![target[c]] = Recorded(@, ok)]
  /\ doing' = [doing EXCEPT ![c] = "idle"]
  /\ UNCHANGED <<target, probing, queued, sick, overrides>>

\* schedule: a slot is free, or the call queues, or it is turned away.
Schedule(c) ==
  /\ doing[c] = "idle"
  /\ IF probing < MaxConcurrent
     THEN LET b == breaker[target[c]]
          IN  /\ breaker' = [breaker EXCEPT ![target[c]] = Asked(b)]
              /\ doing' = [doing EXCEPT ![c] = IF Admits(b) THEN "probing" ELSE "idle"]
              /\ probing' = IF Admits(b) THEN probing + 1 ELSE probing
              /\ UNCHANGED queued
     ELSE /\ Len(queued) < MaxQueued
          /\ queued' = Append(queued, c)
          /\ doing' = [doing EXCEPT ![c] = "queued"]
          /\ UNCHANGED <<breaker, probing>>
  /\ UNCHANGED <<target, sick, overrides>>

PumpOnce(s) ==
  LET c == Head(s.queued)
      b == s.breaker[target[c]]
  IN  IF s.queued = <<>> \/ s.probing >= MaxConcurrent THEN s
      ELSE [queued |-> Tail(s.queued),
            breaker |-> [s.breaker EXCEPT ![target[c]] = Asked(b)],
            doing |-> [s.doing EXCEPT ![c] = IF Admits(b) THEN "probing" ELSE "idle"],
            probing |-> IF Admits(b) THEN s.probing + 1 ELSE s.probing]

\* Mutant: the loop ends with the first waiter.
PumpFirst(s) == PumpOnce(s)

\* The loop of pump over the waiters that have not expired: they are asked in
\* turn until the slots are taken.
PumpAll(s) ==
  LET from[n \in 0 .. Len(s.queued)] == IF n = 0 THEN s ELSE PumpOnce(from[n - 1])
  IN  from[Len(s.queued)]

\* pump.  The waiters' deadlines have the order of the queue: the first n of
\* them have expired.
Pump(s, n) ==
  PumpAll([s EXCEPT !.queued = SubSeq(@, n + 1, Len(@)),
                    !.doing = [c \in Calls |-> IF \E i \in 1 .. n : s.queued[i] = c
                                               THEN "idle" ELSE s.doing[c]]])

Becomes(s) == /\ breaker' = s.breaker
              /\ doing' = s.doing
              /\ probing' = s.probing
              /\ queued' = s.queued

SlotFreed(ok) == probing - 1

\* A ticket's outcome: the breaker is told first, then the slot is free.
FinishProbe(c) ==
  /\ doing[c] = "probing"
  /\ \E ok \in Outcomes(c), n \in 0 .. Len(queued) :
       Becomes(Pump([breaker |-> [breaker EXCEPT ![target[c]] = Recorded(@, ok)],
                     doing   |-> [doing EXCEPT ![c] = "idle"],
                     probing |-> SlotFreed(ok),
                     queued  |-> queued], n))
  /\ UNCHANGED <<target, sick, overrides>>

\* pump may be called from a timer as well.
PumpByTimer ==
  /\ \E n \in 1 .. Len(queued) :
       Becomes(Pump([breaker |-> breaker, doing |-> doing, probing |-> probing,
                     queued |-> queued], n))
  /\ UNCHANGED <<target, sick, overrides>>

-----------------------------------------------------------------------------
\* force: the counters stay as they are.
ForceState(e, s) ==
  /\ overrides < MaxOverrides
  /\ s \in ForcedStates
  /\ overrides' = overrides + 1
  /\ breaker' = [breaker EXCEPT ![e] =
       IF s = "OPEN" THEN [Opened(@) EXCEPT !.wait = ResetTimeout] ELSE [@ EXCEPT !.state = s]]
  /\ UNCHANGED <<doing, target, probing, queued, sick>>

\* The process restarts and restores the last snapshot: a snapshot holds
\* everything of a breaker but its probes, and calls are gone.
Restart ==
  /\ overrides < MaxOverrides
  /\ overrides' = overrides + 1
  /\ breaker' = [e \in Endpoints |-> [Current(breaker[e]) EXCEPT !.probes = 0]]
  /\ doing' = [c \in Calls |-> "idle"]
  /\ probing' = 0
  /\ queued' = <<>>
  /\ UNCHANGED <<target, sick>>

BreakerTick ==
  /\ breaker' = [e \in Endpoints |-> [breaker[e] EXCEPT !.wait = IF @ = 0 THEN 0 ELSE @ - 1]]
  /\ UNCHANGED <<doing, target, probing, queued, sick, overrides>>

\* A backend is well from now on; until then it may answer either way.
Recover(e) ==
  /\ e \in sick \cap Healing
  /\ sick' = sick \ {e}
  /\ UNCHANGED <<breaker, doing, target, probing, queued, overrides>>

BreakerNext ==
  \/ \E c \in Calls : Admit(c) \/ Finish(c) \/ Schedule(c) \/ FinishProbe(c)
  \/ PumpByTimer
  \/ \E e \in Endpoints, s \in ForcedStates : ForceState(e, s)
  \/ Restart
  \/ BreakerTick
  \/ \E e \in Endpoints : Recover(e)

\* An endpoint that is well has callers that keep calling, calls come back, and
\* time passes.
BreakerFairness == /\ \A c \in Calls : /\ WF_breakerVars(target[c] \notin sick /\ Admit(c))
                                       /\ WF_breakerVars(Finish(c) \/ FinishProbe(c))
                   /\ WF_breakerVars(BreakerTick)

BreakerSpec == BreakerInit /\ [][BreakerNext]_breakerVars /\ BreakerFairness

-----------------------------------------------------------------------------
InFlight(e) == {c \in Calls : target[c] = e /\ doing[c] \in {"calling", "probing"}}

BreakerTypeOK ==
  /\ breaker \in [Endpoints -> [state : {"CLOSED", "OPEN", "HALF_OPEN"},
                                failures : 0 .. MaxCount, successes : 0 .. MaxCount,
                                probes : 0 .. SuccessThreshold, wait : 0 .. ResetTimeout]]
  /\ doing \in [Calls -> {"idle", "calling", "queued", "probing"}]
  /\ target \in [Calls -> Endpoints]
  /\ \A i \in DOMAIN queued : doing[queued[i]] = "queued"
  /\ Len(queued) <= MaxQueued

\* Fleet-wide, no more probes run than there are slots, and the scheduler's
\* count of them survives every order of outcomes, expiries and refusals.
SlotsCounted == /\ probing = Cardinality({c \in Calls : doing[c] = "probing"})
                /\ probing <= MaxConcurrent

\* No probe waits beside a free slot, even when the breakers of those before it
\* turned them away.
NoIdleSlot == queued # <<>> => probing = MaxConcurrent

\* A half-open breaker never takes a call for a probe in flight that is gone:
\* with no call in flight it admits the next one.
NoPhantomProbe ==
  \A e \in Endpoints : breaker[e].state = "HALF_OPEN"
    => breaker[e].probes <= Cardinality(InFlight(e))

\* Probes are rationed exactly, by the scheduler and by each breaker, whatever
\* operators, restarts and late answers do (pump, _admit, _transition).
ProbesExact == SlotsCounted /\ NoIdleSlot /\ NoPhantomProbe

\* An endpoint whose backend is well for good is reached again, whatever late
\* failures, restarts and operators did to its breaker.
BreakerRecovers ==
  \A e \in Endpoints : e \notin sick ~> breaker[e].state = "CLOSED"
=============================================================================
