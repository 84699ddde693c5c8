------------------------------- MODULE Bulkhead -------------------------------
(***************************************************************************)
(* The bulkhead before a dependency                                        *)
(* (src/src/layers/circuit-breaker/engine/BulkheadSemaphore.ts): a         *)
(* counting semaphore whose waiters queue with a deadline.  No timer       *)
(* watches a deadline: an expired waiter is rejected by the next pump, and *)
(* keeps its place in the queue until then.  A ticket may be released      *)
(* twice, by use() and by its holder.                                      *)
(***************************************************************************)
EXTENDS Integers, Sequences, FiniteSets, Functions, Lists

CONSTANTS Tenants, BulkheadSlots, MaxWaiting, MaxWait

ASSUME BulkheadAssumption == BulkheadSlots \in Nat \ {0} /\ {MaxWaiting, MaxWait} \subseteq Nat

VARIABLES occupied,  \* _running
          waiting,   \* _queue, with the time left to each deadline
          ticket     \* what each tenant holds

bulkheadVars == <<occupied, waiting, ticket>>

BulkheadInit == /\ occupied = 0
                /\ waiting = <<>>
                /\ ticket = [t \in Tenants |-> "none"]

Waiters(w) == {w[i].tenant : i \in DOMAIN w}

InTime(w) == Without(w, {x \in Range(w) : x.left = 0})

\* pump: the expired are rejected, then the oldest get the slots that are free.
HandOut(used, held) ==
  LET live == InTime(waiting)
      free == IF BulkheadSlots > used THEN BulkheadSlots - used ELSE 0
      n    == IF free < Len(live) THEN free ELSE Len(live)
      next == Waiters(SubSeq(live, 1, n))
      gone == Waiters(waiting) \ Waiters(live)
  IN  /\ occupied' = used + n
      /\ waiting' = SubSeq(live, n + 1, Len(live))
      /\ ticket' = [t \in Tenants |-> CASE t \in next -> "live"
                                        [] t \in gone -> "none"
                                        [] OTHER -> held[t]]

\* acquire: a slot is free, or the caller queues; else it is rejected.
AcquireSlot(t) ==
  /\ ticket[t] \in {"none", "spent"}
  /\ \/ /\ occupied < BulkheadSlots
        /\ occupied' = occupied + 1
        /\ ticket' = [ticket EXCEPT ![t] = "live"]
        /\ UNCHANGED waiting
     \/ /\ occupied >= BulkheadSlots
        /\ Len(waiting) < MaxWaiting
        /\ waiting' = Append(waiting, [tenant |-> t, left |-> MaxWait])
        /\ ticket' = [ticket EXCEPT ![t] = "queued"]
        /\ UNCHANGED occupied

\* release: the first one of a ticket frees the slot.
ReleaseSlot(t) ==
  \/ ticket[t] = "live" /\ HandOut(occupied - 1, [ticket EXCEPT ![t] = "spent"])
  \/ ticket[t] = "spent" /\ UNCHANGED bulkheadVars

PumpBulkhead == HandOut(occupied, ticket)

BulkheadTick ==
  /\ waiting' = [i \in DOMAIN waiting |-> [waiting[i] EXCEPT !.left = IF @ = 0 THEN 0 ELSE @ - 1]]
  /\ UNCHANGED <<occupied, ticket>>

BulkheadNext == \/ \E t \in Tenants : AcquireSlot(t) \/ ReleaseSlot(t)
                \/ PumpBulkhead
                \/ BulkheadTick

\* What runs under a ticket settles (use).
BulkheadFairness ==
  \A t \in Tenants : WF_bulkheadVars(ticket[t] = "live" /\ ReleaseSlot(t))

BulkheadSpec == BulkheadInit /\ [][BulkheadNext]_bulkheadVars /\ BulkheadFairness

-----------------------------------------------------------------------------
\* A slot is one tenant's, each waiter has one place, and nobody waits beside a
\* free slot: acquire() cannot overtake the queue (acquire, pump, release).
SlotsExact ==
  /\ ticket \in [Tenants -> {"none", "queued", "live", "spent"}]
  /\ occupied = Cardinality({t \in Tenants : ticket[t] = "live"})
  /\ occupied <= BulkheadSlots
  /\ Waiters(waiting) = {t \in Tenants : ticket[t] = "queued"}
  /\ Len(waiting) = Cardinality(Waiters(waiting)) /\ Len(waiting) <= MaxWaiting
  /\ waiting # <<>> => occupied = BulkheadSlots

\* A slot goes to the waiter that came first among those still in time, never
\* to one whose deadline has passed (pump).
SlotsInTurn ==
  [][\A i \in DOMAIN waiting : ticket'[waiting[i].tenant] = "live"
       => /\ waiting[i].left > 0
          /\ \A j \in 1 .. i : waiting[j].left > 0 => ticket'[waiting[j].tenant] = "live"]_bulkheadVars

\* A waiter gets a slot or is rejected, as long as those who hold one come back.
TenantsAnswered == \A t \in Tenants : ticket[t] = "queued" ~> ticket[t] # "queued"
=============================================================================
