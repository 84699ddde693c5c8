----------------------------- MODULE BrokerQueue -----------------------------
(***************************************************************************)
(* The at-least-once queue core (class BrokerQueue of                      *)
(* src/src/layers/message-queue/engine/BrokerQueue.ts), with its delay     *)
(* scheduler, priority heap and consumer groups, used by any number of     *)
(* producers, consumers (MessageQueueEngine.work and workAsync) and group  *)
(* readers.                                                                *)
(*                                                                         *)
(* A message is its seq.  place says which collection holds it, and timer  *)
(* counts down to dueAt (delayed) or to leaseExpiresAt (inFlight).  The    *)
(* n-th delivery of a message has lease n: leaseId is compared only with   *)
(* leases of the same message.  A consumer may use any lease it was ever   *)
(* given, late or twice.                                                   *)
(*                                                                         *)
(* The two heaps pop in an order of their own (PriorityHeap shows that it  *)
(* is not the promised one), so priorities are left out, dequeue takes any *)
(* ready message and a promotion may leave due messages behind.            *)
(***************************************************************************)
EXTENDS Integers, FiniteSets

CONSTANTS MaxMsgs,        \* bound: messages enqueued
          Delays,
          Groups,         \* consumer groups
          HighWatermark,
          Visibility,     \* visibilityTimeoutMs
          MaxDeliveries, BackoffBase, BackoffFactor, BackoffMax,
          Immediate,      \* immediateRedeliveryOnNack
          FetchMax,       \* maxMessages of fetchForGroup
          MaxRevivals     \* bound: requeueDeadLetter per message

Msgs == 0 .. MaxMsgs - 1

Lesser(m, n) == IF m <= n THEN m ELSE n
Greater(m, n) == IF m <= n THEN n ELSE m

\* backoffFor, for a message that was delivered n times.
Backoff(n) == Lesser(BackoffBase * BackoffFactor ^ (n - 1), BackoffMax)

ASSUME BrokerAssumption ==
  /\ MaxMsgs \in Nat
  /\ Delays \subseteq Nat
  /\ HighWatermark \in Nat
  /\ Visibility \in Nat \ {0}
  /\ MaxDeliveries \in Nat \ {0}
  /\ \A n \in 1 .. MaxDeliveries : Backoff(n) \in Nat
  /\ Immediate \in BOOLEAN
  /\ FetchMax \in Nat
  /\ MaxRevivals \in Nat

\* The deliveries a message has had when it was revived r times.
Budget(r) == r * MaxDeliveries

\* No message is leased more often.
MaxLeases == Budget(MaxRevivals + 1)

VARIABLES place, count, timer, revivals,
          issued,     \* leases handed out per message
          held,       \* time left to the holder of each lease, 0 once settled (history)
          acker,      \* the lease that acked a message (history)
          position, committed,
          received    \* what each group was given (history)

groupVars == <<position, committed, received>>
brokerVars == <<place, count, timer, revivals, issued, held, acker, groupVars>>

BrokerInit == /\ place = [m \in Msgs |-> "none"]
              /\ count = [m \in Msgs |-> 0]
              /\ timer = [m \in Msgs |-> 0]
              /\ revivals = [m \in Msgs |-> 0]
              /\ issued = [m \in Msgs |-> 0]
              /\ held = [m \in Msgs |-> [n \in 1 .. MaxLeases |-> 0]]
              /\ acker = [m \in Msgs |-> 0]
              /\ position = [g \in Groups |-> 0]
              /\ committed = [g \in Groups |-> 0]
              /\ received = [g \in Groups |-> {}]

AtPlace(S) == {m \in Msgs : place[m] \in S}

Depth == Cardinality(AtPlace({"ready", "delayed"}))

-----------------------------------------------------------------------------
(* Producers.                                                              *)

Produce(m, d) ==
  /\ \A n \in Msgs : place[n] = "none" <=> n >= m
  /\ Depth < HighWatermark
  /\ place' = [place EXCEPT ![m] = IF d > 0 THEN "delayed" ELSE "ready"]
  /\ timer' = [timer EXCEPT ![m] = d]
  /\ UNCHANGED <<count, revivals, issued, held, acker, groupVars>>

-----------------------------------------------------------------------------
(* Consumers.                                                              *)

\* promoteDelayed, the first thing dequeue and fetchForGroup do: pop the
\* delay heap until its root is not due.  Due messages may be left below it.
Promotions ==
  LET delayed == AtPlace({"delayed"})
      due     == {m \in delayed : timer[m] = 0}
  IN  {[m \in Msgs |-> IF m \in P THEN "ready" ELSE place[m]] :
         P \in {Q \in SUBSET due : due = delayed => Q = due}}

ReadyIn(pl) == {m \in Msgs : pl[m] = "ready"}

Dequeue ==
  \E pl \in Promotions : \E m \in ReadyIn(pl) :
    LET n == issued[m] + 1
    IN  /\ place' = [pl EXCEPT ![m] = "inFlight"]
        /\ count' = [count EXCEPT ![m] = @ + 1]
        /\ timer' = [timer EXCEPT ![m] = Visibility]
        /\ issued' = [issued EXCEPT ![m] = n]
        /\ held' = [held EXCEPT ![m][n] = Visibility]
        /\ UNCHANGED <<revivals, acker, groupVars>>

\* Mutant: the lease id is not compared.
CurrentAnyLease(m, n) == place[m] = "inFlight"

\* The guard of ack and nack.
CurrentLease(m, n) == place[m] = "inFlight" /\ n = issued[m]

LetGo(m, n) == held' = [held EXCEPT ![m][n] = 0]

Ack(m, n) ==
  /\ LetGo(m, n)
  /\ IF CurrentLease(m, n)
     THEN /\ place' = [place EXCEPT ![m] = "done"]
          /\ timer' = [timer EXCEPT ![m] = 0]
          /\ acker' = [acker EXCEPT ![m] = n]
     ELSE UNCHANGED <<place, timer, acker>>
  /\ UNCHANGED <<count, revivals, issued, groupVars>>

Exhausted(m) == count[m] >= MaxDeliveries

Nack(m, n) ==
  /\ LetGo(m, n)
  /\ IF CurrentLease(m, n)
     THEN /\ place' = [place EXCEPT ![m] = CASE Exhausted(m) -> "dead"
                                             [] ~Exhausted(m) /\ Immediate -> "ready"
                                             [] OTHER -> "delayed"]
          /\ timer' = [timer EXCEPT ![m] = IF Exhausted(m) \/ Immediate THEN 0
                                           ELSE Backoff(count[m])]
     ELSE UNCHANGED <<place, timer>>
  /\ UNCHANGED <<count, revivals, issued, acker, groupVars>>

\* Mutant: the last delivery is never given up.
ExpiredRetryable == {m \in AtPlace({"inFlight"}) : timer[m] = 0 /\ ~Exhausted(m)}

Expired == {m \in AtPlace({"inFlight"}) : timer[m] = 0}

\* requeueExpired: always through the backoff, Immediate or not.
RequeueExpired ==
  /\ Expired # {}
  /\ place' = [m \in Msgs |-> CASE m \notin Expired -> place[m]
                                [] m \in Expired /\ Exhausted(m) -> "dead"
                                [] OTHER -> "delayed"]
  /\ timer' = [m \in Msgs |-> IF m \in Expired /\ ~Exhausted(m) THEN Backoff(count[m])
                              ELSE timer[m]]
  /\ UNCHANGED <<count, revivals, issued, held, acker, groupVars>>

RequeueDeadLetter(m) ==
  /\ place[m] = "dead"
  /\ revivals[m] < MaxRevivals
  /\ revivals' = [revivals EXCEPT ![m] = @ + 1]
  /\ place' = [place EXCEPT ![m] = "ready"]
  /\ count' = [count EXCEPT ![m] = 0]
  /\ UNCHANGED <<timer, issued, held, acker, groupVars>>

-----------------------------------------------------------------------------
(* Consumer groups.                                                        *)

\* The first FetchMax ready messages at or after the group's position.
Fetchable(g, pl) ==
  LET C == {m \in ReadyIn(pl) : m >= position[g]}
  IN  {m \in C : Cardinality({n \in C : n < m}) < FetchMax}

\* fetchForGroup: the messages, if any, leave the heap without a lease.
Fetch(g) ==
  \E pl \in Promotions :
    LET T == Fetchable(g, pl)
    IN  /\ place' = [m \in Msgs |-> IF m \in T THEN "fetched" ELSE pl[m]]
        /\ count' = [m \in Msgs |-> IF m \in T THEN count[m] + 1 ELSE count[m]]
        /\ \/ T = {} /\ UNCHANGED position
           \/ \E last \in T : /\ \A m \in T : m <= last
                              /\ position' = [position EXCEPT ![g] = last + 1]
        /\ received' = [received EXCEPT ![g] = @ \cup T]
        /\ UNCHANGED <<timer, revivals, issued, held, acker, committed>>

\* Mutant: the position may lag behind the commit.
CommitOffsetOnly(g, s) ==
  /\ committed' = [committed EXCEPT ![g] = Greater(@, s + 1)]
  /\ UNCHANGED <<place, count, timer, revivals, issued, held, acker,
                 position, received>>

CommitOffset(g, s) ==
  /\ committed' = [committed EXCEPT ![g] = Greater(@, s + 1)]
  /\ position' = [position EXCEPT ![g] = Greater(@, committed'[g])]
  /\ UNCHANGED <<place, count, timer, revivals, issued, held, acker, received>>

SeekTo(g, s) ==
  /\ position' = [position EXCEPT ![g] = s]
  /\ committed' = [committed EXCEPT ![g] = Lesser(@, s)]
  /\ UNCHANGED <<place, count, timer, revivals, issued, held, acker, received>>

-----------------------------------------------------------------------------
Down(t) == IF t = 0 THEN 0 ELSE t - 1

BrokerTick == /\ timer' = [m \in Msgs |-> Down(timer[m])]
              /\ held' = [m \in Msgs |-> [n \in 1 .. MaxLeases |-> Down(held[m][n])]]
              /\ UNCHANGED <<place, count, revivals, issued, acker, groupVars>>

Consume == \E m \in Msgs : \E n \in 1 .. issued[m] : Ack(m, n) \/ Nack(m, n)

GroupNext == \E g \in Groups : \/ Fetch(g)
                               \/ \E s \in Msgs : CommitOffset(g, s) \/ SeekTo(g, s)

BrokerNext == \/ \E m \in Msgs, d \in Delays : Produce(m, d)
              \/ Dequeue
              \/ Consume
              \/ RequeueExpired
              \/ \E m \in Msgs : RequeueDeadLetter(m)
              \/ GroupNext
              \/ BrokerTick

\* Workers keep pulling, time passes and somebody calls requeueExpired again
\* and again; consumers owe nothing: they may crash and never ack or nack.
BrokerFairness == /\ WF_brokerVars(Dequeue)
                  /\ WF_brokerVars(RequeueExpired)
                  /\ WF_brokerVars(BrokerTick)

BrokerSpec == BrokerInit /\ [][BrokerNext]_brokerVars /\ BrokerFairness

-----------------------------------------------------------------------------
Places == {"none", "ready", "delayed", "inFlight", "done", "dead", "fetched"}

BrokerTypeOK == /\ place \in [Msgs -> Places]
                /\ count \in [Msgs -> 0 .. MaxDeliveries]
                /\ timer \in [Msgs -> Nat]
                /\ revivals \in [Msgs -> 0 .. MaxRevivals]
                /\ issued \in [Msgs -> 0 .. MaxLeases]
                /\ held \in [Msgs -> [1 .. MaxLeases -> Nat]]
                /\ acker \in [Msgs -> 0 .. MaxLeases]
                /\ position \in [Groups -> Nat]
                /\ committed \in [Groups -> Nat]
                /\ received \in [Groups -> SUBSET Msgs]

\* The delivery budget: whoever wins between nack and expiry, a message waits
\* for another delivery only with an attempt left, and is dead-lettered only
\* with none left.
DeliveryBudget ==
  \A m \in Msgs :
    /\ place[m] \in {"none", "ready", "delayed"} => count[m] < MaxDeliveries
    /\ place[m] = "dead" => count[m] = MaxDeliveries
    /\ place[m] = "inFlight" => count[m] > 0
    /\ issued[m] <= Budget(revivals[m]) + count[m]

\* A lease number not issued yet is held by nobody.
HeldWereIssued ==
  \A m \in Msgs, n \in 1 .. MaxLeases : held[m][n] > 0 => n <= issued[m]

\* The holder of the latest lease has as long as the queue will wait for it.
LatestLeaseTimed ==
  \A m \in Msgs : \A n \in 1 .. issued[m] :
    held[m][n] > 0 => /\ n = issued[m]
                      /\ place[m] = "inFlight"
                      /\ timer[m] = held[m][n]

BrokerInv == BrokerTypeOK /\ DeliveryBudget /\ HeldWereIssued /\ LatestLeaseTimed

\* While a consumer's visibility lease runs and it has not settled it, the
\* message is not delivered to anybody else, nor can anyone else's late ack,
\* nack or expiry take it away from this consumer.
VisibilityExclusive ==
  \A m \in Msgs : \A n \in 1 .. issued[m] :
    held[m][n] > 0 => CurrentLease(m, n)

\* A message is completed by its latest delivery only: an ack that arrives
\* after the message was requeued and delivered again is void.
AckedByLatest == \A m \in Msgs : place[m] = "done" => acker[m] = issued[m]

\* Late, doubled and missing settlements leave the budget, running leases and
\* completed messages as they are (ack, nack, requeueExpired).
DeliverySafe == BrokerInv /\ VisibilityExclusive /\ AckedByLatest

\* "Committed messages are never redelivered to the group."
CommittedNotRefetched ==
  [][\A g \in Groups : \A m \in received'[g] \ received[g] : m >= committed[g]]_brokerVars

\* Every message is completed, dead-lettered or fetched in the end, even if
\* every consumer crashes -- provided that expired leases are swept.
MessagesSettle ==
  \A m \in Msgs : place[m] \in {"ready", "delayed", "inFlight"}
                    ~> place[m] \in {"done", "dead", "fetched"}

\* The groups' comment: "one logical stream, N consumption progressions": a
\* group's position passes only messages the group was given.
GroupSkipsNothing ==
  [][\A g \in Groups :
       received'[g] # received[g]
         => \A m \in Msgs : position[g] <= m /\ m < position'[g] => m \in received'[g]]_brokerVars
=============================================================================
