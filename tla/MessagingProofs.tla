-------------------------- MODULE MessagingProofs ---------------------------
(***************************************************************************)
(*  What queues and consumers of messages keep, for any number of          *)
(*  messages, consumers and failures: the broker queue, the heap beneath   *)
(*  queues, the write queue of a transport, the inbox and the exactly-     *)
(*  once sink. The five share no state; each part of the module is about   *)
(*  one of them.                                                           *)
(***************************************************************************)
EXTENDS BrokerQueue, PriorityHeap, WriteQueue, Inbox, ExactlyOnceSink, DataLemmas

-----------------------------------------------------------------------------
(***************************************************************************)
(*  The broker queue keeps its budget and its leases, for any number of    *)
(*  messages, groups and revivals, and any timing.                         *)
(*                                                                         *)
(*  The invariant speaks of one message at a time: a lease that still      *)
(*  runs is the latest, and its message is in flight with the same time    *)
(*  left; a message that is done was acked by its latest lease and is      *)
(*  never leased again. A step changes few messages, and the others are    *)
(*  as they were.                                                          *)
(*                                                                         *)
(*  What a group has committed is never above the position it fetches      *)
(*  from, so what it fetches is not committed.                             *)
(***************************************************************************)

MsgOK(m) ==
  /\ place[m] \in {"none", "ready", "delayed"} => count[m] < MaxDeliveries
  /\ place[m] = "dead" => count[m] = MaxDeliveries
  /\ place[m] = "inFlight" => count[m] > 0
  /\ issued[m] <= Budget(revivals[m]) + count[m]
  /\ \A n \in 1 .. MaxLeases :
       held[m][n] > 0 => n = issued[m] /\ place[m] = "inFlight" /\ timer[m] = held[m][n]
  /\ place[m] = "done" => acker[m] = issued[m]

SafeInv == BrokerTypeOK /\ \A m \in Msgs : MsgOK(m)

-----------------------------------------------------------------------------
(* Facts about constants, and about one message.                           *)

LEMMA Constants ==
  /\ MaxDeliveries \in Nat /\ MaxDeliveries > 0
  /\ Visibility \in Nat /\ Visibility > 0
  /\ MaxRevivals \in Nat /\ Delays \subseteq Nat
BY BrokerAssumption

LEMMA LeasesSuffice ==
  ASSUME NEW r \in 0 .. MaxRevivals, NEW c \in 0 .. MaxDeliveries
  PROVE  /\ Budget(r) \in Nat
         /\ Budget(r) + c <= MaxLeases
         /\ MaxLeases \in Nat
         /\ Budget(r + 1) = Budget(r) + MaxDeliveries
<1> DEFINE rest == MaxRevivals - r
<1>1. MaxRevivals + 1 = r + rest + 1 /\ rest \in Nat /\ r \in Nat
  BY Constants
<1> HIDE DEF rest
<1>2. \A x, y, d \in Nat : /\ (x + y + 1) * d = x * d + y * d + d
                           /\ (x + 1) * d = x * d + d
                           /\ x * d \in Nat /\ y * d \in Nat
  OBVIOUS
<1>3. MaxLeases = r * MaxDeliveries + rest * MaxDeliveries + MaxDeliveries
  BY <1>1, <1>2, Constants DEF MaxLeases, Budget
<1>4. /\ r * MaxDeliveries \in Nat /\ rest * MaxDeliveries \in Nat
      /\ (r + 1) * MaxDeliveries = r * MaxDeliveries + MaxDeliveries
  BY <1>1, <1>2, Constants
<1> HIDE DEF MaxLeases
<1> QED
  BY <1>3, <1>4, Constants DEF Budget

LEMMA Typed ==
  ASSUME BrokerTypeOK, NEW k \in Msgs
  PROVE  /\ place[k] \in Places
         /\ count[k] \in 0 .. MaxDeliveries
         /\ timer[k] \in Nat
         /\ revivals[k] \in 0 .. MaxRevivals
         /\ issued[k] \in 0 .. MaxLeases
         /\ held[k] \in [1 .. MaxLeases -> Nat]
         /\ acker[k] \in 0 .. MaxLeases
         /\ Budget(revivals[k]) \in Nat
         /\ MaxLeases \in Nat
<1>1. revivals[k] \in 0 .. MaxRevivals
  BY DEF BrokerTypeOK
<1>2. Budget(revivals[k]) \in Nat /\ MaxLeases \in Nat
  BY <1>1, LeasesSuffice, Constants
<1> QED
  BY <1>1, <1>2 DEF BrokerTypeOK

\* A message of which nothing changes stays as it should be.
LEMMA LeaseKept ==
  ASSUME NEW k \in Msgs, MsgOK(k),
         place'[k] = place[k], count'[k] = count[k], timer'[k] = timer[k],
         revivals'[k] = revivals[k], issued'[k] = issued[k], held'[k] = held[k],
         acker'[k] = acker[k]
  PROVE  MsgOK(k)'
BY DEF MsgOK, MaxLeases, Budget

\* A message that is not in flight runs no lease.
LEMMA NoneRuns ==
  ASSUME SafeInv, NEW k \in Msgs, place[k] # "inFlight", NEW n \in 1 .. MaxLeases
  PROVE  held[k][n] = 0
BY Typed DEF SafeInv, MsgOK

\* Promoting makes delayed messages ready, and nothing else.
LEMMA PromotionsPromote ==
  ASSUME place \in [Msgs -> Places], NEW pl \in Promotions
  PROVE  /\ pl \in [Msgs -> Places]
         /\ \A m \in Msgs : \/ pl[m] = place[m]
                            \/ place[m] = "delayed" /\ pl[m] = "ready"
BY DEF Promotions, AtPlace, Places

\* A message that is promoted, and otherwise as it was, is as it should be.
LEMMA Promoted ==
  ASSUME SafeInv, NEW k \in Msgs,
         place'[k] = place[k] \/ (place[k] = "delayed" /\ place'[k] = "ready"),
         count'[k] = count[k], timer'[k] = timer[k], revivals'[k] = revivals[k],
         issued'[k] = issued[k], held'[k] = held[k], acker'[k] = acker[k]
  PROVE  MsgOK(k)'
<1>1. CASE place'[k] = place[k]
  BY <1>1, LeaseKept DEF SafeInv
<1>2. CASE place[k] = "delayed" /\ place'[k] = "ready"
  <2>1. \A n \in 1 .. MaxLeases : held'[k][n] = 0
    BY <1>2, NoneRuns
  <2> QED
    BY <1>2, <2>1 DEF SafeInv, MsgOK, MaxLeases, Budget
<1> QED
  BY <1>1, <1>2

-----------------------------------------------------------------------------
(* The steps.                                                              *)

LEMMA SafeInitially == BrokerInit => SafeInv
<1> SUFFICES ASSUME BrokerInit PROVE SafeInv
  OBVIOUS
<1>1. /\ MaxLeases \in Nat /\ Budget(0) \in Nat
      /\ 0 \in 0 .. MaxLeases /\ 0 \in 0 .. MaxRevivals /\ 0 \in 0 .. MaxDeliveries
  BY LeasesSuffice, Constants
<1>2. [n \in 1 .. MaxLeases |-> 0] \in [1 .. MaxLeases -> Nat]
  OBVIOUS
<1>3. BrokerTypeOK
  BY <1>1, <1>2 DEF BrokerInit, BrokerTypeOK, Places
<1>4. ASSUME NEW k \in Msgs PROVE MsgOK(k)
  BY <1>1, Constants DEF BrokerInit, MsgOK
<1> QED
  BY <1>3, <1>4 DEF SafeInv

LEMMA ProduceKeepsSafe ==
  ASSUME SafeInv, NEW m \in Msgs, NEW d \in Delays, Produce(m, d)
  PROVE  SafeInv'
<1>1. place[m] = "none"
  BY DEF Produce, Msgs
<1>2. BrokerTypeOK'
  BY Constants DEF SafeInv, BrokerTypeOK, Produce, groupVars, Places, MaxLeases, Budget
<1>3. ASSUME NEW k \in Msgs PROVE MsgOK(k)'
  <2>1. CASE k = m
    <3>1. /\ place'[m] \in {"delayed", "ready"} /\ count'[m] = count[m] /\ issued'[m] = issued[m]
          /\ revivals'[m] = revivals[m] /\ held'[m] = held[m]
      BY DEF Produce, SafeInv, BrokerTypeOK
    <3> QED
      BY <1>1, <2>1, <3>1, NoneRuns DEF SafeInv, MsgOK, MaxLeases, Budget
  <2>2. CASE k # m
    BY <2>2, LeaseKept DEF Produce, SafeInv, BrokerTypeOK
  <2> QED
    BY <2>1, <2>2
<1> QED
  BY <1>2, <1>3 DEF SafeInv

\* A message that is ready, or may be promoted, runs no lease: the new one is
\* its only one.
LEMMA DequeueKeepsSafe ==
  ASSUME SafeInv, Dequeue
  PROVE  SafeInv'
<1>1. PICK pl \in Promotions : \E m \in ReadyIn(pl) :
        LET n == issued[m] + 1
        IN  /\ place' = [pl EXCEPT ![m] = "inFlight"]
            /\ count' = [count EXCEPT ![m] = @ + 1]
            /\ timer' = [timer EXCEPT ![m] = Visibility]
            /\ issued' = [issued EXCEPT ![m] = n]
            /\ held' = [held EXCEPT ![m][n] = Visibility]
            /\ UNCHANGED <<revivals, acker, groupVars>>
  BY DEF Dequeue
<1>2. PICK m \in ReadyIn(pl) :
        /\ place' = [pl EXCEPT ![m] = "inFlight"]
        /\ count' = [count EXCEPT ![m] = count[m] + 1]
        /\ timer' = [timer EXCEPT ![m] = Visibility]
        /\ issued' = [issued EXCEPT ![m] = issued[m] + 1]
        /\ held' = [held EXCEPT ![m] = [held[m] EXCEPT ![issued[m] + 1] = Visibility]]
        /\ UNCHANGED <<revivals, acker, groupVars>>
  BY <1>1
<1>3. /\ pl \in [Msgs -> Places]
      /\ \A k \in Msgs : pl[k] = place[k] \/ (place[k] = "delayed" /\ pl[k] = "ready")
      /\ m \in Msgs /\ place[m] \in {"ready", "delayed"}
  BY PromotionsPromote DEF SafeInv, BrokerTypeOK, ReadyIn
<1>4. /\ count[m] + 1 \in 0 .. MaxDeliveries /\ count[m] + 1 > 0
      /\ issued[m] + 1 <= Budget(revivals[m]) + (count[m] + 1)
  <2>1. count[m] < MaxDeliveries /\ issued[m] <= Budget(revivals[m]) + count[m]
    BY <1>3 DEF SafeInv, MsgOK
  <2>2. PICK c \in Nat, b \in Nat, i \in Nat, d \in Nat :
          c = count[m] /\ b = Budget(revivals[m]) /\ i = issued[m] /\ d = MaxDeliveries
    BY <1>3, Typed, Constants DEF SafeInv
  <2> QED BY ONLY <2>1, <2>2
<1>5. issued[m] + 1 \in 1 .. MaxLeases
  <2>1. PICK c \in 0 .. MaxDeliveries, r \in 0 .. MaxRevivals, i \in Nat :
          c = count[m] + 1 /\ r = revivals[m] /\ i = issued[m]
    BY <1>3, <1>4, Typed DEF SafeInv
  <2>2. i + 1 <= Budget(r) + c
    BY ONLY <1>4, <2>1
  <2>3. Budget(r) \in Nat /\ Budget(r) + c <= MaxLeases /\ MaxLeases \in Nat
    BY LeasesSuffice
  <2>4. PICK b \in Nat, l \in Nat, k \in Nat : b = Budget(r) /\ l = MaxLeases /\ k = c
    BY <2>3, Constants
  <2> QED BY ONLY <2>1, <2>2, <2>3, <2>4
<1>6. BrokerTypeOK'
  <2>1. held' \in [Msgs -> [1 .. MaxLeases -> Nat]]
    <3>1. [held[m] EXCEPT ![issued[m] + 1] = Visibility] \in [1 .. MaxLeases -> Nat]
      BY <1>3, <1>5, Typed, Constants DEF SafeInv
    <3> QED
      BY <1>2, <3>1 DEF SafeInv, BrokerTypeOK
  <2>2. place' \in [Msgs -> Places]
    BY <1>2, <1>3 DEF Places
  <2>3. /\ count' \in [Msgs -> 0 .. MaxDeliveries] /\ timer' \in [Msgs -> Nat]
        /\ issued' \in [Msgs -> 0 .. MaxLeases]
    <3>1. count' \in [Msgs -> 0 .. MaxDeliveries]
      BY <1>2, <1>4 DEF SafeInv, BrokerTypeOK
    <3>2. timer' \in [Msgs -> Nat]
      BY <1>2, Constants DEF SafeInv, BrokerTypeOK
    <3>3. issued[m] + 1 \in 0 .. MaxLeases
      BY <1>3, <1>5, Typed DEF SafeInv
    <3>4. issued' \in [Msgs -> 0 .. MaxLeases]
      BY <1>2, <3>3 DEF SafeInv, BrokerTypeOK
    <3> QED
      BY <3>1, <3>2, <3>4
  <2> QED
    BY <1>2, <2>1, <2>2, <2>3 DEF SafeInv, BrokerTypeOK, groupVars, MaxLeases, Budget
<1>7. MsgOK(m)'
  <2>1. /\ place'[m] = "inFlight" /\ count'[m] = count[m] + 1 /\ timer'[m] = Visibility
        /\ issued'[m] = issued[m] + 1 /\ revivals'[m] = revivals[m]
        /\ held'[m] = [held[m] EXCEPT ![issued[m] + 1] = Visibility]
    BY <1>2, <1>3 DEF SafeInv, BrokerTypeOK
  <2>2. ASSUME NEW n \in 1 .. MaxLeases, held'[m][n] > 0
        PROVE  n = issued[m] + 1 /\ held'[m][n] = Visibility
    <3>1. held[m] \in [1 .. MaxLeases -> Nat] /\ held[m][n] = 0
      BY <1>3, Typed, NoneRuns DEF SafeInv
    <3>2. held'[m][n] = IF n = issued[m] + 1 THEN Visibility ELSE held[m][n]
      BY <1>5, <2>1, <3>1
    <3> QED
      BY <2>2, <3>1, <3>2
  <2> QED
    BY <1>4, <2>1, <2>2 DEF MsgOK, MaxLeases, Budget
<1>8. ASSUME NEW k \in Msgs, k # m PROVE MsgOK(k)'
  BY <1>2, <1>3, <1>8, Promoted DEF SafeInv, BrokerTypeOK
<1> QED
  BY <1>6, <1>7, <1>8 DEF SafeInv

\* What an ack or a nack with any lease does to the leases.
LEMMA LetGoFrees ==
  ASSUME SafeInv, NEW m \in Msgs, NEW n \in 1 .. issued[m], LetGo(m, n)
  PROVE  /\ held' \in [Msgs -> [1 .. MaxLeases -> Nat]]
         /\ \A i \in 1 .. MaxLeases : held'[m][i] = IF i = n THEN 0 ELSE held[m][i]
         /\ \A k \in Msgs \ {m} : held'[k] = held[k]
<1>1. n \in 1 .. MaxLeases
  BY Typed DEF SafeInv
<1>2. held' = [held EXCEPT ![m] = [held[m] EXCEPT ![n] = 0]]
  BY DEF LetGo
<1>3. [held[m] EXCEPT ![n] = 0] \in [1 .. MaxLeases -> Nat]
  BY <1>1, Typed DEF SafeInv
<1>4. held' \in [Msgs -> [1 .. MaxLeases -> Nat]]
  BY <1>2, <1>3 DEF SafeInv, BrokerTypeOK
<1>5. held'[m] = [held[m] EXCEPT ![n] = 0] /\ \A k \in Msgs \ {m} : held'[k] = held[k]
  BY <1>2 DEF SafeInv, BrokerTypeOK
<1> QED
  BY <1>1, <1>4, <1>5, Typed DEF SafeInv

\* A settlement with the current lease leaves none running; one with another
\* lease leaves the message as it was.
LEMMA SettledSafely ==
  ASSUME SafeInv, NEW m \in Msgs, NEW n \in 1 .. issued[m], LetGo(m, n),
         count' = count, revivals' = revivals, issued' = issued,
         \A k \in Msgs \ {m} : /\ place'[k] = place[k] /\ timer'[k] = timer[k]
                               /\ acker'[k] = acker[k],
         \/ CurrentLease(m, n) /\ \/ place'[m] = "done" /\ acker'[m] = n
                                  \/ place'[m] = "dead" /\ Exhausted(m)
                                  \/ place'[m] \in {"ready", "delayed"} /\ ~Exhausted(m)
         \/ ~CurrentLease(m, n) /\ place'[m] = place[m] /\ timer'[m] = timer[m]
                                /\ acker'[m] = acker[m]
  PROVE  \A k \in Msgs : MsgOK(k)'
<1>1. ASSUME NEW k \in Msgs, k # m PROVE MsgOK(k)'
  BY <1>1, LetGoFrees, LeaseKept DEF SafeInv
<1>2. CASE CurrentLease(m, n)
  <2>1. /\ n = issued[m] /\ issued[m] \in Nat /\ count[m] \in 0 .. MaxDeliveries
        /\ \A i \in 1 .. MaxLeases : held'[m][i] = 0
    <3>1. n = issued[m] /\ issued[m] \in Nat /\ count[m] \in 0 .. MaxDeliveries
      BY <1>2, Typed DEF SafeInv, CurrentLease
    <3>2. ASSUME NEW i \in 1 .. MaxLeases PROVE held'[m][i] = 0
      <4>1. held'[m][i] = IF i = n THEN 0 ELSE held[m][i]
        BY LetGoFrees
      <4>2. held[m][i] \in Nat /\ (held[m][i] > 0 => i = issued[m])
        BY Typed DEF SafeInv, MsgOK
      <4> QED
        BY <3>1, <4>1, <4>2
    <3> QED
      BY <3>1, <3>2
  <2>2. MsgOK(m)'
    BY <1>2, <2>1, Constants DEF SafeInv, MsgOK, CurrentLease, Exhausted, MaxLeases, Budget
  <2> QED
    BY <1>1, <2>2
<1>3. CASE ~CurrentLease(m, n)
  <2>1. MsgOK(m)'
    BY <1>3, LetGoFrees DEF SafeInv, MsgOK, MaxLeases, Budget
  <2> QED
    BY <1>1, <2>1
<1> QED
  BY <1>2, <1>3

LEMMA AckKeepsSafe ==
  ASSUME SafeInv, NEW m \in Msgs, NEW n \in 1 .. issued[m], Ack(m, n)
  PROVE  SafeInv'
<1>1. LetGo(m, n) /\ UNCHANGED <<count, revivals, issued, groupVars>>
  BY DEF Ack
<1>2. n \in 0 .. MaxLeases
  BY Typed DEF SafeInv
<1>3. /\ place' \in [Msgs -> Places] /\ timer' \in [Msgs -> Nat]
      /\ acker' \in [Msgs -> 0 .. MaxLeases]
  <2>1. CASE CurrentLease(m, n)
    <3>1. /\ place' = [place EXCEPT ![m] = "done"]
          /\ timer' = [timer EXCEPT ![m] = 0]
          /\ acker' = [acker EXCEPT ![m] = n]
      BY <2>1 DEF Ack
    <3>2. place' \in [Msgs -> Places]
      BY <3>1 DEF SafeInv, BrokerTypeOK, Places
    <3>3. timer' \in [Msgs -> Nat]
      BY <3>1 DEF SafeInv, BrokerTypeOK
    <3>4. acker' \in [Msgs -> 0 .. MaxLeases]
      BY <1>2, <3>1 DEF SafeInv, BrokerTypeOK
    <3> QED
      BY <3>2, <3>3, <3>4
  <2>2. CASE ~CurrentLease(m, n)
    BY <2>2 DEF Ack, SafeInv, BrokerTypeOK
  <2> QED
    BY <2>1, <2>2
<1>4. BrokerTypeOK'
  BY <1>1, <1>3, LetGoFrees DEF SafeInv, BrokerTypeOK, groupVars, MaxLeases, Budget
<1>5. \A k \in Msgs \ {m} : place'[k] = place[k] /\ timer'[k] = timer[k] /\ acker'[k] = acker[k]
  BY DEF Ack, SafeInv, BrokerTypeOK
<1>6. \/ CurrentLease(m, n) /\ place'[m] = "done" /\ acker'[m] = n
      \/ ~CurrentLease(m, n) /\ place'[m] = place[m] /\ timer'[m] = timer[m] /\ acker'[m] = acker[m]
  BY DEF Ack, SafeInv, BrokerTypeOK
<1> QED
  BY <1>1, <1>4, <1>5, <1>6, SettledSafely DEF SafeInv

LEMMA NackKeepsSafe ==
  ASSUME SafeInv, NEW m \in Msgs, NEW n \in 1 .. issued[m], Nack(m, n)
  PROVE  SafeInv'
<1>1. LetGo(m, n) /\ UNCHANGED <<count, revivals, issued, acker, groupVars>>
  BY DEF Nack
<1>2. CurrentLease(m, n) => Backoff(count[m]) \in Nat
  <2>1. CurrentLease(m, n) => count[m] \in 1 .. MaxDeliveries
    BY Typed DEF CurrentLease, SafeInv, MsgOK
  <2> QED
    BY <2>1, BrokerAssumption
<1>3. place' \in [Msgs -> Places] /\ timer' \in [Msgs -> Nat]
  <2>1. CASE CurrentLease(m, n)
    <3>1. PICK p \in Places, t \in Nat : /\ place' = [place EXCEPT ![m] = p]
                                         /\ timer' = [timer EXCEPT ![m] = t]
      <4> DEFINE p == CASE Exhausted(m) -> "dead"
                        [] ~Exhausted(m) /\ Immediate -> "ready"
                        [] OTHER -> "delayed"
                 t == IF Exhausted(m) \/ Immediate THEN 0 ELSE Backoff(count[m])
      <4>1. p \in Places
        BY DEF Places
      <4>2. t \in Nat
        BY <1>2, <2>1
      <4>3. place' = [place EXCEPT ![m] = p] /\ timer' = [timer EXCEPT ![m] = t]
        BY <2>1 DEF Nack
      <4> QED
        BY <4>1, <4>2, <4>3
    <3>2. place' \in [Msgs -> Places]
      BY <3>1 DEF SafeInv, BrokerTypeOK
    <3>3. timer' \in [Msgs -> Nat]
      BY <3>1 DEF SafeInv, BrokerTypeOK
    <3> QED
      BY <3>2, <3>3
  <2>2. CASE ~CurrentLease(m, n)
    BY <2>2 DEF Nack, SafeInv, BrokerTypeOK
  <2> QED
    BY <2>1, <2>2
<1>4. BrokerTypeOK'
  BY <1>1, <1>3, LetGoFrees DEF SafeInv, BrokerTypeOK, groupVars, MaxLeases, Budget
<1>5. \A k \in Msgs \ {m} : place'[k] = place[k] /\ timer'[k] = timer[k] /\ acker'[k] = acker[k]
  BY <1>1 DEF Nack, SafeInv, BrokerTypeOK
<1>6. \/ CurrentLease(m, n) /\ \/ place'[m] = "dead" /\ Exhausted(m)
                               \/ place'[m] \in {"ready", "delayed"} /\ ~Exhausted(m)
      \/ ~CurrentLease(m, n) /\ place'[m] = place[m] /\ timer'[m] = timer[m] /\ acker'[m] = acker[m]
  BY <1>1 DEF Nack, SafeInv, BrokerTypeOK
<1> QED
  BY <1>1, <1>4, <1>5, <1>6, SettledSafely DEF SafeInv

\* The lease of an expired message has run out for its holder as well.
LEMMA RequeueExpiredKeepsSafe ==
  ASSUME SafeInv, RequeueExpired
  PROVE  SafeInv'
<1>1. \A k \in Expired : k \in Msgs /\ place[k] = "inFlight" /\ timer[k] = 0
  BY DEF Expired, AtPlace
<1>2. \A k \in Expired : Backoff(count[k]) \in Nat
  <2>1. \A k \in Expired : count[k] \in 1 .. MaxDeliveries
    BY <1>1, Typed DEF SafeInv, MsgOK
  <2> QED
    BY <2>1, BrokerAssumption
<1>3. /\ place' \in [Msgs -> Places] /\ timer' \in [Msgs -> Nat]
      /\ UNCHANGED <<count, revivals, issued, held, acker, groupVars>>
  BY <1>2 DEF RequeueExpired, SafeInv, BrokerTypeOK, Places
<1>4. BrokerTypeOK'
  BY <1>3 DEF SafeInv, BrokerTypeOK, groupVars, MaxLeases, Budget
<1>5. ASSUME NEW k \in Msgs PROVE MsgOK(k)'
  <2>1. CASE k \in Expired
    <3>1. \A n \in 1 .. MaxLeases : held[k][n] = 0
      BY <1>1, <2>1, Typed DEF SafeInv, MsgOK
    <3>2. \/ place'[k] = "dead" /\ Exhausted(k)
          \/ place'[k] = "delayed" /\ ~Exhausted(k)
      BY <2>1 DEF RequeueExpired
    <3> QED
      BY <1>3, <3>1, <3>2, Typed, Constants, SMTT(20) DEF SafeInv, MsgOK, Exhausted, MaxLeases, Budget
  <2>2. CASE k \notin Expired
    <3>1. place'[k] = place[k] /\ timer'[k] = timer[k]
      BY <2>2 DEF RequeueExpired
    <3> QED
      BY <1>3, <3>1, LeaseKept DEF SafeInv
  <2> QED
    BY <2>1, <2>2
<1> QED
  BY <1>4, <1>5 DEF SafeInv

\* A revival gives the budget back, and the leases have room for it.
LEMMA RequeueDeadLetterKeepsSafe ==
  ASSUME SafeInv, NEW m \in Msgs, RequeueDeadLetter(m)
  PROVE  SafeInv'
<1>1. /\ revivals[m] + 1 \in 0 .. MaxRevivals /\ place[m] = "dead"
      /\ issued[m] <= Budget(revivals[m] + 1)
  <2>1. /\ place[m] = "dead" /\ revivals[m] < MaxRevivals
        /\ revivals[m] \in 0 .. MaxRevivals /\ MaxRevivals \in Nat
    BY Typed, Constants DEF SafeInv, RequeueDeadLetter
  <2>2. issued[m] <= Budget(revivals[m]) + MaxDeliveries
    BY <2>1 DEF SafeInv, MsgOK
  <2>3. Budget(revivals[m] + 1) = Budget(revivals[m]) + MaxDeliveries
    BY <2>1, LeasesSuffice, Constants
  <2>4. revivals[m] + 1 \in 0 .. MaxRevivals
    BY <2>1
  <2> QED
    BY <2>1, <2>2, <2>3, <2>4
<1>2. BrokerTypeOK'
  <2>1. place' \in [Msgs -> Places]
    BY DEF SafeInv, BrokerTypeOK, RequeueDeadLetter, Places
  <2>2. count' \in [Msgs -> 0 .. MaxDeliveries]
    BY Constants DEF SafeInv, BrokerTypeOK, RequeueDeadLetter
  <2>3. revivals' \in [Msgs -> 0 .. MaxRevivals]
    BY <1>1 DEF SafeInv, BrokerTypeOK, RequeueDeadLetter
  <2> QED
    BY <2>1, <2>2, <2>3
       DEF SafeInv, BrokerTypeOK, RequeueDeadLetter, groupVars, MaxLeases, Budget
<1>3. ASSUME NEW k \in Msgs PROVE MsgOK(k)'
  <2>1. CASE k = m
    <3>1. /\ place'[m] = "ready" /\ count'[m] = 0 /\ revivals'[m] = revivals[m] + 1
          /\ issued'[m] = issued[m] /\ held'[m] = held[m]
      BY DEF RequeueDeadLetter, SafeInv, BrokerTypeOK
    <3>2. Budget(revivals[m] + 1) \in Nat
      BY <1>1, LeasesSuffice, Constants
    <3>3. \A n \in 1 .. MaxLeases : held'[m][n] = 0
      BY <1>1, <3>1, NoneRuns
    <3>4. issued'[m] <= Budget(revivals'[m]) + count'[m]
      BY <1>1, <3>1, <3>2
    <3> QED
      BY <2>1, <3>1, <3>3, <3>4, Constants DEF MsgOK, MaxLeases, Budget
  <2>2. CASE k # m
    BY <2>2, LeaseKept DEF RequeueDeadLetter, SafeInv, BrokerTypeOK
  <2> QED
    BY <2>1, <2>2
<1> QED
  BY <1>2, <1>3 DEF SafeInv

LEMMA FetchKeepsSafe ==
  ASSUME SafeInv, NEW g \in Groups, Fetch(g)
  PROVE  SafeInv'
<1>1. PICK pl \in Promotions :
        LET T == Fetchable(g, pl)
        IN  /\ place' = [m \in Msgs |-> IF m \in T THEN "fetched" ELSE pl[m]]
            /\ count' = [m \in Msgs |-> IF m \in T THEN count[m] + 1 ELSE count[m]]
            /\ \/ T = {} /\ UNCHANGED position
               \/ \E last \in T : /\ \A m \in T : m <= last
                                  /\ position' = [position EXCEPT ![g] = last + 1]
            /\ received' = [received EXCEPT ![g] = @ \cup T]
            /\ UNCHANGED <<timer, revivals, issued, held, acker, committed>>
  BY DEF Fetch
<1> DEFINE T == Fetchable(g, pl)
<1>2. /\ pl \in [Msgs -> Places]
      /\ \A k \in Msgs : pl[k] = place[k] \/ (place[k] = "delayed" /\ pl[k] = "ready")
      /\ T \subseteq Msgs
      /\ \A k \in T : place[k] \in {"ready", "delayed"}
  BY PromotionsPromote DEF SafeInv, BrokerTypeOK, ReadyIn, Fetchable
<1>3. /\ place' = [m \in Msgs |-> IF m \in T THEN "fetched" ELSE pl[m]]
      /\ count' = [m \in Msgs |-> IF m \in T THEN count[m] + 1 ELSE count[m]]
      /\ \/ UNCHANGED position
         \/ \E last \in T : position' = [position EXCEPT ![g] = last + 1]
      /\ received' = [received EXCEPT ![g] = @ \cup T]
      /\ UNCHANGED <<timer, revivals, issued, held, acker, committed>>
  BY <1>1
<1> HIDE DEF T
<1>4. \A k \in T : count[k] + 1 \in 0 .. MaxDeliveries /\ count[k] + 1 > 0
  BY <1>2, Typed, Constants DEF SafeInv, MsgOK
<1>5. BrokerTypeOK'
  <2>1. place' \in [Msgs -> Places] /\ count' \in [Msgs -> 0 .. MaxDeliveries]
    BY <1>2, <1>3, <1>4 DEF SafeInv, BrokerTypeOK, Places
  <2>2. received' \in [Groups -> SUBSET Msgs]
    BY <1>2, <1>3 DEF SafeInv, BrokerTypeOK
  <2>3. position' \in [Groups -> Nat]
    <3>1. \A last \in T : last + 1 \in Nat
      BY <1>2 DEF Msgs
    <3> QED
      BY <1>3, <3>1 DEF SafeInv, BrokerTypeOK
  <2> QED
    BY <1>3, <2>1, <2>2, <2>3 DEF SafeInv, BrokerTypeOK, MaxLeases, Budget
<1>6. ASSUME NEW k \in Msgs PROVE MsgOK(k)'
  <2>1. CASE k \in T
    <3>1. \A n \in 1 .. MaxLeases : held'[k][n] = 0
      BY <1>2, <1>3, <2>1, NoneRuns
    <3>2. /\ place'[k] = "fetched" /\ count'[k] = count[k] + 1 /\ issued'[k] = issued[k]
          /\ revivals'[k] = revivals[k]
      BY <1>3, <2>1
    <3>3. issued'[k] <= Budget(revivals'[k]) + count'[k]
      BY <3>2, Typed DEF SafeInv, MsgOK
    <3> QED
      BY <3>1, <3>2, <3>3 DEF MsgOK, MaxLeases, Budget
  <2>2. CASE k \notin T
    BY <1>2, <1>3, <2>2, Promoted
  <2> QED
    BY <2>1, <2>2
<1> QED
  BY <1>5, <1>6 DEF SafeInv

LEMMA OffsetsKeepSafe ==
  ASSUME SafeInv, NEW g \in Groups, NEW s \in Msgs, CommitOffset(g, s) \/ SeekTo(g, s)
  PROVE  SafeInv'
<1>1. /\ UNCHANGED <<place, count, timer, revivals, issued, held, acker, received>>
      /\ committed' \in [Groups -> Nat]
  BY DEF SafeInv, BrokerTypeOK, CommitOffset, SeekTo, Greater, Lesser, Msgs
<1>2. position' \in [Groups -> Nat]
  <2>1. s \in Nat /\ position \in [Groups -> Nat] /\ committed'[g] \in Nat
    BY <1>1 DEF SafeInv, BrokerTypeOK, Msgs
  <2>2. CASE CommitOffset(g, s)
    <3>1. Greater(position[g], committed'[g]) \in Nat
      BY <2>1 DEF Greater
    <3>2. position' = [position EXCEPT ![g] = Greater(position[g], committed'[g])]
      BY <2>2 DEF CommitOffset
    <3> QED
      BY <2>1, <3>1, <3>2
  <2>3. CASE SeekTo(g, s)
    BY <2>1, <2>3 DEF SeekTo
  <2> QED
    BY <2>2, <2>3
<1>3. BrokerTypeOK'
  BY <1>1, <1>2 DEF SafeInv, BrokerTypeOK, MaxLeases, Budget
<1>4. ASSUME NEW k \in Msgs PROVE MsgOK(k)'
  BY <1>1, LeaseKept DEF SafeInv
<1> QED
  BY <1>3, <1>4 DEF SafeInv

\* Time runs alike for the queue and for the holders.
LEMMA TickKeepsSafe ==
  ASSUME SafeInv, BrokerTick
  PROVE  SafeInv'
<1>1. /\ \A k \in Msgs : /\ timer'[k] = Down(timer[k])
                         /\ \A n \in 1 .. MaxLeases : held'[k][n] = Down(held[k][n])
      /\ UNCHANGED <<place, count, revivals, issued, acker, groupVars>>
  BY DEF BrokerTick
<1>2. \A t \in Nat : Down(t) \in Nat /\ (Down(t) > 0 => t > 0)
  BY DEF Down
<1>3. BrokerTypeOK'
  <2>1. timer' \in [Msgs -> Nat]
    BY <1>2, Typed DEF BrokerTick, SafeInv
  <2>2. held' \in [Msgs -> [1 .. MaxLeases -> Nat]]
    <3>1. ASSUME NEW k \in Msgs
          PROVE  [n \in 1 .. MaxLeases |-> Down(held[k][n])] \in [1 .. MaxLeases -> Nat]
      BY <1>2, Typed DEF SafeInv
    <3> QED
      BY <3>1 DEF BrokerTick
  <2> QED
    BY <1>1, <2>1, <2>2 DEF SafeInv, BrokerTypeOK, groupVars, MaxLeases, Budget
<1>4. ASSUME NEW k \in Msgs PROVE MsgOK(k)'
  <2>1. ASSUME NEW n \in 1 .. MaxLeases, held'[k][n] > 0
        PROVE  n = issued[k] /\ place[k] = "inFlight" /\ timer'[k] = held'[k][n]
    <3>1. held[k][n] \in Nat /\ held'[k][n] = Down(held[k][n])
      BY <1>1, Typed DEF SafeInv
    <3>2. held[k][n] > 0
      BY <1>2, <2>1, <3>1
    <3> QED
      BY <1>1, <3>1, <3>2 DEF SafeInv, MsgOK
  <2> QED
    BY <1>1, <2>1 DEF SafeInv, MsgOK, MaxLeases, Budget
<1> QED
  BY <1>3, <1>4 DEF SafeInv

LEMMA SafeIsKept == SafeInv /\ [BrokerNext]_brokerVars => SafeInv'
<1> SUFFICES ASSUME SafeInv, [BrokerNext]_brokerVars PROVE SafeInv'
  OBVIOUS
<1>1. CASE \E m \in Msgs, d \in Delays : Produce(m, d)
  BY <1>1, ProduceKeepsSafe
<1>2. CASE Dequeue
  BY <1>2, DequeueKeepsSafe
<1>3. CASE Consume
  BY <1>3, AckKeepsSafe, NackKeepsSafe DEF Consume
<1>4. CASE RequeueExpired
  BY <1>4, RequeueExpiredKeepsSafe
<1>5. CASE \E m \in Msgs : RequeueDeadLetter(m)
  BY <1>5, RequeueDeadLetterKeepsSafe
<1>6. CASE GroupNext
  BY <1>6, FetchKeepsSafe, OffsetsKeepSafe DEF GroupNext
<1>7. CASE BrokerTick
  BY <1>7, TickKeepsSafe
<1>8. CASE UNCHANGED brokerVars
  <2>1. BrokerTypeOK'
    BY <1>8 DEF SafeInv, BrokerTypeOK, brokerVars, groupVars, MaxLeases, Budget
  <2>2. \A k \in Msgs : MsgOK(k)'
    BY <1>8, LeaseKept DEF SafeInv, brokerVars
  <2> QED
    BY <2>1, <2>2 DEF SafeInv
<1> QED
  BY <1>1, <1>2, <1>3, <1>4, <1>5, <1>6, <1>7, <1>8 DEF BrokerNext

-----------------------------------------------------------------------------
LEMMA SafeInvSuffices == SafeInv => DeliverySafe
<1> SUFFICES ASSUME SafeInv PROVE DeliverySafe
  OBVIOUS
<1>1. \A m \in Msgs : 1 .. issued[m] \subseteq 1 .. MaxLeases
  BY Typed DEF SafeInv
<1>2. DeliveryBudget /\ AckedByLatest
  BY DEF SafeInv, MsgOK, DeliveryBudget, AckedByLatest
<1>3. HeldWereIssued
  BY Typed DEF SafeInv, MsgOK, HeldWereIssued
<1>4. LatestLeaseTimed /\ VisibilityExclusive
  BY <1>1 DEF SafeInv, MsgOK, LatestLeaseTimed, VisibilityExclusive, CurrentLease
<1> QED
  BY <1>2, <1>3, <1>4 DEF SafeInv, DeliverySafe, BrokerInv

\* However late, often or never consumers settle, a message has at most its
\* budget of deliveries, a running lease is the only one that counts, and a
\* completed message was completed by its latest delivery (class BrokerQueue).
THEOREM DeliveryIsSafe == BrokerSpec => []DeliverySafe
  BY SafeInitially, SafeIsKept, SafeInvSuffices, PTL DEF BrokerSpec

-----------------------------------------------------------------------------
(* Offsets of the groups.                                                  *)

\* A group reads on where it has committed, or later.
PositionsAhead == \A g \in Groups : committed[g] <= position[g]

OffsetsInv == SafeInv /\ PositionsAhead

LEMMA FetchPassesCommitted ==
  ASSUME OffsetsInv, NEW g \in Groups, Fetch(g)
  PROVE  /\ PositionsAhead'
         /\ \A h \in Groups : \A m \in received'[h] \ received[h] : m >= committed[h]
<1>1. /\ position \in [Groups -> Nat] /\ committed \in [Groups -> Nat]
      /\ received \in [Groups -> SUBSET Msgs] /\ Msgs \subseteq Nat
  BY Constants DEF OffsetsInv, SafeInv, BrokerTypeOK, Msgs
<1>2. PICK pl \in Promotions :
        LET T == Fetchable(g, pl)
        IN  /\ \/ T = {} /\ UNCHANGED position
               \/ \E last \in T : /\ \A m \in T : m <= last
                                  /\ position' = [position EXCEPT ![g] = last + 1]
            /\ received' = [received EXCEPT ![g] = @ \cup T]
            /\ committed' = committed
  BY DEF Fetch
<1> DEFINE T == Fetchable(g, pl)
<1>3. \A m \in T : m \in Nat /\ m >= position[g]
  BY <1>1 DEF Fetchable, ReadyIn
<1> HIDE DEF T
<1>4. \A h \in Groups : committed[h] \in Nat /\ position[h] \in Nat /\ committed[h] <= position[h]
  BY <1>1 DEF OffsetsInv, PositionsAhead
<1>5. PositionsAhead'
  <2>1. CASE T = {} /\ UNCHANGED position
    BY <1>2, <1>4, <2>1 DEF PositionsAhead
  <2>2. CASE \E last \in T : position' = [position EXCEPT ![g] = last + 1]
    <3>1. PICK last \in T : position' = [position EXCEPT ![g] = last + 1]
      BY <2>2
    <3>2. last \in Nat /\ last >= position[g]
      BY <1>3
    <3> QED
      BY <1>1, <1>2, <1>4, <3>1, <3>2 DEF PositionsAhead
  <2> QED BY <1>2, <2>1, <2>2 DEF T
<1>6. ASSUME NEW h \in Groups, NEW m \in received'[h] \ received[h]
      PROVE  m >= committed[h]
  <2>1. received' = [received EXCEPT ![g] = received[g] \cup T]
    BY <1>2 DEF T
  <2>2. h = g /\ m \in T
    BY <1>1, <2>1
  <2> QED BY <1>3, <1>4, <2>2
<1> QED BY <1>5, <1>6

LEMMA OffsetsInductive ==
  ASSUME OffsetsInv, [BrokerNext]_brokerVars
  PROVE  /\ OffsetsInv'
         /\ \A h \in Groups : \A m \in received'[h] \ received[h] : m >= committed[h]
<1>1. SafeInv'
  BY SafeIsKept DEF OffsetsInv
<1>2. /\ position \in [Groups -> Nat] /\ committed \in [Groups -> Nat] /\ Msgs \subseteq Nat
      /\ \A h \in Groups : committed[h] \in Nat /\ position[h] \in Nat /\ committed[h] <= position[h]
  BY Constants DEF OffsetsInv, SafeInv, BrokerTypeOK, Msgs, PositionsAhead
<1>3. CASE GroupNext
  <2>1. PICK g \in Groups : Fetch(g) \/ \E s \in Msgs : CommitOffset(g, s) \/ SeekTo(g, s)
    BY <1>3 DEF GroupNext
  <2>2. CASE Fetch(g)
    <3>1. /\ PositionsAhead'
          /\ \A h \in Groups : \A m \in received'[h] \ received[h] : m >= committed[h]
      BY <2>2, FetchPassesCommitted
    <3> QED BY <1>1, <3>1 DEF OffsetsInv
  <2>3. ASSUME NEW s \in Msgs, CommitOffset(g, s) PROVE PositionsAhead' /\ received' = received
    <3>1. s \in Nat /\ received' = received
      BY <1>2, <2>3 DEF CommitOffset
    <3>2. PICK c \in Nat : c = Greater(committed[g], s + 1) /\ committed' = [committed EXCEPT ![g] = c]
      <4>1. Greater(committed[g], s + 1) \in Nat
        BY <1>2, <3>1 DEF Greater
      <4> QED BY <2>3, <4>1 DEF CommitOffset
    <3>3. committed'[g] = c
      BY <1>2, <3>2
    <3>4. PICK p \in Nat : p = Greater(position[g], c) /\ position' = [position EXCEPT ![g] = p]
      BY <1>2, <2>3, <3>3 DEF CommitOffset, Greater
    <3>5. c <= p
      BY <1>2, <3>4 DEF Greater
    <3> QED BY <1>2, <3>1, <3>2, <3>4, <3>5 DEF PositionsAhead
  <2>4. ASSUME NEW s \in Msgs, SeekTo(g, s) PROVE PositionsAhead' /\ received' = received
    <3>1. s \in Nat /\ received' = received /\ position' = [position EXCEPT ![g] = s]
      BY <1>2, <2>4 DEF SeekTo
    <3>2. PICK c \in Nat : c = Lesser(committed[g], s) /\ committed' = [committed EXCEPT ![g] = c]
      BY <1>2, <2>4, <3>1 DEF SeekTo, Lesser
    <3>3. c <= s
      BY <1>2, <3>1, <3>2 DEF Lesser
    <3> QED BY <1>2, <3>1, <3>2, <3>3 DEF PositionsAhead
  <2> QED BY <1>1, <2>1, <2>2, <2>3, <2>4 DEF OffsetsInv
<1>4. CASE UNCHANGED groupVars
  BY <1>1, <1>4 DEF OffsetsInv, PositionsAhead, groupVars
<1> QED
  <2> SUFFICES GroupNext \/ UNCHANGED groupVars
    BY <1>3, <1>4
  <2>1. CASE BrokerNext
    BY <2>1 DEF BrokerNext, Produce, Dequeue, Consume, Ack, Nack, RequeueExpired, RequeueDeadLetter,
                BrokerTick, groupVars
  <2>2. CASE UNCHANGED brokerVars
    BY <2>2 DEF brokerVars
  <2> QED BY <2>1, <2>2

\* Nothing is read or committed in the beginning.
LEMMA OffsetsStart == BrokerInit => OffsetsInv
  BY SafeInitially DEF BrokerInit, PositionsAhead, OffsetsInv

\* "Committed messages are never redelivered to the group" (commitOffset), for any number of groups, commits,
\* seeks and fetches of any size.
THEOREM CommitsAreFinal == BrokerSpec => CommittedNotRefetched
<1>1. OffsetsInv /\ [BrokerNext]_brokerVars => OffsetsInv'
  BY OffsetsInductive
<1>2. OffsetsInv /\ [BrokerNext]_brokerVars
        => [\A g \in Groups : \A m \in received'[g] \ received[g] : m >= committed[g]]_brokerVars
  BY OffsetsInductive
<1> QED
  BY <1>1, <1>2, OffsetsStart, PTL DEF BrokerSpec, CommittedNotRefetched

-----------------------------------------------------------------------------
(***************************************************************************)
(*  The heap beneath the queues keeps what is pushed, and a push keeps     *)
(*  its order, for any number of entries and any priorities.               *)
(*                                                                         *)
(*  A sift swaps entries and therefore keeps them. On the way up, the      *)
(*  heap is in order but for the entry that rises, and below that entry    *)
(*  is nothing that should be above the entry it passes.                   *)
(***************************************************************************)

\* h has the entries S, each once.
HeapHolds(h, S) ==
  /\ h \in Seq(Entries)
  /\ \A i, j \in 1 .. Len(h) : h[i] = h[j] => i = j
  /\ S = {h[i] : i \in 1 .. Len(h)}

HeapIInv == HeapHolds(heap, inside)

\* States of the loops of siftUp and siftDown.
Sifts == {s \in [array : Seq(Entries), at : Nat] : s.at \in 1 .. Len(s.array)}

Rises(f, h, i) == f = [n \in 0 .. i |-> IF n = 0 THEN [array |-> h, at |-> i] ELSE Rise(f[n - 1])]

Sinks(f, h, i) == f = [n \in 0 .. Len(h) |-> IF n = 0 THEN [array |-> h, at |-> i] ELSE Sink(f[n - 1])]

-----------------------------------------------------------------------------
(* The loops.                                                              *)

\* The parent of a position.
LEMMA Parents ==
  ASSUME NEW i \in Nat, i > 1
  PROVE  i \div 2 \in 1 .. i - 1
  OBVIOUS

LEMMA SwapIsSequence ==
  ASSUME NEW h \in Seq(Entries), NEW i \in 1 .. Len(h), NEW j \in 1 .. Len(h)
  PROVE  /\ Swapped(h, i, j) \in Seq(Entries) /\ Len(Swapped(h, i, j)) = Len(h)
         /\ \A k \in 1 .. Len(h) :
              Swapped(h, i, j)[k] = IF k = j THEN h[i] ELSE IF k = i THEN h[j] ELSE h[k]
  BY DEF Swapped

\* A swap moves the entries only.
LEMMA SwapHolds ==
  ASSUME NEW h, NEW S, HeapHolds(h, S), NEW i \in 1 .. Len(h), NEW j \in 1 .. Len(h)
  PROVE  HeapHolds(Swapped(h, i, j), S) /\ Len(Swapped(h, i, j)) = Len(h)
<1>1. h \in Seq(Entries) /\ S = {h[k] : k \in 1 .. Len(h)} /\ \A k, l \in 1 .. Len(h) : h[k] = h[l] => k = l
  BY DEF HeapHolds
<1>2. PICK r \in Seq(Entries) :
        /\ r = Swapped(h, i, j) /\ Len(r) = Len(h)
        /\ \A k \in 1 .. Len(h) : r[k] = IF k = j THEN h[i] ELSE IF k = i THEN h[j] ELSE h[k]
  <2>1. h \in Seq(Entries)
    BY <1>1
  <2>2. /\ Swapped(h, i, j) \in Seq(Entries) /\ Len(Swapped(h, i, j)) = Len(h)
        /\ \A k \in 1 .. Len(h) :
              Swapped(h, i, j)[k] = IF k = j THEN h[i] ELSE IF k = i THEN h[j] ELSE h[k]
    BY ONLY <2>1, i \in 1 .. Len(h), j \in 1 .. Len(h), SwapIsSequence
  <2> QED BY <2>2
<1>3. \A k, l \in 1 .. Len(r) : r[k] = r[l] => k = l
  BY <1>1, <1>2
<1>4. \A k \in 1 .. Len(r) : r[k] \in S
  BY <1>1, <1>2
<1>5. ASSUME NEW k \in 1 .. Len(h) PROVE h[k] \in {r[l] : l \in 1 .. Len(r)}
  <2>1. CASE k = i
    BY <1>2, <2>1
  <2>2. CASE k # i /\ k = j
    BY <1>2, <2>2
  <2>3. CASE k # i /\ k # j
    BY <1>2, <2>3
  <2> QED BY <2>1, <2>2, <2>3
<1>6. S = {r[l] : l \in 1 .. Len(r)}
  <2>1. S \subseteq {r[l] : l \in 1 .. Len(r)}
    BY <1>1, <1>5
  <2>2. {r[l] : l \in 1 .. Len(r)} \subseteq S
    BY <1>4
  <2> QED BY <2>1, <2>2
<1> QED
  BY <1>2, <1>3, <1>6 DEF HeapHolds

LEMMA RiseStaysInside ==
  ASSUME NEW s \in Sifts
  PROVE  Rise(s) \in Sifts
<1>1. s.array \in Seq(Entries) /\ s.at \in Nat /\ s.at \in 1 .. Len(s.array)
  BY DEF Sifts
<1>2. CASE s.at > 1 /\ Before(s.array[s.at], s.array[s.at \div 2])
  <2>1. PICK a \in Nat : a = s.at \div 2 /\ a \in 1 .. Len(s.array)
    BY <1>1, <1>2, Parents
  <2>2. Swapped(s.array, s.at, a) \in Seq(Entries) /\ Len(Swapped(s.array, s.at, a)) = Len(s.array)
    BY <1>1, <2>1, SwapIsSequence
  <2>3. Rise(s) = [array |-> Swapped(s.array, s.at, a), at |-> a]
    BY <1>2, <2>1 DEF Rise
  <2> QED
    BY <2>1, <2>2, <2>3 DEF Sifts
<1>3. CASE ~(s.at > 1 /\ Before(s.array[s.at], s.array[s.at \div 2]))
  BY <1>3 DEF Rise
<1> QED
  BY <1>2, <1>3

LEMMA BestIsInside ==
  ASSUME NEW h \in Seq(Entries), NEW i \in 1 .. Len(h)
  PROVE  BestBelow(h, i) \in 1 .. Len(h)
  BY DEF BestBelow

LEMMA SinkStaysInside ==
  ASSUME NEW s \in Sifts
  PROVE  Sink(s) \in Sifts /\ Len(Sink(s).array) = Len(s.array)
<1>1. s.array \in Seq(Entries) /\ s.at \in Nat /\ s.at \in 1 .. Len(s.array)
  BY DEF Sifts
<1>2. PICK b \in Nat : b = BestBelow(s.array, s.at) /\ b \in 1 .. Len(s.array)
  BY <1>1, BestIsInside
<1>3. Sink(s) = IF b = s.at THEN s ELSE [array |-> [s.array EXCEPT ![s.at] = s.array[b]], at |-> b]
  BY <1>2 DEF Sink
<1>4. [s.array EXCEPT ![s.at] = s.array[b]] \in Seq(Entries) /\ Len([s.array EXCEPT ![s.at] = s.array[b]]) = Len(s.array)
  BY <1>1, <1>2
<1> QED
  BY <1>2, <1>3, <1>4 DEF Sifts

\* The loop of siftUp runs through states of its own.
LEMMA RiseTurns ==
  ASSUME NEW h \in Seq(Entries), NEW i \in 1 .. Len(h)
  PROVE  \E f : /\ Rises(f, h, i) /\ SiftUp(h, i) = f[i].array
                /\ \A n \in 0 .. i : f[n] \in Sifts
<1> DEFINE T == Sifts
           a == [array |-> h, at |-> i]
           G == [p \in Nat \X T |-> Rise(p[2])]
<1>1. a \in T
  BY DEF Sifts
<1>2. G \in [Nat \X T -> T]
  BY RiseStaysInside
<1>3. PICK f \in [0 .. i -> Sifts] : Recursive(f, i, a, G)
  <2> HIDE DEF G, a
  <2>1. \A m \in Nat : \E f \in [0 .. m -> T] : Recursive(f, m, a, G)
    <3> HIDE DEF T
    <3> QED BY <1>1, <1>2, Recursion
  <2> QED BY <2>1
<1>4. ASSUME NEW n \in 0 .. i, n # 0 PROVE G[<<n, f[n - 1]>>] = Rise(f[n - 1])
  <2>1. <<n, f[n - 1]>> \in Nat \X T
    BY <1>4
  <2> QED BY <2>1
<1>5. Rises(f, h, i)
  <2> HIDE DEF G
  <2> QED BY <1>3, <1>4 DEF Recursive, Rises
<1> HIDE DEF G, T, a
<1>6. PICK g : Rises(g, h, i) /\ SiftUp(h, i) = g[i].array
  <2>1. SiftUp(h, i) = (CHOOSE g : Rises(g, h, i))[i].array
    BY DEF SiftUp, Rises
  <2> QED BY <1>5, <2>1
<1>7. \A n \in 0 .. i : g[n] = IF n = 0 THEN [array |-> h, at |-> i] ELSE Rise(g[n - 1])
  BY <1>6, Zenon DEF Rises
<1> DEFINE Q == {n \in Nat : n <= i => g[n] \in Sifts}
<1>8. 0 \in Q
  BY <1>1, <1>7 DEF a, T
<1>9. ASSUME NEW n \in Nat, n \in Q PROVE n + 1 \in Q
  <2> SUFFICES ASSUME n + 1 <= i PROVE g[n + 1] \in Sifts
    OBVIOUS
  <2>1. n + 1 \in 0 .. i /\ n + 1 # 0 /\ n + 1 - 1 = n
    OBVIOUS
  <2>2. g[n + 1] = Rise(g[n]) /\ g[n] \in Sifts
    BY <1>7, <1>9, <2>1
  <2> QED BY <2>2, RiseStaysInside
<1>10. \A n \in Nat : n \in Q
  <2> HIDE DEF Q
  <2> QED BY <1>8, <1>9, Induction
<1> QED
  BY <1>6, <1>10

\* So does the loop of siftDown, and the length stays.
LEMMA SinkTurns ==
  ASSUME NEW h \in Seq(Entries), NEW i \in 1 .. Len(h)
  PROVE  \E f : /\ Sinks(f, h, i)
                /\ SiftDown(h, i) = [f[Len(h)].array EXCEPT ![f[Len(h)].at] = h[i]]
                /\ \A n \in 0 .. Len(h) : f[n] \in Sifts /\ Len(f[n].array) = Len(h)
<1> DEFINE T == Sifts
           a == [array |-> h, at |-> i]
           G == [p \in Nat \X T |-> Sink(p[2])]
<1>0. PICK z \in Nat : z = Len(h)
  OBVIOUS
<1>1. a \in T
  BY DEF Sifts
<1>2. G \in [Nat \X T -> T]
  BY SinkStaysInside
<1>3. PICK f \in [0 .. z -> Sifts] : Recursive(f, z, a, G)
  <2> HIDE DEF G, a
  <2>1. \A m \in Nat : \E f \in [0 .. m -> T] : Recursive(f, m, a, G)
    <3> HIDE DEF T
    <3> QED BY <1>1, <1>2, Recursion
  <2> QED BY <2>1
<1>4. ASSUME NEW n \in 0 .. z, n # 0 PROVE G[<<n, f[n - 1]>>] = Sink(f[n - 1])
  <2>1. <<n, f[n - 1]>> \in Nat \X T
    BY <1>4
  <2> QED BY <2>1
<1>5. Sinks(f, h, i)
  <2> HIDE DEF G
  <2> QED BY <1>0, <1>3, <1>4 DEF Recursive, Sinks
<1> HIDE DEF G, T, a
<1>6. PICK g : Sinks(g, h, i) /\ SiftDown(h, i) = [g[z].array EXCEPT ![g[z].at] = h[i]]
  <2>1. PICK k : k = (CHOOSE g : Sinks(g, h, i))
    OBVIOUS
  <2>2. SiftDown(h, i) = [k[z].array EXCEPT ![k[z].at] = h[i]]
    BY <1>0, <2>1 DEF SiftDown, Sinks
  <2> QED BY <1>5, <2>1, <2>2
<1>7. \A n \in 0 .. z : g[n] = IF n = 0 THEN [array |-> h, at |-> i] ELSE Sink(g[n - 1])
  BY <1>0, <1>6, Zenon DEF Sinks
<1> DEFINE Q == {n \in Nat : n <= z => g[n] \in Sifts /\ Len(g[n].array) = z}
<1>8. 0 \in Q
  <2>1. 0 \in 0 .. z
    OBVIOUS
  <2>2. g[0] = a
    BY <1>7, <2>1 DEF a
  <2>3. Len(a.array) = z
    BY <1>0 DEF a
  <2> QED BY <1>1, <2>2, <2>3 DEF T
<1>9. ASSUME NEW n \in Nat, n \in Q PROVE n + 1 \in Q
  <2> SUFFICES ASSUME n + 1 <= z PROVE g[n + 1] \in Sifts /\ Len(g[n + 1].array) = z
    OBVIOUS
  <2>1. n + 1 \in 0 .. z /\ n + 1 # 0 /\ n + 1 - 1 = n
    OBVIOUS
  <2>2. g[n + 1] = Sink(g[n]) /\ g[n] \in Sifts /\ Len(g[n].array) = z
    BY <1>7, <1>9, <2>1
  <2> QED BY <2>2, SinkStaysInside
<1>10. \A n \in Nat : n \in Q
  <2> HIDE DEF Q
  <2> QED BY <1>8, <1>9, Induction
<1>11. \A n \in 0 .. z : g[n] \in Sifts /\ Len(g[n].array) = z
  BY <1>10
<1> QED
  BY <1>0, <1>6, <1>11

\* Rising moves entries only.
LEMMA SiftUpHolds ==
  ASSUME NEW h, NEW S, HeapHolds(h, S), NEW i \in 1 .. Len(h)
  PROVE  HeapHolds(SiftUp(h, i), S) /\ Len(SiftUp(h, i)) = Len(h)
<1>1. h \in Seq(Entries)
  BY DEF HeapHolds
<1>2. PICK f : /\ Rises(f, h, i) /\ SiftUp(h, i) = f[i].array
               /\ \A n \in 0 .. i : f[n] \in Sifts
  BY <1>1, RiseTurns
<1>3. \A n \in 0 .. i : f[n] = IF n = 0 THEN [array |-> h, at |-> i] ELSE Rise(f[n - 1])
  BY <1>2, Zenon DEF Rises
<1> DEFINE Q == {n \in Nat : n <= i => HeapHolds(f[n].array, S) /\ Len(f[n].array) = Len(h)}
<1>4. 0 \in Q
  <2>1. f[0] = [array |-> h, at |-> i]
    BY <1>3
  <2> QED BY <2>1
<1>5. ASSUME NEW n \in Nat, n \in Q PROVE n + 1 \in Q
  <2> SUFFICES ASSUME n + 1 <= i PROVE HeapHolds(f[n + 1].array, S) /\ Len(f[n + 1].array) = Len(h)
    OBVIOUS
  <2>1. n + 1 \in 0 .. i /\ n + 1 # 0 /\ n + 1 - 1 = n /\ n \in 0 .. i
    OBVIOUS
  <2>2. PICK s : s = f[n]
    OBVIOUS
  <2>3. f[n + 1] = Rise(s) /\ s \in Sifts /\ HeapHolds(s.array, S) /\ Len(s.array) = Len(h)
    BY <1>2, <1>3, <1>5, <2>1, <2>2
  <2>4. CASE s.at > 1 /\ Before(s.array[s.at], s.array[s.at \div 2])
    <3>1. s.at \in Nat /\ s.at \in 1 .. Len(s.array)
      BY <2>3 DEF Sifts
    <3>2. PICK a \in Nat : a = s.at \div 2 /\ a \in 1 .. Len(s.array)
      BY <2>4, <3>1, Parents
    <3>3. Rise(s).array = Swapped(s.array, s.at, a)
      BY <2>4, <3>2 DEF Rise
    <3> QED BY <2>3, <3>1, <3>2, <3>3, SwapHolds
  <2>5. CASE ~(s.at > 1 /\ Before(s.array[s.at], s.array[s.at \div 2]))
    BY <2>3, <2>5 DEF Rise
  <2> QED BY <2>4, <2>5
<1>6. \A n \in Nat : n \in Q
  <2> HIDE DEF Q
  <2> QED BY <1>4, <1>5, Induction
<1> QED
  BY <1>2, <1>6

\* Filling the hole after a turn is a swap of what filling it before gives.
LEMMA SinkSwaps ==
  ASSUME NEW s \in Sifts, NEW e \in Entries, NEW S, HeapHolds([s.array EXCEPT ![s.at] = e], S)
  PROVE  HeapHolds([Sink(s).array EXCEPT ![Sink(s).at] = e], S)
<1>1. s.array \in Seq(Entries) /\ s.at \in Nat /\ s.at \in 1 .. Len(s.array)
  BY DEF Sifts
<1>2. PICK b \in Nat : b = BestBelow(s.array, s.at) /\ b \in 1 .. Len(s.array)
  BY <1>1, BestIsInside
<1>3. CASE b = s.at
  BY <1>2, <1>3 DEF Sink
<1>4. CASE b # s.at
  <2>1. Sink(s) = [array |-> [s.array EXCEPT ![s.at] = s.array[b]], at |-> b]
    BY <1>2, <1>4 DEF Sink
  <2>2. PICK h, i : h = s.array /\ i = s.at
    OBVIOUS
  <2>3. h \in Seq(Entries) /\ i \in 1 .. Len(h) /\ b \in 1 .. Len(h) /\ b # i
    BY <1>1, <1>2, <1>4, <2>2
  <2>4. [[h EXCEPT ![i] = h[b]] EXCEPT ![b] = e] = Swapped([h EXCEPT ![i] = e], i, b)
    <3>1. /\ [h EXCEPT ![i] = e][i] = e /\ [h EXCEPT ![i] = e][b] = h[b]
          /\ DOMAIN h = 1 .. Len(h)
      BY <2>3
    <3>2. PICK x : x = h[b]
      OBVIOUS
    <3>3. [[h EXCEPT ![i] = x] EXCEPT ![b] = e] = [[h EXCEPT ![i] = e] EXCEPT ![i] = x, ![b] = e]
      BY <2>3
    <3> QED BY <3>1, <3>2, <3>3 DEF Swapped
  <2>5. PICK r : r = [h EXCEPT ![i] = e] /\ HeapHolds(r, S) /\ Len(r) = Len(h)
    BY <2>2, <2>3
  <2>6. HeapHolds(Swapped(r, i, b), S)
    BY <2>3, <2>5, SwapHolds
  <2> QED BY <2>1, <2>2, <2>4, <2>5, <2>6
<1> QED
  BY <1>3, <1>4

\* Sinking moves entries only.
LEMMA SiftDownHolds ==
  ASSUME NEW h, NEW S, HeapHolds(h, S), NEW i \in 1 .. Len(h)
  PROVE  HeapHolds(SiftDown(h, i), S) /\ Len(SiftDown(h, i)) = Len(h)
<1>1. h \in Seq(Entries)
  BY DEF HeapHolds
<1>2. PICK z \in Nat, e \in Entries : z = Len(h) /\ e = h[i]
  BY <1>1
<1>3. PICK f : /\ Sinks(f, h, i)
               /\ SiftDown(h, i) = [f[z].array EXCEPT ![f[z].at] = e]
               /\ \A n \in 0 .. z : f[n] \in Sifts /\ Len(f[n].array) = z
  BY <1>1, <1>2, SinkTurns
<1>4. \A n \in 0 .. z : f[n] = IF n = 0 THEN [array |-> h, at |-> i] ELSE Sink(f[n - 1])
  BY <1>2, <1>3, Zenon DEF Sinks
<1> DEFINE Q == {n \in Nat : n <= z => HeapHolds([f[n].array EXCEPT ![f[n].at] = e], S)}
<1>5. 0 \in Q
  <2>1. f[0].array = h /\ f[0].at = i
    BY <1>4
  <2>2. [h EXCEPT ![i] = e] = h
    BY <1>1, <1>2
  <2> QED BY <2>1, <2>2
<1>6. ASSUME NEW n \in Nat, n \in Q PROVE n + 1 \in Q
  <2> SUFFICES ASSUME n + 1 <= z PROVE HeapHolds([f[n + 1].array EXCEPT ![f[n + 1].at] = e], S)
    OBVIOUS
  <2>1. n + 1 \in 0 .. z /\ n + 1 # 0 /\ n + 1 - 1 = n /\ n \in 0 .. z
    OBVIOUS
  <2>2. PICK s : s = f[n]
    OBVIOUS
  <2>3. f[n + 1] = Sink(s) /\ s \in Sifts /\ HeapHolds([s.array EXCEPT ![s.at] = e], S)
    BY <1>3, <1>4, <1>6, <2>1, <2>2
  <2> QED BY <2>3, SinkSwaps
<1>7. \A n \in Nat : n \in Q
  <2> HIDE DEF Q
  <2> QED BY <1>5, <1>6, Induction
<1>8. Len([f[z].array EXCEPT ![f[z].at] = e]) = z
  <2>1. f[z] \in Sifts /\ Len(f[z].array) = z
    BY <1>3
  <2> QED BY <2>1 DEF Sifts
<1> QED
  BY <1>2, <1>3, <1>7, <1>8

-----------------------------------------------------------------------------
(* The heap.                                                               *)

\* Another entry at the end.
LEMMA AppendHolds ==
  ASSUME NEW h, NEW S, HeapHolds(h, S), NEW e \in Entries, e \notin S
  PROVE  HeapHolds(Append(h, e), S \cup {e}) /\ Len(Append(h, e)) = Len(h) + 1
<1>1. h \in Seq(Entries) /\ S = {h[k] : k \in 1 .. Len(h)} /\ \A k, l \in 1 .. Len(h) : h[k] = h[l] => k = l
  BY DEF HeapHolds
<1>0. PICK z \in Nat : z = Len(h)
  BY <1>1
<1>2. PICK r \in Seq(Entries) :
        /\ z = Len(h) /\ r = Append(h, e) /\ Len(r) = z + 1 /\ r[z + 1] = e
        /\ \A k \in 1 .. z : r[k] = h[k]
  <2>1. h \in Seq(Entries)
    BY <1>1
  <2>2. Append(h, e) \in Seq(Entries) /\ Len(Append(h, e)) = Len(h) + 1
    BY ONLY <2>1, e \in Entries, AppendProperties
  <2>3. \A k \in 1 .. Len(h) : Append(h, e)[k] = h[k]
    BY ONLY <2>1, e \in Entries, AppendProperties
  <2>4. Append(h, e)[Len(h) + 1] = e
    BY ONLY <2>1, e \in Entries, AppendProperties
  <2> QED BY <1>0, <2>2, <2>3, <2>4
<1>3. \A k, l \in 1 .. z + 1 : r[k] = r[l] => k = l
  <2>1. \A k \in 1 .. z : r[k] # e
    BY <1>1, <1>2
  <2>2. \A k \in 1 .. z + 1 : k \in 1 .. z \/ k = z + 1
    OBVIOUS
  <2> QED BY <1>1, <1>2, <2>1, <2>2
<1>4. S \cup {e} = {r[k] : k \in 1 .. z + 1}
  <2>1. \A k \in 1 .. z + 1 : r[k] \in S \cup {e}
    BY <1>1, <1>2
  <2>2. \A x \in S \cup {e} : \E k \in 1 .. z + 1 : x = r[k]
    BY <1>1, <1>2
  <2> QED BY <2>1, <2>2
<1> QED
  BY <1>2, <1>3, <1>4 DEF HeapHolds

\* Without the last entry.
LEMMA FrontHolds ==
  ASSUME NEW h, NEW S, HeapHolds(h, S), Len(h) > 0
  PROVE  HeapHolds(Front(h), S \ {h[Len(h)]}) /\ Len(Front(h)) = Len(h) - 1
<1>1. h \in Seq(Entries) /\ S = {h[k] : k \in 1 .. Len(h)} /\ \A k, l \in 1 .. Len(h) : h[k] = h[l] => k = l
  BY DEF HeapHolds
<1>2. PICK z \in Nat : z > 0 /\ z = Len(h)
  BY <1>1
<1>3. PICK r \in Seq(Entries) : r = Front(h) /\ Len(r) = z - 1 /\ \A k \in 1 .. z - 1 : r[k] = h[k]
  <2>1. h \in Seq(Entries) /\ z - 1 \in 0 .. Len(h)
    BY <1>1, <1>2
  <2>2. /\ SubSeq(h, 1, z - 1) \in Seq(Entries) /\ Len(SubSeq(h, 1, z - 1)) = z - 1
        /\ \A k \in 1 .. z - 1 : SubSeq(h, 1, z - 1)[k] = h[k]
    BY <2>1
  <2> QED BY <1>2, <2>2 DEF Front
<1>4. \A k, l \in 1 .. z - 1 : r[k] = r[l] => k = l
  BY <1>1, <1>2, <1>3
<1>5. S \ {h[z]} = {r[k] : k \in 1 .. z - 1}
  <2>1. \A k \in 1 .. z - 1 : r[k] \in S \ {h[z]}
    BY <1>1, <1>2, <1>3
  <2>2. \A x \in S \ {h[z]} : \E k \in 1 .. z - 1 : x = r[k]
    <3>1. \A k \in 1 .. z : k \in 1 .. z - 1 \/ k = z
      OBVIOUS
    <3> QED BY <1>1, <1>2, <1>3, <3>1
  <2> QED BY <2>1, <2>2
<1> QED
  BY <1>2, <1>3, <1>4, <1>5 DEF HeapHolds

\* Another entry at the place of one.
LEMMA ReplaceHolds ==
  ASSUME NEW h, NEW S, HeapHolds(h, S), NEW i \in 1 .. Len(h), NEW e \in Entries, e \notin S
  PROVE  /\ HeapHolds([h EXCEPT ![i] = e], (S \ {h[i]}) \cup {e})
         /\ Len([h EXCEPT ![i] = e]) = Len(h)
<1>1. h \in Seq(Entries) /\ S = {h[k] : k \in 1 .. Len(h)} /\ \A k, l \in 1 .. Len(h) : h[k] = h[l] => k = l
  BY DEF HeapHolds
<1>2. PICK r \in Seq(Entries) :
        /\ r = [h EXCEPT ![i] = e] /\ Len(r) = Len(h)
        /\ \A k \in 1 .. Len(h) : r[k] = IF k = i THEN e ELSE h[k]
  <2>1. h \in Seq(Entries)
    BY <1>1
  <2>2. [h EXCEPT ![i] = e] \in Seq(Entries) /\ Len([h EXCEPT ![i] = e]) = Len(h)
    BY ONLY <2>1, e \in Entries, i \in 1 .. Len(h)
  <2>3. \A k \in 1 .. Len(h) : [h EXCEPT ![i] = e][k] = IF k = i THEN e ELSE h[k]
    BY ONLY <2>1, e \in Entries, i \in 1 .. Len(h)
  <2> QED BY <2>2, <2>3
<1>3. \A k, l \in 1 .. Len(r) : r[k] = r[l] => k = l
  BY <1>1, <1>2
<1>4. (S \ {h[i]}) \cup {e} = {r[k] : k \in 1 .. Len(r)}
  <2>1. \A k \in 1 .. Len(r) : r[k] \in (S \ {h[i]}) \cup {e}
    BY <1>1, <1>2
  <2>2. \A x \in (S \ {h[i]}) \cup {e} : \E k \in 1 .. Len(r) : x = r[k]
    BY <1>1, <1>2
  <2> QED BY <2>1, <2>2
<1> QED
  BY <1>2, <1>3, <1>4 DEF HeapHolds

\* Taking an entry out leaves the others.
LEMMA TakeOutHolds ==
  ASSUME NEW h, NEW S, HeapHolds(h, S), NEW i \in 1 .. Len(h)
  PROVE  HeapHolds(TakeOut(h, i), S \ {h[i]}) /\ Len(TakeOut(h, i)) = Len(h) - 1
<1>1. h \in Seq(Entries) /\ S = {h[k] : k \in 1 .. Len(h)} /\ \A k, l \in 1 .. Len(h) : h[k] = h[l] => k = l
  BY DEF HeapHolds
<1>2. PICK z \in Nat, e \in Entries : z > 0 /\ z = Len(h) /\ e = Last(h) /\ e = h[z]
  <2>1. Len(h) \in Nat /\ Len(h) > 0 /\ h[Len(h)] \in Entries /\ Last(h) = h[Len(h)]
    BY <1>1 DEF Last
  <2> QED BY <2>1
<1>3. PICK r : r = Front(h) /\ HeapHolds(r, S \ {e}) /\ Len(r) = z - 1
  <2>1. Len(h) > 0 /\ h[Len(h)] = e
    BY <1>2
  <2>2. HeapHolds(Front(h), S \ {h[Len(h)]}) /\ Len(Front(h)) = Len(h) - 1
    BY <2>1, FrontHolds
  <2> QED BY <1>2, <2>1, <2>2
<1>4. CASE i > z - 1
  <2>1. i = z /\ TakeOut(h, i) = r
    BY <1>2, <1>3, <1>4 DEF TakeOut
  <2> QED BY <1>2, <1>3, <2>1
<1>5. CASE i <= z - 1
  <2>1. i \in 1 .. Len(r) /\ r[i] = h[i] /\ h[i] # e
    <3>1. i \in 1 .. z - 1 /\ i # z
      BY <1>2, <1>5
    <3>2. r[i] = h[i]
      BY <1>1, <1>2, <1>3, <3>1 DEF Front
    <3> QED BY <1>1, <1>2, <1>3, <3>1, <3>2
  <2>2. PICK q : q = [r EXCEPT ![i] = e] /\ HeapHolds(q, ((S \ {e}) \ {r[i]}) \cup {e}) /\ Len(q) = Len(r)
    <3>1. e \notin S \ {e}
      OBVIOUS
    <3> QED BY <1>3, <2>1, <3>1, ReplaceHolds
  <2>3. ((S \ {e}) \ {r[i]}) \cup {e} = S \ {h[i]}
    BY <1>1, <1>2, <2>1
  <2>4. HeapHolds(SiftDown(q, i), S \ {h[i]}) /\ Len(SiftDown(q, i)) = Len(q)
    BY <2>1, <2>2, <2>3, SiftDownHolds
  <2>5. PICK p : p = SiftDown(q, i) /\ HeapHolds(p, S \ {h[i]}) /\ Len(p) = Len(q)
    BY <2>4
  <2>6. HeapHolds(SiftUp(p, i), S \ {h[i]}) /\ Len(SiftUp(p, i)) = Len(p)
    <3>1. i \in 1 .. Len(p)
      BY <2>1, <2>2, <2>5
    <3> QED BY <2>5, <3>1, SiftUpHolds
  <2>7. TakeOut(h, i) = SiftUp(p, i)
    BY <1>2, <1>3, <1>5, <2>2, <2>5 DEF TakeOut
  <2> QED BY <1>2, <1>3, <2>2, <2>5, <2>6, <2>7
<1> QED
  <2>1. i > z - 1 \/ i <= z - 1
    BY <1>2
  <2> QED BY <1>4, <1>5, <2>1

LEMMA PushHolds ==
  ASSUME NEW h, NEW S, HeapHolds(h, S), NEW e \in Entries, e \notin S
  PROVE  HeapHolds(Push(h, e), S \cup {e}) /\ Len(Push(h, e)) = Len(h) + 1
<1>1. PICK r : r = Append(h, e) /\ HeapHolds(r, S \cup {e}) /\ Len(r) = Len(h) + 1
  BY AppendHolds
<1>2. PICK i \in 1 .. Len(r) : i = Len(h) + 1
  <2>1. Len(h) \in Nat
    BY DEF HeapHolds
  <2> QED BY <1>1, <2>1
<1>3. HeapHolds(SiftUp(r, i), S \cup {e}) /\ Len(SiftUp(r, i)) = Len(r)
  BY <1>1, SiftUpHolds
<1> QED
  BY <1>1, <1>2, <1>3 DEF Push

\* A push or a take, and nothing else, changes the heap.
LEMMA HeapInductive ==
  ASSUME HeapIInv, [HeapNext]_heapVars
  PROVE  HeapIInv'
<1>1. ASSUME NEW e \in Entries, PushOne(e) PROVE HeapIInv'
  <2>1. e \notin inside
    BY <1>1 DEF PushOne
  <2> QED BY <1>1, <2>1, PushHolds DEF HeapIInv, PushOne
<1>2. ASSUME NEW i \in 1 .. Len(heap), Take(i) PROVE HeapIInv'
  BY <1>2, TakeOutHolds DEF HeapIInv, Take
<1>3. CASE UNCHANGED heapVars
  BY <1>3 DEF HeapIInv, heapVars
<1> QED
  BY <1>1, <1>2, <1>3 DEF HeapNext

LEMMA HeapStarts == HeapInit => HeapIInv
<1> SUFFICES ASSUME HeapInit PROVE HeapHolds(<<>>, {})
  BY DEF HeapInit, HeapIInv
<1>1. <<>> \in Seq(Entries) /\ Len(<<>>) = 0 /\ \A i \in 1 .. 0 : FALSE
  OBVIOUS
<1> QED
  BY <1>1 DEF HeapHolds

\* The ready heap has what was pushed and not taken, each once, whatever is pushed, popped and removed and
\* however often the heap is out of order (push, pop, remove, siftUp, siftDown).
THEOREM HeapKeepsEntries == HeapSpec => []EntriesKept
<1>1. HeapIInv => EntriesKept
  <2> SUFFICES ASSUME HeapIInv PROVE EntriesKept
    OBVIOUS
  <2>1. /\ heap \in Seq(Entries) /\ inside = {heap[i] : i \in 1 .. Len(heap)}
        /\ \A i, j \in 1 .. Len(heap) : heap[i] = heap[j] => i = j
    BY DEF HeapIInv, HeapHolds
  <2>2. ToSet(heap) = inside
    BY <2>1 DEF ToSet
  <2>3. Cardinality(inside) = Len(heap)
    <3>1. DOMAIN heap = 1 .. Len(heap) /\ Distinct(heap) /\ heap \in Seq(Entries)
      BY <2>1 DEF Distinct
    <3>2. Cardinality({heap[i] : i \in DOMAIN heap}) = Len(heap)
      BY ONLY <3>1, DistinctCount
    <3> QED BY <2>1, <3>1, <3>2
  <2> QED BY <2>2, <2>3 DEF EntriesKept
<1> QED
  BY <1>1, HeapStarts, HeapInductive, PTL DEF HeapSpec

-----------------------------------------------------------------------------
(* The order of the heap.                                                  *)

\* The array a is in order but for what rises at i, which has nothing below it that should be above it.
Orderly(a, i) ==
  /\ \A j \in 2 .. Len(a) : j # i => ~Before(a[j], a[j \div 2])
  /\ i > 1 => \A j \in 2 .. Len(a) : j \div 2 = i => ~Before(a[j], a[i \div 2])

\* gt orders entries by their keys and then by their seq.
LEMMA OrderOfEntries ==
  ASSUME NEW a \in Entries, NEW b \in Entries, NEW c \in Entries
  PROVE  /\ Before(a, b) => ~Before(b, a)
         /\ Before(a, b) /\ Before(b, c) => Before(a, c)
         /\ ~Before(a, b) /\ ~Before(b, c) => ~Before(a, c)
<1>1. \A x \in Entries : x.key \in Int /\ x.seq \in Int
  <2> SUFFICES ASSUME NEW x \in Entries PROVE x.key \in Int /\ x.seq \in Int
    OBVIOUS
  <2>1. x.key \in Priorities /\ x.seq \in 0 .. MaxHeap - 1
    BY DEF Entries
  <2>2. x.key \in Int
    BY <2>1, HeapAssumption
  <2>3. x.seq \in Int
    BY <2>1, HeapAssumption
  <2> QED BY <2>2, <2>3
<1>2. PICK k1 \in Int, k2 \in Int, k3 \in Int, s1 \in Int, s2 \in Int, s3 \in Int :
        /\ k1 = a.key /\ k2 = b.key /\ k3 = c.key
        /\ s1 = a.seq /\ s2 = b.seq /\ s3 = c.seq
  BY <1>1
<1>3. /\ Before(a, b) <=> k1 > k2 \/ (k1 = k2 /\ s1 < s2)
      /\ Before(b, c) <=> k2 > k3 \/ (k2 = k3 /\ s2 < s3)
      /\ Before(a, c) <=> k1 > k3 \/ (k1 = k3 /\ s1 < s3)
      /\ Before(b, a) <=> k2 > k1 \/ (k2 = k1 /\ s2 < s1)
  BY <1>2 DEF Before
<1> QED
  BY <1>3

\* A turn of siftUp that moves keeps the order.
LEMMA RiseKeepsOrder ==
  ASSUME NEW a \in Seq(Entries), NEW i \in 2 .. Len(a), Orderly(a, i), Before(a[i], a[i \div 2])
  PROVE  Orderly(Swapped(a, i, i \div 2), i \div 2)
<1>1. PICK z \in Nat, p \in Nat : z = Len(a) /\ p = i \div 2 /\ p \in 1 .. i - 1 /\ i \in 2 .. z
  <2>1. i \in Nat /\ i > 1 /\ Len(a) \in Nat
    OBVIOUS
  <2>2. i \div 2 \in 1 .. i - 1
    BY <2>1, Parents
  <2> QED BY <2>1, <2>2
<1>2. PICK r : /\ r = Swapped(a, i, p) /\ Len(r) = z
               /\ \A k \in 1 .. z : r[k] = IF k = p THEN a[i] ELSE IF k = i THEN a[p] ELSE a[k]
  <2>1. i \in 1 .. Len(a) /\ p \in 1 .. Len(a)
    BY <1>1
  <2>2. /\ Len(Swapped(a, i, p)) = Len(a)
        /\ \A k \in 1 .. Len(a) :
             Swapped(a, i, p)[k] = IF k = p THEN a[i] ELSE IF k = i THEN a[p] ELSE a[k]
    <3>1. Len(Swapped(a, i, p)) = Len(a)
      BY ONLY <2>1, a \in Seq(Entries) DEF Swapped
    <3>2. ASSUME NEW k \in 1 .. Len(a)
          PROVE  Swapped(a, i, p)[k] = IF k = p THEN a[i] ELSE IF k = i THEN a[p] ELSE a[k]
      BY ONLY <2>1, a \in Seq(Entries), k \in 1 .. Len(a) DEF Swapped
    <3> QED BY ONLY <3>1, <3>2
  <2> QED BY <1>1, <2>2
<1> DEFINE up == [j \in 2 .. z |-> j \div 2]
<1>3. \A j \in 2 .. z : up[j] = j \div 2 /\ up[j] \in 1 .. j - 1
  <2> SUFFICES ASSUME NEW j \in 2 .. z PROVE j \div 2 \in 1 .. j - 1
    OBVIOUS
  <2>1. j \in Nat /\ j > 1
    OBVIOUS
  <2> QED BY <2>1, Parents
<1> HIDE DEF up
<1>4. /\ \A j \in 2 .. z : j # i => ~Before(a[j], a[up[j]])
      /\ \A j \in 2 .. z : up[j] = i => ~Before(a[j], a[p])
      /\ up[i] = p /\ Before(a[i], a[p])
  <2>1. /\ \A j \in 2 .. z : j # i => ~Before(a[j], a[j \div 2])
        /\ \A j \in 2 .. z : j \div 2 = i => ~Before(a[j], a[p])
    BY <1>1 DEF Orderly
  <2> QED BY <1>1, <1>3, <2>1
<1>5. \A j \in 1 .. z : a[j] \in Entries
  BY <1>1
<1>6. ASSUME NEW j \in 2 .. z, j # p PROVE ~Before(r[j], r[up[j]])
  <2>1. j \in 1 .. z /\ up[j] \in 1 .. z /\ up[j] < j
    BY <1>3
  <2>2. CASE j = i
    <3>1. r[j] = a[p] /\ r[up[j]] = a[i]
      BY <1>1, <1>2, <1>4, <2>1, <2>2
    <3> QED BY <1>1, <1>4, <1>5, <3>1, OrderOfEntries
  <2>3. CASE j # i /\ up[j] = i
    <3>1. r[j] = a[j] /\ r[up[j]] = a[p]
      BY <1>1, <1>2, <1>6, <2>1, <2>3
    <3> QED BY <1>4, <2>3, <3>1
  <2>4. CASE j # i /\ up[j] = p
    <3>1. r[j] = a[j] /\ r[up[j]] = a[i]
      BY <1>1, <1>2, <1>6, <2>1, <2>4
    <3>2. ~Before(a[j], a[p])
      BY <1>4, <2>4
    <3>3. i \in 1 .. z /\ p \in 1 .. z
      BY <1>1
    <3>4. a[i] \in Entries /\ a[p] \in Entries /\ a[j] \in Entries
      BY <1>5, <2>1, <3>3
    <3> QED BY <1>4, <3>1, <3>2, <3>4, OrderOfEntries
  <2>5. CASE j # i /\ up[j] # i /\ up[j] # p
    <3>1. r[j] = a[j] /\ r[up[j]] = a[up[j]]
      BY <1>2, <1>6, <2>1, <2>5
    <3> QED BY <1>4, <2>5, <3>1
  <2> QED BY <2>2, <2>3, <2>4, <2>5
<1>7. ASSUME NEW j \in 2 .. z, up[j] = p, p > 1 PROVE ~Before(r[j], r[up[p]])
  <2>1. p \in 2 .. z /\ j \in 1 .. z /\ j # p /\ p # i
    BY <1>1, <1>3, <1>7
  <2>2. up[p] \in 1 .. z /\ up[p] # p /\ up[p] # i
    BY <1>1, <1>3, <2>1
  <2>3. ~Before(a[p], a[up[p]]) /\ r[up[p]] = a[up[p]]
    BY <1>2, <1>4, <2>1, <2>2
  <2>4. CASE j = i
    <3>1. r[j] = a[p]
      BY <1>2, <2>1, <2>4
    <3> QED BY <2>3, <3>1
  <2>5. CASE j # i
    <3>1. r[j] = a[j] /\ ~Before(a[j], a[p])
      BY <1>2, <1>4, <1>7, <2>1, <2>5
    <3>2. p \in 1 .. z
      BY <1>1
    <3>3. a[j] \in Entries /\ a[p] \in Entries /\ a[up[p]] \in Entries
      BY <1>5, <2>1, <2>2, <3>2
    <3> QED BY <2>3, <3>1, <3>3, OrderOfEntries
  <2> QED BY <2>4, <2>5
<1>8. Orderly(r, p)
  <2>1. \A j \in 2 .. Len(r) : j # p => ~Before(r[j], r[j \div 2])
    BY <1>2, <1>3, <1>6
  <2>2. ASSUME p > 1 PROVE \A j \in 2 .. Len(r) : j \div 2 = p => ~Before(r[j], r[p \div 2])
    <3>1. p \in 2 .. z
      BY <1>1, <2>2
    <3> QED BY <1>2, <1>3, <1>7, <2>2, <3>1
  <2> QED BY <2>1, <2>2 DEF Orderly
<1> QED
  BY <1>1, <1>2, <1>8

\* The entry at i rises until the heap is in order.
LEMMA SiftUpOrders ==
  ASSUME NEW h \in Seq(Entries), NEW i \in 1 .. Len(h), Orderly(h, i)
  PROVE  Valid(SiftUp(h, i))
<1>1. PICK f : /\ Rises(f, h, i) /\ SiftUp(h, i) = f[i].array
               /\ \A n \in 0 .. i : f[n] \in Sifts
  BY RiseTurns
<1>2. \A n \in 0 .. i : f[n] = IF n = 0 THEN [array |-> h, at |-> i] ELSE Rise(f[n - 1])
  BY <1>1, Zenon DEF Rises
<1> DEFINE Moves(s) == s.at > 1 /\ Before(s.array[s.at], s.array[s.at \div 2])
           Q == {n \in Nat : n <= i => /\ Orderly(f[n].array, f[n].at)
                                       /\ f[n].at <= i - n \/ ~Moves(f[n])}
<1>3. 0 \in Q
  <2>1. f[0] = [array |-> h, at |-> i]
    BY <1>2
  <2> QED BY <2>1
<1>4. ASSUME NEW n \in Nat, n \in Q PROVE n + 1 \in Q
  <2> SUFFICES ASSUME n + 1 <= i
               PROVE  /\ Orderly(f[n + 1].array, f[n + 1].at)
                      /\ f[n + 1].at <= i - (n + 1) \/ ~Moves(f[n + 1])
    OBVIOUS
  <2>1. n + 1 \in 0 .. i /\ n + 1 # 0 /\ n + 1 - 1 = n /\ n \in 0 .. i
    OBVIOUS
  <2>2. PICK s : s = f[n]
    OBVIOUS
  <2>3. /\ f[n + 1] = Rise(s) /\ s \in Sifts /\ Orderly(s.array, s.at)
        /\ s.at <= i - n \/ ~Moves(s)
    BY <1>1, <1>2, <1>4, <2>1, <2>2
  <2>4. CASE Moves(s)
    <3>1. s.array \in Seq(Entries) /\ s.at \in Nat /\ s.at \in 2 .. Len(s.array) /\ s.at > 1
      BY <2>3, <2>4 DEF Sifts
    <3>2. Orderly(Swapped(s.array, s.at, s.at \div 2), s.at \div 2)
      BY <2>3, <2>4, <3>1, RiseKeepsOrder
    <3>3. s.at \div 2 \in 1 .. s.at - 1
      BY <3>1, Parents
    <3>4. Rise(s).array = Swapped(s.array, s.at, s.at \div 2) /\ Rise(s).at = s.at \div 2
      BY <2>4 DEF Rise
    <3>5. PICK p \in Nat : p = s.at \div 2 /\ p \in 1 .. s.at - 1
      BY <3>3
    <3>6. p <= i - (n + 1)
      BY <2>3, <2>4, <3>1, <3>5
    <3> QED BY <2>3, <3>2, <3>4, <3>5, <3>6
  <2>5. CASE ~Moves(s)
    <3>1. Rise(s) = s
      BY <2>5 DEF Rise
    <3> HIDE DEF Moves
    <3> QED BY <2>3, <2>5, <3>1
  <2> QED BY <2>4, <2>5
<1>5. \A n \in Nat : n \in Q
  <2> HIDE DEF Q
  <2> QED BY <1>3, <1>4, Induction
<1>6. PICK s : s = f[i] /\ s \in Sifts /\ Orderly(s.array, s.at) /\ ~Moves(s)
  <2>1. i \in Nat /\ i \in 0 .. i /\ i <= i /\ i - i = 0
    OBVIOUS
  <2>2. f[i] \in Sifts /\ Orderly(f[i].array, f[i].at) /\ (f[i].at <= 0 \/ ~Moves(f[i]))
    <3> HIDE DEF Moves
    <3> QED BY <1>1, <1>5, <2>1
  <2>3. f[i].at \in Nat /\ f[i].at > 0
    BY <2>2 DEF Sifts
  <2> HIDE DEF Moves
  <2> QED BY <2>2, <2>3
<1>7. \A j \in 2 .. Len(s.array) : ~Before(s.array[j], s.array[j \div 2])
  <2> SUFFICES ASSUME NEW j \in 2 .. Len(s.array) PROVE ~Before(s.array[j], s.array[j \div 2])
    OBVIOUS
  <2>1. CASE j = s.at
    BY <1>6, <2>1
  <2>2. CASE j # s.at
    BY <1>6, <2>2 DEF Orderly
  <2> QED BY <2>1, <2>2
<1> QED
  BY <1>1, <1>6, <1>7 DEF Valid

LEMMA PushOrders ==
  ASSUME NEW h \in Seq(Entries), Valid(h), NEW e \in Entries
  PROVE  Valid(Push(h, e))
<1>1. PICK z \in Nat : z = Len(h)
  OBVIOUS
<1>2. PICK r : /\ r = Append(h, e) /\ r \in Seq(Entries) /\ Len(r) = z + 1
               /\ \A k \in 1 .. z : r[k] = h[k]
  <2>1. Append(h, e) \in Seq(Entries) /\ Len(Append(h, e)) = Len(h) + 1
    BY AppendProperties
  <2>2. \A k \in 1 .. Len(h) : Append(h, e)[k] = h[k]
    BY AppendProperties
  <2> QED BY <1>1, <2>1, <2>2
<1>3. \A j \in 2 .. z + 1 : j \div 2 \in 1 .. j - 1
  <2> SUFFICES ASSUME NEW j \in 2 .. z + 1 PROVE j \div 2 \in 1 .. j - 1
    OBVIOUS
  <2>1. j \in Nat /\ j > 1
    OBVIOUS
  <2> QED BY <2>1, Parents
<1>4. PICK i \in 1 .. Len(r) : i = z + 1
  BY <1>1, <1>2
<1>5. Orderly(r, i)
  <2>1. ASSUME NEW j \in 2 .. z + 1, j # z + 1 PROVE ~Before(r[j], r[j \div 2])
    <3>1. j \in 2 .. z /\ j \in 1 .. z
      BY <2>1
    <3>2. j \div 2 \in 1 .. z
      BY <1>3, <3>1
    <3>3. ~Before(h[j], h[j \div 2])
      BY <1>1, <3>1 DEF Valid
    <3> QED BY <1>2, <3>1, <3>2, <3>3
  <2>2. \A j \in 2 .. z + 1 : j \div 2 # z + 1
    BY <1>3
  <2> QED BY <1>2, <1>4, <2>1, <2>2 DEF Orderly
<1>6. Valid(SiftUp(r, i))
  BY <1>2, <1>5, SiftUpOrders
<1> QED
  BY <1>1, <1>2, <1>4, <1>6 DEF Push

\* A push into a heap that is in order leaves it in order, for any entries and any length (push, siftUp).
THEOREM PushesKeepOrder == HeapSpec => PushKeepsValid
<1>1. ASSUME HeapIInv, [HeapNext]_heapVars
      PROVE  [Valid(heap) /\ Len(heap') > Len(heap) => Valid(heap')]_heapVars
  <2> SUFFICES ASSUME Valid(heap), Len(heap') > Len(heap) PROVE Valid(heap')
    OBVIOUS
  <2>1. heap \in Seq(Entries) /\ Len(heap) \in Nat
    BY <1>1 DEF HeapIInv, HeapHolds
  <2>2. ASSUME NEW e \in Entries, PushOne(e) PROVE Valid(heap')
    BY <2>1, <2>2, PushOrders DEF PushOne
  <2>3. ASSUME NEW i \in 1 .. Len(heap), Take(i) PROVE FALSE
    <3>1. Len(heap') = Len(heap) - 1
      BY <1>1, <2>3, TakeOutHolds DEF HeapIInv, Take
    <3> QED BY <2>1, <3>1
  <2>4. CASE UNCHANGED heapVars
    BY <2>1, <2>4 DEF heapVars
  <2> QED BY <1>1, <2>2, <2>3, <2>4 DEF HeapNext
<1> QED
  BY <1>1, HeapStarts, HeapInductive, PTL DEF HeapSpec, PushKeepsValid

-----------------------------------------------------------------------------
(***************************************************************************)
(*  What reaches the adapter is a prefix of what the write queue           *)
(*  accepted, for any number of chunks of any size and any watermarks;     *)
(*  and the bytes and chunks it counts are those it holds.                 *)
(*                                                                         *)
(*  The ring goes on where the sent chunks end. While the queue accepts,   *)
(*  the two together are all that was accepted, so the next number         *)
(*  follows; once it has ended or its adapter is closed, a gap may open    *)
(*  behind them, but nothing is accepted after the gap. The count of the   *)
(*  bytes is the sum of the sizes of what the ring holds, and chunks       *)
(*  leave the ring from its front.                                         *)
(***************************************************************************)

Fields == {"ring", "bytes", "paused", "drained", "ended", "waiting"}

QueueShaped(q) == q = [x \in Fields |-> q[x]]

AdapterShaped(a) == a = [x \in {"state", "paused", "hooked"} |-> a[x]]

Shapes == QueueShaped(wq) /\ AdapterShaped(adapter)

Numbers == size \in Seq(Nat) /\ sent \in Seq(Nat) /\ wq.ring \in Seq(Nat)

InOrder == /\ \A i \in 1 .. Len(sent) : sent[i] = i
           /\ \A i \in 1 .. Len(wq.ring) : wq.ring[i] = Len(sent) + i

NoGap == adapter.state = "open" /\ ~wq.ended => Len(size) = Len(sent) + Len(wq.ring)

OrderInv == Shapes /\ Numbers /\ InOrder /\ NoGap

-----------------------------------------------------------------------------
(* The watermarks' flags leave the ring and its bytes alone.               *)

LEMMA UpdatedKeepsRing ==
  ASSUME NEW q, QueueShaped(q)
  PROVE  /\ QueueShaped(Updated(q))
         /\ Updated(q).ring = q.ring /\ Updated(q).ended = q.ended
         /\ Updated(q).bytes = q.bytes /\ Updated(q).paused = q.paused
<1>1. CASE ~q.drained /\ q.bytes < Low
  BY <1>1 DEF QueueShaped, Fields, Updated
<1>2. CASE ~(~q.drained /\ q.bytes < Low) /\ q.drained /\ q.bytes >= High
  BY <1>2 DEF QueueShaped, Fields, Updated
<1>3. CASE ~(~q.drained /\ q.bytes < Low) /\ ~(q.drained /\ q.bytes >= High)
  BY <1>3 DEF Updated
<1> QED
  BY <1>1, <1>2, <1>3

LEMMA WithoutFirstDropsFirst ==
  ASSUME QueueShaped(wq), NEW n, NEW refused
  PROVE  /\ QueueShaped(WithoutFirst(n, refused))
         /\ WithoutFirst(n, refused).ring = SubSeq(wq.ring, n + 1, Len(wq.ring))
         /\ WithoutFirst(n, refused).ended = wq.ended
         /\ WithoutFirst(n, refused).bytes = wq.bytes - BytesOf(SubSeq(wq.ring, 1, n))
         /\ WithoutFirst(n, refused).paused = refused
<1> DEFINE bytes == wq.bytes - BytesOf(SubSeq(wq.ring, 1, n))
           rest == SubSeq(wq.ring, n + 1, Len(wq.ring))
           cut == [wq EXCEPT !.ring = rest, !.bytes = bytes, !.paused = refused]
           q == Updated(cut)
<1>1. WithoutFirst(n, refused) = IF q.ring = <<>> /\ ~refused
                                 THEN [q EXCEPT !.waiting = FALSE] ELSE q
  BY DEF WithoutFirst
<1> HIDE DEF bytes, rest
<1>2. /\ QueueShaped(cut) /\ cut.ring = rest /\ cut.ended = wq.ended
      /\ cut.bytes = bytes /\ cut.paused = refused
  BY DEF QueueShaped, Fields
<1> HIDE DEF cut
<1>3. /\ QueueShaped(q) /\ q.ring = cut.ring /\ q.ended = cut.ended
      /\ q.bytes = cut.bytes /\ q.paused = cut.paused
  BY <1>2, UpdatedKeepsRing
<1> HIDE DEF q
<1>4. /\ QueueShaped(WithoutFirst(n, refused)) /\ WithoutFirst(n, refused).ring = rest
      /\ WithoutFirst(n, refused).ended = wq.ended
  BY <1>1, <1>2, <1>3 DEF QueueShaped, Fields
<1>5. WithoutFirst(n, refused).bytes = bytes /\ WithoutFirst(n, refused).paused = refused
  BY <1>1, <1>2, <1>3 DEF QueueShaped, Fields
<1> QED
  BY <1>4, <1>5 DEF rest, bytes

-----------------------------------------------------------------------------
(* The steps.                                                              *)

LEMMA OrderInitially == WriteInit => OrderInv
BY DEF WriteInit, OrderInv, Shapes, QueueShaped, Fields, AdapterShaped, Numbers, InOrder, NoGap

LEMMA OfferKeepsOrder ==
  ASSUME OrderInv, NEW n \in ChunkSizes, Offer(n)
  PROVE  OrderInv'
<1> DEFINE c == Len(size) + 1
<1>1. /\ adapter.state = "open" /\ ~wq.ended /\ size' = Append(size, n) /\ n \in Nat
      /\ c = Len(sent) + Len(wq.ring) + 1
  BY WriteQueueAssumption DEF OrderInv, NoGap, Offer
<1>2. size' \in Seq(Nat) /\ Len(size') = c /\ c \in Nat
  BY <1>1 DEF OrderInv, Numbers
<1>3. CASE WritesThrough(wq)
  <2>1. PICK refuses \in BOOLEAN :
          /\ sent' = Append(sent, c)
          /\ wq' = IF refuses THEN [wq EXCEPT !.paused = TRUE, !.drained = FALSE] ELSE wq
          /\ adapter' = [adapter EXCEPT !.paused = refuses]
    BY <1>3 DEF Offer
  <2>2. /\ Shapes' /\ wq'.ring = wq.ring /\ wq.ring = <<>>
    BY <1>3, <2>1 DEF OrderInv, Shapes, QueueShaped, Fields, AdapterShaped, WritesThrough
  <2>3. /\ sent' \in Seq(Nat) /\ Len(sent') = Len(sent) + 1 /\ c = Len(sent) + 1
        /\ \A i \in 1 .. Len(sent') : sent'[i] = IF i = c THEN c ELSE sent[i]
    BY <1>1, <1>2, <2>1, <2>2 DEF OrderInv, Numbers
  <2>4. Numbers'
    BY <1>2, <2>2, <2>3 DEF OrderInv, Numbers
  <2>5. InOrder'
    <3>1. Len(sent) \in Nat /\ \A i \in 1 .. Len(sent) : sent[i] = i
      BY DEF OrderInv, Numbers, InOrder
    <3>2. \A i \in 1 .. Len(sent') : sent'[i] = i
      BY <2>3, <3>1
    <3>3. wq'.ring = <<>>
      BY <2>2
    <3> QED
      BY <3>2, <3>3 DEF InOrder
  <2>6. NoGap'
    BY <1>2, <2>2, <2>3 DEF NoGap
  <2> QED
    BY <2>2, <2>4, <2>5, <2>6 DEF OrderInv
<1>4. CASE ~WritesThrough(wq)
  <2> DEFINE q == [wq EXCEPT !.ring = Append(wq.ring, c), !.bytes = wq.bytes + n]
  <2>1. wq' = Updated(q) /\ UNCHANGED <<sent, adapter>>
    BY <1>4 DEF Offer
  <2>2. QueueShaped(q) /\ q.ring = Append(wq.ring, c)
    <3> DEFINE r == Append(wq.ring, c)
               b == wq.bytes + n
    <3> HIDE DEF r, b
    <3>1. [wq EXCEPT !.ring = r, !.bytes = b].ring = r
      BY DEF OrderInv, Shapes, QueueShaped, Fields
    <3>2. QueueShaped([wq EXCEPT !.ring = r, !.bytes = b])
      BY DEF OrderInv, Shapes, QueueShaped, Fields
    <3> QED
      BY <3>1, <3>2 DEF r, b
  <2> HIDE DEF q
  <2>3. Shapes' /\ wq'.ring = Append(wq.ring, c)
    BY <2>1, <2>2, UpdatedKeepsRing DEF OrderInv, Shapes
  <2>4. /\ wq'.ring \in Seq(Nat) /\ Len(wq'.ring) = Len(wq.ring) + 1
        /\ \A i \in 1 .. Len(wq'.ring) :
             wq'.ring[i] = IF i = Len(wq.ring) + 1 THEN c ELSE wq.ring[i]
    BY <1>2, <2>3 DEF OrderInv, Numbers
  <2>5. Numbers'
    BY <1>2, <2>1, <2>4 DEF OrderInv, Numbers
  <2>6. InOrder'
    <3>1. /\ Len(wq.ring) \in Nat /\ Len(sent) \in Nat
          /\ \A i \in 1 .. Len(wq.ring) : wq.ring[i] = Len(sent) + i
          /\ \A i \in 1 .. Len(sent) : sent[i] = i
      BY DEF OrderInv, Numbers, InOrder
    <3>2. \A i \in 1 .. Len(wq'.ring) : wq'.ring[i] = Len(sent) + i
      <4>1. c = Len(sent) + (Len(wq.ring) + 1)
        BY <1>1, <3>1
      <4> HIDE DEF c
      <4> QED
        <5> SUFFICES ASSUME NEW i \in 1 .. Len(wq'.ring) PROVE wq'.ring[i] = Len(sent) + i
          OBVIOUS
        <5>1. CASE i = Len(wq.ring) + 1
          BY <2>4, <4>1, <5>1
        <5>2. CASE i # Len(wq.ring) + 1
          <6>1. i \in 1 .. Len(wq.ring) /\ wq'.ring[i] = wq.ring[i]
            BY <2>4, <3>1, <5>2
          <6> QED
            BY <3>1, <6>1
        <5> QED
          BY <5>1, <5>2
    <3> QED
      BY <2>1, <3>1, <3>2 DEF InOrder
  <2>7. NoGap'
    <3>1. Len(wq.ring) \in Nat /\ Len(sent) \in Nat
      BY DEF OrderInv, Numbers
    <3> QED
      BY <1>1, <1>2, <2>1, <2>4, <3>1 DEF NoGap
  <2> QED
    BY <2>3, <2>5, <2>6, <2>7 DEF OrderInv
<1> QED
  BY <1>3, <1>4

\* The chunks between the sent ones and the rest of the ring are handed over,
\* or, when the adapter is closed, the whole ring is given up.
LEMMA FlushKeepsOrder ==
  ASSUME OrderInv, Flush, UNCHANGED size
  PROVE  OrderInv'
<1>1. CASE adapter.state = "open"
  <2>1. PICK n \in 0 .. Len(wq.ring), refused \in BOOLEAN :
          /\ wq' = WithoutFirst(n, refused)
          /\ sent' = sent \o SubSeq(wq.ring, 1, n)
          /\ adapter' = [adapter EXCEPT !.paused = refused, !.hooked = FALSE]
    BY <1>1 DEF Flush
  <2>2. /\ Shapes' /\ wq'.ring = SubSeq(wq.ring, n + 1, Len(wq.ring))
        /\ wq'.ended = wq.ended /\ adapter'.state = adapter.state
    BY <2>1, WithoutFirstDropsFirst DEF OrderInv, Shapes, AdapterShaped
  <2>3. /\ wq.ring \in Seq(Nat) /\ sent \in Seq(Nat)
        /\ Len(wq.ring) \in Nat /\ Len(sent) \in Nat /\ n \in Nat
    BY DEF OrderInv, Numbers
  <2>4. /\ wq'.ring \in Seq(Nat) /\ Len(wq'.ring) = Len(wq.ring) - n
        /\ \A i \in 1 .. Len(wq'.ring) : wq'.ring[i] = wq.ring[n + i]
    BY <2>2, <2>3, Suffix, SMTT(20)
  <2>5. /\ SubSeq(wq.ring, 1, n) \in Seq(Nat) /\ Len(SubSeq(wq.ring, 1, n)) = n
        /\ \A i \in 1 .. n : SubSeq(wq.ring, 1, n)[i] = wq.ring[i]
    BY <2>3, SubSeqProperties
  <2>6. /\ sent' \in Seq(Nat) /\ Len(sent') = Len(sent) + n
        /\ \A i \in 1 .. Len(sent') :
             sent'[i] = IF i <= Len(sent) THEN sent[i] ELSE wq.ring[i - Len(sent)]
    <3> DEFINE out == SubSeq(wq.ring, 1, n)
    <3>1. /\ sent' = sent \o out /\ out \in Seq(Nat) /\ Len(out) = n
          /\ \A i \in 1 .. n : out[i] = wq.ring[i]
      BY <2>1, <2>5
    <3> HIDE DEF out
    <3>2. /\ sent \o out \in Seq(Nat) /\ Len(sent \o out) = Len(sent) + Len(out)
          /\ \A i \in 1 .. Len(sent) + Len(out) :
               (sent \o out)[i] = IF i <= Len(sent) THEN sent[i] ELSE out[i - Len(sent)]
      BY <2>3, <3>1, ConcatProperties
    <3>3. sent' \in Seq(Nat) /\ Len(sent') = Len(sent) + n
      BY <3>1, <3>2
    <3>4. ASSUME NEW i \in 1 .. Len(sent')
          PROVE  sent'[i] = IF i <= Len(sent) THEN sent[i] ELSE wq.ring[i - Len(sent)]
      <4>1. i \in Nat /\ i \in 1 .. Len(sent) + n
        BY <2>3, <3>3
      <4>2. sent'[i] = IF i <= Len(sent) THEN sent[i] ELSE out[i - Len(sent)]
        BY <3>1, <3>2, <4>1
      <4>3. CASE i <= Len(sent)
        BY <4>2, <4>3
      <4>4. CASE i > Len(sent)
        <5>1. i - Len(sent) \in 1 .. n
          BY <2>3, <4>1, <4>4
        <5> QED
          BY <2>3, <3>1, <4>1, <4>2, <4>4, <5>1
      <4> QED
        BY <2>3, <4>1, <4>3, <4>4
    <3> QED
      BY <3>3, <3>4
  <2>7. Numbers'
    BY <2>4, <2>6 DEF OrderInv, Numbers
  <2>8. InOrder'
    <3>1. ASSUME NEW i \in 1 .. Len(sent') PROVE sent'[i] = i
      <4>1. CASE i <= Len(sent)
        <5>1. i \in 1 .. Len(sent) /\ sent'[i] = sent[i]
          BY <2>3, <2>6, <4>1
        <5> QED
          BY <5>1 DEF OrderInv, InOrder
      <4>2. CASE i > Len(sent)
        <5>1. i - Len(sent) \in 1 .. Len(wq.ring)
          BY <2>3, <2>6, <4>2
        <5>2. wq.ring[i - Len(sent)] = Len(sent) + (i - Len(sent))
          BY <5>1 DEF OrderInv, InOrder
        <5>3. sent'[i] = wq.ring[i - Len(sent)]
          BY <2>3, <2>6, <4>2
        <5>4. \A x, j \in Nat : x + (j - x) = j
          OBVIOUS
        <5>5. i \in Nat
          BY <2>6
        <5>6. Len(sent) + (i - Len(sent)) = i
          BY <2>3, <5>4, <5>5
        <5> QED
          BY <5>2, <5>3, <5>6
      <4>3. i \in Nat
        BY <2>6
      <4> QED
        BY <2>3, <4>1, <4>2, <4>3
    <3>2. ASSUME NEW i \in 1 .. Len(wq'.ring) PROVE wq'.ring[i] = Len(sent') + i
      <4>1. n + i \in 1 .. Len(wq.ring)
        BY <2>3, <2>4
      <4>2. wq.ring[n + i] = Len(sent) + (n + i)
        BY <4>1 DEF OrderInv, InOrder
      <4>3. wq'.ring[i] = wq.ring[n + i] /\ Len(sent') = Len(sent) + n
        BY <2>4, <2>6
      <4>4. \A x, k, j \in Nat : x + (k + j) = (x + k) + j
        OBVIOUS
      <4>5. i \in Nat
        BY <2>4
      <4>6. Len(sent) + (n + i) = (Len(sent) + n) + i
        BY <2>3, <4>4, <4>5
      <4> QED
        BY <4>2, <4>3, <4>6
    <3> QED
      BY <3>1, <3>2 DEF InOrder
  <2>9. NoGap'
    <3>1. adapter.state = "open" /\ ~wq.ended => Len(size) = Len(sent) + Len(wq.ring)
      BY DEF OrderInv, NoGap
    <3> QED
      <4> SUFFICES ASSUME adapter'.state = "open" /\ ~wq'.ended
                   PROVE  Len(size') = Len(sent') + Len(wq'.ring)
        BY DEF NoGap
      <4>1. size' = size /\ Len(size) = Len(sent) + Len(wq.ring)
        BY <2>2, <3>1
      <4> QED
        <5>1. Len(sent') = Len(sent) + n /\ Len(wq'.ring) = Len(wq.ring) - n
          BY <2>4, <2>6
        <5>2. \A x, y, k \in Nat : (x + k) + (y - k) = x + y
          OBVIOUS
        <5>3. (Len(sent) + n) + (Len(wq.ring) - n) = Len(sent) + Len(wq.ring)
          BY <2>3, <5>2
        <5> QED
          BY <4>1, <5>1, <5>3
  <2> QED
    BY <2>2, <2>7, <2>8, <2>9 DEF OrderInv
<1>2. CASE adapter.state # "open"
  <2>1. /\ wq' = WithoutFirst(Len(wq.ring), FALSE)
        /\ adapter' = [adapter EXCEPT !.paused = FALSE, !.hooked = FALSE]
        /\ UNCHANGED sent
    BY <1>2 DEF Flush
  <2>2. /\ Shapes' /\ wq'.ring = SubSeq(wq.ring, Len(wq.ring) + 1, Len(wq.ring))
        /\ adapter'.state = adapter.state
    BY <2>1, WithoutFirstDropsFirst DEF OrderInv, Shapes, AdapterShaped
  <2>3. wq'.ring = <<>>
    BY <2>2 DEF OrderInv, Numbers
  <2>4. sent' = sent /\ size' = size /\ Len(wq'.ring) = 0 /\ wq'.ring \in Seq(Nat)
    <3>1. Len(<<>>) = 0 /\ <<>> \in Seq(Nat)
      OBVIOUS
    <3>2. sent' = sent /\ size' = size
      BY <2>1
    <3> QED
      BY <2>3, <3>1, <3>2
  <2>5. Numbers' /\ InOrder'
    BY <2>4 DEF OrderInv, Numbers, InOrder
  <2>6. NoGap'
    BY <1>2, <2>2 DEF NoGap
  <2> QED
    BY <2>2, <2>5, <2>6 DEF OrderInv
<1> QED
  BY <1>1, <1>2

LEMMA DrainSignalKeepsOrder ==
  ASSUME OrderInv, DrainSignal
  PROVE  OrderInv'
<1>1. CASE adapter.hooked
  BY <1>1, FlushKeepsOrder DEF DrainSignal
<1>2. CASE ~adapter.hooked
  <2>1. /\ adapter' = [adapter EXCEPT !.paused = FALSE] /\ UNCHANGED <<wq, sent, size>>
    BY <1>2 DEF DrainSignal
  <2>2. Shapes' /\ adapter'.state = adapter.state
    BY <2>1 DEF OrderInv, Shapes, QueueShaped, Fields, AdapterShaped
  <2> QED
    BY <2>1, <2>2 DEF OrderInv, Numbers, InOrder, NoGap
<1> QED
  BY <1>1, <1>2

\* Ending an adapter leaves it closed.
LEMMA EndedAdapterCloses ==
  ASSUME AdapterShaped(adapter), NEW a \in EndedAdapter(adapter)
  PROVE  AdapterShaped(a) /\ a.state # "open"
BY DEF EndedAdapter, AdapterShaped

LEMMA ShutdownKeepsOrder ==
  ASSUME OrderInv, Shutdown
  PROVE  OrderInv'
<1>1. /\ QueueShaped(wq') /\ wq'.ring = wq.ring /\ wq'.ended = TRUE
      /\ UNCHANGED <<size, sent>>
  BY DEF OrderInv, Shapes, QueueShaped, Fields, Shutdown
<1>2. adapter' = adapter \/ adapter' \in EndedAdapter(adapter)
  BY DEF Shutdown
<1>3. AdapterShaped(adapter')
  BY <1>2, EndedAdapterCloses DEF OrderInv, Shapes
<1> QED
  BY <1>1, <1>3 DEF OrderInv, Shapes, QueueShaped, Fields, AdapterShaped, Numbers, InOrder, NoGap

LEMMA FinishShutdownKeepsOrder ==
  ASSUME OrderInv, FinishShutdown
  PROVE  OrderInv'
<1>1. AdapterShaped(adapter') /\ adapter'.state # "open" /\ UNCHANGED <<wq, size, sent>>
  BY EndedAdapterCloses DEF OrderInv, Shapes, FinishShutdown
<1> QED
  BY <1>1 DEF OrderInv, Shapes, QueueShaped, Fields, AdapterShaped, Numbers, InOrder, NoGap

LEMMA AbortsKeepOrder ==
  ASSUME OrderInv, Aborts
  PROVE  OrderInv'
<1>1. /\ QueueShaped(wq') /\ wq'.ring = <<>> /\ AdapterShaped(adapter')
      /\ adapter'.state = "aborted" /\ UNCHANGED <<size, sent>>
  BY DEF OrderInv, Shapes, QueueShaped, Fields, AdapterShaped, Aborts
<1> QED
  BY <1>1 DEF OrderInv, Shapes, QueueShaped, Fields, AdapterShaped, Numbers, InOrder, NoGap

LEMMA OrderIsKept == OrderInv /\ [WriteNext]_writeVars => OrderInv'
<1> SUFFICES ASSUME OrderInv, [WriteNext]_writeVars PROVE OrderInv'
  OBVIOUS
<1>1. CASE \E n \in ChunkSizes : Offer(n)
  BY <1>1, OfferKeepsOrder
<1>2. CASE DrainSignal
  BY <1>2, DrainSignalKeepsOrder
<1>3. CASE Shutdown
  BY <1>3, ShutdownKeepsOrder
<1>4. CASE FinishShutdown
  BY <1>4, FinishShutdownKeepsOrder
<1>5. CASE DrainTimeout \/ AbortTransport
  BY <1>5, AbortsKeepOrder DEF DrainTimeout, AbortTransport
<1>6. CASE UNCHANGED writeVars
  BY <1>6 DEF writeVars, OrderInv, Shapes, QueueShaped, Fields, AdapterShaped, Numbers, InOrder, NoGap
<1> QED
  BY <1>1, <1>2, <1>3, <1>4, <1>5, <1>6 DEF WriteNext

-----------------------------------------------------------------------------
LEMMA OrderSuffices == OrderInv => SentIsPrefix
<1> SUFFICES ASSUME OrderInv PROVE SentIsPrefix
  OBVIOUS
<1>1. sent \in [1 .. Len(sent) -> Nat] /\ \A i \in 1 .. Len(sent) : sent[i] = i
  BY DEF OrderInv, Numbers, InOrder
<1> QED
  BY <1>1 DEF SentIsPrefix

\* Whatever was refused, flushed, rejected, timed out and shut down in between,
\* the chunks handed to the adapter are the first ones accepted, in order and
\* each once (BackpressureWriteQueue with TransportEngine's shutdown and abort).
THEOREM SentInOrder == WriteSpec => []SentIsPrefix
  BY OrderInitially, OrderIsKept, OrderSuffices, PTL DEF WriteSpec

-----------------------------------------------------------------------------
(* Every accepted chunk is accounted for, and every byte in the ring.      *)

\* The first chunks are sent, the next are in the ring, the others failed;
\* the counter has the bytes of the second.
Accounted ==
  LET n == Len(sent)
      m == n + Len(wq.ring)
  IN  /\ m <= Len(size) /\ failed = m + 1 .. Len(size)
      /\ wq.bytes = SumUpTo(size, m) - SumUpTo(size, n)

Bounded == wq.bytes <= MaxBytes /\ (wq.ring # <<>> => wq.paused)

WriteIInv == OrderInv /\ Accounted /\ Bounded

\* What the invariant says of the lengths and of the sums.
LEMMA WriteFacts ==
  ASSUME OrderInv, Accounted
  PROVE  /\ Len(sent) \in Nat /\ Len(wq.ring) \in Nat /\ Len(size) \in Nat
         /\ \A i \in 1 .. Len(size) : size[i] \in Nat
         /\ \A i \in 0 .. Len(size) : SumUpTo(size, i) \in Int
         /\ Len(sent) + Len(wq.ring) <= Len(size) /\ wq.bytes \in Int
<1>1. /\ Len(sent) \in Nat /\ Len(wq.ring) \in Nat /\ Len(size) \in Nat
      /\ \A i \in 1 .. Len(size) : size[i] \in Nat
  BY DEF OrderInv, Numbers
<1>2. \A i \in 0 .. Len(size) : SumUpTo(size, i) \in Int
  BY <1>1, SumUpToProperties
<1>3. Len(sent) + Len(wq.ring) <= Len(size)
  BY DEF Accounted
<1>4. Len(sent) + Len(wq.ring) \in 0 .. Len(size) /\ Len(sent) \in 0 .. Len(size)
  BY <1>1, <1>3
<1> QED
  BY <1>1, <1>2, <1>3, <1>4 DEF Accounted

\* The bytes of the first n chunks of the ring.
LEMMA BytesOfFirst ==
  ASSUME OrderInv, Accounted, NEW n \in 0 .. Len(wq.ring)
  PROVE  /\ BytesOf(SubSeq(wq.ring, 1, n)) = SumUpTo(size, Len(sent) + n) - SumUpTo(size, Len(sent))
         /\ SumUpTo(size, Len(sent)) <= SumUpTo(size, Len(sent) + n)
<1> DEFINE out == SubSeq(wq.ring, 1, n)
<1>1. out \in Seq(Nat) /\ Len(out) = n /\ \A i \in 1 .. n : out[i] = wq.ring[i]
  BY SubSeqProperties DEF OrderInv, Numbers
<1>2. PICK k \in Nat : k = Len(sent)
  BY WriteFacts
<1>3. n \in Nat /\ \A i \in 1 .. k + n : size[i] \in Nat
  BY <1>2, WriteFacts
<1>4. \A i \in 1 .. n : out[i] = k + i
  BY <1>1, <1>2, WriteFacts DEF OrderInv, InOrder
<1> HIDE DEF out
<1>5. PICK r : r = [i \in DOMAIN out |-> size[out[i]]]
  OBVIOUS
<1>6. \A i \in 1 .. n : r[i] = size[k + i]
  BY <1>1, <1>4, <1>5
<1>7. SumUpTo(r, n) = SumUpTo(size, k + n) - SumUpTo(size, k)
  BY <1>3, <1>6, SumOfStretch
<1>8. SumUpTo(size, k) <= SumUpTo(size, k + n)
  BY <1>3, SumGrows
<1>9. BytesOf(out) = SumUpTo(r, n)
  BY <1>1, <1>5 DEF BytesOf
<1> QED
  BY <1>2, <1>7, <1>8, <1>9 DEF out

LEMMA OfferAccounts ==
  ASSUME WriteIInv, NEW n \in ChunkSizes, Offer(n), OrderInv'
  PROVE  Accounted' /\ Bounded'
<1> DEFINE c == Len(size) + 1
<1>1. /\ adapter.state = "open" /\ ~wq.ended /\ ~Full(n) /\ size' = Append(size, n) /\ n \in Nat
      /\ failed' = failed /\ Len(size) = Len(sent) + Len(wq.ring)
  BY WriteQueueAssumption DEF WriteIInv, OrderInv, NoGap, Offer
<1>2. PICK k \in Nat, l \in Nat, z \in Nat, old \in Seq(Nat), new \in Seq(Nat) :
        /\ k = Len(sent) /\ l = Len(wq.ring) /\ z = Len(size)
        /\ old = size /\ new = size' /\ new = Append(old, n)
  BY <1>1, WriteFacts DEF WriteIInv, OrderInv, Numbers
<1>3. /\ k + l = z /\ Len(old) = z /\ c = z + 1 /\ failed = {}
      /\ wq.bytes = SumUpTo(old, z) - SumUpTo(old, k)
  BY <1>1, <1>2 DEF WriteIInv, Accounted
<1>4. /\ Len(new) = z + 1 /\ new[z + 1] = n
      /\ \A i \in 1 .. z : new[i] = old[i] /\ old[i] \in Nat
      /\ \A i \in 1 .. z + 1 : new[i] \in Nat
  <2>1. n \in Nat /\ new = Append(old, n) /\ Len(old) = z
    BY <1>1, <1>2, <1>3
  <2> QED BY ONLY <2>1, old \in Seq(Nat), z \in Nat, AppendProperties
<1>5. ASSUME NEW i \in 0 .. z
      PROVE  SumUpTo(new, i) = SumUpTo(old, i) /\ SumUpTo(old, i) \in Int
  <2>1. i \in Nat /\ \A j \in 1 .. i : old[j] \in Int /\ old[j] = new[j]
    BY <1>4
  <2>2. i \in 0 .. i
    OBVIOUS
  <2> QED BY <2>1, <2>2, SumUpToAgrees, SumUpToProperties
<1>6. SumUpTo(new, z + 1) = SumUpTo(old, z) + n
  <2>1. PICK y \in Nat : y = z + 1
    OBVIOUS
  <2>2. \A i \in 1 .. y : new[i] \in Int
    BY <1>4, <2>1
  <2>3. \A i \in 1 .. y : SumUpTo(new, i) = SumUpTo(new, i - 1) + new[i]
    BY <2>2, SumUpToProperties
  <2>4. y \in 1 .. y /\ y - 1 = z /\ z \in 0 .. z
    BY <2>1
  <2>5. SumUpTo(new, y) = SumUpTo(new, z) + n
    BY <1>4, <2>1, <2>3, <2>4
  <2> QED BY <1>5, <2>1, <2>4, <2>5
<1>7. failed' = c + 1 .. c
  BY <1>1, <1>3
<1>8. PICK a \in Int, b \in Int :
        /\ a = SumUpTo(old, k) /\ a = SumUpTo(new, k) /\ b = SumUpTo(old, z)
        /\ SumUpTo(new, z + 1) = b + n /\ wq.bytes = b - a
  <2>1. k \in 0 .. z /\ z \in 0 .. z
    BY <1>3
  <2> QED BY <1>3, <1>5, <1>6, <2>1
<1>9. CASE WritesThrough(wq)
  <2>1. PICK refuses \in BOOLEAN :
          /\ sent' = Append(sent, c)
          /\ wq' = IF refuses THEN [wq EXCEPT !.paused = TRUE, !.drained = FALSE] ELSE wq
    BY <1>9 DEF Offer
  <2>2. wq'.ring = wq.ring /\ wq.ring = <<>> /\ wq'.bytes = wq.bytes
    BY <1>9, <2>1 DEF WriteIInv, OrderInv, Shapes, QueueShaped, Fields, WritesThrough
  <2>3. Len(sent') = k + 1 /\ Len(wq.ring) = 0
    BY <1>2, <2>1, <2>2 DEF WriteIInv, OrderInv, Numbers
  <2>4. /\ Len(sent') = c /\ Len(sent') + Len(wq'.ring) = c /\ wq.bytes = 0 /\ Len(size') = c
    <3>1. l = 0 /\ k = z
      BY <1>2, <1>3, <2>3
    <3>2. a = b
      BY <1>8, <3>1
    <3>3. Len(size') = z + 1 /\ Len(sent') = z + 1 /\ Len(wq'.ring) = 0
      BY <1>2, <1>4, <2>2, <2>3, <3>1
    <3> QED BY <1>3, <1>8, <3>2, <3>3
  <2>5. SumUpTo(size', c) - SumUpTo(size', c) = 0
    BY <1>2, <1>3, <1>8
  <2> HIDE DEF c
  <2>6. Accounted'
    <3>1. c <= c
      BY <1>3
    <3> QED BY <1>7, <2>2, <2>4, <2>5, <3>1 DEF Accounted
  <2> QED BY <2>2, <2>6 DEF WriteIInv, Bounded
<1>10. CASE ~WritesThrough(wq)
  <2> DEFINE q == [wq EXCEPT !.ring = Append(wq.ring, c), !.bytes = wq.bytes + n]
  <2>1. wq' = Updated(q) /\ sent' = sent
    BY <1>10 DEF Offer
  <2>2. QueueShaped(q) /\ q.ring = Append(wq.ring, c) /\ q.bytes = wq.bytes + n /\ q.paused = wq.paused
    <3> DEFINE r == Append(wq.ring, c)
               d == wq.bytes + n
    <3> HIDE DEF r, d
    <3>1. /\ [wq EXCEPT !.ring = r, !.bytes = d].ring = r
          /\ [wq EXCEPT !.ring = r, !.bytes = d].bytes = d
          /\ [wq EXCEPT !.ring = r, !.bytes = d].paused = wq.paused
      BY DEF WriteIInv, OrderInv, Shapes, QueueShaped, Fields
    <3>2. QueueShaped([wq EXCEPT !.ring = r, !.bytes = d])
      BY DEF WriteIInv, OrderInv, Shapes, QueueShaped, Fields
    <3> QED
      BY <3>1, <3>2 DEF r, d
  <2> HIDE DEF q
  <2>3. wq'.ring = Append(wq.ring, c) /\ wq'.bytes = wq.bytes + n /\ wq'.paused = wq.paused
    BY <2>1, <2>2, UpdatedKeepsRing
  <2>4. Len(wq'.ring) = Len(wq.ring) + 1
    BY <1>2, <1>3, <2>3 DEF WriteIInv, OrderInv, Numbers
  <2>5. Len(sent') = k /\ Len(sent') + Len(wq'.ring) = c /\ Len(size') = c
    <3>1. Len(sent') = k /\ Len(wq'.ring) = l + 1 /\ Len(size') = z + 1
      BY <1>2, <1>4, <2>1, <2>4
    <3> QED BY ONLY <1>3, <3>1, k \in Nat, l \in Nat, z \in Nat
  <2>6. wq'.bytes = SumUpTo(size', c) - SumUpTo(size', k)
    <3>1. wq'.bytes = (b + n) - a
      BY <1>1, <1>8, <2>3
    <3> QED BY <1>2, <1>3, <1>8, <3>1
  <2>7. wq.paused
    BY <1>10 DEF WritesThrough, WriteIInv, Bounded
  <2>8. wq'.bytes <= MaxBytes
    <3>1. ~(wq.bytes + n > MaxBytes)
      BY <1>1, <2>7 DEF Full
    <3>2. PICK d \in Int, m \in Int : d = wq.bytes + n /\ m = MaxBytes
      <4>1. wq.bytes + n \in Int /\ MaxBytes \in Int
        BY <1>1, <1>8, WriteQueueAssumption
      <4> QED BY ONLY <4>1
    <3>3. d <= m
      BY ONLY <3>1, <3>2
    <3> QED BY ONLY <2>3, <3>2, <3>3
  <2> HIDE DEF c
  <2>9. Accounted'
    <3>1. c <= c
      BY <1>3
    <3> QED BY <1>7, <2>5, <2>6, <3>1 DEF Accounted
  <2> QED BY <2>3, <2>7, <2>8, <2>9 DEF Bounded
<1> QED
  BY <1>9, <1>10

LEMMA FlushAccounts ==
  ASSUME WriteIInv, Flush, UNCHANGED size, OrderInv'
  PROVE  Accounted' /\ Bounded'
<1>1. PICK k \in Nat, l \in Nat, z \in Nat : k = Len(sent) /\ l = Len(wq.ring) /\ z = Len(size)
  BY WriteFacts DEF WriteIInv
<1>2. /\ k + l <= z /\ failed = k + l + 1 .. z /\ wq.bytes = SumUpTo(size, k + l) - SumUpTo(size, k)
      /\ wq.bytes <= MaxBytes
  BY <1>1 DEF WriteIInv, Accounted, Bounded
<1>3. \A i \in 0 .. z : SumUpTo(size, i) \in Int
  BY <1>1, WriteFacts DEF WriteIInv
<1>4. CASE adapter.state = "open"
  <2>1. PICK n \in 0 .. Len(wq.ring), refused \in BOOLEAN :
          /\ ~refused => n = Len(wq.ring)
          /\ wq' = WithoutFirst(n, refused)
          /\ sent' = sent \o SubSeq(wq.ring, 1, n)
          /\ failed' = failed
    BY <1>4 DEF Flush
  <2>2. /\ wq'.ring = SubSeq(wq.ring, n + 1, Len(wq.ring))
        /\ wq'.bytes = wq.bytes - BytesOf(SubSeq(wq.ring, 1, n)) /\ wq'.paused = refused
    BY <2>1, WithoutFirstDropsFirst DEF WriteIInv, OrderInv, Shapes
  <2>3. Len(wq'.ring) = l - n /\ n \in 0 .. l
    <3>1. wq.ring \in Seq(Nat)
      BY DEF WriteIInv, OrderInv, Numbers
    <3> QED BY <1>1, <2>1, <2>2, <3>1, Suffix
  <2>4. Len(sent') = k + n
    <3>1. SubSeq(wq.ring, 1, n) \in Seq(Nat) /\ Len(SubSeq(wq.ring, 1, n)) = n /\ sent \in Seq(Nat)
      BY <2>1, SubSeqProperties DEF WriteIInv, OrderInv, Numbers
    <3> QED BY <1>1, <2>1, <3>1, ConcatProperties
  <2>5. /\ BytesOf(SubSeq(wq.ring, 1, n)) = SumUpTo(size, k + n) - SumUpTo(size, k)
        /\ SumUpTo(size, k) <= SumUpTo(size, k + n)
    BY <1>1, <2>1, BytesOfFirst DEF WriteIInv
  <2>6. PICK a \in Int, b \in Int, d \in Int :
          a = SumUpTo(size, k) /\ b = SumUpTo(size, k + n) /\ d = SumUpTo(size, k + l)
    <3>1. k \in 0 .. z /\ k + n \in 0 .. z /\ k + l \in 0 .. z
      BY <1>2, <2>3
    <3> QED BY <1>3, <3>1
  <2>7. wq'.bytes = d - b /\ wq'.bytes <= MaxBytes
    <3>1. wq.bytes = d - a /\ a <= b /\ wq'.bytes = (d - a) - (b - a) /\ d - a <= MaxBytes
      BY <1>2, <2>2, <2>5, <2>6
    <3> QED BY <3>1, WriteQueueAssumption
  <2>8. Len(sent') + Len(wq'.ring) = k + l
    BY <2>3, <2>4
  <2>9. Accounted'
    BY <1>1, <1>2, <2>1, <2>4, <2>6, <2>7, <2>8 DEF Accounted
  <2>10. wq'.ring # <<>> => wq'.paused
    <3>1. ASSUME n = l PROVE wq'.ring = <<>>
      <4>1. wq'.ring \in Seq(Nat) /\ Len(wq'.ring) = 0
        BY <2>3, <3>1 DEF OrderInv, Numbers
      <4> QED BY <4>1, EmptySeq
    <3> QED BY <1>1, <2>1, <2>2, <3>1
  <2> QED BY <2>7, <2>9, <2>10 DEF Bounded
<1>5. CASE adapter.state # "open"
  <2>1. /\ wq' = WithoutFirst(l, FALSE) /\ sent' = sent
        /\ failed' = failed \cup {wq.ring[i] : i \in 1 .. l}
    BY <1>1, <1>5 DEF Flush
  <2>2. /\ wq'.ring = SubSeq(wq.ring, l + 1, l)
        /\ wq'.bytes = wq.bytes - BytesOf(SubSeq(wq.ring, 1, l)) /\ wq'.paused = FALSE
    BY <1>1, <2>1, WithoutFirstDropsFirst DEF WriteIInv, OrderInv, Shapes
  <2>3. wq'.ring = <<>> /\ Len(wq'.ring) = 0
    BY <1>1, <2>2 DEF WriteIInv, OrderInv, Numbers
  <2>4. BytesOf(SubSeq(wq.ring, 1, l)) = SumUpTo(size, k + l) - SumUpTo(size, k)
    <3>1. l \in 0 .. Len(wq.ring)
      BY <1>1
    <3> QED BY <1>1, <3>1, BytesOfFirst DEF WriteIInv
  <2>5. PICK a \in Int, d \in Int : a = SumUpTo(size, k) /\ d = SumUpTo(size, k + l)
    <3>1. k \in 0 .. z /\ k + l \in 0 .. z
      BY <1>2
    <3> QED BY <1>3, <3>1
  <2>6. wq'.bytes = 0 /\ SumUpTo(size, k) - SumUpTo(size, k) = 0
    BY <1>2, <2>2, <2>4, <2>5
  <2>7. failed' = k + 1 .. z
    <3>1. \A i \in 1 .. l : wq.ring[i] = k + i
      BY <1>1 DEF WriteIInv, OrderInv, InOrder
    <3>2. PICK s : s = wq.ring
      OBVIOUS
    <3>3. {s[i] : i \in 1 .. l} = k + 1 .. k + l
      BY <3>1, <3>2, Consecutive
    <3>4. (k + l + 1 .. z) \cup (k + 1 .. k + l) = k + 1 .. z
      BY <1>2
    <3> QED BY <1>2, <2>1, <3>2, <3>3, <3>4
  <2>8. Len(sent') = k /\ Len(sent') + Len(wq'.ring) = k /\ Len(size') = z /\ k <= z
    <3>1. Len(sent') = k /\ Len(wq'.ring) = 0
      BY <1>1, <2>1, <2>3
    <3>2. Len(size') = z
      BY <1>1
    <3>3. k <= z /\ k + 0 = k
      BY <1>2
    <3> QED BY <3>1, <3>2, <3>3
  <2>9. Accounted'
    <3>1. wq'.bytes = SumUpTo(size', k) - SumUpTo(size', k)
      BY <2>6
    <3> QED BY <2>7, <2>8, <3>1 DEF Accounted
  <2> QED BY <2>3, <2>6, <2>9, WriteQueueAssumption DEF Bounded
<1> QED
  BY <1>4, <1>5

LEMMA DrainSignalAccounts ==
  ASSUME WriteIInv, DrainSignal, OrderInv'
  PROVE  Accounted' /\ Bounded'
<1>1. CASE adapter.hooked
  BY <1>1, FlushAccounts DEF DrainSignal
<1>2. CASE ~adapter.hooked
  BY <1>2 DEF DrainSignal, WriteIInv, Accounted, Bounded
<1> QED
  BY <1>1, <1>2

LEMMA AbortsAccount ==
  ASSUME WriteIInv, Aborts
  PROVE  Accounted' /\ Bounded'
<1>1. PICK k \in Nat, l \in Nat, z \in Nat : k = Len(sent) /\ l = Len(wq.ring) /\ z = Len(size)
  BY WriteFacts DEF WriteIInv
<1>2. k + l <= z /\ failed = k + l + 1 .. z /\ \A i \in 1 .. l : wq.ring[i] = k + i
  BY <1>1 DEF WriteIInv, Accounted, OrderInv, InOrder
<1>3. /\ wq'.ring = <<>> /\ wq'.bytes = 0 /\ UNCHANGED <<size, sent>>
      /\ failed' = failed \cup {wq.ring[i] : i \in 1 .. l}
  BY <1>1 DEF WriteIInv, OrderInv, Shapes, QueueShaped, Fields, Aborts
<1>4. {wq.ring[i] : i \in 1 .. l} = k + 1 .. k + l
  BY <1>2, Consecutive
<1>5. failed' = k + 1 .. z
  BY <1>2, <1>3, <1>4
<1>6. SumUpTo(size, k) - SumUpTo(size, k) = 0
  <2>1. k \in 0 .. z
    BY <1>2
  <2> QED BY <1>1, <2>1, WriteFacts DEF WriteIInv
<1>7. Len(wq'.ring) = 0
  BY <1>3, EmptySeq
<1>8. Accounted'
  BY <1>1, <1>2, <1>3, <1>5, <1>6, <1>7 DEF Accounted
<1> QED
  BY <1>3, <1>8, WriteQueueAssumption DEF Bounded

LEMMA WritesInductive == WriteIInv /\ [WriteNext]_writeVars => WriteIInv'
<1> SUFFICES ASSUME WriteIInv, [WriteNext]_writeVars PROVE WriteIInv'
  OBVIOUS
<1>1. OrderInv'
  BY OrderIsKept DEF WriteIInv
<1>2. CASE \E n \in ChunkSizes : Offer(n)
  BY <1>1, <1>2, OfferAccounts DEF WriteIInv
<1>3. CASE DrainSignal
  BY <1>1, <1>3, DrainSignalAccounts DEF WriteIInv
<1>4. CASE Shutdown
  <2>1. wq'.ring = wq.ring /\ wq'.bytes = wq.bytes /\ wq'.paused = wq.paused /\ UNCHANGED <<size, sent, failed>>
    BY <1>4 DEF Shutdown, WriteIInv, OrderInv, Shapes, QueueShaped, Fields
  <2> QED BY <1>1, <2>1 DEF WriteIInv, Accounted, Bounded
<1>5. CASE FinishShutdown
  BY <1>1, <1>5 DEF FinishShutdown, WriteIInv, Accounted, Bounded
<1>6. CASE DrainTimeout \/ AbortTransport
  BY <1>1, <1>6, AbortsAccount DEF DrainTimeout, AbortTransport, WriteIInv
<1>7. CASE UNCHANGED writeVars
  BY <1>1, <1>7 DEF writeVars, WriteIInv, Accounted, Bounded
<1> QED
  BY <1>2, <1>3, <1>4, <1>5, <1>6, <1>7 DEF WriteNext

LEMMA WritesStart == WriteInit => WriteIInv
<1> SUFFICES ASSUME WriteInit PROVE WriteIInv
  OBVIOUS
<1>1. Len(sent) = 0 /\ Len(wq.ring) = 0 /\ Len(size) = 0 /\ wq.ring = <<>> /\ failed = {} /\ wq.bytes = 0
  BY EmptySeq DEF WriteInit
<1>2. SumUpTo(size, 0) = 0
  BY SumUpToProperties
<1>3. Accounted
  BY <1>1, <1>2 DEF Accounted
<1> QED
  BY <1>1, <1>3, OrderInitially, WriteQueueAssumption DEF WriteIInv, Bounded

LEMMA WritesSafe == WriteIInv => WriteInv
<1> SUFFICES ASSUME WriteIInv PROVE WriteInv
  OBVIOUS
<1>1. PICK k \in Nat, l \in Nat, z \in Nat : k = Len(sent) /\ l = Len(wq.ring) /\ z = Len(size)
  BY WriteFacts DEF WriteIInv
<1>2. /\ k + l <= z /\ failed = k + l + 1 .. z /\ \A i \in 1 .. l : wq.ring[i] = k + i
      /\ \A i \in 1 .. k : sent[i] = i
  BY <1>1 DEF WriteIInv, Accounted, OrderInv, InOrder
<1>3. Chunks = 1 .. z
  <2>1. size \in Seq(Nat)
    BY DEF WriteIInv, OrderInv, Numbers
  <2>2. DOMAIN size = 1 .. Len(size)
    BY ONLY <2>1, LenProperties
  <2> QED BY ONLY <1>1, <2>2 DEF Chunks
<1>4. {wq.ring[i] : i \in 1 .. l} = k + 1 .. k + l
  BY <1>2, Consecutive
<1>5. {sent[i] : i \in 1 .. k} = 1 .. k
  BY <1>2
<1>6. wq.bytes = BytesOf(wq.ring)
  <2>1. l \in 0 .. Len(wq.ring) /\ SubSeq(wq.ring, 1, l) = wq.ring
    BY <1>1 DEF WriteIInv, OrderInv, Numbers
  <2>2. BytesOf(wq.ring) = SumUpTo(size, Len(sent) + l) - SumUpTo(size, Len(sent))
    BY <2>1, BytesOfFirst DEF WriteIInv
  <2> QED BY <1>1, <2>2 DEF WriteIInv, Accounted
<1>7. /\ 1 .. z = (k + 1 .. k + l) \cup (1 .. k) \cup (k + l + 1 .. z)
      /\ (k + 1 .. k + l) \cap ((1 .. k) \cup (k + l + 1 .. z)) = {}
      /\ (1 .. k) \cap (k + l + 1 .. z) = {}
  BY <1>2
<1> QED
  BY <1>1, <1>2, <1>3, <1>4, <1>5, <1>6, <1>7 DEF WriteInv, WriteIInv, Bounded

\* Every chunk the queue accepted is sent, rejected or in the ring, and the byte
\* counter is the ring's: no chunk is lost or counted twice by a refusal in the
\* middle of a flush, a closed adapter, a time-out or an abort (enqueue, _drain,
\* rejectAll).
THEOREM AccountsForChunks == WriteSpec => []WriteInv
<1> QED
  BY WritesStart, WritesInductive, WritesSafe, PTL DEF WriteSpec

-----------------------------------------------------------------------------
(***************************************************************************)
(*  The inbox handles messages in their order and, with leases long        *)
(*  enough, gives no message two handlers.                                 *)
(*                                                                         *)
(*  HandledInOrder speaks of the handlers that run. It is kept because     *)
(*  what lies behind expected stays settled, which is said of all          *)
(*  messages and not of the running ones; OneHandler because a lease that  *)
(*  runs belongs to a message in PROCESSING and ends with its handler at   *)
(*  the latest.                                                            *)
(***************************************************************************)

\* What the engine has processed or given up lies behind expected, and a handler
\* is at a message whose turn has come, unless an operator forced it.
BehindExpected ==
  /\ \A m \in Messages : m < expected => m \in processed \cup jumped
  /\ \A w \in Workers : running[w] # 0 /\ w \notin forced => running[w] <= expected

\* While handlers keep to their leases and nobody intervened, a running message
\* is leased to its handler, and to no other.
RunsLeased ==
  InLease /\ interventions = 0
    => /\ \A w \in Workers : running[w] # 0
            => /\ state[running[w]] = "PROCESSING"
               /\ lease[running[w]] = inTime[w]
               /\ inTime[w] >= 1
       /\ \A w, v \in Workers : running[w] # 0 /\ running[w] = running[v] => w = v

InboxIInv == /\ InboxInv
             /\ BehindExpected
             /\ RunsLeased
             /\ {crashes, interventions} \subseteq Nat

\* The records that processNext reaps are as well typed, and differ from the
\* records before only where a lease is over.
LEMMA ReapedProperties ==
  ASSUME InboxTypeOK
  PROVE  /\ Reaped \in [Messages -> InboxStates]
         /\ \A m \in Messages : \/ Reaped[m] = state[m]
                                \/ LeaseOver(m) /\ Reaped[m] = "RECEIVED"
         /\ \A m \in NextActionable(Reaped) :
              m \in Messages /\ Reaped[m] \in {"RECEIVED", "FAILED", "DEFERRED"}
  <1>1. state \in [Messages -> InboxStates]
    BY DEF InboxTypeOK
  <1>2. "RECEIVED" \in InboxStates
    BY DEF InboxStates
  <1>3. \A m \in NextActionable(Reaped) :
          m \in Messages /\ Reaped[m] \in {"RECEIVED", "FAILED", "DEFERRED"}
    BY DEF NextActionable, First, RetryDue
  <1> QED BY <1>1, <1>2, <1>3 DEF Reaped

\* _promoteDeferred moves expected on, records what it skips, and makes deferred
\* records RECEIVED, all those behind the new expected among them.
LEMMA PromoteProperties ==
  ASSUME InboxTypeOK, DeferredAhead, NEW st \in [Messages -> InboxStates],
         \A m \in Messages : st[m] = "DEFERRED" => state[m] = "DEFERRED",
         NEW next \in 1 .. MaxSequence + 1, next \in {expected, expected + 1},
         Promote(st, next)
  PROVE  /\ expected' \in 1 .. MaxSequence + 1
         /\ next <= expected'
         /\ jumped' \subseteq Messages
         /\ jumped \subseteq jumped'
         /\ \A m \in Messages : next <= m /\ m < expected' => m \in jumped'
         /\ state' \in [Messages -> InboxStates]
         /\ \A m \in Messages : \/ state'[m] = st[m]
                                \/ st[m] = "DEFERRED" /\ state'[m] = "RECEIVED"
         /\ \A m \in Messages : state'[m] = "DEFERRED" => m > expected'
  <1> USE DEF Messages
  <1> DEFINE due == [m \in Messages |-> IF st[m] = "DEFERRED" /\ m = next THEN "RECEIVED" ELSE st[m]]
             behind == {m \in Messages : due[m] = "DEFERRED"}
             jumps == gap > 0 /\ Cardinality(behind) >= gap
             least == CHOOSE m \in behind : \A n \in behind : m <= n
  <1>1. /\ expected' = IF jumps THEN least ELSE next
        /\ jumped' = IF jumps THEN jumped \cup (next .. least - 1) ELSE jumped
        /\ state' = IF jumps THEN [due EXCEPT ![least] = "RECEIVED"] ELSE due
    BY DEF Promote
  <1>2. /\ MaxSequence \in Nat /\ gap \in Nat /\ expected \in 1 .. MaxSequence + 1
        /\ jumped \subseteq Messages
    BY InboxAssumption DEF InboxTypeOK
  <1>3. /\ due \in [Messages -> InboxStates]
        /\ \A m \in Messages : \/ due[m] = st[m]
                               \/ st[m] = "DEFERRED" /\ due[m] = "RECEIVED"
        /\ \A m \in Messages : due[m] = "DEFERRED" => m > next
    BY <1>2 DEF InboxStates, DeferredAhead, Ahead
  <1>4. CASE ~jumps
    <2> HIDE DEF jumps, due, least
    <2>1. expected' = next /\ jumped' = jumped /\ state' = due
      BY <1>1, <1>4
    <2>2. \A m \in Messages : ~(next <= m /\ m < expected')
      BY <1>2, <2>1
    <2> QED BY <1>2, <1>3, <2>1, <2>2
  <1>5. CASE jumps
    <2>1. behind # {}
      <3> SUFFICES ASSUME behind = {} PROVE FALSE
        OBVIOUS
      <3>1. Cardinality(behind) = 0
        BY FS_EmptySet
      <3>2. gap > 0 /\ Cardinality(behind) >= gap
        BY <1>5
      <3> HIDE DEF behind
      <3> QED BY <1>2, <3>1, <3>2
    <2>2. behind \subseteq Messages /\ behind \subseteq Nat
      OBVIOUS
    <2>3. \E m \in behind : \A n \in behind : m <= n
      <3> HIDE DEF behind
      <3> QED BY <2>1, <2>2, LeastNumber
    <2>4. least \in behind /\ \A n \in behind : least <= n
      <3> HIDE DEF behind
      <3> QED BY <2>3
    <2>5. least \in Messages /\ due[least] = "DEFERRED" /\ next < least
      BY <1>3, <2>4
    <2>6. \A m \in Messages : due[m] = "DEFERRED" => least <= m
      BY <2>4
    <2> HIDE DEF jumps, due, least, behind
    <2>7. /\ expected' = least
          /\ jumped' = jumped \cup (next .. least - 1)
          /\ state' = [due EXCEPT ![least] = "RECEIVED"]
      BY <1>1, <1>5
    <2>8. /\ state' \in [Messages -> InboxStates]
          /\ state'[least] = "RECEIVED"
          /\ \A m \in Messages : m # least => state'[m] = due[m]
      BY <1>3, <2>5, <2>7 DEF InboxStates
    <2>9. \A m \in Messages : \/ state'[m] = st[m]
                              \/ st[m] = "DEFERRED" /\ state'[m] = "RECEIVED"
      BY <1>3, <2>5, <2>8
    <2>10. \A m \in Messages : state'[m] = "DEFERRED" => m > least
      BY <2>5, <2>6, <2>8
    <2>11. \A m \in Messages : next <= m /\ m < expected' => m \in jumped'
      <3>1. SUFFICES ASSUME NEW m \in Messages, next <= m, m < least PROVE m \in jumped'
        BY <2>7
      <3>2. m \in next .. least - 1
        BY <1>2, <2>5, <3>1
      <3> QED BY <2>7, <3>2
    <2>12. expected' \in 1 .. MaxSequence + 1 /\ next <= expected'
      BY <1>2, <2>5, <2>7
    <2>13. jumped \subseteq jumped' /\ jumped' \subseteq Messages
      BY <1>2, <2>5, <2>7
    <2> QED BY <2>7, <2>8, <2>9, <2>10, <2>11, <2>12, <2>13
  <1> QED BY <1>4, <1>5

\* The step of Succeeds, with what _promoteDeferred does to the others.
LEMMA SucceedsProperties ==
  ASSUME InboxTypeOK, DeferredAhead, NEW w \in Workers, running[w] # 0, Succeeds(w)
  PROVE  /\ running[w] \in Messages
         /\ state[running[w]] = "PROCESSING"
         /\ expected' \in 1 .. MaxSequence + 1 /\ expected <= expected'
         /\ jumped' \subseteq Messages
         /\ \A m \in Messages : expected <= m /\ m < expected' => m \in processed' \cup jumped'
         /\ processed \subseteq processed' /\ jumped \subseteq jumped'
         /\ state' \in [Messages -> InboxStates]
         /\ state'[running[w]] = "PROCESSED"
         /\ \A m \in Messages \ {running[w]} :
              \/ state'[m] = state[m]
              \/ state[m] = "DEFERRED" /\ state'[m] = "RECEIVED"
         /\ \A m \in Messages : state'[m] = "DEFERRED" => m > expected'
  <1> DEFINE m == running[w]
             st == [state EXCEPT ![m] = "PROCESSED"]
             next == AdvancedTo(m)
  <1>1. m \in Messages /\ expected \in 1 .. MaxSequence + 1 /\ MaxSequence \in Nat
    BY InboxAssumption DEF InboxTypeOK
  <1>2. st \in [Messages -> InboxStates]
    BY <1>1 DEF InboxTypeOK, InboxStates
  <1>3. \A k \in Messages : st[k] = "DEFERRED" => state[k] = "DEFERRED"
    BY <1>1 DEF InboxTypeOK
  <1>4. /\ next \in 1 .. MaxSequence + 1 /\ next \in {expected, expected + 1}
        /\ next = expected + 1 => m = expected
    BY <1>1 DEF AdvancedTo, Messages
  <1>5. state[m] = "PROCESSING" /\ Promote(st, next) /\ processed' = processed \cup {m}
    BY DEF Succeeds
  <1>6. /\ st[m] = "PROCESSED"
        /\ \A k \in Messages \ {m} : st[k] = state[k]
    BY <1>1 DEF InboxTypeOK
  <1> HIDE DEF st, next
  <1>7. /\ expected' \in 1 .. MaxSequence + 1
        /\ next <= expected'
        /\ jumped' \subseteq Messages
        /\ jumped \subseteq jumped'
        /\ \A k \in Messages : next <= k /\ k < expected' => k \in jumped'
        /\ state' \in [Messages -> InboxStates]
        /\ \A k \in Messages : \/ state'[k] = st[k]
                               \/ st[k] = "DEFERRED" /\ state'[k] = "RECEIVED"
        /\ \A k \in Messages : state'[k] = "DEFERRED" => k > expected'
    BY <1>2, <1>3, <1>4, <1>5, PromoteProperties
  <1> HIDE DEF m
  <1>8. ASSUME NEW k \in Messages, expected <= k, k < expected'
        PROVE  k \in processed' \cup jumped'
    <2>1. k \in Nat /\ expected \in Int /\ next \in Int
      BY <1>1, <1>4 DEF Messages
    <2>2. CASE k < next
      <3>1. k = m
        BY <1>4, <1>8, <2>1, <2>2
      <3> QED BY <1>5, <3>1
    <2>3. CASE ~(k < next)
      <3>1. next <= k
        BY <2>1, <2>3
      <3> QED BY <1>7, <1>8, <3>1
    <2> QED BY <2>2, <2>3
  <1>9. expected <= expected'
    BY <1>1, <1>4, <1>7
  <1>10. state'[m] = "PROCESSED" /\ \A k \in Messages \ {m} :
              \/ state'[k] = state[k]
              \/ state[k] = "DEFERRED" /\ state'[k] = "RECEIVED"
    BY <1>1, <1>6, <1>7
  <1> QED BY <1>1, <1>5, <1>7, <1>8, <1>9, <1>10 DEF m

\* No step breaks the types.
LEMMA InboxTypeInductive == InboxIInv /\ [InboxNext]_inboxVars => InboxTypeOK'
  <1> SUFFICES ASSUME InboxIInv, [InboxNext]_inboxVars PROVE InboxTypeOK'
    OBVIOUS
  <1>1. InboxTypeOK /\ DeferredAhead
    BY DEF InboxIInv, InboxInv
  <1>2. /\ {MaxSequence, MaxRuns, LeaseTime, RetryTime} \subseteq Nat /\ 0 \in 0 .. LeaseTime
        /\ LeaseTime \in 0 .. LeaseTime /\ 0 \in 0 .. RetryTime /\ RetryTime \in 0 .. RetryTime
        /\ 0 \in 0 .. MaxRuns
    BY InboxAssumption
  <1>3. \A k \in 0 .. LeaseTime : Less(k) \in 0 .. LeaseTime
    BY <1>2 DEF Less
  <1>4. \A k \in 0 .. RetryTime : Less(k) \in 0 .. RetryTime
    BY <1>2 DEF Less
  <1>5. \A m \in Messages, w \in Workers : Run(w, m) =>
          /\ attempts' \in [Messages -> 0 .. MaxRuns]
          /\ lease' \in [Messages -> 0 .. LeaseTime]
          /\ running' \in [Workers -> Messages \cup {0}]
          /\ inTime' \in [Workers -> 0 .. LeaseTime]
    <2> SUFFICES ASSUME NEW m \in Messages, NEW w \in Workers, Run(w, m)
                 PROVE  /\ attempts' \in [Messages -> 0 .. MaxRuns]
                        /\ lease' \in [Messages -> 0 .. LeaseTime]
                        /\ running' \in [Workers -> Messages \cup {0}]
                        /\ inTime' \in [Workers -> 0 .. LeaseTime]
      OBVIOUS
    <2>1. attempts[m] + 1 \in 0 .. MaxRuns
      BY <1>1, <1>2 DEF InboxTypeOK, Run
    <2> QED BY <1>1, <1>2, <2>1 DEF InboxTypeOK, Run
  <1>6. \A w \in Workers : Return(w) => /\ running' \in [Workers -> Messages \cup {0}]
                                         /\ inTime' \in [Workers -> 0 .. LeaseTime]
                                         /\ forced' \subseteq Workers
    BY <1>1, <1>2 DEF InboxTypeOK, Return
  <1>7. ASSUME NEW m \in Messages, ReceiveMessage(m) PROVE InboxTypeOK'
    <2>1. arrived' \in Seq(Messages)
      BY <1>1, <1>7 DEF InboxTypeOK, ReceiveMessage
    <2> QED BY <1>1, <1>2, <1>7, <2>1 DEF InboxTypeOK, ReceiveMessage, InboxStates, workerVars, countVars
  <1>8. ASSUME NEW m \in Messages, Redrive(m) PROVE InboxTypeOK'
    BY <1>1, <1>2, <1>8 DEF InboxTypeOK, Redrive, Intervene, InboxStates, workerVars
  <1>9. ASSUME NEW w \in Workers, ProcessNext(w) PROVE InboxTypeOK'
    <2>1. state' \in [Messages -> InboxStates]
      BY <1>1, <1>9, ReapedProperties DEF ProcessNext, InboxStates
    <2>2. \/ UNCHANGED <<attempts, lease, workerVars>>
          \/ \E m \in Messages : Run(w, m) /\ UNCHANGED forced
      BY <1>1, <1>9, ReapedProperties DEF ProcessNext
    <2>3. /\ attempts' \in [Messages -> 0 .. MaxRuns]
          /\ lease' \in [Messages -> 0 .. LeaseTime]
          /\ running' \in [Workers -> Messages \cup {0}]
          /\ inTime' \in [Workers -> 0 .. LeaseTime]
          /\ forced' \subseteq Workers
      BY <1>1, <1>5, <2>2 DEF InboxTypeOK, workerVars
    <2>4. UNCHANGED <<gap, arrived, retry, expected, processed, jumped>>
      BY <1>9 DEF ProcessNext
    <2> QED BY <1>1, <2>1, <2>3, <2>4 DEF InboxTypeOK
  <1>10. ASSUME NEW w \in Workers, NEW ok \in BOOLEAN, Answered(w, ok) PROVE InboxTypeOK'
    <2>1. UNCHANGED <<gap, arrived, attempts>> /\ running[w] # 0 /\ Return(w)
      BY <1>10 DEF Answered, Succeeds, Fails
    <2>2. running[w] \in Messages
      BY <1>1, <2>1 DEF InboxTypeOK
    <2>3. CASE Succeeds(w)
      <3>1. /\ state' \in [Messages -> InboxStates]
            /\ expected' \in 1 .. MaxSequence + 1
            /\ jumped' \subseteq Messages
        BY <1>1, <2>1, <2>3, SucceedsProperties
      <3>2. /\ lease' \in [Messages -> 0 .. LeaseTime]
            /\ retry' \in [Messages -> 0 .. RetryTime]
            /\ processed' \subseteq Messages
        BY <1>1, <1>2, <2>2, <2>3 DEF Succeeds, InboxTypeOK
      <3> QED BY <1>1, <1>6, <2>1, <3>1, <3>2 DEF InboxTypeOK
    <2>4. CASE Fails(w)
      <3>1. /\ state' \in [Messages -> InboxStates]
            /\ lease' \in [Messages -> 0 .. LeaseTime]
            /\ retry' \in [Messages -> 0 .. RetryTime]
        <4>1. /\ "PARKED" \in InboxStates /\ "FAILED" \in InboxStates
              /\ state \in [Messages -> InboxStates]
              /\ lease \in [Messages -> 0 .. LeaseTime]
              /\ retry \in [Messages -> 0 .. RetryTime]
          BY <1>1 DEF InboxTypeOK, InboxStates
        <4>2. \/ state' = [state EXCEPT ![running[w]] = "PARKED"]
              \/ state' = [state EXCEPT ![running[w]] = "FAILED"]
              \/ state' = state
          BY <2>4 DEF Fails
        <4>3. lease' = [lease EXCEPT ![running[w]] = 0] \/ lease' = lease
          BY <2>4 DEF Fails
        <4>4. \/ retry' = [retry EXCEPT ![running[w]] = 0]
              \/ retry' = [retry EXCEPT ![running[w]] = RetryTime]
              \/ retry' = retry
          BY <2>4 DEF Fails
        <4> QED BY <1>2, <2>2, <4>1, <4>2, <4>3, <4>4
      <3>2. UNCHANGED <<expected, processed, jumped>>
        BY <2>4 DEF Fails
      <3> QED BY <1>1, <1>6, <2>1, <3>1, <3>2 DEF InboxTypeOK
    <2> QED BY <1>10, <2>3, <2>4 DEF Answered
  <1>11. ASSUME NEW w \in Workers, HandlerCrashes(w) PROVE InboxTypeOK'
    BY <1>1, <1>6, <1>11 DEF InboxTypeOK, HandlerCrashes, recordVars
  <1>12. ASSUME NEW w \in Workers, NEW m \in Messages, ProcessRecord(w, m) PROVE InboxTypeOK'
    <2>1. Run(w, m) /\ forced' \subseteq Workers /\ state' \in [Messages -> InboxStates]
          /\ UNCHANGED <<gap, arrived, retry, expected, processed, jumped>>
      BY <1>1, <1>12 DEF InboxTypeOK, ProcessRecord, InboxStates
    <2> QED BY <1>1, <1>5, <2>1 DEF InboxTypeOK
  <1>13. ASSUME NEW S \in SUBSET Messages, InboxCleanup(S) PROVE InboxTypeOK'
    <2>1. arrived' \in Seq(Messages)
      BY <1>1, <1>13, WithoutProperties DEF InboxTypeOK, InboxCleanup
    <2>2. /\ state' \in [Messages -> InboxStates]
          /\ running' \in [Workers -> Messages \cup {0}]
          /\ inTime' \in [Workers -> 0 .. LeaseTime]
          /\ forced' \subseteq Workers
      BY <1>1, <1>2, <1>13 DEF InboxTypeOK, InboxCleanup, InboxStates
    <2> QED BY <1>1, <1>13, <2>1, <2>2 DEF InboxTypeOK, InboxCleanup, Intervene
  <1>14. CASE InboxTick
    <2>1. /\ lease' \in [Messages -> 0 .. LeaseTime]
          /\ retry' \in [Messages -> 0 .. RetryTime]
          /\ inTime' \in [Workers -> 0 .. LeaseTime]
      BY <1>1, <1>3, <1>4, <1>14 DEF InboxTypeOK, InboxTick
    <2> QED BY <1>1, <1>14, <2>1 DEF InboxTypeOK, InboxTick, countVars
  <1>15. CASE UNCHANGED inboxVars
    BY <1>1, <1>15 DEF InboxTypeOK, inboxVars, recordVars, workerVars
  <1> QED BY <1>7, <1>8, <1>9, <1>10, <1>11, <1>12, <1>13, <1>14, <1>15 DEF InboxNext

\* expected passes only what is processed or given up, and nothing deferred.
LEMMA InboxOrderInductive ==
  InboxIInv /\ [InboxNext]_inboxVars => (RetryBudget /\ DeferredAhead /\ BehindExpected)'
  <1> SUFFICES ASSUME InboxIInv, [InboxNext]_inboxVars
               PROVE  RetryBudget' /\ DeferredAhead' /\ BehindExpected'
    OBVIOUS
  <1>1. InboxTypeOK /\ RetryBudget /\ DeferredAhead /\ BehindExpected
    BY DEF InboxIInv, InboxInv
  <1>2. {MaxSequence, MaxTries} \subseteq Nat /\ expected \in Nat
    BY <1>1, InboxAssumption DEF InboxTypeOK
  <1>3. ASSUME NEW m \in Messages, ReceiveMessage(m)
        PROVE  RetryBudget' /\ DeferredAhead' /\ BehindExpected'
    <2>1. \A k \in Messages : state'[k] = state[k] \/ state'[k] = "RECEIVED"
      BY <1>1, <1>3 DEF InboxTypeOK, ReceiveMessage
    <2>2. \A k \in Messages : state'[k] # "RECEIVED" => attempts'[k] = attempts[k]
      BY <1>1, <1>3 DEF InboxTypeOK, ReceiveMessage
    <2> QED BY <1>1, <1>3, <2>1, <2>2
          DEF RetryBudget, DeferredAhead, Ahead, BehindExpected, ReceiveMessage, workerVars
  <1>4. ASSUME NEW m \in Messages, Redrive(m)
        PROVE  RetryBudget' /\ DeferredAhead' /\ BehindExpected'
    <2>1. \A k \in Messages : /\ state'[k] = state[k] \/ state'[k] = "RECEIVED"
                              /\ state'[k] # "RECEIVED" => attempts'[k] = attempts[k]
      BY <1>1, <1>4 DEF InboxTypeOK, Redrive
    <2> QED BY <1>1, <1>4, <2>1
          DEF RetryBudget, DeferredAhead, Ahead, BehindExpected, Redrive, Intervene, workerVars
  <1>5. ASSUME NEW w \in Workers, ProcessNext(w)
        PROVE  RetryBudget' /\ DeferredAhead' /\ BehindExpected'
    <2>1. \A k \in Messages : /\ Reaped[k] = state[k] \/ Reaped[k] = "RECEIVED"
      BY <1>1, ReapedProperties
    <2>2. UNCHANGED <<expected, processed, jumped>> /\ forced' = forced
      BY <1>5 DEF ProcessNext, workerVars
    <2>3. CASE state' = Reaped /\ UNCHANGED <<attempts, lease, workerVars>>
      BY <1>1, <2>1, <2>2, <2>3
         DEF RetryBudget, DeferredAhead, Ahead, BehindExpected, workerVars
    <2>4. ASSUME NEW m \in NextActionable(Reaped), Ahead(m),
                 state' = [Reaped EXCEPT ![m] = IF @ = "RECEIVED" THEN "DEFERRED" ELSE @],
                 UNCHANGED <<attempts, lease, workerVars>>
          PROVE  RetryBudget' /\ DeferredAhead' /\ BehindExpected'
      <3>1. m \in Messages /\ Reaped \in [Messages -> InboxStates]
        BY <1>1, ReapedProperties
      <3>2. \A k \in Messages : \/ state'[k] = Reaped[k]
                                \/ k = m /\ state'[k] = "DEFERRED"
        BY <2>4, <3>1
      <3> QED BY <1>1, <2>1, <2>2, <2>4, <3>2
            DEF RetryBudget, DeferredAhead, Ahead, BehindExpected, workerVars
    <2>5. ASSUME NEW m \in NextActionable(Reaped), ~Ahead(m),
                 state' = [Reaped EXCEPT ![m] = "PROCESSING"], Run(w, m), UNCHANGED forced
          PROVE  RetryBudget' /\ DeferredAhead' /\ BehindExpected'
      <3>1. m \in Messages /\ Reaped \in [Messages -> InboxStates]
        BY <1>1, ReapedProperties
      <3>2. \A k \in Messages : \/ state'[k] = Reaped[k] /\ attempts'[k] = attempts[k]
                                \/ state'[k] = "PROCESSING"
        BY <1>1, <2>5, <3>1 DEF Run, InboxTypeOK
      <3>3. RetryBudget' /\ DeferredAhead'
        BY <1>1, <2>1, <2>2, <3>2 DEF RetryBudget, DeferredAhead, Ahead
      <3>4. m <= expected
        BY <1>2, <2>5, <3>1 DEF Ahead, Messages
      <3>5. \A v \in Workers : running'[v] = running[v] \/ running'[v] = m
        BY <1>1, <2>5 DEF Run, InboxTypeOK
      <3>6. BehindExpected'
        BY <1>1, <2>2, <3>4, <3>5 DEF BehindExpected
      <3> QED BY <3>3, <3>6
    <2> QED BY <1>5, <2>3, <2>4, <2>5 DEF ProcessNext
  <1>6. ASSUME NEW w \in Workers, NEW ok \in BOOLEAN, Answered(w, ok)
        PROVE  RetryBudget' /\ DeferredAhead' /\ BehindExpected'
    <2>1. running[w] # 0 /\ Return(w) /\ running[w] \in Messages
      BY <1>1, <1>6 DEF Answered, InboxTypeOK
    <2>2. \A v \in Workers : running'[v] # 0 /\ v \notin forced'
            => running'[v] = running[v] /\ v \notin forced
      BY <1>1, <2>1 DEF Return, InboxTypeOK
    <2>3. CASE Succeeds(w)
      <3>1. /\ expected' \in 1 .. MaxSequence + 1 /\ expected <= expected'
            /\ \A m \in Messages : expected <= m /\ m < expected' => m \in processed' \cup jumped'
            /\ processed \subseteq processed' /\ jumped \subseteq jumped'
            /\ state'[running[w]] = "PROCESSED"
            /\ \A m \in Messages \ {running[w]} :
                 \/ state'[m] = state[m]
                 \/ state[m] = "DEFERRED" /\ state'[m] = "RECEIVED"
            /\ \A m \in Messages : state'[m] = "DEFERRED" => m > expected'
        BY <1>1, <2>1, <2>3, SucceedsProperties
      <3>2. attempts' = attempts
        BY <2>3 DEF Succeeds
      <3>3. RetryBudget'
        BY <1>1, <3>1, <3>2 DEF RetryBudget
      <3>4. DeferredAhead'
        BY <3>1 DEF DeferredAhead, Ahead
      <3>5. ASSUME NEW m \in Messages, m < expected' PROVE m \in processed' \cup jumped'
        <4>1. m \in Nat
          BY DEF Messages
        <4>2. CASE m < expected
          BY <1>1, <3>1, <4>2 DEF BehindExpected
        <4>3. CASE ~(m < expected)
          BY <1>2, <3>1, <3>5, <4>1, <4>3
        <4> QED BY <4>2, <4>3
      <3>6. ASSUME NEW v \in Workers, running'[v] # 0, v \notin forced' PROVE running'[v] <= expected'
        <4>1. running'[v] <= expected /\ running'[v] \in Nat
          BY <1>1, <2>2, <3>6 DEF BehindExpected, InboxTypeOK, Messages
        <4> QED BY <1>2, <3>1, <4>1
      <3> QED BY <3>3, <3>4, <3>5, <3>6 DEF BehindExpected
    <2>4. CASE Fails(w)
      <3>1. \A m \in Messages : \/ state'[m] = state[m]
                                \/ state'[m] = "FAILED" /\ ~Spent(m)
                                \/ state'[m] = "PARKED" /\ Spent(m)
        BY <1>1, <2>1, <2>4 DEF Fails, InboxTypeOK
      <3>2. UNCHANGED <<attempts, expected, processed, jumped>>
        BY <2>4 DEF Fails
      <3>3. \A m \in Messages : attempts[m] \in Nat
        BY <1>1 DEF InboxTypeOK
      <3>4. RetryBudget'
        BY <1>1, <1>2, <3>1, <3>2, <3>3 DEF RetryBudget, Spent
      <3> QED BY <1>1, <2>2, <3>1, <3>2, <3>4 DEF DeferredAhead, Ahead, BehindExpected
    <2> QED BY <1>6, <2>3, <2>4 DEF Answered
  <1>7. ASSUME NEW w \in Workers, HandlerCrashes(w)
        PROVE  RetryBudget' /\ DeferredAhead' /\ BehindExpected'
    <2>1. \A v \in Workers : running'[v] # 0 /\ v \notin forced'
            => running'[v] = running[v] /\ v \notin forced
      BY <1>1, <1>7 DEF HandlerCrashes, Return, InboxTypeOK
    <2> QED BY <1>1, <1>7, <2>1
          DEF HandlerCrashes, RetryBudget, DeferredAhead, Ahead, BehindExpected, recordVars
  <1>8. ASSUME NEW w \in Workers, NEW m \in Messages, ProcessRecord(w, m)
        PROVE  RetryBudget' /\ DeferredAhead' /\ BehindExpected'
    <2>1. \A k \in Messages : \/ state'[k] = state[k] /\ attempts'[k] = attempts[k]
                              \/ state'[k] = "PROCESSING"
      BY <1>1, <1>8 DEF ProcessRecord, Run, InboxTypeOK
    <2>2. \A v \in Workers : v \notin forced' => running'[v] = running[v] /\ v \notin forced
      BY <1>1, <1>8 DEF ProcessRecord, Run, InboxTypeOK
    <2> QED BY <1>1, <1>8, <2>1, <2>2
          DEF ProcessRecord, RetryBudget, DeferredAhead, Ahead, BehindExpected
  <1>9. ASSUME NEW S \in SUBSET Messages, InboxCleanup(S)
        PROVE  RetryBudget' /\ DeferredAhead' /\ BehindExpected'
    <2>1. \A k \in Messages : state'[k] = state[k] \/ state'[k] = "none"
      BY <1>9 DEF InboxCleanup
    <2>2. \A v \in Workers : running'[v] # 0 /\ v \notin forced'
            => running'[v] = running[v] /\ v \notin forced
      BY <1>9 DEF InboxCleanup
    <2> QED BY <1>1, <1>9, <2>1, <2>2
          DEF InboxCleanup, Intervene, RetryBudget, DeferredAhead, Ahead, BehindExpected
  <1>10. CASE InboxTick
    BY <1>1, <1>10 DEF InboxTick, RetryBudget, DeferredAhead, Ahead, BehindExpected
  <1>11. CASE UNCHANGED inboxVars
    BY <1>1, <1>11
       DEF inboxVars, recordVars, workerVars, RetryBudget, DeferredAhead, Ahead, BehindExpected
  <1> QED BY <1>3, <1>4, <1>5, <1>6, <1>7, <1>8, <1>9, <1>10, <1>11 DEF InboxNext

\* A handler that keeps to its lease stays the only one of its message.
LEMMA InboxLeasesInductive == InboxIInv /\ [InboxNext]_inboxVars => RunsLeased'
  <1> SUFFICES ASSUME InboxIInv, [InboxNext]_inboxVars, InLease, interventions' = 0
               PROVE  /\ \A w \in Workers : running'[w] # 0
                           => /\ state'[running'[w]] = "PROCESSING"
                              /\ lease'[running'[w]] = inTime'[w]
                              /\ inTime'[w] >= 1
                      /\ \A w, v \in Workers :
                           running'[w] # 0 /\ running'[w] = running'[v] => w = v
    BY DEF RunsLeased
  <1> DEFINE Held(v, r, st, ls, tm) == /\ st[r[v]] = "PROCESSING"
                                       /\ ls[r[v]] = tm[v]
                                       /\ tm[v] >= 1
             Leased == /\ \A v \in Workers : running'[v] # 0
                             => Held(v, running', state', lease', inTime')
                       /\ \A u, v \in Workers :
                            running'[u] # 0 /\ running'[u] = running'[v] => u = v
  <1>1. InboxTypeOK /\ DeferredAhead /\ interventions \in Nat
    BY DEF InboxIInv, InboxInv
  <1>2. /\ \A v \in Workers : running[v] # 0 => Held(v, running, state, lease, inTime)
        /\ \A u, v \in Workers : running[u] # 0 /\ running[u] = running[v] => u = v
        /\ interventions = 0
    <2>1. interventions = 0
      BY <1>1 DEF InboxNext, ReceiveMessage, Redrive, Intervene, ProcessNext, Answered,
                  HandlerCrashes, ProcessRecord, InboxCleanup, InboxTick, countVars, inboxVars
    <2> QED BY <2>1 DEF InboxIInv, RunsLeased
  <1>3. \A v \in Workers : running[v] \in Messages \cup {0} /\ inTime[v] \in Nat
    BY <1>1, InboxAssumption DEF InboxTypeOK
  <1>4. ASSUME NEW m \in Messages, ReceiveMessage(m) PROVE Leased
    <2>1. \A v \in Workers : running[v] # 0 => running[v] # m /\ running[v] \in Messages
      BY <1>2, <1>3, <1>4 DEF ReceiveMessage
    <2>2. \A k \in Messages : k # m => state'[k] = state[k]
      BY <1>1, <1>4 DEF ReceiveMessage, InboxTypeOK
    <2> QED BY <1>2, <1>4, <2>1, <2>2 DEF ReceiveMessage, workerVars
  <1>5. ASSUME NEW m \in Messages, Redrive(m) PROVE Leased
    BY <1>1, <1>2, <1>5 DEF Redrive, Intervene
  <1>6. ASSUME NEW w \in Workers, ProcessNext(w) PROVE Leased
    <2>1. \A v \in Workers : running[v] # 0
            => running[v] \in Messages /\ Reaped[running[v]] = "PROCESSING"
      BY <1>1, <1>2, <1>3, ReapedProperties DEF LeaseOver
    <2>2. CASE state' = Reaped /\ UNCHANGED <<attempts, lease, workerVars>>
      BY <1>2, <2>1, <2>2 DEF workerVars
    <2>3. ASSUME NEW m \in NextActionable(Reaped), Ahead(m),
                 state' = [Reaped EXCEPT ![m] = IF @ = "RECEIVED" THEN "DEFERRED" ELSE @],
                 UNCHANGED <<attempts, lease, workerVars>>
          PROVE  Leased
      <3>1. m \in Messages /\ Reaped \in [Messages -> InboxStates]
        BY <1>1, ReapedProperties
      <3>2. \A v \in Workers : running[v] # 0 => state'[running[v]] = "PROCESSING"
        BY <2>1, <2>3, <3>1
      <3> QED BY <1>2, <2>3, <3>2 DEF workerVars
    <2>4. ASSUME NEW m \in NextActionable(Reaped), ~Ahead(m),
                 state' = [Reaped EXCEPT ![m] = "PROCESSING"], Run(w, m), UNCHANGED forced
          PROVE  Leased
      <3>1. /\ m \in Messages /\ Reaped \in [Messages -> InboxStates]
            /\ Reaped[m] \in {"RECEIVED", "FAILED", "DEFERRED"}
        BY <1>1, ReapedProperties
      <3>2. \A v \in Workers : running[v] # 0 => running[v] # m
        BY <2>1, <3>1
      <3>3. \A v \in Workers : v # w => running'[v] = running[v] /\ inTime'[v] = inTime[v]
        BY <1>1, <2>4 DEF Run, InboxTypeOK
      <3>4. running'[w] = m /\ inTime'[w] = LeaseTime
        BY <1>1, <2>4 DEF Run, InboxTypeOK
      <3>5. /\ \A k \in Messages : k # m => state'[k] = Reaped[k] /\ lease'[k] = lease[k]
            /\ state'[m] = "PROCESSING" /\ lease'[m] = LeaseTime
        BY <1>1, <2>4, <3>1 DEF Run, InboxTypeOK
      <3>6. Held(w, running', state', lease', inTime')
        BY <3>4, <3>5, InboxAssumption
      <3>7. ASSUME NEW v \in Workers, v # w, running'[v] # 0
            PROVE  Held(v, running', state', lease', inTime')
        <4>1. running[v] \in Messages /\ running[v] # m /\ Reaped[running[v]] = "PROCESSING"
          BY <2>1, <3>2, <3>3, <3>7
        <4>2. Held(v, running, state, lease, inTime)
          BY <1>2, <3>3, <3>7
        <4> QED BY <3>3, <3>5, <3>7, <4>1, <4>2
      <3>8. ASSUME NEW u \in Workers, NEW v \in Workers, running'[u] # 0, running'[u] = running'[v]
            PROVE  u = v
        BY <1>2, <3>2, <3>3, <3>4, <3>8
      <3> QED BY <3>6, <3>7, <3>8
    <2> QED BY <1>6, <2>2, <2>3, <2>4 DEF ProcessNext
  <1>7. ASSUME NEW w \in Workers, NEW ok \in BOOLEAN, Answered(w, ok) PROVE Leased
    <2>1. running[w] # 0 /\ Return(w) /\ running[w] \in Messages
      BY <1>3, <1>7 DEF Answered
    <2>2. /\ running'[w] = 0
          /\ \A v \in Workers : v # w => running'[v] = running[v] /\ inTime'[v] = inTime[v]
      BY <1>1, <2>1 DEF Return, InboxTypeOK
    <2>3. \A k \in Messages \ {running[w]} :
            /\ lease'[k] = lease[k]
            /\ state[k] = "PROCESSING" => state'[k] = state[k]
      <3>1. CASE Succeeds(w)
        <4>1. \A k \in Messages \ {running[w]} : \/ state'[k] = state[k]
                                                 \/ state[k] = "DEFERRED" /\ state'[k] = "RECEIVED"
          BY <1>1, <2>1, <3>1, SucceedsProperties
        <4>2. lease' = [lease EXCEPT ![running[w]] = 0]
          BY <3>1 DEF Succeeds
        <4> QED BY <1>1, <4>1, <4>2 DEF InboxTypeOK
      <3>2. CASE Fails(w)
        BY <1>1, <3>2 DEF Fails, InboxTypeOK
      <3> QED BY <1>7, <3>1, <3>2 DEF Answered
    <2>4. ASSUME NEW v \in Workers, running'[v] # 0
          PROVE  Held(v, running', state', lease', inTime')
      <3>1. v # w /\ running'[v] = running[v] /\ inTime'[v] = inTime[v]
        BY <2>2, <2>4
      <3>2. running[v] \in Messages \ {running[w]} /\ Held(v, running, state, lease, inTime)
        BY <1>2, <1>3, <2>4, <3>1
      <3> QED BY <2>3, <3>1, <3>2
    <2>5. ASSUME NEW u \in Workers, NEW v \in Workers, running'[u] # 0, running'[u] = running'[v]
          PROVE  u = v
      BY <1>2, <2>2, <2>5
    <2> QED BY <2>4, <2>5
  <1>8. ASSUME NEW w \in Workers, HandlerCrashes(w) PROVE Leased
    <2>1. /\ running'[w] = 0
          /\ \A v \in Workers : v # w => running'[v] = running[v] /\ inTime'[v] = inTime[v]
      BY <1>1, <1>8 DEF HandlerCrashes, Return, InboxTypeOK
    <2> QED BY <1>2, <1>8, <2>1 DEF HandlerCrashes, recordVars
  <1>9. ASSUME NEW w \in Workers, NEW m \in Messages, ProcessRecord(w, m) PROVE Leased
    BY <1>1, <1>2, <1>9 DEF ProcessRecord
  <1>10. ASSUME NEW S \in SUBSET Messages, InboxCleanup(S) PROVE Leased
    BY <1>1, <1>2, <1>10 DEF InboxCleanup, Intervene
  <1>11. CASE InboxTick
    <2>1. \A v \in Workers : running[v] # 0 => inTime[v] > 1
      BY <1>11 DEF InboxTick
    <2>2. ASSUME NEW v \in Workers, running'[v] # 0
          PROVE  Held(v, running', state', lease', inTime')
      <3>1. /\ running' = running /\ state' = state
            /\ inTime'[v] = Less(inTime[v]) /\ running[v] \in Messages
            /\ lease'[running[v]] = Less(lease[running[v]])
        BY <1>3, <1>11, <2>2 DEF InboxTick
      <3>2. Held(v, running, state, lease, inTime) /\ inTime[v] > 1 /\ inTime[v] \in Nat
        BY <1>2, <1>3, <2>1, <2>2, <3>1
      <3> QED BY <3>1, <3>2 DEF Less
    <2> QED BY <1>2, <1>11, <2>2 DEF InboxTick
  <1>12. CASE UNCHANGED inboxVars
    BY <1>2, <1>12 DEF inboxVars, recordVars, workerVars
  <1> QED BY <1>4, <1>5, <1>6, <1>7, <1>8, <1>9, <1>10, <1>11, <1>12 DEF InboxNext

\* Nothing is received in the beginning.
LEMMA InboxStarts == InboxInit => InboxIInv
  <1> SUFFICES ASSUME InboxInit PROVE InboxIInv
    OBVIOUS
  <1>1. InboxTypeOK
    BY InboxAssumption DEF InboxInit, InboxTypeOK, InboxStates
  <1>2. RetryBudget /\ DeferredAhead
    BY DEF InboxInit, RetryBudget, DeferredAhead
  <1>3. BehindExpected
    BY DEF InboxInit, BehindExpected, Messages
  <1>4. RunsLeased
    BY DEF InboxInit, RunsLeased
  <1> QED BY <1>1, <1>2, <1>3, <1>4 DEF InboxIInv, InboxInv, InboxInit

\* No step of the inbox breaks its invariant.
LEMMA InboxInductive == InboxIInv /\ [InboxNext]_inboxVars => InboxIInv'
  <1> SUFFICES ASSUME InboxIInv, [InboxNext]_inboxVars
               PROVE  {crashes', interventions'} \subseteq Nat
    BY InboxTypeInductive, InboxOrderInductive, InboxLeasesInductive DEF InboxIInv, InboxInv
  <1>1. \/ crashes' = crashes
        \/ crashes' = crashes + 1
    BY DEF InboxNext, ReceiveMessage, Redrive, Intervene, ProcessNext, Answered,
           HandlerCrashes, ProcessRecord, InboxCleanup, InboxTick, countVars, inboxVars
  <1>2. \/ interventions' = interventions
        \/ interventions' = interventions + 1
    BY DEF InboxNext, ReceiveMessage, Redrive, Intervene, ProcessNext, Answered,
           HandlerCrashes, ProcessRecord, InboxCleanup, InboxTick, countVars, inboxVars
  <1> QED BY <1>1, <1>2 DEF InboxIInv

\* The invariant holds throughout.
LEMMA InboxInvariant == InboxSpec => []InboxIInv
  BY InboxStarts, InboxInductive, PTL DEF InboxSpec

LEMMA InboxSafe == InboxIInv => InboxInv /\ HandledInOrder
  <1> SUFFICES ASSUME InboxIInv, NEW w \in Workers, running[w] # 0, w \notin forced,
                      NEW m \in 1 .. running[w] - 1
               PROVE  m \in processed \cup jumped
    BY DEF InboxIInv, HandledInOrder
  <1>1. running[w] \in 1 .. MaxSequence /\ expected \in Nat /\ MaxSequence \in Nat
    BY InboxAssumption DEF InboxIInv, InboxInv, InboxTypeOK, Messages
  <1>2. running[w] <= expected
    BY DEF InboxIInv, BehindExpected
  <1>3. m \in Messages /\ m < expected
    BY <1>1, <1>2 DEF Messages
  <1> QED BY <1>3 DEF InboxIInv, BehindExpected

\* A message is handled only when each one before it is processed or given up,
\* whatever handlers, operators and leases do: for every number of both.
THEOREM HandlesInOrder == InboxSpec => [](InboxInv /\ HandledInOrder)
  BY InboxSafe, InboxInvariant, PTL

LEMMA InboxLeased == InboxIInv => OneHandler
  BY DEF InboxIInv, RunsLeased, OneHandler

\* While handlers keep to their leases and nobody intervenes, no message has two.
THEOREM KeepsOneHandler == InboxSpec => []OneHandler
  BY InboxLeased, InboxInvariant, PTL

-----------------------------------------------------------------------------
(***************************************************************************)
(*  The sink delivers each acknowledged record once, and again only by a   *)
(*  retry.                                                                 *)
(*                                                                         *)
(*  What is acknowledged, the pending transaction and the buffer are       *)
(*  consecutive stretches of the records, and the only commit at its       *)
(*  write writes the pending one: so what is written is what is            *)
(*  acknowledged next.                                                     *)
(***************************************************************************)

\* The records after the first lo, up to hi, in order.
Stretch(s, lo, hi) == /\ s \in Seq(Records) /\ lo + Len(s) = hi
                      /\ \A i \in 1 .. Len(s) : s[i] = lo + i

\* What is acknowledged, what is pending and what is buffered follow one another.
Frozen == IF txn = NoTxn THEN acked ELSE txn.offset

Contiguous == /\ txn # NoTxn => acked < txn.offset /\ Stretch(txn.records, acked, txn.offset)
              /\ Stretch(buffer, Frozen, offset)

\* The commit at its write, there is one at most, writes what is pending.
OneWriter == /\ \A k \in Commits : writing[k] # <<>> => txn # NoTxn /\ writing[k] = txn.records
             /\ \A j, k \in Commits : writing[j] # <<>> /\ writing[k] # <<>> => j = k

SinkTyped == /\ offset \in 0 .. MaxOffset /\ acked \in 0 .. MaxOffset /\ rewrites \in Nat
             /\ delivered \in [Records -> Nat]
             /\ writing \in [Commits -> Seq(Records)]
             /\ txn \in [records : Seq(Records), offset : 0 .. MaxOffset]

SinkIInv == /\ SinkTyped
            /\ Contiguous
            /\ OneWriter
            /\ \A r \in Records : /\ r <= acked => delivered[r] > 0 /\ delivered[r] <= 1 + rewrites
                                  /\ acked < r => delivered[r] <= rewrites

\* A stretch has the records between its bounds, each once.
LEMMA StretchProperties ==
  ASSUME NEW lo \in Nat, NEW hi \in Nat, NEW s, Stretch(s, lo, hi)
  PROVE  /\ Len(s) \in Nat /\ lo <= hi /\ InSeq(s) = lo + 1 .. hi
         /\ s = <<>> <=> lo = hi
  <1>1. Len(s) \in Nat /\ DOMAIN s = 1 .. Len(s) /\ (s = <<>> <=> Len(s) = 0)
    BY LenProperties, EmptySeq DEF Stretch
  <1>2. lo <= hi
    BY <1>1 DEF Stretch
  <1>3. ASSUME NEW r PROVE r \in InSeq(s) <=> r \in lo + 1 .. hi
    <2>1. ASSUME r \in InSeq(s) PROVE r \in lo + 1 .. hi
      <3>1. PICK i \in 1 .. Len(s) : r = lo + i
        BY <1>1, <2>1 DEF InSeq, Stretch
      <3> QED BY <1>1, <3>1 DEF Stretch
    <2>2. ASSUME r \in lo + 1 .. hi PROVE r \in InSeq(s)
      <3>1. r - lo \in 1 .. Len(s) /\ lo + (r - lo) = r
        BY <1>1, <2>2 DEF Stretch
      <3> QED BY <1>1, <3>1 DEF InSeq, Stretch
    <2> QED BY <2>1, <2>2
  <1>4. InSeq(s) = lo + 1 .. hi
    BY <1>3
  <1>5. Len(s) = 0 <=> lo = hi
    BY <1>1 DEF Stretch
  <1> QED BY <1>1, <1>2, <1>4, <1>5

\* Two stretches that follow one another are one.
LEMMA StretchesJoin ==
  ASSUME NEW a \in Nat, NEW b \in Nat, NEW c \in Nat, NEW s, NEW t, Stretch(s, a, b), Stretch(t, b, c)
  PROVE  Stretch(s \o t, a, c)
  <1>1. /\ s \in Seq(Records) /\ t \in Seq(Records) /\ Len(s) \in Nat /\ Len(t) \in Nat
        /\ a + Len(s) = b /\ b + Len(t) = c
        /\ \A i \in 1 .. Len(s) : s[i] = a + i
        /\ \A i \in 1 .. Len(t) : t[i] = b + i
    BY LenProperties DEF Stretch
  <1>2. /\ s \o t \in Seq(Records) /\ Len(s \o t) = Len(s) + Len(t)
        /\ \A i \in 1 .. Len(s) + Len(t) : (s \o t)[i] = IF i <= Len(s) THEN s[i] ELSE t[i - Len(s)]
    BY <1>1, ConcatProperties
  <1>3. ASSUME NEW i \in 1 .. Len(s) + Len(t) PROVE (s \o t)[i] = a + i
    <2>1. CASE i <= Len(s)
      BY <1>1, <1>2, <2>1
    <2>2. CASE ~(i <= Len(s))
      <3> DEFINE m == Len(s)
                 n == Len(t)
      <3>1. m \in Nat /\ n \in Nat /\ i \in 1 .. m + n /\ ~(i <= m) /\ a + m = b
        BY <1>1, <2>2
      <3> HIDE DEF m, n
      <3>2. i - m \in 1 .. n /\ b + (i - m) = a + i
        BY <3>1
      <3>3. i - Len(s) \in 1 .. Len(t) /\ b + (i - Len(s)) = a + i
        BY <3>2 DEF m, n
      <3> QED BY <1>1, <1>2, <2>2, <3>3
    <2> QED BY <2>1, <2>2
  <1>4. a + Len(s \o t) = c
    BY <1>1, <1>2
  <1> QED BY <1>2, <1>3, <1>4 DEF Stretch

\* The empty sequence is a stretch of no records.
LEMMA NoStretch == ASSUME NEW a \in Nat PROVE Stretch(<<>>, a, a)
  <1>1. <<>> \in Seq(Records) /\ Len(<<>>) = 0
    BY EmptySeq
  <1> QED BY <1>1 DEF Stretch

\* What a state of the invariant is made of.
LEMMA SinkFacts ==
  ASSUME SinkIInv
  PROVE  /\ MaxOffset \in Nat /\ offset \in Nat /\ acked \in Nat /\ offset <= MaxOffset
         /\ acked <= MaxOffset /\ txn.offset \in Nat /\ txn.offset <= MaxOffset
         /\ Frozen \in Nat /\ acked <= Frozen /\ Frozen <= offset
         /\ Stretch(buffer, Frozen, offset)
         /\ txn # NoTxn => /\ acked < txn.offset /\ Stretch(txn.records, acked, txn.offset)
                           /\ Frozen = txn.offset
         /\ txn = NoTxn => Frozen = acked
         /\ rewrites \in Nat /\ delivered \in [Records -> Nat] /\ writing \in [Commits -> Seq(Records)]
         /\ txn \in [records : Seq(Records), offset : 0 .. MaxOffset]
  <1>1. MaxOffset \in Nat
    BY SinkAssumption
  <1>2. /\ offset \in Nat /\ acked \in Nat /\ offset <= MaxOffset
        /\ acked <= MaxOffset /\ txn.offset \in Nat /\ txn.offset <= MaxOffset
        /\ rewrites \in Nat /\ delivered \in [Records -> Nat] /\ writing \in [Commits -> Seq(Records)]
        /\ txn \in [records : Seq(Records), offset : 0 .. MaxOffset]
    BY <1>1 DEF SinkIInv, SinkTyped
  <1>3. Frozen \in Nat /\ acked <= Frozen
        /\ (txn # NoTxn => Frozen = txn.offset) /\ (txn = NoTxn => Frozen = acked)
    BY <1>2 DEF SinkIInv, Contiguous, Frozen
  <1>4. Stretch(buffer, Frozen, offset)
    BY DEF SinkIInv, Contiguous
  <1>5. Frozen <= offset
    BY <1>2, <1>3, <1>4, StretchProperties
  <1> QED BY <1>1, <1>2, <1>3, <1>4, <1>5 DEF SinkIInv, Contiguous

\* Nothing is buffered or committed in the beginning.
LEMMA SinkStarts == SinkInit => SinkIInv
  <1> SUFFICES ASSUME SinkInit PROVE SinkIInv
    OBVIOUS
  <1>1. MaxOffset \in Nat /\ <<>> \in Seq(Records)
    BY SinkAssumption, EmptySeq
  <1>2. SinkTyped
    BY <1>1 DEF SinkInit, SinkTyped, NoTxn
  <1>3. Stretch(buffer, Frozen, offset)
    BY NoStretch DEF SinkInit, Frozen
  <1>4. Contiguous /\ OneWriter
    BY <1>3 DEF SinkInit, Contiguous, OneWriter
  <1>5. \A r \in Records : ~(r <= acked) /\ delivered[r] = 0 /\ rewrites = 0
    BY <1>1 DEF SinkInit, Records
  <1> QED BY <1>2, <1>4, <1>5 DEF SinkIInv

\* With one checkpoint at a time, no step breaks the invariant.
LEMMA SinkInductive ==
  ASSUME OneCheckpoint, SinkIInv, [SinkNext]_sinkVars
  PROVE  SinkIInv'
  <1> DEFINE Counted(d, a, w) == \A r \in Records : /\ r <= a => d[r] > 0 /\ d[r] <= 1 + w
                                                    /\ a < r => d[r] <= w
  <1>1. Counted(delivered, acked, rewrites) /\ OneWriter /\ SinkTyped /\ Contiguous
    BY DEF SinkIInv
  <1>2. \A r \in Records : r \in Nat /\ 1 <= r /\ r <= MaxOffset
    BY SinkFacts DEF Records
  <1>3. CASE WriteRecord
    <2> DEFINE b == Append(buffer, offset + 1)
    <2>1. /\ offset < MaxOffset /\ offset' = offset + 1 /\ buffer' = b
          /\ UNCHANGED <<acked, txn, writing, delivered, faults, rewrites>>
      BY <1>3 DEF WriteRecord
    <2>2. offset + 1 \in Records /\ buffer \in Seq(Records) /\ Frozen + Len(buffer) = offset
          /\ \A i \in 1 .. Len(buffer) : buffer[i] = Frozen + i
      <3>1. Stretch(buffer, Frozen, offset) /\ offset \in Nat /\ MaxOffset \in Nat
        BY SinkFacts
      <3>2. offset + 1 \in Records
        BY ONLY <2>1, <3>1 DEF Records
      <3>3. /\ buffer \in Seq(Records) /\ Frozen + Len(buffer) = offset
            /\ \A i \in 1 .. Len(buffer) : buffer[i] = Frozen + i
        BY ONLY <3>1 DEF Stretch
      <3> QED BY ONLY <3>2, <3>3
    <2>3. /\ b \in Seq(Records) /\ Len(b) = Len(buffer) + 1 /\ Len(buffer) \in Nat
          /\ b[Len(buffer) + 1] = offset + 1
          /\ \A i \in 1 .. Len(buffer) : b[i] = buffer[i]
      <3>1. PICK s \in Seq(Records), e \in Records : s = buffer /\ e = offset + 1
        BY <2>2
      <3>2. /\ Append(s, e) \in Seq(Records) /\ Len(Append(s, e)) = Len(s) + 1 /\ Len(s) \in Nat
            /\ Append(s, e)[Len(s) + 1] = e
            /\ \A i \in 1 .. Len(s) : Append(s, e)[i] = s[i]
        BY ONLY s \in Seq(Records), e \in Records, AppendProperties, LenProperties
      <3> QED BY ONLY <3>1, <3>2
    <2> HIDE DEF b
    <2>4. Stretch(b, Frozen, offset + 1)
      <3>1. \A i \in 1 .. Len(b) : i \in 1 .. Len(buffer) \/ i = Len(buffer) + 1
        BY <2>3
      <3>2. Frozen + (Len(buffer) + 1) = offset + 1
        BY <2>2, <2>3, SinkFacts
      <3> QED BY <2>2, <2>3, <3>1, <3>2 DEF Stretch
    <2>5. Frozen' = Frozen
      BY <2>1 DEF Frozen
    <2>6. Contiguous'
      BY <1>1, <2>1, <2>4, <2>5 DEF Contiguous
    <2>7. SinkTyped'
      BY <1>1, <2>1, SinkFacts DEF SinkTyped
    <2> QED BY <1>1, <2>1, <2>6, <2>7 DEF SinkIInv, OneWriter
  <1>4. CASE PrepareCommit
    <2>1. /\ buffer # <<>> /\ txn = NoTxn
          /\ txn' = [records |-> buffer, offset |-> offset] /\ buffer' = <<>>
          /\ UNCHANGED <<offset, acked, writing, delivered, faults, rewrites>>
      BY <1>4 DEF PrepareCommit
    <2>2. Stretch(buffer, acked, offset) /\ buffer \in Seq(Records)
      BY <2>1, SinkFacts DEF Stretch
    <2>3. acked < offset
      BY <2>1, <2>2, SinkFacts, StretchProperties
    <2>4. txn'.records = buffer /\ txn'.offset = offset /\ txn' # NoTxn
      BY <2>1 DEF NoTxn
    <2>5. Frozen' = offset'
      BY <2>1, <2>4 DEF Frozen
    <2>6. Stretch(<<>>, offset, offset)
      BY NoStretch, SinkFacts
    <2>7. Contiguous'
      BY <2>1, <2>2, <2>3, <2>4, <2>5, <2>6 DEF Contiguous
    <2>8. SinkTyped'
      BY <1>1, <2>1, <2>2 DEF SinkTyped
    <2>9. OneWriter'
      BY <1>1, <2>1 DEF OneWriter
    <2> QED BY <1>1, <2>1, <2>7, <2>8, <2>9 DEF SinkIInv
  <1>5. ASSUME NEW k \in Commits, Commit(k) PROVE SinkIInv'
    <2>1. /\ writing[k] = <<>> /\ txn # NoTxn /\ \A j \in Commits : writing[j] = <<>>
          /\ writing' = [writing EXCEPT ![k] = txn.records]
          /\ UNCHANGED <<offset, acked, buffer, txn, delivered, faults, rewrites>>
      BY <1>5 DEF Commit, Writing
    <2>2. txn.records \in Seq(Records)
      BY SinkFacts
    <2>3. SinkTyped'
      BY <1>1, <2>1, <2>2 DEF SinkTyped
    <2>4. OneWriter'
      BY <2>1, SinkFacts DEF OneWriter
    <2>5. Contiguous'
      BY <1>1, <2>1 DEF Contiguous, Frozen
    <2> QED BY <1>1, <2>1, <2>3, <2>4, <2>5 DEF SinkIInv
  <1>6. ASSUME NEW k \in Commits, writing[k] # <<>>
        PROVE  /\ txn # NoTxn /\ writing[k] = txn.records
               /\ \A j \in Commits : j # k => writing[j] = <<>>
               /\ Reached(k) \in [Records -> Nat]
               /\ \A r \in Records : Reached(k)[r] = IF acked < r /\ r <= txn.offset
                                                     THEN delivered[r] + 1 ELSE delivered[r]
    <2>1. /\ txn # NoTxn /\ writing[k] = txn.records
          /\ \A j \in Commits : j # k => writing[j] = <<>>
      BY <1>1, <1>6 DEF OneWriter
    <2>2. InSeq(writing[k]) = acked + 1 .. txn.offset
      BY <2>1, SinkFacts, StretchProperties
    <2>3. \A r \in Records : r \in InSeq(writing[k]) <=> acked < r /\ r <= txn.offset
      BY <1>2, <2>2, SinkFacts
    <2>4. Reached(k) \in [Records -> Nat]
      BY SinkFacts DEF Reached
    <2> QED BY <2>1, <2>3, <2>4 DEF Reached
  <1>7. ASSUME NEW k \in Commits, WriteDone(k) PROVE SinkIInv'
    <2>1. /\ writing[k] # <<>> /\ delivered' = Reached(k)
          /\ writing' = [writing EXCEPT ![k] = <<>>]
          /\ acked' = IF txn.offset > acked THEN txn.offset ELSE acked
          /\ txn' = NoTxn /\ UNCHANGED <<offset, buffer, faults, rewrites>>
      BY <1>7 DEF WriteDone, Completed
    <2>2. acked' = txn.offset /\ acked < txn.offset /\ txn # NoTxn
      BY <1>6, <2>1, SinkFacts
    <2>3. Frozen = txn.offset /\ Frozen' = acked'
      BY <2>1, <2>2, SinkFacts DEF Frozen
    <2>4. Contiguous'
      BY <2>1, <2>2, <2>3, SinkFacts DEF Contiguous
    <2>5. writing' = [j \in Commits |-> <<>>]
      BY <1>6, <2>1, SinkFacts
    <2>6. OneWriter'
      BY <2>5 DEF OneWriter
    <2>7. SinkTyped'
      <3>1. NoTxn \in [records : Seq(Records), offset : 0 .. MaxOffset] /\ <<>> \in Seq(Records)
        BY SinkFacts, EmptySeq DEF NoTxn
      <3> QED BY <1>1, <1>6, <2>1, <2>2, <2>5, <3>1, SinkFacts DEF SinkTyped
    <2>8. Counted(delivered', acked', rewrites')
      <3> SUFFICES ASSUME NEW r \in Records
                   PROVE  /\ r <= acked' => delivered'[r] > 0 /\ delivered'[r] <= 1 + rewrites'
                          /\ acked' < r => delivered'[r] <= rewrites'
        OBVIOUS
      <3>1. /\ delivered'[r] = IF acked < r /\ r <= txn.offset THEN delivered[r] + 1 ELSE delivered[r]
            /\ r <= acked => delivered[r] > 0 /\ delivered[r] <= 1 + rewrites
            /\ acked < r => delivered[r] <= rewrites
            /\ delivered[r] \in Nat /\ r \in Nat
        BY <1>1, <1>2, <1>6, <2>1, SinkFacts
      <3> QED BY <2>1, <2>2, <3>1, SinkFacts
    <2> QED BY <2>4, <2>6, <2>7, <2>8 DEF SinkIInv
  <1>8. ASSUME NEW k \in Commits, WriteFailed(k) PROVE SinkIInv'
    <2>1. /\ writing[k] # <<>> /\ writing' = [writing EXCEPT ![k] = <<>>]
          /\ \/ delivered' = Reached(k) /\ rewrites' = rewrites + 1
             \/ UNCHANGED <<delivered, rewrites>>
          /\ UNCHANGED <<offset, acked, buffer, txn>>
      BY <1>8 DEF WriteFailed
    <2>2. writing' = [j \in Commits |-> <<>>]
      BY <1>6, <2>1, SinkFacts
    <2>3. OneWriter'
      BY <2>2 DEF OneWriter
    <2>4. Contiguous'
      BY <1>1, <2>1 DEF Contiguous, Frozen
    <2>5. SinkTyped'
      <3>1. <<>> \in Seq(Records)
        BY EmptySeq
      <3> QED BY <1>1, <1>6, <2>1, <2>2, <3>1, SinkFacts DEF SinkTyped
    <2>6. Counted(delivered', acked', rewrites')
      <3> SUFFICES ASSUME NEW r \in Records
                   PROVE  /\ r <= acked' => delivered'[r] > 0 /\ delivered'[r] <= 1 + rewrites'
                          /\ acked' < r => delivered'[r] <= rewrites'
        OBVIOUS
      <3>1. /\ \/ rewrites' = rewrites + 1 /\ delivered'[r] \in {delivered[r], delivered[r] + 1}
                  /\ (r <= acked => delivered'[r] = delivered[r])
               \/ rewrites' = rewrites /\ delivered'[r] = delivered[r]
            /\ r <= acked => delivered[r] > 0 /\ delivered[r] <= 1 + rewrites
            /\ acked < r => delivered[r] <= rewrites
            /\ delivered[r] \in Nat /\ r \in Nat
        BY <1>1, <1>2, <1>6, <2>1, SinkFacts
      <3> QED BY <2>1, <3>1, SinkFacts
    <2> QED BY <2>3, <2>4, <2>5, <2>6 DEF SinkIInv
  <1>9. CASE Abort
    <2>1. /\ txn # NoTxn /\ \A j \in Commits : writing[j] = <<>>
          /\ buffer' = txn.records \o buffer /\ txn' = NoTxn
          /\ UNCHANGED <<offset, acked, writing, delivered, rewrites>>
      BY <1>9 DEF Abort, Writing, Restored
    <2>2. Stretch(txn.records \o buffer, acked, offset)
      BY <2>1, SinkFacts, StretchesJoin
    <2>3. Frozen' = acked'
      BY <2>1 DEF Frozen
    <2>4. Contiguous'
      BY <2>1, <2>2, <2>3 DEF Contiguous
    <2>5. SinkTyped'
      <3>1. NoTxn \in [records : Seq(Records), offset : 0 .. MaxOffset]
        BY SinkFacts, EmptySeq DEF NoTxn
      <3> QED BY <1>1, <2>1, <3>1 DEF SinkTyped
    <2>6. OneWriter'
      BY <2>1 DEF OneWriter
    <2> QED BY <1>1, <2>1, <2>4, <2>5, <2>6 DEF SinkIInv
  <1>10. CASE JobCrash
    <2> DEFINE C(S, r) == {k \in S : r \in InSeq(writing[k])}
    <2>1. PICK S \in SUBSET {k \in Commits : writing[k] # <<>>} :
            /\ delivered' = [r \in Records |-> delivered[r] + Cardinality(C(S, r))]
            /\ rewrites' = rewrites + Cardinality(S)
      BY <1>10 DEF JobCrash
    <2>2. /\ offset' = Frozen /\ buffer' = <<>> /\ writing' = [k \in Commits |-> <<>>]
          /\ acked' = acked /\ txn' = txn
      BY <1>10 DEF JobCrash, Resumed, Frozen
    <2>3. IsFiniteSet(S) /\ Cardinality(S) \in Nat
      <3>1. CASE S = {}
        BY <3>1, FS_EmptySet
      <3>2. CASE S # {}
        <4>1. PICK k \in S : TRUE
          BY <3>2
        <4>2. S = {k}
          BY <1>1, <4>1 DEF OneWriter
        <4>3. IsFiniteSet({k}) /\ Cardinality({k}) = 1
          BY FS_Singleton
        <4> QED BY <4>2, <4>3
      <3> QED BY <3>1, <3>2
    <2>4. ASSUME NEW r \in Records
          PROVE  /\ Cardinality(C(S, r)) \in Nat /\ Cardinality(C(S, r)) <= Cardinality(S)
                 /\ r <= acked => Cardinality(C(S, r)) = 0
      <3>1. C(S, r) \subseteq S
        OBVIOUS
      <3>2. Cardinality(C(S, r)) \in Nat /\ Cardinality(C(S, r)) <= Cardinality(S)
        <4> HIDE DEF C
        <4> QED BY <2>3, <3>1, FS_Subset, FS_CardinalityType
      <3>3. ASSUME r <= acked PROVE C(S, r) = {}
        <4> SUFFICES ASSUME NEW k \in S, r \in InSeq(writing[k]) PROVE FALSE
          OBVIOUS
        <4>1. k \in Commits /\ writing[k] # <<>>
          OBVIOUS
        <4>2. txn # NoTxn /\ writing[k] = txn.records
          BY <1>6, <4>1
        <4>3. InSeq(writing[k]) = acked + 1 .. txn.offset
          BY <4>2, SinkFacts, StretchProperties
        <4> QED BY <1>2, <3>3, <4>3, SinkFacts
      <3> QED BY <3>2, <3>3, FS_EmptySet
    <2> HIDE DEF C
    <2>5. Frozen' = Frozen
      BY <2>2 DEF Frozen
    <2>6. Contiguous'
      <3>1. Stretch(<<>>, Frozen, Frozen)
        BY SinkFacts, NoStretch
      <3> QED BY <1>1, <2>2, <2>5, <3>1 DEF Contiguous
    <2>7. SinkTyped'
      <3>1. <<>> \in Seq(Records)
        BY EmptySeq
      <3>2. delivered' \in [Records -> Nat] /\ rewrites' \in Nat
        BY <2>1, <2>3, <2>4, SinkFacts
      <3>3. offset' \in 0 .. MaxOffset
        BY <2>2, SinkFacts
      <3> QED BY <1>1, <2>2, <3>1, <3>2, <3>3 DEF SinkTyped
    <2>8. OneWriter'
      BY <2>2 DEF OneWriter
    <2>9. Counted(delivered', acked', rewrites')
      <3> SUFFICES ASSUME NEW r \in Records
                   PROVE  /\ r <= acked' => delivered'[r] > 0 /\ delivered'[r] <= 1 + rewrites'
                          /\ acked' < r => delivered'[r] <= rewrites'
        OBVIOUS
      <3> DEFINE n == Cardinality(C(S, r))
                 m == Cardinality(S)
      <3>1. n \in Nat /\ n <= m /\ (r <= acked => n = 0) /\ m \in Nat
        BY <2>3, <2>4
      <3>2. delivered'[r] = delivered[r] + n /\ rewrites' = rewrites + m
        BY <2>1
      <3> HIDE DEF n, m
      <3>3. /\ r <= acked => delivered[r] > 0 /\ delivered[r] <= 1 + rewrites
            /\ acked < r => delivered[r] <= rewrites
            /\ delivered[r] \in Nat /\ r \in Nat
        BY <1>1, <1>2, SinkFacts
      <3> QED BY <2>2, <3>1, <3>2, <3>3, SinkFacts
    <2> QED BY <2>6, <2>7, <2>8, <2>9 DEF SinkIInv
  <1>11. CASE UNCHANGED sinkVars
    <2>1. SinkTyped' /\ Contiguous' /\ OneWriter'
      BY <1>1, <1>11 DEF sinkVars, SinkTyped, Contiguous, Frozen, OneWriter
    <2> QED BY <1>1, <1>11, <2>1 DEF sinkVars, SinkIInv
  <1> QED BY <1>3, <1>4, <1>5, <1>7, <1>8, <1>9, <1>10, <1>11 DEF SinkNext

\* The invariant says what the sink promises.
LEMMA SinkSafe == SinkIInv => SinkTypeOK /\ ExactlyOnce
  <1> SUFFICES ASSUME SinkIInv PROVE SinkTypeOK /\ ExactlyOnce
    OBVIOUS
  <1>1. InSeq(buffer) = Frozen + 1 .. offset
    BY SinkFacts, StretchProperties
  <1>2. txn # NoTxn => InSeq(txn.records) = acked + 1 .. Frozen
    BY SinkFacts, StretchProperties
  <1>3. txn = NoTxn => InSeq(txn.records) = {}
    <2>1. InSeq(<<>>) = {}
      BY EmptySeq DEF InSeq
    <2> QED BY <2>1 DEF NoTxn
  <1>4. SinkTypeOK
    BY <1>1, <1>2, <1>3, SinkFacts DEF SinkTypeOK, Records
  <1>5. \A r \in 1 .. acked : r \in Records
    BY SinkFacts DEF Records
  <1>6. AckedIsDelivered
    BY <1>5, SinkFacts DEF AckedIsDelivered, SinkIInv
  <1>7. ASSUME NEW r \in Records
        PROVE  /\ delivered[r] <= 1 + rewrites
               /\ r \notin InSeq(txn.records) \cap InSeq(buffer)
               /\ r <= offset /\ delivered[r] = 0 => r \in InSeq(txn.records) \cup InSeq(buffer)
    <2>1. /\ r <= acked => delivered[r] > 0 /\ delivered[r] <= 1 + rewrites
          /\ acked < r => delivered[r] <= rewrites
          /\ r \in Nat /\ delivered[r] \in Nat
      <3>1. r \in Nat
        BY DEF Records
      <3>2. delivered[r] \in Nat
        BY SinkFacts
      <3> QED BY <3>1, <3>2 DEF SinkIInv
    <2>2. /\ acked \in Nat /\ Frozen \in Nat /\ offset \in Nat /\ rewrites \in Nat
          /\ acked <= Frozen /\ Frozen <= offset
          /\ txn = NoTxn => Frozen = acked
      BY SinkFacts
    <2>3. delivered[r] <= 1 + rewrites
      BY <2>1, <2>2
    <2>4. r \in InSeq(buffer) <=> Frozen < r /\ r <= offset
      BY <1>1, <2>1, <2>2
    <2>5. r \in InSeq(txn.records) => acked < r /\ r <= Frozen
      BY <1>2, <1>3, <2>1, <2>2
    <2>6. acked < r /\ r <= Frozen => r \in InSeq(txn.records)
      BY <1>2, <2>1, <2>2
    <2>7. delivered[r] = 0 => acked < r
      BY <2>1, <2>2
    <2>8. r \notin InSeq(txn.records) \cap InSeq(buffer)
      BY <2>1, <2>2, <2>4, <2>5
    <2>9. r <= offset /\ delivered[r] = 0 => r \in InSeq(txn.records) \cup InSeq(buffer)
      BY <2>1, <2>2, <2>4, <2>6, <2>7
    <2> QED BY <2>3, <2>8, <2>9
  <1> QED BY <1>4, <1>6, <1>7 DEF ExactlyOnce, DeliveredOnce

\* With one checkpoint at a time, whatever writes fail, answers are lost, commits
\* are aborted and jobs crash, no acknowledged record is missing at the destination
\* and none is delivered again but by a retry (prepareCommit, commit, abort, recover).
THEOREM DeliversExactlyOnce ==
  ASSUME OneCheckpoint
  PROVE  SinkSpec => [](SinkTypeOK /\ ExactlyOnce)
  <1>1. SinkIInv /\ [SinkNext]_sinkVars => SinkIInv'
    BY SinkInductive
  <1> QED BY <1>1, SinkSafe, SinkStarts, PTL DEF SinkSpec
=============================================================================
