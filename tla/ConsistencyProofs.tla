------------------------- MODULE ConsistencyProofs --------------------------
(***************************************************************************)
(*  What copies of data and transactions keep, for any number of them.     *)
(*  However updates are delayed, lost or reordered: the replicas of a      *)
(*  read model, the nodes of a coherent cache, and a cache in front of     *)
(*  its source. However steps and writes fail: the saga, and units of      *)
(*  work over one store. The five share no state; each part of the module  *)
(*  is about one of them.                                                  *)
(***************************************************************************)
EXTENDS ReadModelReplication, Coherence, SingleFlightCache, Saga, UnitOfWork, DataLemmas

-----------------------------------------------------------------------------
(***************************************************************************)
(*  A replica is a prefix of the primary, for any number of replicas and   *)
(*  projections, any capacity of the journal and any size of a batch, and  *)
(*  with batches delayed, lost, repeated and reordered at will.            *)
(*                                                                         *)
(*  By itself ReplicaIsPrefix is not inductive: a step copies what the     *)
(*  journal and the batches in flight hold, so these must agree with the   *)
(*  primary, and a batch must have no hole for its first number to tell    *)
(*  whether it fits. That a session finds its writes needs more: the       *)
(*  primary in the order of the events, and each checkpoint reached by an  *)
(*  entry of the replica.                                                  *)
(***************************************************************************)

JournalOK == /\ nextSeq \in Nat
             /\ journal = [n \in BaseSeq .. nextSeq - 1 |-> primary[n]]

\* Entries of the primary from a sequence number on, up to a last one.
Unbroken(from, entries) ==
  /\ from \in Nat
  /\ \E last \in Int : last < nextSeq /\ DOMAIN entries = from .. last
  /\ \A n \in DOMAIN entries : entries[n] = primary[n]

ReplicaOK(r) == /\ cursor[r] \in 0 .. nextSeq
                /\ DOMAIN replica[r] = 0 .. cursor[r] - 1
                /\ \A n \in DOMAIN replica[r] : replica[r][n] = primary[n]

PrefixInv == /\ JournalOK
             /\ cursor \in [Replicas -> Nat]
             /\ DOMAIN replica = Replicas
             /\ \A r \in Replicas : ReplicaOK(r)
             /\ \A b \in shipped : b.to \in Replicas /\ Unbroken(b.from, b.entries)

\* The journal retains what lies within its capacity.
LEMMA BaseType ==
  ASSUME nextSeq \in Nat
  PROVE  BaseSeq \in 0 .. nextSeq
BY ReplicationAssumption DEF BaseSeq

\* A pull returns the primary's entries without a hole.
LEMMA PulledUnbroken ==
  ASSUME JournalOK, NEW from \in Nat, NEW limit \in Nat, Retained(from)
  PROVE  Unbroken(from, Pulled(from, limit))
<1> DEFINE last == IF from + limit < nextSeq THEN from + limit - 1 ELSE nextSeq - 1
<1>1. BaseSeq \in 0 .. nextSeq /\ from >= BaseSeq /\ nextSeq \in Nat
  BY BaseType DEF JournalOK, Retained
<1>2. last \in Int /\ last < nextSeq
  BY <1>1
<1>3. DOMAIN Pulled(from, limit) = from .. last
  BY <1>1 DEF Pulled, JournalOK
<1>4. \A n \in DOMAIN Pulled(from, limit) : Pulled(from, limit)[n] = primary[n]
  BY DEF Pulled, JournalOK
<1> QED
  BY <1>2, <1>3, <1>4 DEF Unbroken

\* The newest of a range is its end.
LEMMA NewestOfRange ==
  ASSUME NEW a \in Int, NEW z \in Int, a <= z
  PROVE  Newest(a .. z) = z
<1>1. z \in a .. z /\ \A y \in a .. z : y <= z
  OBVIOUS
<1>2. \A x \in a .. z : (\A y \in a .. z : y <= x) => x = z
  OBVIOUS
<1> QED
  BY <1>1, <1>2 DEF Newest

\* Applying a contiguous batch keeps every replica a prefix of the primary.
LEMMA AppliedKeepsPrefix ==
  ASSUME PrefixInv, UNCHANGED primaryVars,
         NEW r \in Replicas, NEW STATE from, NEW STATE entries,
         Unbroken(from, entries), Applied(r, from, entries)
  PROVE  /\ cursor' \in [Replicas -> Nat]
         /\ DOMAIN replica' = Replicas
         /\ \A q \in Replicas : ReplicaOK(q)'
<1> DEFINE new == [n \in {i \in DOMAIN entries : i >= cursor[r]} |-> entries[n]]
<1>1. CASE DOMAIN new = {} \/ Gap(from, r)
  <2>1. UNCHANGED replicaVars
    BY <1>1 DEF Applied
  <2> QED
    BY <2>1 DEF PrefixInv, ReplicaOK, replicaVars, primaryVars
<1>2. CASE ~(DOMAIN new = {} \/ Gap(from, r))
  <2>1. PICK last \in Int : last < nextSeq /\ DOMAIN entries = from .. last
    BY DEF Unbroken
  <2>2. /\ nextSeq \in Nat /\ from \in Nat
        /\ cursor[r] \in Nat /\ cursor[r] <= nextSeq
    BY DEF PrefixInv, JournalOK, ReplicaOK, Unbroken
  <2>3. from <= cursor[r]
    BY <1>2, <2>2 DEF Gap
  <2>4. DOMAIN new = cursor[r] .. last
    BY <2>1, <2>2, <2>3
  <2>5. cursor[r] <= last
    BY <1>2, <2>1, <2>2, <2>4
  <2>6. Newest(DOMAIN new) = last
    <3>1. Newest(cursor[r] .. last) = last
      BY <2>1, <2>2, <2>5, NewestOfRange
    <3> HIDE DEF new
    <3> QED
      BY <2>4, <3>1
  <2>7. /\ replica' = [replica EXCEPT ![r] =
               [n \in DOMAIN replica[r] \cup DOMAIN new |->
                  IF n \in DOMAIN new THEN new[n] ELSE replica[r][n]]]
        /\ cursor' = [cursor EXCEPT ![r] = Newest(DOMAIN new) + 1]
    BY <1>2 DEF Applied
  <2>8. /\ cursor' \in [Replicas -> Nat]
        /\ DOMAIN replica' = Replicas
        /\ cursor'[r] = last + 1
    BY <2>1, <2>2, <2>5, <2>6, <2>7 DEF PrefixInv
  <2>9. ReplicaOK(r)'
    <3>1. DOMAIN replica[r] = 0 .. cursor[r] - 1
      BY DEF PrefixInv, ReplicaOK
    <3>2. replica'[r] = [n \in 0 .. last |-> IF n \in DOMAIN new THEN new[n] ELSE replica[r][n]]
      BY <2>1, <2>2, <2>4, <2>5, <2>7, <3>1 DEF PrefixInv
    <3>3. ASSUME NEW n \in 0 .. last
          PROVE  replica'[r][n] = primary[n]
      <4>1. CASE n \in DOMAIN new
        BY <3>2, <4>1 DEF Unbroken
      <4>2. CASE n \notin DOMAIN new
        <5>1. n \in DOMAIN replica[r]
          BY <2>1, <2>2, <2>4, <3>1, <4>2
        <5> QED
          BY <3>2, <4>2, <5>1 DEF PrefixInv, ReplicaOK
      <4> QED
        BY <4>1, <4>2
    <3>4. nextSeq' = nextSeq /\ primary' = primary
      BY DEF primaryVars
    <3>5. cursor'[r] \in 0 .. nextSeq /\ cursor'[r] - 1 = last
      BY <2>1, <2>2, <2>5, <2>8
    <3>6. DOMAIN replica'[r] = 0 .. last
      BY <3>2
    <3> HIDE DEF new
    <3> QED
      BY <3>3, <3>4, <3>5, <3>6 DEF ReplicaOK
  <2>10. ASSUME NEW q \in Replicas, q # r
         PROVE  ReplicaOK(q)'
    BY <2>7, <2>10 DEF PrefixInv, ReplicaOK, primaryVars
  <2> QED
    BY <2>8, <2>9, <2>10
<1> QED
  BY <1>1, <1>2

-----------------------------------------------------------------------------
\* In the beginning there is nothing anywhere.
LEMMA PrefixHoldsInitially == ReplicationInit => PrefixInv
BY ReplicationAssumption
   DEF ReplicationInit, PrefixInv, JournalOK, ReplicaOK, NoEntries, BaseSeq

\* Journaling an entry: the journal and everything copied from it stay as they
\* are, but for the oldest entry.
LEMMA JournalAppendKeepsPrefix ==
  ASSUME PrefixInv, NEW p \in Projections, JournalAppend(p)
  PROVE  PrefixInv'
<1>1. PICK position : LET e == [projection |-> p, position |-> position]
                          base == IF nextSeq + 1 < Capacity THEN 0 ELSE nextSeq + 1 - Capacity
                      IN  /\ primary' = [n \in 0 .. nextSeq |-> IF n = nextSeq THEN e ELSE primary[n]]
                          /\ journal' = [n \in base .. nextSeq |-> IF n = nextSeq THEN e ELSE journal[n]]
  BY DEF JournalAppend
<1>2. /\ nextSeq' = nextSeq + 1 /\ nextSeq \in Nat
      /\ UNCHANGED <<replicaVars, shipped>>
  BY DEF JournalAppend, PrefixInv, JournalOK
<1> DEFINE base == IF nextSeq + 1 < Capacity THEN 0 ELSE nextSeq + 1 - Capacity
<1>3. \A n \in 0 .. nextSeq - 1 : primary'[n] = primary[n]
  BY <1>1, <1>2
<1>4. JournalOK'
  <2>1. BaseSeq' = base /\ base \in 0 .. nextSeq
    BY <1>2, ReplicationAssumption DEF BaseSeq
  <2>2. DOMAIN journal' = base .. nextSeq
    BY <1>1
  <2>3. ASSUME NEW n \in base .. nextSeq
        PROVE  journal'[n] = primary'[n]
    <3>1. CASE n = nextSeq
      BY <1>1, <1>2, <2>1, <3>1
    <3>2. CASE n # nextSeq
      <4>1. n \in BaseSeq .. nextSeq - 1 /\ n \in 0 .. nextSeq
        BY <1>2, <2>1, <3>2, ReplicationAssumption DEF BaseSeq
      <4> QED
        BY <1>1, <3>2, <4>1 DEF PrefixInv, JournalOK
    <3> QED
      BY <3>1, <3>2
  <2>4. journal' = [n \in base .. nextSeq |-> primary'[n]]
    BY <1>1, <2>2, <2>3
  <2> QED
    BY <1>2, <2>1, <2>4 DEF JournalOK
<1>5. ASSUME NEW r \in Replicas
      PROVE  ReplicaOK(r)'
  <2>1. ReplicaOK(r) /\ cursor' = cursor /\ replica' = replica
    BY <1>2 DEF PrefixInv, replicaVars
  <2>2. PICK z \in Nat, k \in Nat : z = nextSeq /\ k = cursor[r] /\ k <= z /\ DOMAIN replica[r] = 0 .. k - 1
    BY <1>2, <2>1 DEF ReplicaOK
  <2>3. nextSeq' = z + 1
    BY <1>2, <2>2
  <2>4. k \in 0 .. z + 1 /\ \A n \in 0 .. k - 1 : n \in 0 .. z - 1
    BY ONLY <2>2, z \in Nat, k \in Nat
  <2>5. \A n \in 0 .. k - 1 : replica[r][n] = primary'[n]
    BY <1>3, <2>1, <2>2, <2>4 DEF ReplicaOK
  <2>6. cursor'[r] \in 0 .. nextSeq' /\ DOMAIN replica'[r] = 0 .. cursor'[r] - 1
    BY ONLY <2>1, <2>2, <2>3, <2>4
  <2>7. \A n \in DOMAIN replica'[r] : replica'[r][n] = primary'[n]
    BY ONLY <2>1, <2>2, <2>5
  <2> QED BY <2>6, <2>7 DEF ReplicaOK
<1>6. ASSUME NEW b \in shipped
      PROVE  Unbroken(b.from, b.entries)'
  <2>1. b.from \in Nat /\ \A n \in DOMAIN b.entries : b.entries[n] = primary[n]
    BY DEF PrefixInv, Unbroken
  <2>2. PICK last \in Int : last < nextSeq /\ DOMAIN b.entries = b.from .. last
    BY DEF PrefixInv, Unbroken
  <2>3. last < nextSeq'
    BY <1>2, <2>2
  <2>4. \A n \in DOMAIN b.entries : b.entries[n] = primary'[n]
    BY <1>2, <1>3, <2>1, <2>2
  <2> QED
    BY <2>1, <2>2, <2>3, <2>4 DEF Unbroken
<1> QED
  BY <1>2, <1>4, <1>5, <1>6 DEF PrefixInv, replicaVars

\* No step of the replication makes a replica diverge.
LEMMA PrefixIsKept ==
  ASSUME PrefixInv, [ReplicationNext]_replicationVars
  PROVE  PrefixInv'
<1>1. ASSUME NEW p \in Projections, JournalAppend(p)
      PROVE  PrefixInv'
  BY <1>1, JournalAppendKeepsPrefix
<1>2. ASSUME NEW p \in Projections, PinWrite(p)
      PROVE  PrefixInv'
  BY <1>2 DEF PinWrite, PrefixInv, JournalOK, BaseSeq, ReplicaOK, Unbroken, primaryVars, replicaVars
<1>3. ASSUME NEW r \in Replicas, Pull(r)
      PROVE  PrefixInv'
  <2>1. Unbroken(cursor[r], Pulled(cursor[r], SyncBatch))
    BY <1>3, PulledUnbroken, ReplicationAssumption DEF Pull, PrefixInv
  <2>2. shipped' = shipped \cup {[to |-> r, from |-> cursor[r],
                                 entries |-> Pulled(cursor[r], SyncBatch)]}
    BY <1>3 DEF Pull
  <2>3. UNCHANGED <<primaryVars, replicaVars>>
    BY <1>3 DEF Pull
  <2>4. \A b \in shipped' : b.to \in Replicas /\ Unbroken(b.from, b.entries)
    BY <2>1, <2>2 DEF PrefixInv
  <2>5. \A b \in shipped' : b.to \in Replicas /\ Unbroken(b.from, b.entries)'
    BY <2>3, <2>4 DEF Unbroken, primaryVars
  <2> QED
    BY <2>3, <2>5 DEF PrefixInv, JournalOK, BaseSeq, ReplicaOK, primaryVars, replicaVars
<1>4. ASSUME NEW r \in Replicas, SyncOnce(r)
      PROVE  PrefixInv'
  <2>1. Unbroken(cursor[r], Pulled(cursor[r], nextSeq))
    BY <1>4, PulledUnbroken DEF SyncOnce, PrefixInv, JournalOK
  <2>2. UNCHANGED <<primaryVars, shipped>>
    BY <1>4 DEF SyncOnce
  <2>3. /\ cursor' \in [Replicas -> Nat] /\ DOMAIN replica' = Replicas
        /\ \A q \in Replicas : ReplicaOK(q)'
    BY <1>4, <2>1, <2>2, AppliedKeepsPrefix DEF SyncOnce
  <2> QED
    BY <2>2, <2>3 DEF PrefixInv, JournalOK, BaseSeq, Unbroken, primaryVars
<1>5. ASSUME NEW r \in Replicas, Rebuild(r)
      PROVE  PrefixInv'
  <2>1. UNCHANGED <<primaryVars, shipped>>
    BY <1>5 DEF Rebuild
  <2>2. cursor' \in [Replicas -> Nat] /\ DOMAIN replica' = Replicas
    BY <1>5 DEF Rebuild, PrefixInv
  <2>3. \A q \in Replicas : ReplicaOK(q)'
    BY <1>5, <2>1 DEF Rebuild, PrefixInv, JournalOK, ReplicaOK, NoEntries, primaryVars
  <2> QED
    BY <2>1, <2>2, <2>3 DEF PrefixInv, JournalOK, BaseSeq, Unbroken, primaryVars
<1>6. ASSUME NEW b \in shipped, ReplicaApply(b)
      PROVE  PrefixInv'
  <2>1. b.to \in Replicas /\ Unbroken(b.from, b.entries)
    BY DEF PrefixInv
  <2>2. UNCHANGED <<primaryVars, shipped>>
    BY <1>6 DEF ReplicaApply
  <2>3. /\ cursor' \in [Replicas -> Nat] /\ DOMAIN replica' = Replicas
        /\ \A q \in Replicas : ReplicaOK(q)'
    BY <1>6, <2>1, <2>2, AppliedKeepsPrefix DEF ReplicaApply
  <2> QED
    BY <2>2, <2>3 DEF PrefixInv, JournalOK, BaseSeq, Unbroken, primaryVars
<1>7. ASSUME NEW b \in shipped, BatchLost(b)
      PROVE  PrefixInv'
  BY <1>7 DEF BatchLost, PrefixInv, JournalOK, BaseSeq, ReplicaOK, Unbroken, primaryVars, replicaVars
<1>8. CASE UNCHANGED replicationVars
  BY <1>8 DEF replicationVars, PrefixInv, JournalOK, BaseSeq, ReplicaOK, Unbroken,
             primaryVars, replicaVars
<1> QED
  BY <1>1, <1>2, <1>3, <1>4, <1>5, <1>6, <1>7, <1>8 DEF ReplicationNext

LEMMA PrefixSuffices == PrefixInv => ReplicaIsPrefix
  BY DEF PrefixInv, ReplicaOK, JournalOK, ReplicaIsPrefix

\* Whatever happens to the batches between them, a replica of the read model
\* (ReplicaReadStore.apply) holds what the primary held at some time.
THEOREM ReplicasArePrefixes == ReplicationSpec => []ReplicaIsPrefix
  BY PrefixHoldsInitially, PrefixIsKept, PrefixSuffices, PTL DEF ReplicationSpec

-----------------------------------------------------------------------------
\* The primary in the order of the events, and entries of one event told apart by
\* their projections.
PrimaryOrdered ==
  /\ nextSeq \in 0 .. MaxEntries
  /\ primary \in [0 .. nextSeq - 1 -> Entry]
  /\ \A m, n \in 0 .. nextSeq - 1 : m <= n => primary[m].position <= primary[n].position
  /\ OneEntryPerEvent
       => \A m, n \in 0 .. nextSeq - 1 :
            primary[m] = primary[n] => m = n

\* The checkpoint of a projection is the position of an entry of its that the
\* replica has.
RouteReached(r, p) ==
  checkpoint[r][p] = -1 \/ \E n \in 0 .. cursor[r] - 1 :
                              /\ primary[n].projection = p
                              /\ primary[n].position = checkpoint[r][p]

RoutingInv == /\ PrefixInv
              /\ PrimaryOrdered
              /\ checkpoint \in [Replicas -> [Projections -> Nat \cup {-1}]]
              /\ floor \in [Projections -> Nat \cup {-1}]
              /\ \A r \in Replicas, p \in Projections : RouteReached(r, p)

\* An entry at or below the checkpoint of its projection is at the replica.
LEMMA RoutingImplies ==
  ASSUME RoutingInv
  PROVE  ReadsOwnWrites /\ ReplicationTypeOK
<1>1. ReadsOwnWrites
  <2> SUFFICES ASSUME OneEntryPerEvent,
                      NEW r \in Replicas, NEW p \in Projections, NEW n \in DOMAIN primary,
                      Qualifies(r, p), primary[n].projection = p,
                      primary[n].position <= floor[p]
               PROVE  n \in DOMAIN replica[r]
    BY DEF ReadsOwnWrites
  <2>1. /\ nextSeq \in Nat /\ n \in 0 .. nextSeq - 1
        /\ primary[n] \in Entry
        /\ cursor[r] \in 0 .. nextSeq /\ DOMAIN replica[r] = 0 .. cursor[r] - 1
        /\ checkpoint[r][p] \in Nat \cup {-1} /\ floor[p] \in Nat \cup {-1}
        /\ RouteReached(r, p)
    BY DEF RoutingInv, PrefixInv, PrimaryOrdered, ReplicaOK, JournalOK
  <2>2. primary[n].position \in Nat
    BY <2>1 DEF Entry
  <2>3. checkpoint[r][p] # -1 /\ primary[n].position <= checkpoint[r][p]
    BY <2>1, <2>2 DEF Qualifies
  <2>4. PICK m \in 0 .. cursor[r] - 1 : /\ primary[m].projection = p
                                        /\ primary[m].position = checkpoint[r][p]
    BY <2>1, <2>3 DEF RouteReached
  <2>5. m \in 0 .. nextSeq - 1 /\ m < cursor[r] /\ primary[m] \in Entry
    BY <2>1, <2>4 DEF RoutingInv, PrimaryOrdered
  <2>6. CASE m < n
    <3>1. primary[m].position <= primary[n].position
      BY <2>1, <2>5, <2>6 DEF RoutingInv, PrimaryOrdered
    <3>2. primary[m].position = primary[n].position
      BY <2>2, <2>3, <2>4, <3>1, <2>5 DEF Entry
    <3>3. primary[m] = primary[n]
      BY <2>1, <2>4, <2>5, <3>2 DEF Entry
    <3>4. m = n
      BY <2>1, <2>5, <3>3 DEF RoutingInv, PrimaryOrdered
    <3> QED BY <2>1, <2>5, <2>6, <3>4
  <2>7. CASE ~(m < n)
    BY <2>1, <2>5, <2>7
  <2> QED BY <2>6, <2>7
<1>2. ReplicationTypeOK
  <2>1. /\ nextSeq \in 0 .. MaxEntries /\ nextSeq \in Nat /\ MaxEntries \in Nat
        /\ primary \in [0 .. nextSeq - 1 -> Entry]
        /\ cursor \in [Replicas -> Nat]
        /\ checkpoint \in [Replicas -> [Projections -> Nat \cup {-1}]]
        /\ floor \in [Projections -> Nat \cup {-1}]
        /\ \A b \in shipped : b.to \in Replicas
    BY ReplicationAssumption DEF RoutingInv, PrefixInv, PrimaryOrdered, JournalOK
  <2>2. journal = [n \in BaseSeq .. nextSeq - 1 |-> primary[n]]
    BY DEF RoutingInv, PrefixInv, JournalOK
  <2>3. \A n \in BaseSeq .. nextSeq - 1 : journal[n] \in Entry
    <3>1. BaseSeq \in 0 .. nextSeq
      BY <2>1, BaseType
    <3>2. \A n \in BaseSeq .. nextSeq - 1 : n \in 0 .. nextSeq - 1 /\ journal[n] = primary[n]
      BY <2>1, <3>1 DEF RoutingInv, PrefixInv, JournalOK
    <3> QED BY <2>1, <3>2
  <2> QED BY <2>1, <2>2, <2>3 DEF ReplicationTypeOK
<1> QED BY <1>1, <1>2

\* The newest of finitely many positions is one of them.
LEMMA NewestIsOneOfThem ==
  ASSUME NEW k \in Nat, NEW S \in SUBSET (-1 .. k), S # {}
  PROVE  Newest(S) \in S
<1> DEFINE T == {x + 1 : x \in S}
<1>1. k + 1 \in Nat /\ T \in SUBSET (0 .. k + 1) /\ T # {}
  <2>1. \A x \in S : x + 1 \in 0 .. k + 1
    <3>1. \A x \in -1 .. k : x + 1 \in 0 .. k + 1
      OBVIOUS
    <3> QED BY <3>1
  <2>2. PICK x \in S : TRUE
    OBVIOUS
  <2>3. x + 1 \in T
    OBVIOUS
  <2> QED BY <2>1, <2>3
<1>2. PICK t \in T : \A u \in T : u <= t
  <2> HIDE DEF T
  <2> QED BY <1>1, GreatestNumber
<1>3. PICK m \in S : t = m + 1
  OBVIOUS
<1>4. \A y \in S : y <= m
  <2> SUFFICES ASSUME NEW y \in S PROVE y <= m
    OBVIOUS
  <2>1. y + 1 \in T
    OBVIOUS
  <2>2. y + 1 <= m + 1 /\ y \in Int /\ m \in Int
    BY <1>2, <1>3, <2>1
  <2> QED BY <2>2
<1> QED BY <1>4 DEF Newest

\* Journaling keeps the order: an entry is of the last event or of a new one.
LEMMA JournalAppendRoutes ==
  ASSUME RoutingInv, NEW p \in Projections, JournalAppend(p)
  PROVE  RoutingInv'
<1>1. PICK position \in {LastPosition + 1} \cup IF Repeats(p) THEN {LastPosition} ELSE {} :
        primary' = [n \in 0 .. nextSeq |->
                      IF n = nextSeq THEN [projection |-> p, position |-> position] ELSE primary[n]]
  BY DEF JournalAppend
<1>2. /\ nextSeq < MaxEntries /\ nextSeq' = nextSeq + 1
      /\ UNCHANGED <<replicaVars, floor>>
  BY DEF JournalAppend
<1>3. PrefixInv'
  BY JournalAppendKeepsPrefix DEF RoutingInv
<1>4. /\ nextSeq \in Nat /\ MaxEntries \in Nat /\ nextSeq \in 0 .. MaxEntries
      /\ primary \in [0 .. nextSeq - 1 -> Entry]
  BY ReplicationAssumption DEF RoutingInv, PrimaryOrdered
<1>5. /\ LastPosition \in Nat \cup {-1}
      /\ \A n \in 0 .. nextSeq - 1 : primary[n].position <= LastPosition /\ primary[n].position \in Nat
  <2>1. CASE nextSeq = 0
    BY <1>4, <2>1 DEF LastPosition
  <2>2. CASE nextSeq # 0
    <3>1. nextSeq - 1 \in 0 .. nextSeq - 1 /\ LastPosition = primary[nextSeq - 1].position
      BY <1>4, <2>2 DEF LastPosition
    <3>2. \A n \in 0 .. nextSeq - 1 : n <= nextSeq - 1 /\ primary[n].position \in Nat
      BY <1>4 DEF Entry
    <3>3. \A n \in 0 .. nextSeq - 1 : primary[n].position <= primary[nextSeq - 1].position
      BY <3>1, <3>2 DEF RoutingInv, PrimaryOrdered
    <3> QED BY <3>1, <3>2, <3>3
  <2> QED BY <2>1, <2>2
<1>6. position \in Nat /\ LastPosition <= position
  <2>1. CASE position = LastPosition + 1
    BY <1>5, <2>1
  <2>2. CASE position # LastPosition + 1
    <3>1. Repeats(p) /\ position = LastPosition
      BY <1>1, <2>2
    <3>2. nextSeq - 1 \in 0 .. nextSeq - 1 /\ LastPosition = primary[nextSeq - 1].position
      BY <1>4, <3>1 DEF Repeats, LastPosition
    <3> QED BY <1>5, <3>1, <3>2
  <2> QED BY <2>1, <2>2
<1>7. /\ nextSeq' \in 0 .. MaxEntries /\ nextSeq' - 1 = nextSeq
      /\ \A n \in 0 .. nextSeq - 1 : n \in 0 .. nextSeq /\ n # nextSeq /\ primary'[n] = primary[n]
      /\ \A n \in 0 .. nextSeq : n # nextSeq => n \in 0 .. nextSeq - 1
      /\ nextSeq \in 0 .. nextSeq
      /\ primary'[nextSeq] = [projection |-> p, position |-> position]
  BY <1>1, <1>2, <1>4
<1>8. primary' \in [0 .. nextSeq -> Entry]
  <2>1. [projection |-> p, position |-> position] \in Entry
    BY <1>6 DEF Entry
  <2>2. \A n \in 0 .. nextSeq : primary'[n] \in Entry
    BY <1>4, <1>7, <2>1
  <2> QED BY <1>1, <2>2
<1>9. ASSUME NEW m \in 0 .. nextSeq, NEW n \in 0 .. nextSeq, m <= n
      PROVE  primary'[m].position <= primary'[n].position
  <2>1. CASE n # nextSeq
    <3>1. m \in 0 .. nextSeq - 1 /\ n \in 0 .. nextSeq - 1
      BY <1>4, <1>9, <2>1
    <3> QED BY <1>7, <1>9, <3>1 DEF RoutingInv, PrimaryOrdered
  <2>2. CASE n = nextSeq /\ m # nextSeq
    <3>1. m \in 0 .. nextSeq - 1 /\ primary'[n].position = position
      BY <1>7, <2>2
    <3> QED BY <1>5, <1>6, <1>7, <3>1
  <2>3. CASE n = nextSeq /\ m = nextSeq
    BY <1>6, <1>7, <2>3
  <2> QED BY <2>1, <2>2, <2>3
<1>10. ASSUME OneEntryPerEvent, NEW n \in 0 .. nextSeq - 1
       PROVE  primary'[nextSeq] # primary'[n]
  <2> SUFFICES ASSUME primary[n] = [projection |-> p, position |-> position]
               PROVE  FALSE
    BY <1>7
  <2>1. primary[n].projection = p /\ primary[n].position = position
    OBVIOUS
  <2>2. position = LastPosition /\ Repeats(p)
    BY <1>1, <1>5, <2>1
  <2>3. n \in DOMAIN primary
    BY <1>4
  <2> QED BY <1>10, <2>1, <2>2, <2>3 DEF Repeats
<1>11. ASSUME OneEntryPerEvent, NEW m \in 0 .. nextSeq, NEW n \in 0 .. nextSeq,
              primary'[m] = primary'[n]
       PROVE  m = n
  <2>1. CASE m = nextSeq \/ n = nextSeq
    BY <1>7, <1>10, <1>11, <2>1
  <2>2. CASE m # nextSeq /\ n # nextSeq
    <3>1. m \in 0 .. nextSeq - 1 /\ n \in 0 .. nextSeq - 1 /\ primary[m] = primary[n]
      BY <1>7, <1>11, <2>2
    <3> QED BY <1>11, <3>1 DEF RoutingInv, PrimaryOrdered
  <2> QED BY <2>1, <2>2
<1>12. PrimaryOrdered'
  BY <1>7, <1>8, <1>9, <1>11 DEF PrimaryOrdered
<1>13. ASSUME NEW r \in Replicas, NEW q \in Projections
       PROVE  RouteReached(r, q)'
  <2>1. RouteReached(r, q) /\ checkpoint' = checkpoint /\ cursor' = cursor /\ cursor[r] \in 0 .. nextSeq
    BY <1>2 DEF RoutingInv, PrefixInv, ReplicaOK, replicaVars
  <2>2. \A n \in 0 .. cursor[r] - 1 : primary'[n] = primary[n]
    BY <1>4, <1>7, <2>1
  <2> QED BY <2>1, <2>2 DEF RouteReached
<1> QED BY <1>2, <1>3, <1>12, <1>13 DEF RoutingInv, replicaVars

\* Applying a batch moves the checkpoint to entries the replica gets with it.
LEMMA AppliedRoutes ==
  ASSUME RoutingInv, UNCHANGED primaryVars,
         NEW r \in Replicas, NEW STATE from, NEW STATE entries,
         Unbroken(from, entries), Applied(r, from, entries)
  PROVE  /\ checkpoint' \in [Replicas -> [Projections -> Nat \cup {-1}]]
         /\ \A q \in Replicas, p \in Projections : RouteReached(q, p)'
<1> DEFINE new == [n \in {i \in DOMAIN entries : i >= cursor[r]} |-> entries[n]]
<1>0. primary' = primary
  BY DEF primaryVars
<1>1. CASE DOMAIN new = {} \/ Gap(from, r)
  <2>1. UNCHANGED replicaVars
    BY <1>1 DEF Applied
  <2> QED
    BY <1>0, <2>1 DEF RoutingInv, RouteReached, replicaVars
<1>2. CASE ~(DOMAIN new = {} \/ Gap(from, r))
  <2>1. PICK last \in Int : last < nextSeq /\ DOMAIN entries = from .. last
    BY DEF Unbroken
  <2>2. /\ nextSeq \in Nat /\ from \in Nat
        /\ cursor \in [Replicas -> Nat]
        /\ cursor[r] \in Nat /\ cursor[r] <= nextSeq
    BY DEF RoutingInv, PrefixInv, JournalOK, ReplicaOK, Unbroken
  <2>3. from <= cursor[r]
    BY <1>2, <2>2 DEF Gap
  <2>4. DOMAIN new = cursor[r] .. last
    BY <2>1, <2>2, <2>3
  <2>5. cursor[r] <= last
    BY <1>2, <2>1, <2>2, <2>4
  <2>6. Newest(DOMAIN new) = last
    <3>1. Newest(cursor[r] .. last) = last
      BY <2>1, <2>2, <2>5, NewestOfRange
    <3> HIDE DEF new
    <3> QED
      BY <2>4, <3>1
  <2>7. /\ cursor' = [cursor EXCEPT ![r] = Newest(DOMAIN new) + 1]
        /\ checkpoint' = [checkpoint EXCEPT ![r] = Moved(r, new)]
    BY <1>2 DEF Applied
  <2>8. \A n \in DOMAIN new : new[n] = primary[n] /\ n \in 0 .. last /\ n \in 0 .. nextSeq - 1
    <3>1. \A n \in DOMAIN new : new[n] = primary[n]
      BY DEF Unbroken
    <3>2. \A n \in cursor[r] .. last : n \in 0 .. last /\ n \in 0 .. nextSeq - 1
      BY <2>1, <2>2
    <3> HIDE DEF new
    <3> QED BY <2>4, <3>1, <3>2
  <2>9. cursor'[r] - 1 = last /\ \A q \in Replicas : q # r => cursor'[q] = cursor[q]
    BY <2>1, <2>2, <2>6, <2>7
  <2>10. ASSUME NEW p \in Projections
         PROVE  /\ Moved(r, new)[p] \in Nat \cup {-1}
                /\ \/ Moved(r, new)[p] = -1
                   \/ \E n \in 0 .. last : /\ primary[n].projection = p
                                           /\ primary[n].position = Moved(r, new)[p]
    <3> HIDE DEF new
    <3> DEFINE P == {new[n].position : n \in {i \in DOMAIN new : new[i].projection = p}}
               S == {checkpoint[r][p]} \cup P
               z == nextSeq - 1
    <3>1. Moved(r, new)[p] = Newest(S)
      BY DEF Moved
    <3>2. \A x \in P : \E n \in 0 .. last : /\ primary[n].projection = p
                                            /\ primary[n].position = x
                                            /\ n \in 0 .. nextSeq - 1
      BY <2>8
    <3>3. /\ checkpoint[r][p] \in Nat \cup {-1}
          /\ \/ checkpoint[r][p] = -1
             \/ \E n \in 0 .. cursor[r] - 1 : /\ primary[n].projection = p
                                              /\ primary[n].position = checkpoint[r][p]
      BY DEF RoutingInv, RouteReached
    <3>4. \A n \in 0 .. cursor[r] - 1 : n \in 0 .. last /\ n \in 0 .. nextSeq - 1
      BY <2>1, <2>2, <2>5
    <3>5. ASSUME NEW x \in S
          PROVE  x = -1 \/ \E n \in 0 .. last : /\ primary[n].projection = p
                                                /\ primary[n].position = x
                                                /\ n \in 0 .. nextSeq - 1
      <4>1. CASE x \in P
        BY <3>2, <4>1
      <4>2. CASE x = checkpoint[r][p]
        BY <3>3, <3>4, <4>2
      <4> QED BY <4>1, <4>2
    <3>6. /\ z \in 0 .. nextSeq - 1 /\ z \in Nat
          /\ \A n \in 0 .. nextSeq - 1 : /\ n <= z
                                         /\ primary[n] \in Entry
                                         /\ primary[n].position \in Nat
      <4>1. \A n \in 0 .. nextSeq - 1 : primary[n] \in Entry
        BY DEF RoutingInv, PrimaryOrdered
      <4> QED BY <2>1, <2>2, <2>5, <4>1 DEF Entry
    <3>7. \A n \in 0 .. nextSeq - 1 : primary[n].position <= primary[z].position
      BY <3>6 DEF RoutingInv, PrimaryOrdered
    <3>8. S \in SUBSET (-1 .. primary[z].position) /\ primary[z].position \in Nat
      <4>1. primary[z].position \in Nat
        BY <3>6
      <4>2. ASSUME NEW x \in S PROVE x \in -1 .. primary[z].position
        BY <3>5, <3>6, <3>7, <4>1
      <4> QED BY <4>1, <4>2
    <3>9. S # {}
      OBVIOUS
    <3>10. Newest(S) \in S
      <4> HIDE DEF S, z
      <4> QED BY <3>8, <3>9, NewestIsOneOfThem
    <3>11. Newest(S) \in -1 .. primary[z].position
      BY <3>8, <3>10
    <3>12. Newest(S) \in Nat \cup {-1}
      BY <3>8, <3>11
    <3> HIDE DEF S
    <3> QED BY <3>1, <3>5, <3>10, <3>12
  <2> HIDE DEF new
  <2>11. Moved(r, new) \in [Projections -> Nat \cup {-1}]
    <3>1. Moved(r, new) = [p \in Projections |-> Moved(r, new)[p]]
      BY DEF Moved
    <3> QED BY <2>10, <3>1
  <2>12. checkpoint' \in [Replicas -> [Projections -> Nat \cup {-1}]]
    BY <2>7, <2>11 DEF RoutingInv
  <2>13. /\ checkpoint'[r] = Moved(r, new)
         /\ \A q \in Replicas : q # r => checkpoint'[q] = checkpoint[q]
    BY <2>7 DEF RoutingInv
  <2>14. ASSUME NEW q \in Replicas, NEW p \in Projections
         PROVE  RouteReached(q, p)'
    <3>1. CASE q = r
      BY <1>0, <2>9, <2>10, <2>13, <3>1 DEF RouteReached
    <3>2. CASE q # r
      BY <1>0, <2>9, <2>13, <3>2 DEF RouteReached, RoutingInv
    <3> QED BY <3>1, <3>2
  <2> QED BY <2>12, <2>14
<1> QED
  BY <1>1, <1>2

\* In the beginning there are no entries and no checkpoints.
LEMMA RoutingStarts == ReplicationInit => RoutingInv
<1> SUFFICES ASSUME ReplicationInit PROVE RoutingInv
  OBVIOUS
<1>1. nextSeq = 0 /\ primary = NoEntries /\ 0 .. nextSeq - 1 = {}
  BY DEF ReplicationInit
<1>2. PrimaryOrdered
  BY <1>1, ReplicationAssumption DEF PrimaryOrdered, NoEntries
<1>3. /\ checkpoint = [r \in Replicas |-> [p \in Projections |-> -1]]
      /\ floor = [p \in Projections |-> -1]
  BY DEF ReplicationInit
<1> QED BY <1>2, <1>3, PrefixHoldsInitially DEF RoutingInv, RouteReached

\* What leaves the primary alone.
LEMMA RoutingStays ==
  ASSUME RoutingInv, UNCHANGED <<primary, nextSeq, replicaVars>>
  PROVE  /\ PrimaryOrdered'
         /\ checkpoint' \in [Replicas -> [Projections -> Nat \cup {-1}]]
         /\ \A r \in Replicas, p \in Projections : RouteReached(r, p)'
BY DEF RoutingInv, PrimaryOrdered, RouteReached, replicaVars

\* No step of the replication lets a checkpoint run ahead of its replica.
LEMMA RoutingIsKept ==
  ASSUME RoutingInv, [ReplicationNext]_replicationVars
  PROVE  RoutingInv'
<1>0. PrefixInv'
  BY PrefixIsKept DEF RoutingInv
<1>1. ASSUME NEW p \in Projections, JournalAppend(p)
      PROVE  RoutingInv'
  BY <1>1, JournalAppendRoutes
<1>2. ASSUME NEW p \in Projections, PinWrite(p)
      PROVE  RoutingInv'
  <2>1. PICK n \in DOMAIN primary : floor' = [floor EXCEPT ![p] = primary[n].position]
    BY <1>2 DEF PinWrite
  <2>2. primary[n].position \in Nat
    BY DEF RoutingInv, PrimaryOrdered, Entry
  <2>3. floor' \in [Projections -> Nat \cup {-1}]
    BY <2>1, <2>2 DEF RoutingInv
  <2>4. UNCHANGED <<primary, nextSeq, replicaVars>>
    BY <1>2 DEF PinWrite, primaryVars
  <2> QED BY <1>0, <2>3, <2>4, RoutingStays DEF RoutingInv
<1>3. ASSUME UNCHANGED <<primaryVars, replicaVars, floor>>
      PROVE  RoutingInv'
  <2>1. UNCHANGED <<primary, nextSeq, replicaVars>> /\ floor' = floor
    BY <1>3 DEF primaryVars
  <2> QED BY <1>0, <2>1, RoutingStays DEF RoutingInv
<1>4. ASSUME NEW r \in Replicas, NEW STATE from, NEW STATE entries,
             Unbroken(from, entries), Applied(r, from, entries),
             UNCHANGED <<primaryVars, floor>>
      PROVE  RoutingInv'
  <2>1. /\ checkpoint' \in [Replicas -> [Projections -> Nat \cup {-1}]]
        /\ \A q \in Replicas, p \in Projections : RouteReached(q, p)'
    BY <1>4, AppliedRoutes
  <2>2. PrimaryOrdered' /\ floor' = floor
    BY <1>4 DEF RoutingInv, PrimaryOrdered, primaryVars
  <2> QED BY <1>0, <2>1, <2>2 DEF RoutingInv
<1>5. ASSUME NEW r \in Replicas, SyncOnce(r)
      PROVE  RoutingInv'
  <2>1. Unbroken(cursor[r], Pulled(cursor[r], nextSeq))
    BY <1>5, PulledUnbroken DEF SyncOnce, RoutingInv, PrefixInv, JournalOK
  <2> QED BY <1>4, <1>5, <2>1 DEF SyncOnce
<1>6. ASSUME NEW r \in Replicas, Rebuild(r)
      PROVE  RoutingInv'
  <2>1. /\ checkpoint' = [checkpoint EXCEPT ![r] = [p \in Projections |-> -1]]
        /\ cursor' = [cursor EXCEPT ![r] = 0]
        /\ primary' = primary /\ nextSeq' = nextSeq /\ floor' = floor
    BY <1>6 DEF Rebuild, primaryVars
  <2>2. checkpoint' \in [Replicas -> [Projections -> Nat \cup {-1}]]
    BY <2>1 DEF RoutingInv
  <2>3. ASSUME NEW q \in Replicas, NEW p \in Projections
        PROVE  RouteReached(q, p)'
    <3>1. CASE q = r
      BY <2>1, <3>1 DEF RouteReached, RoutingInv
    <3>2. CASE q # r
      BY <2>1, <3>2 DEF RouteReached, RoutingInv, PrefixInv
    <3> QED BY <3>1, <3>2
  <2>4. PrimaryOrdered'
    BY <2>1 DEF RoutingInv, PrimaryOrdered
  <2> QED BY <1>0, <2>1, <2>2, <2>3, <2>4 DEF RoutingInv
<1>7. ASSUME NEW b \in shipped, ReplicaApply(b)
      PROVE  RoutingInv'
  <2>1. b.to \in Replicas /\ Unbroken(b.from, b.entries)
    BY DEF RoutingInv, PrefixInv
  <2> QED BY <1>4, <1>7, <2>1 DEF ReplicaApply
<1>8. CASE UNCHANGED replicationVars
  BY <1>3, <1>8 DEF replicationVars
<1>9. ASSUME NEW r \in Replicas, Pull(r)
      PROVE  RoutingInv'
  BY <1>3, <1>9 DEF Pull
<1>10. ASSUME NEW b \in shipped, BatchLost(b)
       PROVE  RoutingInv'
  BY <1>3, <1>10 DEF BatchLost
<1> QED
  BY <1>1, <1>2, <1>5, <1>6, <1>7, <1>8, <1>9, <1>10 DEF ReplicationNext

\* The invariant holds throughout.
LEMMA RoutingInvariant == ReplicationSpec => []RoutingInv
BY RoutingStarts, RoutingIsKept, PTL DEF ReplicationSpec

\* A session that pinned its write (ReplicaQueryRouter._qualifies) finds it, and all
\* of its projection before it, at every replica the router sends it to, as long
\* as a projection journals one entry per event.
THEOREM RoutesToOwnWrites == ReplicationSpec => [](ReplicationTypeOK /\ ReadsOwnWrites)
<1>1. RoutingInv => ReplicationTypeOK /\ ReadsOwnWrites
  BY RoutingImplies
<1> QED
  BY <1>1, RoutingInvariant, PTL

-----------------------------------------------------------------------------
(***************************************************************************)
(*  The nodes of the cache converge.                                       *)
(*                                                                         *)
(*  The stamps in play, those of the copies and of the messages, are       *)
(*  ordered by their clocks; and as long as nothing was lost, some node    *)
(*  serves the newest of them, and every other node serves it too or is    *)
(*  yet to be told of it.                                                  *)
(***************************************************************************)

\* The stamps that nodes hold or that are on their way.
InPlay == {copy[n].version : n \in {k \in Nodes : Present(k)}}
            \cup {copy[n].floor : n \in {k \in Nodes : copy[k].state = "stale"}}
            \cup {m.version : m \in messages}

\* With one write per tick, the order of the writes is the order of their clocks.
Timed == /\ \A a \in InPlay : /\ a.origin \in Nodes
                              /\ a.seq <= seq[a.origin]
                              /\ a.wall <= wall
                              /\ a.wall = wall => stamped
         /\ \A a, b \in InPlay : /\ a.wall = b.wall => a = b
                                 /\ a.origin = b.origin => (a.seq > b.seq <=> a.wall > b.wall)

\* Node t serves the newest write, and whoever serves another one, or will be
\* told to serve one, is yet to be told of it.
Leads(t) ==
  /\ copy[t].state = "valid"
  /\ \A a \in InPlay : a = copy[t].version \/ a.wall < copy[t].version.wall
  /\ \A k \in Nodes : \/ copy[k].state = "valid" /\ copy[k].version = copy[t].version
                      \/ \E m \in messages : m.to = k /\ m.version = copy[t].version
                      \/ ~fabric.eager /\ copy[k].state # "valid"

\* While nothing is lost or removed, one node leads.
Led == removals = 0 /\ lost = 0
         => /\ attached = Nodes
            /\ \A m \in messages : m.kind = IF fabric.eager THEN "replicate" ELSE "invalidate"
            /\ fabric.eager => \A n \in Nodes : copy[n].state # "stale"
            /\ InPlay = {} \/ \E t \in Nodes : Leads(t)

MessageSet == [to : Nodes, kind : {"replicate", "invalidate"}, version : Stamps]

CoherenceIInv ==
  /\ CoherenceTypeOK
  /\ wall \in 0 .. MaxWall /\ seq \in [Nodes -> 0 .. MaxWrites]
  /\ attached \subseteq Nodes /\ messages \subseteq MessageSet
  /\ lost \in Nat /\ removals \in Nat
  /\ Timed /\ Led

Copies == [version : Stamps, state : {"absent", "valid", "stale"}, floor : Stamps]

\* What the assumption says of each constant.
LEMMA CoherenceFacts ==
  /\ NodeCount \in Nat /\ Nodes \subseteq Nat \ {0} /\ MaxWrites \in Nat /\ MaxWall \in Nat
  /\ NoStamp \in Stamps /\ NoStamp.wall = 0 /\ NoStamp.origin = 0
  /\ NoCopy \in Copies /\ NoCopy.state = "absent"
  /\ \A a \in Stamps : a.wall \in Nat /\ a.seq \in Nat /\ a.origin \in Nat
  /\ \A v \in Stamps : /\ Installed(v) \in Copies
                       /\ Installed(v).version = v /\ Installed(v).state = "valid"
  BY CoherenceAssumption DEF Nodes, NoStamp, Stamps, NoCopy, Copies, Installed

\* Stamps in play are stamps.
LEMMA InPlayStamps == CoherenceIInv => InPlay \subseteq Stamps
  BY DEF CoherenceIInv, CoherenceTypeOK, InPlay, MessageSet

\* So a write is newer than another just when its clock is later.
LEMMA NewerIsLater ==
  ASSUME CoherenceIInv, NEW a \in InPlay, NEW b \in InPlay
  PROVE  Newer(a, b) <=> a.wall > b.wall
  <1>1. a.wall \in Nat /\ b.wall \in Nat /\ a.seq \in Nat /\ b.seq \in Nat
    BY InPlayStamps, CoherenceFacts
  <1>2. /\ a.wall = b.wall => a = b
        /\ a.origin = b.origin => (a.seq > b.seq <=> a.wall > b.wall)
    BY DEF CoherenceIInv, Timed
  <1> QED BY <1>1, <1>2 DEF Newer

\* Where stamps only go, their order stays.
LEMMA TimedStays ==
  ASSUME CoherenceIInv, InPlay' \subseteq InPlay, seq' = seq,
         \/ wall' = wall /\ stamped' = stamped
         \/ wall' = wall + 1
  PROVE  Timed'
  <1>1. \A a \in InPlay : a.wall \in Nat /\ a.wall <= wall /\ (a.wall = wall => stamped)
    BY InPlayStamps, CoherenceFacts DEF CoherenceIInv, Timed
  <1>2. wall \in Nat
    BY CoherenceAssumption DEF CoherenceIInv
  <1>3. \A a \in InPlay' : a.wall <= wall' /\ (a.wall = wall' => stamped')
    BY <1>1, <1>2
  <1> QED BY <1>3 DEF CoherenceIInv, Timed

\* The stamp of a write is newer than any before.
LEMMA NextIsNewest ==
  ASSUME CoherenceIInv, OneWritePerTick, NEW n \in Nodes, NEW kind \in {"replicate", "invalidate"},
         Broadcast(n, kind), InPlay' \subseteq InPlay \cup {NextStamp(n)}
  PROVE  /\ NextStamp(n) \in Stamps
         /\ \A a \in InPlay : a.wall < NextStamp(n).wall
         /\ Timed'
         /\ messages' \subseteq MessageSet
         /\ \A m \in messages' : m.to \in attached
         /\ seq' \in [Nodes -> 0 .. MaxWrites]
  <1> DEFINE v == NextStamp(n)
  <1>1. /\ v.origin = n /\ v.seq = seq[n] + 1 /\ v.wall = wall
        /\ seq[n] \in Nat /\ seq[n] < MaxWrites /\ wall \in Nat
    BY CoherenceFacts DEF Broadcast, NextStamp, CoherenceIInv
  <1>2. v \in Stamps
    BY <1>1, CoherenceFacts DEF NextStamp, Stamps, CoherenceIInv
  <1>3. /\ ~stamped /\ stamped' = TRUE /\ wall' = wall
        /\ seq' = [seq EXCEPT ![n] = seq[n] + 1]
        /\ messages' = messages \cup {[to |-> m, kind |-> kind, version |-> v] : m \in attached \ {n}}
    BY DEF Broadcast
  <1>4. /\ seq' \in [Nodes -> 0 .. MaxWrites]
        /\ seq'[n] = seq[n] + 1 /\ \A k \in Nodes : seq'[k] >= seq[k]
    BY <1>1, <1>3, CoherenceFacts DEF CoherenceIInv
  <1> HIDE DEF v
  <1>5. \A a \in InPlay : /\ a.origin \in Nodes /\ a.seq <= seq[a.origin] /\ a.wall < wall
                          /\ a.wall \in Nat /\ a.seq \in Nat
    BY <1>1, <1>3, InPlayStamps, CoherenceFacts DEF CoherenceIInv, Timed
  <1>6. \A a \in InPlay' : a \in InPlay \/ a = v
    BY DEF v
  <1>7. \A a \in InPlay' : /\ a.origin \in Nodes /\ a.seq <= seq'[a.origin]
                           /\ a.wall <= wall' /\ (a.wall = wall' => stamped')
    <2>1. ASSUME NEW a \in InPlay
          PROVE  a.origin \in Nodes /\ a.seq <= seq'[a.origin] /\ a.wall <= wall'
      <3>1. seq[a.origin] \in Nat /\ seq'[a.origin] \in Nat /\ seq'[a.origin] >= seq[a.origin]
        BY <1>4, <1>5 DEF CoherenceIInv
      <3> QED BY <1>1, <1>3, <1>5, <3>1
    <2> QED BY <1>1, <1>3, <1>4, <1>6, <2>1
  <1>8. \A a, b \in InPlay' : /\ a.wall = b.wall => a = b
                              /\ a.origin = b.origin => (a.seq > b.seq <=> a.wall > b.wall)
    <2>1. ASSUME NEW a \in InPlay
          PROVE  a.wall < v.wall /\ (a.origin = v.origin => a.seq < v.seq)
      BY <1>1, <1>5
    <2>2. \A a \in InPlay : a.wall \in Nat /\ a.seq \in Nat
      BY <1>5
    <2>3. v.wall \in Nat /\ v.seq \in Nat
      BY <1>1
    <2>4. \A a \in InPlay : /\ a.wall # v.wall /\ v.wall > a.wall /\ ~(a.wall > v.wall)
                            /\ a.origin = v.origin => v.seq > a.seq /\ ~(a.seq > v.seq)
      BY <2>1, <2>2, <2>3
    <2>5. ~(v.wall > v.wall) /\ ~(v.seq > v.seq)
      BY <2>3
    <2> QED BY <1>6, <2>4, <2>5 DEF CoherenceIInv, Timed
  <1>9. messages' \subseteq MessageSet /\ \A m \in messages' : m.to \in attached
    <2>1. \A m \in attached \ {n} : [to |-> m, kind |-> kind, version |-> v] \in MessageSet
      BY <1>2 DEF v, MessageSet, CoherenceIInv
    <2> QED BY <1>3, <2>1 DEF CoherenceIInv, CoherenceTypeOK
  <1> QED BY <1>1, <1>2, <1>4, <1>5, <1>7, <1>8, <1>9 DEF v, Timed

Advances == \A n \in Nodes : Present(n) /\ Present(n)' => ~Newer(copy[n].version, copy'[n].version)

\* A step that changes one copy, adds no stamp, and takes messages away only when
\* it counts a loss or a removal.
LEMMA CoherenceKept ==
  ASSUME CoherenceIInv,
         copy' \in [Nodes -> Copies],
         \A n \in Nodes : copy'[n].state = "stale" => Newer(copy'[n].floor, copy'[n].version),
         InPlay' \subseteq InPlay, messages' \subseteq messages,
         attached' \subseteq attached, \A m \in messages' : m.to \in attached',
         UNCHANGED <<fabric, seq>>,
         wall' \in 0 .. MaxWall,
         \/ wall' = wall /\ stamped' = stamped
         \/ wall' = wall + 1,
         lost' \in Nat, removals' \in Nat,
         Led'
  PROVE  CoherenceIInv'
  <1>1. Timed'
    BY TimedStays
  <1>2. messages' \subseteq MessageSet /\ attached' \subseteq Nodes
    BY DEF CoherenceIInv
  <1>3. CoherenceTypeOK'
    <2>1. \A m \in messages' : m.to \in attached' /\ m.version \in Stamps
      BY <1>2 DEF MessageSet
    <2> QED BY <2>1 DEF CoherenceIInv, CoherenceTypeOK, Copies
  <1> QED BY <1>1, <1>2, <1>3 DEF CoherenceIInv

\* A write becomes the newest, and the others are told.
LEMMA CoherenceWrites ==
  ASSUME CoherenceIInv, OneWritePerTick, NEW n \in Nodes, SetKey(n) \/ DeleteKey(n)
  PROVE  CoherenceIInv' /\ Advances
  <1> DEFINE v == NextStamp(n)
  <1>1. PICK kind \in {"replicate", "invalidate"} :
          /\ Broadcast(n, kind)
          /\ SetKey(n) => kind = IF fabric.eager THEN "replicate" ELSE "invalidate"
    BY DEF SetKey, DeleteKey
  <1>2. /\ messages' = messages \cup {[to |-> m, kind |-> kind, version |-> v] : m \in attached \ {n}}
        /\ UNCHANGED <<fabric, wall, attached, lost>>
    BY <1>1 DEF Broadcast
  <1>3. \/ SetKey(n) /\ copy' = [copy EXCEPT ![n] = Installed(v)] /\ removals' = removals
        \/ copy' = [copy EXCEPT ![n] = NoCopy] /\ removals' = removals + 1
    BY DEF SetKey, DeleteKey
  <1>4. copy \in [Nodes -> Copies] /\ removals \in Nat /\ lost \in Nat
    BY DEF CoherenceIInv, CoherenceTypeOK, Copies
  <1>5. /\ \A k \in Nodes : k # n => copy'[k] = copy[k]
        /\ \/ copy'[n] = Installed(v)
           \/ copy'[n] = NoCopy
    BY <1>3, <1>4
  <1>6. InPlay' \subseteq InPlay \cup {v}
    <2>1. {m.version : m \in messages'} \subseteq {m.version : m \in messages} \cup {v}
      BY <1>2
    <2>2. {copy'[k].floor : k \in {j \in Nodes : copy'[j].state = "stale"}}
            \subseteq {copy[k].floor : k \in {j \in Nodes : copy[j].state = "stale"}}
      BY <1>5, CoherenceFacts DEF Installed, NoCopy
    <2>3. {copy'[k].version : k \in {j \in Nodes : Present(j)'}}
            \subseteq {copy[k].version : k \in {j \in Nodes : Present(j)}} \cup {v}
      BY <1>5 DEF Installed, NoCopy, Present
    <2> QED BY <2>1, <2>2, <2>3 DEF InPlay
  <1>7. /\ v \in Stamps
        /\ \A a \in InPlay : a.wall < v.wall
        /\ Timed'
        /\ messages' \subseteq MessageSet
        /\ \A m \in messages' : m.to \in attached
        /\ seq' \in [Nodes -> 0 .. MaxWrites]
    BY <1>1, <1>6, NextIsNewest
  <1> HIDE DEF v
  <1>8. copy' \in [Nodes -> Copies]
    BY <1>3, <1>4, <1>7, CoherenceFacts
  <1>9. CoherenceTypeOK'
    <2>1. \A k \in Nodes : copy'[k].state = "stale" => Newer(copy'[k].floor, copy'[k].version)
      BY <1>5, <1>7, CoherenceFacts DEF CoherenceIInv, CoherenceTypeOK
    <2>2. \A m \in messages' : m.to \in attached' /\ m.version \in Stamps
      BY <1>2, <1>7 DEF MessageSet
    <2> QED BY <1>2, <1>8, <2>1, <2>2 DEF CoherenceIInv, CoherenceTypeOK, Copies
  <1>10. Led'
    <2> SUFFICES ASSUME removals' = 0, lost' = 0 PROVE Led'
      BY DEF Led
    <2>1. SetKey(n) /\ copy'[n] = Installed(v) /\ removals = 0 /\ lost = 0
      BY <1>2, <1>3, <1>4
    <2>2. attached = Nodes /\ kind = IF fabric.eager THEN "replicate" ELSE "invalidate"
      BY <1>1, <2>1 DEF CoherenceIInv, Led
    <2>3. \A m \in messages' : m.kind = IF fabric.eager THEN "replicate" ELSE "invalidate"
      BY <1>2, <2>1, <2>2 DEF CoherenceIInv, Led
    <2>4. fabric.eager => \A k \in Nodes : copy'[k].state # "stale"
      BY <1>5, <1>7, <2>1, CoherenceFacts DEF CoherenceIInv, Led
    <2>5. Leads(n)'
      <3>1. copy'[n].state = "valid" /\ copy'[n].version = v
        BY <1>7, <2>1, CoherenceFacts
      <3>2. \A a \in InPlay' : a = v \/ a.wall < v.wall
        BY <1>6, <1>7
      <3>3. ASSUME NEW k \in Nodes, k # n PROVE \E m \in messages' : m.to = k /\ m.version = v
        <4>1. [to |-> k, kind |-> kind, version |-> v] \in messages'
          BY <1>2, <2>2, <3>3
        <4> QED BY <4>1
      <3> QED BY <3>1, <3>2, <3>3 DEF Leads
    <2> QED BY <1>2, <2>2, <2>3, <2>4, <2>5 DEF Led
  <1>11. Advances
    <2>1. ASSUME NEW k \in Nodes, Present(k), Present(k)'
          PROVE  ~Newer(copy[k].version, copy'[k].version)
      <3>1. copy[k].version \in InPlay
        BY <2>1 DEF InPlay
      <3>2. copy[k].version \in Stamps
        BY <1>4 DEF Copies
      <3>3. CASE k # n
        BY <1>5, <3>2, <3>3, CoherenceFacts DEF Newer
      <3>4. CASE k = n
        <4>1. copy'[n].version = v
          BY <1>5, <1>7, <2>1, <3>4, CoherenceFacts DEF Present
        <4>2. copy'[n].version \in InPlay'
          BY <2>1, <3>4 DEF InPlay
        <4> DEFINE a == copy[k].version
        <4>3. /\ a.wall < v.wall /\ a.wall \in Nat /\ v.wall \in Nat
              /\ a.seq \in Nat /\ v.seq \in Nat
          BY <1>7, <3>1, <3>2, CoherenceFacts
        <4>4. a.origin = v.origin => a.seq < v.seq
          <5>1. v.origin = n /\ v.seq = seq[n] + 1 /\ seq[n] \in Nat
            BY CoherenceFacts DEF v, NextStamp, CoherenceIInv
          <5>2. a.seq <= seq[a.origin]
            BY <3>1 DEF CoherenceIInv, Timed
          <5> HIDE DEF a
          <5> QED BY <4>3, <5>1, <5>2
        <4> HIDE DEF a
        <4>5. ~Newer(a, v)
          BY <4>3, <4>4 DEF Newer
        <4> QED BY <3>4, <4>1, <4>5 DEF a
      <3> QED BY <3>3, <3>4
    <2> QED BY <2>1 DEF Advances
  <1> QED BY <1>2, <1>3, <1>4, <1>7, <1>9, <1>10, <1>11 DEF CoherenceIInv

\* A repair brings a node what another one holds.
LEMMA CoherenceRepairs ==
  ASSUME CoherenceIInv, NEW n \in Nodes, GetKey(n)
  PROVE  CoherenceIInv' /\ Advances
  <1>1. /\ copy[n].state # "valid"
        /\ UNCHANGED <<fabric, wall, stamped, seq, messages, attached, lost, removals>>
    BY DEF GetKey
  <1>2. copy \in [Nodes -> Copies] /\ removals \in Nat /\ lost \in Nat
    BY DEF CoherenceIInv, CoherenceTypeOK, Copies
  <1>3. \/ copy' = [copy EXCEPT ![n] = NoCopy]
        \/ \E v \in Best(Offers(n)) : copy' = [copy EXCEPT ![n] = Installed(v)]
    BY DEF GetKey
  <1>4. \A v \in Offers(n) : v \in InPlay /\ v \in Stamps /\ Acceptable(n, v)
    <2>1. \A v \in Offers(n) : v \in InPlay /\ Acceptable(n, v)
      BY DEF Offers, InPlay, CoherenceIInv
    <2> QED BY <2>1, InPlayStamps
  \* An invalidated entry knows what killed it, so it takes only newer writes.
  <1>5. ASSUME Present(n)
        PROVE  /\ copy[n].state = "stale" /\ copy[n].floor # NoStamp
               /\ copy[n].version \in InPlay /\ copy[n].floor \in InPlay
               /\ copy[n].version.wall < copy[n].floor.wall
    <2>1. copy[n].state = "stale"
      BY <1>1, <1>2, <1>5 DEF Present, Copies
    <2>2. copy[n].version \in InPlay /\ copy[n].floor \in InPlay
      BY <1>5, <2>1 DEF InPlay
    <2>3. Newer(copy[n].floor, copy[n].version)
      BY <2>1 DEF CoherenceIInv, CoherenceTypeOK
    <2>4. copy[n].floor.wall > copy[n].version.wall
      BY <2>2, <2>3, NewerIsLater
    <2>5. copy[n].version.wall \in Nat /\ copy[n].floor.wall \in Nat
      BY <2>2, InPlayStamps, CoherenceFacts
    <2>6. copy[n].floor # NoStamp
      BY <2>4, <2>5, CoherenceFacts
    <2> QED BY <2>1, <2>2, <2>4, <2>5, <2>6
  <1>6. ASSUME Present(n), NEW v \in Offers(n)
        PROVE  /\ v = copy[n].floor \/ v.wall > copy[n].floor.wall
               /\ v.wall > copy[n].version.wall
    <2>1. v = copy[n].floor \/ Newer(v, copy[n].floor)
      BY <1>4, <1>5, <1>6 DEF Acceptable
    <2>2. v = copy[n].floor \/ v.wall > copy[n].floor.wall
      BY <1>4, <1>5, <1>6, <2>1, NewerIsLater
    <2>3. v.wall \in Nat /\ copy[n].version.wall \in Nat /\ copy[n].floor.wall \in Nat
      BY <1>4, <1>5, <1>6, InPlayStamps, CoherenceFacts
    <2> QED BY <1>5, <1>6, <2>2, <2>3
  <1>7. \A k \in Nodes : k # n => copy'[k] = copy[k]
    BY <1>2, <1>3
  <1>8. \/ copy'[n] = NoCopy
        \/ \E v \in Best(Offers(n)) : copy'[n] = Installed(v)
    BY <1>2, <1>3
  <1>9. \A v \in Best(Offers(n)) : v \in Offers(n)
    BY DEF Best
  <1>10. \/ copy'[n].state = "absent"
         \/ copy'[n].state = "valid" /\ copy'[n].version \in Best(Offers(n))
    <2>1. CASE copy'[n] = NoCopy
      BY <2>1, CoherenceFacts
    <2>2. CASE \E v \in Best(Offers(n)) : copy'[n] = Installed(v)
      <3>1. PICK v \in Best(Offers(n)) : copy'[n] = Installed(v)
        BY <2>2
      <3>2. v \in Stamps
        BY <1>4, <1>9
      <3> QED BY <3>1, <3>2, CoherenceFacts
    <2> QED BY <1>8, <2>1, <2>2
  <1>11. copy' \in [Nodes -> Copies]
    BY <1>2, <1>3, <1>4, <1>9, CoherenceFacts
  <1>12. InPlay' \subseteq InPlay
    <2>1. {copy'[k].floor : k \in {j \in Nodes : copy'[j].state = "stale"}}
            \subseteq {copy[k].floor : k \in {j \in Nodes : copy[j].state = "stale"}}
      BY <1>7, <1>10
    <2>2. ASSUME NEW k \in Nodes, Present(k)' PROVE copy'[k].version \in InPlay
      <3>1. CASE k # n
        BY <1>7, <2>2, <3>1 DEF InPlay, Present
      <3>2. CASE k = n
        BY <1>4, <1>9, <1>10, <2>2, <3>2 DEF Present
      <3> QED BY <3>1, <3>2
    <2> QED BY <1>1, <2>1, <2>2 DEF InPlay
  <1>13. Led'
    <2> SUFFICES ASSUME removals = 0, lost = 0 PROVE Led'
      BY <1>1 DEF Led
    <2>1. /\ attached = Nodes
          /\ \A m \in messages : m.kind = IF fabric.eager THEN "replicate" ELSE "invalidate"
          /\ fabric.eager => \A k \in Nodes : copy[k].state # "stale"
          /\ InPlay = {} \/ \E t \in Nodes : Leads(t)
      BY DEF CoherenceIInv, Led
    <2>2. fabric.eager => \A k \in Nodes : copy'[k].state # "stale"
      BY <1>7, <1>10, <2>1
    <2>3. ASSUME NEW t \in Nodes, Leads(t) PROVE Leads(t)'
      <3> DEFINE T == copy[t].version
      <3>1. t # n /\ copy'[t] = copy[t] /\ copy[t].state = "valid"
        BY <1>1, <1>7, <2>3 DEF Leads
      <3>2. T \in InPlay /\ T \in Stamps
        BY <3>1, InPlayStamps DEF InPlay, Present
      <3>3. T \in Offers(n)
        <4>1. Acceptable(n, T)
          <5>1. CASE ~Present(n)
            BY <5>1 DEF Acceptable
          <5>2. CASE Present(n)
            <6>1. copy[n].floor = T \/ copy[n].floor.wall < T.wall
              BY <1>5, <2>3, <5>2 DEF Leads
            <6>2. copy[n].floor.wall \in Nat /\ T.wall \in Nat
              BY <1>5, <3>2, <5>2, InPlayStamps, CoherenceFacts
            <6>3. T = copy[n].floor \/ Newer(T, copy[n].floor)
              BY <1>5, <3>2, <5>2, <6>1, <6>2, NewerIsLater
            <6> QED BY <1>5, <5>2, <6>3 DEF Acceptable
          <5> QED BY <5>1, <5>2
        <4> QED BY <2>1, <3>1, <4>1 DEF Offers, Present
      <3>4. ASSUME NEW v \in Best(Offers(n)) PROVE v = T
        <4>1. v \in InPlay /\ ~Newer(T, v)
          BY <1>4, <3>3 DEF Best
        <4>2. ~(T.wall > v.wall) /\ v.wall \in Nat /\ T.wall \in Nat
          BY <3>2, <4>1, NewerIsLater, InPlayStamps, CoherenceFacts
        <4> QED BY <2>3, <4>1, <4>2 DEF Leads
      <3>5. \/ copy'[n].state = "valid" /\ copy'[n].version = T
            \/ \E m \in messages : m.to = n /\ m.version = T
            \/ ~fabric.eager /\ copy'[n].state # "valid"
        <4>1. \/ \E m \in messages : m.to = n /\ m.version = T
              \/ ~fabric.eager
          BY <1>1, <2>3 DEF Leads
        <4>2. \/ copy'[n].state = "valid" /\ copy'[n].version = T
              \/ copy'[n].state # "valid"
          BY <1>10, <3>4
        <4> QED BY <4>1, <4>2
      <3>6. \A k \in Nodes : \/ copy'[k].state = "valid" /\ copy'[k].version = T
                             \/ \E m \in messages : m.to = k /\ m.version = T
                             \/ ~fabric.eager /\ copy'[k].state # "valid"
        BY <1>7, <2>3, <3>5 DEF Leads
      <3> QED BY <1>1, <1>12, <2>3, <3>1, <3>6 DEF Leads
    <2> QED BY <1>1, <1>12, <2>1, <2>2, <2>3 DEF Led
  <1>14. Advances
    <2>1. ASSUME NEW k \in Nodes, Present(k), Present(k)'
          PROVE  ~Newer(copy[k].version, copy'[k].version)
      <3>1. CASE k # n
        <4>1. copy[k].version.wall \in Nat /\ copy[k].version.seq \in Nat
          BY <1>2, CoherenceFacts DEF Copies
        <4> QED BY <1>7, <3>1, <4>1 DEF Newer
      <3>2. CASE k = n
        <4>1. PICK v \in Offers(n) : copy'[n].version = v
          BY <1>9, <1>10, <2>1, <3>2 DEF Present
        <4>2. v.wall > copy[n].version.wall
          BY <1>6, <2>1, <3>2
        <4>3. v \in InPlay /\ copy[n].version \in InPlay
          BY <1>4, <1>5, <2>1, <3>2
        <4>4. v.wall \in Nat /\ copy[n].version.wall \in Nat
          BY <4>3, InPlayStamps, CoherenceFacts
        <4>5. ~Newer(copy[n].version, v)
          BY <4>2, <4>3, <4>4, NewerIsLater
        <4> QED BY <3>2, <4>1, <4>5
      <3> QED BY <3>1, <3>2
    <2> QED BY <2>1 DEF Advances
  <1>15. \A k \in Nodes : copy'[k].state = "stale" => Newer(copy'[k].floor, copy'[k].version)
    BY <1>7, <1>10 DEF CoherenceIInv, CoherenceTypeOK
  <1>16. /\ wall \in 0 .. MaxWall /\ \A m \in messages : m.to \in attached
    BY DEF CoherenceIInv, CoherenceTypeOK
  <1> QED BY <1>1, <1>2, <1>11, <1>12, <1>13, <1>14, <1>15, <1>16, CoherenceKept

\* A message is applied only when it is newer than what the node holds.
LEMMA CoherenceReceives ==
  ASSUME CoherenceIInv, NEW m \in messages, Receive(m)
  PROVE  CoherenceIInv' /\ Advances
  <1> DEFINE n == m.to
             c == copy[n]
             v == m.version
  <1>1. /\ messages' = messages \ {m}
        /\ copy' = [copy EXCEPT ![n] = Received(c, m)]
        /\ UNCHANGED <<fabric, wall, stamped, seq, attached, lost, removals>>
    BY DEF Receive
  <1>2. copy \in [Nodes -> Copies] /\ removals \in Nat /\ lost \in Nat
    BY DEF CoherenceIInv, CoherenceTypeOK, Copies
  <1>3. /\ n \in Nodes /\ v \in Stamps /\ v \in InPlay
        /\ m.kind \in {"replicate", "invalidate"}
    BY DEF CoherenceIInv, MessageSet, InPlay
  <1>4. /\ c \in Copies /\ c.version \in Stamps
        /\ Present(n) => c.version \in InPlay
        /\ Present(n) <=> c.state # "absent"
    BY <1>2, <1>3 DEF Copies, InPlay, Present
  <1>5. /\ \A k \in Nodes : k # n => copy'[k] = copy[k]
        /\ copy'[n] = Received(c, m)
    BY <1>1, <1>2, <1>3
  <1> HIDE DEF n, c, v
  <1>6. \/ /\ m.kind = "invalidate" /\ c.state # "absent" /\ Newer(v, c.version)
           /\ copy'[n] = [c EXCEPT !.state = "stale", !.floor = v]
        \/ /\ m.kind = "replicate"
           /\ c.state = "absent" \/ Newer(v, c.version)
           /\ copy'[n] = Installed(v)
        \/ /\ \/ m.kind = "invalidate" /\ c.state = "absent"
              \/ c.state # "absent" /\ ~Newer(v, c.version)
           /\ copy'[n] = c
    BY <1>3, <1>5 DEF Received, Beats, v
  <1>7. /\ \A x \in Copies : /\ [x EXCEPT !.state = "stale", !.floor = v] \in Copies
                              /\ [x EXCEPT !.state = "stale", !.floor = v].version = x.version
                              /\ [x EXCEPT !.state = "stale", !.floor = v].state = "stale"
                              /\ [x EXCEPT !.state = "stale", !.floor = v].floor = v
    BY <1>3 DEF Copies
  <1>8. copy' \in [Nodes -> Copies]
    <2>1. copy'[n] \in Copies
      BY <1>3, <1>4, <1>6, <1>7, CoherenceFacts
    <2> QED BY <1>1, <1>2, <1>3, <1>5, <2>1
  <1>9. InPlay' \subseteq InPlay
    <2>1. {x.version : x \in messages'} \subseteq InPlay
      BY <1>1 DEF InPlay
    <2>2. ASSUME NEW k \in Nodes, Present(k)' PROVE copy'[k].version \in InPlay
      <3>1. CASE k # n
        BY <1>5, <2>2, <3>1 DEF InPlay, Present
      <3>2. CASE k = n
        <4>1. \/ /\ copy'[n].version = c.version
                 /\ copy'[n].state # "absent" /\ c.state # "absent"
              \/ copy'[n].version = v
          BY <1>3, <1>4, <1>6, <1>7, <2>2, <3>2, CoherenceFacts DEF Present
        <4> QED BY <1>3, <1>4, <3>2, <4>1
      <3> QED BY <3>1, <3>2
    <2>3. ASSUME NEW k \in Nodes, copy'[k].state = "stale" PROVE copy'[k].floor \in InPlay
      <3>1. CASE k # n
        BY <1>5, <2>3, <3>1 DEF InPlay
      <3>2. CASE k = n
        <4>1. CASE copy'[n] = c
          BY <1>3, <2>3, <3>2, <4>1 DEF InPlay, c
        <4>2. CASE copy'[n] # c
          BY <1>3, <1>4, <1>6, <1>7, <2>3, <3>2, <4>2, CoherenceFacts
        <4> QED BY <4>1, <4>2
      <3> QED BY <3>1, <3>2
    <2> QED BY <2>1, <2>2, <2>3 DEF InPlay
  <1>10. \A k \in Nodes : copy'[k].state = "stale" => Newer(copy'[k].floor, copy'[k].version)
    <2>1. copy'[n].state = "stale" => Newer(copy'[n].floor, copy'[n].version)
      <3>1. CASE copy'[n] = c
        BY <1>3, <3>1 DEF CoherenceIInv, CoherenceTypeOK, c
      <3>2. CASE copy'[n] = Installed(v)
        BY <1>3, <3>2, CoherenceFacts
      <3>3. CASE Newer(v, c.version) /\ copy'[n] = [c EXCEPT !.state = "stale", !.floor = v]
        <4>1. copy'[n].version = c.version /\ copy'[n].floor = v
          BY <1>4, <1>7, <3>3
        <4> QED BY <3>3, <4>1
      <3> QED BY <1>6, <3>1, <3>2, <3>3
    <2> QED BY <1>5, <2>1 DEF CoherenceIInv, CoherenceTypeOK
  <1>11. Led'
    <2> SUFFICES ASSUME removals = 0, lost = 0 PROVE Led'
      BY <1>1 DEF Led
    <2>1. /\ attached = Nodes
          /\ \A x \in messages : x.kind = IF fabric.eager THEN "replicate" ELSE "invalidate"
          /\ fabric.eager => \A k \in Nodes : copy[k].state # "stale"
          /\ \E t \in Nodes : Leads(t)
      BY <1>3 DEF CoherenceIInv, Led
    <2>2. fabric.eager <=> m.kind = "replicate"
      BY <2>1
    <2>3. fabric.eager => \A k \in Nodes : copy'[k].state # "stale"
      <3>1. fabric.eager => copy'[n].state # "stale"
        BY <1>3, <1>6, <2>1, <2>2, CoherenceFacts DEF c
      <3> QED BY <1>5, <2>1, <3>1
    <2>4. ASSUME NEW t \in Nodes, Leads(t) PROVE Leads(t)'
      <3> DEFINE T == copy[t].version
      <3>1. copy[t].state = "valid" /\ T \in InPlay /\ T \in Stamps
        BY <2>4, InPlayStamps DEF Leads, InPlay, Present
      <3>2. v = T \/ v.wall < T.wall
        BY <1>3, <2>4 DEF Leads
      <3>3. v.wall \in Nat /\ T.wall \in Nat
        BY <1>3, <3>1, CoherenceFacts
      <3>4. ASSUME c.state # "absent", c.version = T PROVE copy'[n] = c
        <4>1. ~Newer(v, T)
          BY <1>3, <3>1, <3>2, <3>3, NewerIsLater
        <4> QED BY <1>6, <3>4, <4>1
      <3>5. copy'[t] = copy[t]
        BY <1>5, <3>1, <3>4 DEF c
      <3>6. \A k \in Nodes : k # n => \/ copy'[k].state = "valid" /\ copy'[k].version = T
                                      \/ \E x \in messages' : x.to = k /\ x.version = T
                                      \/ ~fabric.eager /\ copy'[k].state # "valid"
        BY <1>1, <1>5, <2>4 DEF Leads, n
      <3>7. \/ copy'[n].state = "valid" /\ copy'[n].version = T
            \/ \E x \in messages' : x.to = n /\ x.version = T
            \/ ~fabric.eager /\ copy'[n].state # "valid"
        <4>1. CASE c.state = "valid" /\ c.version = T
          BY <3>4, <4>1
        <4>2. CASE \E x \in messages : x # m /\ x.to = n /\ x.version = T
          BY <1>1, <4>2
        <4>3. CASE ~fabric.eager /\ c.state # "valid"
          BY <1>4, <1>6, <1>7, <2>2, <4>3
        <4>4. CASE v = T /\ c.state = "valid" /\ c.version # T
          <5>1. c.version \in InPlay /\ c.version.wall < T.wall
            BY <1>3, <1>4, <2>4, <4>4 DEF Leads
          <5>2. c.version.wall \in Nat
            BY <1>4, CoherenceFacts
          <5>3. Newer(T, c.version)
            BY <3>1, <3>3, <5>1, <5>2, NewerIsLater
          <5>4. CASE fabric.eager
            <6>1. copy'[n] = Installed(v)
              BY ONLY <1>6, <2>2, <4>4, <5>3, <5>4
            <6> QED BY ONLY <1>3, <4>4, <6>1, CoherenceFacts
          <5>5. CASE ~fabric.eager
            <6>1. copy'[n] = [c EXCEPT !.state = "stale", !.floor = v]
              BY ONLY <1>3, <1>6, <2>2, <4>4, <5>3, <5>5
            <6>2. copy'[n].state = "stale"
              BY ONLY <1>4, <1>7, <6>1
            <6> QED BY ONLY <5>5, <6>2
          <5> QED BY ONLY <5>4, <5>5
        <4>5. CASE v = T /\ fabric.eager /\ c.state # "valid"
          <5>1. c.state = "absent" /\ m.kind = "replicate"
            BY <1>3, <1>4, <2>1, <2>2, <4>5, SMTT(20) DEF Copies, c
          <5> QED BY <1>3, <1>6, <4>5, <5>1, CoherenceFacts
        <4> QED BY <1>3, <2>4, <4>1, <4>2, <4>3, <4>4, <4>5 DEF Leads, c, v
      <3> QED BY <1>1, <1>9, <2>4, <3>5, <3>6, <3>7 DEF Leads
    <2> QED BY <1>1, <2>1, <2>3, <2>4 DEF Led
  <1>12. Advances
    <2>1. ASSUME NEW k \in Nodes, Present(k), Present(k)'
          PROVE  ~Newer(copy[k].version, copy'[k].version)
      <3>1. copy[k].version.wall \in Nat /\ copy[k].version.seq \in Nat
        BY <1>2, CoherenceFacts DEF Copies
      <3>2. CASE copy'[k].version = copy[k].version
        BY <3>1, <3>2 DEF Newer
      <3>3. CASE copy'[k].version # copy[k].version
        <4>1. k = n /\ copy'[k].version = v /\ Newer(v, c.version)
          <5>1. k = n
            BY <1>5, <3>3
          <5>2. copy'[n].version # c.version /\ c.state # "absent"
            BY <1>4, <2>1, <3>3, <5>1 DEF c
          <5>3. copy'[n] = Installed(v) /\ Newer(v, c.version)
            BY <1>4, <1>6, <1>7, <5>2
          <5> QED BY <1>3, <5>1, <5>3, CoherenceFacts
        <4>2. v \in InPlay /\ c.version \in InPlay /\ v.wall > c.version.wall
          BY <1>3, <1>4, <2>1, <4>1, NewerIsLater
        <4>3. v.wall \in Nat /\ c.version.wall \in Nat
          BY <4>2, InPlayStamps, CoherenceFacts
        <4>4. ~Newer(c.version, v)
          BY <4>2, <4>3, NewerIsLater
        <4> QED BY <4>1, <4>4 DEF c
      <3> QED BY <3>2, <3>3
    <2> QED BY <2>1 DEF Advances
  <1>13. /\ wall \in 0 .. MaxWall /\ \A x \in messages' : x.to \in attached
         /\ messages' \subseteq messages
    BY <1>1 DEF CoherenceIInv, CoherenceTypeOK
  <1> QED BY <1>1, <1>2, <1>8, <1>9, <1>10, <1>11, <1>12, <1>13, CoherenceKept

\* No step breaks the order of the writes or the lead of the newest.
LEMMA CoherenceInductive ==
  ASSUME OneWritePerTick
  PROVE  CoherenceIInv /\ [CoherenceNext]_coherenceVars => CoherenceIInv' /\ Advances
  <1> SUFFICES ASSUME CoherenceIInv, [CoherenceNext]_coherenceVars PROVE CoherenceIInv' /\ Advances
    OBVIOUS
  <1>1. /\ copy \in [Nodes -> Copies] /\ wall \in 0 .. MaxWall /\ lost \in Nat /\ removals \in Nat
        /\ \A m \in messages : m.to \in attached
        /\ \A n \in Nodes : copy[n].state = "stale" => Newer(copy[n].floor, copy[n].version)
        /\ Led
    BY DEF CoherenceIInv, CoherenceTypeOK, Copies
  <1>2. ASSUME copy' = copy PROVE Advances
    <2>1. \A n \in Nodes : copy[n].version.wall \in Nat /\ copy[n].version.seq \in Nat
      BY <1>1, CoherenceFacts DEF Copies
    <2> QED BY <1>2, <2>1 DEF Advances, Newer
  <1>3. ASSUME copy' = copy, messages' \subseteq messages PROVE InPlay' \subseteq InPlay
    BY <1>3 DEF InPlay, Present
  <1>4. ASSUME NEW n \in Nodes, SetKey(n) \/ DeleteKey(n) PROVE CoherenceIInv' /\ Advances
    BY OneWritePerTick, <1>4, CoherenceWrites
  <1>5. ASSUME NEW n \in Nodes, GetKey(n) PROVE CoherenceIInv' /\ Advances
    BY <1>5, CoherenceRepairs
  <1>6. ASSUME NEW m \in messages, Receive(m) PROVE CoherenceIInv' /\ Advances
    BY <1>6, CoherenceReceives
  <1>7. ASSUME NEW n \in Nodes, Leave(n) PROVE CoherenceIInv' /\ Advances
    <2>1. /\ removals' = removals + 1 /\ attached' = attached \ {n}
          /\ messages' = {m \in messages : m.to # n}
          /\ UNCHANGED <<fabric, wall, stamped, seq, copy, lost>>
      BY <1>7 DEF Leave
    <2>2. Led'
      BY <1>1, <2>1 DEF Led
    <2>3. messages' \subseteq messages /\ \A m \in messages' : m.to \in attached'
      BY <1>1, <2>1
    <2>4. removals' \in Nat /\ attached' \subseteq attached
      BY <1>1, <2>1
    <2> QED BY <1>1, <1>2, <1>3, <2>1, <2>2, <2>3, <2>4, CoherenceKept
  <1>8. ASSUME NEW m \in messages, Lose(m) PROVE CoherenceIInv' /\ Advances
    <2>1. /\ lost' = lost + 1 /\ messages' = messages \ {m}
          /\ UNCHANGED <<fabric, wall, stamped, seq, copy, attached, removals>>
      BY <1>8 DEF Lose
    <2>2. Led' /\ lost' \in Nat
      BY <1>1, <2>1 DEF Led
    <2>3. messages' \subseteq messages /\ \A k \in messages' : k.to \in attached'
      BY <1>1, <2>1
    <2> QED BY <1>1, <1>2, <1>3, <2>1, <2>2, <2>3, CoherenceKept
  <1>9. CASE WallTick \/ UNCHANGED coherenceVars
    <2>1. /\ UNCHANGED <<fabric, seq, copy, messages, attached, lost, removals>>
          /\ \/ wall' = wall /\ stamped' = stamped
             \/ wall < MaxWall /\ wall' = wall + 1
      BY <1>9 DEF WallTick, coherenceVars
    <2>2. InPlay' = InPlay
      BY <2>1 DEF InPlay, Present
    <2>3. \A t \in Nodes : Leads(t) => Leads(t)'
      BY <2>1, <2>2 DEF Leads
    <2>4. Led'
      BY <1>1, <2>1, <2>2, <2>3 DEF Led
    <2>5. wall' \in 0 .. MaxWall
      BY <1>1, <2>1, CoherenceFacts
    <2> QED BY <1>1, <1>2, <2>1, <2>2, <2>4, <2>5, CoherenceKept
  <1> QED BY <1>4, <1>5, <1>6, <1>7, <1>8, <1>9 DEF CoherenceNext

\* No node holds anything in the beginning.
LEMMA CoherenceStarts == CoherenceInit => CoherenceIInv
  <1> SUFFICES ASSUME CoherenceInit PROVE CoherenceIInv
    OBVIOUS
  <1>1. \A n \in Nodes : copy[n] = NoCopy
    BY DEF CoherenceInit
  <1>2. InPlay = {} /\ \A n \in Nodes : copy[n].state = "absent"
    BY <1>1, CoherenceFacts DEF CoherenceInit, InPlay, Present
  <1>3. Timed /\ Led
    BY <1>2, CoherenceFacts DEF CoherenceInit, Timed, Led
  <1>4. copy \in [Nodes -> Copies] /\ seq \in [Nodes -> 0 .. MaxWrites]
    BY CoherenceFacts DEF CoherenceInit
  <1>5. CoherenceTypeOK
    BY <1>2, <1>4 DEF CoherenceInit, CoherenceTypeOK, Copies
  <1> QED BY <1>3, <1>4, <1>5, CoherenceFacts DEF CoherenceInit, CoherenceIInv

\* The invariant holds throughout.
LEMMA CoherenceInvariant == ASSUME OneWritePerTick PROVE CoherenceSpec => []CoherenceIInv
  <1>1. CoherenceIInv /\ [CoherenceNext]_coherenceVars => CoherenceIInv'
    BY OneWritePerTick, CoherenceInductive
  <1> QED BY <1>1, CoherenceStarts, PTL DEF CoherenceSpec

\* With every message delivered and nothing removed, all nodes serve the same
\* write, for any number of nodes and any order of delivery and repair.
THEOREM NodesConverge == ASSUME OneWritePerTick PROVE CoherenceSpec => []Converges
  <1>1. CoherenceIInv => Converges
    <2> SUFFICES ASSUME CoherenceIInv, messages = {}, lost = 0, removals = 0,
                        NEW n \in Nodes, NEW m \in Nodes,
                        copy[n].state = "valid", copy[m].state = "valid"
                 PROVE  copy[n].version = copy[m].version
      BY DEF Converges
    <2>1. InPlay # {}
      BY DEF InPlay, Present
    <2>2. PICK t \in Nodes : Leads(t)
      BY <2>1 DEF CoherenceIInv, Led
    <2> QED BY <2>2 DEF Leads
  <1>2. CoherenceSpec => []CoherenceIInv
    BY OneWritePerTick, CoherenceInvariant
  <1> QED BY <1>1, <1>2, PTL

\* No node replaces what it holds by an older write.
THEOREM NoCopyGoesBack == CoherenceSpec => CopiesAdvance
  <1>1. CASE OneWritePerTick
    <2>1. CoherenceIInv /\ [CoherenceNext]_coherenceVars
            => [OneWritePerTick => Advances]_coherenceVars
      BY <1>1, CoherenceInductive
    <2>2. CoherenceSpec => []CoherenceIInv
      BY <1>1, CoherenceInvariant
    <2> QED BY <2>1, <2>2, PTL DEF CoherenceSpec, CopiesAdvance, Advances
  <1>2. CASE ~OneWritePerTick
    <2>1. [CoherenceNext]_coherenceVars => [OneWritePerTick => Advances]_coherenceVars
      BY <1>2
    <2> QED BY <2>1, PTL DEF CoherenceSpec, CopiesAdvance, Advances
  <1> QED BY <1>1, <1>2

-----------------------------------------------------------------------------
(***************************************************************************)
(*  The single-flight cache serves nothing older than an invalidation,     *)
(*  and nothing older than before.                                         *)
(*                                                                         *)
(*  One load runs at a time, the one in the map; what it has read is at    *)
(*  least as new as what anybody was given, and what is stored as well,    *)
(*  unless an invalidation overlapped it.                                  *)
(***************************************************************************)

\* One load runs at a time, the one in the in-flight map.
OneFlight == /\ \A s \in Slots : load[s].runs <=> s = flight
             /\ \A s \in Slots : ~load[s].runs => load[s].read = None

\* What a load has read is at least as new as what anybody was given or the store
\* has; what is stored is at least as new as what anybody was given; and neither
\* is older than the last invalidation.
NewestRead ==
  /\ dropped <= source
  /\ record.value <= source
  /\ \A r \in Readers : seen[r] <= source
  /\ Kept => dropped <= record.value /\ \A r \in Readers : seen[r] <= record.value
  /\ \A s \in Slots : load[s].read # None
       => /\ load[s].read <= source
          /\ dropped <= load[s].read
          /\ record.value <= load[s].read
          /\ \A r \in Readers : seen[r] <= load[s].read

CacheIInv == CacheInv /\ OneFlight /\ NewestRead

LoadRecords == [runs : BOOLEAN, background : BOOLEAN, read : Versions \cup {None}]

CacheRecords == [value : Versions \cup {None}, fresh : Nat, dead : Nat]

\* What the assumption says of each constant.
LEMMA CacheFacts ==
  /\ MaxVersion \in Int /\ None = -1 /\ None \in Int /\ 0 \in Versions /\ None \notin Versions
  /\ \A v \in Versions \cup {None} : v \in Int /\ None <= v
  /\ \A v \in Versions : v \in Nat
  /\ 0 \notin Slots
  /\ \A n \in ValueTtls : n \in Nat
  /\ NegativeTtl \in Nat /\ SwrTime \in Nat
  /\ NoLoad \in LoadRecords /\ ~NoLoad.runs /\ NoLoad.read = None
  /\ NoRecord.value = None /\ NoRecord.fresh = 0 /\ NoRecord.dead = 0 /\ NoRecord \in CacheRecords
  BY CacheAssumption DEF Versions, None, Slots, NoLoad, NoRecord, LoadRecords, CacheRecords

\* Everything the invariant compares is a number.
LEMMA CacheTyped ==
  ASSUME CacheIInv
  PROVE  /\ ttl \in Nat /\ source \in Versions /\ source \in Nat
         /\ record.value \in Int /\ dropped \in Int
         /\ \A s \in Slots : load[s].read \in Versions \cup {None} /\ load[s].read \in Int
         /\ \A r \in Readers : seen[r] \in Int /\ waits[r] \in Slots \cup {0}
         /\ load \in [Slots -> LoadRecords]
         /\ flight # 0 => flight \in Slots /\ load[flight].runs
         /\ \A s \in Slots : load[s] \in LoadRecords
  BY CacheFacts DEF CacheIInv, CacheInv, CacheTypeOK, OneFlight, LoadRecords

\* A started load is the one in flight, and has read nothing yet.
LEMMA StartLoadProperties ==
  ASSUME CacheIInv, NEW b \in BOOLEAN, flight = 0, StartLoad(b)
  PROVE  /\ flight' \in Slots
         /\ load' \in [Slots -> LoadRecords]
         /\ \A s \in Slots : load'[s].runs <=> s = flight'
         /\ \A s \in Slots : load'[s].read = None
  <1>1. PICK s \in Slots :
          /\ load' = [load EXCEPT ![s] = [runs |-> TRUE, background |-> b, read |-> None]]
          /\ flight' = s
    BY DEF StartLoad
  <1>2. \A t \in Slots : ~load[t].runs /\ load[t].read = None
    BY CacheFacts DEF CacheIInv, OneFlight
  <1>3. [runs |-> TRUE, background |-> b, read |-> None] \in LoadRecords
    BY DEF LoadRecords
  <1> QED BY <1>1, <1>2, <1>3, CacheTyped

\* The step keeps the invariant, and no reader goes back.
LEMMA CacheInductive ==
  CacheIInv /\ [CacheNext]_cacheVars => CacheIInv' /\ \A r \in Readers : seen'[r] >= seen[r]
  <1> SUFFICES ASSUME CacheIInv, [CacheNext]_cacheVars
               PROVE  CacheIInv' /\ \A r \in Readers : seen'[r] >= seen[r]
    OBVIOUS
  <1> DEFINE Good == CacheIInv' /\ \A r \in Readers : seen'[r] >= seen[r]
  <1> USE DEF LoadRecords, CacheRecords
  <1>1. /\ CacheTypeOK /\ AwaitsTheFlight /\ OneFlight /\ NewestRead
        /\ seen \in [Readers -> Versions \cup {None}]
        /\ waits \in [Readers -> Slots \cup {0}]
    BY DEF CacheIInv, CacheInv, CacheTypeOK
  <1>2. /\ \A r \in Readers : seen[r] >= seen[r]
        /\ \A r \in Readers : seen[r] \in Int
    BY CacheTyped
  <1>3. ASSUME NEW r \in Readers, GetStored(r) PROVE Good
    <2>1. /\ waits[r] = 0 /\ Kept
          /\ seen' = [seen EXCEPT ![r] = record.value]
          /\ UNCHANGED <<ttl, source, record, waits, dropped>>
      BY <1>3 DEF GetStored, Fresh, Missing, Stale, Sees
    <2>2. /\ record.value \in Versions
          /\ \A q \in Readers : seen'[q] \in {seen[q], record.value} /\ seen'[q] <= record.value
          /\ \A q \in Readers : seen'[q] >= seen[q] /\ seen'[q] <= source
          /\ seen' \in [Readers -> Versions \cup {None}]
      BY <1>1, <2>1, CacheTyped DEF NewestRead, Kept, CacheTypeOK
    <2>3. CASE UNCHANGED <<load, flight>>
      <3>1. NewestRead'
        <4>1. \A s \in Slots : load[s].read # None => \A q \in Readers : seen'[q] <= load[s].read
          BY <1>1, <2>1, <2>2, CacheTyped DEF NewestRead
        <4> QED BY <1>1, <2>1, <2>2, <2>3, <4>1 DEF NewestRead, Kept
      <3> QED BY <1>1, <2>1, <2>2, <2>3, <3>1
            DEF CacheIInv, CacheInv, CacheTypeOK, AwaitsTheFlight, OneFlight
    <2>4. CASE flight = 0 /\ StartLoad(TRUE)
      <3>1. /\ flight' \in Slots
            /\ load' \in [Slots -> LoadRecords]
            /\ \A s \in Slots : load'[s].runs <=> s = flight'
            /\ \A s \in Slots : load'[s].read = None
        BY <2>4, StartLoadProperties
      <3>2. \A q \in Readers : waits[q] = 0
        BY <1>1, <2>4 DEF AwaitsTheFlight
      <3>3. NewestRead'
        BY <1>1, <2>1, <2>2, <3>1 DEF NewestRead, Kept
      <3>4. OneFlight' /\ AwaitsTheFlight'
        BY <2>1, <3>1, <3>2 DEF OneFlight, AwaitsTheFlight
      <3>5. CacheTypeOK'
        BY <1>1, <2>1, <2>2, <3>1 DEF CacheTypeOK
      <3> QED BY <2>2, <3>3, <3>4, <3>5 DEF CacheIInv, CacheInv
    <2> QED BY <1>3, <2>3, <2>4 DEF GetStored, Refreshing
  \* Whoever awaits a load, awaits the one in flight, joined or started.
  <1>4. ASSUME NEW r \in Readers, waits[r] = 0,
               record' \in {record, NoRecord},
               UNCHANGED <<ttl, source, seen, dropped>>,
               \/ flight = 0 /\ StartOwn(r)
               \/ flight # 0 /\ Join(r)
               \/ UNCHANGED <<load, flight, waits>>
        PROVE  Good
    <2>1. NewestRead
      BY <1>1
    <2>2. /\ record' \in CacheRecords
          /\ record'.value \in {record.value, None}
      BY <1>1, <1>4, CacheFacts DEF CacheTypeOK
    <2>3. CASE UNCHANGED <<load, flight>> /\ \A q \in Readers : waits'[q] \in {waits[q], flight}
                /\ waits' \in [Readers -> Slots \cup {0}]
      <3>1. NewestRead'
        BY <1>4, <2>1, <2>2, <2>3, CacheFacts, CacheTyped DEF NewestRead, Kept
      <3>2. AwaitsTheFlight'
        BY <1>1, <2>3, CacheTyped DEF AwaitsTheFlight
      <3> QED BY <1>1, <1>2, <1>4, <2>2, <2>3, <3>1, <3>2
            DEF CacheIInv, CacheInv, CacheTypeOK, OneFlight
    <2>4. CASE flight = 0 /\ StartOwn(r)
      <3>1. /\ flight' \in Slots
            /\ load' \in [Slots -> LoadRecords]
            /\ \A s \in Slots : load'[s].runs <=> s = flight'
            /\ \A s \in Slots : load'[s].read = None
        BY <2>4, StartLoadProperties DEF StartOwn
      <3>2. \A q \in Readers : waits[q] = 0
        BY <1>1, <2>4 DEF AwaitsTheFlight
      <3>3. waits' = [waits EXCEPT ![r] = flight']
        BY <2>4 DEF StartOwn
      <3>4. waits' \in [Readers -> Slots \cup {0}] /\ \A q \in Readers : waits'[q] \in {0, flight'}
        BY <1>1, <3>1, <3>2, <3>3
      <3>5. NewestRead'
        BY <1>4, <2>1, <2>2, <3>1, CacheFacts, CacheTyped DEF NewestRead, Kept
      <3>6. OneFlight' /\ AwaitsTheFlight'
        BY <3>1, <3>4 DEF OneFlight, AwaitsTheFlight
      <3> QED BY <1>1, <1>2, <1>4, <2>2, <3>1, <3>4, <3>5, <3>6 DEF CacheIInv, CacheInv, CacheTypeOK
    <2>5. CASE flight # 0 /\ Join(r)
      <3>1. flight \in Slots
        BY <2>5, CacheTyped
      <3>2. waits' = [waits EXCEPT ![r] = flight] /\ UNCHANGED <<load, flight>>
        BY <2>5 DEF Join
      <3> QED BY <1>1, <2>3, <3>1, <3>2
    <2>6. CASE UNCHANGED <<load, flight, waits>>
      BY <1>1, <2>3, <2>6
    <2> QED BY <1>4, <2>4, <2>5, <2>6
  <1>5. ASSUME NEW r \in Readers, GetLoaded(r) PROVE Good
    BY <1>4, <1>5 DEF GetLoaded
  <1>6. ASSUME NEW r \in Readers, Refresh(r) PROVE Good
    BY <1>4, <1>6 DEF Refresh
  <1>7. ASSUME NEW s \in Slots, LoaderReads(s) PROVE Good
    <2>1. /\ load[s].runs
          /\ load' = [load EXCEPT ![s].read = source]
          /\ UNCHANGED <<ttl, source, record, flight, waits, seen, dropped>>
      BY <1>7 DEF LoaderReads
    <2>2. /\ load' \in [Slots -> LoadRecords]
          /\ load'[s].read = source /\ load'[s].runs
          /\ \A t \in Slots : t # s => load'[t] = load[t]
      BY <2>1, CacheTyped
    <2>3. OneFlight'
      BY <1>1, <2>1, <2>2 DEF OneFlight
    <2>4. AwaitsTheFlight'
      BY <1>1, <2>1, <2>2, CacheTyped DEF AwaitsTheFlight
    <2>5. NewestRead'
      <3>1. ASSUME NEW t \in Slots, load'[t].read # None
            PROVE  /\ load'[t].read <= source
                   /\ dropped <= load'[t].read
                   /\ record.value <= load'[t].read
                   /\ \A r \in Readers : seen[r] <= load'[t].read
        <4>1. CASE t = s
          BY <1>1, <2>2, <4>1, CacheTyped DEF NewestRead
        <4>2. CASE t # s
          BY <1>1, <2>2, <3>1, <4>2 DEF NewestRead
        <4> QED BY <4>1, <4>2
      <3> QED BY <1>1, <2>1, <3>1 DEF NewestRead, Kept
    <2> QED BY <1>1, <1>2, <2>1, <2>2, <2>3, <2>4, <2>5 DEF CacheIInv, CacheInv, CacheTypeOK
  <1>8. ASSUME NEW s \in Slots, NEW ok \in BOOLEAN, LoadSettles(s, ok) PROVE Good
    <2>1. /\ load[s].runs
          /\ load' = [load EXCEPT ![s] = NoLoad]
          /\ flight' = IF flight = s THEN 0 ELSE flight
          /\ waits' = [r \in Readers |-> IF waits[r] = s THEN 0 ELSE waits[r]]
          /\ UNCHANGED <<ttl, source, dropped>>
      BY <1>8 DEF LoadSettles, Settled, Waiting
    <2>2. flight = s /\ flight' = 0
      BY <1>1, <2>1 DEF OneFlight
    <2>3. /\ waits' \in [Readers -> Slots \cup {0}]
          /\ \A r \in Readers : waits'[r] = 0
      BY <1>1, <2>1, <2>2 DEF AwaitsTheFlight
    <2>4. /\ load' \in [Slots -> LoadRecords]
          /\ \A t \in Slots : ~load'[t].runs /\ load'[t].read = None
      BY <1>1, <2>1, <2>2, CacheTyped, CacheFacts DEF OneFlight
    <2>5. OneFlight' /\ AwaitsTheFlight'
      BY <2>2, <2>3, <2>4, CacheFacts DEF OneFlight, AwaitsTheFlight
    <2>6. CASE LoadSucceeds(s)
      <3> DEFINE v == load[s].read
      <3>1. /\ v # None /\ v \in Versions
            /\ record' = Committed(v)
            /\ seen' = [r \in Readers |-> IF waits[r] = s THEN v ELSE seen[r]]
        BY <2>6, CacheTyped DEF LoadSucceeds, Settled, Waiting
      <3>2. v <= source /\ dropped <= v /\ \A r \in Readers : seen[r] <= v
        BY <1>1, <3>1 DEF NewestRead
      <3>3. /\ record'.value \in {v, None}
            /\ record' \in CacheRecords
        BY <3>1, CacheFacts, CacheTyped DEF Committed
      <3>4. v \in Int
        BY CacheTyped
      <3> HIDE DEF v
      <3>5. /\ seen' \in [Readers -> Versions \cup {None}]
            /\ \A r \in Readers : seen'[r] >= seen[r] /\ seen'[r] <= v
        BY <1>1, <1>2, <3>1, <3>2, <3>4
      <3>6. \A r \in Readers : seen'[r] <= source
        BY <3>2, <3>4, <3>5, <3>1, CacheFacts, CacheTyped
      <3>7. NewestRead'
        BY <1>1, <2>1, <2>4, <3>1, <3>2, <3>3, <3>4, <3>5, <3>6, CacheFacts, CacheTyped
           DEF NewestRead, Kept
      <3> QED BY <1>1, <2>1, <2>2, <2>3, <2>4, <2>5, <3>1, <3>3, <3>5, <3>7
            DEF CacheIInv, CacheInv, CacheTypeOK
    <2>7. CASE UNCHANGED <<record, seen>>
      <3>1. NewestRead'
        BY <1>1, <2>1, <2>4, <2>7 DEF NewestRead, Kept
      <3> QED BY <1>1, <1>2, <2>1, <2>2, <2>3, <2>4, <2>5, <2>7, <3>1
            DEF CacheIInv, CacheInv, CacheTypeOK
    <2> QED BY <1>8, <2>6, <2>7 DEF LoadSettles, LoadFails
  <1>9. CASE Invalidate
    <2>1. /\ record' = NoRecord
          /\ dropped' = IF \A s \in Slots : ~load[s].runs THEN source ELSE dropped
          /\ UNCHANGED <<ttl, source, load, flight, waits, seen>>
      BY <1>9 DEF Invalidate, InvalidatedRecord
    <2>2. dropped' <= source /\ dropped' \in Versions \cup {None}
      BY <1>1, <2>1, CacheTyped DEF NewestRead, CacheTypeOK
    <2>3. \A s \in Slots : load[s].read # None => dropped' = dropped
      BY <1>1, <2>1 DEF OneFlight
    <2>4. NewestRead'
      BY <1>1, <2>1, <2>2, <2>3, CacheFacts, CacheTyped DEF NewestRead, Kept
    <2> QED BY <1>1, <1>2, <2>1, <2>2, <2>4, CacheFacts
          DEF CacheIInv, CacheInv, CacheTypeOK, AwaitsTheFlight, OneFlight
  <1>10. CASE SourceChanges
    <2>1. /\ source < MaxVersion /\ source' = source + 1
          /\ UNCHANGED <<ttl, record, load, flight, waits, seen, dropped>>
      BY <1>10 DEF SourceChanges
    <2>2. source' \in Versions
      BY <2>1, CacheFacts, CacheTyped DEF Versions
    <2>3. \A k \in Int : k <= source => k <= source'
      BY <2>1, CacheTyped
    <2>4. NewestRead'
      BY <1>1, <2>1, <2>3, CacheTyped DEF NewestRead, Kept
    <2> QED BY <1>1, <1>2, <2>1, <2>2, <2>4
          DEF CacheIInv, CacheInv, CacheTypeOK, AwaitsTheFlight, OneFlight
  <1>11. CASE CacheTick
    <2>1. /\ record'.value = record.value /\ record' \in CacheRecords
          /\ UNCHANGED <<ttl, source, load, flight, waits, seen, dropped>>
      <3>1. /\ record \in CacheRecords
            /\ UNCHANGED <<ttl, source, load, flight, waits, seen, dropped>>
            /\ record' = [record EXCEPT !.fresh = IF record.fresh = 0 THEN 0 ELSE record.fresh - 1,
                                        !.dead = IF record.dead = 0 THEN 0 ELSE record.dead - 1]
        BY <1>1, <1>11 DEF CacheTick, CacheTypeOK
      <3>2. /\ (IF record.fresh = 0 THEN 0 ELSE record.fresh - 1) \in Nat
            /\ (IF record.dead = 0 THEN 0 ELSE record.dead - 1) \in Nat
        BY <3>1
      <3> QED BY <3>1, <3>2
    <2>2. NewestRead'
      BY <1>1, <2>1 DEF NewestRead, Kept
    <2> QED BY <1>1, <1>2, <2>1, <2>2
          DEF CacheIInv, CacheInv, CacheTypeOK, AwaitsTheFlight, OneFlight
  <1>12. CASE UNCHANGED cacheVars
    BY <1>1, <1>2, <1>12
       DEF cacheVars, CacheIInv, CacheInv, CacheTypeOK, AwaitsTheFlight, OneFlight, NewestRead, Kept
  <1> QED BY <1>3, <1>5, <1>6, <1>7, <1>8, <1>9, <1>10, <1>11, <1>12 DEF CacheNext, Settles

\* Nothing is stored and nothing loads in the beginning.
LEMMA CacheStarts == CacheInit => CacheIInv
  <1> SUFFICES ASSUME CacheInit PROVE CacheIInv
    OBVIOUS
  <1>1. CacheTypeOK
    <2>1. record \in CacheRecords /\ load \in [Slots -> LoadRecords]
      BY CacheFacts DEF CacheInit
    <2> QED BY <2>1, CacheFacts DEF CacheInit, CacheTypeOK, LoadRecords, CacheRecords
  <1>2. OneFlight /\ AwaitsTheFlight
    BY CacheFacts DEF CacheInit, OneFlight, AwaitsTheFlight
  <1>3. NewestRead
    BY CacheFacts DEF CacheInit, NewestRead, Kept
  <1> QED BY <1>1, <1>2, <1>3 DEF CacheIInv, CacheInv

\* The invariant holds throughout.
LEMMA CacheInvariant == CacheSpec => []CacheIInv
  <1>1. CacheIInv /\ [CacheNext]_cacheVars => CacheIInv'
    BY CacheInductive
  <1> QED BY <1>1, CacheStarts, PTL DEF CacheSpec

LEMMA CacheSafe == CacheIInv => CacheInv /\ InvalidationHolds
  <1> SUFFICES ASSUME CacheIInv PROVE InvalidationHolds
    BY DEF CacheIInv
  <1> QED BY CacheTyped DEF CacheIInv, NewestRead, InvalidationHolds

\* A reader awaits a running load, and nothing that was read before an invalidation
\* is stored after it, unless a load overlapped it.
THEOREM HoldsInvalidations == CacheSpec => [](CacheInv /\ InvalidationHolds)
  BY CacheSafe, CacheInvariant, PTL

\* No reader is ever given an older version of the source than before.
THEOREM ReadersAdvance == CacheSpec => MonotonicReads
  <1>1. CacheIInv /\ [CacheNext]_cacheVars => [\A r \in Readers : seen'[r] >= seen[r]]_cacheVars
    BY CacheInductive
  <1> QED BY <1>1, CacheInvariant, PTL DEF CacheSpec, MonotonicReads

-----------------------------------------------------------------------------
(***************************************************************************)
(*  A saga is done entirely or undone entirely, for any number of steps,   *)
(*  attempts and runs.                                                     *)
(*                                                                         *)
(*  Whatever runs there are, the log alone gives the state of the saga,    *)
(*  as replay folds it. Of a saga that is run once the invariant tells     *)
(*  the course: what is done, what is still to be undone, and where the    *)
(*  run stands between them.                                               *)
(***************************************************************************)

Lives == {"started", "running", "compensating", "completed", "compensated", "failed"}
Points == {"off", "acting", "backoff", "undoing", "done", "threw"}
SagaEntries == ({"state"} \X Lives) \cup ({"step_succeeded", "compensated_step"} \X Nat)

\* What replay folds any log into.
StatesIn(l) == {i \in DOMAIN l : l[i][1] = "state"}
StateOf(l) == IF StatesIn(l) = {} THEN "started"
              ELSE l[CHOOSE i \in StatesIn(l) : \A j \in StatesIn(l) : j <= i][2]
KindIn(l, kind) == {l[i][2] : i \in {j \in DOMAIN l : l[j][1] = kind}}

Begun == {r \in Runs : runs[r].at # "off"}

SagaTyped ==
  /\ saga \in Sagas /\ saga.undoable \subseteq 1 .. saga.steps
  /\ life \in Lives
  /\ completedSteps \in Seq(1 .. saga.steps)
  /\ log \in Seq(SagaEntries)
  /\ runs \in [Runs -> [at : Points, step : Nat, attempt : Nat]]
  /\ undone \in [1 .. MaxSteps -> Nat]
  /\ IsFiniteSet(Begun)

\* A run stands where the steps before are done, or at a step that is.
Standing ==
  \A r \in Runs :
    /\ runs[r].at \in {"acting", "backoff"} =>
         /\ runs[r].step \in 1 .. saga.steps
         /\ \A s \in 1 .. saga.steps : s < runs[r].step => s \in CompletedSet
    /\ runs[r].at = "undoing" => runs[r].step \in 1 .. Len(completedSteps)

AllDone == life = "completed" => \A s \in 1 .. saga.steps : s \in CompletedSet

\* Before the first run nothing has happened.
Untouched == (\A r \in Runs : runs[r].at = "off") =>
               /\ life = "started" /\ Len(completedSteps) = 0
               /\ \A s \in 1 .. MaxSteps : undone[s] = 0

\* Of the steps done, those above n are undone.
UndoneDownTo(n) ==
  \A s \in 1 .. MaxSteps :
    undone[s] = IF s \in saga.undoable /\ n < s /\ s <= Len(completedSteps) THEN 1 ELSE 0

\* What one run by itself has come to.
Course(r) ==
  /\ \A i \in 1 .. Len(completedSteps) : completedSteps[i] = i
  /\ runs[r].at # "threw"
  /\ runs[r].at \in {"acting", "backoff"} =>
       /\ life = "running" /\ runs[r].step = Len(completedSteps) + 1
       /\ \A s \in 1 .. MaxSteps : undone[s] = 0
  /\ runs[r].at = "undoing" =>
       life = "compensating" /\ UndoneDownTo(runs[r].step) /\ runs[r].step \in saga.undoable
  /\ runs[r].at = "done" =>
       \/ life = "completed" /\ \A s \in 1 .. MaxSteps : undone[s] = 0
       \/ life = "compensated" /\ UndoneDownTo(0)
       \/ life = "failed"

Sole(r) == /\ runs[r].at # "off"
           /\ \A q \in Runs : q # r => runs[q].at = "off"

SagaIInv == /\ SagaTyped
            /\ ReplayAgrees
            /\ Standing
            /\ AllDone
            /\ Untouched
            /\ \A r \in Runs : Sole(r) => Course(r)

Added(l, x, g) == g = Append(l, x)

\* One more entry in the log, as replay folds it.
LEMMA EntryAdded ==
  ASSUME NEW l \in Seq(SagaEntries), NEW x \in SagaEntries, NEW g, Added(l, x, g)
  PROVE  /\ g \in Seq(SagaEntries)
         /\ x[1] = "state" => StateOf(g) = x[2]
         /\ x[1] # "state" => StateOf(g) = StateOf(l)
         /\ \A kind : x[1] = kind => KindIn(g, kind) = KindIn(l, kind) \cup {x[2]}
         /\ \A kind : x[1] # kind => KindIn(g, kind) = KindIn(l, kind)
  <1> DEFINE n == Len(l)
  <1>1. /\ g \in Seq(SagaEntries) /\ Len(g) = n + 1 /\ n \in Nat /\ g[n + 1] = x
        /\ \A i \in 1 .. n : g[i] = l[i]
    BY AppendProperties, LenProperties DEF Added
  <1>2. DOMAIN g = 1 .. n + 1 /\ DOMAIN l = 1 .. n
    BY <1>1, LenProperties
  <1> HIDE DEF n
  <1>3. /\ n + 1 \in 1 .. n + 1
        /\ \A i \in 1 .. n + 1 : i = n + 1 \/ i \in 1 .. n
        /\ \A i \in 1 .. n : i \in 1 .. n + 1 /\ i # n + 1 /\ i <= n + 1
    BY <1>1
  <1>4. x[1] = "state" => StateOf(g) = x[2]
    <2> SUFFICES ASSUME x[1] = "state" PROVE StateOf(g) = x[2]
      OBVIOUS
    <2> DEFINE C == CHOOSE i \in StatesIn(g) : \A j \in StatesIn(g) : j <= i
    <2>1. n + 1 \in StatesIn(g) /\ \A j \in StatesIn(g) : j \in 1 .. n + 1 /\ j <= n + 1
      BY <1>1, <1>2, <1>3 DEF StatesIn
    <2>2. C \in StatesIn(g) /\ \A j \in StatesIn(g) : j <= C
      BY <2>1
    <2>3. C = n + 1
      <3> HIDE DEF C
      <3>1. C <= n + 1 /\ n + 1 <= C /\ C \in Int
        BY <1>1, <2>1, <2>2
      <3> QED BY <1>1, <3>1
    <2>4. StateOf(g) = g[C][2]
      BY <2>1 DEF StateOf
    <2> HIDE DEF C
    <2> QED BY <1>1, <2>3, <2>4
  <1>5. x[1] # "state" => StateOf(g) = StateOf(l)
    <2> SUFFICES ASSUME x[1] # "state" PROVE StateOf(g) = StateOf(l)
      OBVIOUS
    <2>1. StatesIn(g) = StatesIn(l) /\ \A i \in StatesIn(l) : g[i] = l[i] /\ i \in 0 .. n
      BY <1>1, <1>2, <1>3 DEF StatesIn
    <2>2. CASE StatesIn(l) = {}
      BY <2>1, <2>2 DEF StateOf
    <2>3. CASE StatesIn(l) # {}
      <3> DEFINE C(l0) == CHOOSE i \in StatesIn(l0) : \A j \in StatesIn(l0) : j <= i
      <3>1. C(g) = C(l)
        BY <2>1
      <3>2. C(l) \in StatesIn(l)
        <4>1. StatesIn(l) \in SUBSET (0 .. n)
          BY <2>1
        <4>2. \E i \in StatesIn(l) : \A j \in StatesIn(l) : j <= i
          BY <1>1, <2>3, <4>1, GreatestNumber
        <4> QED BY <4>2
      <3>3. StateOf(g) = g[C(g)][2] /\ StateOf(l) = l[C(l)][2]
        BY <2>1, <2>3 DEF StateOf
      <3> HIDE DEF C
      <3> QED BY <2>1, <3>1, <3>2, <3>3
    <2> QED BY <2>2, <2>3
  <1>6. ASSUME NEW kind, x[1] = kind PROVE KindIn(g, kind) = KindIn(l, kind) \cup {x[2]}
    BY <1>1, <1>2, <1>3, <1>6 DEF KindIn
  <1>7. ASSUME NEW kind, x[1] # kind PROVE KindIn(g, kind) = KindIn(l, kind)
    BY <1>1, <1>2, <1>3, <1>7 DEF KindIn
  <1> QED BY <1>1, <1>4, <1>5, <1>6, <1>7

\* The entries of each kind there are.
LEMMA EntryKinds ==
  /\ \A x \in Lives : Transition(x) \in SagaEntries /\ Transition(x)[1] = "state" /\ Transition(x)[2] = x
  /\ \A s \in Nat : /\ Succeeded(s) \in SagaEntries /\ Succeeded(s)[1] = "step_succeeded"
                    /\ Succeeded(s)[2] = s
                    /\ CompensatedStep(s) \in SagaEntries /\ CompensatedStep(s)[1] = "compensated_step"
                    /\ CompensatedStep(s)[2] = s
  BY DEF Transition, Succeeded, CompensatedStep, SagaEntries

\* A log that replays to st is left one that replays to the state, with the same steps.
Agrees(l, st) == l \in Seq(SagaEntries) /\ st \in Lives /\ StateOf(l) = st

\* A transition is the last one, whatever the log said before.
LEMMA TransitionAdded ==
  ASSUME NEW l \in Seq(SagaEntries), NEW to \in Lives, NEW g, g = Append(l, Transition(to))
  PROVE  /\ Agrees(g, to)
         /\ \A kind \in {"step_succeeded", "compensated_step"} : KindIn(g, kind) = KindIn(l, kind)
  <1>1. PICK x \in SagaEntries : x = Transition(to) /\ x[1] = "state" /\ x[2] = to
    BY EntryKinds
  <1>2. Added(l, x, g)
    BY <1>1 DEF Added
  <1>3. g \in Seq(SagaEntries) /\ StateOf(g) = to
    BY <1>1, <1>2, EntryAdded
  <1>4. \A kind \in {"step_succeeded", "compensated_step"} : KindIn(g, kind) = KindIn(l, kind)
    BY <1>1, <1>2, EntryAdded
  <1> QED BY <1>3, <1>4 DEF Agrees

\* Replay agrees with a saga whose log does not change.
LEMMA ReplayUnchanged ==
  ASSUME NEW r \in Runs, NEW st, NEW l, Agrees(l, st), NEW n,
         Proceed(r, st, l, n) \/ Reaches(r, st, l, "compensated") \/ Reaches(r, st, l, "failed")
           \/ Compensate(r, st, l, n)
  PROVE  /\ Agrees(log', life')
         /\ \A kind \in {"step_succeeded", "compensated_step"} : KindIn(log', kind) = KindIn(l, kind)
  <1>1. \/ life' = st /\ log' = l
        \/ \E to \in Lives : life' = to /\ log' = Append(l, Transition(to))
    BY DEF Proceed, Reaches, Compensate, Lives
  <1>2. CASE life' = st /\ log' = l
    BY <1>2
  <1>3. ASSUME NEW to \in Lives, life' = to, log' = Append(l, Transition(to))
        PROVE  /\ Agrees(log', life')
               /\ \A kind \in {"step_succeeded", "compensated_step"} : KindIn(log', kind) = KindIn(l, kind)
    <2> DEFINE g == log'
    <2>1. l \in Seq(SagaEntries) /\ g = Append(l, Transition(to))
      BY <1>3 DEF Agrees
    <2> HIDE DEF g
    <2>2. /\ Agrees(g, to)
          /\ \A kind \in {"step_succeeded", "compensated_step"} : KindIn(g, kind) = KindIn(l, kind)
      BY <2>1, TransitionAdded
    <2> QED BY <1>3, <2>2 DEF g
  <1> QED BY <1>1, <1>2, <1>3

\* The next step to undo is the last one there is.
LEMMA NextUndoProperties ==
  ASSUME NEW n \in Nat
  PROVE  /\ NextUndo(n) \in 0 .. n
         /\ NextUndo(n) # 0 => completedSteps[NextUndo(n)] \in saga.undoable
         /\ \A i \in 1 .. n : completedSteps[i] \in saga.undoable => i <= NextUndo(n)
  <1> DEFINE U == {i \in 1 .. n : completedSteps[i] \in saga.undoable}
             P(i) == \A j \in U : j <= i
  <1>1. \E i \in U \cup {0} : P(i)
    <2>1. CASE U = {}
      BY <2>1
    <2>2. CASE U # {}
      <3>1. U \in SUBSET (0 .. n)
        OBVIOUS
      <3> HIDE DEF U
      <3> QED BY <2>2, <3>1, GreatestNumber
    <2> QED BY <2>1, <2>2
  <1>2. NextUndo(n) = CHOOSE i \in U \cup {0} : P(i)
    BY DEF NextUndo
  <1>3. NextUndo(n) \in U \cup {0} /\ P(NextUndo(n))
    <2> HIDE DEF U, P
    <2> QED BY <1>1, <1>2
  <1> QED BY <1>3

\* What a state of the invariant is made of.
LEMMA SagaFacts ==
  ASSUME SagaIInv
  PROVE  /\ saga.steps \in 0 .. MaxSteps /\ saga.steps \in Nat /\ MaxSteps \in Nat
         /\ saga.retries \in Nat
         /\ saga.undoable \subseteq 1 .. saga.steps
         /\ life \in Lives /\ Agrees(log, life)
         /\ completedSteps \in Seq(1 .. saga.steps) /\ Len(completedSteps) \in Nat
         /\ \A i \in 1 .. Len(completedSteps) : completedSteps[i] \in 1 .. saga.steps
         /\ CompletedSet = {completedSteps[i] : i \in 1 .. Len(completedSteps)}
         /\ undone \in [1 .. MaxSteps -> Nat] /\ DOMAIN undone = 1 .. MaxSteps
         /\ KindIn(log, "step_succeeded") = CompletedSet
         /\ KindIn(log, "compensated_step") = {s \in 1 .. MaxSteps : undone[s] > 0}
         /\ \A r \in Runs : runs[r].step \in Nat /\ runs[r].attempt \in Nat /\ runs[r].at \in Points
  <1>1. SagaTyped /\ ReplayAgrees /\ MaxSteps \in Nat /\ MaxRetries \in Nat
    BY SagaAssumption DEF SagaIInv
  <1>2. /\ saga.steps \in 0 .. MaxSteps /\ saga.steps \in Nat /\ saga.retries \in Nat
        /\ saga.undoable \subseteq 1 .. saga.steps
        /\ life \in Lives /\ log \in Seq(SagaEntries) /\ completedSteps \in Seq(1 .. saga.steps)
        /\ undone \in [1 .. MaxSteps -> Nat] /\ DOMAIN undone = 1 .. MaxSteps
    BY <1>1 DEF SagaTyped, Sagas
  <1>3. \A r \in Runs : runs[r].step \in Nat /\ runs[r].attempt \in Nat /\ runs[r].at \in Points
    BY <1>1 DEF SagaTyped
  <1>4. StateOf(log) = life
    BY <1>1 DEF ReplayAgrees, ReplayedState, StateOf, StatesIn
  <1>5. /\ KindIn(log, "step_succeeded") = CompletedSet
        /\ KindIn(log, "compensated_step") = {s \in 1 .. MaxSteps : undone[s] > 0}
    BY <1>1, <1>2 DEF ReplayAgrees, Replayed, KindIn
  <1>6. /\ Len(completedSteps) \in Nat /\ DOMAIN completedSteps = 1 .. Len(completedSteps)
        /\ \A i \in 1 .. Len(completedSteps) : completedSteps[i] \in 1 .. saga.steps
    BY <1>2, LenProperties, ElementOfSeq
  <1> QED BY <1>1, <1>2, <1>3, <1>4, <1>5, <1>6 DEF Agrees, CompletedSet

\* Only the run r moves; the steps done and undone are those of the log.
LEMMA RunMoves ==
  ASSUME SagaIInv, saga' = saga, NEW r \in Runs,
         NEW at \in Points \ {"off"}, NEW step \in Nat, NEW attempt \in Nat,
         Stands(r, at, step, attempt),
         Agrees(log', life'),
         completedSteps' \in Seq(1 .. saga.steps), undone' \in [1 .. MaxSteps -> Nat],
         KindIn(log', "step_succeeded") = CompletedSet',
         KindIn(log', "compensated_step") = {s \in 1 .. MaxSteps : undone'[s] > 0},
         Len(completedSteps) <= Len(completedSteps'), CompletedSet \subseteq CompletedSet',
         at \in {"acting", "backoff"} =>
           /\ step \in 1 .. saga.steps
           /\ \A s \in 1 .. saga.steps : s < step => s \in CompletedSet',
         at = "undoing" => step \in 1 .. Len(completedSteps'),
         life' = "completed" => \A s \in 1 .. saga.steps : s \in CompletedSet',
         (\A q \in Runs : q # r => runs[q].at = "off") => Course(r)'
  PROVE  SagaIInv'
  <1> DEFINE p == [at |-> at, step |-> step, attempt |-> attempt]
  <1>1. runs \in [Runs -> [at : Points, step : Nat, attempt : Nat]] /\ IsFiniteSet(Begun)
    BY DEF SagaIInv, SagaTyped
  <1>2. /\ runs' \in [Runs -> [at : Points, step : Nat, attempt : Nat]]
        /\ runs'[r].at = at /\ runs'[r].step = step
        /\ \A q \in Runs : q # r => runs'[q] = runs[q]
    <2>1. p \in [at : Points, step : Nat, attempt : Nat] /\ p.at = at /\ p.step = step
      OBVIOUS
    <2>2. runs' = [runs EXCEPT ![r] = p]
      BY DEF Stands
    <2> HIDE DEF p
    <2> QED BY <1>1, <2>1, <2>2
  <1>3. IsFiniteSet(Begun')
    <2>1. Begun' \subseteq Begun \cup {r}
      BY <1>2 DEF Begun
    <2>2. IsFiniteSet(Begun \cup {r})
      BY <1>1, FS_AddElement
    <2> QED BY <2>1, <2>2, FS_Subset
  <1>4. SagaTyped'
    BY <1>2, <1>3 DEF SagaTyped, SagaIInv, Agrees
  <1>5. ReplayAgrees'
    <2>1. StateOf(log)' = life' /\ DOMAIN undone' = 1 .. MaxSteps
      BY DEF Agrees, StateOf, StatesIn
    <2> QED BY <2>1 DEF ReplayAgrees, ReplayedState, Replayed, StateOf, StatesIn, KindIn, Agrees
  <1>6. Standing'
    <2> SUFFICES ASSUME NEW q \in Runs
                 PROVE  /\ runs'[q].at \in {"acting", "backoff"} =>
                             /\ runs'[q].step \in 1 .. saga'.steps
                             /\ \A s \in 1 .. saga'.steps : s < runs'[q].step => s \in CompletedSet'
                        /\ runs'[q].at = "undoing" => runs'[q].step \in 1 .. Len(completedSteps')
      BY DEF Standing
    <2>1. CASE q = r
      BY <1>2, <2>1
    <2>2. CASE q # r
      <3>1. /\ runs[q].at \in {"acting", "backoff"} =>
                 /\ runs[q].step \in 1 .. saga.steps
                 /\ \A s \in 1 .. saga.steps : s < runs[q].step => s \in CompletedSet
            /\ runs[q].at = "undoing" => runs[q].step \in 1 .. Len(completedSteps)
        BY DEF SagaIInv, Standing
      <3>2. Len(completedSteps) \in Nat /\ Len(completedSteps') \in Nat
        BY SagaFacts, LenProperties
      <3>3. 1 .. Len(completedSteps) \subseteq 1 .. Len(completedSteps')
        BY <3>2
      <3> QED BY <1>2, <2>2, <3>1, <3>3
    <2> QED BY <2>1, <2>2
  <1>7. AllDone'
    BY DEF AllDone
  <1>8. Untouched'
    BY <1>2 DEF Untouched
  <1>9. ASSUME NEW q \in Runs, Sole(q)' PROVE Course(q)'
    <2>1. q = r
      BY <1>2, <1>9 DEF Sole
    <2>2. \A z \in Runs : z # r => runs[z].at = "off"
      BY <1>2, <1>9, <2>1 DEF Sole
    <2> QED BY <2>1, <2>2
  <1> QED BY <1>4, <1>5, <1>6, <1>7, <1>8, <1>9 DEF SagaIInv

\* Nothing is begun in the beginning.
LEMMA SagaStarts == SagaInit => SagaIInv
  <1> SUFFICES ASSUME SagaInit PROVE SagaIInv
    OBVIOUS
  <1>1. /\ life = "started" /\ \A r \in Runs : runs[r].at = "off"
        /\ \A s \in 1 .. MaxSteps : undone[s] = 0
        /\ undone \in [1 .. MaxSteps -> Nat] /\ DOMAIN undone = 1 .. MaxSteps
        /\ runs \in [Runs -> [at : Points, step : Nat, attempt : Nat]]
        /\ saga \in Sagas /\ saga.undoable \subseteq 1 .. saga.steps
    BY DEF SagaInit, Points
  <1>2. /\ completedSteps \in Seq(1 .. saga.steps) /\ Len(completedSteps) = 0
        /\ log \in Seq(SagaEntries) /\ DOMAIN log = {} /\ DOMAIN completedSteps = {}
    BY EmptySeq DEF SagaInit
  <1>3. Begun = {} /\ IsFiniteSet(Begun)
    BY <1>1, FS_EmptySet DEF Begun
  <1>4. SagaTyped
    BY <1>1, <1>2, <1>3 DEF SagaTyped, Lives
  <1>5. ReplayAgrees
    BY <1>1, <1>2 DEF ReplayAgrees, ReplayedState, Replayed, CompletedSet
  <1>6. Standing /\ AllDone /\ Untouched /\ \A r \in Runs : ~Sole(r)
    BY <1>1, <1>2 DEF Standing, AllDone, Untouched, Sole
  <1> QED BY <1>4, <1>5, <1>6 DEF SagaIInv

\* Beginning a run (run) keeps the invariant.
LEMMA SagaRunKeeps ==
  ASSUME SagaIInv, NEW r \in Runs, SagaRun(r)
  PROVE  SagaIInv'
  <1> DEFINE st == IF life = "started" THEN "running" ELSE life
             l == IF life = "started" THEN Append(log, Transition("running")) ELSE log
  <1>1. /\ Proceed(r, st, l, 0) /\ runs[r].at = "off"
        /\ saga' = saga /\ completedSteps' = completedSteps /\ undone' = undone
    BY DEF SagaRun
  <1>2. /\ Agrees(l, st)
        /\ \A kind \in {"step_succeeded", "compensated_step"} : KindIn(l, kind) = KindIn(log, kind)
    <2>1. CASE life = "started"
      <3>1. st = "running" /\ l = Append(log, Transition("running")) /\ "running" \in Lives
        BY <2>1 DEF Lives
      <3>2. log \in Seq(SagaEntries)
        BY SagaFacts DEF Agrees
      <3> HIDE DEF l, st
      <3> QED BY <3>1, <3>2, TransitionAdded
    <2>2. CASE life # "started"
      BY <2>2, SagaFacts
    <2> QED BY <2>1, <2>2
  <1>3. (\A q \in Runs : q # r => runs[q].at = "off") =>
          /\ st = "running" /\ Len(completedSteps) = 0
          /\ \A s \in 1 .. MaxSteps : undone[s] = 0
    BY <1>1 DEF SagaIInv, Untouched
  <1>4. st = "completed" => life = "completed"
    OBVIOUS
  <1> HIDE DEF st, l
  <1>5. /\ Agrees(log', life')
        /\ KindIn(log', "step_succeeded") = KindIn(l, "step_succeeded")
        /\ KindIn(log', "compensated_step") = KindIn(l, "compensated_step")
    BY <1>1, <1>2, ReplayUnchanged
  <1>6. /\ completedSteps' \in Seq(1 .. saga.steps) /\ undone' \in [1 .. MaxSteps -> Nat]
        /\ CompletedSet' = CompletedSet
        /\ KindIn(log', "step_succeeded") = CompletedSet'
        /\ KindIn(log', "compensated_step") = {s \in 1 .. MaxSteps : undone'[s] > 0}
        /\ Len(completedSteps) <= Len(completedSteps') /\ CompletedSet \subseteq CompletedSet'
    BY <1>1, <1>2, <1>5, SagaFacts DEF CompletedSet
  <1>7. life = "completed" => \A s \in 1 .. saga.steps : s \in CompletedSet'
    BY <1>6 DEF SagaIInv, AllDone
  <1>8. CASE st = "running" /\ 0 < saga.steps /\ life' = st /\ Stands(r, "acting", 1, 0)
    <2>1. 1 \in 1 .. saga.steps /\ \A s \in 1 .. saga.steps : ~(s < 1)
      BY <1>8, SagaFacts
    <2>2. (\A q \in Runs : q # r => runs[q].at = "off") => Course(r)'
      <3> SUFFICES ASSUME \A q \in Runs : q # r => runs[q].at = "off" PROVE Course(r)'
        OBVIOUS
      <3>1. runs'[r].at = "acting" /\ runs'[r].step = 1
        BY <1>8 DEF Stands, SagaIInv, SagaTyped
      <3> QED BY <1>1, <1>3, <1>8, <3>1 DEF Course
    <2>3. "acting" \in Points \ {"off"} /\ 1 \in Nat /\ 0 \in Nat
      BY DEF Points
    <2> QED BY <1>1, <1>5, <1>6, <1>8, <2>1, <2>2, <2>3, RunMoves
  <1>9. CASE st = "running" /\ 0 = saga.steps /\ life' = "completed" /\ Stands(r, "done", 0, 0)
    <2>1. \A s \in 1 .. saga.steps : FALSE
      BY <1>9
    <2>2. (\A q \in Runs : q # r => runs[q].at = "off") => Course(r)'
      <3> SUFFICES ASSUME \A q \in Runs : q # r => runs[q].at = "off" PROVE Course(r)'
        OBVIOUS
      <3>1. runs'[r].at = "done"
        BY <1>9 DEF Stands, SagaIInv, SagaTyped
      <3>2. \A i \in 1 .. Len(completedSteps') : FALSE
        BY <1>1, <1>3
      <3>3. \A s \in 1 .. MaxSteps : undone'[s] = 0
        BY <1>1, <1>3
      <3> QED BY <1>9, <3>1, <3>2, <3>3 DEF Course
    <2>3. "done" \in Points \ {"off"} /\ 0 \in Nat
      BY DEF Points
    <2> QED BY <1>1, <1>5, <1>6, <1>9, <2>1, <2>2, <2>3, RunMoves
  <1>10. CASE st # "running" /\ life' = st /\ Stands(r, "done", 0, 0)
    <2>1. "done" \in Points \ {"off"} /\ 0 \in Nat
      BY DEF Points
    <2> QED BY <1>1, <1>3, <1>4, <1>5, <1>6, <1>7, <1>10, <2>1, RunMoves
  <1> QED BY <1>1, <1>8, <1>9, <1>10 DEF Proceed

\* The success of a step keeps the invariant: the next one is due, or all are done.
LEMMA StepSucceedsKeeps ==
  ASSUME SagaIInv, NEW r \in Runs, StepSucceeds(r)
  PROVE  SagaIInv'
  <1> DEFINE s == runs[r].step
             l == Append(log, Succeeded(s))
             c == Append(completedSteps, s)
  <1>1. /\ runs[r].at = "acting" /\ Proceed(r, life, l, s)
        /\ completedSteps' = c /\ saga' = saga /\ undone' = undone
    BY DEF StepSucceeds
  <1>2. /\ s \in 1 .. saga.steps
        /\ \A t \in 1 .. saga.steps : t < s => t \in CompletedSet
    BY <1>1 DEF SagaIInv, Standing
  <1>3. s \in Nat /\ s <= saga.steps
    BY <1>2, SagaFacts
  <1>4. /\ Agrees(l, life)
        /\ KindIn(l, "step_succeeded") = CompletedSet \cup {s}
        /\ KindIn(l, "compensated_step") = {t \in 1 .. MaxSteps : undone[t] > 0}
    <2>1. PICK x \in SagaEntries : x = Succeeded(s) /\ x[1] = "step_succeeded" /\ x[2] = s
      BY <1>3, EntryKinds
    <2>2. Added(log, x, l) /\ log \in Seq(SagaEntries) /\ StateOf(log) = life /\ life \in Lives
      BY <2>1, SagaFacts DEF Added, Agrees
    <2> HIDE DEF l, s
    <2>3. l \in Seq(SagaEntries) /\ StateOf(l) = life
      BY <2>1, <2>2, EntryAdded
    <2>4. /\ KindIn(l, "step_succeeded") = KindIn(log, "step_succeeded") \cup {s}
          /\ KindIn(l, "compensated_step") = KindIn(log, "compensated_step")
      BY <2>1, <2>2, EntryAdded
    <2> QED BY <2>2, <2>3, <2>4, SagaFacts DEF Agrees
  <1> HIDE DEF l
  <1>5. /\ Agrees(log', life')
        /\ KindIn(log', "step_succeeded") = CompletedSet \cup {s}
        /\ KindIn(log', "compensated_step") = {t \in 1 .. MaxSteps : undone[t] > 0}
    BY <1>1, <1>4, ReplayUnchanged
  <1>6. /\ c \in Seq(1 .. saga.steps) /\ Len(c) = Len(completedSteps) + 1
        /\ c[Len(completedSteps) + 1] = s
        /\ \A i \in 1 .. Len(completedSteps) : c[i] = completedSteps[i]
    BY <1>2, SagaFacts, AppendProperties
  <1> HIDE DEF s, c
  <1>7. CompletedSet' = CompletedSet \cup {s}
    <2>1. CompletedSet' = {c[i] : i \in 1 .. Len(c)}
      BY <1>1, <1>6, LenProperties DEF CompletedSet
    <2>2. Len(completedSteps) + 1 \in 1 .. Len(c)
          /\ \A i \in 1 .. Len(completedSteps) : i \in 1 .. Len(c)
      BY <1>6, SagaFacts
    <2>3. \A i \in 1 .. Len(c) : i = Len(completedSteps) + 1 \/ i \in 1 .. Len(completedSteps)
      BY <1>6, SagaFacts
    <2> QED BY <1>6, <2>1, <2>2, <2>3, SagaFacts
  <1>8. /\ completedSteps' \in Seq(1 .. saga.steps) /\ undone' \in [1 .. MaxSteps -> Nat]
        /\ KindIn(log', "step_succeeded") = CompletedSet'
        /\ KindIn(log', "compensated_step") = {t \in 1 .. MaxSteps : undone'[t] > 0}
        /\ Len(completedSteps) <= Len(completedSteps') /\ CompletedSet \subseteq CompletedSet'
    BY <1>1, <1>5, <1>6, <1>7, SagaFacts
  <1>9. \A t \in 1 .. saga.steps : t <= s => t \in CompletedSet'
    BY <1>2, <1>3, <1>7
  <1>10. (\A q \in Runs : q # r => runs[q].at = "off") =>
           /\ life = "running" /\ s = Len(completedSteps) + 1
           /\ \A i \in 1 .. Len(completedSteps') : completedSteps'[i] = i
           /\ \A t \in 1 .. MaxSteps : undone'[t] = 0
    <2> SUFFICES ASSUME \A q \in Runs : q # r => runs[q].at = "off"
                 PROVE  /\ life = "running" /\ s = Len(completedSteps) + 1
                        /\ \A i \in 1 .. Len(completedSteps') : completedSteps'[i] = i
                        /\ \A t \in 1 .. MaxSteps : undone'[t] = 0
      OBVIOUS
    <2>1. Course(r)
      BY <1>1 DEF Sole, SagaIInv
    <2>2. /\ life = "running" /\ s = Len(completedSteps) + 1
          /\ \A t \in 1 .. MaxSteps : undone[t] = 0
          /\ \A i \in 1 .. Len(completedSteps) : completedSteps[i] = i
      BY <1>1, <2>1 DEF Course, s
    <2>3. \A i \in 1 .. Len(c) : i = Len(completedSteps) + 1 \/ i \in 1 .. Len(completedSteps)
      BY <1>6, SagaFacts
    <2> QED BY <1>1, <1>6, <2>2, <2>3
  <1>11. CASE life = "running" /\ s < saga.steps /\ life' = life /\ Stands(r, "acting", s + 1, 0)
    <2>1. s + 1 \in 1 .. saga.steps /\ s + 1 \in Nat
          /\ \A t \in 1 .. saga.steps : t < s + 1 => t \in CompletedSet'
      BY <1>3, <1>9, <1>11, SagaFacts
    <2>2. (\A q \in Runs : q # r => runs[q].at = "off") => Course(r)'
      <3> SUFFICES ASSUME \A q \in Runs : q # r => runs[q].at = "off" PROVE Course(r)'
        OBVIOUS
      <3>1. runs'[r].at = "acting" /\ runs'[r].step = s + 1
        BY <1>11 DEF Stands, SagaIInv, SagaTyped
      <3>2. s + 1 = Len(completedSteps') + 1
        BY <1>1, <1>6, <1>10
      <3> QED BY <1>10, <1>11, <3>1, <3>2 DEF Course
    <2>3. "acting" \in Points \ {"off"} /\ 0 \in Nat
      BY DEF Points
    <2> QED BY <1>1, <1>5, <1>8, <1>11, <2>1, <2>2, <2>3, RunMoves
  <1>12. CASE life = "running" /\ s = saga.steps /\ life' = "completed" /\ Stands(r, "done", 0, 0)
    <2>1. \A t \in 1 .. saga.steps : t \in CompletedSet'
      BY <1>3, <1>9, <1>12, SagaFacts
    <2>2. (\A q \in Runs : q # r => runs[q].at = "off") => Course(r)'
      <3>1. runs'[r].at = "done"
        BY <1>12 DEF Stands, SagaIInv, SagaTyped
      <3> QED BY <1>10, <1>12, <3>1 DEF Course
    <2>3. "done" \in Points \ {"off"} /\ 0 \in Nat
      BY DEF Points
    <2> QED BY <1>1, <1>5, <1>8, <1>12, <2>1, <2>2, <2>3, RunMoves
  <1>13. CASE life # "running" /\ life' = life /\ Stands(r, "done", 0, 0)
    <2>1. "done" \in Points \ {"off"} /\ 0 \in Nat
      BY DEF Points
    <2>2. life' = "completed" => \A t \in 1 .. saga.steps : t \in CompletedSet'
      BY <1>8, <1>13 DEF SagaIInv, AllDone
    <2> QED BY <1>1, <1>5, <1>8, <1>10, <1>13, <2>1, <2>2, RunMoves
  <1> QED BY <1>1, <1>11, <1>12, <1>13 DEF Proceed

\* compensate goes on to the next step to undo, or comes to its end.
LEMMA CompensateKeeps ==
  ASSUME SagaIInv, saga' = saga, completedSteps' = completedSteps, undone' \in [1 .. MaxSteps -> Nat],
         NEW r \in Runs, NEW st, NEW l, Agrees(l, st), NEW n \in Nat, n <= Len(completedSteps),
         Compensate(r, st, l, n),
         KindIn(l, "step_succeeded") = CompletedSet,
         KindIn(l, "compensated_step") = {s \in 1 .. MaxSteps : undone'[s] > 0},
         st = "completed" => life = "completed",
         (\A q \in Runs : q # r => runs[q].at = "off") =>
           /\ st = "compensating"
           /\ \A i \in 1 .. Len(completedSteps) : completedSteps[i] = i
           /\ \A s \in 1 .. MaxSteps :
                undone'[s] = IF s \in saga.undoable /\ n < s /\ s <= Len(completedSteps) THEN 1 ELSE 0
  PROVE  SagaIInv'
  <1> DEFINE m == NextUndo(n)
  <1>1. /\ m \in 0 .. n /\ m \in Nat
        /\ \A i \in 1 .. n : completedSteps[i] \in saga.undoable => i <= m
        /\ m # 0 => completedSteps[m] \in saga.undoable
    BY NextUndoProperties
  <1>2. \/ m = 0 /\ st \in {"compensating", "compensated"} /\ life' = "compensated"
           /\ Stands(r, "done", 0, 0)
        \/ m = 0 /\ st \notin {"compensating", "compensated"} /\ life' = st
           /\ Stands(r, "threw", 0, 0)
        \/ m # 0 /\ life' = st /\ Stands(r, "undoing", m, 0)
    BY DEF Compensate, Reaches
  <1> HIDE DEF m
  <1>3. /\ Agrees(log', life')
        /\ KindIn(log', "step_succeeded") = KindIn(l, "step_succeeded")
        /\ KindIn(log', "compensated_step") = KindIn(l, "compensated_step")
    BY ReplayUnchanged
  <1>4. /\ completedSteps' \in Seq(1 .. saga.steps) /\ CompletedSet' = CompletedSet
        /\ KindIn(log', "step_succeeded") = CompletedSet'
        /\ KindIn(log', "compensated_step") = {s \in 1 .. MaxSteps : undone'[s] > 0}
        /\ Len(completedSteps) <= Len(completedSteps') /\ CompletedSet \subseteq CompletedSet'
    BY <1>3, SagaFacts DEF CompletedSet
  <1>5. life' = "completed" => \A s \in 1 .. saga.steps : s \in CompletedSet'
    BY <1>2, <1>4 DEF SagaIInv, AllDone
  <1>6. ASSUME \A q \in Runs : q # r => runs[q].at = "off"
        PROVE  /\ st = "compensating"
               /\ \A i \in 1 .. Len(completedSteps) : completedSteps[i] = i
               /\ \A s \in 1 .. MaxSteps :
                    undone'[s] = IF s \in saga.undoable /\ m < s /\ s <= Len(completedSteps) THEN 1 ELSE 0
    <2>1. /\ st = "compensating"
          /\ \A i \in 1 .. Len(completedSteps) : completedSteps[i] = i
          /\ \A s \in 1 .. MaxSteps :
               undone'[s] = IF s \in saga.undoable /\ n < s /\ s <= Len(completedSteps) THEN 1 ELSE 0
      BY <1>6
    <2>2. ASSUME NEW s \in 1 .. MaxSteps, s \in saga.undoable, s <= Len(completedSteps)
          PROVE  n < s <=> m < s
      <3>1. CASE s <= n
        <4>1. s \in 1 .. n /\ s \in 1 .. Len(completedSteps)
          BY <2>2, <3>1, SagaFacts
        <4>2. s <= m
          BY <1>1, <2>1, <2>2, <4>1
        <4> QED BY <1>1, <4>1, <4>2
      <3>2. CASE n < s
        BY <1>1, <3>2
      <3> QED BY <3>1, <3>2, SagaFacts
    <2> QED BY <2>1, <2>2
  <1>7. runs'[r].at \in {"done", "threw", "undoing"} /\ (runs'[r].at = "undoing" => runs'[r].step = m)
        /\ (runs'[r].at = "undoing" => m # 0)
        /\ (runs'[r].at = "done" => m = 0 /\ life' = "compensated")
        /\ (runs'[r].at = "threw" => st # "compensating")
        /\ (runs'[r].at = "undoing" => life' = st)
    BY <1>2 DEF Stands, SagaIInv, SagaTyped
  <1>8. (\A q \in Runs : q # r => runs[q].at = "off") => Course(r)'
    <2> SUFFICES ASSUME \A q \in Runs : q # r => runs[q].at = "off" PROVE Course(r)'
      OBVIOUS
    <2>1. /\ st = "compensating"
          /\ \A i \in 1 .. Len(completedSteps) : completedSteps[i] = i
          /\ \A s \in 1 .. MaxSteps :
               undone'[s] = IF s \in saga.undoable /\ m < s /\ s <= Len(completedSteps) THEN 1 ELSE 0
      BY <1>6
    <2>3. m = 0 => UndoneDownTo(0)'
      BY <2>1 DEF UndoneDownTo
    <2>4. runs'[r].at = "undoing" => UndoneDownTo(runs[r].step)' /\ m \in saga.undoable
      <3>1. m # 0 => m \in 1 .. Len(completedSteps)
        BY <1>1, SagaFacts
      <3> QED BY <1>1, <1>2, <1>7, <2>1, <3>1 DEF UndoneDownTo
    <2> QED BY <1>7, <2>1, <2>3, <2>4 DEF Course
  <1>9. {"done", "threw", "undoing"} \subseteq Points \ {"off"} /\ 0 \in Nat
    BY DEF Points
  <1>10. CASE m # 0 /\ life' = st /\ Stands(r, "undoing", m, 0)
    <2>1. m \in 1 .. Len(completedSteps')
      BY <1>1, <1>10, SagaFacts
    <2> QED BY <1>1, <1>3, <1>4, <1>5, <1>8, <1>9, <1>10, <2>1, RunMoves
  <1>11. CASE \E at \in {"done", "threw"} : Stands(r, at, 0, 0)
    <2>1. PICK at \in {"done", "threw"} : Stands(r, at, 0, 0)
      BY <1>11
    <2>2. at \in Points \ {"off"} /\ at \notin {"acting", "backoff", "undoing"}
      BY <1>9
    <2> QED BY <1>3, <1>4, <1>5, <1>8, <1>9, <2>1, <2>2, RunMoves
  <1> QED BY <1>2, <1>10, <1>11

\* The failure of a step keeps it: another attempt is due, or the undoing begins.
LEMMA StepFailsKeeps ==
  ASSUME SagaIInv, NEW r \in Runs, StepFails(r)
  PROVE  SagaIInv'
  <1> DEFINE st == IF life = "running" THEN "compensating" ELSE life
             l == IF life = "running" THEN Append(log, Transition("compensating")) ELSE log
  <1>1. /\ runs[r].at = "acting" /\ saga' = saga /\ completedSteps' = completedSteps /\ undone' = undone
        /\ \/ Compensate(r, st, l, Len(completedSteps))
           \/ /\ Stands(r, "backoff", runs[r].step, runs[r].attempt + 1)
              /\ life' = life /\ log' = log
    BY DEF StepFails
  <1>2. (\A q \in Runs : q # r => runs[q].at = "off") => Course(r)
    BY <1>1 DEF Sole, SagaIInv
  <1>3. undone' \in [1 .. MaxSteps -> Nat] /\ CompletedSet' = CompletedSet
    BY <1>1, SagaFacts DEF CompletedSet
  <1>4. CASE /\ Stands(r, "backoff", runs[r].step, runs[r].attempt + 1)
             /\ life' = life /\ log' = log
    <2> DEFINE s == runs[r].step
               a == runs[r].attempt + 1
    <2>1. /\ s \in Nat /\ a \in Nat /\ Stands(r, "backoff", s, a)
          /\ s \in 1 .. saga.steps /\ \A t \in 1 .. saga.steps : t < s => t \in CompletedSet'
      BY <1>1, <1>3, <1>4, SagaFacts DEF SagaIInv, Standing
    <2>2. runs'[r].at = "backoff" /\ runs'[r].step = s
      BY <1>4 DEF Stands, SagaIInv, SagaTyped
    <2>3. (\A q \in Runs : q # r => runs[q].at = "off") => Course(r)'
      BY <1>1, <1>2, <1>4, <2>2 DEF Course
    <2>4. "backoff" \in Points \ {"off"}
      BY DEF Points
    <2> HIDE DEF s, a
    <2>5. /\ Agrees(log', life') /\ completedSteps' \in Seq(1 .. saga.steps)
          /\ KindIn(log', "step_succeeded") = CompletedSet'
          /\ KindIn(log', "compensated_step") = {t \in 1 .. MaxSteps : undone'[t] > 0}
          /\ Len(completedSteps) <= Len(completedSteps') /\ CompletedSet \subseteq CompletedSet'
      BY <1>1, <1>3, <1>4, SagaFacts
    <2>6. life' = "completed" => \A t \in 1 .. saga.steps : t \in CompletedSet'
      BY <1>3, <1>4 DEF SagaIInv, AllDone
    <2> QED BY <1>1, <1>3, <2>1, <2>3, <2>4, <2>5, <2>6, RunMoves
  <1>5. CASE Compensate(r, st, l, Len(completedSteps))
    <2>1. /\ Agrees(l, st)
          /\ \A kind \in {"step_succeeded", "compensated_step"} : KindIn(l, kind) = KindIn(log, kind)
      <3>1. CASE life = "running"
        <4>1. st = "compensating" /\ l = Append(log, Transition("compensating")) /\ "compensating" \in Lives
          BY <3>1 DEF Lives
        <4>2. log \in Seq(SagaEntries)
          BY SagaFacts DEF Agrees
        <4> HIDE DEF l, st
        <4> QED BY <4>1, <4>2, TransitionAdded
      <3>2. CASE life # "running"
        BY <3>2, SagaFacts
      <3> QED BY <3>1, <3>2
    <2>2. st = "completed" => life = "completed"
      OBVIOUS
    <2>3. ASSUME \A q \in Runs : q # r => runs[q].at = "off"
          PROVE  /\ st = "compensating"
                 /\ \A i \in 1 .. Len(completedSteps) : completedSteps[i] = i
                 /\ \A s \in 1 .. MaxSteps :
                      undone'[s] = IF /\ s \in saga.undoable
                                      /\ Len(completedSteps) < s /\ s <= Len(completedSteps)
                                   THEN 1 ELSE 0
      <3>1. /\ life = "running" /\ \A s \in 1 .. MaxSteps : undone[s] = 0
            /\ \A i \in 1 .. Len(completedSteps) : completedSteps[i] = i
        BY <1>1, <1>2, <2>3 DEF Course
      <3> QED BY <1>1, <3>1, SagaFacts
    <2> HIDE DEF st, l
    <2>4. /\ KindIn(l, "step_succeeded") = CompletedSet
          /\ KindIn(l, "compensated_step") = {s \in 1 .. MaxSteps : undone'[s] > 0}
      BY <1>1, <2>1, SagaFacts
    <2> DEFINE n == Len(completedSteps)
    <2>5. n \in Nat /\ n <= Len(completedSteps) /\ Compensate(r, st, l, n)
      BY <1>5, SagaFacts
    <2>6. (\A q \in Runs : q # r => runs[q].at = "off") =>
           /\ st = "compensating"
           /\ \A i \in 1 .. Len(completedSteps) : completedSteps[i] = i
           /\ \A s \in 1 .. MaxSteps :
                undone'[s] = IF s \in saga.undoable /\ n < s /\ s <= Len(completedSteps) THEN 1 ELSE 0
      BY <2>3
    <2> HIDE DEF n
    <2> QED BY <1>1, <1>3, <2>1, <2>2, <2>4, <2>5, <2>6, CompensateKeeps
  <1> QED BY <1>1, <1>4, <1>5

\* Another attempt after the backoff keeps it.
LEMMA StepRetriedKeeps ==
  ASSUME SagaIInv, NEW r \in Runs, StepRetried(r)
  PROVE  SagaIInv'
  <1> DEFINE s == runs[r].step
             a == runs[r].attempt
  <1>1. /\ runs[r].at = "backoff" /\ saga' = saga /\ completedSteps' = completedSteps /\ undone' = undone
        /\ Stands(r, "acting", s, a) /\ life' = life /\ log' = log
    BY DEF StepRetried
  <1>2. undone' \in [1 .. MaxSteps -> Nat] /\ CompletedSet' = CompletedSet
    BY <1>1, SagaFacts DEF CompletedSet
  <1>3. /\ s \in Nat /\ a \in Nat /\ s \in 1 .. saga.steps
        /\ \A t \in 1 .. saga.steps : t < s => t \in CompletedSet'
    BY <1>1, <1>2, SagaFacts DEF SagaIInv, Standing
  <1>4. runs'[r].at = "acting" /\ runs'[r].step = s
    BY <1>1 DEF Stands, SagaIInv, SagaTyped
  <1>5. (\A q \in Runs : q # r => runs[q].at = "off") => Course(r)
    BY <1>1 DEF Sole, SagaIInv
  <1>6. (\A q \in Runs : q # r => runs[q].at = "off") => Course(r)'
    BY <1>1, <1>4, <1>5 DEF Course
  <1>7. "acting" \in Points \ {"off"}
    BY DEF Points
  <1> HIDE DEF s, a
  <1>8. /\ Agrees(log', life') /\ completedSteps' \in Seq(1 .. saga.steps)
        /\ KindIn(log', "step_succeeded") = CompletedSet'
        /\ KindIn(log', "compensated_step") = {t \in 1 .. MaxSteps : undone'[t] > 0}
        /\ Len(completedSteps) <= Len(completedSteps') /\ CompletedSet \subseteq CompletedSet'
    BY <1>1, <1>2, SagaFacts
  <1>9. life' = "completed" => \A t \in 1 .. saga.steps : t \in CompletedSet'
    BY <1>1, <1>2 DEF SagaIInv, AllDone
  <1> QED BY <1>1, <1>2, <1>3, <1>6, <1>7, <1>8, <1>9, RunMoves

\* Undoing a step keeps it: the one before is next, or nothing is left to undo.
LEMMA UndoSucceedsKeeps ==
  ASSUME SagaIInv, NEW r \in Runs, UndoSucceeds(r)
  PROVE  SagaIInv'
  <1> DEFINE i == runs[r].step
             s == completedSteps[i]
             l == Append(log, CompensatedStep(s))
             n == i - 1
  <1>1. /\ runs[r].at = "undoing" /\ saga' = saga /\ completedSteps' = completedSteps
        /\ undone' = [undone EXCEPT ![s] = @ + 1]
        /\ Compensate(r, life, l, n)
    BY DEF UndoSucceeds
  <1>2. i \in 1 .. Len(completedSteps) /\ s \in 1 .. saga.steps /\ s \in 1 .. MaxSteps /\ s \in Nat
        /\ n \in Nat /\ n <= Len(completedSteps)
    <2>1. Standing
      BY DEF SagaIInv
    <2>2. i \in 1 .. Len(completedSteps)
      BY <1>1, <2>1 DEF Standing
    <2>3. /\ Len(completedSteps) \in Nat /\ saga.steps \in 0 .. MaxSteps /\ MaxSteps \in Nat
          /\ s \in 1 .. saga.steps
      BY <2>2, SagaFacts
    <2> HIDE DEF s, i
    <2>4. i \in Nat /\ i >= 1 /\ i <= Len(completedSteps)
      BY <2>2, <2>3
    <2>5. n \in Nat /\ n <= Len(completedSteps)
      BY <2>3, <2>4
    <2>6. s \in 1 .. MaxSteps /\ s \in Nat
      BY <2>3
    <2> QED BY <2>2, <2>3, <2>5, <2>6
  <1>3. /\ undone' \in [1 .. MaxSteps -> Nat] /\ undone'[s] = undone[s] + 1
        /\ \A t \in 1 .. MaxSteps : t # s => undone'[t] = undone[t]
    <2>1. undone \in [1 .. MaxSteps -> Nat]
      BY SagaFacts
    <2> HIDE DEF s, i, l, n
    <2>2. undone[s] + 1 \in Nat
      BY <1>2, <2>1
    <2> QED BY <1>1, <1>2, <2>1, <2>2
  <1>4. (\A q \in Runs : q # r => runs[q].at = "off") => Course(r)
    BY <1>1 DEF Sole, SagaIInv
  <1>5. /\ Agrees(l, life)
        /\ KindIn(l, "step_succeeded") = CompletedSet
        /\ KindIn(l, "compensated_step") = KindIn(log, "compensated_step") \cup {s}
    <2>1. PICK x \in SagaEntries : x = CompensatedStep(s) /\ x[1] = "compensated_step" /\ x[2] = s
      BY <1>2, EntryKinds
    <2>2. Added(log, x, l) /\ log \in Seq(SagaEntries) /\ StateOf(log) = life /\ life \in Lives
      BY <2>1, SagaFacts DEF Added, Agrees
    <2> HIDE DEF l, s
    <2>3. l \in Seq(SagaEntries) /\ StateOf(l) = life
      BY <2>1, <2>2, EntryAdded
    <2>4. /\ KindIn(l, "compensated_step") = KindIn(log, "compensated_step") \cup {s}
          /\ KindIn(l, "step_succeeded") = KindIn(log, "step_succeeded")
      BY <2>1, <2>2, EntryAdded
    <2> QED BY <2>2, <2>3, <2>4, SagaFacts DEF Agrees
  <1> HIDE DEF l
  <1>6. KindIn(l, "compensated_step") = {t \in 1 .. MaxSteps : undone'[t] > 0}
    <2> HIDE DEF s
    <2>1. undone[s] \in Nat
      BY <1>2, SagaFacts
    <2>2. \A t \in 1 .. MaxSteps : undone'[t] > 0 <=> undone[t] > 0 \/ t = s
      BY <1>2, <1>3, <2>1
    <2>3. KindIn(log, "compensated_step") = {t \in 1 .. MaxSteps : undone[t] > 0}
      BY SagaFacts
    <2> QED BY <1>2, <1>5, <2>2, <2>3
  <1>7. ASSUME \A q \in Runs : q # r => runs[q].at = "off"
        PROVE  /\ life = "compensating"
               /\ \A j \in 1 .. Len(completedSteps) : completedSteps[j] = j
               /\ \A t \in 1 .. MaxSteps :
                    undone'[t] = IF t \in saga.undoable /\ n < t /\ t <= Len(completedSteps) THEN 1 ELSE 0
    <2>1. /\ life = "compensating"
          /\ \A j \in 1 .. Len(completedSteps) : completedSteps[j] = j
          /\ \A t \in 1 .. MaxSteps :
               undone[t] = IF t \in saga.undoable /\ i < t /\ t <= Len(completedSteps) THEN 1 ELSE 0
      BY <1>1, <1>4, <1>7 DEF Course, UndoneDownTo
    <2>2. s = i /\ s \in saga.undoable
      BY <1>1, <1>2, <1>4, <1>7, <2>1 DEF Course
    <2> HIDE DEF s
    <2>3. ASSUME NEW t \in 1 .. MaxSteps
          PROVE  undone'[t] = IF t \in saga.undoable /\ n < t /\ t <= Len(completedSteps) THEN 1 ELSE 0
      <3>1. CASE t = s
        <4>1. undone[s] = 0 /\ n < s /\ s <= Len(completedSteps)
          BY <1>2, <2>1, <2>2, SagaFacts
        <4> QED BY <1>3, <2>2, <3>1, <4>1
      <3>2. CASE t # s
        <4>1. n < t <=> i < t
          BY <1>2, <2>2, <3>2, SagaFacts
        <4> QED BY <1>3, <2>1, <3>2, <4>1
      <3> QED BY <3>1, <3>2
    <2> QED BY <2>1, <2>3
  <1> HIDE DEF n, s, i
  <1> QED BY <1>1, <1>2, <1>3, <1>5, <1>6, <1>7, CompensateKeeps

\* A failed compensation keeps it.
LEMMA UndoFailsKeeps ==
  ASSUME SagaIInv, NEW r \in Runs, UndoFails(r)
  PROVE  SagaIInv'
  <1>1. /\ runs[r].at = "undoing" /\ saga' = saga /\ completedSteps' = completedSteps /\ undone' = undone
        /\ Reaches(r, life, log, "failed")
    BY DEF UndoFails
  <1>2. undone' \in [1 .. MaxSteps -> Nat] /\ CompletedSet' = CompletedSet
    BY <1>1, SagaFacts DEF CompletedSet
  <1>3. (\A q \in Runs : q # r => runs[q].at = "off") => Course(r)
    BY <1>1 DEF Sole, SagaIInv
  <1>4. /\ Agrees(log', life')
        /\ KindIn(log', "step_succeeded") = KindIn(log, "step_succeeded")
        /\ KindIn(log', "compensated_step") = KindIn(log, "compensated_step")
    BY <1>1, SagaFacts, ReplayUnchanged
  <1>5. PICK at \in {"done", "threw"} :
          /\ Stands(r, at, 0, 0)
          /\ at = "done" => life' = "failed"
          /\ at = "threw" => life' = life /\ life # "compensating"
    BY <1>1 DEF Reaches
  <1>6. runs'[r].at = at
    BY <1>5 DEF Stands, SagaIInv, SagaTyped
  <1>7. (\A q \in Runs : q # r => runs[q].at = "off") => Course(r)'
    BY <1>1, <1>3, <1>5, <1>6 DEF Course
  <1>8. at \in Points \ {"off"} /\ 0 \in Nat /\ at \notin {"acting", "backoff", "undoing"}
    BY DEF Points
  <1>9. /\ completedSteps' \in Seq(1 .. saga.steps)
        /\ KindIn(log', "step_succeeded") = CompletedSet'
        /\ KindIn(log', "compensated_step") = {t \in 1 .. MaxSteps : undone'[t] > 0}
        /\ Len(completedSteps) <= Len(completedSteps') /\ CompletedSet \subseteq CompletedSet'
    BY <1>1, <1>2, <1>4, SagaFacts
  <1>10. life' = "completed" => \A t \in 1 .. saga.steps : t \in CompletedSet'
    BY <1>2, <1>5 DEF SagaIInv, AllDone
  <1> QED BY <1>1, <1>2, <1>4, <1>5, <1>7, <1>8, <1>9, <1>10, RunMoves

\* No step of any run breaks the invariant.
LEMMA SagaInductive ==
  ASSUME SagaIInv, [SagaNext]_sagaVars
  PROVE  SagaIInv'
  <1>1. CASE SagaNext
    BY <1>1, SagaRunKeeps, StepSucceedsKeeps, StepFailsKeeps, StepRetriedKeeps,
       UndoSucceedsKeeps, UndoFailsKeeps DEF SagaNext, Continues
  <1>2. CASE UNCHANGED sagaVars
    <2>1. SagaTyped' /\ ReplayAgrees'
      <3>1. /\ Begun' = Begun /\ ReplayedState' = ReplayedState /\ CompletedSet' = CompletedSet
            /\ saga' = saga /\ life' = life /\ completedSteps' = completedSteps /\ log' = log
            /\ runs' = runs /\ undone' = undone
        BY <1>2 DEF sagaVars, Begun, ReplayedState, CompletedSet
      <3>2. \A kind : Replayed(kind)' = Replayed(kind)
        BY <3>1 DEF Replayed
      <3>3. SagaTyped'
        BY <3>1 DEF SagaIInv, SagaTyped
      <3>4. ReplayAgrees'
        BY <3>1, <3>2 DEF SagaIInv, ReplayAgrees, Replayed
      <3> QED BY <3>3, <3>4
    <2>2. Standing' /\ AllDone' /\ Untouched'
      BY <1>2 DEF sagaVars, SagaIInv, Standing, AllDone, Untouched, CompletedSet
    <2>3. \A r \in Runs : Sole(r)' => Course(r)'
      BY <1>2 DEF sagaVars, SagaIInv, Sole, Course, UndoneDownTo
    <2> QED BY <2>1, <2>2, <2>3 DEF SagaIInv
  <1> QED BY <1>1, <1>2

\* With one run at most, the set of those begun tells which.
LEMMA AloneIsSole ==
  ASSUME SagaIInv, Alone, NEW r \in Runs, runs[r].at # "off"
  PROVE  Sole(r)
  <1> SUFFICES ASSUME NEW q \in Runs, q # r, runs[q].at # "off" PROVE FALSE
    BY DEF Sole
  <1>1. IsFiniteSet(Begun) /\ Cardinality(Begun) <= 1
    BY DEF SagaIInv, SagaTyped, Alone, Begun
  <1>2. {q, r} \subseteq Begun /\ IsFiniteSet({q, r}) /\ Cardinality({q, r}) = 2
    <2>1. IsFiniteSet({q}) /\ Cardinality({q}) = 1
      BY FS_Singleton
    <2>2. IsFiniteSet({q} \cup {r}) /\ Cardinality({q} \cup {r}) = 2
      BY <2>1, FS_AddElement
    <2>3. {q} \cup {r} = {q, r}
      OBVIOUS
    <2> QED BY <2>2, <2>3 DEF Begun
  <1>3. Cardinality({q, r}) <= Cardinality(Begun) /\ Cardinality(Begun) \in Nat
    BY <1>1, <1>2, FS_Subset, FS_CardinalityType
  <1> QED BY <1>1, <1>2, <1>3

\* The invariant says what the saga promises.
LEMMA SagaSafe ==
  ASSUME SagaIInv
  PROVE  SagaTypeOK /\ ReplayAgrees /\ AllOrNothing
  <1>1. ASSUME life \in {"completed", "compensated"}, Alone
        PROVE  \E r \in Runs : Course(r) /\ runs[r].at = "done"
    <2>1. PICK r \in Runs : runs[r].at # "off"
      BY <1>1 DEF SagaIInv, Untouched
    <2>2. Course(r) /\ runs[r].at \in Points
      BY <1>1, <2>1, AloneIsSole, SagaFacts DEF SagaIInv
    <2> QED BY <1>1, <2>1, <2>2 DEF Course, Points
  <1>2. life = "completed" => CompletedSet = 1 .. saga.steps
    BY SagaFacts DEF SagaIInv, AllDone
  <1>3. ASSUME life = "completed", Alone PROVE \A s \in 1 .. MaxSteps : undone[s] = 0
    BY <1>1, <1>3 DEF Course
  <1>4. ASSUME life = "compensated", Alone, NEW s \in 1 .. MaxSteps
        PROVE  undone[s] = IF s \in CompletedSet \cap saga.undoable THEN 1 ELSE 0
    <2>1. PICK r \in Runs : Course(r) /\ runs[r].at = "done"
      BY <1>1, <1>4
    <2>2. /\ \A i \in 1 .. Len(completedSteps) : completedSteps[i] = i
          /\ UndoneDownTo(0)
      BY <1>4, <2>1 DEF Course
    <2>3. s \in CompletedSet <=> 0 < s /\ s <= Len(completedSteps)
      <3>1. s \in 1 .. Len(completedSteps) <=> 0 < s /\ s <= Len(completedSteps)
        BY SagaFacts
      <3> QED BY <2>2, <3>1, SagaFacts
    <2> QED BY <2>2, <2>3 DEF UndoneDownTo
  <1>5. SagaTypeOK
    BY SagaFacts DEF SagaTypeOK, Lives, Points
  <1> QED BY <1>2, <1>3, <1>4, <1>5 DEF AllOrNothing, SagaIInv

\* However often a saga of any length is run at once, its log alone gives its state,
\* and it is completed only with every step done; run once, it is undone entirely or
\* not at all (run, compensate, replay).
THEOREM SagaIsAtomic == SagaSpec => [](SagaTypeOK /\ ReplayAgrees /\ AllOrNothing)
  <1>1. SagaIInv /\ [SagaNext]_sagaVars => SagaIInv'
    BY SagaInductive
  <1>2. SagaIInv => SagaTypeOK /\ ReplayAgrees /\ AllOrNothing
    BY SagaSafe
  <1> QED BY <1>1, <1>2, SagaStarts, PTL DEF SagaSpec

\* What is undone comes after all that is undone already.
LEMMA UndoTurn ==
  ASSUME SagaIInv, [SagaNext]_sagaVars, NEW s \in 1 .. MaxSteps, Alone, undone'[s] > undone[s],
         NEW t \in CompletedSet \cap saga.undoable, t > s
  PROVE  undone[t] = 1
  <1>1. undone' # undone
    <2>1. PICK n \in Nat : n = undone[s]
      BY SagaFacts
    <2>2. ~(n > n)
      OBVIOUS
    <2> QED BY <2>1, <2>2
  <1>2. PICK r \in Runs : UndoSucceeds(r)
    <2>1. \A r \in Runs : SagaRun(r) => undone' = undone
      BY DEF SagaRun
    <2>2. \A r \in Runs : StepSucceeds(r) => undone' = undone
      BY DEF StepSucceeds
    <2>3. \A r \in Runs : StepFails(r) => undone' = undone
      BY DEF StepFails
    <2>4. \A r \in Runs : StepRetried(r) \/ UndoFails(r) => undone' = undone
      BY DEF StepRetried, UndoFails
    <2>5. SagaNext
      BY <1>1 DEF sagaVars
    <2> QED BY <1>1, <2>1, <2>2, <2>3, <2>4, <2>5 DEF SagaNext, Continues
  <1> DEFINE i == runs[r].step
             u == completedSteps[i]
  <1>3. /\ runs[r].at = "undoing" /\ undone' = [undone EXCEPT ![u] = @ + 1]
    BY <1>2 DEF UndoSucceeds
  <1>4. i \in 1 .. Len(completedSteps) /\ u \in 1 .. saga.steps /\ u \in 1 .. MaxSteps
    <2>1. i \in 1 .. Len(completedSteps)
      BY <1>3 DEF SagaIInv, Standing
    <2>2. u \in 1 .. saga.steps
      BY <2>1, SagaFacts
    <2>3. saga.steps \in 0 .. MaxSteps /\ MaxSteps \in Nat
      BY SagaFacts
    <2> QED BY ONLY <2>1, <2>2, <2>3
  <1>5. u = s
    <2> SUFFICES ASSUME u # s PROVE FALSE
      OBVIOUS
    <2>1. undone \in [1 .. MaxSteps -> Nat] /\ undone[s] \in Nat
      BY SagaFacts
    <2> HIDE DEF u
    <2>2. undone'[s] = undone[s]
      BY <1>3, <2>1
    <2> QED BY <2>1, <2>2
  <1>6. Course(r)
    BY <1>3, AloneIsSole DEF SagaIInv
  <1>7. /\ \A j \in 1 .. Len(completedSteps) : completedSteps[j] = j
        /\ UndoneDownTo(i)
    BY <1>3, <1>6 DEF Course
  <1>8. s = i
    BY <1>4, <1>5, <1>7
  <1>9. t \in 1 .. Len(completedSteps) /\ t \in 1 .. MaxSteps /\ i < t
    BY <1>7, <1>8, SagaFacts
  <1> HIDE DEF i
  <1> QED BY <1>7, <1>9, SagaFacts DEF UndoneDownTo

\* A saga that is run once undoes a step only after all that came after it
\* (compensate's loop).
THEOREM UndoesBackwards == SagaSpec => UndoneInReverse
  <1>1. SagaIInv /\ [SagaNext]_sagaVars => SagaIInv'
    BY SagaInductive
  <1>2. SagaIInv /\ [SagaNext]_sagaVars
          => [\A s \in 1 .. MaxSteps : Alone /\ undone'[s] > undone[s] =>
                \A t \in CompletedSet \cap saga.undoable : t > s => undone[t] = 1]_sagaVars
    BY UndoTurn
  <1> QED BY <1>1, <1>2, SagaStarts, PTL DEF SagaSpec, UndoneInReverse

-----------------------------------------------------------------------------
(***************************************************************************)
(*  Units of work commit all or nothing, for any number of units and       *)
(*  rows, of writes and of failures.                                       *)
(*                                                                         *)
(*  A version is the number of a row's writers, and what a unit loaded     *)
(*  its row has still, for only commits were loaded; so a row with the     *)
(*  version of then is the row of then, and a unit that writes it stands   *)
(*  alone on what it loaded. Undoing therefore removes the unit's own      *)
(*  change and nothing else.                                               *)
(***************************************************************************)

UnitStages == {"open", "loaded", "committing", "undoing", "failed", "committed"}
Rows == [version : Nat, writers : SUBSET Units]
Writes == [kind : {"insert", "update"}, key : Keys, loaded : Rows]
Journaled == [key : Keys, prior : Rows]
UnitRecords == [at : UnitStages, plan : Seq(Writes), journal : Seq(Journaled)]

UnitTyped == rows \in [Keys -> Rows] /\ units \in [Units -> UnitRecords]

\* A version counts the writers.
Tallied(x) == IsFiniteSet(x.writers) /\ x.version = Cardinality(x.writers)

UnitCommitted(w) == units[w].at = "committed"

\* What a unit loaded holds committed changes only, and the row has them still.
PlanKept(u) ==
  LET p == units[u].plan
  IN  /\ \A i, j \in 1 .. Len(p) : p[i].key = p[j].key => i = j
      /\ \A i \in 1 .. Len(p) :
           /\ Tallied(p[i].loaded)
           /\ p[i].loaded.writers \subseteq rows[p[i].key].writers
           /\ \A w \in p[i].loaded.writers : UnitCommitted(w)
           /\ p[i].kind = "insert" => p[i].loaded.version = 0
           /\ p[i].kind = "update" => p[i].loaded.version # 0

\* The stage of a unit and the length of its journal.
StageKept(u) ==
  LET x == units[u]
  IN  /\ Len(x.journal) <= Len(x.plan)
      /\ x.at \in {"open", "loaded", "failed"} => x.journal = <<>>
      /\ x.at \in {"loaded", "failed"} => x.plan # <<>>
      /\ x.at = "committing" => Len(x.journal) < Len(x.plan)
      /\ x.at = "undoing" => x.journal # <<>>
      /\ x.at = "committed" => Len(x.journal) = Len(x.plan)

\* What a unit has written is there, and until it commits, alone on what it loaded.
JournalKept(u) ==
  LET x == units[u]
  IN  \A i \in 1 .. Len(x.journal) :
        /\ x.journal[i].key = x.plan[i].key
        /\ x.journal[i].prior = x.plan[i].loaded
        /\ u \in rows[x.plan[i].key].writers
        /\ ~UnitCommitted(u) => rows[x.plan[i].key].writers = x.plan[i].loaded.writers \cup {u}

\* Whoever wrote a row is committed, or can still undo it.
RowKept(k) ==
  /\ Tallied(rows[k])
  /\ \A u \in rows[k].writers :
       UnitCommitted(u) \/ \E i \in 1 .. Len(units[u].journal) : units[u].journal[i].key = k

UnitsIInv == /\ UnitTyped
             /\ \A u \in Units : PlanKept(u) /\ StageKept(u) /\ JournalKept(u)
             /\ \A k \in Keys : RowKept(k)

\* What the invariant says of one unit's record, for any step to use.
LEMMA UnitFacts ==
  ASSUME UnitsIInv, NEW u \in Units
  PROVE  /\ units[u] \in UnitRecords
         /\ units[u].plan \in Seq(Writes) /\ units[u].journal \in Seq(Journaled)
         /\ Len(units[u].plan) \in Nat /\ Len(units[u].journal) \in Nat
         /\ \A i \in 1 .. Len(units[u].plan) : units[u].plan[i] \in Writes
         /\ \A i \in 1 .. Len(units[u].journal) :
              i \in 1 .. Len(units[u].plan) /\ units[u].journal[i] \in Journaled
  <1>1. units[u] \in UnitRecords
    BY DEF UnitsIInv, UnitTyped
  <1>2. units[u].plan \in Seq(Writes) /\ units[u].journal \in Seq(Journaled)
    BY <1>1 DEF UnitRecords
  <1>3. Len(units[u].plan) \in Nat /\ Len(units[u].journal) \in Nat
    BY <1>2, LenProperties
  <1>4. Len(units[u].journal) <= Len(units[u].plan)
    BY DEF UnitsIInv, StageKept
  <1>5. /\ \A i \in 1 .. Len(units[u].plan) : units[u].plan[i] \in Writes
        /\ \A i \in 1 .. Len(units[u].journal) : units[u].journal[i] \in Journaled
    BY <1>2, ElementOfSeq
  <1>6. \A i \in 1 .. Len(units[u].journal) : i \in 1 .. Len(units[u].plan)
    BY <1>3, <1>4
  <1> QED BY <1>1, <1>2, <1>3, <1>5, <1>6

\* A step of a unit changes its own record only.
LEMMA UnitMoves ==
  ASSUME UnitTyped, NEW u \in Units, NEW x \in UnitRecords, units' = [units EXCEPT ![u] = x]
  PROVE  /\ units' \in [Units -> UnitRecords]
         /\ units'[u] = x
         /\ \A v \in Units : v # u => units'[v] = units[v]
  BY DEF UnitTyped

\* A unit that has not committed and does not now keeps what the others rely on, if
\* no row changes.
LEMMA UnitStays ==
  ASSUME UnitsIInv, NEW u \in Units, NEW x \in UnitRecords, units' = [units EXCEPT ![u] = x],
         UNCHANGED rows, ~UnitCommitted(u), x.at # "committed", x.journal = units[u].journal,
         PlanKept(u)', StageKept(u)', x.journal = <<>> \/ x.plan = units[u].plan
  PROVE  UnitsIInv'
  <1>1. /\ units' \in [Units -> UnitRecords] /\ units'[u] = x
        /\ \A v \in Units : v # u => units'[v] = units[v]
    BY UnitMoves DEF UnitsIInv
  <1>2. UnitTyped'
    BY <1>1 DEF UnitsIInv, UnitTyped
  <1>3. \A v \in Units : UnitCommitted(v)' <=> UnitCommitted(v)
    BY <1>1 DEF UnitCommitted
  <1>4. ASSUME NEW v \in Units, v # u
        PROVE  PlanKept(v)' /\ StageKept(v)' /\ JournalKept(v)'
    <2>1. units'[v] = units[v] /\ PlanKept(v) /\ StageKept(v) /\ JournalKept(v)
      BY <1>1, <1>4 DEF UnitsIInv
    <2>2. \A i \in 1 .. Len(units[v].plan) : units[v].plan[i].loaded.writers \subseteq Units
      BY UnitFacts DEF Writes, Rows
    <2>3. PlanKept(v)'
      <3>1. \A i \in 1 .. Len(units[v].plan) :
              \A w \in units[v].plan[i].loaded.writers : UnitCommitted(w)'
        BY <1>3, <2>1, <2>2 DEF PlanKept
      <3> QED BY ONLY <2>1, <3>1, rows' = rows DEF PlanKept, Tallied
    <2>4. StageKept(v)'
      BY <2>1 DEF StageKept
    <2>5. JournalKept(v)'
      BY <1>3, <2>1 DEF JournalKept
    <2> QED BY <2>3, <2>4, <2>5
  <1>5. JournalKept(u)'
    <2>1. CASE x.journal = <<>>
      BY <1>1, <2>1, EmptySeq DEF JournalKept
    <2>2. CASE x.plan = units[u].plan
      BY <1>1, <1>3, <2>2 DEF UnitsIInv, JournalKept
    <2> QED BY <2>1, <2>2
  <1>6. ASSUME NEW k \in Keys
        PROVE  RowKept(k)'
    <2>1. RowKept(k) /\ rows[k].writers \subseteq Units
      BY DEF UnitsIInv, UnitTyped, Rows
    <2>2. \A v \in Units : units'[v].journal = units[v].journal
      BY <1>1
    <2> QED BY <1>3, <2>1, <2>2 DEF RowKept, Tallied
  <1> QED BY <1>2, <1>4, <1>5, <1>6 DEF UnitsIInv

\* A unit loads rows when no other one is amid a commit: only committed changes.
LEMMA LoadKeeps ==
  ASSUME UnitsIInv, ~DirtyReads, "delete" \notin Kinds, NEW u \in Units, Load(u)
  PROVE  UnitsIInv'
  <1>1. PICK kinds \in [Keys -> Kinds \cup {"none"}] :
          LET writes == {Write(kinds[k], k) : k \in {k \in Keys : kinds[k] # "none"}}
          IN  /\ writes # {}
              /\ \A w \in writes : w.kind = "insert" <=> w.loaded.version = 0
              /\ \E plan \in SetToSeqs(writes) :
                   units' = [units EXCEPT ![u].at = "loaded", ![u].plan = plan]
    BY DEF Load
  <1> DEFINE chosen == {k \in Keys : kinds[k] # "none"}
             writes == {Write(kinds[k], k) : k \in chosen}
  <1>2. PICK plan \in SetToSeqs(writes) :
           units' = [units EXCEPT ![u].at = "loaded", ![u].plan = plan]
    BY <1>1
  <1>3. units[u].at = "open" /\ rows' = rows /\ \A v \in Units : ~Amid(v)
    BY DEF Load
  <1>4. IsFiniteSet(writes)
    <2>1. IsFiniteSet(chosen)
      BY UnitOfWorkAssumption, FS_Subset
    <2> DEFINE f == [k \in chosen |-> Write(kinds[k], k)]
    <2>2. f \in Surjection(chosen, writes)
      BY DEF Surjection
    <2> HIDE DEF chosen, writes, f
    <2> QED BY <2>1, <2>2, FS_Surjection
  <1>5. /\ plan \in Seq(writes)
        /\ \A i, j \in 1 .. Len(plan) : plan[i] = plan[j] => i = j
    <2> HIDE DEF writes
    <2> QED BY <1>4, Listing
  <1>6. ASSUME NEW w \in writes
        PROVE  /\ w \in Writes /\ w.loaded = rows[w.key] /\ w.key \in Keys
               /\ w = Write(kinds[w.key], w.key)
               /\ w.kind = "insert" <=> w.loaded.version = 0
    <2>1. PICK k \in chosen : w = Write(kinds[k], k)
      BY <1>6
    <2>2. w.key = k /\ w.kind = kinds[k] /\ w.loaded = rows[k]
      BY <2>1 DEF Write
    <2>3. kinds[k] \in {"insert", "update"}
      <3>1. kinds[k] \in Kinds /\ "delete" \notin Kinds
        OBVIOUS
      <3> QED BY <3>1, UnitOfWorkAssumption
    <2>4. k \in Keys /\ rows[k] \in Rows
      BY DEF UnitsIInv, UnitTyped
    <2>5. w \in Writes
      BY <2>1, <2>3, <2>4 DEF Write, Writes
    <2> QED BY <1>1, <2>1, <2>2, <2>4, <2>5
  <1>7. \A i \in 1 .. Len(plan) : plan[i] \in writes
    BY <1>5, ElementOfSeq
  <1>8. plan \in Seq(Writes) /\ Len(plan) \in Nat
    <2>1. writes \subseteq Writes
      BY <1>6
    <2> HIDE DEF writes
    <2> QED BY <1>5, <2>1, SeqMonotonic, LenProperties
  <1>9. plan # <<>>
    <2>1. Cardinality(writes) # 0
      <3> HIDE DEF writes
      <3> QED BY <1>1, <1>4, FS_EmptySet DEF writes
    <2>2. plan \in [1 .. Cardinality(writes) -> writes] /\ Cardinality(writes) \in Nat
      <3> HIDE DEF writes
      <3> QED BY <1>4, FS_CardinalityType DEF SetToSeqs
    <2>3. 1 \in DOMAIN plan
      BY <2>1, <2>2
    <2> QED BY <2>3
  <1> DEFINE y == [units[u] EXCEPT !.at = "loaded", !.plan = plan]
  <1>10. /\ units[u] \in UnitRecords /\ units[u].journal = <<>>
    BY <1>3, UnitFacts DEF UnitsIInv, StageKept
  <1>11. /\ y \in UnitRecords /\ y.at = "loaded" /\ y.plan = plan /\ y.journal = units[u].journal
         /\ units' = [units EXCEPT ![u] = y]
    BY <1>2, <1>8, <1>10 DEF UnitRecords, UnitStages
  <1>12. PICK x \in UnitRecords : x = y
    BY <1>11
  <1> HIDE DEF y, writes
  <1>13. /\ units' = [units EXCEPT ![u] = x] /\ x.at = "loaded" /\ x.plan = plan
         /\ x.journal = <<>> /\ x.journal = units[u].journal
    BY <1>10, <1>11, <1>12
  <1>14. units'[u] = x /\ ~UnitCommitted(u) /\ \A v \in Units : v # u => units'[v] = units[v]
    BY <1>3, <1>13, UnitMoves DEF UnitsIInv, UnitCommitted
  <1>15. ASSUME NEW k \in Keys, NEW v \in rows[k].writers
         PROVE  v \in Units /\ UnitCommitted(v)
    <2>1. RowKept(k) /\ v \in Units
      BY DEF UnitsIInv, UnitTyped, Rows
    <2>2. CASE ~UnitCommitted(v)
      <3>1. PICK i \in 1 .. Len(units[v].journal) : units[v].journal[i].key = k
        BY <2>1, <2>2 DEF RowKept
      <3>2. units[v].journal # <<>>
        BY <3>1, EmptySeq
      <3>3. units[v].at \in UnitStages /\ StageKept(v)
        BY <2>1, UnitFacts DEF UnitsIInv, UnitRecords
      <3>4. units[v].at \in {"committing", "undoing"}
        BY <2>2, <3>2, <3>3 DEF StageKept, UnitStages, UnitCommitted
      <3> QED BY <1>3, <2>1, <3>4 DEF Amid
    <2> QED BY <2>1, <2>2
  <1>16. PlanKept(u)'
    <2>1. \A i, j \in 1 .. Len(plan) : plan[i].key = plan[j].key => i = j
      BY <1>5, <1>6, <1>7
    <2>2. ASSUME NEW i \in 1 .. Len(plan)
          PROVE  /\ Tallied(plan[i].loaded)
                 /\ plan[i].loaded.writers \subseteq rows[plan[i].key].writers
                 /\ \A w \in plan[i].loaded.writers : units'[w].at = "committed"
                 /\ plan[i].kind = "insert" => plan[i].loaded.version = 0
                 /\ plan[i].kind = "update" => plan[i].loaded.version # 0
      <3>1. /\ plan[i].loaded = rows[plan[i].key] /\ plan[i].key \in Keys
            /\ plan[i].kind = "insert" <=> plan[i].loaded.version = 0
        BY <1>6, <1>7
      <3>2. Tallied(rows[plan[i].key])
        BY <3>1 DEF UnitsIInv, RowKept
      <3>3. \A w \in plan[i].loaded.writers : units'[w].at = "committed"
        BY <1>14, <1>15, <3>1 DEF UnitCommitted
      <3> QED BY <3>1, <3>2, <3>3
    <2> QED BY <1>3, <1>13, <1>14, <2>1, <2>2 DEF PlanKept, Tallied, UnitCommitted
  <1>17. StageKept(u)'
    BY <1>8, <1>9, <1>13, <1>14, EmptySeq DEF StageKept
  <1>18. UNCHANGED rows /\ x.at # "committed"
    BY <1>3, <1>13
  <1> QED BY <1>13, <1>14, <1>16, <1>17, <1>18, UnitStays

\* A commit begins, or a write of it is refused or fails: the plan stays.
LEMMA StageMoves ==
  ASSUME UnitsIInv, NEW u \in Units, UNCHANGED rows, ~UnitCommitted(u),
         NEW s \in {"committing", "failed", "undoing"}, units' = [units EXCEPT ![u].at = s],
         s = "committing" => Len(units[u].journal) < Len(units[u].plan),
         s = "failed" => units[u].journal = <<>> /\ units[u].plan # <<>>,
         s = "undoing" => units[u].journal # <<>>
  PROVE  UnitsIInv'
  <1> DEFINE y == [units[u] EXCEPT !.at = s]
  <1>1. units[u] \in UnitRecords
    BY UnitFacts
  <1>2. /\ y \in UnitRecords /\ y.at = s /\ y.plan = units[u].plan /\ y.journal = units[u].journal
        /\ units' = [units EXCEPT ![u] = y]
    BY <1>1 DEF UnitRecords, UnitStages
  <1>3. PICK x \in UnitRecords : x = y
    BY <1>2
  <1> HIDE DEF y
  <1>4. /\ units' = [units EXCEPT ![u] = x] /\ x.at = s /\ x.plan = units[u].plan
        /\ x.journal = units[u].journal
    BY <1>2, <1>3
  <1>5. units'[u] = x /\ \A v \in Units : v # u => units'[v] = units[v]
    BY <1>4, UnitMoves DEF UnitsIInv
  <1>6. \A v \in Units : UnitCommitted(v)' <=> UnitCommitted(v)
    BY <1>4, <1>5 DEF UnitCommitted
  <1>7. PlanKept(u)'
    <2>1. \A i \in 1 .. Len(units[u].plan) : units[u].plan[i].loaded.writers \subseteq Units
      BY UnitFacts DEF Writes, Rows
    <2>2. PlanKept(u)
      BY DEF UnitsIInv
    <2> QED BY <1>4, <1>5, <1>6, <2>1, <2>2 DEF PlanKept, Tallied
  <1>8. StageKept(u)'
    BY <1>4, <1>5 DEF UnitsIInv, StageKept
  <1>9. x.at # "committed"
    BY <1>4
  <1> QED BY <1>4, <1>7, <1>8, <1>9, UnitStays

\* A write that is neither stale nor a duplicate finds the row as it was loaded.
LEMMA FindsAsLoaded ==
  ASSUME UnitsIInv, NEW u \in Units, NEW i \in 1 .. Len(units[u].plan),
         ~StaleWrite(units[u].plan[i]), ~Duplicate(units[u].plan[i])
  PROVE  rows[units[u].plan[i].key] = units[u].plan[i].loaded
  <1> DEFINE w == units[u].plan[i]
             r == rows[w.key]
  <1>1. /\ w \in Writes /\ w.key \in Keys /\ w.kind \in {"insert", "update"}
        /\ w.loaded \in Rows /\ r \in Rows
    BY UnitFacts DEF Writes, UnitsIInv, UnitTyped
  <1>2. /\ Tallied(w.loaded) /\ w.loaded.writers \subseteq r.writers
        /\ w.kind = "insert" => w.loaded.version = 0
        /\ w.kind = "update" => w.loaded.version # 0
    BY DEF UnitsIInv, PlanKept
  <1>3. Tallied(r)
    BY <1>1 DEF UnitsIInv, RowKept
  <1>4. r.version = w.loaded.version
    <2>1. CASE w.kind = "insert"
      BY <1>1, <1>2, <2>1 DEF Duplicate, Rows
    <2>2. CASE w.kind = "update"
      <3>1. r.version \in {0, w.loaded.version}
        BY <2>2 DEF StaleWrite
      <3>2. r.version # 0
        <4> SUFFICES ASSUME r.version = 0 PROVE FALSE
          OBVIOUS
        <4>1. r.writers = {}
          BY <1>3, FS_EmptySet DEF Tallied
        <4>2. w.loaded.writers = {}
          BY <1>2, <4>1
        <4>3. w.loaded.version = 0
          BY <1>2, <4>2, FS_EmptySet DEF Tallied
        <4> QED BY <1>2, <2>2, <4>3
      <3> QED BY <3>1, <3>2
    <2> QED BY <1>1, <2>1, <2>2
  <1>5. r.writers = w.loaded.writers
    <2>1. Cardinality(r.writers) = Cardinality(w.loaded.writers) /\ IsFiniteSet(r.writers)
      BY <1>2, <1>3, <1>4 DEF Tallied
    <2> QED BY <1>2, <2>1, FS_Subset
  <1> QED BY <1>1, <1>4, <1>5 DEF Rows

\* A unit writes a row: it stands alone on what it loaded.
LEMMA ApplyWriteKeeps ==
  ASSUME UnitsIInv, NEW u \in Units, ApplyWrite(u)
  PROVE  UnitsIInv'
  <1> DEFINE p == units[u].plan
             n == Len(units[u].journal)
             w == p[n + 1]
             k == w.key
             e == [key |-> k, prior |-> rows[k]]
             q == Append(units[u].journal, e)
             s == IF Len(q) = Len(p) THEN "committed" ELSE "committing"
             y == [units[u] EXCEPT !.journal = q, !.at = s]
  <1>1. /\ units[u].at = "committing" /\ ~StaleWrite(w) /\ ~Duplicate(w)
        /\ rows' = [rows EXCEPT ![k] = AppliedRow(u, w)]
    BY DEF ApplyWrite, NextWrite
  <1>2. /\ units[u] \in UnitRecords /\ n \in Nat /\ Len(p) \in Nat /\ n < Len(p)
        /\ units[u].journal \in Seq(Journaled) /\ p \in Seq(Writes)
        /\ \A i \in 1 .. n : units[u].journal[i] \in Journaled
        /\ \A i \in 1 .. Len(p) : p[i] \in Writes
    BY <1>1, UnitFacts DEF UnitsIInv, StageKept
  <1>3. n + 1 \in 1 .. Len(p) /\ \A i \in 1 .. n : i \in 1 .. Len(p) /\ i # n + 1
    BY <1>2
  <1>4. /\ w \in Writes /\ k \in Keys /\ rows[k] = w.loaded /\ w.loaded \in Rows
        /\ w.kind # "delete"
    <2>1. w \in Writes
      BY <1>2, <1>3
    <2> QED BY <1>1, <1>3, <2>1, FindsAsLoaded DEF Writes
  <1>5. /\ q \in Seq(Journaled) /\ Len(q) = n + 1 /\ q[n + 1] = e
        /\ \A i \in 1 .. n : q[i] = units[u].journal[i]
    <2>1. e \in Journaled
      BY <1>4 DEF Journaled
    <2>2. PICK d \in Journaled, old \in Seq(Journaled) : d = e /\ old = units[u].journal
      BY <1>2, <2>1
    <2>3. /\ Append(old, d) \in Seq(Journaled) /\ Len(Append(old, d)) = Len(old) + 1
          /\ Append(old, d)[Len(old) + 1] = d
          /\ \A i \in 1 .. Len(old) : Append(old, d)[i] = old[i]
      BY AppendProperties
    <2> HIDE DEF e
    <2> QED BY <2>2, <2>3
  <1>6. /\ y \in UnitRecords /\ y.journal = q /\ y.plan = p /\ y.at = s
        /\ units' = [units EXCEPT ![u] = y]
    <2>1. y \in UnitRecords /\ y.journal = q /\ y.plan = p /\ y.at = s
      BY <1>2, <1>5 DEF UnitRecords, UnitStages
    <2>2. units' = [units EXCEPT ![u].journal = q,
                                 ![u].at = IF Len(q) = Len(p) THEN "committed" ELSE @]
      BY DEF ApplyWrite, NextWrite
    <2>3. units' = [units EXCEPT ![u] = y]
      BY <1>1, <2>2 DEF UnitsIInv, UnitTyped, UnitRecords
    <2> QED BY <2>1, <2>3
  <1>7. PICK x \in UnitRecords : x = y
    BY <1>6
  <1> HIDE DEF y, q, s
  <1>8. /\ units' \in [Units -> UnitRecords] /\ units'[u] = x
        /\ \A v \in Units : v # u => units'[v] = units[v]
        /\ x.plan = p /\ Len(x.journal) = n + 1
        /\ x.journal[n + 1] = e
        /\ \A i \in 1 .. n : x.journal[i] = units[u].journal[i]
        /\ x.at = IF n + 1 = Len(p) THEN "committed" ELSE "committing"
    <2>1. units' = [units EXCEPT ![u] = x]
      BY <1>6, <1>7
    <2> QED BY <1>5, <1>6, <1>7, <2>1, UnitMoves DEF UnitsIInv, s
  <1>9. /\ rows'[k] = [version |-> w.loaded.version + 1, writers |-> w.loaded.writers \cup {u}]
        /\ \A l \in Keys : l # k => rows'[l] = rows[l]
        /\ rows' \in [Keys -> Rows]
    <2>1. AppliedRow(u, w) = [version |-> w.loaded.version + 1, writers |-> w.loaded.writers \cup {u}]
      BY <1>4 DEF AppliedRow
    <2>2. AppliedRow(u, w) \in Rows
      <3>1. PICK a \in Nat, W \in SUBSET Units : a = w.loaded.version /\ W = w.loaded.writers
        BY <1>4 DEF Rows
      <3>2. [version |-> a + 1, writers |-> W \cup {u}] \in Rows
        BY DEF Rows
      <3> QED BY ONLY <2>1, <3>1, <3>2
    <2> HIDE DEF k, w
    <2>3. rows \in [Keys -> Rows]
      BY DEF UnitsIInv, UnitTyped
    <2> QED BY <1>1, <1>4, <2>1, <2>2, <2>3
  <1>10. ASSUME NEW v \in Units, UnitCommitted(v)
         PROVE  UnitCommitted(v)' /\ v # u
    BY <1>1, <1>8, <1>10 DEF UnitCommitted
  <1>11. \A v \in Units : v # u => (UnitCommitted(v)' <=> UnitCommitted(v))
    BY <1>8 DEF UnitCommitted
  <1>12. \A v \in w.loaded.writers : v \in Units /\ UnitCommitted(v)
    BY <1>3, <1>4 DEF UnitsIInv, PlanKept, Rows
  <1>13. u \notin w.loaded.writers
    BY <1>10, <1>12
  <1>14. \A l \in Keys : rows[l].writers \subseteq rows'[l].writers
    <2> HIDE DEF k, w
    <2>1. rows[k].writers \subseteq rows'[k].writers
      BY <1>4, <1>9
    <2> QED BY <1>9, <2>1
  <1>15. ASSUME NEW v \in Units
         PROVE  PlanKept(v)'
    <2>1. units'[v].plan = units[v].plan /\ PlanKept(v)
      BY <1>8 DEF UnitsIInv
    <2>2. \A i \in 1 .. Len(units[v].plan) : /\ units[v].plan[i].loaded.writers \subseteq Units
                                             /\ units[v].plan[i].key \in Keys
      BY UnitFacts DEF Writes, Rows
    <2>3. \A i \in 1 .. Len(units[v].plan) :
            units[v].plan[i].loaded.writers \subseteq rows'[units[v].plan[i].key].writers
      BY <1>14, <2>1, <2>2 DEF PlanKept
    <2>4. \A i \in 1 .. Len(units[v].plan) : \A a \in units[v].plan[i].loaded.writers : UnitCommitted(a)'
      BY <1>10, <2>1, <2>2 DEF PlanKept
    <2> QED BY <2>1, <2>3, <2>4 DEF PlanKept, Tallied
  <1>16. ASSUME NEW v \in Units, v # u
         PROVE  StageKept(v)' /\ JournalKept(v)'
    <2>1. units'[v] = units[v] /\ StageKept(v) /\ JournalKept(v)
      BY <1>8, <1>16 DEF UnitsIInv
    <2>2. StageKept(v)'
      BY <2>1 DEF StageKept
    <2>3. ASSUME NEW i \in 1 .. Len(units[v].journal)
          PROVE  /\ v \in rows'[units[v].plan[i].key].writers
                 /\ ~UnitCommitted(v) => rows'[units[v].plan[i].key] = rows[units[v].plan[i].key]
      <3>1. units[v].plan[i].key \in Keys /\ v \in rows[units[v].plan[i].key].writers
        BY <2>1, UnitFacts DEF Writes, JournalKept
      <3>2. units[v].plan[i].key = k => UnitCommitted(v)
        BY <1>4, <1>12, <3>1
      <3> QED BY <1>9, <1>14, <3>1, <3>2
    <2>4. JournalKept(v)'
      BY <1>11, <1>16, <2>1, <2>3 DEF JournalKept
    <2> QED BY <2>2, <2>4
  <1>17. StageKept(u)'
    BY <1>2, <1>8, EmptySeq DEF StageKept
  <1>18. JournalKept(u)'
    <2>1. ASSUME NEW i \in 1 .. n
          PROVE  /\ x.journal[i].key = p[i].key /\ x.journal[i].prior = p[i].loaded
                 /\ rows'[p[i].key].writers = p[i].loaded.writers \cup {u}
      <3>1. /\ units[u].journal[i].key = p[i].key /\ units[u].journal[i].prior = p[i].loaded
            /\ rows[p[i].key].writers = p[i].loaded.writers \cup {u}
        BY <1>1 DEF UnitsIInv, JournalKept, UnitCommitted
      <3>2. p[i].key \in Keys /\ p[i].key # k
        BY <1>2, <1>3 DEF UnitsIInv, PlanKept, Writes
      <3> QED BY <1>8, <1>9, <3>1, <3>2
    <2>2. /\ x.journal[n + 1].key = p[n + 1].key /\ x.journal[n + 1].prior = p[n + 1].loaded
          /\ rows'[p[n + 1].key].writers = p[n + 1].loaded.writers \cup {u}
      <3>1. e.key = k /\ e.prior = w.loaded /\ k = w.key /\ w = p[n + 1]
        BY <1>4
      <3> HIDE DEF e, k, w, p, n
      <3> QED BY <1>8, <1>9, <3>1
    <2>3. \A i \in 1 .. n + 1 : i = n + 1 \/ i \in 1 .. n
      BY <1>2
    <2>4. \A i \in 1 .. n + 1 :
            /\ x.journal[i].key = p[i].key /\ x.journal[i].prior = p[i].loaded
            /\ rows'[p[i].key].writers = p[i].loaded.writers \cup {u}
      BY <2>1, <2>2, <2>3
    <2> HIDE DEF p, n
    <2> QED BY <1>8, <2>4 DEF JournalKept
  <1>19. ASSUME NEW l \in Keys
         PROVE  RowKept(l)'
    <2>1. RowKept(l)
      BY DEF UnitsIInv
    <2>2. CASE l = k
      <3>1. Tallied(rows[k])
        BY <1>4 DEF UnitsIInv, RowKept
      <3>2. Tallied(rows'[k])
        <4> HIDE DEF k, w
        <4>1. /\ IsFiniteSet(w.loaded.writers) /\ w.loaded.version = Cardinality(w.loaded.writers)
          BY <1>4, <3>1 DEF Tallied
        <4>3. PICK W : W = w.loaded.writers /\ IsFiniteSet(W) /\ u \notin W
          BY <1>13, <4>1
        <4>4. IsFiniteSet(W \cup {u}) /\ Cardinality(W \cup {u}) = Cardinality(W) + 1
          BY <4>3, FS_AddElement
        <4>2. /\ IsFiniteSet(w.loaded.writers \cup {u})
              /\ Cardinality(w.loaded.writers \cup {u}) = w.loaded.version + 1
          BY <4>1, <4>3, <4>4
        <4> QED BY <1>9, <4>2 DEF Tallied
      <3>3. ASSUME NEW v \in rows'[k].writers
            PROVE  UnitCommitted(v)' \/ \E i \in 1 .. Len(units'[v].journal) : units'[v].journal[i].key = k
        <4>1. CASE v = u
          <5>1. n + 1 \in 1 .. Len(x.journal) /\ x.journal[n + 1].key = k
            BY <1>2, <1>8
          <5> QED BY <1>8, <4>1, <5>1
        <4>2. CASE v # u
          <5> HIDE DEF k, w
          <5>1. v \in w.loaded.writers
            BY <1>9, <4>2
          <5>2. v \in Units /\ UnitCommitted(v)
            BY <1>12, <5>1
          <5> QED BY <1>10, <5>2
        <4> QED BY <4>1, <4>2
      <3> QED BY <2>2, <3>2, <3>3 DEF RowKept, Tallied
    <2>3. CASE l # k
      <3>1. rows'[l] = rows[l] /\ rows[l].writers \subseteq Units
        BY <1>9, <2>3 DEF UnitsIInv, UnitTyped, Rows
      <3>2. ASSUME NEW v \in rows[l].writers
            PROVE  UnitCommitted(v)' \/ \E i \in 1 .. Len(units'[v].journal) : units'[v].journal[i].key = l
        <4>1. CASE UnitCommitted(v)
          BY <1>10, <3>1, <4>1
        <4>2. CASE ~UnitCommitted(v)
          <5>1. PICK i \in 1 .. Len(units[v].journal) : units[v].journal[i].key = l
            BY <2>1, <4>2 DEF RowKept
          <5>2. CASE v = u
            <6>1. i \in 1 .. Len(x.journal) /\ x.journal[i].key = l
              BY <1>2, <1>8, <5>1, <5>2, SMTT(30)
            <6> QED BY <1>8, <5>2, <6>1
          <5>3. CASE v # u
            BY <1>8, <3>1, <5>1, <5>3
          <5> QED BY <5>2, <5>3
        <4> QED BY <4>1, <4>2
      <3> QED BY <2>1, <3>1, <3>2 DEF RowKept, Tallied
    <2> QED BY <2>2, <2>3
  <1> QED BY <1>8, <1>9, <1>15, <1>16, <1>17, <1>18, <1>19 DEF UnitsIInv, UnitTyped

\* A unit takes its last write back: the row is again as it was loaded.
LEMMA UndoWriteKeeps ==
  ASSUME UnitsIInv, NEW u \in Units, UndoWrite(u)
  PROVE  UnitsIInv'
  <1> DEFINE p == units[u].plan
             n == Len(units[u].journal)
             k == p[n].key
             q == Front(units[u].journal)
             s == IF n = 1 THEN "failed" ELSE "undoing"
             y == [units[u] EXCEPT !.journal = q, !.at = s]
  <1>1. units[u].at = "undoing" /\ ~UnitCommitted(u)
    BY DEF UndoWrite, UnitCommitted
  <1>2. /\ units[u] \in UnitRecords /\ n \in Nat /\ Len(p) \in Nat /\ n <= Len(p) /\ n # 0
        /\ units[u].journal \in Seq(Journaled) /\ p \in Seq(Writes)
        /\ \A i \in 1 .. n : units[u].journal[i] \in Journaled
        /\ \A i \in 1 .. Len(p) : p[i] \in Writes
    BY <1>1, UnitFacts, EmptySeq DEF UnitsIInv, StageKept
  <1>3. n \in 1 .. n /\ n \in 1 .. Len(p) /\ \A i \in 1 .. n : i \in 1 .. n - 1 \/ i = n
    BY <1>2
  <1>4. /\ units[u].journal[n].key = k /\ units[u].journal[n].prior = p[n].loaded
        /\ rows[k].writers = p[n].loaded.writers \cup {u}
    BY <1>1, <1>3 DEF UnitsIInv, JournalKept
  <1>5. p[n] \in Writes /\ k \in Keys /\ p[n].loaded \in Rows
    BY <1>2, <1>3 DEF Writes
  <1>6. /\ q \in Seq(Journaled) /\ Len(q) = n - 1
        /\ \A i \in 1 .. n - 1 : q[i] = units[u].journal[i]
    <2>1. /\ SubSeq(units[u].journal, 1, n - 1) \in Seq(Journaled)
          /\ Len(SubSeq(units[u].journal, 1, n - 1)) = n - 1
          /\ \A i \in 1 .. n - 1 : SubSeq(units[u].journal, 1, n - 1)[i] = units[u].journal[i]
      BY <1>2, SubSeqProperties
    <2> QED BY <2>1 DEF Front
  <1>7. /\ y \in UnitRecords /\ y.journal = q /\ y.plan = p /\ y.at = s
        /\ units' = [units EXCEPT ![u] = y]
    <2>1. y \in UnitRecords /\ y.journal = q /\ y.plan = p /\ y.at = s
      BY <1>2, <1>6 DEF UnitRecords, UnitStages
    <2>2. units' = [units EXCEPT ![u].journal = Front(@),
                                 ![u].at = IF Len(units[u].journal) = 1 THEN "failed" ELSE @]
      BY DEF UndoWrite
    <2>3. units' = [units EXCEPT ![u] = y]
      BY <1>1, <2>2 DEF UnitsIInv, UnitTyped, UnitRecords
    <2> QED BY <2>1, <2>3
  <1>8. rows' = [rows EXCEPT ![k] = p[n].loaded]
    BY <1>4 DEF UndoWrite, RestoredRow, Last
  <1>9. PICK x \in UnitRecords : x = y
    BY <1>7
  <1> HIDE DEF y, q, s
  <1>10. /\ units' \in [Units -> UnitRecords] /\ units'[u] = x
         /\ \A v \in Units : v # u => units'[v] = units[v]
         /\ x.plan = p /\ Len(x.journal) = n - 1
         /\ \A i \in 1 .. n - 1 : x.journal[i] = units[u].journal[i]
         /\ x.journal \in Seq(Journaled)
         /\ x.at = IF n = 1 THEN "failed" ELSE "undoing"
    <2>1. units' = [units EXCEPT ![u] = x]
      BY <1>7, <1>9
    <2> QED BY <1>6, <1>7, <1>9, <2>1, UnitMoves DEF UnitsIInv, s
  <1>11. /\ rows'[k] = p[n].loaded
         /\ \A l \in Keys : l # k => rows'[l] = rows[l]
         /\ rows' \in [Keys -> Rows]
    BY <1>5, <1>8 DEF UnitsIInv, UnitTyped
  <1>12. \A v \in Units : UnitCommitted(v)' <=> UnitCommitted(v)
    BY <1>1, <1>10 DEF UnitCommitted
  <1>13. \A v \in p[n].loaded.writers : v \in Units /\ UnitCommitted(v)
    BY <1>3, <1>5 DEF UnitsIInv, PlanKept, Rows
  \* Whatever is committed stays in the row.
  <1>14. ASSUME NEW l \in Keys, NEW v \in rows[l].writers, UnitCommitted(v)
         PROVE  v \in rows'[l].writers
    <2>1. v # u
      BY <1>1, <1>14
    <2> QED BY <1>4, <1>11, <1>14, <2>1
  <1>15. ASSUME NEW v \in Units
         PROVE  PlanKept(v)'
    <2>1. units'[v].plan = units[v].plan /\ PlanKept(v)
      BY <1>10 DEF UnitsIInv
    <2>2. \A i \in 1 .. Len(units[v].plan) : /\ units[v].plan[i].loaded.writers \subseteq Units
                                             /\ units[v].plan[i].key \in Keys
      BY UnitFacts DEF Writes, Rows
    <2>3. \A i \in 1 .. Len(units[v].plan) :
            units[v].plan[i].loaded.writers \subseteq rows'[units[v].plan[i].key].writers
      BY <1>14, <2>1, <2>2 DEF PlanKept
    <2>4. \A i \in 1 .. Len(units[v].plan) : \A a \in units[v].plan[i].loaded.writers : UnitCommitted(a)'
      BY <1>12, <2>1, <2>2 DEF PlanKept
    <2> QED BY <2>1, <2>3, <2>4 DEF PlanKept, Tallied
  <1>16. ASSUME NEW v \in Units, v # u
         PROVE  StageKept(v)' /\ JournalKept(v)'
    <2>1. units'[v] = units[v] /\ StageKept(v) /\ JournalKept(v)
      BY <1>10, <1>16 DEF UnitsIInv
    <2>2. StageKept(v)'
      BY <2>1 DEF StageKept
    <2>3. ASSUME NEW i \in 1 .. Len(units[v].journal)
          PROVE  /\ v \in rows'[units[v].plan[i].key].writers
                 /\ ~UnitCommitted(v) => rows'[units[v].plan[i].key] = rows[units[v].plan[i].key]
      <3>1. units[v].plan[i].key \in Keys /\ v \in rows[units[v].plan[i].key].writers
        BY <2>1, UnitFacts DEF Writes, JournalKept
      <3>2. units[v].plan[i].key = k => UnitCommitted(v)
        BY <1>4, <1>13, <1>16, <3>1
      <3> QED BY <1>11, <1>14, <3>1, <3>2
    <2>4. JournalKept(v)'
      BY <1>12, <1>16, <2>1, <2>3 DEF JournalKept
    <2> QED BY <2>2, <2>4
  <1>17. StageKept(u)'
    <2>1. n - 1 = 0 <=> x.journal = <<>>
      BY <1>2, <1>10, EmptySeq
    <2>2. p # <<>>
      BY <1>2, EmptySeq
    <2> QED BY <1>2, <1>10, <2>1, <2>2 DEF StageKept
  <1>18. JournalKept(u)'
    <2>1. ASSUME NEW i \in 1 .. n - 1
          PROVE  /\ x.journal[i].key = p[i].key /\ x.journal[i].prior = p[i].loaded
                 /\ rows'[p[i].key].writers = p[i].loaded.writers \cup {u}
      <3>1. i \in 1 .. n /\ i \in 1 .. Len(p) /\ i # n
        BY <1>2
      <3>2. /\ units[u].journal[i].key = p[i].key /\ units[u].journal[i].prior = p[i].loaded
            /\ rows[p[i].key].writers = p[i].loaded.writers \cup {u}
        BY <1>1, <3>1 DEF UnitsIInv, JournalKept
      <3>3. p[i].key \in Keys /\ p[i].key # k
        BY <1>2, <1>3, <3>1 DEF UnitsIInv, PlanKept, Writes
      <3> QED BY <1>10, <1>11, <3>2, <3>3
    <2> HIDE DEF p, n
    <2> QED BY <1>10, <2>1 DEF JournalKept
  <1>19. ASSUME NEW l \in Keys
         PROVE  RowKept(l)'
    <2>1. RowKept(l)
      BY DEF UnitsIInv
    <2>2. CASE l = k
      <3>1. Tallied(p[n].loaded)
        BY <1>3 DEF UnitsIInv, PlanKept
      <3> HIDE DEF k, p, n
      <3>2. Tallied(rows'[k])
        BY <1>11, <3>1
      <3>3. \A v \in rows'[k].writers : UnitCommitted(v)'
        BY <1>11, <1>12, <1>13
      <3> QED BY <2>2, <3>2, <3>3 DEF RowKept, Tallied
    <2>3. CASE l # k
      <3>1. rows'[l] = rows[l] /\ rows[l].writers \subseteq Units
        BY <1>11, <2>3 DEF UnitsIInv, UnitTyped, Rows
      <3>2. ASSUME NEW v \in rows[l].writers
            PROVE  UnitCommitted(v)' \/ \E i \in 1 .. Len(units'[v].journal) : units'[v].journal[i].key = l
        <4>1. CASE UnitCommitted(v)
          BY <1>12, <3>1, <4>1
        <4>2. CASE ~UnitCommitted(v)
          <5>1. PICK i \in 1 .. Len(units[v].journal) : units[v].journal[i].key = l
            BY <2>1, <4>2 DEF RowKept
          <5>2. CASE v = u
            <6>1. i # n
              BY <1>4, <2>3, <5>1, <5>2
            <6>2. i \in 1 .. n - 1
              BY <1>3, <5>1, <5>2, <6>1
            <6>3. i \in 1 .. Len(x.journal) /\ x.journal[i].key = l
              BY <1>10, <5>1, <5>2, <6>2
            <6> QED BY <1>10, <5>2, <6>3
          <5>3. CASE v # u
            BY <1>10, <3>1, <5>1, <5>3
          <5> QED BY <5>2, <5>3
        <4> QED BY <4>1, <4>2
      <3> QED BY <2>1, <3>1, <3>2 DEF RowKept, Tallied
    <2> QED BY <2>2, <2>3
  <1> QED BY <1>10, <1>11, <1>15, <1>16, <1>17, <1>18, <1>19 DEF UnitsIInv, UnitTyped

\* commit, also again.
LEMMA CommitUnitKeeps ==
  ASSUME UnitsIInv, NEW u \in Units, CommitUnit(u)
  PROVE  UnitsIInv'
  <1>1. /\ units[u].at \in {"loaded", "failed"} /\ UNCHANGED rows
        /\ units' = [units EXCEPT ![u].at = "committing"]
    BY DEF CommitUnit
  <1>2. units[u].journal = <<>> /\ units[u].plan # <<>> /\ ~UnitCommitted(u)
    BY <1>1 DEF UnitsIInv, StageKept, UnitCommitted
  <1>3. Len(units[u].journal) < Len(units[u].plan)
    <2>1. units[u].plan \in Seq(Writes)
      BY UnitFacts
    <2> QED BY <1>2, <2>1, EmptySeq, LenProperties
  <1> QED BY <1>1, <1>2, <1>3, StageMoves

\* A write is refused or fails.
LEMMA FailWriteKeeps ==
  ASSUME UnitsIInv, NEW u \in Units, FailWrite(u)
  PROVE  UnitsIInv'
  <1>1. /\ units[u].at = "committing" /\ UNCHANGED rows
        /\ units' = [units EXCEPT ![u].at = IF units[u].journal = <<>> THEN "failed" ELSE "undoing"]
    BY DEF FailWrite
  <1>2. Len(units[u].journal) < Len(units[u].plan) /\ ~UnitCommitted(u)
    BY <1>1 DEF UnitsIInv, StageKept, UnitCommitted
  <1>3. CASE units[u].journal = <<>>
    <2>1. units[u].plan # <<>>
      BY <1>2, <1>3
    <2> QED BY <1>1, <1>2, <1>3, <2>1, StageMoves
  <1>4. CASE units[u].journal # <<>>
    BY <1>1, <1>2, <1>4, StageMoves
  <1> QED BY <1>3, <1>4

\* Nothing is loaded and no row is there in the beginning.
LEMMA UnitsStart == UnitInit => UnitsIInv
  <1> SUFFICES ASSUME UnitInit PROVE UnitsIInv
    OBVIOUS
  <1> USE DEF UnitInit
  <1>1. UnitTyped
    BY EmptySeq DEF UnitTyped, Rows, UnitRecords, UnitStages, NoRow
  <1>2. ASSUME NEW u \in Units
        PROVE  PlanKept(u) /\ StageKept(u) /\ JournalKept(u)
    BY EmptySeq DEF PlanKept, StageKept, JournalKept
  <1>3. ASSUME NEW k \in Keys
        PROVE  RowKept(k)
    BY FS_EmptySet DEF RowKept, Tallied, NoRow
  <1> QED BY <1>1, <1>2, <1>3 DEF UnitsIInv

\* No step of any unit breaks the invariant.
LEMMA UnitsInductive ==
  ASSUME UnitsIInv, [UnitNext]_unitVars, ~DirtyReads, "delete" \notin Kinds
  PROVE  UnitsIInv'
  <1>1. CASE UNCHANGED unitVars
    <2>1. \A u \in Units : (PlanKept(u) <=> PlanKept(u)') /\ (StageKept(u) <=> StageKept(u)') /\ (JournalKept(u) <=> JournalKept(u)')
      BY <1>1 DEF unitVars, PlanKept, StageKept, JournalKept, UnitCommitted, Tallied
    <2>2. \A k \in Keys : RowKept(k) <=> RowKept(k)'
      BY <1>1 DEF unitVars, RowKept, UnitCommitted, Tallied
    <2> QED BY <1>1, <2>1, <2>2 DEF unitVars, UnitsIInv, UnitTyped
  <1>2. CASE UnitNext
    <2>1. PICK u \in Units : Load(u) \/ CommitUnit(u) \/ ApplyWrite(u) \/ FailWrite(u) \/ UndoWrite(u)
      BY <1>2 DEF UnitNext
    <2> QED BY <2>1, LoadKeeps, CommitUnitKeeps, ApplyWriteKeeps, FailWriteKeeps, UndoWriteKeeps
  <1> QED BY <1>1, <1>2

\* The invariant says what a commit promises.
LEMMA UnitsSafe == UnitsIInv => CommitsAtomic
  <1> SUFFICES ASSUME UnitsIInv PROVE CommitsAtomic
    OBVIOUS
  <1>1. CommittedSurvives
    <2> SUFFICES ASSUME NEW u \in Units, UnitCommitted(u), NEW i \in DOMAIN units[u].plan
                 PROVE  u \in rows[units[u].plan[i].key].writers
      BY DEF CommittedSurvives, UnitCommitted
    <2>1. units[u].plan \in Seq(Writes) /\ Len(units[u].journal) = Len(units[u].plan)
      BY UnitFacts DEF UnitsIInv, StageKept, UnitCommitted
    <2>2. i \in 1 .. Len(units[u].journal)
      BY <2>1, LenProperties
    <2> QED BY <2>2 DEF UnitsIInv, JournalKept
  <1>2. FailedLeavesNothing
    <2> SUFFICES ASSUME NEW u \in Units, NEW k \in Keys, u \in rows[k].writers
                 PROVE  UnitCommitted(u) \/ \E i \in DOMAIN units[u].journal : units[u].journal[i].key = k
      BY DEF FailedLeavesNothing, UnitCommitted
    <2>1. UnitCommitted(u) \/ \E i \in 1 .. Len(units[u].journal) : units[u].journal[i].key = k
      BY DEF UnitsIInv, RowKept
    <2>2. DOMAIN units[u].journal = 1 .. Len(units[u].journal)
      BY UnitFacts, LenProperties
    <2> QED BY <2>1, <2>2
  <1>3. VersionsCount
    BY DEF UnitsIInv, RowKept, Tallied, VersionsCount
  <1> QED BY <1>1, <1>2, <1>3 DEF CommitsAtomic

\* Beside other commits, a commit is all or nothing (commit, _checkOptimistic, _rollbackTo), as long as
\* no unit loads rows amid another's commit and none deletes a row.
THEOREM CommitsAreAtomic ==
  ASSUME ~DirtyReads, "delete" \notin Kinds
  PROVE  UnitSpec => []CommitsAtomic
  <1>1. UnitsIInv /\ [UnitNext]_unitVars => UnitsIInv'
    BY UnitsInductive
  <1> QED BY <1>1, UnitsStart, UnitsSafe, PTL DEF UnitSpec
=============================================================================
