------------------------- MODULE ReadModelReplication -------------------------
(***************************************************************************)
(* Shipping a read model to its replicas (ReadModelReplication.ts of       *)
(* src/src/layers/cqrs/engine) and the routing of reads to them            *)
(* (ReplicaQueryRouter.ts).                                                *)
(*                                                                         *)
(* The ops of an entry are the entry itself, and the content of a store is *)
(* the entries applied to it, by their sequence numbers; checkpoints are   *)
(* the part of a ReadModelStore that routing reads.  A batch is pulled and *)
(* applied at once by syncOnce; pulled on its own it may be delayed, lost, *)
(* applied twice, out of order, or to a replica rebuilt since.             *)
(*                                                                         *)
(* OneEntryPerEvent says that a projection journals at most one entry for  *)
(* a domain position.  The code does not see to that.                      *)
(***************************************************************************)
EXTENDS Integers, FiniteSets

CONSTANTS Replicas, Projections,
          Capacity, SyncBatch,
          MaxEntries,         \* bound: entries journaled
          MaxShipped,         \* bound: batches in flight
          MaxRebuilds,        \* bound
          OneEntryPerEvent

ASSUME ReplicationAssumption ==
  /\ {Capacity, SyncBatch} \subseteq Nat \ {0}
  /\ {MaxEntries, MaxShipped, MaxRebuilds} \subseteq Nat
  /\ OneEntryPerEvent \in BOOLEAN

VARIABLES primary,      \* the entries applied to the primary, over 0 .. nextSeq - 1
          nextSeq,
          journal,      \* the entries retained, over the last of these sequence numbers
          replica,      \* the entries applied to each replica
          cursor, checkpoint,
          shipped,      \* batches pulled and on their way
          floor,        \* pinWrite: the position a session must find, by projection
          rebuilds

primaryVars == <<primary, nextSeq, journal>>
replicaVars == <<replica, cursor, checkpoint>>
replicationVars == <<primaryVars, replicaVars, shipped, floor, rebuilds>>

NoEntries == [n \in {} |-> n]

ReplicationInit == /\ primary = NoEntries
                   /\ nextSeq = 0
                   /\ journal = NoEntries
                   /\ replica = [r \in Replicas |-> NoEntries]
                   /\ cursor = [r \in Replicas |-> 0]
                   /\ checkpoint = [r \in Replicas |-> [p \in Projections |-> -1]]
                   /\ shipped = {}
                   /\ floor = [p \in Projections |-> -1]
                   /\ rebuilds = 0

-----------------------------------------------------------------------------
BaseSeq == IF nextSeq < Capacity THEN 0 ELSE nextSeq - Capacity

\* The domain position of the last event.
LastPosition == IF nextSeq = 0 THEN -1 ELSE primary[nextSeq - 1].position

\* Of one event, projections journal one entry each, or more.
Repeats(p) == /\ nextSeq > 0
              /\ OneEntryPerEvent => \A n \in DOMAIN primary :
                                       primary[n].position = LastPosition
                                         => primary[n].projection # p

\* The primary applies a projection's ops and journals them: the ring drops
\* its oldest entry.
JournalAppend(p) ==
  \E position \in {LastPosition + 1} \cup IF Repeats(p) THEN {LastPosition} ELSE {} :
    LET e == [projection |-> p, position |-> position]
        base == IF nextSeq + 1 < Capacity THEN 0 ELSE nextSeq + 1 - Capacity
    IN  /\ nextSeq < MaxEntries
        /\ primary' = [n \in 0 .. nextSeq |-> IF n = nextSeq THEN e ELSE primary[n]]
        /\ journal' = [n \in base .. nextSeq |-> IF n = nextSeq THEN e ELSE journal[n]]
        /\ nextSeq' = nextSeq + 1
        /\ UNCHANGED <<replicaVars, shipped, floor, rebuilds>>

\* pull: up to limit entries from a sequence number on.  Below the retained
\* window it throws.
Retained(from) == from >= BaseSeq

Pulled(from, limit) ==
  [n \in {i \in DOMAIN journal : from <= i /\ i < from + limit} |-> journal[n]]

\* Mutant: a hole is no reason to stop.
GapNever(from, r) == FALSE

\* Mutant: the next entry counts as a hole.
GapAtCursor(from, r) == from >= cursor[r]

\* apply: entries below the cursor are skipped, one above it throws.  A batch
\* is contiguous, so the first one tells.
Gap(from, r) == from > cursor[r]

Newest(S) == CHOOSE x \in S : \A y \in S : y <= x

\* Mutant: the checkpoint of the batch is set without regard to its projection.
MovedTogether(r, new) ==
  [p \in Projections |-> Newest({checkpoint[r][p]} \cup {new[n].position : n \in DOMAIN new})]

\* applyBatch moves the checkpoint of each entry's projection.
Moved(r, new) ==
  [p \in Projections |-> Newest({checkpoint[r][p]} \cup
                           {new[n].position : n \in {i \in DOMAIN new : new[i].projection = p}})]

Applied(r, from, entries) ==
  LET new == [n \in {i \in DOMAIN entries : i >= cursor[r]} |-> entries[n]]
  IN  IF DOMAIN new = {} \/ Gap(from, r)
      THEN UNCHANGED replicaVars
      ELSE /\ replica' = [replica EXCEPT ![r] =
                [n \in DOMAIN replica[r] \cup DOMAIN new |->
                   IF n \in DOMAIN new THEN new[n] ELSE replica[r][n]]]
           /\ cursor' = [cursor EXCEPT ![r] = Newest(DOMAIN new) + 1]
           /\ checkpoint' = [checkpoint EXCEPT ![r] = Moved(r, new)]

-----------------------------------------------------------------------------
Pull(r) ==
  /\ Cardinality(shipped) < MaxShipped
  /\ Retained(cursor[r])
  /\ shipped' = shipped \cup {[to |-> r, from |-> cursor[r],
                               entries |-> Pulled(cursor[r], SyncBatch)]}
  /\ UNCHANGED <<primaryVars, replicaVars, floor, rebuilds>>

\* A batch arrives; it may arrive again.
ReplicaApply(b) ==
  /\ b \in shipped
  /\ Applied(b.to, b.from, b.entries)
  /\ UNCHANGED <<primaryVars, shipped, floor, rebuilds>>

BatchLost(b) ==
  /\ b \in shipped
  /\ shipped' = shipped \ {b}
  /\ UNCHANGED <<primaryVars, replicaVars, floor, rebuilds>>

\* syncOnce: batch after batch up to the journal's head.
SyncOnce(r) ==
  /\ Retained(cursor[r])
  /\ cursor[r] < nextSeq
  /\ Applied(r, cursor[r], Pulled(cursor[r], nextSeq))
  /\ UNCHANGED <<primaryVars, shipped, floor, rebuilds>>

\* The process of a replica restarts: a new ReplicaReadStore, from nothing.
Rebuild(r) ==
  /\ rebuilds < MaxRebuilds
  /\ rebuilds' = rebuilds + 1
  /\ replica' = [replica EXCEPT ![r] = NoEntries]
  /\ cursor' = [cursor EXCEPT ![r] = 0]
  /\ checkpoint' = [checkpoint EXCEPT ![r] = [p \in Projections |-> -1]]
  /\ UNCHANGED <<primaryVars, shipped, floor>>

\* pinWrite: a position the session wrote; older ones change nothing.
PinWrite(p) ==
  \E n \in DOMAIN primary :
    /\ primary[n].projection = p
    /\ primary[n].position > floor[p]
    /\ floor' = [floor EXCEPT ![p] = primary[n].position]
    /\ UNCHANGED <<primaryVars, replicaVars, shipped, rebuilds>>

ReplicationNext ==
  \/ \E p \in Projections : JournalAppend(p) \/ PinWrite(p)
  \/ \E r \in Replicas : Pull(r) \/ SyncOnce(r) \/ Rebuild(r)
  \/ \E b \in shipped : ReplicaApply(b) \/ BatchLost(b)

\* Every replica is synchronised again and again.
ReplicationFairness == \A r \in Replicas : WF_replicationVars(SyncOnce(r))

ReplicationSpec == ReplicationInit /\ [][ReplicationNext]_replicationVars /\ ReplicationFairness

-----------------------------------------------------------------------------
\* _qualifies under read-your-writes.
Qualifies(r, p) == floor[p] = -1 \/ checkpoint[r][p] >= floor[p]

Entry == [projection : Projections, position : Nat]

ReplicationTypeOK ==
  /\ nextSeq \in 0 .. MaxEntries
  /\ primary \in [0 .. nextSeq - 1 -> Entry]
  /\ journal \in [BaseSeq .. nextSeq - 1 -> Entry]
  /\ cursor \in [Replicas -> Nat]
  /\ checkpoint \in [Replicas -> [Projections -> Nat \cup {-1}]]
  /\ floor \in [Projections -> Nat \cup {-1}]
  /\ \A b \in shipped : b.to \in Replicas

\* A replica never diverges: whatever batches are delayed, lost, repeated,
\* reordered or meant for its predecessor, what it applied is what the primary
\* applied first, without a hole.
ReplicaIsPrefix ==
  \A r \in Replicas : /\ cursor[r] <= nextSeq
                      /\ DOMAIN replica[r] = 0 .. cursor[r] - 1
                      /\ \A n \in DOMAIN replica[r] : replica[r][n] = primary[n]

\* A session reads its own writes from any replica the router deems fit: one
\* that has every entry of the events up to the pinned position.
ReadsOwnWrites ==
  OneEntryPerEvent =>
    \A r \in Replicas, p \in Projections, n \in DOMAIN primary :
      /\ Qualifies(r, p)
      /\ primary[n].projection = p
      /\ primary[n].position <= floor[p]
      => n \in DOMAIN replica[r]

\* A replica catches up unless the journal lost what it needs.
CaughtUp == \A r \in Replicas : <>[](cursor[r] = nextSeq \/ ~Retained(cursor[r]))
=============================================================================
