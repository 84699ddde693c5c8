----------------------------- MODULE OutboxStore -----------------------------
(***************************************************************************)
(* The transactional outbox table (class OutboxStore of                    *)
(* src/src/layers/outbox/implementations/TransactionalOutbox.ts).          *)
(*                                                                         *)
(* A record is named by its aggregate and its per-aggregate sequence       *)
(* number.  The table is a value, db, and every method of the class that   *)
(* changes it is an operator from a table to a table, so that the relay    *)
(* (OutboxRelay) can run several of them in one uninterrupted stretch of   *)
(* JavaScript.  Time is a countdown: lease[id] is the time left before     *)
(* claimExpiresAt, so "claimExpiresAt <= now" is lease[id] = 0.  The state *)
(* of an absent record tells whether it was never enqueued (NONE), was     *)
(* deleted after being sent (PURGED) or deleted while FAILED (DROPPED).    *)
(*                                                                         *)
(* Abstracted: retention time (any SENT record may be past it) and the     *)
(* createdAt / sentAt sort keys (claims and evictions of equal rank happen *)
(* in any order).  Both only add behaviours.                               *)
(***************************************************************************)
EXTENDS Integers, FiniteSets

CONSTANTS Aggregates,   \* aggregate ids
          Relays,       \* worker ids of the relays
          NoRelay,      \* claimedBy = null
          MaxSeq,       \* bound: records enqueued per aggregate
          Lease,        \* claimLeaseMs
          MaxAttempts,  \* maxAttempts
          BatchSize,    \* batchSize of a poll
          MaxRecords    \* maxRecords

ASSUME OutboxAssumption ==
  /\ IsFiniteSet(Aggregates)
  /\ NoRelay \notin Relays
  /\ MaxSeq \in Nat
  /\ Lease \in Nat \ {0}
  /\ MaxAttempts \in Nat \ {0}
  /\ BatchSize \in Nat
  /\ MaxRecords \in Nat

Seqs == 0 .. MaxSeq - 1
Ids == Aggregates \X Seqs

Unsent == {"PENDING", "PROCESSING", "FAILED"}
Stored == Unsent \cup {"SENT"}
OutboxState == Stored \cup {"NONE", "PURGED", "DROPPED"}

Tables == [ state    : [Ids -> OutboxState],
            owner    : [Ids -> Relays \cup {NoRelay}],
            lease    : [Ids -> 0 .. Lease],
            attempts : [Ids -> 0 .. MaxAttempts],
            nextSeq  : [Aggregates -> 0 .. MaxSeq] ]

EmptyTable == [ state    |-> [id \in Ids |-> "NONE"],
                owner    |-> [id \in Ids |-> NoRelay],
                lease    |-> [id \in Ids |-> 0],
                attempts |-> [id \in Ids |-> 0],
                nextSeq  |-> [a \in Aggregates |-> 0] ]

Minimum(m, n) == IF m <= n THEN m ELSE n

InState(d, S) == {id \in Ids : d.state[id] \in S}

-----------------------------------------------------------------------------
(* Helpers shared by the methods.                                          *)

\* Records of set S leave PROCESSING: the claim is cleared in every method.
Unclaim(d, S, s) ==
  [d EXCEPT !.state = [id \in Ids |-> IF id \in S THEN s ELSE d.state[id]],
            !.owner = [id \in Ids |-> IF id \in S THEN NoRelay ELSE d.owner[id]],
            !.lease = [id \in Ids |-> IF id \in S THEN 0 ELSE d.lease[id]]]

\* The guard of markSent, markFailed and releaseClaim.
Holds(d, id, w) == d.state[id] = "PROCESSING" /\ d.owner[id] = w

Delete(d, S) ==
  [d EXCEPT !.state = [id \in Ids |-> CASE id \notin S -> d.state[id]
                                        [] id \in S /\ d.state[id] = "SENT" -> "PURGED"
                                        [] OTHER -> "DROPPED"]]

\* The sets of records _enforceMaxRecords may evict: just enough of them,
\* SENT before FAILED, never PENDING or PROCESSING.
EvictionSets(d) ==
  LET sent   == InState(d, {"SENT"})
      failed == InState(d, {"FAILED"})
      excess == Cardinality(InState(d, Stored)) - MaxRecords
  IN  {R \in SUBSET (sent \cup failed) :
         /\ Cardinality(R) = IF excess <= 0 THEN 0
                             ELSE Minimum(excess, Cardinality(sent \cup failed))
         /\ R \cap failed # {} => sent \subseteq R}

EnforceMaxRecords(d) == {Delete(d, R) : R \in EvictionSets(d)}

-----------------------------------------------------------------------------
(* The methods.                                                            *)

\* enqueue: the record takes the next sequence number of its aggregate.
Enqueued(d, a) ==
  LET id == <<a, d.nextSeq[a]>>
  IN  [d EXCEPT !.state[id] = "PENDING", !.nextSeq[a] = @ + 1]

\* Mutant: releases claims whether or not they have expired.
ReleaseAllClaims(d) == Unclaim(d, InState(d, {"PROCESSING"}), "PENDING")

ReleaseExpired(d) ==
  Unclaim(d, {id \in Ids : d.state[id] = "PROCESSING" /\ d.lease[id] = 0}, "PENDING")

\* headByAggregate: per aggregate, the stored record with the least sequence
\* number that is not SENT.
Heads(d) ==
  {id \in InState(d, Unsent) :
     \A n \in Seqs : <<id[1], n>> \in InState(d, Unsent) => id[2] <= n}

\* Mutant: forgets that a record waits for its predecessors.
ClaimableAnyPending(d) == InState(d, {"PENDING"})

Claimable(d) == Heads(d) \cap InState(d, {"PENDING"})

\* What claimBatch may claim, the expired claims being released already.
ClaimSets(d) ==
  {S \in SUBSET Claimable(d) :
     Cardinality(S) = Minimum(BatchSize, Cardinality(Claimable(d)))}

Claimed(d, S, w) ==
  [d EXCEPT !.state = [id \in Ids |-> IF id \in S THEN "PROCESSING" ELSE d.state[id]],
            !.owner = [id \in Ids |-> IF id \in S THEN w ELSE d.owner[id]],
            !.lease = [id \in Ids |-> IF id \in S THEN Lease ELSE d.lease[id]]]

\* markSent, for every record of S in turn.
MarkSent(d, S, w) == Unclaim(d, {id \in S : Holds(d, id, w)}, "SENT")

\* Mutant: never gives up.
MarkFailedForever(d, id, w) ==
  IF ~Holds(d, id, w) THEN d ELSE Unclaim(d, {id}, "PENDING")

MarkFailed(d, id, w) ==
  IF ~Holds(d, id, w) THEN d
  ELSE LET n == d.attempts[id] + 1
           s == IF n >= MaxAttempts THEN "FAILED" ELSE "PENDING"
       IN  [Unclaim(d, {id}, s) EXCEPT !.attempts[id] = n]

ReleaseClaim(d, id, w) == Unclaim(d, {i \in {id} : Holds(d, i, w)}, "PENDING")

\* Mutant: requeues records that were sent, too.
RequeueAny(d, id) ==
  IF d.state[id] \notin {"FAILED", "SENT"} THEN d
  ELSE [d EXCEPT !.state[id] = "PENDING", !.attempts[id] = 0]

Requeue(d, id) ==
  IF d.state[id] # "FAILED" THEN d
  ELSE [d EXCEPT !.state[id] = "PENDING", !.attempts[id] = 0]

\* cleanup: purge the SENT records past retention (any set of them), then
\* enforce the size cap.
Cleanups(d) ==
  UNION {EnforceMaxRecords(Delete(d, R)) : R \in SUBSET InState(d, {"SENT"})}

\* Mutant: the countdown runs below zero, where a lease is no longer expired.
ElapsedUnbounded(d) == [d EXCEPT !.lease = [id \in Ids |-> d.lease[id] - 1]]

Elapsed(d) == [d EXCEPT !.lease = [id \in Ids |-> IF d.lease[id] = 0 THEN 0
                                                  ELSE d.lease[id] - 1]]

-----------------------------------------------------------------------------
(* What the table guarantees by itself.                                    *)

\* Head-of-line blocking: a record has left PENDING only if every earlier
\* record of its aggregate was sent, or was deleted after failing.
\* (claimBatch's headByAggregate and the claim guards of the mark methods.)
HeadOfLine(d) ==
  \A a \in Aggregates, m, n \in Seqs :
    m < n /\ d.state[<<a, n>>] \in {"PROCESSING", "SENT", "PURGED", "FAILED", "DROPPED"}
      => d.state[<<a, m>>] \in {"SENT", "PURGED", "DROPPED"}

\* A claim, its owner and its lease come and go together.
ClaimCoherent(d) ==
  \A id \in Ids : /\ d.state[id] = "PROCESSING" <=> d.owner[id] # NoRelay
                  /\ d.lease[id] > 0 => d.state[id] = "PROCESSING"

\* FAILED means the attempts are used up; an open record has attempts left.
AttemptsBudget(d) ==
  \A id \in Ids :
    /\ d.state[id] = "FAILED" => d.attempts[id] = MaxAttempts
    /\ d.state[id] \in {"NONE", "PENDING", "PROCESSING"} => d.attempts[id] < MaxAttempts

\* Exactly the sequence numbers below nextSeq were handed out.
SequenceContiguous(d) ==
  \A a \in Aggregates, n \in Seqs : d.state[<<a, n>>] # "NONE" <=> n < d.nextSeq[a]

TableOK(d) == /\ d \in Tables
              /\ HeadOfLine(d)
              /\ ClaimCoherent(d)
              /\ AttemptsBudget(d)
              /\ SequenceContiguous(d)

-----------------------------------------------------------------------------
(* The table used directly, by workers that call its methods.              *)

VARIABLE db

TableInit == db = EmptyTable

Enqueue(a) == /\ db.nextSeq[a] < MaxSeq
              /\ db' \in EnforceMaxRecords(Enqueued(db, a))

ClaimBatch(w) == LET d == ReleaseExpired(db)
                 IN  \E S \in ClaimSets(d) : db' = Claimed(d, S, w)

\* A worker reports on a record it believes to hold; a worker that holds
\* nothing gets false or null and changes nothing.
Report(id, w) == \/ db' = MarkSent(db, {id}, w)
                 \/ db' = MarkFailed(db, id, w)
                 \/ db' = ReleaseClaim(db, id, w)

Operate == \/ \E id \in Ids : db' = Requeue(db, id)
           \/ db' \in Cleanups(db)

Tick == db' = Elapsed(db)

TableNext == \/ \E a \in Aggregates : Enqueue(a)
             \/ \E w \in Relays : ClaimBatch(w)
             \/ \E id \in Ids, w \in Relays : Report(id, w)
             \/ Operate
             \/ Tick

TableSpec == TableInit /\ [][TableNext]_db

TableInv == TableOK(db)

\* From d to e, no settled record is reopened (it may be purged).
SettledKept(d, e) ==
  \A id \in Ids : d.state[id] \in {"SENT", "PURGED", "DROPPED"}
    => \/ e.state[id] = d.state[id]
       \/ d.state[id] = "SENT" /\ e.state[id] = "PURGED"

\* A sent record is never reopened and a deleted one never comes back, so a
\* message that was reported sent is never offered to a relay again.
SettledForGood == [][SettledKept(db, db')]_db
=============================================================================
