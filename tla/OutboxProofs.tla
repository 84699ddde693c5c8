---------------------------- MODULE OutboxProofs ----------------------------
(***************************************************************************)
(*  The outbox relays lose no message and deliver in order, for any        *)
(*  number of aggregates, relays, overlapping polls, records, attempts     *)
(*  and crashes; and the table keeps TableOK whatever the workers call,    *)
(*  for every number of them.                                              *)
(***************************************************************************)
EXTENDS OutboxRelay, DataLemmas

-----------------------------------------------------------------------------
(***************************************************************************)
(*  The table: no method of OutboxStore breaks TableOK.                    *)
(***************************************************************************)

\* What Unclaim writes, field by field.
LEMMA UnclaimFields ==
  ASSUME NEW d \in Tables, NEW S, NEW s \in OutboxState
  PROVE  /\ Unclaim(d, S, s) \in Tables
         /\ Unclaim(d, S, s).attempts = d.attempts
         /\ Unclaim(d, S, s).nextSeq = d.nextSeq
         /\ \A id \in Ids :
              /\ Unclaim(d, S, s).state[id] = IF id \in S THEN s ELSE d.state[id]
              /\ Unclaim(d, S, s).owner[id] = IF id \in S THEN NoRelay ELSE d.owner[id]
              /\ Unclaim(d, S, s).lease[id] = IF id \in S THEN 0 ELSE d.lease[id]
  <1> DEFINE st == [id \in Ids |-> IF id \in S THEN s ELSE d.state[id]]
             ow == [id \in Ids |-> IF id \in S THEN NoRelay ELSE d.owner[id]]
             le == [id \in Ids |-> IF id \in S THEN 0 ELSE d.lease[id]]
  <1>1. st \in [Ids -> OutboxState]
    BY DEF Tables
  <1>2. ow \in [Ids -> Relays \cup {NoRelay}]
    BY DEF Tables
  <1>3. le \in [Ids -> 0 .. Lease]
    BY OutboxAssumption DEF Tables
  <1>4. Unclaim(d, S, s) = [d EXCEPT !.state = st, !.owner = ow, !.lease = le]
    BY DEF Unclaim
  <1>5. \A id \in Ids : /\ st[id] = IF id \in S THEN s ELSE d.state[id]
                        /\ ow[id] = IF id \in S THEN NoRelay ELSE d.owner[id]
                        /\ le[id] = IF id \in S THEN 0 ELSE d.lease[id]
    OBVIOUS
  <1> HIDE DEF st, ow, le
  <1> QED BY <1>1, <1>2, <1>3, <1>4, <1>5 DEF Tables

\* What Claimed writes.
LEMMA ClaimedFields ==
  ASSUME NEW d \in Tables, NEW S, NEW w \in Relays
  PROVE  /\ Claimed(d, S, w) \in Tables
         /\ Claimed(d, S, w).attempts = d.attempts
         /\ Claimed(d, S, w).nextSeq = d.nextSeq
         /\ \A id \in Ids :
              /\ Claimed(d, S, w).state[id] = IF id \in S THEN "PROCESSING" ELSE d.state[id]
              /\ Claimed(d, S, w).owner[id] = IF id \in S THEN w ELSE d.owner[id]
              /\ Claimed(d, S, w).lease[id] = IF id \in S THEN Lease ELSE d.lease[id]
  <1> DEFINE st == [id \in Ids |-> IF id \in S THEN "PROCESSING" ELSE d.state[id]]
             ow == [id \in Ids |-> IF id \in S THEN w ELSE d.owner[id]]
             le == [id \in Ids |-> IF id \in S THEN Lease ELSE d.lease[id]]
  <1>1. st \in [Ids -> OutboxState]
    BY DEF Tables, OutboxState, Stored, Unsent
  <1>2. ow \in [Ids -> Relays \cup {NoRelay}]
    BY DEF Tables
  <1>3. le \in [Ids -> 0 .. Lease]
    BY OutboxAssumption DEF Tables
  <1>4. Claimed(d, S, w) = [d EXCEPT !.state = st, !.owner = ow, !.lease = le]
    BY DEF Claimed
  <1>5. \A id \in Ids : /\ st[id] = IF id \in S THEN "PROCESSING" ELSE d.state[id]
                        /\ ow[id] = IF id \in S THEN w ELSE d.owner[id]
                        /\ le[id] = IF id \in S THEN Lease ELSE d.lease[id]
    OBVIOUS
  <1> HIDE DEF st, ow, le
  <1> QED BY <1>1, <1>2, <1>3, <1>4, <1>5 DEF Tables

\* What Delete writes.
LEMMA DeleteFields ==
  ASSUME NEW d \in Tables, NEW S
  PROVE  /\ Delete(d, S) \in Tables
         /\ Delete(d, S).attempts = d.attempts
         /\ Delete(d, S).nextSeq = d.nextSeq
         /\ Delete(d, S).owner = d.owner
         /\ Delete(d, S).lease = d.lease
         /\ \A id \in Ids :
              Delete(d, S).state[id] = IF id \notin S THEN d.state[id]
                                       ELSE IF d.state[id] = "SENT" THEN "PURGED"
                                       ELSE "DROPPED"
  BY DEF Delete, Tables, OutboxState

\* The empty table is consistent.
LEMMA EmptyTableOK == TableOK(EmptyTable)
  <1>1. EmptyTable \in Tables
    BY OutboxAssumption DEF EmptyTable, Tables, OutboxState
  <1>2. HeadOfLine(EmptyTable)
    BY DEF EmptyTable, HeadOfLine, Ids
  <1>3. ClaimCoherent(EmptyTable)
    BY DEF EmptyTable, ClaimCoherent
  <1>4. AttemptsBudget(EmptyTable)
    BY OutboxAssumption DEF EmptyTable, AttemptsBudget
  <1>5. SequenceContiguous(EmptyTable)
    BY DEF EmptyTable, SequenceContiguous, Ids, Seqs
  <1> QED BY <1>1, <1>2, <1>3, <1>4, <1>5 DEF TableOK

\* Claimed records may go back to PENDING or become SENT, in any number.
LEMMA UnclaimOK ==
  ASSUME NEW d, TableOK(d), NEW s \in {"PENDING", "SENT"},
         NEW S, \A id \in S : id \in Ids /\ d.state[id] = "PROCESSING"
  PROVE  TableOK(Unclaim(d, S, s))
  <1> DEFINE e == Unclaim(d, S, s)
  <1>1. d \in Tables /\ s \in OutboxState
    BY DEF TableOK, OutboxState, Stored, Unsent
  <1>2. /\ e \in Tables /\ e.attempts = d.attempts /\ e.nextSeq = d.nextSeq
        /\ \A id \in Ids : /\ e.state[id] = IF id \in S THEN s ELSE d.state[id]
                           /\ e.owner[id] = IF id \in S THEN NoRelay ELSE d.owner[id]
                           /\ e.lease[id] = IF id \in S THEN 0 ELSE d.lease[id]
    BY <1>1, UnclaimFields
  <1> HIDE DEF e
  <1>3. HeadOfLine(e)
    BY <1>2 DEF TableOK, HeadOfLine, Ids
  <1>4. ClaimCoherent(e)
    BY <1>2 DEF TableOK, ClaimCoherent
  <1>5. AttemptsBudget(e)
    BY <1>2 DEF TableOK, AttemptsBudget
  <1>6. SequenceContiguous(e)
    BY <1>2, ZenonT(30) DEF TableOK, SequenceContiguous, Ids
  <1> QED BY <1>2, <1>3, <1>4, <1>5, <1>6 DEF TableOK, e

LEMMA ReleaseExpiredOK ==
  ASSUME NEW d, TableOK(d)
  PROVE  TableOK(ReleaseExpired(d))
  BY UnclaimOK DEF ReleaseExpired

LEMMA MarkSentOK ==
  ASSUME NEW d, TableOK(d), NEW S \in SUBSET Ids, NEW w
  PROVE  TableOK(MarkSent(d, S, w))
  BY UnclaimOK DEF MarkSent, Holds

LEMMA ReleaseClaimOK ==
  ASSUME NEW d, TableOK(d), NEW id \in Ids, NEW w
  PROVE  TableOK(ReleaseClaim(d, id, w))
  BY UnclaimOK DEF ReleaseClaim, Holds

\* A claim takes heads of their aggregates only, so that HeadOfLine is kept:
\* all earlier records have been handed out and are no longer open.
LEMMA ClaimedOK ==
  ASSUME NEW d, TableOK(d), NEW S, S \subseteq Claimable(d), NEW w \in Relays
  PROVE  TableOK(Claimed(d, S, w))
  <1> DEFINE e == Claimed(d, S, w)
  <1>1. /\ e \in Tables /\ e.attempts = d.attempts /\ e.nextSeq = d.nextSeq
        /\ \A id \in Ids : /\ e.state[id] = IF id \in S THEN "PROCESSING" ELSE d.state[id]
                           /\ e.owner[id] = IF id \in S THEN w ELSE d.owner[id]
                           /\ e.lease[id] = IF id \in S THEN Lease ELSE d.lease[id]
    BY ClaimedFields DEF TableOK
  <1>2. \A id \in S : id \in Ids /\ d.state[id] = "PENDING"
    BY DEF Claimable, InState
  <1> HIDE DEF e
  <1>3. ASSUME NEW a \in Aggregates, NEW m \in Seqs, NEW n \in Seqs,
               m < n, <<a, n>> \in S
        PROVE  d.state[<<a, m>>] \in {"SENT", "PURGED", "DROPPED"}
    <2>1. <<a, m>> \in Ids /\ <<a, n>> \in Ids
      BY DEF Ids
    <2>2. d.state[<<a, m>>] # "NONE"
      <3>1. d.nextSeq[a] \in Int
        BY OutboxAssumption DEF TableOK, Tables
      <3>2. d.state[<<a, n>>] # "NONE"
        BY <1>2, <1>3
      <3> QED BY <1>3, <3>1, <3>2 DEF TableOK, SequenceContiguous, Seqs
    <2>3. d.state[<<a, m>>] \notin Unsent
      <3>1. <<a, n>> \in Heads(d)
        BY <1>3 DEF Claimable
      <3>2. <<a, m>> \in InState(d, Unsent) => n <= m
        BY <3>1, <2>1 DEF Heads
      <3> QED BY <1>3, <2>1, <3>2 DEF InState, Seqs
    <2>4. d.state[<<a, m>>] \in OutboxState
      BY <2>1 DEF TableOK, Tables
    <2> QED BY <2>2, <2>3, <2>4 DEF OutboxState, Stored
  <1>4. HeadOfLine(e)
    BY <1>1, <1>2, <1>3 DEF TableOK, HeadOfLine, Ids
  <1>5. ClaimCoherent(e)
    BY <1>1, <1>2, OutboxAssumption DEF TableOK, ClaimCoherent
  <1>6. AttemptsBudget(e)
    BY <1>1, <1>2 DEF TableOK, AttemptsBudget
  <1>7. SequenceContiguous(e)
    BY <1>1, <1>2, ZenonT(30) DEF TableOK, SequenceContiguous, Ids
  <1> QED BY <1>1, <1>4, <1>5, <1>6, <1>7 DEF TableOK, e

\* Only settled records are deleted.
LEMMA DeleteOK ==
  ASSUME NEW d, TableOK(d), NEW S, S \subseteq InState(d, {"SENT", "FAILED"})
  PROVE  TableOK(Delete(d, S))
  <1> DEFINE e == Delete(d, S)
  <1>1. /\ e \in Tables /\ e.attempts = d.attempts /\ e.nextSeq = d.nextSeq
        /\ e.owner = d.owner /\ e.lease = d.lease
        /\ \A id \in Ids : e.state[id] = IF id \notin S THEN d.state[id]
                                         ELSE IF d.state[id] = "SENT" THEN "PURGED"
                                         ELSE "DROPPED"
    BY DeleteFields DEF TableOK
  <1>2. \A id \in S : id \in Ids /\ d.state[id] \in {"SENT", "FAILED"}
    BY DEF InState
  <1> HIDE DEF e
  <1>3. HeadOfLine(e)
    BY <1>1, <1>2 DEF TableOK, HeadOfLine, Ids
  <1>4. ClaimCoherent(e)
    BY <1>1, <1>2 DEF TableOK, ClaimCoherent
  <1>5. AttemptsBudget(e)
    BY <1>1, <1>2 DEF TableOK, AttemptsBudget
  <1>6. SequenceContiguous(e)
    BY <1>1, <1>2, ZenonT(30) DEF TableOK, SequenceContiguous, Ids
  <1> QED BY <1>1, <1>3, <1>4, <1>5, <1>6 DEF TableOK, e

LEMMA EnforceMaxRecordsOK ==
  ASSUME NEW d, TableOK(d), NEW e \in EnforceMaxRecords(d)
  PROVE  TableOK(e)
  <1>1. PICK R \in EvictionSets(d) : e = Delete(d, R)
    BY DEF EnforceMaxRecords
  <1>2. R \subseteq InState(d, {"SENT", "FAILED"})
    BY DEF EvictionSets, InState
  <1> QED BY <1>1, <1>2, DeleteOK

LEMMA CleanupsOK ==
  ASSUME NEW d, TableOK(d), NEW e \in Cleanups(d)
  PROVE  TableOK(e)
  <1>1. PICK R \in SUBSET InState(d, {"SENT"}) : e \in EnforceMaxRecords(Delete(d, R))
    BY DEF Cleanups
  <1>2. R \subseteq InState(d, {"SENT", "FAILED"})
    BY DEF InState
  <1> QED BY <1>1, <1>2, DeleteOK, EnforceMaxRecordsOK

LEMMA EnqueuedOK ==
  ASSUME NEW d, TableOK(d), NEW a \in Aggregates, d.nextSeq[a] < MaxSeq
  PROVE  TableOK(Enqueued(d, a))
  <1> DEFINE e == Enqueued(d, a)
             k == d.nextSeq[a]
  <1>1. k \in 0 .. MaxSeq /\ k \in Seqs /\ <<a, k>> \in Ids /\ d \in Tables
    BY OutboxAssumption DEF TableOK, Tables, Seqs, Ids
  <1>2. d.state[<<a, k>>] = "NONE"
    BY <1>1 DEF TableOK, SequenceContiguous
  <1>3. /\ e \in Tables /\ e.owner = d.owner /\ e.lease = d.lease /\ e.attempts = d.attempts
        /\ e.state = [d.state EXCEPT ![<<a, k>>] = "PENDING"]
        /\ e.nextSeq = [d.nextSeq EXCEPT ![a] = k + 1]
    <2> DEFINE st == [d.state EXCEPT ![<<a, k>>] = "PENDING"]
               ns == [d.nextSeq EXCEPT ![a] = k + 1]
    <2>1. st \in [Ids -> OutboxState]
      BY <1>1 DEF Tables, OutboxState, Stored, Unsent
    <2>2. k + 1 \in 0 .. MaxSeq
      BY <1>1, OutboxAssumption
    <2>3. ns \in [Aggregates -> 0 .. MaxSeq]
      BY <1>1, <2>2 DEF Tables
    <2>4. e = [d EXCEPT !.state = st, !.nextSeq = ns]
      BY <1>1 DEF Enqueued, Tables
    <2> HIDE DEF st, ns
    <2>5. e \in Tables /\ e.owner = d.owner /\ e.lease = d.lease /\ e.attempts = d.attempts
          /\ e.state = st /\ e.nextSeq = ns
      BY <1>1, <2>1, <2>3, <2>4 DEF Tables
    <2> QED BY <2>5 DEF st, ns
  <1>4. \A id \in Ids : e.state[id] = IF id = <<a, k>> THEN "PENDING" ELSE d.state[id]
    BY <1>1, <1>3 DEF Tables
  <1>5. \A b \in Aggregates : e.nextSeq[b] = IF b = a THEN k + 1 ELSE d.nextSeq[b]
    BY <1>1, <1>3 DEF Tables
  <1>6. \A b \in Aggregates : d.nextSeq[b] \in Int
    BY <1>1, OutboxAssumption DEF Tables
  <1> HIDE DEF e, k
  <1>7. HeadOfLine(e)
    BY <1>2, <1>4 DEF TableOK, HeadOfLine, Ids
  <1>8. ClaimCoherent(e)
    BY <1>2, <1>3, <1>4 DEF TableOK, ClaimCoherent
  <1>9. AttemptsBudget(e)
    BY <1>2, <1>3, <1>4 DEF TableOK, AttemptsBudget
  <1>10. SequenceContiguous(e)
    <2> SUFFICES ASSUME NEW b \in Aggregates, NEW n \in Seqs
                 PROVE  e.state[<<b, n>>] # "NONE" <=> n < e.nextSeq[b]
      BY DEF SequenceContiguous
    <2>1. <<b, n>> \in Ids /\ (d.state[<<b, n>>] # "NONE" <=> n < d.nextSeq[b])
      BY DEF TableOK, SequenceContiguous, Ids
    <2> QED BY <2>1, <1>1, <1>4, <1>5, <1>6 DEF Seqs, k
  <1> QED BY <1>3, <1>7, <1>8, <1>9, <1>10 DEF TableOK, e

LEMMA MarkFailedOK ==
  ASSUME NEW d, TableOK(d), NEW id \in Ids, NEW w
  PROVE  TableOK(MarkFailed(d, id, w))
  <1>1. CASE ~Holds(d, id, w)
    BY <1>1 DEF MarkFailed
  <1>2. CASE Holds(d, id, w)
    <2> DEFINE n == d.attempts[id] + 1
               s == IF n >= MaxAttempts THEN "FAILED" ELSE "PENDING"
               u == Unclaim(d, {id}, s)
               e == [u EXCEPT !.attempts[id] = n]
    <2>1. d \in Tables /\ s \in OutboxState
      BY DEF TableOK, OutboxState, Stored, Unsent
    <2>2. d.state[id] = "PROCESSING" /\ d.attempts[id] < MaxAttempts /\ d.attempts[id] \in Nat
      BY <1>2, <2>1, OutboxAssumption DEF Holds, TableOK, AttemptsBudget, Tables
    <2>3. /\ u \in Tables /\ u.attempts = d.attempts /\ u.nextSeq = d.nextSeq
          /\ \A i \in Ids : /\ u.state[i] = IF i \in {id} THEN s ELSE d.state[i]
                            /\ u.owner[i] = IF i \in {id} THEN NoRelay ELSE d.owner[i]
                            /\ u.lease[i] = IF i \in {id} THEN 0 ELSE d.lease[i]
      BY <2>1, UnclaimFields
    <2>4. s \in {"FAILED", "PENDING"} /\ (s = "FAILED" <=> n = MaxAttempts) /\ n \in 0 .. MaxAttempts
      BY <2>2, OutboxAssumption
    <2>5. MarkFailed(d, id, w) = e
      BY <1>2 DEF MarkFailed
    <2> HIDE DEF s, u, n
    <2>6. /\ e \in Tables /\ e.state = u.state /\ e.owner = u.owner /\ e.lease = u.lease
          /\ e.nextSeq = u.nextSeq
          /\ \A i \in Ids : e.attempts[i] = IF i = id THEN n ELSE d.attempts[i]
      BY <2>3, <2>4 DEF Tables
    <2> HIDE DEF e
    <2>7. HeadOfLine(e)
      <3> SUFFICES ASSUME NEW a \in Aggregates, NEW j \in Seqs, NEW k \in Seqs, j < k,
                          e.state[<<a, k>>]
                            \in {"PROCESSING", "SENT", "PURGED", "FAILED", "DROPPED"}
                   PROVE  e.state[<<a, j>>] \in {"SENT", "PURGED", "DROPPED"}
        BY DEF HeadOfLine
      <3>1. <<a, j>> \in Ids /\ <<a, k>> \in Ids
        BY DEF Ids
      <3>2. d.state[<<a, k>>] \in {"PROCESSING", "SENT", "PURGED", "FAILED", "DROPPED"}
        BY <3>1, <2>2, <2>3, <2>6
      <3>3. d.state[<<a, j>>] \in {"SENT", "PURGED", "DROPPED"}
        BY <3>2 DEF TableOK, HeadOfLine
      <3> QED BY <3>1, <3>3, <2>2, <2>3, <2>6
    <2>8. ClaimCoherent(e)
      BY <2>2, <2>3, <2>4, <2>6 DEF TableOK, ClaimCoherent
    <2>9. AttemptsBudget(e)
      BY <2>2, <2>3, <2>4, <2>6, OutboxAssumption DEF TableOK, AttemptsBudget
    <2>10. SequenceContiguous(e)
      <3> SUFFICES ASSUME NEW a \in Aggregates, NEW k \in Seqs
                   PROVE  e.state[<<a, k>>] # "NONE" <=> k < e.nextSeq[a]
        BY DEF SequenceContiguous
      <3>1. <<a, k>> \in Ids /\ (d.state[<<a, k>>] # "NONE" <=> k < d.nextSeq[a])
        BY DEF Ids, TableOK, SequenceContiguous
      <3> QED BY <3>1, <2>2, <2>3, <2>4, <2>6
    <2> QED BY <2>5, <2>6, <2>7, <2>8, <2>9, <2>10 DEF TableOK
  <1> QED BY <1>1, <1>2

LEMMA RequeueOK ==
  ASSUME NEW d, TableOK(d), NEW id \in Ids
  PROVE  TableOK(Requeue(d, id))
  <1>1. CASE d.state[id] # "FAILED"
    BY <1>1 DEF Requeue
  <1>2. CASE d.state[id] = "FAILED"
    <2> DEFINE e == [d EXCEPT !.state[id] = "PENDING", !.attempts[id] = 0]
    <2>1. d \in Tables /\ Requeue(d, id) = e
      BY <1>2 DEF TableOK, Requeue
    <2>2. /\ e \in Tables /\ e.owner = d.owner /\ e.lease = d.lease /\ e.nextSeq = d.nextSeq
          /\ \A i \in Ids : /\ e.state[i] = IF i = id THEN "PENDING" ELSE d.state[i]
                            /\ e.attempts[i] = IF i = id THEN 0 ELSE d.attempts[i]
      <3> DEFINE st == [d.state EXCEPT ![id] = "PENDING"]
                 at == [d.attempts EXCEPT ![id] = 0]
      <3>1. /\ st \in [Ids -> OutboxState]
            /\ \A i \in Ids : st[i] = IF i = id THEN "PENDING" ELSE d.state[i]
        BY <2>1 DEF Tables, OutboxState, Stored, Unsent
      <3>2. /\ at \in [Ids -> 0 .. MaxAttempts]
            /\ \A i \in Ids : at[i] = IF i = id THEN 0 ELSE d.attempts[i]
        BY <2>1, OutboxAssumption DEF Tables
      <3>3. e = [d EXCEPT !.state = st, !.attempts = at]
        BY <2>1 DEF Tables
      <3> HIDE DEF st, at, e
      <3> QED BY <2>1, <3>1, <3>2, <3>3 DEF Tables
    <2> HIDE DEF e
    <2>3. HeadOfLine(e)
      BY <1>2, <2>2 DEF TableOK, HeadOfLine, Ids
    <2>4. ClaimCoherent(e)
      BY <1>2, <2>2 DEF TableOK, ClaimCoherent
    <2>5. AttemptsBudget(e)
      BY <1>2, <2>2, OutboxAssumption DEF TableOK, AttemptsBudget
    <2>6. SequenceContiguous(e)
      BY <1>2, <2>2 DEF TableOK, SequenceContiguous, Ids
    <2> QED BY <2>1, <2>2, <2>3, <2>4, <2>5, <2>6 DEF TableOK
  <1> QED BY <1>1, <1>2

LEMMA ElapsedOK ==
  ASSUME NEW d, TableOK(d)
  PROVE  TableOK(Elapsed(d))
  <1> DEFINE e == Elapsed(d)
  <1>1. /\ e \in Tables /\ e.state = d.state /\ e.owner = d.owner
        /\ e.attempts = d.attempts /\ e.nextSeq = d.nextSeq
        /\ \A id \in Ids : e.lease[id] = IF d.lease[id] = 0 THEN 0 ELSE d.lease[id] - 1
    BY OutboxAssumption DEF TableOK, Tables, Elapsed
  <1>2. \A id \in Ids : d.lease[id] \in Nat
    BY OutboxAssumption DEF TableOK, Tables
  <1> HIDE DEF e
  <1>3. HeadOfLine(e) /\ AttemptsBudget(e) /\ SequenceContiguous(e)
    BY <1>1 DEF TableOK, HeadOfLine, AttemptsBudget, SequenceContiguous
  <1>4. ClaimCoherent(e)
    BY <1>1, <1>2 DEF TableOK, ClaimCoherent
  <1> QED BY <1>1, <1>3, <1>4 DEF TableOK, e

-----------------------------------------------------------------------------
LEMMA EnqueueInv ==
  ASSUME TableInv, NEW a \in Aggregates, Enqueue(a)
  PROVE  TableInv'
  <1>1. TableOK(Enqueued(db, a))
    BY EnqueuedOK DEF TableInv, Enqueue
  <1>2. TableOK(db')
    BY <1>1, EnforceMaxRecordsOK DEF Enqueue
  <1> QED BY <1>2 DEF TableInv

LEMMA OperateInv ==
  ASSUME TableInv, Operate
  PROVE  TableInv'
  <1>1. TableOK(db')
    BY RequeueOK, CleanupsOK DEF TableInv, Operate
  <1> QED BY <1>1 DEF TableInv

\* The table's invariant: head-of-line blocking, coherent claims, attempts
\* within their budget and contiguous sequence numbers (claimBatch, markSent,
\* markFailed, releaseClaim, requeue, cleanup, enqueue).
THEOREM TableInvariant == TableSpec => []TableInv
  <1>1. TableInit => TableInv
    BY EmptyTableOK DEF TableInit, TableInv
  <1>2. TableInv /\ [TableNext]_db => TableInv'
    <2> SUFFICES ASSUME TableInv, [TableNext]_db
                 PROVE  TableInv'
      OBVIOUS
    <2>1. ASSUME NEW a \in Aggregates, Enqueue(a)
          PROVE  TableInv'
      BY <2>1, EnqueueInv
    <2>2. ASSUME NEW w \in Relays, ClaimBatch(w)
          PROVE  TableInv'
      <3>1. TableOK(ReleaseExpired(db))
        BY ReleaseExpiredOK DEF TableInv
      <3>2. PICK S \in ClaimSets(ReleaseExpired(db)) : db' = Claimed(ReleaseExpired(db), S, w)
        BY <2>2 DEF ClaimBatch
      <3>3. S \subseteq Claimable(ReleaseExpired(db))
        BY DEF ClaimSets
      <3>4. TableOK(db')
        BY <3>1, <3>2, <3>3, ClaimedOK
      <3> QED BY <3>4 DEF TableInv
    <2>3. ASSUME NEW id \in Ids, NEW w \in Relays, Report(id, w)
          PROVE  TableInv'
      <3>1. TableOK(db')
        BY <2>3, MarkSentOK, MarkFailedOK, ReleaseClaimOK DEF Report, TableInv
      <3> QED BY <3>1 DEF TableInv
    <2>4. ASSUME Operate
          PROVE  TableInv'
      BY <2>4, OperateInv
    <2>5. ASSUME Tick
          PROVE  TableInv'
      <3>1. TableOK(db')
        BY <2>5, ElapsedOK DEF Tick, TableInv
      <3> QED BY <3>1 DEF TableInv
    <2>6. CASE UNCHANGED db
      BY <2>6 DEF TableInv
    <2> QED BY <2>1, <2>2, <2>3, <2>4, <2>5, <2>6 DEF TableNext
  <1> QED BY <1>1, <1>2, PTL DEF TableSpec

-----------------------------------------------------------------------------
(* What was settled stays settled, method by method.                       *)

LEMMA SettledKeptTrans ==
  ASSUME NEW d, NEW e, NEW f, SettledKept(d, e), SettledKept(e, f)
  PROVE  SettledKept(d, f)
  BY DEF SettledKept

LEMMA UnclaimKept ==
  ASSUME NEW d, TableOK(d), NEW s \in OutboxState,
         NEW S, \A id \in S : id \in Ids /\ d.state[id] = "PROCESSING"
  PROVE  SettledKept(d, Unclaim(d, S, s))
  BY UnclaimFields DEF TableOK, SettledKept

LEMMA MarkSentKept ==
  ASSUME NEW d, TableOK(d), NEW S \in SUBSET Ids, NEW w
  PROVE  SettledKept(d, MarkSent(d, S, w))
  BY UnclaimKept DEF MarkSent, Holds, OutboxState, Stored

LEMMA ReleaseClaimKept ==
  ASSUME NEW d, TableOK(d), NEW id \in Ids, NEW w
  PROVE  SettledKept(d, ReleaseClaim(d, id, w))
  BY UnclaimKept DEF ReleaseClaim, Holds, OutboxState, Stored, Unsent

LEMMA ReleaseExpiredKept ==
  ASSUME NEW d, TableOK(d)
  PROVE  SettledKept(d, ReleaseExpired(d))
  BY UnclaimKept DEF ReleaseExpired, OutboxState, Stored, Unsent

LEMMA MarkFailedKept ==
  ASSUME NEW d, TableOK(d), NEW id \in Ids, NEW w
  PROVE  SettledKept(d, MarkFailed(d, id, w))
  <1>1. CASE ~Holds(d, id, w)
    BY <1>1 DEF MarkFailed, SettledKept
  <1>2. CASE Holds(d, id, w)
    <2> DEFINE n == d.attempts[id] + 1
               s == IF n >= MaxAttempts THEN "FAILED" ELSE "PENDING"
               u == Unclaim(d, {id}, s)
    <2>1. s \in OutboxState
      BY DEF OutboxState, Stored, Unsent
    <2>2. SettledKept(d, u) /\ u \in Tables
      BY <1>2, <2>1, UnclaimKept, UnclaimFields DEF Holds, TableOK
    <2>3. MarkFailed(d, id, w) = [u EXCEPT !.attempts[id] = n]
      BY <1>2 DEF MarkFailed
    <2> HIDE DEF n, s, u
    <2>4. MarkFailed(d, id, w).state = u.state
      BY <2>2, <2>3 DEF Tables
    <2> QED BY <2>2, <2>4 DEF SettledKept
  <1> QED BY <1>1, <1>2

LEMMA ClaimedKept ==
  ASSUME NEW d, TableOK(d), NEW S, S \subseteq Claimable(d), NEW w \in Relays
  PROVE  SettledKept(d, Claimed(d, S, w))
  <1>1. \A id \in S : id \in Ids /\ d.state[id] = "PENDING"
    BY DEF Claimable, InState
  <1> QED BY <1>1, ClaimedFields DEF TableOK, SettledKept

LEMMA DeleteKept ==
  ASSUME NEW d, TableOK(d), NEW S, S \subseteq InState(d, {"SENT", "FAILED"})
  PROVE  SettledKept(d, Delete(d, S))
  <1>1. \A id \in S : id \in Ids /\ d.state[id] \in {"SENT", "FAILED"}
    BY DEF InState
  <1> QED BY <1>1, DeleteFields DEF TableOK, SettledKept

LEMMA EnforceMaxRecordsKept ==
  ASSUME NEW d, TableOK(d), NEW e \in EnforceMaxRecords(d)
  PROVE  SettledKept(d, e)
  <1>1. PICK R \in EvictionSets(d) : e = Delete(d, R)
    BY DEF EnforceMaxRecords
  <1>2. R \subseteq InState(d, {"SENT", "FAILED"})
    BY DEF EvictionSets, InState
  <1> QED BY <1>1, <1>2, DeleteKept

LEMMA CleanupsKept ==
  ASSUME NEW d, TableOK(d), NEW e \in Cleanups(d)
  PROVE  SettledKept(d, e)
  <1>1. PICK R \in SUBSET InState(d, {"SENT"}) : e \in EnforceMaxRecords(Delete(d, R))
    BY DEF Cleanups
  <1>2. R \subseteq InState(d, {"SENT", "FAILED"})
    BY DEF InState
  <1>3. TableOK(Delete(d, R)) /\ SettledKept(d, Delete(d, R))
    BY <1>2, DeleteOK, DeleteKept
  <1> QED BY <1>1, <1>3, EnforceMaxRecordsKept, SettledKeptTrans

LEMMA EnqueuedKept ==
  ASSUME NEW d, TableOK(d), NEW a \in Aggregates, d.nextSeq[a] < MaxSeq
  PROVE  SettledKept(d, Enqueued(d, a))
  <1>1. /\ d \in Tables /\ d.nextSeq[a] \in Seqs
        /\ d.state[<<a, d.nextSeq[a]>>] = "NONE"
    BY OutboxAssumption DEF TableOK, Tables, Seqs, SequenceContiguous
  <1>2. Enqueued(d, a).state = [d.state EXCEPT ![<<a, d.nextSeq[a]>>] = "PENDING"]
    BY <1>1 DEF Enqueued, Tables
  <1> QED BY <1>1, <1>2 DEF SettledKept, Tables

LEMMA RequeueKept ==
  ASSUME NEW d, TableOK(d), NEW id \in Ids
  PROVE  SettledKept(d, Requeue(d, id))
  <1>1. CASE d.state[id] # "FAILED"
    BY <1>1 DEF Requeue, SettledKept
  <1>2. CASE d.state[id] = "FAILED"
    <2>1. d \in Tables /\ Requeue(d, id).state = [d.state EXCEPT ![id] = "PENDING"]
      BY <1>2 DEF TableOK, Tables, Requeue
    <2> QED BY <1>2, <2>1 DEF SettledKept, Tables
  <1> QED BY <1>1, <1>2

LEMMA ElapsedKept ==
  ASSUME NEW d, TableOK(d)
  PROVE  SettledKept(d, Elapsed(d))
  <1>1. d \in Tables /\ Elapsed(d).state = d.state
    BY DEF TableOK, Tables, Elapsed
  <1> QED BY <1>1 DEF SettledKept

LEMMA EnqueueKept ==
  ASSUME TableInv, NEW a \in Aggregates, Enqueue(a)
  PROVE  SettledKept(db, db')
  <1>1. TableOK(Enqueued(db, a)) /\ SettledKept(db, Enqueued(db, a))
    BY EnqueuedOK, EnqueuedKept DEF TableInv, Enqueue
  <1> QED BY <1>1, EnforceMaxRecordsKept, SettledKeptTrans DEF Enqueue

LEMMA OperateKept ==
  ASSUME TableInv, Operate
  PROVE  SettledKept(db, db')
  BY RequeueKept, CleanupsKept DEF TableInv, Operate

\* A record reported sent, or deleted, is never offered to a worker again:
\* no method reopens it (the guards of markSent, markFailed, releaseClaim and
\* requeue, and _enforceMaxRecords deleting SENT and FAILED records only).
THEOREM SettledStaysSettled == TableSpec => SettledForGood
  <1>1. TableInv /\ [TableNext]_db => [SettledKept(db, db')]_db
    <2> SUFFICES ASSUME TableInv, TableNext
                 PROVE  SettledKept(db, db')
      OBVIOUS
    <2>1. ASSUME NEW w \in Relays, ClaimBatch(w)
          PROVE  SettledKept(db, db')
      <3>1. TableOK(ReleaseExpired(db)) /\ SettledKept(db, ReleaseExpired(db))
        BY ReleaseExpiredOK, ReleaseExpiredKept DEF TableInv
      <3>2. PICK S \in ClaimSets(ReleaseExpired(db)) : db' = Claimed(ReleaseExpired(db), S, w)
        BY <2>1 DEF ClaimBatch
      <3>3. S \subseteq Claimable(ReleaseExpired(db))
        BY DEF ClaimSets
      <3> QED BY <3>1, <3>2, <3>3, ClaimedKept, SettledKeptTrans
    <2>2. ASSUME NEW id \in Ids, NEW w \in Relays, Report(id, w)
          PROVE  SettledKept(db, db')
      BY <2>2, MarkSentKept, MarkFailedKept, ReleaseClaimKept DEF Report, TableInv
    <2>3. ASSUME Tick
          PROVE  SettledKept(db, db')
      BY <2>3, ElapsedKept DEF Tick, TableInv
    <2> QED BY <2>1, <2>2, <2>3, EnqueueKept, OperateKept DEF TableNext
  <1> QED BY <1>1, TableInvariant, PTL DEF TableSpec, SettledForGood

-----------------------------------------------------------------------------
(***************************************************************************)
(*  The relays over the table.                                             *)
(***************************************************************************)

-----------------------------------------------------------------------------
(* What a method may do to the records, seen from outside the table.       *)

Outcome(s) == CASE s = "NONE" -> "none"
                [] s \in {"SENT", "PURGED"} -> "sent"
                [] s = "DROPPED" -> "dropped"
                [] OTHER -> "open"

\* From d to e, records only change among the open states.
Quiet(d, e) == \A id \in Ids : Outcome(e.state[id]) = Outcome(d.state[id])

\* From d to e, FAILED records may be deleted.
Evicts(d, e) == \A id \in Ids : \/ Outcome(e.state[id]) = Outcome(d.state[id])
                                \/ d.state[id] = "FAILED" /\ e.state[id] = "DROPPED"

\* From d to e, nothing that was published or settled is lost.
Progress(d, e) ==
  \A id \in Ids :
    /\ Outcome(d.state[id]) # "none" => Outcome(e.state[id]) # "none"
    /\ Outcome(d.state[id]) \in {"sent", "dropped"} => Outcome(e.state[id]) = Outcome(d.state[id])

LEMMA QuietTrans ==
  ASSUME NEW d, NEW e, NEW f, Quiet(d, e), Quiet(e, f)
  PROVE  Quiet(d, f)
  BY DEF Quiet

LEMMA QuietProgress ==
  ASSUME NEW d, NEW e, Quiet(d, e)
  PROVE  Progress(d, e)
  BY DEF Quiet, Progress

LEMMA EvictsProgress ==
  ASSUME NEW d, NEW e, Evicts(d, e)
  PROVE  Progress(d, e)
  BY DEF Evicts, Progress, Outcome

LEMMA ProgressTrans ==
  ASSUME NEW d, NEW e, NEW f, Progress(d, e), Progress(e, f)
  PROVE  Progress(d, f)
  BY DEF Progress

LEMMA UnclaimQuiet ==
  ASSUME NEW d, TableOK(d), NEW s \in Unsent, NEW S, \A id \in S : d.state[id] \in Unsent
  PROVE  Quiet(d, Unclaim(d, S, s))
  BY UnclaimFields DEF TableOK, Quiet, Outcome, Unsent, OutboxState, Stored

LEMMA ReleaseExpiredQuiet ==
  ASSUME NEW d, TableOK(d)
  PROVE  Quiet(d, ReleaseExpired(d))
  BY UnclaimQuiet DEF ReleaseExpired, Unsent

LEMMA ClaimedQuiet ==
  ASSUME NEW d, TableOK(d), NEW S, S \subseteq Claimable(d), NEW w \in Relays
  PROVE  Quiet(d, Claimed(d, S, w))
  <1>1. \A id \in S : id \in Ids /\ d.state[id] = "PENDING"
    BY DEF Claimable, InState
  <1> QED BY <1>1, ClaimedFields DEF TableOK, Quiet, Outcome

LEMMA MarkFailedQuiet ==
  ASSUME NEW d, TableOK(d), NEW id \in Ids, NEW w
  PROVE  Quiet(d, MarkFailed(d, id, w))
  <1>1. CASE ~Holds(d, id, w)
    BY <1>1 DEF MarkFailed, Quiet
  <1>2. CASE Holds(d, id, w)
    <2> DEFINE n == d.attempts[id] + 1
               s == IF n >= MaxAttempts THEN "FAILED" ELSE "PENDING"
               u == Unclaim(d, {id}, s)
    <2>1. s \in Unsent /\ s \in OutboxState
      BY DEF OutboxState, Stored, Unsent
    <2>2. Quiet(d, u) /\ u \in Tables
      BY <1>2, <2>1, UnclaimQuiet, UnclaimFields DEF Holds, Unsent, TableOK
    <2>3. MarkFailed(d, id, w) = [u EXCEPT !.attempts[id] = n]
      BY <1>2 DEF MarkFailed
    <2> HIDE DEF n, s, u
    <2>4. MarkFailed(d, id, w).state = u.state
      BY <2>2, <2>3 DEF Tables
    <2> QED BY <2>2, <2>4 DEF Quiet
  <1> QED BY <1>1, <1>2

LEMMA RequeueQuiet ==
  ASSUME NEW d, TableOK(d), NEW id \in Ids
  PROVE  Quiet(d, Requeue(d, id))
  <1>1. CASE d.state[id] # "FAILED"
    BY <1>1 DEF Requeue, Quiet
  <1>2. CASE d.state[id] = "FAILED"
    <2>1. d \in Tables /\ Requeue(d, id).state = [d.state EXCEPT ![id] = "PENDING"]
      BY <1>2 DEF TableOK, Tables, Requeue
    <2> QED BY <1>2, <2>1 DEF Quiet, Outcome, Tables
  <1> QED BY <1>1, <1>2

LEMMA ElapsedQuiet ==
  ASSUME NEW d, TableOK(d)
  PROVE  Quiet(d, Elapsed(d))
  <1>1. Elapsed(d).state = d.state
    BY DEF TableOK, Tables, Elapsed
  <1> QED BY <1>1 DEF Quiet

LEMMA DeleteEvicts ==
  ASSUME NEW d, TableOK(d), NEW S, S \subseteq InState(d, {"SENT", "FAILED"})
  PROVE  Evicts(d, Delete(d, S))
  <1>1. \A id \in S : id \in Ids /\ d.state[id] \in {"SENT", "FAILED"}
    BY DEF InState
  <1> QED BY <1>1, DeleteFields DEF TableOK, Evicts, Outcome

LEMMA EnforceMaxRecordsEvicts ==
  ASSUME NEW d, TableOK(d), NEW e \in EnforceMaxRecords(d)
  PROVE  Evicts(d, e)
  <1>1. PICK R \in EvictionSets(d) : e = Delete(d, R)
    BY DEF EnforceMaxRecords
  <1>2. R \subseteq InState(d, {"SENT", "FAILED"})
    BY DEF EvictionSets, InState
  <1> QED BY <1>1, <1>2, DeleteEvicts

LEMMA CleanupsEvicts ==
  ASSUME NEW d, TableOK(d), NEW e \in Cleanups(d)
  PROVE  Evicts(d, e)
  <1>1. PICK R \in SUBSET InState(d, {"SENT"}) : e \in EnforceMaxRecords(Delete(d, R))
    BY DEF Cleanups
  <1> DEFINE c == Delete(d, R)
  <1>2. R \subseteq InState(d, {"SENT", "FAILED"}) /\ \A id \in R : d.state[id] = "SENT"
    BY DEF InState
  <1>3. TableOK(c) /\ \A id \in Ids : c.state[id] = IF id \in R THEN "PURGED" ELSE d.state[id]
    BY <1>2, DeleteOK, DeleteFields DEF TableOK
  <1>4. Evicts(c, e)
    BY <1>1, <1>3, EnforceMaxRecordsEvicts
  <1> HIDE DEF c
  <1> QED BY <1>2, <1>3, <1>4 DEF Evicts, Outcome

LEMMA EnqueuedState ==
  ASSUME NEW d, TableOK(d), NEW a \in Aggregates, d.nextSeq[a] < MaxSeq
  PROVE  /\ <<a, d.nextSeq[a]>> \in Ids
         /\ d.state[<<a, d.nextSeq[a]>>] = "NONE"
         /\ \A id \in Ids : Enqueued(d, a).state[id]
                              = IF id = <<a, d.nextSeq[a]>> THEN "PENDING" ELSE d.state[id]
  <1>1. /\ d \in Tables /\ d.nextSeq[a] \in Seqs /\ <<a, d.nextSeq[a]>> \in Ids
        /\ d.state[<<a, d.nextSeq[a]>>] = "NONE"
    BY OutboxAssumption DEF TableOK, Tables, Seqs, Ids, SequenceContiguous
  <1>2. Enqueued(d, a).state = [d.state EXCEPT ![<<a, d.nextSeq[a]>>] = "PENDING"]
    BY <1>1 DEF Enqueued, Tables
  <1> QED BY <1>1, <1>2 DEF Tables

LEMMA MarkSentState ==
  ASSUME NEW d, TableOK(d), NEW S \in SUBSET Ids, NEW w
  PROVE  /\ TableOK(MarkSent(d, S, w))
         /\ \A id \in Ids : MarkSent(d, S, w).state[id]
                              = IF id \in S /\ Holds(d, id, w) THEN "SENT" ELSE d.state[id]
         /\ Progress(d, MarkSent(d, S, w))
  <1>1. \A id \in Ids : MarkSent(d, S, w).state[id]
                          = IF id \in S /\ Holds(d, id, w) THEN "SENT" ELSE d.state[id]
    BY UnclaimFields DEF MarkSent, TableOK, OutboxState, Stored
  <1>2. Progress(d, MarkSent(d, S, w))
    BY <1>1 DEF Progress, Outcome, Holds
  <1> QED BY <1>1, <1>2, MarkSentOK

-----------------------------------------------------------------------------
(* The relays' invariant.                                                  *)

\* The meaning of Ready for any table.
ReadyIn(d, id) ==
  /\ Outcome(d.state[id]) # "none"
  /\ \A n \in Seqs : n < id[2] => Outcome(d.state[<<id[1], n>>]) \in {"sent", "dropped"}

LEMMA ReadyMeaning ==
  ASSUME TableInv, NEW id \in Ids
  PROVE  Ready(id) <=> ReadyIn(db, id)
  <1>1. db \in Tables /\ \A n \in Seqs : <<id[1], n>> \in Ids
    BY DEF TableInv, TableOK, Ids
  <1> QED BY <1>1 DEF Ready, ReadyIn, Outcome, Tables, OutboxState, Stored, Unsent

LEMMA ReadyKept ==
  ASSUME NEW d, NEW e, Progress(d, e), NEW id \in Ids, ReadyIn(d, id)
  PROVE  ReadyIn(e, id)
  <1>1. \A n \in Seqs : <<id[1], n>> \in Ids
    BY DEF Ids
  <1> QED BY <1>1 DEF ReadyIn, Progress

\* A record that holds a claim, or was claimed, is ready.
LEMMA ActiveReady ==
  ASSUME NEW d, TableOK(d), NEW id \in Ids,
         d.state[id] \in {"PROCESSING", "SENT", "PURGED", "FAILED", "DROPPED"}
  PROVE  ReadyIn(d, id)
  <1>1. id[1] \in Aggregates /\ id[2] \in Seqs /\ id = <<id[1], id[2]>>
    BY DEF Ids
  <1>2. \A n \in Seqs : n < id[2] => d.state[<<id[1], n>>] \in {"SENT", "PURGED", "DROPPED"}
    BY <1>1 DEF TableOK, HeadOfLine
  <1> QED BY <1>2 DEF ReadyIn, Outcome

Batches == [phase : Phases, batch : Seq(Ids), inLease : 0 .. Lease]

\* One poll of the table changes to b, the others keep their records.
LEMMA PollUpdate ==
  ASSUME TypeOK, NEW p \in Polls, NEW b, poll' = [poll EXCEPT ![p] = b]
  PROVE  /\ poll'[p] = b
         /\ \A q \in Polls : q # p => poll'[q] = poll[q]
  BY DEF TypeOK

\* The stretch of poll() from one await to the next keeps the invariant: d is
\* the table after the stretch's own first write, q what is left of the batch.
LEMMA ProceedInv ==
  ASSUME RelayInv, NEW p \in Polls, NEW d, TableOK(d), NEW q \in Seq(Ids),
         NEW lease \in 0 .. Lease, Progress(db, d),
         \A id \in Ids : Outcome(d.state[id]) = "sent"
           => id \in arrived \/ (id \in suppressed /\ KeyOf[id] \in ArrivedKeys),
         \A i \in 1 .. Len(q) : ReadyIn(d, q[i]),
         dedup' \in [Relays -> SUBSET Keys],
         \A w \in Relays : dedup'[w] \subseteq ArrivedKeys,
         dedupOrder' \in [Relays -> Seq(Keys)],
         UNCHANGED <<arrived, crashes>>,
         Proceed(p, d, q, dedup'[p[1]], lease)
  PROVE  RelayInv'
  <1> DEFINE w == p[1]
             D == dedup'[w]
  <1>0. w \in Relays
    BY DEF Polls
  <1>1. PICK n \in 0 .. Len(q) :
          /\ Duplicates(q, D, n)
          /\ db' = MarkSent(d, {q[i] : i \in 1 .. n}, w)
          /\ suppressed' = suppressed \cup {id \in {q[i] : i \in 1 .. n} : Holds(d, id, w)}
          /\ poll' = [poll EXCEPT ![p] =
                        IF SubSeq(q, n + 1, Len(q)) = <<>> THEN Idle
                        ELSE [phase |-> "sending", batch |-> SubSeq(q, n + 1, Len(q)),
                              inLease |-> lease]]
    BY DEF Proceed
  <1> DEFINE skipped == {q[i] : i \in 1 .. n}
             rest == SubSeq(q, n + 1, Len(q))
  <1>2. /\ Len(q) \in Nat /\ n \in Nat /\ n <= Len(q)
        /\ \A i \in 1 .. Len(q) : q[i] \in Ids
    BY LenProperties, ElementOfSeq
  <1>3. skipped \in SUBSET Ids
    BY <1>2
  <1>4. /\ rest \in Seq(Ids)
        /\ Len(rest) = Len(q) - n
        /\ \A i \in 1 .. Len(q) - n : rest[i] = q[n + i]
    BY Suffix
  <1>5. /\ TableOK(db')
        /\ \A id \in Ids : db'.state[id] = IF id \in skipped /\ Holds(d, id, w)
                                           THEN "SENT" ELSE d.state[id]
        /\ Progress(d, db')
    BY <1>1, <1>3, MarkSentState
  <1>6. Progress(db, db')
    BY <1>5, ProgressTrans
  <1>7. /\ poll'[p] = IF rest = <<>> THEN Idle
                      ELSE [phase |-> "sending", batch |-> rest, inLease |-> lease]
        /\ \A r \in Polls : r # p => poll'[r] = poll[r]
    BY <1>1, PollUpdate DEF RelayInv
  <1> HIDE DEF skipped, rest, D, w
  <1>8. TypeOK'
    <2>1. suppressed' \subseteq Ids
      BY <1>1, <1>3 DEF RelayInv, TypeOK, skipped, w
    <2>2. poll'[p] \in Batches /\ (poll'[p].phase = "idle" <=> poll'[p].batch = <<>>)
      BY <1>4, <1>7, OutboxAssumption DEF Batches, Idle, Phases
    <2>3. poll' \in [Polls -> Batches]
      BY <1>1, <1>7, <2>2 DEF RelayInv, TypeOK, Batches
    <2>4. \A r \in Polls : poll'[r].phase = "idle" <=> poll'[r].batch = <<>>
      BY <1>7, <2>2 DEF RelayInv, TypeOK
    <2> QED BY <1>5, <2>1, <2>3, <2>4 DEF RelayInv, TypeOK, TableOK, Batches
  <1>9. TableInv'
    BY <1>5 DEF TableInv
  <1>10. ArrivedKeys' = ArrivedKeys
    BY DEF ArrivedKeys
  <1>11. \A id \in skipped : KeyOf[id] \in ArrivedKeys
    <2> SUFFICES ASSUME NEW i \in 1 .. n
                 PROVE  KeyOf[q[i]] \in ArrivedKeys
      BY DEF skipped
    <2> QED BY <1>0, <1>1 DEF Duplicates, D
  <1>12. SentWasDelivered'
    <2> SUFFICES ASSUME NEW id \in Ids, db'.state[id] \in {"SENT", "PURGED"}
                 PROVE  id \in arrived' \/ (id \in suppressed' /\ KeyOf[id] \in ArrivedKeys')
      BY DEF SentWasDelivered, InState
    <2>1. CASE id \in skipped /\ Holds(d, id, w)
      <3>1. id \in suppressed'
        BY <1>1, <2>1 DEF skipped, w
      <3> QED BY <3>1, <2>1, <1>10, <1>11
    <2>2. CASE ~(id \in skipped /\ Holds(d, id, w))
      <3>1. Outcome(d.state[id]) = "sent"
        BY <1>5, <2>2 DEF Outcome
      <3> QED BY <3>1, <1>1, <1>10
    <2> QED BY <2>1, <2>2
  <1>13. \A r \in Relays : dedup'[r] \subseteq ArrivedKeys'
    BY <1>10
  <1>14. \A r \in Polls : poll'[r].phase = "ok" => Head(poll'[r].batch) \in arrived'
    BY <1>7 DEF RelayInv, Idle
  <1>15. \A r \in Polls : \A i \in 1 .. Len(poll'[r].batch) : ReadyIn(db', poll'[r].batch[i])
    <2> SUFFICES ASSUME NEW r \in Polls, NEW i \in 1 .. Len(poll'[r].batch)
                 PROVE  ReadyIn(db', poll'[r].batch[i])
      OBVIOUS
    <2>1. CASE r = p
      <3>1. poll'[p].batch = rest
        BY <1>7 DEF Idle
      <3>2. n + i \in 1 .. Len(q) /\ rest[i] = q[n + i]
        BY <1>2, <1>4, <2>1, <3>1
      <3>3. ReadyIn(d, q[n + i]) /\ q[n + i] \in Ids
        BY <1>2, <3>2
      <3> QED BY <1>5, <2>1, <3>1, <3>2, <3>3, ReadyKept
    <2>2. CASE r # p
      <3>1. poll[r].batch \in Seq(Ids) /\ poll'[r].batch = poll[r].batch
        BY <1>7, <2>2 DEF RelayInv, TypeOK
      <3>2. poll[r].batch[i] \in Ids /\ Ready(poll[r].batch[i])
        BY <3>1, ElementOfSeq DEF RelayInv
      <3>3. ReadyIn(db, poll[r].batch[i])
        BY <3>2, ReadyMeaning DEF RelayInv
      <3> QED BY <1>6, <3>1, <3>2, <3>3, ReadyKept
    <2> QED BY <2>1, <2>2
  <1>16. (\A r \in Polls : \A i \in 1 .. Len(poll[r].batch) : Ready(poll[r].batch[i]))'
    <2> SUFFICES ASSUME NEW r \in Polls, NEW i \in 1 .. Len(poll'[r].batch)
                 PROVE  Ready(poll[r].batch[i])'
      OBVIOUS
    <2>1. poll'[r].batch[i] \in Ids
      BY <1>8, ElementOfSeq DEF TypeOK
    <2>2. ReadyIn(db', poll'[r].batch[i])
      BY <1>15
    <2>3. db' \in Tables /\ \A k \in Seqs : <<poll'[r].batch[i][1], k>> \in Ids
      BY <1>5, <2>1 DEF TableOK, Ids
    <2> QED BY <2>1, <2>2, <2>3 DEF Ready, ReadyIn, Outcome, Tables, OutboxState, Stored, Unsent
  <1> QED BY <1>8, <1>9, <1>12, <1>13, <1>14, <1>16 DEF RelayInv

\* Steps that dispatch nothing and send nothing: the table makes progress
\* (or waits), polls go on or are lost, memories shrink or stay.
LEMMA TableStepInv ==
  ASSUME RelayInv, TypeOK', TableOK(db'), Progress(db, db'),
         \A id \in Ids : Outcome(db'.state[id]) = "sent" => Outcome(db.state[id]) = "sent",
         \A p \in Polls : \/ /\ poll'[p].batch = poll[p].batch
                             /\ poll'[p].phase = poll[p].phase
                          \/ poll'[p] = Idle,
         \A w \in Relays : dedup'[w] \subseteq dedup[w],
         UNCHANGED <<arrived, suppressed>>
  PROVE  RelayInv'
  <1>1. TableInv'
    BY DEF TableInv
  <1>2. SentWasDelivered'
    <2> SUFFICES ASSUME NEW id \in Ids, db'.state[id] \in {"SENT", "PURGED"}
                 PROVE  id \in arrived' \/ (id \in suppressed' /\ KeyOf[id] \in ArrivedKeys')
      BY DEF SentWasDelivered, InState
    <2>1. Outcome(db.state[id]) = "sent"
      BY DEF Outcome
    <2>2. id \in InState(db, {"SENT", "PURGED"})
      BY <2>1 DEF Outcome, InState
    <2> QED BY <2>2 DEF RelayInv, SentWasDelivered, ArrivedKeys
  <1>3. \A w \in Relays : dedup'[w] \subseteq ArrivedKeys'
    BY DEF RelayInv, ArrivedKeys
  <1>4. \A p \in Polls : poll'[p].phase = "ok" => Head(poll'[p].batch) \in arrived'
    BY DEF RelayInv, Idle
  <1>5. (\A p \in Polls : \A i \in 1 .. Len(poll[p].batch) : Ready(poll[p].batch[i]))'
    <2> SUFFICES ASSUME NEW p \in Polls, NEW i \in 1 .. Len(poll'[p].batch)
                 PROVE  Ready(poll[p].batch[i])'
      OBVIOUS
    <2>1. poll'[p].batch = poll[p].batch
      BY DEF Idle
    <2>2. poll[p].batch[i] \in Ids /\ Ready(poll[p].batch[i])
      BY <2>1, ElementOfSeq DEF RelayInv, TypeOK
    <2>3. ReadyIn(db', poll'[p].batch[i])
      BY <2>1, <2>2, ReadyMeaning, ReadyKept DEF RelayInv
    <2>4. db' \in Tables /\ \A k \in Seqs : <<poll'[p].batch[i][1], k>> \in Ids
      BY <2>1, <2>2 DEF TableOK, Ids
    <2> QED BY <2>1, <2>2, <2>3, <2>4
            DEF Ready, ReadyIn, Outcome, Tables, OutboxState, Stored, Unsent
  <1> QED BY <1>1, <1>2, <1>3, <1>4, <1>5 DEF RelayInv

\* Steps of the dispatcher.
LEMMA AnsweredInv ==
  ASSUME RelayInv, NEW p \in Polls, Answered(p)
  PROVE  RelayInv'
  <1>1. PICK ph \in {"ok", "failed"} :
          /\ poll[p].phase = "sending"
          /\ poll' = [poll EXCEPT ![p].phase = ph]
          /\ arrived' = arrived \cup {Head(poll[p].batch)} \/ arrived' = arrived
          /\ ph = "ok" => Head(poll[p].batch) \in arrived'
          /\ UNCHANGED <<db, dedup, dedupOrder, suppressed, crashes>>
    BY DEF Answered, Accept, Refuse, LoseReply, Answer, Dispatching
  <1>2. poll[p].batch \in Seq(Ids) /\ poll[p].batch # <<>>
    BY <1>1 DEF RelayInv, TypeOK
  <1>3. Head(poll[p].batch) \in Ids
    BY <1>2, HeadTailProperties
  <1>4. \A q \in Polls : /\ poll'[q].batch = poll[q].batch
                         /\ poll'[q].phase = IF q = p THEN ph ELSE poll[q].phase
    BY <1>1 DEF RelayInv, TypeOK
  <1>5. TypeOK'
    <2>1. poll' \in [Polls -> [phase : Phases, batch : Seq(Ids), inLease : 0 .. Lease]]
      BY <1>1 DEF RelayInv, TypeOK, Phases
    <2>2. \A q \in Polls : poll'[q].phase = "idle" <=> poll'[q].batch = <<>>
      BY <1>1, <1>2, <1>4 DEF RelayInv, TypeOK
    <2>3. arrived' \subseteq Ids
      BY <1>1, <1>3 DEF RelayInv, TypeOK
    <2> QED BY <1>1, <2>1, <2>2, <2>3 DEF RelayInv, TypeOK
  <1>6. TableInv'
    BY <1>1 DEF RelayInv, TableInv
  <1>7. arrived \subseteq arrived' /\ ArrivedKeys \subseteq ArrivedKeys'
    BY <1>1 DEF ArrivedKeys
  <1>8. SentWasDelivered'
    BY <1>1, <1>7 DEF RelayInv, SentWasDelivered, InState
  <1>9. \A w \in Relays : dedup'[w] \subseteq ArrivedKeys'
    BY <1>1, <1>7 DEF RelayInv
  <1>10. \A q \in Polls : poll'[q].phase = "ok" => Head(poll'[q].batch) \in arrived'
    BY <1>1, <1>4, <1>7 DEF RelayInv
  <1>11. (\A q \in Polls : \A i \in 1 .. Len(poll[q].batch) : Ready(poll[q].batch[i]))'
    BY <1>1, <1>4 DEF RelayInv, Ready
  <1> QED BY <1>5, <1>6, <1>8, <1>9, <1>10, <1>11 DEF RelayInv

\* A batch lists the claimed records, each once.
LEMMA ClaimOrder ==
  ASSUME NEW S \in SUBSET Ids, NEW q \in SetToSeqs(S)
  PROVE  /\ q \in Seq(S)
         /\ q \in Seq(Ids)
         /\ \A i, j \in 1 .. Len(q) : q[i] = q[j] => i = j
  <1>1. IsFiniteSet(S)
    BY FiniteRecords, OutboxAssumption DEF Ids, Seqs
  <1>2. q \in Seq(S) /\ \A i, j \in 1 .. Len(q) : q[i] = q[j] => i = j
    BY <1>1, Listing
  <1> QED BY <1>2, SeqMonotonic

LEMMA StartPollInv ==
  ASSUME RelayInv, NEW p \in Polls, StartPoll(p)
  PROVE  RelayInv'
  <1> DEFINE d == ReleaseExpired(db)
  <1>1. PICK S \in ClaimSets(d) : \E q \in SetToSeqs(S) :
          Proceed(p, Claimed(d, S, p[1]), q, dedup[p[1]], Lease)
    BY DEF StartPoll
  <1>0. PICK q \in SetToSeqs(S) : Proceed(p, Claimed(d, S, p[1]), q, dedup[p[1]], Lease)
    BY <1>1
  <1> DEFINE c == Claimed(d, S, p[1])
  <1>2. p[1] \in Relays
    BY DEF Polls
  <1>3. TableOK(d) /\ Quiet(db, d)
    BY ReleaseExpiredOK, ReleaseExpiredQuiet DEF RelayInv, TableInv
  <1>4. S \subseteq Claimable(d)
    BY <1>1 DEF ClaimSets
  <1>5. TableOK(c) /\ Quiet(db, c)
    BY <1>2, <1>3, <1>4, ClaimedOK, ClaimedQuiet, QuietTrans
  <1>6. \A id \in S : id \in Ids /\ c.state[id] = "PROCESSING"
    BY <1>2, <1>3, <1>4, ClaimedFields DEF Claimable, InState, TableOK
  <1> HIDE DEF c, d
  <1>7. q \in Seq(S) /\ q \in Seq(Ids)
    BY <1>0, <1>6, ClaimOrder
  <1>8. q \in Seq(Ids) /\ \A i \in 1 .. Len(q) : ReadyIn(c, q[i])
    <2>1. \A i \in 1 .. Len(q) : q[i] \in S
      BY <1>7, ElementOfSeq
    <2> QED BY <1>5, <1>6, <1>7, <2>1, ActiveReady
  <1>9. \A id \in Ids : Outcome(c.state[id]) = "sent"
          => id \in arrived \/ (id \in suppressed /\ KeyOf[id] \in ArrivedKeys)
    <2> SUFFICES ASSUME NEW id \in Ids, Outcome(c.state[id]) = "sent"
                 PROVE  id \in arrived \/ (id \in suppressed /\ KeyOf[id] \in ArrivedKeys)
      OBVIOUS
    <2>1. Outcome(db.state[id]) = "sent"
      BY <1>5 DEF Quiet
    <2> QED BY <2>1 DEF RelayInv, SentWasDelivered, InState, Outcome
  <1>10. Progress(db, c) /\ Lease \in 0 .. Lease
    BY <1>5, QuietProgress, OutboxAssumption
  <1>11. /\ UNCHANGED <<dedup, dedupOrder, arrived, crashes>>
         /\ dedup \in [Relays -> SUBSET Keys] /\ dedupOrder \in [Relays -> Seq(Keys)]
         /\ \A w \in Relays : dedup[w] \subseteq ArrivedKeys
    BY DEF StartPoll, RelayInv, TypeOK
  <1>12. Proceed(p, c, q, dedup'[p[1]], Lease)
    BY <1>0, <1>11 DEF c
  <1> QED BY <1>5, <1>8, <1>9, <1>10, <1>11, <1>12, ProceedInv

\* A poll that resumes has a batch, whose head is the record it dispatched.
LEMMA ResumedBatch ==
  ASSUME RelayInv, NEW p \in Polls, poll[p].phase \in {"ok", "failed"}
  PROVE  /\ p[1] \in Relays
         /\ poll[p].inLease \in 0 .. Lease
         /\ Head(poll[p].batch) \in Ids
         /\ Tail(poll[p].batch) \in Seq(Ids)
         /\ \A i \in 1 .. Len(Tail(poll[p].batch)) : ReadyIn(db, Tail(poll[p].batch)[i])
  <1>1. poll[p].batch \in Seq(Ids) /\ poll[p].batch # <<>> /\ poll[p].inLease \in 0 .. Lease
    BY DEF RelayInv, TypeOK
  <1>2. /\ Head(poll[p].batch) \in Ids /\ Tail(poll[p].batch) \in Seq(Ids)
        /\ Len(Tail(poll[p].batch)) = Len(poll[p].batch) - 1
        /\ \A i \in 1 .. Len(Tail(poll[p].batch)) : Tail(poll[p].batch)[i] = poll[p].batch[i + 1]
    BY <1>1, HeadTailProperties
  <1>3. Len(poll[p].batch) \in Nat
    BY <1>1, LenProperties
  <1>4. ASSUME NEW i \in 1 .. Len(Tail(poll[p].batch))
        PROVE  ReadyIn(db, Tail(poll[p].batch)[i])
    <2>1. i + 1 \in 1 .. Len(poll[p].batch)
      BY <1>2, <1>3
    <2>2. Ready(poll[p].batch[i + 1]) /\ poll[p].batch[i + 1] \in Ids
      BY <1>1, <2>1, ElementOfSeq DEF RelayInv
    <2> QED BY <1>2, <2>2, ReadyMeaning DEF RelayInv
  <1> QED BY <1>1, <1>2, <1>4 DEF Polls

LEMMA ResumeOkInv ==
  ASSUME RelayInv, NEW p \in Polls, ResumeOk(p)
  PROVE  RelayInv'
  <1> DEFINE id == Head(poll[p].batch)
             w == p[1]
             d == MarkSent(db, {id}, w)
             q == Tail(poll[p].batch)
  <1>1. /\ poll[p].phase = "ok" /\ id \in arrived
        /\ w \in Relays /\ poll[p].inLease \in 0 .. Lease /\ id \in Ids /\ q \in Seq(Ids)
        /\ \A i \in 1 .. Len(q) : ReadyIn(db, q[i])
    BY ResumedBatch DEF ResumeOk, RelayInv
  <1>2. /\ TableOK(d) /\ Progress(db, d)
        /\ \A i \in Ids : d.state[i] = IF i \in {id} /\ Holds(db, i, w) THEN "SENT"
                                       ELSE db.state[i]
    <2>1. TableOK(db) /\ {id} \in SUBSET Ids
      BY <1>1 DEF RelayInv, TableInv
    <2> HIDE DEF id, w
    <2> QED BY <2>1, MarkSentState
  <1>3. /\ RememberKey(w, KeyOf[id])
        /\ Proceed(p, d, q, dedup'[w], poll[p].inLease)
        /\ UNCHANGED <<arrived, crashes>>
    BY DEF ResumeOk
  <1> HIDE DEF d, q
  <1>4. \A i \in Ids : Outcome(d.state[i]) = "sent"
          => i \in arrived \/ (i \in suppressed /\ KeyOf[i] \in ArrivedKeys)
    <2> SUFFICES ASSUME NEW i \in Ids, Outcome(d.state[i]) = "sent", i \notin arrived
                 PROVE  i \in suppressed /\ KeyOf[i] \in ArrivedKeys
      OBVIOUS
    <2>1. Outcome(db.state[i]) = "sent"
      BY <1>1, <1>2
    <2> QED BY <2>1 DEF RelayInv, SentWasDelivered, InState, Outcome
  <1>5. \A i \in 1 .. Len(q) : ReadyIn(d, q[i])
    BY <1>1, <1>2, ReadyKept, ElementOfSeq
  <1>6. KeyOf[id] \in Keys /\ KeyOf[id] \in ArrivedKeys
    BY <1>1, RelayAssumption DEF ArrivedKeys
  <1>7. /\ dedup' \in [Relays -> SUBSET Keys]
        /\ \A r \in Relays : dedup'[r] \subseteq ArrivedKeys
    BY <1>1, <1>3, <1>6 DEF RememberKey, RelayInv, TypeOK
  <1>8. dedupOrder' \in [Relays -> Seq(Keys)]
    <2> DEFINE order == Append(dedupOrder[w], KeyOf[id])
    <2>0. dedupOrder[w] \in Seq(Keys)
      BY <1>1 DEF RelayInv, TypeOK
    <2>1. order \in Seq(Keys) /\ order # <<>>
      BY <2>0, <1>6, AppendProperties
    <2>2. Tail(order) \in Seq(Keys)
      BY <2>1, HeadTailProperties
    <2>3. dedupOrder' = [dedupOrder EXCEPT ![w] = IF Len(order) > Window THEN Tail(order)
                                                  ELSE order]
      BY <1>3 DEF RememberKey
    <2> HIDE DEF order
    <2> QED BY <2>1, <2>2, <2>3 DEF RelayInv, TypeOK
  <1> QED BY <1>1, <1>2, <1>3, <1>4, <1>5, <1>7, <1>8, ProceedInv

LEMMA ResumeFailedInv ==
  ASSUME RelayInv, NEW p \in Polls, ResumeFailed(p)
  PROVE  RelayInv'
  <1> DEFINE id == Head(poll[p].batch)
             w == p[1]
             d == MarkFailed(db, id, w)
             q == Tail(poll[p].batch)
  <1>1. /\ w \in Relays /\ poll[p].inLease \in 0 .. Lease /\ id \in Ids /\ q \in Seq(Ids)
        /\ \A i \in 1 .. Len(q) : ReadyIn(db, q[i])
    BY ResumedBatch DEF ResumeFailed
  <1>2. TableOK(d) /\ Quiet(db, d)
    BY <1>1, MarkFailedOK, MarkFailedQuiet DEF RelayInv, TableInv
  <1>3. /\ Proceed(p, d, q, dedup[w], poll[p].inLease)
        /\ UNCHANGED <<dedup, dedupOrder, arrived, crashes>>
    BY DEF ResumeFailed
  <1> HIDE DEF d, q
  <1>4. \A i \in Ids : Outcome(d.state[i]) = "sent"
          => i \in arrived \/ (i \in suppressed /\ KeyOf[i] \in ArrivedKeys)
    <2> SUFFICES ASSUME NEW i \in Ids, Outcome(d.state[i]) = "sent"
                 PROVE  i \in arrived \/ (i \in suppressed /\ KeyOf[i] \in ArrivedKeys)
      OBVIOUS
    <2>1. Outcome(db.state[i]) = "sent"
      BY <1>2 DEF Quiet
    <2> QED BY <2>1 DEF RelayInv, SentWasDelivered, InState, Outcome
  <1>5. Progress(db, d) /\ \A i \in 1 .. Len(q) : ReadyIn(d, q[i])
    BY <1>1, <1>2, QuietProgress, ReadyKept, ElementOfSeq
  <1>6. /\ dedup' \in [Relays -> SUBSET Keys] /\ dedupOrder' \in [Relays -> Seq(Keys)]
        /\ \A r \in Relays : dedup'[r] \subseteq ArrivedKeys
        /\ Proceed(p, d, q, dedup'[w], poll[p].inLease)
    BY <1>3 DEF RelayInv, TypeOK
  <1> QED BY <1>1, <1>2, <1>3, <1>4, <1>5, <1>6, ProceedInv

LEMMA CrashInv ==
  ASSUME RelayInv, NEW w \in Relays, Crash(w)
  PROVE  RelayInv'
  <1>1. \A p \in Polls : poll'[p] = IF p[1] = w THEN Idle ELSE poll[p]
    BY DEF Crash
  <1>2. TypeOK'
    <2>1. poll' \in [Polls -> [phase : Phases, batch : Seq(Ids), inLease : 0 .. Lease]]
      <3>1. Idle \in [phase : Phases, batch : Seq(Ids), inLease : 0 .. Lease]
        BY OutboxAssumption DEF Idle, Phases
      <3>2. \A p \in Polls : (IF p[1] = w THEN Idle ELSE poll[p])
              \in [phase : Phases, batch : Seq(Ids), inLease : 0 .. Lease]
        BY <3>1 DEF RelayInv, TypeOK
      <3> QED BY <3>2, Zenon DEF Crash
    <2>2. ASSUME NEW p \in Polls
          PROVE  poll'[p].phase = "idle" <=> poll'[p].batch = <<>>
      <3>1. CASE p[1] = w
        BY <1>1, <3>1 DEF Idle
      <3>2. CASE p[1] # w
        BY <1>1, <3>2 DEF RelayInv, TypeOK
      <3> QED BY <3>1, <3>2
    <2>3. dedup' \in [Relays -> SUBSET Keys] /\ dedupOrder' \in [Relays -> Seq(Keys)]
      BY DEF Crash, RelayInv, TypeOK
    <2>4. crashes' \in 0 .. MaxCrashes
      BY RelayAssumption DEF Crash, RelayInv, TypeOK
    <2> QED BY <2>1, <2>2, <2>3, <2>4 DEF Crash, RelayInv, TypeOK
  <1>3. TableOK(db') /\ Progress(db, db') /\ db' = db
    BY DEF Crash, RelayInv, TableInv, Progress
  <1>4. \A r \in Relays : dedup'[r] \subseteq dedup[r]
    BY DEF Crash, RelayInv, TypeOK
  <1> QED BY <1>1, <1>2, <1>3, <1>4, TableStepInv DEF Crash

LEMMA PassTimeInv ==
  ASSUME RelayInv, PassTime
  PROVE  RelayInv'
  <1>1. TableOK(db') /\ Quiet(db, db')
    BY ElapsedOK, ElapsedQuiet DEF PassTime, Tick, RelayInv, TableInv
  <1>2. \A p \in Polls : poll'[p].batch = poll[p].batch /\ poll'[p].phase = poll[p].phase
    BY DEF PassTime, RelayInv, TypeOK
  <1>3. TypeOK'
    <2>1. \A p \in Polls : (IF poll[p].inLease = 0 THEN 0 ELSE poll[p].inLease - 1) \in 0 .. Lease
      BY OutboxAssumption DEF RelayInv, TypeOK
    <2>2. poll' \in [Polls -> [phase : Phases, batch : Seq(Ids), inLease : 0 .. Lease]]
      BY <2>1 DEF PassTime, RelayInv, TypeOK
    <2> QED BY <1>1, <1>2, <2>2 DEF PassTime, RelayInv, TypeOK, TableOK
  <1>4. Progress(db, db') /\ \A id \in Ids :
          Outcome(db'.state[id]) = "sent" => Outcome(db.state[id]) = "sent"
    BY <1>1, QuietProgress DEF Quiet
  <1> QED BY <1>1, <1>2, <1>3, <1>4, TableStepInv DEF PassTime

\* What enqueue does, the eviction it may trigger included.
LEMMA EnqueueStep ==
  ASSUME TableInv, NEW a \in Aggregates, Enqueue(a)
  PROVE  LET new == <<a, db.nextSeq[a]>>
         IN  /\ new \in Ids /\ db.state[new] = "NONE" /\ db'.state[new] = "PENDING"
             /\ \A id \in Ids \ {new} : \/ Outcome(db'.state[id]) = Outcome(db.state[id])
                                        \/ db.state[id] = "FAILED" /\ db'.state[id] = "DROPPED"
  <1> DEFINE new == <<a, db.nextSeq[a]>>
             d == Enqueued(db, a)
  <1>1. /\ new \in Ids /\ db.state[new] = "NONE" /\ TableOK(d)
        /\ \A id \in Ids : d.state[id] = IF id = new THEN "PENDING" ELSE db.state[id]
    BY EnqueuedState, EnqueuedOK DEF TableInv, Enqueue
  <1>2. PICK R \in EvictionSets(d) : db' = Delete(d, R)
    BY DEF Enqueue, EnforceMaxRecords
  <1>3. R \subseteq InState(d, {"SENT", "FAILED"}) /\ new \notin R
    BY <1>1, <1>2 DEF EvictionSets, InState
  <1>4. db'.state[new] = "PENDING"
    BY <1>1, <1>2, <1>3, DeleteFields DEF TableOK
  <1>5. Evicts(d, db')
    BY <1>1, <1>2, <1>3, DeleteEvicts
  <1> HIDE DEF d, new
  <1> QED BY <1>1, <1>4, <1>5 DEF Evicts, new

LEMMA ProduceInv ==
  ASSUME RelayInv, NEW a \in Aggregates, Enqueue(a), UNCHANGED relayVars
  PROVE  RelayInv'
  <1> DEFINE new == <<a, db.nextSeq[a]>>
  <1>1. TableOK(db')
    BY EnqueueInv DEF RelayInv, TableInv
  <1>2. /\ new \in Ids /\ db.state[new] = "NONE" /\ db'.state[new] = "PENDING"
        /\ \A id \in Ids \ {new} : \/ Outcome(db'.state[id]) = Outcome(db.state[id])
                                   \/ db.state[id] = "FAILED" /\ db'.state[id] = "DROPPED"
    BY EnqueueStep DEF RelayInv
  <1> HIDE DEF new
  <1>3. Progress(db, db') /\ \A id \in Ids :
          Outcome(db'.state[id]) = "sent" => Outcome(db.state[id]) = "sent"
    BY <1>2 DEF Progress, Outcome
  <1>4. TypeOK'
    BY <1>1 DEF RelayInv, TypeOK, TableOK, relayVars
  <1> QED BY <1>1, <1>3, <1>4, TableStepInv DEF relayVars

\* What requeue and cleanup do.
LEMMA OperateStep ==
  ASSUME TableInv, Operate
  PROVE  Evicts(db, db')
  <1>1. CASE \E id \in Ids : db' = Requeue(db, id)
    BY <1>1, RequeueQuiet DEF TableInv, Quiet, Evicts
  <1>2. CASE db' \in Cleanups(db)
    BY <1>2, CleanupsEvicts DEF TableInv
  <1> QED BY <1>1, <1>2 DEF Operate

LEMMA MaintainInv ==
  ASSUME RelayInv, Maintain
  PROVE  RelayInv'
  <1>1. TableOK(db')
    BY OperateInv DEF Maintain, RelayInv, TableInv
  <1>2. Evicts(db, db')
    BY OperateStep DEF Maintain, RelayInv
  <1>3. Progress(db, db') /\ \A id \in Ids :
          Outcome(db'.state[id]) = "sent" => Outcome(db.state[id]) = "sent"
    BY <1>2, EvictsProgress DEF Evicts, Outcome
  <1>4. TypeOK'
    BY <1>1 DEF Maintain, RelayInv, TypeOK, TableOK, relayVars
  <1> QED BY <1>1, <1>3, <1>4, TableStepInv DEF Maintain, relayVars

\* The invariant of the relays: types, the table's invariant, no loss, and
\* the truth of what each relay remembers (poll, _rememberKey and the store).
THEOREM RelayInvariant == Spec => []RelayInv
  <1>1. Init => RelayInv
    <2> SUFFICES ASSUME Init
                 PROVE  RelayInv
      OBVIOUS
    <2>1. TableInv
      BY EmptyTableOK DEF Init, TableInit, TableInv
    <2>2. \A p \in Polls : poll[p] = Idle
      BY DEF Init
    <2>3. TypeOK
      <3>1. poll \in [Polls -> [phase : Phases, batch : Seq(Ids), inLease : 0 .. Lease]]
        BY OutboxAssumption DEF Init, Idle, Phases
      <3> QED BY <2>1, <2>2, <3>1, RelayAssumption
              DEF Init, TypeOK, Idle, TableInv, TableOK
    <2>4. SentWasDelivered
      BY DEF Init, TableInit, EmptyTable, SentWasDelivered, InState
    <2> QED BY <2>1, <2>2, <2>3, <2>4 DEF Init, Idle, RelayInv
  <1>2. RelayInv /\ [Next]_vars => RelayInv'
    <2> SUFFICES ASSUME RelayInv, [Next]_vars
                 PROVE  RelayInv'
      OBVIOUS
    <2>1. CASE Produce
      BY <2>1, ProduceInv DEF Produce
    <2>2. CASE Maintain
      BY <2>2, MaintainInv
    <2>3. ASSUME NEW p \in Polls, StartPoll(p) \/ Answered(p) \/ Resume(p)
          PROVE  RelayInv'
      BY <2>3, StartPollInv, AnsweredInv, ResumeOkInv, ResumeFailedInv DEF Resume
    <2>4. ASSUME NEW w \in Relays, Crash(w)
          PROVE  RelayInv'
      BY <2>4, CrashInv
    <2>5. CASE PassTime
      BY <2>5, PassTimeInv
    <2>6. CASE UNCHANGED vars
      BY <2>6 DEF vars, relayVars, RelayInv, TypeOK, TableInv, SentWasDelivered, ArrivedKeys,
                  Ready, InState
    <2> QED BY <2>1, <2>2, <2>3, <2>4, <2>5, <2>6 DEF Next
  <1> QED BY <1>1, <1>2, PTL DEF Spec

\* No message is lost: what is marked SENT has arrived, or was skipped for a
\* delivered message with the same key (markSent after the dispatcher's await,
\* and the _dedup branch of poll).
THEOREM NoMessageLost == Spec => []SentWasDelivered
  <1>1. RelayInv => SentWasDelivered
    BY DEF RelayInv
  <1> QED BY <1>1, RelayInvariant, PTL

-----------------------------------------------------------------------------
(* The relays implement OrderedDelivery.                                   *)

LEMMA ReadyTurn ==
  ASSUME RelayInv, NEW id \in Ids, ReadyIn(db, id)
  PROVE  Ordered!Turn(id)
  <1>1. id \in {i \in Ids : db.state[i] # "NONE"}
    BY DEF ReadyIn, Outcome
  <1>2. ASSUME NEW n \in Seqs, n < id[2]
        PROVE  <<id[1], n>> \in arrived \cup suppressed \cup InState(db, {"DROPPED"})
    <2>1. <<id[1], n>> \in Ids /\ Outcome(db.state[<<id[1], n>>]) \in {"sent", "dropped"}
      BY <1>2 DEF Ids, ReadyIn
    <2>2. db.state[<<id[1], n>>] \in {"SENT", "PURGED", "DROPPED"}
      BY <2>1 DEF Outcome
    <2> QED BY <2>1, <2>2 DEF RelayInv, SentWasDelivered, InState
  <1> QED BY <1>1, <1>2 DEF Ordered!Turn, Ordered!Settled

\* Records a poll skips are suppressed: their turn has come and a message
\* with their key was delivered.
LEMMA ProceedSuppresses ==
  ASSUME RelayInv, NEW p \in Polls, NEW d, NEW q \in Seq(Ids), NEW lease,
         TableOK(d),
         \A id \in Ids : /\ d.state[id] = "NONE" <=> db.state[id] = "NONE"
                         /\ d.state[id] = "DROPPED" <=> db.state[id] = "DROPPED"
                         /\ d.state[id] = "PROCESSING" => ReadyIn(db, id),
         Proceed(p, d, q, dedup'[p[1]], lease),
         dedup'[p[1]] \subseteq ArrivedKeys, UNCHANGED arrived
  PROVE  Ordered!Suppress
  <1> DEFINE w == p[1]
  <1>1. PICK n \in 0 .. Len(q) :
          /\ Duplicates(q, dedup'[w], n)
          /\ db' = MarkSent(d, {q[i] : i \in 1 .. n}, w)
          /\ suppressed' = suppressed \cup {id \in {q[i] : i \in 1 .. n} : Holds(d, id, w)}
    BY DEF Proceed
  <1> DEFINE skipped == {q[i] : i \in 1 .. n}
  <1>2. \A i \in 1 .. n : q[i] \in Ids /\ KeyOf[q[i]] \in ArrivedKeys
    BY <1>1, LenProperties, ElementOfSeq DEF Duplicates
  <1>3. skipped \in SUBSET Ids
    BY <1>2
  <1>4. \A id \in Ids : db'.state[id] = IF id \in skipped /\ Holds(d, id, w)
                                        THEN "SENT" ELSE d.state[id]
    BY <1>1, <1>3, MarkSentState
  <1>5. \A id \in Ids : /\ db'.state[id] = "NONE" <=> db.state[id] = "NONE"
                        /\ db'.state[id] = "DROPPED" <=> db.state[id] = "DROPPED"
    BY <1>4 DEF Holds
  <1>6. ASSUME NEW id \in suppressed' \ suppressed
        PROVE  Ordered!Turn(id) /\ \E m \in arrived : KeyOf[m] = KeyOf[id]
    <2>1. id \in skipped /\ Holds(d, id, w)
      BY <1>1, <1>6
    <2>2. id \in Ids /\ KeyOf[id] \in ArrivedKeys
      BY <1>2, <2>1
    <2>3. Ordered!Turn(id)
      BY <2>1, <2>2, ReadyTurn DEF Holds
    <2> QED BY <2>2, <2>3 DEF ArrivedKeys
  <1>7. /\ {id \in Ids : db.state[id] # "NONE"}' = {id \in Ids : db.state[id] # "NONE"}
        /\ InState(db, {"DROPPED"})' = InState(db, {"DROPPED"})
    BY <1>5 DEF InState
  <1> QED BY <1>1, <1>6, <1>7 DEF Ordered!Suppress

\* The abstract state is untouched when the table is quiet.
LEMMA QuietStutters ==
  ASSUME Quiet(db, db'), UNCHANGED <<arrived, suppressed>>
  PROVE  UNCHANGED Ordered!vars
  <1>1. \A id \in Ids : /\ db'.state[id] = "NONE" <=> db.state[id] = "NONE"
                        /\ db'.state[id] = "DROPPED" <=> db.state[id] = "DROPPED"
    BY DEF Quiet, Outcome
  <1>2. /\ {id \in Ids : db.state[id] # "NONE"}' = {id \in Ids : db.state[id] # "NONE"}
        /\ InState(db, {"DROPPED"})' = InState(db, {"DROPPED"})
    BY <1>1 DEF InState
  <1> QED BY <1>2 DEF Ordered!vars

\* Records that are deleted while FAILED are given up: their turn had come.
LEMMA EvictionGivesUp ==
  ASSUME RelayInv,
         \A id \in Ids : db.state[id] = "DROPPED" => db'.state[id] = "DROPPED",
         \A id \in Ids : db'.state[id] = "DROPPED" => db.state[id] \in {"DROPPED", "FAILED"}
  PROVE  Ordered!GiveUp
  <1>1. InState(db, {"DROPPED"}) \subseteq InState(db, {"DROPPED"})'
    BY DEF InState
  <1>2. ASSUME NEW id \in InState(db, {"DROPPED"})' \ InState(db, {"DROPPED"})
        PROVE  Ordered!Turn(id)
    <2>1. id \in Ids /\ db.state[id] = "FAILED"
      BY DEF InState
    <2> QED BY <2>1, ActiveReady, ReadyTurn DEF RelayInv, TableInv
  <1> QED BY <1>1, <1>2 DEF Ordered!GiveUp

LEMMA ProduceRefines ==
  ASSUME RelayInv, NEW a \in Aggregates, Enqueue(a), UNCHANGED relayVars
  PROVE  Ordered!Next
  <1> DEFINE published == {id \in Ids : db.state[id] # "NONE"}
  <1>1. PICK new \in Ids :
          /\ new = <<a, db.nextSeq[a]>>
          /\ db.state[new] = "NONE" /\ db'.state[new] = "PENDING"
          /\ \A id \in Ids \ {new} : \/ Outcome(db'.state[id]) = Outcome(db.state[id])
                                     \/ db.state[id] = "FAILED" /\ db'.state[id] = "DROPPED"
    BY EnqueueStep DEF RelayInv
  <1>2. \A n \in Seqs : n < new[2] => <<new[1], n>> \in published
    <2> SUFFICES ASSUME NEW n \in Seqs, n < db.nextSeq[a]
                 PROVE  <<a, n>> \in published
      BY <1>1
    <2> QED BY DEF RelayInv, TableInv, TableOK, SequenceContiguous, Ids
  <1>3. \A id \in Ids : db'.state[id] # "NONE" <=> (id = new \/ db.state[id] # "NONE")
    BY <1>1 DEF Outcome
  <1>4. published' = published \cup {new} /\ new \notin published
    BY <1>1, <1>3
  <1>5. Ordered!GiveUp
    BY <1>1, EvictionGivesUp DEF Outcome
  <1>6. Ordered!Publish(new)
    BY <1>2, <1>4 DEF Ordered!Publish
  <1>7. new \in Ordered!Messages /\ UNCHANGED <<arrived, suppressed>>
    BY DEF Ordered!Messages, Ids, relayVars
  <1> QED BY <1>5, <1>6, <1>7 DEF Ordered!Next

LEMMA MaintainRefines ==
  ASSUME RelayInv, Maintain
  PROVE  Ordered!Next
  <1>1. Evicts(db, db')
    BY OperateStep DEF RelayInv, Maintain
  <1>2. \A id \in Ids : db'.state[id] # "NONE" <=> db.state[id] # "NONE"
    BY <1>1 DEF Evicts, Outcome
  <1>3. {id \in Ids : db.state[id] # "NONE"}' = {id \in Ids : db.state[id] # "NONE"}
    BY <1>2
  <1>4. Ordered!GiveUp
    BY <1>1, EvictionGivesUp DEF Evicts, Outcome
  <1> QED BY <1>3, <1>4 DEF Ordered!Next, Maintain, relayVars

LEMMA AnsweredRefines ==
  ASSUME RelayInv, NEW p \in Polls, Answered(p)
  PROVE  [Ordered!Next]_Ordered!vars
  <1> DEFINE id == Head(poll[p].batch)
  <1>1. poll[p].batch \in Seq(Ids) /\ poll[p].batch # <<>>
    BY DEF Answered, Accept, Refuse, LoseReply, Dispatching, RelayInv, TypeOK
  <1>2. id \in Ids /\ Ready(id)
    <2>1. Len(poll[p].batch) \in Nat \ {0} /\ id = poll[p].batch[1]
      BY <1>1, EmptySeq
    <2> QED BY <1>1, <2>1, ElementOfSeq DEF RelayInv
  <1>3. Ordered!Turn(id)
    BY <1>2, ReadyMeaning, ReadyTurn DEF RelayInv
  <1>4. UNCHANGED <<db, suppressed>> /\ (arrived' = arrived \cup {id} \/ arrived' = arrived)
    BY DEF Answered, Accept, Refuse, LoseReply
  <1>5. CASE arrived' = arrived
    BY <1>4, <1>5, QuietStutters DEF Quiet
  <1>6. CASE arrived' = arrived \cup {id}
    BY <1>2, <1>3, <1>4, <1>6
       DEF Ordered!Next, Ordered!Deliver, Ordered!Messages, Ids, InState
  <1> QED BY <1>4, <1>5, <1>6

LEMMA StartPollRefines ==
  ASSUME RelayInv, NEW p \in Polls, StartPoll(p)
  PROVE  Ordered!Suppress
  <1> DEFINE d == ReleaseExpired(db)
  <1>1. PICK S \in ClaimSets(d) : \E q \in SetToSeqs(S) :
          Proceed(p, Claimed(d, S, p[1]), q, dedup[p[1]], Lease)
    BY DEF StartPoll
  <1>2. PICK q \in SetToSeqs(S) : Proceed(p, Claimed(d, S, p[1]), q, dedup[p[1]], Lease)
    BY <1>1
  <1> DEFINE c == Claimed(d, S, p[1])
  <1>3. p[1] \in Relays
    BY DEF Polls
  <1>4. TableOK(d) /\ Quiet(db, d)
    BY ReleaseExpiredOK, ReleaseExpiredQuiet DEF RelayInv, TableInv
  <1>5. S \subseteq Claimable(d)
    BY <1>1 DEF ClaimSets
  <1>6. TableOK(c) /\ Quiet(db, c)
    BY <1>3, <1>4, <1>5, ClaimedOK, ClaimedQuiet, QuietTrans
  <1>7. S \in SUBSET Ids
    BY <1>5 DEF Claimable, InState
  <1>8. q \in Seq(Ids)
    BY <1>2, <1>7, ClaimOrder
  <1>9. UNCHANGED <<dedup, arrived>> /\ dedup[p[1]] \subseteq ArrivedKeys
    BY <1>3 DEF StartPoll, RelayInv
  <1> HIDE DEF c, d
  <1>10. Proceed(p, c, q, dedup'[p[1]], Lease)
    BY <1>2, <1>9 DEF c
  <1>11. \A id \in Ids : /\ c.state[id] = "NONE" <=> db.state[id] = "NONE"
                         /\ c.state[id] = "DROPPED" <=> db.state[id] = "DROPPED"
                         /\ c.state[id] = "PROCESSING" => ReadyIn(db, id)
    <2>1. Quiet(c, db)
      BY <1>6 DEF Quiet
    <2>2. \A id \in Ids : c.state[id] = "PROCESSING" => ReadyIn(db, id)
      BY <1>6, <2>1, ActiveReady, ReadyKept, QuietProgress
    <2> QED BY <1>6, <2>2 DEF Quiet, Outcome
  <1> QED BY <1>6, <1>8, <1>9, <1>10, <1>11, ProceedSuppresses

LEMMA ResumeRefines ==
  ASSUME RelayInv, RelayInv', NEW p \in Polls, Resume(p)
  PROVE  Ordered!Suppress
  <1> DEFINE id == Head(poll[p].batch)
             w == p[1]
             q == Tail(poll[p].batch)
  <1>1. w \in Relays /\ id \in Ids /\ q \in Seq(Ids) /\ TableOK(db)
    BY ResumedBatch DEF Resume, ResumeOk, ResumeFailed, RelayInv, TableInv
  <1>2. UNCHANGED arrived /\ dedup'[w] \subseteq ArrivedKeys
    BY <1>1 DEF Resume, ResumeOk, ResumeFailed, RelayInv, ArrivedKeys
  <1>3. \A i \in Ids : db.state[i] = "PROCESSING" => ReadyIn(db, i)
    BY <1>1, ActiveReady
  <1>4. CASE ResumeOk(p)
    <2> DEFINE d == MarkSent(db, {id}, w)
    <2>1. {id} \in SUBSET Ids
      BY <1>1
    <2>2. /\ TableOK(d)
          /\ \A i \in Ids : d.state[i] = IF i \in {id} /\ Holds(db, i, w) THEN "SENT"
                                         ELSE db.state[i]
      <3> HIDE DEF id, w
      <3> QED BY <1>1, <2>1, MarkSentState
    <2>3. Proceed(p, d, q, dedup'[w], poll[p].inLease)
      BY <1>4 DEF ResumeOk
    <2> HIDE DEF d, q
    <2>4. \A i \in Ids : /\ d.state[i] = "NONE" <=> db.state[i] = "NONE"
                         /\ d.state[i] = "DROPPED" <=> db.state[i] = "DROPPED"
                         /\ d.state[i] = "PROCESSING" => ReadyIn(db, i)
      BY <1>3, <2>2 DEF Holds
    <2> QED BY <1>1, <1>2, <2>2, <2>3, <2>4, ProceedSuppresses
  <1>5. CASE ResumeFailed(p)
    <2> DEFINE d == MarkFailed(db, id, w)
    <2>1. TableOK(d) /\ Quiet(db, d)
      BY <1>1, MarkFailedOK, MarkFailedQuiet
    <2>2. Proceed(p, d, q, dedup'[w], poll[p].inLease)
      BY <1>5 DEF ResumeFailed
    <2> HIDE DEF d, q
    <2>3. Quiet(d, db)
      BY <2>1 DEF Quiet
    <2>4. \A i \in Ids : d.state[i] = "PROCESSING" => ReadyIn(db, i)
      BY <2>1, <2>3, ActiveReady, ReadyKept, QuietProgress
    <2>5. \A i \in Ids : /\ d.state[i] = "NONE" <=> db.state[i] = "NONE"
                         /\ d.state[i] = "DROPPED" <=> db.state[i] = "DROPPED"
      BY <2>1 DEF Quiet, Outcome
    <2> QED BY <1>1, <1>2, <2>1, <2>2, <2>4, <2>5, ProceedSuppresses
  <1> QED BY <1>4, <1>5 DEF Resume

\* The polling relays implement the abstract outbox: first deliveries come in
\* sequence order per aggregate, and nothing is skipped but duplicates and
\* records deleted after failing, whatever crashes, overlapping polls, late
\* answers and expired claims do.
THEOREM Refinement == Spec => DeliversInOrder
  <1>1. Init => Ordered!Init
    BY DEF Init, TableInit, EmptyTable, Ordered!Init, InState
  <1>2. RelayInv /\ RelayInv' /\ [Next]_vars => [Ordered!Next]_Ordered!vars
    <2> SUFFICES ASSUME RelayInv, RelayInv', [Next]_vars
                 PROVE  [Ordered!Next]_Ordered!vars
      OBVIOUS
    <2>1. CASE Produce
      BY <2>1, ProduceRefines DEF Produce
    <2>2. CASE Maintain
      BY <2>2, MaintainRefines
    <2>3. ASSUME NEW p \in Polls, StartPoll(p) \/ Answered(p) \/ Resume(p)
          PROVE  [Ordered!Next]_Ordered!vars
      BY <2>3, StartPollRefines, AnsweredRefines, ResumeRefines DEF Ordered!Next
    <2>4. ASSUME NEW w \in Relays, Crash(w)
          PROVE  [Ordered!Next]_Ordered!vars
      BY <2>4, QuietStutters DEF Crash, Quiet
    <2>5. CASE PassTime
      BY <2>5, ElapsedQuiet, QuietStutters DEF PassTime, Tick, RelayInv, TableInv
    <2>6. CASE UNCHANGED vars
      BY <2>6, QuietStutters DEF vars, relayVars, Quiet
    <2> QED BY <2>1, <2>2, <2>3, <2>4, <2>5, <2>6 DEF Next
  <1> QED BY <1>1, <1>2, RelayInvariant, PTL DEF Spec, DeliversInOrder, Ordered!Spec

\* The abstract outbox delivers in order: a message is settled only when its
\* turn has come, and turns are never taken back.
THEOREM DeliveryInOrder == Ordered!Spec => []Ordered!InOrder
  <1>1. Ordered!Init => Ordered!InOrder
    BY DEF Ordered!Init, Ordered!InOrder, Ordered!Settled
  <1>2. Ordered!InOrder /\ [Ordered!Next]_Ordered!vars => Ordered!InOrder'
    <2> SUFFICES ASSUME Ordered!InOrder, [Ordered!Next]_Ordered!vars
                 PROVE  Ordered!InOrder'
      OBVIOUS
    <2> DEFINE Published == {id \in Ids : db.state[id] # "NONE"}
    <2>1. Published \subseteq Published' /\ Ordered!Settled \subseteq Ordered!Settled'
      BY DEF Ordered!Next, Ordered!vars, Ordered!Publish, Ordered!GiveUp, Ordered!Deliver, Ordered!Suppress, Ordered!Settled
    <2>2. \A m \in Ordered!Settled' \ Ordered!Settled : Ordered!Turn(m)
      BY DEF Ordered!Next, Ordered!vars, Ordered!Publish, Ordered!GiveUp, Ordered!Deliver, Ordered!Suppress, Ordered!Settled
    <2> QED BY <2>1, <2>2 DEF Ordered!InOrder, Ordered!Turn
  <1> QED BY <1>1, <1>2, PTL DEF Ordered!Spec

\* What the downstream sees: a message of an aggregate arrives, or is skipped,
\* only after every earlier one was settled.
COROLLARY DownstreamInOrder == Spec => []Ordered!InOrder
  BY Refinement, DeliveryInOrder, PTL DEF DeliversInOrder

-----------------------------------------------------------------------------
(* Claims are exclusive while their lease runs, if polls do not overlap.   *)

\* From d to e, the running claims of everyone but w are untouched.
Respects(d, e, w) ==
  \A id \in Ids :
    d.state[id] = "PROCESSING" /\ d.owner[id] # w /\ d.lease[id] > 0
      => /\ e.state[id] = "PROCESSING"
         /\ e.owner[id] = d.owner[id]
         /\ e.lease[id] = d.lease[id]

LEMMA RespectsTrans ==
  ASSUME NEW d, NEW e, NEW f, NEW w, Respects(d, e, w), Respects(e, f, w)
  PROVE  Respects(d, f, w)
  BY DEF Respects

LEMMA ReleaseExpiredRespects ==
  ASSUME NEW d, TableOK(d), NEW w
  PROVE  Respects(d, ReleaseExpired(d), w)
  <1>1. "PENDING" \in OutboxState /\ d \in Tables
    BY DEF OutboxState, Stored, Unsent, TableOK
  <1> QED BY <1>1, UnclaimFields DEF Respects, ReleaseExpired

LEMMA ClaimedRespects ==
  ASSUME NEW d, TableOK(d), NEW S, S \subseteq Claimable(d), NEW v \in Relays, NEW w
  PROVE  Respects(d, Claimed(d, S, v), w)
  <1>1. \A id \in S : d.state[id] = "PENDING"
    BY DEF Claimable, InState
  <1> QED BY <1>1, ClaimedFields DEF Respects, TableOK

LEMMA MarkSentRespects ==
  ASSUME NEW d, TableOK(d), NEW S, NEW w
  PROVE  Respects(d, MarkSent(d, S, w), w)
  <1>1. "SENT" \in OutboxState /\ d \in Tables
    BY DEF OutboxState, Stored, TableOK
  <1> QED BY <1>1, UnclaimFields DEF Respects, MarkSent, Holds

LEMMA MarkFailedRespects ==
  ASSUME NEW d, TableOK(d), NEW id \in Ids, NEW w
  PROVE  Respects(d, MarkFailed(d, id, w), w)
  <1>1. CASE ~Holds(d, id, w)
    BY <1>1 DEF MarkFailed, Respects
  <1>2. CASE Holds(d, id, w)
    <2> DEFINE n == d.attempts[id] + 1
               s == IF n >= MaxAttempts THEN "FAILED" ELSE "PENDING"
               u == Unclaim(d, {id}, s)
    <2>1. s \in OutboxState /\ d \in Tables
      BY DEF OutboxState, Stored, Unsent, TableOK
    <2>2. MarkFailed(d, id, w) = [u EXCEPT !.attempts[id] = n]
      BY <1>2 DEF MarkFailed
    <2>3. /\ u \in Tables
          /\ \A i \in Ids : i # id => /\ u.state[i] = d.state[i]
                                      /\ u.owner[i] = d.owner[i]
                                      /\ u.lease[i] = d.lease[i]
      BY <2>1, UnclaimFields
    <2> HIDE DEF n, s, u
    <2>4. /\ MarkFailed(d, id, w).state = u.state
          /\ MarkFailed(d, id, w).owner = u.owner
          /\ MarkFailed(d, id, w).lease = u.lease
      BY <2>2, <2>3 DEF Tables
    <2> QED BY <1>2, <2>3, <2>4 DEF Holds, Respects
  <1> QED BY <1>1, <1>2

LEMMA DeleteRespects ==
  ASSUME NEW d, TableOK(d), NEW S, S \subseteq InState(d, {"SENT", "FAILED"}), NEW w
  PROVE  Respects(d, Delete(d, S), w)
  <1>1. \A id \in S : d.state[id] \in {"SENT", "FAILED"}
    BY DEF InState
  <1> QED BY <1>1, DeleteFields DEF Respects, TableOK

LEMMA EnforceMaxRecordsRespects ==
  ASSUME NEW d, TableOK(d), NEW e \in EnforceMaxRecords(d), NEW w
  PROVE  Respects(d, e, w)
  <1>1. PICK R \in EvictionSets(d) : e = Delete(d, R)
    BY DEF EnforceMaxRecords
  <1>2. R \subseteq InState(d, {"SENT", "FAILED"})
    BY DEF EvictionSets, InState
  <1> QED BY <1>1, <1>2, DeleteRespects

LEMMA EnqueueRespects ==
  ASSUME TableInv, NEW a \in Aggregates, Enqueue(a), NEW w
  PROVE  Respects(db, db', w)
  <1>1. TableOK(db) /\ db.nextSeq[a] < MaxSeq
    BY DEF TableInv, Enqueue
  <1>2. TableOK(Enqueued(db, a)) /\ db' \in EnforceMaxRecords(Enqueued(db, a))
    BY <1>1, EnqueuedOK DEF Enqueue
  <1>3. /\ Enqueued(db, a).owner = db.owner
        /\ Enqueued(db, a).lease = db.lease
    BY <1>1 DEF Enqueued, TableOK, Tables
  <1>4. ASSUME NEW id \in Ids, db.state[id] = "PROCESSING"
        PROVE  Enqueued(db, a).state[id] = "PROCESSING"
    <2>1. /\ db.state[<<a, db.nextSeq[a]>>] = "NONE"
          /\ Enqueued(db, a).state[id] = IF id = <<a, db.nextSeq[a]>> THEN "PENDING"
                                         ELSE db.state[id]
      BY <1>1, EnqueuedState
    <2> QED BY <1>4, <2>1
  <1>5. Respects(db, Enqueued(db, a), w)
    BY <1>3, <1>4 DEF Respects
  <1> QED BY <1>2, <1>5, EnforceMaxRecordsRespects, RespectsTrans

LEMMA OperateRespects ==
  ASSUME TableInv, Operate, NEW w
  PROVE  Respects(db, db', w)
  <1>1. TableOK(db)
    BY DEF TableInv
  <1>2. ASSUME NEW id \in Ids, db' = Requeue(db, id)
        PROVE  Respects(db, db', w)
    <2>1. CASE db.state[id] # "FAILED"
      BY <1>2, <2>1 DEF Requeue, Respects
    <2>2. CASE db.state[id] = "FAILED"
      <3>1. /\ db'.state = [db.state EXCEPT ![id] = "PENDING"]
            /\ db'.owner = db.owner /\ db'.lease = db.lease
        BY <1>1, <1>2, <2>2 DEF Requeue, TableOK, Tables
      <3> QED BY <1>1, <2>2, <3>1 DEF Respects, TableOK, Tables
    <2> QED BY <2>1, <2>2
  <1>3. ASSUME NEW R \in SUBSET InState(db, {"SENT"}), db' \in EnforceMaxRecords(Delete(db, R))
        PROVE  Respects(db, db', w)
    <2>1. R \subseteq InState(db, {"SENT", "FAILED"})
      BY DEF InState
    <2> QED BY <1>1, <1>3, <2>1, DeleteOK, DeleteRespects, EnforceMaxRecordsRespects,
               RespectsTrans
  <1> QED BY <1>2, <1>3 DEF Operate, Cleanups

\* The polls of one relay do not overlap.
OnePollEach == \A p, q \in Polls : p[1] = q[1] => p = q

\* What HeldWhileLeased says of one poll b of worker w, for table d.
HeldIn(d, b, w) ==
  /\ \A i, j \in 1 .. Len(b.batch) : b.batch[i] = b.batch[j] => i = j
  /\ b.inLease > 0 => \A i \in 1 .. Len(b.batch) : /\ Holds(d, b.batch[i], w)
                                                   /\ d.lease[b.batch[i]] = b.inLease

LEMMA HeldMeaning == HeldWhileLeased <=> \A p \in Polls : HeldIn(db, poll[p], p[1])
  BY DEF HeldWhileLeased, HeldIn

LEMMA IdleHeld ==
  ASSUME NEW d, NEW w
  PROVE  HeldIn(d, Idle, w)
  BY DEF HeldIn, Idle

\* The claims of a poll survive what the others do to the table.
LEMMA OthersHeld ==
  ASSUME TypeOK, NEW p \in Polls, HeldIn(db, poll[p], p[1]), NEW e, NEW w,
         w # p[1], Respects(db, e, w)
  PROVE  HeldIn(e, poll[p], p[1])
  <1>1. poll[p].batch \in Seq(Ids)
    BY DEF TypeOK
  <1>2. \A i \in 1 .. Len(poll[p].batch) : poll[p].batch[i] \in Ids
    BY <1>1, ElementOfSeq
  <1> QED BY <1>2 DEF HeldIn, Holds, Respects

LEMMA ProceedHeld ==
  ASSUME OnePollEach, RelayInv, HeldWhileLeased, NEW p \in Polls, NEW d, TableOK(d),
         Respects(db, d, p[1]), NEW q \in Seq(Ids), NEW lease \in 0 .. Lease, NEW D,
         HeldIn(d, [phase |-> "sending", batch |-> q, inLease |-> lease], p[1]),
         Proceed(p, d, q, D, lease)
  PROVE  HeldWhileLeased'
  <1> DEFINE w == p[1]
  <1>1. PICK n \in 0 .. Len(q) :
          /\ db' = MarkSent(d, {q[i] : i \in 1 .. n}, w)
          /\ poll' = [poll EXCEPT ![p] =
                        IF SubSeq(q, n + 1, Len(q)) = <<>> THEN Idle
                        ELSE [phase |-> "sending", batch |-> SubSeq(q, n + 1, Len(q)),
                              inLease |-> lease]]
    BY DEF Proceed
  <1> DEFINE skipped == {q[i] : i \in 1 .. n}
             rest == SubSeq(q, n + 1, Len(q))
  <1>2. /\ Len(q) \in Nat /\ n \in Nat /\ n <= Len(q)
        /\ \A i \in 1 .. Len(q) : q[i] \in Ids
    BY LenProperties, ElementOfSeq
  <1>3. /\ Len(rest) = Len(q) - n
        /\ \A i \in 1 .. Len(q) - n : rest[i] = q[n + i]
    BY Suffix
  <1>4. skipped \in SUBSET Ids
    BY <1>2
  <1>5. /\ \A i, j \in 1 .. Len(q) : q[i] = q[j] => i = j
        /\ lease > 0 => \A i \in 1 .. Len(q) : Holds(d, q[i], w) /\ d.lease[q[i]] = lease
    BY DEF HeldIn
  <1>6. /\ poll'[p] = IF rest = <<>> THEN Idle
                      ELSE [phase |-> "sending", batch |-> rest, inLease |-> lease]
        /\ \A r \in Polls : r # p => poll'[r] = poll[r]
    BY <1>1, PollUpdate DEF RelayInv
  <1>7. Respects(db, db', w)
    BY <1>1, MarkSentRespects, RespectsTrans
  <1>8. \A id \in Ids \ skipped : /\ db'.state[id] = d.state[id]
                                  /\ db'.owner[id] = d.owner[id]
                                  /\ db'.lease[id] = d.lease[id]
    <2>1. "SENT" \in OutboxState /\ d \in Tables
      BY DEF OutboxState, Stored, TableOK
    <2> QED BY <1>1, <2>1, UnclaimFields DEF MarkSent
  <1> HIDE DEF skipped, rest
  <1>9. \A i \in 1 .. Len(rest) : /\ n + i \in 1 .. Len(q)
                                  /\ rest[i] = q[n + i]
                                  /\ rest[i] \in Ids \ skipped
    <2> SUFFICES ASSUME NEW i \in 1 .. Len(rest)
                 PROVE  n + i \in 1 .. Len(q) /\ rest[i] = q[n + i] /\ rest[i] \in Ids \ skipped
      OBVIOUS
    <2>1. n + i \in 1 .. Len(q) /\ rest[i] = q[n + i]
      BY <1>2, <1>3
    <2>2. \A j \in 1 .. n : j \in 1 .. Len(q) /\ j # n + i
      BY <1>2
    <2> QED BY <1>2, <1>5, <2>1, <2>2 DEF skipped
  <1>10. HeldIn(db', poll'[p], w)
    <2>1. CASE rest = <<>>
      BY <1>6, <2>1, IdleHeld
    <2>2. CASE rest # <<>>
      <3>1. poll'[p].batch = rest /\ poll'[p].inLease = lease
        BY <1>6, <2>2
      <3>2. \A i, j \in 1 .. Len(rest) : rest[i] = rest[j] => i = j
        BY <1>2, <1>3, <1>5, <1>9
      <3>3. lease > 0 => \A i \in 1 .. Len(rest) : /\ Holds(db', rest[i], w)
                                                    /\ db'.lease[rest[i]] = lease
        <4> SUFFICES ASSUME lease > 0, NEW i \in 1 .. Len(rest)
                     PROVE  Holds(db', rest[i], w) /\ db'.lease[rest[i]] = lease
          OBVIOUS
        <4>1. Holds(d, rest[i], w) /\ d.lease[rest[i]] = lease
          BY <1>5, <1>9
        <4> QED BY <4>1, <1>8, <1>9 DEF Holds
      <3> QED BY <3>1, <3>2, <3>3 DEF HeldIn
    <2> QED BY <2>1, <2>2
  <1>11. \A r \in Polls : r # p => HeldIn(db', poll'[r], r[1])
    BY <1>6, <1>7, HeldMeaning, OthersHeld DEF OnePollEach, RelayInv
  <1>12. \A r \in Polls : HeldIn(db', poll'[r], r[1])
    BY <1>10, <1>11
  <1> QED BY <1>12 DEF HeldWhileLeased, HeldIn

\* Steps that leave every batch in place or drop it.
LEMMA TableStepHeld ==
  ASSUME RelayInv, HeldWhileLeased, NEW w, \A p \in Polls : p[1] # w,
         Respects(db, db', w),
         \A p \in Polls : \/ /\ poll'[p].batch = poll[p].batch
                             /\ poll'[p].inLease = poll[p].inLease
                          \/ poll'[p] = Idle
  PROVE  HeldWhileLeased'
  <1>1. ASSUME NEW p \in Polls
        PROVE  HeldIn(db', poll'[p], p[1])
    <2>1. HeldIn(db', poll[p], p[1])
      BY HeldMeaning, OthersHeld DEF RelayInv
    <2>2. CASE poll'[p].batch = poll[p].batch /\ poll'[p].inLease = poll[p].inLease
      BY <2>1, <2>2 DEF HeldIn
    <2>3. CASE poll'[p] = Idle
      BY <2>3, IdleHeld
    <2> QED BY <2>2, <2>3
  <1> QED BY <1>1 DEF HeldWhileLeased, HeldIn

LEMMA StartPollHeld ==
  ASSUME OnePollEach, RelayInv, HeldWhileLeased, NEW p \in Polls, StartPoll(p)
  PROVE  HeldWhileLeased'
  <1> DEFINE d == ReleaseExpired(db)
  <1>1. PICK S \in ClaimSets(d) : \E q \in SetToSeqs(S) :
          Proceed(p, Claimed(d, S, p[1]), q, dedup[p[1]], Lease)
    BY DEF StartPoll
  <1>2. PICK q \in SetToSeqs(S) : Proceed(p, Claimed(d, S, p[1]), q, dedup[p[1]], Lease)
    BY <1>1
  <1> DEFINE c == Claimed(d, S, p[1])
  <1>3. p[1] \in Relays
    BY DEF Polls
  <1>4. TableOK(d) /\ Respects(db, d, p[1])
    BY ReleaseExpiredOK, ReleaseExpiredRespects DEF RelayInv, TableInv
  <1>5. S \subseteq Claimable(d)
    BY <1>1 DEF ClaimSets
  <1>6. TableOK(c) /\ Respects(db, c, p[1])
    BY <1>3, <1>4, <1>5, ClaimedOK, ClaimedRespects, RespectsTrans
  <1>7. S \in SUBSET Ids
    BY <1>5 DEF Claimable, InState
  <1>8. /\ q \in Seq(Ids) /\ q \in Seq(S)
        /\ \A i, j \in 1 .. Len(q) : q[i] = q[j] => i = j
    BY <1>2, <1>7, ClaimOrder
  <1>9. \A id \in S : Holds(c, id, p[1]) /\ c.lease[id] = Lease
    BY <1>3, <1>4, <1>7, ClaimedFields DEF Holds, TableOK
  <1> HIDE DEF c, d
  <1>10. HeldIn(c, [phase |-> "sending", batch |-> q, inLease |-> Lease], p[1])
    BY <1>8, <1>9, ElementOfSeq DEF HeldIn
  <1>11. Lease \in 0 .. Lease /\ Proceed(p, c, q, dedup[p[1]], Lease)
    BY <1>2, OutboxAssumption DEF c
  <1> QED BY <1>6, <1>8, <1>10, <1>11, ProceedHeld

\* markFailed touches no other record.
LEMMA MarkFailedOthers ==
  ASSUME NEW d, TableOK(d), NEW id \in Ids, NEW w
  PROVE  \A i \in Ids \ {id} : /\ MarkFailed(d, id, w).state[i] = d.state[i]
                               /\ MarkFailed(d, id, w).owner[i] = d.owner[i]
                               /\ MarkFailed(d, id, w).lease[i] = d.lease[i]
  <1>1. CASE ~Holds(d, id, w)
    BY <1>1 DEF MarkFailed
  <1>2. CASE Holds(d, id, w)
    <2> DEFINE n == d.attempts[id] + 1
               s == IF n >= MaxAttempts THEN "FAILED" ELSE "PENDING"
               u == Unclaim(d, {id}, s)
    <2>1. s \in OutboxState /\ d \in Tables
      BY DEF OutboxState, Stored, Unsent, TableOK
    <2>2. MarkFailed(d, id, w) = [u EXCEPT !.attempts[id] = n]
      BY <1>2 DEF MarkFailed
    <2>3. /\ u \in Tables
          /\ \A i \in Ids : i # id => /\ u.state[i] = d.state[i]
                                      /\ u.owner[i] = d.owner[i]
                                      /\ u.lease[i] = d.lease[i]
      BY <2>1, UnclaimFields
    <2> HIDE DEF n, s, u
    <2>4. /\ MarkFailed(d, id, w).state = u.state
          /\ MarkFailed(d, id, w).owner = u.owner
          /\ MarkFailed(d, id, w).lease = u.lease
      BY <2>2, <2>3 DEF Tables
    <2> QED BY <2>3, <2>4
  <1> QED BY <1>1, <1>2

\* Time runs for a claim and for the poll that holds it alike.
LEMMA PassTimeHeld ==
  ASSUME RelayInv, HeldWhileLeased, PassTime
  PROVE  HeldWhileLeased'
  <1>1. /\ db'.state = db.state /\ db'.owner = db.owner
        /\ \A id \in Ids : db'.lease[id] = IF db.lease[id] = 0 THEN 0 ELSE db.lease[id] - 1
    BY DEF PassTime, Tick, Elapsed, RelayInv, TableInv, TableOK, Tables
  <1>2. ASSUME NEW p \in Polls
        PROVE  HeldIn(db', poll'[p], p[1])
    <2>1. /\ poll[p].batch \in Seq(Ids) /\ poll[p].inLease \in Nat
          /\ poll'[p].batch = poll[p].batch
          /\ poll'[p].inLease = IF poll[p].inLease = 0 THEN 0 ELSE poll[p].inLease - 1
      BY OutboxAssumption DEF PassTime, RelayInv, TypeOK
    <2>2. \A i \in 1 .. Len(poll[p].batch) : poll[p].batch[i] \in Ids
      BY <2>1, ElementOfSeq
    <2>3. HeldIn(db, poll[p], p[1])
      BY HeldMeaning
    <2> QED BY <1>1, <2>1, <2>2, <2>3 DEF HeldIn, Holds
  <1> QED BY <1>2 DEF HeldWhileLeased, HeldIn

LEMMA ResumeHeld ==
  ASSUME OnePollEach, RelayInv, HeldWhileLeased, NEW p \in Polls, Resume(p)
  PROVE  HeldWhileLeased'
  <1> DEFINE id == Head(poll[p].batch)
             w == p[1]
             q == Tail(poll[p].batch)
             lease == poll[p].inLease
  <1>1. /\ w \in Relays /\ id \in Ids /\ q \in Seq(Ids) /\ TableOK(db)
        /\ lease \in 0 .. Lease
    BY ResumedBatch DEF Resume, ResumeOk, ResumeFailed, RelayInv, TableInv
  <1>2. poll[p].batch \in Seq(Ids) /\ poll[p].batch # <<>>
    BY DEF Resume, ResumeOk, ResumeFailed, RelayInv, TypeOK
  <1>3. /\ Len(poll[p].batch) \in Nat /\ Len(q) = Len(poll[p].batch) - 1
        /\ id = poll[p].batch[1]
        /\ \A i \in 1 .. Len(q) : q[i] = poll[p].batch[i + 1]
    BY <1>2, HeadTailProperties, LenProperties
  <1>4. /\ \A i, j \in 1 .. Len(poll[p].batch) : poll[p].batch[i] = poll[p].batch[j] => i = j
        /\ lease > 0 => \A i \in 1 .. Len(poll[p].batch) :
                          /\ Holds(db, poll[p].batch[i], w)
                          /\ db.lease[poll[p].batch[i]] = lease
    BY HeldMeaning DEF HeldIn
  <1> HIDE DEF q, id
  <1>5. \A i \in 1 .. Len(q) : /\ i + 1 \in 1 .. Len(poll[p].batch)
                               /\ q[i] = poll[p].batch[i + 1]
                               /\ q[i] \in Ids \ {id}
    <2> SUFFICES ASSUME NEW i \in 1 .. Len(q)
                 PROVE  /\ i + 1 \in 1 .. Len(poll[p].batch)
                        /\ q[i] = poll[p].batch[i + 1]
                        /\ q[i] \in Ids \ {id}
      OBVIOUS
    <2>1. /\ i + 1 \in 1 .. Len(poll[p].batch) /\ 1 \in 1 .. Len(poll[p].batch) /\ i + 1 # 1
          /\ q[i] = poll[p].batch[i + 1]
      BY <1>3
    <2>2. q[i] \in Ids
      BY <1>1, ElementOfSeq
    <2> QED BY <1>3, <1>4, <2>1, <2>2
  <1>6. \A i, j \in 1 .. Len(q) : q[i] = q[j] => i = j
    <2> SUFFICES ASSUME NEW i \in 1 .. Len(q), NEW j \in 1 .. Len(q), q[i] = q[j]
                 PROVE  i = j
      OBVIOUS
    <2>1. i + 1 = j + 1
      BY <1>4, <1>5
    <2> QED BY <2>1
  <1>7. ASSUME NEW d,
               \A i \in Ids \ {id} : /\ d.state[i] = db.state[i]
                                     /\ d.owner[i] = db.owner[i]
                                     /\ d.lease[i] = db.lease[i]
        PROVE  HeldIn(d, [phase |-> "sending", batch |-> q, inLease |-> lease], w)
    <2>1. ASSUME lease > 0, NEW i \in 1 .. Len(q)
          PROVE  Holds(d, q[i], w) /\ d.lease[q[i]] = lease
      <3>1. Holds(db, q[i], w) /\ db.lease[q[i]] = lease
        BY <1>4, <1>5, <2>1
      <3> QED BY <1>5, <1>7, <3>1 DEF Holds
    <2> QED BY <1>6, <2>1 DEF HeldIn
  <1>8. CASE ResumeOk(p)
    <2> DEFINE d == MarkSent(db, {id}, w)
    <2>1. {id} \in SUBSET Ids /\ "SENT" \in OutboxState /\ db \in Tables
      BY <1>1 DEF OutboxState, Stored, TableOK, id
    <2>2. TableOK(d) /\ Respects(db, d, w)
      BY <1>1, <2>1, MarkSentOK, MarkSentRespects
    <2>3. \A i \in Ids \ {id} : /\ d.state[i] = db.state[i]
                                /\ d.owner[i] = db.owner[i]
                                /\ d.lease[i] = db.lease[i]
      BY <2>1, UnclaimFields DEF MarkSent
    <2>4. Proceed(p, d, q, dedup'[w], lease)
      BY <1>8 DEF ResumeOk, q, id
    <2> HIDE DEF d
    <2> QED BY <1>1, <1>7, <2>2, <2>3, <2>4, ProceedHeld DEF q
  <1>9. CASE ResumeFailed(p)
    <2> DEFINE d == MarkFailed(db, id, w)
    <2>1. id \in Ids
      BY <1>1 DEF id
    <2>2. TableOK(d) /\ Respects(db, d, w)
      BY <1>1, <2>1, MarkFailedOK, MarkFailedRespects
    <2>3. \A i \in Ids \ {id} : /\ d.state[i] = db.state[i]
                                /\ d.owner[i] = db.owner[i]
                                /\ d.lease[i] = db.lease[i]
      BY <1>1, <2>1, MarkFailedOthers
    <2>4. Proceed(p, d, q, dedup[w], lease)
      BY <1>9 DEF ResumeFailed, q, id
    <2> HIDE DEF d
    <2> QED BY <1>1, <1>7, <2>2, <2>3, <2>4, ProceedHeld DEF q
  <1> QED BY <1>8, <1>9 DEF Resume

\* While the lease a batch was claimed with runs, the records of the batch
\* belong to its poll alone (claimBatch, the lease, and the workerId guards),
\* provided that a relay never runs two polls at once -- which start() does
\* not ensure (README, findings).
THEOREM ExclusiveDispatch ==
  ASSUME OnePollEach
  PROVE  Spec => [](HeldWhileLeased /\ OneDispatcherPerLease)
  <1>1. Init => HeldWhileLeased
    BY IdleHeld DEF Init, HeldWhileLeased, HeldIn
  <1>2. RelayInv /\ HeldWhileLeased /\ [Next]_vars => HeldWhileLeased'
    <2> SUFFICES ASSUME RelayInv, HeldWhileLeased, [Next]_vars
                 PROVE  HeldWhileLeased'
      OBVIOUS
    <2>1. CASE Produce
      <3>1. Respects(db, db', NoRelay) /\ poll' = poll
        BY <2>1, EnqueueRespects DEF Produce, RelayInv, relayVars
      <3> QED BY <3>1, TableStepHeld, OutboxAssumption DEF Polls
    <2>2. CASE Maintain
      <3>1. Respects(db, db', NoRelay) /\ poll' = poll
        BY <2>2, OperateRespects DEF Maintain, RelayInv, relayVars
      <3> QED BY <3>1, TableStepHeld, OutboxAssumption DEF Polls
    <2>3. ASSUME NEW p \in Polls, StartPoll(p) \/ Resume(p)
          PROVE  HeldWhileLeased'
      BY <2>3, StartPollHeld, ResumeHeld
    <2>4. ASSUME NEW p \in Polls, Answered(p)
          PROVE  HeldWhileLeased'
      <3>1. db' = db /\ \E ph \in Phases : poll' = [poll EXCEPT ![p].phase = ph]
        BY <2>4 DEF Answered, Accept, Refuse, LoseReply, Answer, Phases
      <3>2. \A r \in Polls : poll'[r].batch = poll[r].batch /\ poll'[r].inLease = poll[r].inLease
        BY <3>1 DEF RelayInv, TypeOK
      <3>3. Respects(db, db', NoRelay)
        BY <3>1 DEF Respects
      <3> QED BY <3>2, <3>3, TableStepHeld, OutboxAssumption DEF Polls
    <2>5. ASSUME NEW w \in Relays, Crash(w)
          PROVE  HeldWhileLeased'
      <3>1. Respects(db, db', NoRelay)
            /\ \A p \in Polls : poll'[p] = IF p[1] = w THEN Idle ELSE poll[p]
        BY <2>5 DEF Crash, Respects
      <3> QED BY <3>1, TableStepHeld, OutboxAssumption DEF Polls
    <2>6. CASE PassTime
      BY <2>6, PassTimeHeld
    <2>7. CASE UNCHANGED vars
      BY <2>7 DEF vars, relayVars, HeldWhileLeased, Holds
    <2> QED BY <2>1, <2>2, <2>3, <2>4, <2>5, <2>6, <2>7 DEF Next
  <1>3. RelayInv /\ HeldWhileLeased => OneDispatcherPerLease
    <2> SUFFICES ASSUME RelayInv, HeldWhileLeased,
                        NEW p \in Polls, NEW q \in Polls, p # q,
                        poll[p].phase # "idle", poll[p].inLease > 0,
                        poll[q].phase # "idle", poll[q].inLease > 0
                 PROVE  Head(poll[p].batch) # Head(poll[q].batch)
      BY DEF OneDispatcherPerLease
    <2>1. ASSUME NEW r \in {p, q}
          PROVE  Holds(db, Head(poll[r].batch), r[1])
      <3>1. poll[r].batch \in Seq(Ids) /\ poll[r].batch # <<>> /\ poll[r].inLease > 0
        BY DEF RelayInv, TypeOK
      <3>2. Head(poll[r].batch) = poll[r].batch[1] /\ 1 \in 1 .. Len(poll[r].batch)
        BY <3>1, EmptySeq
      <3> QED BY <3>1, <3>2 DEF HeldWhileLeased
    <2>2. p[1] # q[1]
      BY DEF OnePollEach
    <2> QED BY <2>1, <2>2 DEF Holds
  <1> QED BY <1>1, <1>2, <1>3, RelayInvariant, PTL DEF Spec
=============================================================================
