---------------------------- MODULE ExactlyOnceSink ----------------------------
(***************************************************************************)
(* Two-phase delivery of stream output (classes ExactlyOnceSink and        *)
(* SourceCursor of src/src/layers/stream-processing/engine/                *)
(* ExactlyOnceSink.ts), with a destination whose writes take time and      *)
(* fail, aborts, and crashes.  One source; a record is its offset.         *)
(*                                                                         *)
(* commit awaits the destination's write and reads the pending transaction *)
(* again when it is back.  A crash leaves what the header of the code says *)
(* it does: the pending transaction, and the offsets of its snapshot.      *)
(*                                                                         *)
(* OneCheckpoint says that the coordinator prepares only when nothing is   *)
(* pending, and neither commits twice nor aborts while a commit is at its  *)
(* write.  The code does not see to that.                                  *)
(***************************************************************************)
EXTENDS Integers, Sequences, FiniteSets

CONSTANTS Commits,        \* bound: calls of commit and recover at once
          MaxOffset,     \* bound
          MaxSinkFaults,  \* bound: failed writes, aborts and crashes
          OneCheckpoint

Records == 1 .. MaxOffset

ASSUME SinkAssumption ==
  /\ {MaxOffset, MaxSinkFaults} \subseteq Nat
  /\ OneCheckpoint \in BOOLEAN

VARIABLES offset, acked,
          buffer,
          txn,            \* _pending
          writing,        \* the records each commit has handed to the destination
          delivered,      \* how often each record reached it
          faults,
          rewrites        \* failed writes that reached it nevertheless (history)

sinkVars == <<offset, acked, buffer, txn, writing, delivered, faults, rewrites>>

NoTxn == [records |-> <<>>, offset |-> 0]

SinkInit == /\ offset = 0
            /\ acked = 0
            /\ buffer = <<>>
            /\ txn = NoTxn
            /\ writing = [k \in Commits |-> <<>>]
            /\ delivered = [r \in Records |-> 0]
            /\ faults = 0
            /\ rewrites = 0

-----------------------------------------------------------------------------
InSeq(s) == {s[i] : i \in DOMAIN s}

Writing == \E k \in Commits : writing[k] # <<>>

SinkFault == /\ faults < MaxSinkFaults
             /\ faults' = faults + 1

\* The job reads a record and writes its output.
WriteRecord ==
  /\ offset < MaxOffset
  /\ offset' = offset + 1
  /\ buffer' = Append(buffer, offset + 1)
  /\ UNCHANGED <<acked, txn, writing, delivered, faults, rewrites>>

PrepareCommit ==
  /\ buffer # <<>>
  /\ OneCheckpoint => txn = NoTxn
  /\ txn' = [records |-> buffer, offset |-> offset]
  /\ buffer' = <<>>
  /\ UNCHANGED <<offset, acked, writing, delivered, faults, rewrites>>

Commit(k) ==
  /\ writing[k] = <<>>
  /\ txn # NoTxn
  /\ OneCheckpoint => ~Writing
  /\ writing' = [writing EXCEPT ![k] = txn.records]
  /\ UNCHANGED <<offset, acked, buffer, txn, delivered, faults, rewrites>>

Reached(k) == [r \in Records |-> IF r \in InSeq(writing[k]) THEN delivered[r] + 1 ELSE delivered[r]]

Completed == NoTxn

\* Whatever is pending by then is taken for what was written; without anything
\* pending commit throws.
WriteDone(k) ==
  /\ writing[k] # <<>>
  /\ delivered' = Reached(k)
  /\ writing' = [writing EXCEPT ![k] = <<>>]
  /\ acked' = IF txn.offset > acked THEN txn.offset ELSE acked
  /\ txn' = Completed
  /\ UNCHANGED <<offset, buffer, faults, rewrites>>

\* The write fails, or only its answer is lost.
WriteFailed(k) ==
  /\ writing[k] # <<>>
  /\ SinkFault
  /\ \/ delivered' = Reached(k) /\ rewrites' = rewrites + 1
     \/ UNCHANGED <<delivered, rewrites>>
  /\ writing' = [writing EXCEPT ![k] = <<>>]
  /\ UNCHANGED <<offset, acked, buffer, txn>>

\* Mutant: what was frozen is dropped.
RestoredNever == buffer

Restored == txn.records \o buffer

Abort ==
  /\ txn # NoTxn
  /\ OneCheckpoint => ~Writing
  /\ SinkFault
  /\ buffer' = Restored
  /\ txn' = NoTxn
  /\ UNCHANGED <<offset, acked, writing, delivered, rewrites>>

\* Mutant: the source resumes where it was.
ResumedLate == offset

\* The source resumes from the snapshot of the transaction that recover finds,
\* or from what was acknowledged.
Resumed == IF txn # NoTxn THEN txn.offset ELSE acked

JobCrash ==
  /\ SinkFault
  /\ offset' = Resumed
  /\ buffer' = <<>>
  /\ writing' = [k \in Commits |-> <<>>]
  /\ \E S \in SUBSET {k \in Commits : writing[k] # <<>>} :
       /\ delivered' = [r \in Records |-> delivered[r]
                          + Cardinality({k \in S : r \in InSeq(writing[k])})]
       /\ rewrites' = rewrites + Cardinality(S)
  /\ UNCHANGED <<acked, txn>>

SinkNext == \/ WriteRecord
            \/ PrepareCommit
            \/ \E k \in Commits : Commit(k) \/ WriteDone(k) \/ WriteFailed(k)
            \/ Abort
            \/ JobCrash

\* Barriers come, and pending transactions are committed or recovered.
SinkFairness == /\ WF_sinkVars(PrepareCommit)
                /\ WF_sinkVars(\E k \in Commits : Commit(k) \/ WriteDone(k))

SinkSpec == SinkInit /\ [][SinkNext]_sinkVars /\ SinkFairness

-----------------------------------------------------------------------------
SinkTypeOK ==
  /\ offset \in 0 .. MaxOffset /\ acked \in 0 .. MaxOffset
  /\ InSeq(buffer) \subseteq Records
  /\ InSeq(txn.records) \subseteq Records /\ txn.offset \in 0 .. MaxOffset
  /\ delivered \in [Records -> Nat]

\* Acknowledged means durable: whatever fails, aborts or crashes on the way, no
\* record below the acknowledged offset is missing at the destination.  The
\* header: "the write is retried, never skipped".
AckedIsDelivered == \A r \in 1 .. acked : delivered[r] > 0

\* Exactly once, but for writes whose answer was lost: a record is delivered
\* again only by a retry, and kept in one place until it is.
DeliveredOnce ==
  OneCheckpoint =>
    \A r \in Records : /\ delivered[r] <= 1 + rewrites
                       /\ r \notin InSeq(txn.records) \cap InSeq(buffer)
                       /\ r <= offset /\ delivered[r] = 0
                            => r \in InSeq(txn.records) \cup InSeq(buffer)

\* What the sink is named for (prepareCommit, commit, abort, recover).
ExactlyOnce == AckedIsDelivered /\ DeliveredOnce

\* Every record the source has is delivered, unless a crash makes the source
\* start over and nobody reads it again.
RecordsDelivered ==
  \A r \in Records : offset >= r ~> delivered[r] > 0 \/ offset < r
=============================================================================
