--------------------------- MODULE PartitionedRelay ---------------------------
(***************************************************************************)
(* Sharded relays under partition leadership (class RelayLoop of           *)
(* src/src/layers/outbox/engine2/RelayLoop.ts over LeaderElection).        *)
(*                                                                         *)
(* A loop is a worker's RelayLoop for one partition.  poll() runs          *)
(* uninterrupted to "await dispatcher(r)" and from its answer to the next  *)
(* await: StartPoll and Resume are those stretches.  Nothing looks at the  *)
(* lease after StartPoll.  The record store is external (RelayStore is an  *)
(* interface; its only implementation is the tests' MemStore): a record is *)
(* pending, processing (claimed) or sent, and only sent() and release()    *)
(* end a claim.                                                            *)
(*                                                                         *)
(* Abstracted: enqueuedAt grows with the sequence number inside an         *)
(* aggregate and is arbitrary across aggregates.  Left out: _attempts and  *)
(* the metrics, which nothing reads.                                       *)
(***************************************************************************)
EXTENDS LeaderElection, FiniteSets, Sequences, SequencesExt

CONSTANTS Aggregates,
          ShardOf,       \* shardOf: the partition of each aggregate
          MaxSeq,        \* bound: records per aggregate
          MaxCrashes,    \* bound: worker processes lost
          MaxStepDowns   \* bound: voluntary releases

ASSUME PartitionedAssumption ==
  /\ IsFiniteSet(Aggregates)
  /\ ShardOf \in [Aggregates -> Partitions]
  /\ MaxSeq \in Nat
  /\ MaxCrashes \in Nat
  /\ MaxStepDowns \in Nat

VARIABLES store,      \* the records' states
          loops,      \* the RelayLoop of every worker and partition
          arrived,    \* records the downstream has received
          crashes, stepDowns

relayVars == <<store, loops, arrived, crashes, stepDowns>>
vars == <<electionVars, relayVars>>

Loops == Workers \X Partitions
Seqs == 0 .. MaxSeq - 1
Ids == Aggregates \X Seqs

\* token: _token, 0 for null.  batch: what is left of the eligible records,
\* the head being dispatched.  dispatched: sent by this poll.  order: what the
\* last poll reported (order.ok).
Idle(t, ok) == [phase |-> "idle", token |-> t, batch |-> <<>>, dispatched |-> <<>>,
                order |-> ok]
Asleep == Idle(0, TRUE)

Init == /\ ElectionInit
        /\ store = [id \in Ids |-> "none"]
        /\ loops = [l \in Loops |-> Asleep]
        /\ arrived = {}
        /\ crashes = 0
        /\ stepDowns = 0

Pending(st) == {id \in Ids : st[id] = "pending"}

-----------------------------------------------------------------------------
(* The FIFO verifier, on what poll() hands to it.                          *)

\* verify(store.pending()): gaps, counting from 0.
PendingContiguous(st) ==
  \A id \in Pending(st) : id[2] > 0 => <<id[1], id[2] - 1>> \in Pending(st)

\* verifyDispatch: per aggregate, increasing in send order.
Increasing(s) ==
  \A i, j \in 1 .. Len(s) : i < j /\ s[i][1] = s[j][1] => s[i][2] < s[j][2]

-----------------------------------------------------------------------------
(* poll().                                                                 *)

\* Per aggregate of the shard, the contiguous run of pending records that
\* starts at the first pending one.
Eligible(p) ==
  {id \in Pending(store) :
     /\ ShardOf[id[1]] = p
     /\ \A m, n \in Seqs : m < n /\ n < id[2] /\ <<id[1], m>> \in Pending(store)
                             => <<id[1], n>> \in Pending(store)}

\* Mutant: the sort by enqueuedAt is lost.
AnyOrder(S) == SetToSeqs(S)

EligibleOrders(S) == {q \in SetToSeqs(S) : Increasing(q)}

\* Leadership at the start of poll(): renew if held, acquire if free or
\* lapsed.  The loop is left with token t, 0 if it is fenced out.
Lead(l, t) ==
  LET w == l[1]
      p == l[2]
      held == loops[l].token
  IN  \/ /\ held # 0 /\ Check(p, held)
         /\ Renew(p, w, held)
         /\ t = held
      \/ /\ ~(held # 0 /\ Check(p, held))
         /\ MayAcquire(p, w)
         /\ Acquire(p, w)
         /\ t = tokenCounter + 1
      \/ /\ ~(held # 0 /\ Check(p, held))
         /\ ~MayAcquire(p, w)
         /\ UNCHANGED electionVars
         /\ t = 0

\* Mutant: claim()'s answer is ignored.
RefusedNever(st, q, n) == n = 0

\* The first n records of q were taken by others since; the next is pending.
Refused(st, q, n) == /\ \A i \in 1 .. n : st[q[i]] # "pending"
                     /\ n < Len(q) => st[q[n + 1]] = "pending"

\* The loop over the eligible records from Head(q) to the next await: the
\* next record that can be claimed is dispatched; after the last one the
\* verifier runs and poll() returns.
Proceed(l, st, q, t, dispatched) ==
  \E n \in 0 .. Len(q) :
    LET rest == SubSeq(q, n + 1, Len(q))
    IN  /\ Refused(st, q, n)
        /\ IF rest = <<>>
           THEN /\ store' = st
                /\ loops' = [loops EXCEPT ![l] =
                     Idle(t, Increasing(dispatched) /\ PendingContiguous(st))]
           ELSE /\ store' = [st EXCEPT ![Head(rest)] = "processing"]
                /\ loops' = [loops EXCEPT ![l] =
                     [phase |-> "sending", token |-> t, batch |-> rest,
                      dispatched |-> dispatched, order |-> TRUE]]

StartPoll(l) ==
  /\ loops[l].phase = "idle"
  /\ \E t \in 0 .. tokenCounter + 1 :
       /\ Lead(l, t)
       /\ IF t = 0
          THEN /\ loops' = [loops EXCEPT ![l] = Asleep]
               /\ UNCHANGED store
          ELSE \E q \in EligibleOrders(Eligible(l[2])) : Proceed(l, store, q, t, <<>>)
  /\ UNCHANGED <<arrived, crashes, stepDowns>>

Answer(l, phase) == loops' = [loops EXCEPT ![l].phase = phase]

\* The dispatcher, external: it delivers, fails, or fails after delivering.
Accept(l) == /\ loops[l].phase = "sending"
             /\ Answer(l, "ok")
             /\ arrived' = arrived \cup {Head(loops[l].batch)}
             /\ UNCHANGED <<electionVars, store, crashes, stepDowns>>

Refuse(l) == /\ loops[l].phase = "sending"
             /\ Answer(l, "failed")
             /\ UNCHANGED <<electionVars, store, arrived, crashes, stepDowns>>

LoseReply(l) == /\ loops[l].phase = "sending"
                /\ Answer(l, "failed")
                /\ arrived' = arrived \cup {Head(loops[l].batch)}
                /\ UNCHANGED <<electionVars, store, crashes, stepDowns>>

\* sent() and release() do not look at who holds the claim.
ResumeOk(l) ==
  LET b == loops[l].batch
  IN  /\ loops[l].phase = "ok"
      /\ Proceed(l, [store EXCEPT ![Head(b)] = "sent"], Tail(b), loops[l].token,
                 Append(loops[l].dispatched, Head(b)))
      /\ UNCHANGED <<electionVars, arrived, crashes, stepDowns>>

\* Mutant: the failed record keeps its claim.
ResumeFailedKeepsClaim(l) ==
  LET b == loops[l].batch
  IN  /\ loops[l].phase = "failed"
      /\ Proceed(l, store, Tail(b), loops[l].token, loops[l].dispatched)
      /\ UNCHANGED <<electionVars, arrived, crashes, stepDowns>>

\* Mutant: a failed dispatch is settled as sent.
ResumeFailedSent(l) ==
  LET b == loops[l].batch
  IN  /\ loops[l].phase = "failed"
      /\ Proceed(l, [store EXCEPT ![Head(b)] = "sent"], Tail(b), loops[l].token,
                 loops[l].dispatched)
      /\ UNCHANGED <<electionVars, arrived, crashes, stepDowns>>

\* The batch goes on with the next record after a failed dispatch.
ResumeFailed(l) ==
  LET b == loops[l].batch
  IN  /\ loops[l].phase = "failed"
      /\ Proceed(l, [store EXCEPT ![Head(b)] = "pending"], Tail(b), loops[l].token,
                 loops[l].dispatched)
      /\ UNCHANGED <<electionVars, arrived, crashes, stepDowns>>

-----------------------------------------------------------------------------
Enqueue(a) ==
  \E n \in Seqs : /\ \A m \in Seqs : store[<<a, m>>] = "none" <=> m >= n
                  /\ store' = [store EXCEPT ![<<a, n>>] = "pending"]
                  /\ UNCHANGED <<electionVars, loops, arrived, crashes, stepDowns>>

\* A worker gives its partition up, in the middle of a poll or not.
Resign(l) == /\ stepDowns < MaxStepDowns
             /\ stepDowns' = stepDowns + 1
             /\ StepDown(l[2], l[1])
             /\ UNCHANGED <<store, loops, arrived, crashes>>

\* A worker process dies and restarts with new loops; the coordinator and the
\* store live elsewhere.
Crash(w) ==
  /\ crashes < MaxCrashes
  /\ crashes' = crashes + 1
  /\ loops' = [l \in Loops |-> IF l[1] = w THEN Asleep ELSE loops[l]]
  /\ UNCHANGED <<electionVars, store, arrived, stepDowns>>

PassTime == Tick /\ UNCHANGED relayVars

Answered(l) == Accept(l) \/ Refuse(l) \/ LoseReply(l)
Resume(l) == ResumeOk(l) \/ ResumeFailed(l)

Next == \/ \E a \in Aggregates : Enqueue(a)
        \/ \E l \in Loops : StartPoll(l) \/ Answered(l) \/ Resume(l) \/ Resign(l)
        \/ \E w \in Workers : Crash(w)
        \/ PassTime

Spec == Init /\ [][Next]_vars

\* Workers keep polling, every dispatch is answered, and a dispatch that is
\* retried forever gets through: the downstream is not down for good.
FairSpec == /\ Spec
            /\ \A l \in Loops : /\ WF_vars(StartPoll(l))
                                /\ WF_vars(Resume(l))
                                /\ WF_vars(Answered(l))
                                /\ SF_vars(Accept(l))

-----------------------------------------------------------------------------
RelayTypeOK ==
  /\ store \in [Ids -> {"none", "pending", "processing", "sent"}]
  /\ loops \in [Loops -> [phase : {"idle", "sending", "ok", "failed"}, token : Nat,
                          batch : Seq(Ids), dispatched : Seq(Ids), order : BOOLEAN]]
  /\ \A l \in Loops : loops[l].phase = "idle" <=> loops[l].batch = <<>>
  /\ arrived \subseteq Ids
  /\ crashes \in 0 .. MaxCrashes
  /\ stepDowns \in 0 .. MaxStepDowns

\* The token a loop presents is one it was granted.
TokensGranted ==
  \A l \in Loops :
    loops[l].token # 0 =>
      [partition |-> l[2], worker |-> l[1], token |-> loops[l].token] \in grants

Busy(l) == loops[l].phase # "idle"

\* Claims are exclusive: the record a loop dispatches stays claimed until this
\* loop settles it, and no other loop dispatches it -- although a deposed
\* leader goes on beside its successor, and sent() and release() check nothing
\* ("they could interleave claims and still break nothing").
ClaimsExclusive ==
  /\ \A l \in Loops : Busy(l) => store[Head(loops[l].batch)] = "processing"
  /\ \A l, k \in Loops : l # k /\ Busy(l) /\ Busy(k)
                           => Head(loops[l].batch) # Head(loops[k].batch)

\* A record is marked sent only if the downstream has received it.
SentWasDelivered ==
  /\ \A id \in Ids : store[id] = "sent" => id \in arrived
  /\ \A l \in Loops : loops[l].phase = "ok" => Head(loops[l].batch) \in arrived

\* What one poll sends is in order per aggregate (verifyDispatch never
\* complains), although the eligible records were read before the awaits.
DispatchedInOrder == \A l \in Loops : Increasing(loops[l].dispatched)

\* A loop works on its own shard only, so that an aggregate is never handled
\* by two partitions.
OwnShardOnly ==
  \A l \in Loops : \A i \in 1 .. Len(loops[l].batch) : ShardOf[loops[l].batch[i][1]] = l[2]

PartitionedInv == /\ RelayTypeOK
                  /\ ElectionInv
                  /\ TokensGranted
                  /\ OwnShardOnly
                  /\ ClaimsExclusive
                  /\ SentWasDelivered

\* At most one relay of a partition presents a token that passes check(): a
\* deposed leader finds out at its next poll.
OneTokenAccepted ==
  \A l, k \in Loops :
    l[2] = k[2] /\ Check(l[2], loops[l].token) /\ Check(k[2], loops[k].token) => l = k

\* A sent record is never released by a loop that lost track of it.
SentForGood == [][\A id \in Ids : store[id] = "sent" => store'[id] = "sent"]_vars

\* The module comment of RelayLoop: "a record is eligible only when every
\* earlier seq of its aggregate is already sent".
EarlierSentFirst ==
  \A l \in Loops : loops[l].phase = "sending" =>
    LET id == Head(loops[l].batch)
    IN  \A n \in Seqs : n < id[2] => store[<<id[1], n>>] = "sent"

\* The verifier "audits a record set for ordering violations": when a poll's
\* order report is not ok, some record has arrived before an earlier one.
ViolationMeansDisorder ==
  [][\A l \in Loops : loops[l].order /\ ~loops'[l].order
       => \E id \in arrived, n \in Seqs : n < id[2] /\ <<id[1], n>> \notin arrived]_vars

\* Every record is sent in the end: a released claim is retried, and what the
\* leader skipped or lost the lease over is picked up by the next poll.
EventuallySent == \A id \in Ids : store[id] = "pending" ~> store[id] = "sent"
=============================================================================
