------------------------ MODULE PartitionedRelayProofs ------------------------
(***************************************************************************)
(* Proofs about LeaderElection and about PartitionedRelay.                 *)
(***************************************************************************)
EXTENDS PartitionedRelay, DataLemmas

-----------------------------------------------------------------------------
(* The election.                                                           *)

\* The empty coordinator satisfies the election's invariant.
LEMMA ElectionInitInv ==
  ASSUME ElectionInit
  PROVE  ElectionInv
BY ElectionAssumption
DEF ElectionInit, ElectionInv, ElectionTypeOK, TokensUnique, LeaseIsLatestGrant, NoLease

\* acquire() preserves it: the new token is larger than every token before.
LEMMA AcquireInv ==
  ASSUME ElectionInv, NEW p \in Partitions, NEW w \in Workers, Acquire(p, w)
  PROVE  ElectionInv'
<1> DEFINE g0 == [partition |-> p, worker |-> w, token |-> tokenCounter + 1]
           l0 == [worker |-> w, token |-> tokenCounter + 1, until |-> now + LeaseMs]
<1>1. /\ leases' = [leases EXCEPT ![p] = l0]
      /\ grants' = grants \cup {g0}
      /\ tokenCounter' = tokenCounter + 1
      /\ now' = now
  BY DEF Acquire, Grant
<1>2. /\ tokenCounter \in Nat /\ now \in Nat
      /\ LeaseMs \in Nat /\ LeaseMs > 0
      /\ l0 \in [worker : Workers \cup {Nobody}, token : Nat, until : Nat]
      /\ g0 \in [partition : Partitions, worker : Workers, token : Tokens]
  BY ElectionAssumption DEF ElectionInv, ElectionTypeOK, Tokens
<1>3. ElectionTypeOK'
  BY <1>1, <1>2 DEF ElectionInv, ElectionTypeOK
<1>4. TokensUnique'
  <2>1. \A g \in grants : g.token <= tokenCounter /\ g.token \in Nat
    BY DEF ElectionInv, ElectionTypeOK, TokensUnique, Tokens
  <2>2. \A g \in grants' : g.token <= tokenCounter'
    BY <1>1, <1>2, <2>1
  <2>3. ASSUME NEW g \in grants', NEW h \in grants', g.token = h.token
        PROVE  g = h
    BY <1>1, <1>2, <2>1, <2>3 DEF ElectionInv, TokensUnique
  <2> QED BY <2>2, <2>3 DEF TokensUnique
<1>5. LeaseIsLatestGrant'
  <2> SUFFICES ASSUME NEW q \in Partitions, leases'[q] # NoLease
               PROVE  /\ [partition |-> q, worker |-> leases'[q].worker,
                          token |-> leases'[q].token] \in grants'
                      /\ leases'[q].until > 0
                      /\ \A g \in grants' : g.partition = q => g.token <= leases'[q].token
    BY DEF LeaseIsLatestGrant
  <2>1. CASE q = p
    <3>1. leases'[q] = l0
      BY <1>1, <2>1 DEF ElectionInv, ElectionTypeOK
    <3>2. \A g \in grants : g.token <= tokenCounter /\ g.token \in Nat
      BY DEF ElectionInv, ElectionTypeOK, TokensUnique, Tokens
    <3> QED BY <1>1, <1>2, <2>1, <3>1, <3>2
  <2>2. CASE q # p
    <3>1. leases'[q] = leases[q]
      BY <1>1, <2>2 DEF ElectionInv, ElectionTypeOK
    <3> QED BY <1>1, <2>2, <3>1 DEF ElectionInv, LeaseIsLatestGrant
  <2> QED BY <2>1, <2>2
<1> QED BY <1>3, <1>4, <1>5 DEF ElectionInv

\* renew() preserves it.
LEMMA RenewInv ==
  ASSUME ElectionInv, NEW p \in Partitions, NEW w \in Workers, NEW t, Renew(p, w, t)
  PROVE  ElectionInv'
<1>1. /\ leases' = [leases EXCEPT ![p] = [leases[p] EXCEPT !.until = now + LeaseMs]]
      /\ UNCHANGED <<now, tokenCounter, grants>>
      /\ leases[p].worker = w
      /\ leases[p].until > now
  BY DEF Renew, Renewable, Live, ElectionInv, ElectionTypeOK
<1>2. now \in Nat /\ LeaseMs \in Nat /\ LeaseMs > 0
      /\ leases \in [Partitions -> [worker : Workers \cup {Nobody}, token : Nat, until : Nat]]
  BY ElectionAssumption DEF ElectionInv, ElectionTypeOK
<1>3. ElectionTypeOK'
  BY <1>1, <1>2 DEF ElectionInv, ElectionTypeOK
<1>4. TokensUnique'
  BY <1>1 DEF ElectionInv, TokensUnique
<1>5. LeaseIsLatestGrant'
  <2>1. leases[p] # NoLease
    BY <1>1, <1>2 DEF NoLease
  <2>2. \A q \in Partitions : /\ leases'[q].worker = leases[q].worker
                              /\ leases'[q].token = leases[q].token
                              /\ q # p => leases'[q] = leases[q]
    BY <1>1, <1>2
  <2>3. leases'[p].until > 0
    BY <1>1, <1>2
  <2> QED BY <1>1, <1>2, <2>1, <2>2, <2>3 DEF ElectionInv, LeaseIsLatestGrant
<1> QED BY <1>3, <1>4, <1>5 DEF ElectionInv

\* stepDown() preserves it.
LEMMA StepDownInv ==
  ASSUME ElectionInv, NEW p \in Partitions, NEW w \in Workers, StepDown(p, w)
  PROVE  ElectionInv'
BY DEF StepDown, ElectionInv, ElectionTypeOK, TokensUnique, LeaseIsLatestGrant, NoLease

\* The clock preserves it.
LEMMA TickInv ==
  ASSUME ElectionInv, Tick
  PROVE  ElectionInv'
BY ElectionAssumption
DEF Tick, ElectionInv, ElectionTypeOK, TokensUnique, LeaseIsLatestGrant, NoLease

LEMMA ElectionStutterInv ==
  ASSUME ElectionInv, UNCHANGED electionVars
  PROVE  ElectionInv'
BY DEF electionVars, ElectionInv, ElectionTypeOK, TokensUnique, LeaseIsLatestGrant, NoLease

\* Tokens are unique and every lease is its partition's latest grant, in every
\* behaviour of LeaderElection.
THEOREM ElectionInvariant == ElectionSpec => []ElectionInv
<1>1. ElectionInit => ElectionInv
  BY ElectionInitInv
<1>2. ElectionInv /\ [ElectionNext]_electionVars => ElectionInv'
  <2> SUFFICES ASSUME ElectionInv, [ElectionNext]_electionVars
               PROVE  ElectionInv'
    OBVIOUS
  <2>1. CASE UNCHANGED electionVars
    BY <2>1, ElectionStutterInv
  <2>2. CASE Tick
    BY <2>2, TickInv
  <2>3. ASSUME NEW p \in Partitions, NEW w \in Workers, Acquire(p, w)
        PROVE  ElectionInv'
    BY <2>3, AcquireInv
  <2>4. ASSUME NEW p \in Partitions, NEW w \in Workers, StepDown(p, w)
        PROVE  ElectionInv'
    BY <2>4, StepDownInv
  <2>5. ASSUME NEW p \in Partitions, NEW w \in Workers, NEW g \in grants,
               Renew(p, w, g.token)
        PROVE  ElectionInv'
    BY <2>5, RenewInv
  <2> QED BY <2>1, <2>2, <2>3, <2>4, <2>5 DEF ElectionNext
<1> QED BY <1>1, <1>2, PTL DEF ElectionSpec

\* The invariant implies that superseded tokens fail check().
LEMMA Fenced == ASSUME ElectionInv PROVE StaleTokenLoses
<1> SUFFICES ASSUME NEW g \in grants, NEW h \in grants, g.partition = h.partition,
                    g.token < h.token, Check(g.partition, g.token)
             PROVE  FALSE
  BY DEF StaleTokenLoses
<1> DEFINE p == g.partition
<1>1. p \in Partitions /\ g.token \in Nat /\ h.token \in Nat /\ now \in Nat
  BY DEF ElectionInv, ElectionTypeOK, Tokens
<1>2. leases[p] # NoLease
  BY <1>1 DEF Check, Live, NoLease
<1>3. h.token <= leases[p].token
  BY <1>1, <1>2 DEF ElectionInv, LeaseIsLatestGrant
<1> QED BY <1>1, <1>3 DEF Check

\* The invariant implies that a grant that passes check() can be renewed.
LEMMA CheckedRenewable == ASSUME ElectionInv PROVE CheckedIsRenewable
<1> SUFFICES ASSUME NEW g \in grants, Check(g.partition, g.token)
             PROVE  Renewable(g.partition, g.worker, g.token)
  BY DEF CheckedIsRenewable
<1> DEFINE p == g.partition
           h == [partition |-> p, worker |-> leases[p].worker, token |-> leases[p].token]
<1>1. p \in Partitions /\ now \in Nat
  BY DEF ElectionInv, ElectionTypeOK
<1>2. leases[p] # NoLease
  BY <1>1 DEF Check, Live, NoLease
<1>3. h \in grants
  BY <1>1, <1>2 DEF ElectionInv, LeaseIsLatestGrant
<1>4. h.token = g.token
  BY DEF Check
<1>5. h = g
  BY <1>3, <1>4 DEF ElectionInv, TokensUnique
<1>6. g.worker = leases[p].worker
  BY <1>5
<1> QED BY <1>6 DEF Check, Renewable

\* Fencing: a superseded token never passes check() again, and what passes
\* check() can be renewed, for any workers, partitions and lease.
THEOREM Fencing == ElectionSpec => [](StaleTokenLoses /\ CheckedIsRenewable)
BY ElectionInvariant, Fenced, CheckedRenewable, PTL

-----------------------------------------------------------------------------
(* The relays.                                                             *)

States == {"none", "pending", "processing", "sent"}
LoopStates == [phase : {"idle", "sending", "ok", "failed"}, token : Nat,
               batch : Seq(Ids), dispatched : Seq(Ids), order : BOOLEAN]

\* The loops other than l dispatch distinct records, claimed in table st.
OthersClaimed(l, st) ==
  \A k \in Loops : k # l /\ Busy(k) =>
    /\ st[Head(loops[k].batch)] = "processing"
    /\ \A j \in Loops : j # l /\ j # k /\ Busy(j)
                          => Head(loops[j].batch) # Head(loops[k].batch)

SentArrived(st) == \A id \in Ids : st[id] = "sent" => id \in arrived

\* What the records of a batch have in common: the shard of the loop.
InShard(q, p) == \A i \in 1 .. Len(q) : ShardOf[q[i][1]] = p

LEMMA LoopUpdate ==
  ASSUME RelayTypeOK, NEW l \in Loops, NEW b, loops' = [loops EXCEPT ![l] = b]
  PROVE  /\ loops'[l] = b
         /\ \A k \in Loops : k # l => loops'[k] = loops[k]
  BY DEF RelayTypeOK

\* The stretch of poll() from one await to the next: st is the store after the
\* stretch's own settlement, q what is left of the batch.
LEMMA ProceedInv ==
  ASSUME RelayTypeOK, SentWasDelivered, OwnShardOnly,
         NEW l \in Loops, NEW st \in [Ids -> States], NEW q \in Seq(Ids),
         NEW t \in Nat, NEW sent \in Seq(Ids),
         OthersClaimed(l, st), SentArrived(st), InShard(q, l[2]),
         Proceed(l, st, q, t, sent),
         UNCHANGED <<arrived, crashes, stepDowns>>
  PROVE  /\ RelayTypeOK' /\ OwnShardOnly' /\ ClaimsExclusive' /\ SentWasDelivered'
         /\ loops'[l].token = t
         /\ \A k \in Loops : k # l => loops'[k].token = loops[k].token
         /\ \A id \in Ids : st[id] = "sent" => store'[id] = "sent"
  <1> DEFINE ok == Increasing(sent) /\ PendingContiguous(st)
             done == Idle(t, ok)
  <1>1. PICK n \in 0 .. Len(q) :
          /\ Refused(st, q, n)
          /\ IF SubSeq(q, n + 1, Len(q)) = <<>>
             THEN store' = st /\ loops' = [loops EXCEPT ![l] = done]
             ELSE /\ store' = [st EXCEPT ![Head(SubSeq(q, n + 1, Len(q)))] = "processing"]
                  /\ loops' = [loops EXCEPT ![l] =
                       [phase |-> "sending", token |-> t, batch |-> SubSeq(q, n + 1, Len(q)),
                        dispatched |-> sent, order |-> TRUE]]
    BY DEF Proceed
  <1> DEFINE rest == SubSeq(q, n + 1, Len(q))
             next == [phase |-> "sending", token |-> t, batch |-> rest,
                      dispatched |-> sent, order |-> TRUE]
  <1>2. /\ Len(q) \in Nat /\ n \in Nat /\ n <= Len(q)
        /\ \A i \in 1 .. Len(q) : q[i] \in Ids
    BY LenProperties, ElementOfSeq
  <1>3. /\ rest \in Seq(Ids)
        /\ Len(rest) = Len(q) - n
        /\ \A i \in 1 .. Len(q) - n : rest[i] = q[n + i]
    BY Suffix
  <1>4. InShard(rest, l[2])
    <2> SUFFICES ASSUME NEW i \in 1 .. Len(rest)
                 PROVE  ShardOf[rest[i][1]] = l[2]
      BY DEF InShard
    <2>1. n + i \in 1 .. Len(q) /\ rest[i] = q[n + i]
      BY <1>2, <1>3
    <2> QED BY <2>1 DEF InShard
  <1> HIDE DEF rest
  <1>5. CASE rest = <<>>
    <2>1. store' = st /\ loops' = [loops EXCEPT ![l] = done]
      BY <1>1, <1>5 DEF rest
    <2>0. ok \in BOOLEAN
      BY ZenonT(30) DEF Increasing, PendingContiguous
    <2> HIDE DEF ok
    <2>2. done = [phase |-> "idle", token |-> t, batch |-> <<>>, dispatched |-> <<>>,
                  order |-> ok]
      BY DEF Idle
    <2>3. done \in LoopStates
      <3>1. <<>> \in Seq(Ids)
        BY EmptySeq
      <3> QED BY <2>0, <2>2, <3>1 DEF LoopStates
    <2> HIDE DEF done
    <2>4. /\ loops'[l] = done
          /\ \A k \in Loops : k # l => loops'[k] = loops[k]
      BY <2>1, LoopUpdate
    <2>5. done.phase = "idle" /\ done.batch = <<>> /\ done.token = t
      BY <2>2
    <2>6. RelayTypeOK'
      BY <2>1, <2>3, <2>4, <2>5 DEF RelayTypeOK, States, LoopStates
    <2>7. OwnShardOnly'
      <3>1. Len(<<>>) = 0
        BY EmptySeq
      <3> QED BY <2>4, <2>5, <3>1 DEF OwnShardOnly
    <2>8. ClaimsExclusive'
      BY <2>1, <2>4, <2>5 DEF ClaimsExclusive, OthersClaimed, Busy
    <2>9. SentWasDelivered'
      BY <2>1, <2>4, <2>5 DEF SentWasDelivered, SentArrived
    <2> QED BY <2>1, <2>4, <2>5, <2>6, <2>7, <2>8, <2>9
  <1>6. CASE rest # <<>>
    <2> DEFINE h == Head(rest)
    <2>1. store' = [st EXCEPT ![h] = "processing"] /\ loops' = [loops EXCEPT ![l] = next]
      BY <1>1, <1>6 DEF rest
    <2>2. h = q[n + 1] /\ n < Len(q) /\ h \in Ids /\ st[h] = "pending"
      <3>1. Len(rest) # 0 /\ Len(rest) \in Nat /\ h = rest[1]
        BY <1>3, <1>6, HeadTailProperties, EmptySeq, LenProperties
      <3>2. n < Len(q) /\ rest[1] = q[n + 1] /\ n + 1 \in 1 .. Len(q)
        BY <1>2, <1>3, <3>1
      <3> QED BY <1>1, <1>2, <3>1, <3>2 DEF Refused
    <2> HIDE DEF h
    <2>3. next \in LoopStates
      BY <1>3 DEF LoopStates
    <2>4. /\ loops'[l] = next
          /\ \A k \in Loops : k # l => loops'[k] = loops[k]
      BY <2>1, LoopUpdate
    <2>5. next.phase = "sending" /\ next.batch = rest /\ next.token = t /\ Head(next.batch) = h
      BY DEF h
    <2> HIDE DEF next
    <2>6. store' \in [Ids -> States] /\ store'[h] = "processing"
          /\ \A id \in Ids : id # h => store'[id] = st[id]
      BY <2>1, <2>2 DEF States
    <2>7. RelayTypeOK'
      BY <1>6, <2>1, <2>3, <2>4, <2>5, <2>6 DEF RelayTypeOK, States, LoopStates
    <2>8. OwnShardOnly'
      <3>1. InShard(loops'[l].batch, l[2])
        BY ONLY <1>4, <2>4, <2>5
      <3>2. \A k \in Loops : k # l => InShard(loops'[k].batch, k[2])
        BY <2>4 DEF OwnShardOnly, InShard
      <3> QED BY ONLY <3>1, <3>2 DEF OwnShardOnly, InShard
    <2>9. ClaimsExclusive'
      <3>1. \A k \in Loops : k # l /\ Busy(k) => /\ Head(loops[k].batch) \in Ids
                                                 /\ Head(loops[k].batch) # h
                                                 /\ store'[Head(loops[k].batch)] = "processing"
        <4> SUFFICES ASSUME NEW k \in Loops, k # l, Busy(k)
                     PROVE  /\ Head(loops[k].batch) \in Ids
                            /\ Head(loops[k].batch) # h
                            /\ store'[Head(loops[k].batch)] = "processing"
          OBVIOUS
        <4>1. loops[k].batch \in Seq(Ids) /\ loops[k].batch # <<>>
          BY DEF RelayTypeOK, Busy
        <4>2. Head(loops[k].batch) \in Ids
          BY <4>1, HeadTailProperties
        <4>3. st[Head(loops[k].batch)] = "processing"
          BY DEF OthersClaimed
        <4> QED BY <2>2, <2>6, <4>2, <4>3
      <3>2. \A k \in Loops : k # l => (Busy(k)' <=> Busy(k)) /\ loops'[k].batch = loops[k].batch
        BY <2>4 DEF Busy
      <3> QED BY <2>4, <2>5, <2>6, <3>1, <3>2 DEF ClaimsExclusive, OthersClaimed, Busy
    <2>10. SentWasDelivered'
      BY <2>4, <2>5, <2>6 DEF SentWasDelivered, SentArrived
    <2> QED BY <2>2, <2>4, <2>5, <2>6, <2>7, <2>8, <2>9, <2>10
  <1> QED BY <1>5, <1>6

LEMMA InitInv ==
  ASSUME Init
  PROVE  PartitionedInv
  <1>1. ElectionInv
    BY ElectionInitInv DEF Init
  <1>2. Asleep \in LoopStates /\ Asleep.phase = "idle" /\ Asleep.batch = <<>>
        /\ Asleep.token = 0
    BY EmptySeq DEF Asleep, Idle, LoopStates
  <1>3. \A l \in Loops : loops[l] = Asleep
    BY DEF Init
  <1>4. RelayTypeOK
    BY <1>2, <1>3, PartitionedAssumption DEF Init, RelayTypeOK, LoopStates
  <1>5. OwnShardOnly
    BY <1>2, <1>3, EmptySeq DEF OwnShardOnly
  <1>6. TokensGranted /\ ClaimsExclusive /\ SentWasDelivered
    BY <1>2, <1>3 DEF Init, TokensGranted, ClaimsExclusive, SentWasDelivered, Busy
  <1> QED BY <1>1, <1>4, <1>5, <1>6 DEF PartitionedInv

\* The leadership step of poll() leaves the loop with a token it was granted.
LEMMA LeadInv ==
  ASSUME PartitionedInv, NEW l \in Loops, NEW t \in Nat, Lead(l, t)
  PROVE  /\ ElectionInv'
         /\ grants \subseteq grants'
         /\ t # 0 => [partition |-> l[2], worker |-> l[1], token |-> t] \in grants'
  <1>0. l[1] \in Workers /\ l[2] \in Partitions /\ ElectionInv
    BY DEF Loops, PartitionedInv
  <1>1. CASE /\ loops[l].token # 0
             /\ Renew(l[2], l[1], loops[l].token)
             /\ t = loops[l].token
    <2>1. ElectionInv'
      BY <1>0, <1>1, RenewInv
    <2>2. grants' = grants
      BY <1>1 DEF Renew
    <2> QED BY <1>1, <2>1, <2>2 DEF PartitionedInv, TokensGranted
  <1>2. CASE Acquire(l[2], l[1]) /\ t = tokenCounter + 1
    <2>1. ElectionInv'
      BY <1>0, <1>2, AcquireInv
    <2> QED BY <1>2, <2>1 DEF Acquire, Grant
  <1>3. CASE UNCHANGED electionVars /\ t = 0
    BY <1>0, <1>3, ElectionStutterInv DEF electionVars
  <1> QED BY <1>1, <1>2, <1>3 DEF Lead

\* The tokens of the loops stay granted.
LEMMA TokensKept ==
  ASSUME PartitionedInv, NEW l \in Loops, grants \subseteq grants',
         \A k \in Loops : k # l => loops'[k].token = loops[k].token,
         loops'[l].token # 0
           => [partition |-> l[2], worker |-> l[1], token |-> loops'[l].token] \in grants'
  PROVE  TokensGranted'
BY DEF PartitionedInv, TokensGranted

\* The records poll() picks are records of the shard, and are pending.
LEMMA EligibleOrder ==
  ASSUME NEW p, NEW q \in EligibleOrders(Eligible(p))
  PROVE  q \in Seq(Ids) /\ InShard(q, p) /\ Increasing(q)
  <1>1. Eligible(p) \subseteq Ids /\ \A id \in Eligible(p) : ShardOf[id[1]] = p
    BY DEF Eligible, Pending
  <1>2. IsFiniteSet(Eligible(p))
    <2>1. MaxSeq \in Nat /\ IsFiniteSet(Aggregates)
      BY PartitionedAssumption
    <2> QED BY <1>1, <2>1, FiniteRecords DEF Ids, Seqs
  <1>3. q \in SetToSeqs(Eligible(p)) /\ Increasing(q)
    BY DEF EligibleOrders
  <1>4. q \in Seq(Eligible(p))
    BY <1>2, <1>3, Listing
  <1>5. \A i \in 1 .. Len(q) : q[i] \in Eligible(p)
    BY <1>4, ElementOfSeq
  <1> QED BY <1>1, <1>3, <1>4, <1>5, SeqMonotonic DEF InShard

LEMMA StartPollInv ==
  ASSUME PartitionedInv, NEW l \in Loops, StartPoll(l)
  PROVE  /\ PartitionedInv'
         /\ \A id \in Ids : store[id] = "sent" => store'[id] = "sent"
  <1>1. PICK t \in 0 .. tokenCounter + 1 :
          /\ Lead(l, t)
          /\ IF t = 0
             THEN loops' = [loops EXCEPT ![l] = Asleep] /\ UNCHANGED store
             ELSE \E q \in EligibleOrders(Eligible(l[2])) : Proceed(l, store, q, t, <<>>)
    BY DEF StartPoll
  <1>2. /\ t \in Nat
        /\ UNCHANGED <<arrived, crashes, stepDowns>>
    BY DEF StartPoll, PartitionedInv, ElectionInv, ElectionTypeOK
  <1>3. /\ ElectionInv'
        /\ grants \subseteq grants'
        /\ t # 0 => [partition |-> l[2], worker |-> l[1], token |-> t] \in grants'
    BY <1>1, <1>2, LeadInv
  <1>4. CASE t = 0
    <2>1. loops' = [loops EXCEPT ![l] = Asleep] /\ UNCHANGED store
      BY <1>1, <1>4
    <2>2. /\ loops'[l] = Asleep
          /\ \A k \in Loops : k # l => loops'[k] = loops[k]
      BY <2>1, LoopUpdate DEF PartitionedInv
    <2>3. Asleep \in LoopStates /\ Asleep.phase = "idle" /\ Asleep.batch = <<>>
          /\ Asleep.token = 0 /\ Len(Asleep.batch) = 0
      BY EmptySeq DEF Asleep, Idle, LoopStates
    <2> HIDE DEF Asleep
    <2>4. RelayTypeOK'
      BY <1>2, <2>1, <2>2, <2>3 DEF PartitionedInv, RelayTypeOK, LoopStates
    <2>5. TokensGranted'
      BY <1>3, <2>2, <2>3, TokensKept
    <2>6. OwnShardOnly'
      BY <2>2, <2>3 DEF PartitionedInv, OwnShardOnly
    <2>7. ClaimsExclusive' /\ SentWasDelivered'
      BY <1>2, <2>1, <2>2, <2>3
      DEF PartitionedInv, ClaimsExclusive, SentWasDelivered, Busy
    <2> QED BY <1>3, <2>1, <2>4, <2>5, <2>6, <2>7 DEF PartitionedInv
  <1>5. CASE t # 0
    <2>1. PICK q \in EligibleOrders(Eligible(l[2])) : Proceed(l, store, q, t, <<>>)
      BY <1>1, <1>5
    <2>2. q \in Seq(Ids) /\ InShard(q, l[2])
      BY EligibleOrder
    <2>3. /\ OthersClaimed(l, store) /\ SentArrived(store)
          /\ store \in [Ids -> States] /\ <<>> \in Seq(Ids)
      BY EmptySeq
      DEF PartitionedInv, ClaimsExclusive, SentWasDelivered, RelayTypeOK,
          OthersClaimed, SentArrived, States
    <2>4. PICK st \in [Ids -> States] : st = store
      BY <2>3
    <2>5. Proceed(l, st, q, t, <<>>) /\ OthersClaimed(l, st) /\ SentArrived(st)
      BY <2>1, <2>3, <2>4
    <2>6. /\ RelayTypeOK' /\ OwnShardOnly' /\ ClaimsExclusive' /\ SentWasDelivered'
          /\ loops'[l].token = t
          /\ \A k \in Loops : k # l => loops'[k].token = loops[k].token
          /\ \A id \in Ids : st[id] = "sent" => store'[id] = "sent"
      BY <1>2, <2>2, <2>3, <2>5, ProceedInv DEF PartitionedInv
    <2>7. TokensGranted'
      BY <1>3, <2>6, TokensKept
    <2> QED BY <1>3, <2>4, <2>6, <2>7 DEF PartitionedInv
  <1> QED BY <1>4, <1>5

\* The dispatcher's answer.
LEMMA AnsweredInv ==
  ASSUME PartitionedInv, NEW l \in Loops, Answered(l)
  PROVE  PartitionedInv' /\ UNCHANGED store
  <1>1. PICK ph \in {"ok", "failed"} :
          /\ loops[l].phase = "sending"
          /\ loops' = [loops EXCEPT ![l].phase = ph]
          /\ \/ arrived' = arrived \cup {Head(loops[l].batch)}
             \/ arrived' = arrived /\ ph # "ok"
          /\ UNCHANGED <<electionVars, store, crashes, stepDowns>>
    BY DEF Answered, Accept, Refuse, LoseReply, Answer
  <1>2. loops[l].batch \in Seq(Ids) /\ loops[l].batch # <<>>
    BY <1>1 DEF PartitionedInv, RelayTypeOK
  <1>3. Head(loops[l].batch) \in Ids
    BY <1>2, HeadTailProperties
  <1>4. /\ loops'[l] = [loops[l] EXCEPT !.phase = ph]
        /\ \A k \in Loops : k # l => loops'[k] = loops[k]
        /\ \A k \in Loops : /\ loops'[k].batch = loops[k].batch
                            /\ loops'[k].token = loops[k].token
                            /\ loops'[k].phase = "idle" <=> loops[k].phase = "idle"
    BY <1>1 DEF PartitionedInv, RelayTypeOK
  <1>5. RelayTypeOK'
    <2>1. loops' \in [Loops -> LoopStates]
      <3>1. loops \in [Loops -> LoopStates]
        BY DEF PartitionedInv, RelayTypeOK, LoopStates
      <3>2. [loops[l] EXCEPT !.phase = ph] \in LoopStates
        BY <3>1 DEF LoopStates
      <3> QED BY <1>1, <3>1, <3>2
    <2>2. arrived' \subseteq Ids
      BY <1>1, <1>3 DEF PartitionedInv, RelayTypeOK
    <2>3. \A k \in Loops : loops'[k].phase = "idle" <=> loops'[k].batch = <<>>
      BY <1>4 DEF PartitionedInv, RelayTypeOK
    <2> QED BY <1>1, <2>1, <2>2, <2>3 DEF PartitionedInv, RelayTypeOK, LoopStates
  <1>6. ElectionInv' /\ grants' = grants
    BY <1>1, ElectionStutterInv DEF PartitionedInv, electionVars
  <1>7. TokensGranted' /\ OwnShardOnly' /\ ClaimsExclusive'
    BY <1>1, <1>4, <1>6 DEF PartitionedInv, TokensGranted, OwnShardOnly, ClaimsExclusive, Busy
  <1>8. SentWasDelivered'
    BY <1>1, <1>4 DEF PartitionedInv, SentWasDelivered, RelayTypeOK
  <1> QED BY <1>1, <1>5, <1>6, <1>7, <1>8 DEF PartitionedInv

\* sent() and release() on the record a loop dispatches touch no claim of
\* another loop, although they look at no owner.
LEMMA SettledStore ==
  ASSUME PartitionedInv, NEW l \in Loops, Busy(l), NEW s \in {"sent", "pending"},
         s = "sent" => Head(loops[l].batch) \in arrived
  PROVE  /\ [store EXCEPT ![Head(loops[l].batch)] = s] \in [Ids -> States]
         /\ OthersClaimed(l, [store EXCEPT ![Head(loops[l].batch)] = s])
         /\ SentArrived([store EXCEPT ![Head(loops[l].batch)] = s])
         /\ \A id \in Ids : store[id] = "sent"
              => [store EXCEPT ![Head(loops[l].batch)] = s][id] = "sent"
         /\ Head(loops[l].batch) \in Ids
         /\ Tail(loops[l].batch) \in Seq(Ids)
         /\ InShard(Tail(loops[l].batch), l[2])
  <1> DEFINE b == loops[l].batch
             h == Head(b)
             st == [store EXCEPT ![h] = s]
  <1>1. b \in Seq(Ids) /\ b # <<>>
    BY DEF PartitionedInv, RelayTypeOK, Busy
  <1>2. /\ h \in Ids /\ Tail(b) \in Seq(Ids) /\ Len(b) \in Nat
        /\ Len(Tail(b)) = Len(b) - 1
        /\ \A i \in 1 .. Len(Tail(b)) : Tail(b)[i] = b[i + 1]
    BY <1>1, HeadTailProperties, LenProperties
  <1>3. InShard(Tail(b), l[2])
    <2> SUFFICES ASSUME NEW i \in 1 .. Len(Tail(b))
                 PROVE  ShardOf[Tail(b)[i][1]] = l[2]
      BY DEF InShard
    <2>1. i + 1 \in 1 .. Len(b)
      BY <1>2
    <2> QED BY <1>2, <2>1 DEF PartitionedInv, OwnShardOnly
  <1>4. store \in [Ids -> States] /\ store[h] = "processing"
    BY DEF PartitionedInv, RelayTypeOK, ClaimsExclusive, States
  <1>5. /\ st \in [Ids -> States] /\ st[h] = s
        /\ \A id \in Ids : id # h => st[id] = store[id]
    BY <1>2, <1>4 DEF States
  <1>6. \A k \in Loops : k # l /\ Busy(k) => Head(loops[k].batch) \in Ids
    BY HeadTailProperties DEF PartitionedInv, RelayTypeOK, Busy
  <1> HIDE DEF st, h
  <1>7. OthersClaimed(l, st)
    BY <1>5, <1>6 DEF PartitionedInv, ClaimsExclusive, OthersClaimed, h
  <1>8. SentArrived(st)
    BY <1>5 DEF PartitionedInv, SentWasDelivered, SentArrived, h
  <1>9. \A id \in Ids : store[id] = "sent" => st[id] = "sent"
    BY <1>4, <1>5
  <1> QED BY <1>2, <1>3, <1>5, <1>7, <1>8, <1>9 DEF st, h

LEMMA ResumeInv ==
  ASSUME PartitionedInv, NEW l \in Loops, Resume(l)
  PROVE  /\ PartitionedInv'
         /\ \A id \in Ids : store[id] = "sent" => store'[id] = "sent"
  <1> DEFINE b == loops[l].batch
  <1>0. /\ loops[l].dispatched \in Seq(Ids) /\ loops[l].token \in Nat
        /\ loops[l].phase \in {"ok", "failed"}
    BY DEF PartitionedInv, RelayTypeOK, Resume, ResumeOk, ResumeFailed
  <1>1. Busy(l)
    BY <1>0 DEF Busy
  <1>2. PICK s \in {"sent", "pending"}, sent \in Seq(Ids) :
          /\ s = "sent" => Head(b) \in arrived
          /\ Proceed(l, [store EXCEPT ![Head(b)] = s], Tail(b), loops[l].token, sent)
    <2>1. CASE ResumeOk(l)
      <3>1. Head(b) \in arrived /\ arrived \subseteq Ids
        BY <2>1 DEF ResumeOk, PartitionedInv, SentWasDelivered, RelayTypeOK
      <3>2. Append(loops[l].dispatched, Head(b)) \in Seq(Ids)
        BY <1>0, <3>1, AppendProperties
      <3> QED BY <2>1, <3>1, <3>2 DEF ResumeOk
    <2>2. CASE ResumeFailed(l)
      BY <1>0, <2>2 DEF ResumeFailed
    <2> QED BY <2>1, <2>2 DEF Resume
  <1>3. UNCHANGED <<electionVars, arrived, crashes, stepDowns>>
    BY DEF Resume, ResumeOk, ResumeFailed
  <1> DEFINE new == [store EXCEPT ![Head(b)] = s]
  <1>4. /\ new \in [Ids -> States] /\ OthersClaimed(l, new) /\ SentArrived(new)
        /\ \A id \in Ids : store[id] = "sent" => new[id] = "sent"
        /\ Tail(b) \in Seq(Ids) /\ InShard(Tail(b), l[2])
    BY <1>1, <1>2, SettledStore
  <1>5. Proceed(l, new, Tail(b), loops[l].token, sent)
    BY <1>2
  <1> HIDE DEF new
  <1>6. PICK st \in [Ids -> States] : st = new
    BY <1>4
  <1>7. PICK q \in Seq(Ids) : q = Tail(b)
    BY <1>4
  <1>8. PICK t \in Nat : t = loops[l].token
    BY <1>0
  <1>9. /\ Proceed(l, st, q, t, sent) /\ OthersClaimed(l, st) /\ SentArrived(st)
        /\ InShard(q, l[2])
    BY <1>4, <1>5, <1>6, <1>7, <1>8
  <1>10. /\ RelayTypeOK' /\ OwnShardOnly' /\ ClaimsExclusive' /\ SentWasDelivered'
         /\ loops'[l].token = t
         /\ \A k \in Loops : k # l => loops'[k].token = loops[k].token
         /\ \A id \in Ids : st[id] = "sent" => store'[id] = "sent"
    BY <1>3, <1>9, ProceedInv DEF PartitionedInv
  <1>11. ElectionInv' /\ grants' = grants
    BY <1>3, ElectionStutterInv DEF PartitionedInv, electionVars
  <1>12. TokensGranted'
    BY <1>8, <1>10, <1>11 DEF PartitionedInv, TokensGranted
  <1> QED BY <1>4, <1>6, <1>10, <1>11, <1>12 DEF PartitionedInv

LEMMA EnqueueInv ==
  ASSUME PartitionedInv, NEW a \in Aggregates, Enqueue(a)
  PROVE  /\ PartitionedInv'
         /\ \A id \in Ids : store[id] = "sent" => store'[id] = "sent"
  <1>1. PICK n \in Seqs :
          /\ \A m \in Seqs : store[<<a, m>>] = "none" <=> m >= n
          /\ store' = [store EXCEPT ![<<a, n>>] = "pending"]
          /\ UNCHANGED <<electionVars, loops, arrived, crashes, stepDowns>>
    BY DEF Enqueue
  <1>2. <<a, n>> \in Ids /\ store[<<a, n>>] = "none" /\ store \in [Ids -> States]
    BY <1>1 DEF Ids, Seqs, PartitionedInv, RelayTypeOK, States
  <1>3. /\ store' \in [Ids -> States]
        /\ \A id \in Ids : store[id] \in {"sent", "processing"} => store'[id] = store[id]
        /\ \A id \in Ids : store'[id] = "sent" => store[id] = "sent"
    BY <1>1, <1>2 DEF States
  <1>4. \A k \in Loops : Busy(k) => Head(loops[k].batch) \in Ids
    BY HeadTailProperties DEF PartitionedInv, RelayTypeOK, Busy
  <1>5. ElectionInv'
    BY <1>1, ElectionStutterInv DEF PartitionedInv
  <1>6. RelayTypeOK' /\ TokensGranted' /\ OwnShardOnly'
    BY <1>1, <1>3
    DEF PartitionedInv, RelayTypeOK, TokensGranted, OwnShardOnly, States, electionVars
  <1>7. ClaimsExclusive' /\ SentWasDelivered'
    BY <1>1, <1>3, <1>4 DEF PartitionedInv, ClaimsExclusive, SentWasDelivered, Busy
  <1> QED BY <1>3, <1>5, <1>6, <1>7 DEF PartitionedInv

LEMMA ResignInv ==
  ASSUME PartitionedInv, NEW l \in Loops, Resign(l)
  PROVE  PartitionedInv' /\ UNCHANGED store
  <1>1. /\ StepDown(l[2], l[1])
        /\ stepDowns' = stepDowns + 1 /\ stepDowns < MaxStepDowns
        /\ UNCHANGED <<store, loops, arrived, crashes>>
    BY DEF Resign
  <1>2. ElectionInv' /\ grants' = grants
    BY <1>1, StepDownInv DEF PartitionedInv, Loops, StepDown
  <1>3. RelayTypeOK'
    BY <1>1, PartitionedAssumption DEF PartitionedInv, RelayTypeOK
  <1> QED BY <1>1, <1>2, <1>3
      DEF PartitionedInv, TokensGranted, OwnShardOnly, ClaimsExclusive, SentWasDelivered, Busy

LEMMA CrashInv ==
  ASSUME PartitionedInv, NEW w \in Workers, Crash(w)
  PROVE  PartitionedInv' /\ UNCHANGED store
  <1>1. /\ crashes' = crashes + 1 /\ crashes < MaxCrashes
        /\ loops' = [l \in Loops |-> IF l[1] = w THEN Asleep ELSE loops[l]]
        /\ UNCHANGED <<electionVars, store, arrived, stepDowns>>
    BY DEF Crash
  <1>2. Asleep \in LoopStates /\ Asleep.phase = "idle" /\ Asleep.batch = <<>>
        /\ Asleep.token = 0 /\ Len(Asleep.batch) = 0
    BY EmptySeq DEF Asleep, Idle, LoopStates
  <1>3. \A l \in Loops : loops'[l] = Asleep \/ loops'[l] = loops[l]
    BY <1>1
  <1> HIDE DEF Asleep
  <1>4. ElectionInv' /\ grants' = grants
    BY <1>1, ElectionStutterInv DEF PartitionedInv, electionVars
  <1>5. RelayTypeOK'
    <2>1. loops' \in [Loops -> LoopStates]
      BY <1>1, <1>2 DEF PartitionedInv, RelayTypeOK, LoopStates
    <2>2. \A l \in Loops : loops'[l].phase = "idle" <=> loops'[l].batch = <<>>
      BY <1>2, <1>3 DEF PartitionedInv, RelayTypeOK
    <2> QED BY <1>1, <2>1, <2>2, PartitionedAssumption
        DEF PartitionedInv, RelayTypeOK, LoopStates
  <1>6. TokensGranted' /\ OwnShardOnly'
    BY <1>2, <1>3, <1>4 DEF PartitionedInv, TokensGranted, OwnShardOnly
  <1>7. ClaimsExclusive' /\ SentWasDelivered'
    BY <1>1, <1>2, <1>3 DEF PartitionedInv, ClaimsExclusive, SentWasDelivered, Busy
  <1> QED BY <1>1, <1>4, <1>5, <1>6, <1>7 DEF PartitionedInv

LEMMA PassTimeInv ==
  ASSUME PartitionedInv, PassTime
  PROVE  PartitionedInv' /\ UNCHANGED store
  <1>1. Tick /\ UNCHANGED relayVars
    BY DEF PassTime
  <1>2. ElectionInv' /\ grants' = grants
    BY <1>1, TickInv DEF PartitionedInv, Tick
  <1> QED BY <1>1, <1>2
      DEF relayVars, PartitionedInv, RelayTypeOK, TokensGranted, OwnShardOnly,
          ClaimsExclusive, SentWasDelivered, Busy

\* From one state to the next, no sent record is reopened.
SentKept == \A id \in Ids : store[id] = "sent" => store'[id] = "sent"

LEMMA StepInv ==
  ASSUME PartitionedInv, [Next]_vars
  PROVE  PartitionedInv' /\ SentKept
  <1>1. CASE UNCHANGED vars
    <2>1. ElectionInv' /\ grants' = grants
      BY <1>1, ElectionStutterInv DEF PartitionedInv, vars, electionVars
    <2> QED BY <1>1, <2>1
        DEF vars, relayVars, PartitionedInv, RelayTypeOK, TokensGranted, OwnShardOnly,
            ClaimsExclusive, SentWasDelivered, Busy, SentKept
  <1>2. ASSUME NEW a \in Aggregates, Enqueue(a)
        PROVE  PartitionedInv' /\ SentKept
    BY <1>2, EnqueueInv DEF SentKept
  <1>3. ASSUME NEW l \in Loops, StartPoll(l)
        PROVE  PartitionedInv' /\ SentKept
    BY <1>3, StartPollInv DEF SentKept
  <1>4. ASSUME NEW l \in Loops, Answered(l)
        PROVE  PartitionedInv' /\ SentKept
    BY <1>4, AnsweredInv DEF SentKept
  <1>5. ASSUME NEW l \in Loops, Resume(l)
        PROVE  PartitionedInv' /\ SentKept
    BY <1>5, ResumeInv DEF SentKept
  <1>6. ASSUME NEW l \in Loops, Resign(l)
        PROVE  PartitionedInv' /\ SentKept
    BY <1>6, ResignInv DEF SentKept
  <1>7. ASSUME NEW w \in Workers, Crash(w)
        PROVE  PartitionedInv' /\ SentKept
    BY <1>7, CrashInv DEF SentKept
  <1>8. CASE PassTime
    BY <1>8, PassTimeInv DEF SentKept
  <1> QED BY <1>1, <1>2, <1>3, <1>4, <1>5, <1>6, <1>7, <1>8 DEF Next

\* For any workers, partitions, aggregates, leases, crashes and resignations:
\* claims are exclusive although sent() and release() check no owner and a
\* deposed leader keeps dispatching, and what is sent was delivered.
THEOREM PartitionedInvariant == Spec => []PartitionedInv
<1>1. Init => PartitionedInv
  BY InitInv
<1>2. PartitionedInv /\ [Next]_vars => PartitionedInv'
  BY StepInv
<1> QED BY <1>1, <1>2, PTL DEF Spec

\* The two parts of the invariant the runs check by name.
COROLLARY ClaimsStayExclusive == Spec => [](ClaimsExclusive /\ SentWasDelivered)
<1>1. PartitionedInv => ClaimsExclusive /\ SentWasDelivered
  BY DEF PartitionedInv
<1> QED BY <1>1, PartitionedInvariant, PTL

\* A sent record is never reopened, by whatever loop lost track of it.
THEOREM SentStaysSent == Spec => SentForGood
<1>1. PartitionedInv /\ [Next]_vars => [SentKept]_vars
  BY StepInv
<1> QED BY <1>1, PartitionedInvariant, PTL DEF Spec, SentForGood, SentKept

LEMMA OneToken == ASSUME PartitionedInv PROVE OneTokenAccepted
  <1> SUFFICES ASSUME NEW l \in Loops, NEW k \in Loops, l[2] = k[2],
                      Check(l[2], loops[l].token), Check(k[2], loops[k].token)
               PROVE  l = k
    BY DEF OneTokenAccepted
  <1> DEFINE t == loops[l].token
             g(j) == [partition |-> j[2], worker |-> j[1], token |-> loops[j].token]
  <1>1. l[2] \in Partitions /\ l = <<l[1], l[2]>> /\ k = <<k[1], k[2]>>
    BY DEF Loops
  <1>2. leases[l[2]] # NoLease /\ leases[l[2]].token = t /\ loops[k].token = t
    BY <1>1 DEF Check, Live, NoLease, PartitionedInv, ElectionInv, ElectionTypeOK
  <1>3. t # 0
    <2>1. [partition |-> l[2], worker |-> leases[l[2]].worker, token |-> t] \in grants
      BY <1>1, <1>2 DEF PartitionedInv, ElectionInv, LeaseIsLatestGrant
    <2> QED BY <2>1 DEF PartitionedInv, ElectionInv, ElectionTypeOK, Tokens
  <1>4. g(l) \in grants /\ g(k) \in grants
    BY <1>2, <1>3 DEF PartitionedInv, TokensGranted
  <1>5. g(l) = g(k)
    BY <1>2, <1>4 DEF PartitionedInv, ElectionInv, TokensUnique
  <1>6. l[1] = k[1]
    BY <1>5
  <1> QED BY <1>1, <1>6

\* Of all loops of a partition, at most one presents a token that passes
\* check() -- however many believe they lead.
THEOREM OneLeaderPasses == Spec => []OneTokenAccepted
BY OneToken, PartitionedInvariant, PTL

-----------------------------------------------------------------------------
(* The order of what a poll sends.                                         *)

\* What a poll has sent, and what is left of its batch, continue in order.
Continues(d, q) ==
  /\ Increasing(d) /\ Increasing(q)
  /\ \A i \in 1 .. Len(d), j \in 1 .. Len(q) : d[i][1] = q[j][1] => d[i][2] < q[j][2]

InSendOrder == \A l \in Loops : Continues(loops[l].dispatched, loops[l].batch)

\* Records that were taken by others since leave the rest in order.
LEMMA RestContinues ==
  ASSUME NEW d \in Seq(Ids), NEW q \in Seq(Ids), NEW n \in 0 .. Len(q), Continues(d, q)
  PROVE  Continues(d, SubSeq(q, n + 1, Len(q)))
  <1> DEFINE r == SubSeq(q, n + 1, Len(q))
  <1>1. /\ r \in Seq(Ids) /\ Len(r) = Len(q) - n /\ Len(q) \in Nat /\ n \in Nat
        /\ \A i \in 1 .. Len(q) - n : r[i] = q[n + i]
    BY Suffix, LenProperties
  <1> HIDE DEF r
  <1>2. \A i \in 1 .. Len(r) : n + i \in 1 .. Len(q) /\ r[i] = q[n + i]
    BY <1>1
  <1>3. \A i, j \in 1 .. Len(r) : i < j => n + i < n + j
    BY <1>1
  <1>4. Increasing(r)
    BY <1>2, <1>3 DEF Continues, Increasing
  <1>5. \A i \in 1 .. Len(d), j \in 1 .. Len(r) : d[i][1] = r[j][1] => d[i][2] < r[j][2]
    BY <1>2 DEF Continues
  <1> QED BY <1>4, <1>5 DEF Continues, r

\* A record that was sent moves from the head of the batch to what was sent.
LEMMA SentContinues ==
  ASSUME NEW d \in Seq(Ids), NEW b \in Seq(Ids), b # <<>>, Continues(d, b)
  PROVE  Continues(Append(d, Head(b)), Tail(b)) /\ Continues(d, Tail(b))
  <1> DEFINE t == Tail(b)
             e == Append(d, Head(b))
             m == Len(d)
             k == Len(b)
  <1>1. /\ t \in Seq(Ids) /\ k \in Nat /\ m \in Nat /\ k # 0
        /\ Len(t) = k - 1 /\ Head(b) = b[1] /\ Head(b) \in Ids
        /\ \A i \in 1 .. Len(t) : t[i] = b[i + 1]
    BY HeadTailProperties, LenProperties, EmptySeq
  <1>2. /\ e \in Seq(Ids) /\ Len(e) = m + 1 /\ e[m + 1] = b[1]
        /\ \A i \in 1 .. m : e[i] = d[i]
    BY <1>1, AppendProperties
  <1> HIDE DEF t, e
  <1>3. /\ \A i \in 1 .. m + 1 : i = m + 1 \/ i \in 1 .. m
        /\ \A i \in 1 .. m : i # m + 1
        /\ 1 \in 1 .. k
    BY <1>1
  <1>4. \A j \in 1 .. Len(t) : j + 1 \in 1 .. k /\ 1 < j + 1 /\ t[j] = b[j + 1]
    BY <1>1
  <1>5. \A i, j \in 1 .. Len(t) : i < j => i + 1 < j + 1
    BY <1>1
  <1>6. Increasing(t)
    BY <1>4, <1>5 DEF Continues, Increasing
  <1>7. \A i \in 1 .. m, j \in 1 .. Len(t) : d[i][1] = t[j][1] => d[i][2] < t[j][2]
    BY <1>4 DEF Continues
  <1>8. \A j \in 1 .. Len(t) : b[1][1] = t[j][1] => b[1][2] < t[j][2]
    BY <1>3, <1>4 DEF Continues, Increasing
  <1>9. Increasing(e)
    <2> SUFFICES ASSUME NEW i \in 1 .. m + 1, NEW j \in 1 .. m + 1, i < j, e[i][1] = e[j][1]
                 PROVE  e[i][2] < e[j][2]
      BY <1>2 DEF Increasing
    <2>1. i \in 1 .. m
      BY <1>1
    <2>2. CASE j = m + 1
      BY <1>2, <1>3, <2>1, <2>2 DEF Continues
    <2>3. CASE j \in 1 .. m
      BY <1>2, <2>1, <2>3 DEF Continues, Increasing
    <2> QED BY <1>3, <2>2, <2>3
  <1>10. \A i \in 1 .. Len(e), j \in 1 .. Len(t) : e[i][1] = t[j][1] => e[i][2] < t[j][2]
    <2> SUFFICES ASSUME NEW i \in 1 .. m + 1, NEW j \in 1 .. Len(t), e[i][1] = t[j][1]
                 PROVE  e[i][2] < t[j][2]
      BY <1>2
    <2>1. CASE i = m + 1
      BY <1>2, <1>8, <2>1
    <2>2. CASE i \in 1 .. m
      BY <1>2, <1>7, <2>2
    <2> QED BY <1>3, <2>1, <2>2
  <1> QED BY <1>6, <1>7, <1>9, <1>10 DEF Continues, t, e

\* Nothing sent goes on to whatever is in order.
LEMMA NothingContinues ==
  ASSUME NEW q, Increasing(q)
  PROVE  Continues(<<>>, q) /\ Continues(<<>>, <<>>)
  <1>1. Len(<<>>) = 0 /\ 1 .. Len(<<>>) = {}
    BY EmptySeq
  <1>2. Increasing(<<>>)
    BY <1>1 DEF Increasing
  <1> QED BY <1>1, <1>2 DEF Continues

\* From one await to the next a poll keeps to the order.
LEMMA ProceedInOrder ==
  ASSUME RelayTypeOK, InSendOrder, NEW l \in Loops, NEW st, NEW t,
         NEW q \in Seq(Ids), NEW sent \in Seq(Ids),
         Continues(sent, q), Proceed(l, st, q, t, sent)
  PROVE  InSendOrder'
  <1>1. PICK n \in 0 .. Len(q) :
          \E g : /\ loops' = [loops EXCEPT ![l] = g]
                 /\ \/ g.dispatched = <<>> /\ g.batch = <<>>
                    \/ g.dispatched = sent /\ g.batch = SubSeq(q, n + 1, Len(q))
    <2>1. PICK n \in 0 .. Len(q) :
            IF SubSeq(q, n + 1, Len(q)) = <<>>
            THEN loops' = [loops EXCEPT ![l] = Idle(t, Increasing(sent) /\ PendingContiguous(st))]
            ELSE loops' = [loops EXCEPT ![l] =
                       [phase |-> "sending", token |-> t, batch |-> SubSeq(q, n + 1, Len(q)),
                        dispatched |-> sent, order |-> TRUE]]
      BY DEF Proceed
    <2>2. CASE SubSeq(q, n + 1, Len(q)) = <<>>
      <3> DEFINE ok == Increasing(sent) /\ PendingContiguous(st)
      <3>1. Idle(t, ok).dispatched = <<>> /\ Idle(t, ok).batch = <<>>
        BY DEF Idle
      <3> QED BY <2>1, <2>2, <3>1
    <2>3. CASE SubSeq(q, n + 1, Len(q)) # <<>>
      <3> DEFINE g == [phase |-> "sending", token |-> t, batch |-> SubSeq(q, n + 1, Len(q)),
                       dispatched |-> sent, order |-> TRUE]
      <3>1. g.dispatched = sent /\ g.batch = SubSeq(q, n + 1, Len(q))
        OBVIOUS
      <3> QED BY <2>1, <2>3, <3>1
    <2> QED BY <2>2, <2>3
  <1>2. PICK g : /\ loops' = [loops EXCEPT ![l] = g]
                 /\ \/ g.dispatched = <<>> /\ g.batch = <<>>
                    \/ g.dispatched = sent /\ g.batch = SubSeq(q, n + 1, Len(q))
    BY <1>1
  <1>3. Continues(g.dispatched, g.batch)
    <2>1. Continues(sent, SubSeq(q, n + 1, Len(q)))
      BY RestContinues
    <2>2. Increasing(q)
      BY DEF Continues
    <2> QED BY <1>2, <2>1, <2>2, NothingContinues
  <1>4. loops'[l] = g /\ \A k \in Loops : k # l => loops'[k] = loops[k]
    BY <1>2 DEF RelayTypeOK
  <1> QED BY <1>3, <1>4 DEF InSendOrder

\* A loop that sends nothing is in order.
LEMMA AsleepInOrder ==
  Continues(Asleep.dispatched, Asleep.batch)
  <1>1. Asleep.dispatched = <<>> /\ Asleep.batch = <<>>
    BY DEF Asleep, Idle
  <1>2. Increasing(<<>>)
    BY EmptySeq DEF Increasing
  <1> QED BY <1>1, <1>2, NothingContinues

\* No step puts a record behind one that it precedes.
LEMMA OrderIsKept ==
  ASSUME PartitionedInv, InSendOrder, [Next]_vars
  PROVE  InSendOrder'
  <1>1. RelayTypeOK
    BY DEF PartitionedInv
  <1>2. CASE UNCHANGED loops
    BY <1>2 DEF InSendOrder
  <1>3. ASSUME NEW l \in Loops, StartPoll(l)
        PROVE  InSendOrder'
    <2>1. PICK t \in 0 .. tokenCounter + 1 :
            IF t = 0
            THEN loops' = [loops EXCEPT ![l] = Asleep]
            ELSE \E q \in EligibleOrders(Eligible(l[2])) : Proceed(l, store, q, t, <<>>)
      BY <1>3 DEF StartPoll
    <2>2. CASE t = 0
      <3>1. loops'[l] = Asleep /\ \A k \in Loops : k # l => loops'[k] = loops[k]
        BY <1>1, <2>1, <2>2 DEF RelayTypeOK
      <3> QED BY <3>1, AsleepInOrder DEF InSendOrder
    <2>3. CASE t # 0
      <3>1. PICK q \in EligibleOrders(Eligible(l[2])) : Proceed(l, store, q, t, <<>>)
        BY <2>1, <2>3
      <3>2. q \in Seq(Ids) /\ Increasing(q)
        BY EligibleOrder
      <3>3. Continues(<<>>, q) /\ <<>> \in Seq(Ids)
        BY <3>2, NothingContinues, EmptySeq
      <3>4. PICK st : st = store
        OBVIOUS
      <3>5. Proceed(l, st, q, t, <<>>)
        BY <3>1, <3>4
      <3> QED BY <1>1, <3>2, <3>3, <3>5, ProceedInOrder
    <2> QED BY <2>2, <2>3
  <1>4. ASSUME NEW l \in Loops, Answered(l)
        PROVE  InSendOrder'
    <2>1. PICK ph : loops' = [loops EXCEPT ![l].phase = ph]
      BY <1>4 DEF Answered, Accept, Refuse, LoseReply, Answer
    <2>2. \A k \in Loops : loops'[k].batch = loops[k].batch /\ loops'[k].dispatched = loops[k].dispatched
      BY <1>1, <2>1 DEF RelayTypeOK
    <2> QED BY <2>2 DEF InSendOrder
  <1>5. ASSUME NEW l \in Loops, Resume(l)
        PROVE  InSendOrder'
    <2>1. /\ loops[l].batch \in Seq(Ids) /\ loops[l].dispatched \in Seq(Ids)
          /\ loops[l].batch # <<>>
      <3>1. loops[l].phase # "idle"
        BY <1>5 DEF Resume, ResumeOk, ResumeFailed
      <3> QED BY <1>1, <3>1 DEF RelayTypeOK
    <2>2. Continues(loops[l].dispatched, loops[l].batch)
      BY DEF InSendOrder
    <2>3. PICK d \in Seq(Ids), b \in Seq(Ids) : d = loops[l].dispatched /\ b = loops[l].batch
      BY <2>1
    <2>4. Head(b) \in Ids /\ Tail(b) \in Seq(Ids) /\ Append(d, Head(b)) \in Seq(Ids)
      BY <2>1, <2>3, HeadTailProperties, AppendProperties
    <2>5. Continues(Append(d, Head(b)), Tail(b)) /\ Continues(d, Tail(b))
      BY <2>1, <2>2, <2>3, SentContinues
    <2>6. PICK q \in Seq(Ids), e \in Seq(Ids) : q = Tail(b) /\ e = Append(d, Head(b))
      BY <2>4
    <2>7. CASE ResumeOk(l)
      <3>1. PICK st, t : Proceed(l, st, q, t, e)
        BY <2>3, <2>6, <2>7 DEF ResumeOk
      <3> QED BY <1>1, <2>5, <2>6, <3>1, ProceedInOrder
    <2>8. CASE ResumeFailed(l)
      <3>1. PICK st, t : Proceed(l, st, q, t, d)
        BY <2>3, <2>6, <2>8 DEF ResumeFailed
      <3> QED BY <1>1, <2>5, <2>6, <3>1, ProceedInOrder
    <2> QED BY <1>5, <2>7, <2>8 DEF Resume
  <1>6. ASSUME NEW w \in Workers, Crash(w)
        PROVE  InSendOrder'
    <2>1. \A k \in Loops : loops'[k] = Asleep \/ loops'[k] = loops[k]
      BY <1>6 DEF Crash
    <2> QED BY <2>1, AsleepInOrder DEF InSendOrder
  <1>7. CASE \/ \E a \in Aggregates : Enqueue(a)
             \/ \E l \in Loops : Resign(l)
             \/ PassTime
             \/ UNCHANGED vars
    <2>1. UNCHANGED loops
      BY <1>7 DEF Enqueue, Resign, PassTime, relayVars, vars
    <2> QED BY <1>2, <2>1
  <1> QED BY <1>3, <1>4, <1>5, <1>6, <1>7 DEF Next

\* What one poll sends is in order per aggregate (verifyDispatch of the FIFO verifier
\* never complains), although the records are read before the awaits, others
\* take some of them meanwhile and failed ones are skipped: for any of these.
THEOREM SendsInOrder == Spec => []DispatchedInOrder
<1>1. Init => InSendOrder
  BY AsleepInOrder DEF Init, InSendOrder
<1>2. InSendOrder => DispatchedInOrder
  BY DEF InSendOrder, Continues, DispatchedInOrder
<1>3. PartitionedInv /\ InSendOrder /\ [Next]_vars => InSendOrder'
  BY OrderIsKept
<1> QED BY <1>1, <1>2, <1>3, PartitionedInvariant, PTL DEF Spec
=============================================================================
