----------------------------- MODULE OutboxRelay -----------------------------
(***************************************************************************)
(* Polling relays over one outbox table (class OutboxRelay of              *)
(* src/src/layers/outbox/implementations/TransactionalOutbox.ts).          *)
(*                                                                         *)
(* poll() runs uninterrupted up to "await dispatcher(record)" and again    *)
(* from its answer to the next await: StartPoll and Resume are those two   *)
(* stretches.  start() fires poll() on an interval without waiting for the *)
(* previous one, so one relay may have several polls in flight (Slots).    *)
(* The dispatcher and its downstream are external: it accepts the message, *)
(* or fails before or after the message has arrived.                       *)
(***************************************************************************)
EXTENDS OutboxStore, Sequences, SequencesExt

CONSTANTS Slots,       \* bound: concurrent polls of one relay
          Keys,        \* idempotency keys
          KeyOf,       \* the key each record is enqueued with
          Window,      \* dedupWindow
          MaxCrashes   \* bound: relay processes lost

ASSUME RelayAssumption ==
  /\ KeyOf \in [Ids -> Keys]
  /\ Window \in Nat
  /\ MaxCrashes \in Nat

VARIABLES poll,        \* the polls in flight
          dedup,       \* _dedup of each relay
          dedupOrder,  \* _dedupOrder of each relay
          arrived,     \* records the downstream has received
          suppressed,  \* records marked SENT because their key was in _dedup
          crashes

relayVars == <<poll, dedup, dedupOrder, arrived, suppressed, crashes>>
vars == <<db, relayVars>>

Polls == Relays \X Slots

\* batch: what is left of the claimed batch, its head being dispatched.
\* inLease: time left of the lease the batch was claimed with (history).
Phases == {"idle", "sending", "ok", "failed"}
Idle == [phase |-> "idle", batch |-> <<>>, inLease |-> 0]

Init == /\ TableInit
        /\ poll = [p \in Polls |-> Idle]
        /\ dedup = [w \in Relays |-> {}]
        /\ dedupOrder = [w \in Relays |-> <<>>]
        /\ arrived = {}
        /\ suppressed = {}
        /\ crashes = 0

-----------------------------------------------------------------------------
\* The first n records of q are skipped as duplicates, the next one is not.
Duplicates(q, D, n) == /\ \A i \in 1 .. n : KeyOf[q[i]] \in D
                       /\ n < Len(q) => KeyOf[q[n + 1]] \notin D

\* The loop of poll() from record Head(q) to the next await: records whose
\* key is remembered are marked SENT without dispatching.
Proceed(p, d, q, D, lease) ==
  \E n \in 0 .. Len(q) :
    LET skipped == {q[i] : i \in 1 .. n}
        rest == SubSeq(q, n + 1, Len(q))
    IN  /\ Duplicates(q, D, n)
        /\ db' = MarkSent(d, skipped, p[1])
        /\ suppressed' = suppressed \cup {id \in skipped : Holds(d, id, p[1])}
        /\ poll' = [poll EXCEPT ![p] =
                      IF rest = <<>> THEN Idle
                      ELSE [phase |-> "sending", batch |-> rest, inLease |-> lease]]

StartPoll(p) ==
  /\ poll[p].phase = "idle"
  /\ LET d == ReleaseExpired(db)
     IN  \E S \in ClaimSets(d) : \E q \in SetToSeqs(S) :
           Proceed(p, Claimed(d, S, p[1]), q, dedup[p[1]], Lease)
  /\ UNCHANGED <<dedup, dedupOrder, arrived, crashes>>

-----------------------------------------------------------------------------
(* The dispatcher: external.                                               *)

Answer(p, phase) == poll' = [poll EXCEPT ![p].phase = phase]

Dispatching(p) == poll[p].phase = "sending"

Accept(p) == /\ Dispatching(p)
             /\ Answer(p, "ok")
             /\ arrived' = arrived \cup {Head(poll[p].batch)}
             /\ UNCHANGED <<db, dedup, dedupOrder, suppressed, crashes>>

Refuse(p) == /\ Dispatching(p)
             /\ Answer(p, "failed")
             /\ UNCHANGED <<db, dedup, dedupOrder, arrived, suppressed, crashes>>

\* The message arrives but the dispatcher reports an error (a timeout).
LoseReply(p) == /\ Dispatching(p)
                /\ Answer(p, "failed")
                /\ arrived' = arrived \cup {Head(poll[p].batch)}
                /\ UNCHANGED <<db, dedup, dedupOrder, suppressed, crashes>>

-----------------------------------------------------------------------------
\* _rememberKey: the oldest entry leaves when the window overflows.
RememberKey(w, k) ==
  LET order == Append(dedupOrder[w], k)
      over  == Len(order) > Window
  IN  /\ dedupOrder' = [dedupOrder EXCEPT ![w] = IF over THEN Tail(order) ELSE order]
      /\ dedup' = [dedup EXCEPT ![w] = IF over THEN (@ \cup {k}) \ {Head(order)}
                                       ELSE @ \cup {k}]

ResumeOk(p) ==
  LET id == Head(poll[p].batch)
  IN  /\ poll[p].phase = "ok"
      /\ RememberKey(p[1], KeyOf[id])
      /\ Proceed(p, MarkSent(db, {id}, p[1]), Tail(poll[p].batch), dedup'[p[1]],
                 poll[p].inLease)
      /\ UNCHANGED <<arrived, crashes>>

\* Mutant: remembers the key of a failed dispatch.
ResumeFailedRemembers(p) ==
  LET id == Head(poll[p].batch)
  IN  /\ poll[p].phase = "failed"
      /\ RememberKey(p[1], KeyOf[id])
      /\ Proceed(p, MarkFailed(db, id, p[1]), Tail(poll[p].batch), dedup'[p[1]],
                 poll[p].inLease)
      /\ UNCHANGED <<arrived, crashes>>

ResumeFailed(p) ==
  LET id == Head(poll[p].batch)
  IN  /\ poll[p].phase = "failed"
      /\ Proceed(p, MarkFailed(db, id, p[1]), Tail(poll[p].batch), dedup[p[1]],
                 poll[p].inLease)
      /\ UNCHANGED <<dedup, dedupOrder, arrived, crashes>>

\* A relay process dies and restarts: its polls and its memory are gone.
Crash(w) ==
  /\ crashes < MaxCrashes
  /\ crashes' = crashes + 1
  /\ poll' = [p \in Polls |-> IF p[1] = w THEN Idle ELSE poll[p]]
  /\ dedup' = [dedup EXCEPT ![w] = {}]
  /\ dedupOrder' = [dedupOrder EXCEPT ![w] = <<>>]
  /\ UNCHANGED <<db, arrived, suppressed>>

PassTime ==
  /\ Tick
  /\ poll' = [p \in Polls |-> [poll[p] EXCEPT !.inLease = IF @ = 0 THEN 0 ELSE @ - 1]]
  /\ UNCHANGED <<dedup, dedupOrder, arrived, suppressed, crashes>>

Produce == \E a \in Aggregates : Enqueue(a) /\ UNCHANGED relayVars

Maintain == Operate /\ UNCHANGED relayVars

Answered(p) == Accept(p) \/ Refuse(p) \/ LoseReply(p)
Resume(p) == ResumeOk(p) \/ ResumeFailed(p)

Next == \/ Produce
        \/ Maintain
        \/ \E p \in Polls : StartPoll(p) \/ Answered(p) \/ Resume(p)
        \/ \E w \in Relays : Crash(w)
        \/ PassTime

Spec == Init /\ [][Next]_vars

\* A relay that has not crashed finishes its batch before its lease runs out.
Timely == \A p \in Polls : poll[p].phase # "idle" => poll[p].inLease > 1

TimelyTick == Timely /\ PassTime

TimelyNext == \/ Produce
              \/ Maintain
              \/ \E p \in Polls : StartPoll(p) \/ Answered(p) \/ Resume(p)
              \/ \E w \in Relays : Crash(w)
              \/ TimelyTick

\* Every relay keeps polling and every dispatch is answered.
TimelySpec ==
  /\ Init
  /\ [][TimelyNext]_vars
  /\ \A p \in Polls : /\ WF_vars(StartPoll(p))
                       /\ WF_vars(Answered(p))
                       /\ WF_vars(Resume(p))
  /\ WF_vars(TimelyTick)

-----------------------------------------------------------------------------
TypeOK ==
  /\ db \in Tables
  /\ poll \in [Polls -> [phase : Phases, batch : Seq(Ids), inLease : 0 .. Lease]]
  /\ \A p \in Polls : poll[p].phase = "idle" <=> poll[p].batch = <<>>
  /\ dedup \in [Relays -> SUBSET Keys]
  /\ dedupOrder \in [Relays -> Seq(Keys)]
  /\ arrived \subseteq Ids
  /\ suppressed \subseteq Ids
  /\ crashes \in 0 .. MaxCrashes

ArrivedKeys == {KeyOf[id] : id \in arrived}

\* No message is lost: a record is marked SENT (and may then be deleted) only
\* if the downstream has received it, or a record with the same idempotency
\* key -- whatever leases expired, relays crashed or replies were lost.
SentWasDelivered ==
  \A id \in InState(db, {"SENT", "PURGED"}) :
    id \in arrived \/ (id \in suppressed /\ KeyOf[id] \in ArrivedKeys)

\* A record a poll is working on was published and its turn has come: every
\* earlier record of its aggregate is settled, even when the claim has expired.
Ready(id) ==
  /\ db.state[id] # "NONE"
  /\ \A n \in Seqs : n < id[2] => db.state[<<id[1], n>>] \in {"SENT", "PURGED", "DROPPED"}

\* The relays' invariant: what they know of the downstream is true.
RelayInv ==
  /\ TypeOK
  /\ TableInv
  /\ SentWasDelivered
  /\ \A w \in Relays : dedup[w] \subseteq ArrivedKeys
  /\ \A p \in Polls : poll[p].phase = "ok" => Head(poll[p].batch) \in arrived
  /\ \A p \in Polls : \A i \in 1 .. Len(poll[p].batch) : Ready(poll[p].batch[i])

\* While a poll's lease runs, no other poll dispatches the record the poll is
\* dispatching (the claim's purpose: "concurrent relays can't double-claim").
\* It needs polls of one relay not to overlap.
OneDispatcherPerLease ==
  \A p, q \in Polls :
    /\ p # q
    /\ poll[p].phase # "idle" /\ poll[p].inLease > 0
    /\ poll[q].phase # "idle" /\ poll[q].inLease > 0
    => Head(poll[p].batch) # Head(poll[q].batch)

\* While its lease runs, a poll holds the claim of every record left in its
\* batch, each once.  Needs polls of one relay not to overlap, too.
HeldWhileLeased ==
  \A p \in Polls :
    LET batch == poll[p].batch
    IN  /\ \A i, j \in 1 .. Len(batch) : batch[i] = batch[j] => i = j
        /\ poll[p].inLease > 0 =>
             \A i \in 1 .. Len(batch) : /\ Holds(db, batch[i], p[1])
                                        /\ db.lease[batch[i]] = poll[p].inLease

-----------------------------------------------------------------------------
(* What the outbox promises to the downstream.                             *)

Ordered == INSTANCE OrderedDelivery
             WITH Position <- Seqs,
                  published <- {id \in Ids : db.state[id] # "NONE"},
                  delivered <- arrived,
                  dropped <- InState(db, {"DROPPED"})

\* The relays implement OrderedDelivery: first deliveries are in order and
\* nothing is skipped, under crashes, expired leases and lost replies.
DeliversInOrder == Ordered!Spec

\* Every committed message is eventually sent or given up, unless a FAILED
\* record of its aggregate blocks it: crashed relays' claims are recovered.
EventuallySettled ==
  \A id \in Ids :
    db.state[id] = "PENDING"
      ~> \/ db.state[id] \in {"SENT", "PURGED", "FAILED", "DROPPED"}
         \/ \E n \in Seqs : n < id[2] /\ db.state[<<id[1], n>>] = "FAILED"
=============================================================================
