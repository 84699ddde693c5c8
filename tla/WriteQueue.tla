------------------------------- MODULE WriteQueue -------------------------------
(***************************************************************************)
(* The write queue of a transport                                          *)
(* (src/src/layers/transport/engine/BackpressureWriteQueue.ts) over an     *)
(* adapter (BaseAdapter of adapters.ts), with the shutdown and the abort   *)
(* of TransportEngine.ts.  The sink below takes every write and may then   *)
(* refuse more; its drain signal comes any time later, or never.           *)
(*                                                                         *)
(* Chunks are numbered in the order the queue accepts them.  A caller that *)
(* waits for a drain changes nothing but the list of callbacks: only       *)
(* shutdown's wait is kept.  Its promise is resolved in one step and the   *)
(* shutdown goes on in a later one.                                        *)
(***************************************************************************)
EXTENDS Integers, Sequences, Lists

CONSTANTS MaxChunks,       \* bound: chunks accepted
          ChunkSizes,
          High, Low,       \* the watermarks
          MaxBytes         \* the hard ceiling

ASSUME WriteQueueAssumption ==
  /\ MaxChunks \in Nat /\ ChunkSizes \subseteq Nat \ {0}
  /\ {High, Low, MaxBytes} \subseteq Nat /\ Low <= High /\ High > 0

VARIABLES wq,        \* the queue: ring, bytes, flags, shutdown's callback
          adapter,   \* open, ended or aborted; refusing; the queue's callback registered
          size,      \* of the accepted chunks
          sent,      \* what was handed to the adapter (history)
          failed,    \* chunks whose promise was rejected
          shutdown   \* "no", "draining", "drained", "done", "failed", "aborted"

writeVars == <<wq, adapter, size, sent, failed, shutdown>>

WriteInit ==
  /\ wq = [ring |-> <<>>, bytes |-> 0, paused |-> FALSE, drained |-> TRUE, ended |-> FALSE,
           waiting |-> FALSE]
  /\ adapter = [state |-> "open", paused |-> FALSE, hooked |-> TRUE]
  /\ size = <<>>
  /\ sent = <<>>
  /\ failed = {}
  /\ shutdown = "no"

-----------------------------------------------------------------------------
Chunks == DOMAIN size

\* The bytes of the chunks in s.
BytesOf(s) == SumUpTo([i \in DOMAIN s |-> size[s[i]]], Len(s))

\* _updateBackpressure.  Under the low watermark all callbacks fire.
Updated(q) ==
  CASE ~q.drained /\ q.bytes < Low -> [q EXCEPT !.drained = TRUE, !.waiting = FALSE]
    [] q.drained /\ q.bytes >= High -> [q EXCEPT !.drained = FALSE]
    [] OTHER -> q

\* Mutant: the watermark's flag taken for the adapter's.
WritesThroughDrained(q) == q.drained

WritesThrough(q) == ~q.paused /\ q.ring = <<>>

Full(n) == wq.bytes + n > MaxBytes /\ wq.paused

\* _ensureRunning and enqueue.
Offer(n) ==
  LET c == Len(size) + 1
  IN  /\ adapter.state = "open" /\ ~wq.ended /\ ~Full(n)
      /\ c <= MaxChunks
      /\ size' = Append(size, n)
      /\ IF WritesThrough(wq)
         THEN \E refuses \in BOOLEAN :
                /\ sent' = Append(sent, c)
                /\ wq' = IF refuses THEN [wq EXCEPT !.paused = TRUE, !.drained = FALSE] ELSE wq
                /\ adapter' = [adapter EXCEPT !.paused = refuses]
         ELSE /\ wq' = Updated([wq EXCEPT !.ring = Append(@, c), !.bytes = @ + n])
              /\ UNCHANGED <<sent, adapter>>
      /\ UNCHANGED <<failed, shutdown>>

-----------------------------------------------------------------------------
\* The ring without its first n chunks; the callbacks fire when it is empty.
WithoutFirst(n, refused) ==
  LET q == Updated([wq EXCEPT !.ring = SubSeq(@, n + 1, Len(@)),
                              !.bytes = @ - BytesOf(SubSeq(wq.ring, 1, n)),
                              !.paused = refused])
  IN  IF q.ring = <<>> /\ ~refused THEN [q EXCEPT !.waiting = FALSE] ELSE q

\* _drain: all goes out, or the adapter refuses after the n-th chunk, or it
\* is closed and every write throws.
Flush ==
  \/ /\ adapter.state = "open"
     /\ \E n \in 0 .. Len(wq.ring) : \E refused \in BOOLEAN :
          /\ refused => n > 0
          /\ ~refused => n = Len(wq.ring)
          /\ wq' = WithoutFirst(n, refused)
          /\ sent' = sent \o SubSeq(wq.ring, 1, n)
          /\ adapter' = [adapter EXCEPT !.paused = refused, !.hooked = FALSE]
     /\ UNCHANGED failed
  \/ /\ adapter.state # "open"
     /\ wq' = WithoutFirst(Len(wq.ring), FALSE)
     /\ failed' = failed \cup {wq.ring[i] : i \in 1 .. Len(wq.ring)}
     /\ adapter' = [adapter EXCEPT !.paused = FALSE, !.hooked = FALSE]
     /\ UNCHANGED sent

\* _handleDrain of the adapter: its callbacks are spliced out of the list, and
\* the queue registered its own once.
DrainSignal ==
  /\ adapter.paused
  /\ IF adapter.hooked
     THEN Flush
     ELSE adapter' = [adapter EXCEPT !.paused = FALSE] /\ UNCHANGED <<wq, sent, failed>>
  /\ shutdown' = IF shutdown = "draining" /\ ~wq'.waiting THEN "drained" ELSE shutdown
  /\ UNCHANGED size

-----------------------------------------------------------------------------
\* adapter.end, which throws when the adapter was aborted; what the encoding
\* still writes may be refused.
EndedAdapter(a) == IF a.state = "open"
            THEN {[a EXCEPT !.state = "ended", !.paused = p] : p \in {a.paused, TRUE}}
            ELSE {a}

\* shutdown.  With nothing to wait for it ends the adapter at once.
Shutdown ==
  /\ shutdown = "no"
  /\ IF wq.ring # <<>> \/ wq.paused
     THEN /\ wq' = [wq EXCEPT !.ended = TRUE, !.waiting = TRUE]
          /\ shutdown' = "draining"
          /\ UNCHANGED adapter
     ELSE /\ wq' = [wq EXCEPT !.ended = TRUE]
          /\ shutdown' = "done"
          /\ adapter' \in EndedAdapter(adapter)
  /\ UNCHANGED <<size, sent, failed>>

\* shutdown after the await of the drain.
FinishShutdown ==
  /\ shutdown = "drained"
  /\ shutdown' = "done"
  /\ adapter' \in EndedAdapter(adapter)
  /\ UNCHANGED <<wq, size, sent, failed>>

\* rejectAll, then the adapter's abort.
Aborts ==
  /\ wq' = [wq EXCEPT !.ring = <<>>, !.bytes = 0, !.ended = TRUE]
  /\ failed' = failed \cup {wq.ring[i] : i \in 1 .. Len(wq.ring)}
  /\ adapter' = [adapter EXCEPT !.state = "aborted"]
  /\ UNCHANGED <<size, sent>>

\* Mutant: the deadline is for chunks only.
ExpiresWithChunks == shutdown = "draining" /\ wq.ring # <<>>

\* The timer of _waitForDrainWithTimeout, if the drain does not come first.
Expires == shutdown = "draining"

DrainTimeout == Expires /\ Aborts /\ shutdown' = "failed"

\* abort; a shutdown in progress goes on, a later one returns at once.
AbortTransport ==
  /\ adapter.state # "aborted"
  /\ Aborts
  /\ shutdown' = IF shutdown = "no" THEN "aborted" ELSE shutdown

WriteNext == \/ \E n \in ChunkSizes : Offer(n)
             \/ DrainSignal \/ Shutdown \/ FinishShutdown \/ DrainTimeout \/ AbortTransport

\* The timer of a shutdown fires, and a resolved promise's reaction runs; the
\* sink owes nothing.
WriteFairness == WF_writeVars(FinishShutdown) /\ WF_writeVars(DrainTimeout)

WriteSpec == WriteInit /\ [][WriteNext]_writeVars /\ WriteFairness
-----------------------------------------------------------------------------
\* The chunks that reach the adapter are the first ones accepted, each once and
\* in their order, whatever was refused, flushed, rejected and shut down in
\* between (enqueue, _drain, rejectAll).
SentIsPrefix == sent = [i \in 1 .. Len(sent) |-> i]

\* Every accepted chunk is in one place: sent, rejected or in the ring.  The
\* byte counter is the ring's sum and under the ceiling; the queue holds chunks
\* only while it is paused or its adapter closed (enqueue, _drain, rejectAll).
WriteInv ==
  LET held == {wq.ring[i] : i \in 1 .. Len(wq.ring)}
      gone == {sent[i] : i \in 1 .. Len(sent)}
  IN  /\ Chunks = held \cup gone \cup failed
      /\ held \cap (gone \cup failed) = {} /\ gone \cap failed = {}
      /\ wq.bytes = BytesOf(wq.ring)
      /\ wq.bytes <= MaxBytes
      /\ wq.ring # <<>> => wq.paused

\* A shutdown ends, with the adapter closed, even if the sink never signals a
\* drain (_waitForDrainWithTimeout).
ShutdownEnds == shutdown = "draining" ~> (shutdown \in {"done", "failed"} /\ adapter.state # "open")

\* The queue is paused only while its adapter refuses: the drain signal resumes
\* it (constructor of BackpressureWriteQueue).
PausedByAdapter == wq.paused => adapter.paused \/ adapter.state # "open"

\* After a graceful shutdown no accepted chunk is left unsent (shutdown:
\* "drain the queue, then end the adapter").
ShutdownDrains == shutdown = "done" /\ failed = {} => wq.ring = <<>>
=============================================================================
