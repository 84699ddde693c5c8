-------------------------------- MODULE Inbox --------------------------------
(***************************************************************************)
(* The idempotent consumer in ordered mode (class InboxEngine of           *)
(* src/src/layers/inbox/pattern/InboxEngine.ts with its state machine and  *)
(* backoff), one consumer polled by several workers.                       *)
(*                                                                         *)
(* A message is its sequence number.  A worker's handler is the one await  *)
(* of processNext and processRecord: between StartInbox and its answer     *)
(* anything may happen, also that the lease expires, another worker reaps  *)
(* the record and runs it again.  Nothing in the record tells one run from *)
(* another.  lease and retry count down to leaseUntil and nextAttemptAt.   *)
(*                                                                         *)
(* Time has no relation to handlers unless InLease says that one that has  *)
(* not crashed answers before its lease is over.                           *)
(***************************************************************************)
EXTENDS Lists, FiniteSets

CONSTANTS MaxSequence, Workers,
          Gaps,             \* maxSequenceGapWait: the values an engine may be configured with
          LeaseTime, RetryTime, MaxTries,
          MaxRuns,          \* bound: attempts per message
          MaxHandlerCrashes,\* bound
          MaxInterventions, \* bound: processRecord, redrive and cleanup
          InLease

Messages == 1 .. MaxSequence

ASSUME InboxAssumption ==
  /\ {MaxSequence, MaxRuns, MaxHandlerCrashes, MaxInterventions} \subseteq Nat
  /\ {LeaseTime, RetryTime, MaxTries} \subseteq Nat \ {0}
  /\ Gaps \subseteq Nat
  /\ InLease \in BOOLEAN

VARIABLES gap,
          arrived,        \* the records in the order they were received
          state, attempts, lease, retry,
          expected,       \* _nextSeq
          running,        \* the message each worker's handler is at, 0 for none
          inTime,         \* what is left of the lease each worker took (history)
          forced,         \* workers in processRecord
          processed,      \* messages completed at some time (history)
          jumped,         \* sequences the gap tolerance skipped (history)
          crashes, interventions

recordVars == <<arrived, state, attempts, lease, retry>>
workerVars == <<running, inTime, forced>>
countVars  == <<crashes, interventions>>
inboxVars  == <<gap, recordVars, expected, workerVars, processed, jumped, countVars>>

InboxInit == /\ gap \in Gaps
             /\ arrived = <<>>
             /\ state = [m \in Messages |-> "none"]
             /\ attempts = [m \in Messages |-> 0]
             /\ lease = [m \in Messages |-> 0]
             /\ retry = [m \in Messages |-> 0]
             /\ expected = 1
             /\ running = [w \in Workers |-> 0]
             /\ inTime = [w \in Workers |-> 0]
             /\ forced = {}
             /\ processed = {}
             /\ jumped = {}
             /\ crashes = 0
             /\ interventions = 0

-----------------------------------------------------------------------------
\* A known message is a duplicate and leaves everything as it is.
ReceiveMessage(m) ==
  /\ state[m] = "none"
  /\ arrived' = Append(arrived, m)
  /\ state' = [state EXCEPT ![m] = "RECEIVED"]
  /\ attempts' = [attempts EXCEPT ![m] = 0]
  /\ UNCHANGED <<gap, lease, retry, expected, workerVars, processed, jumped, countVars>>

\* Mutant: a running lease is taken back, too.
LeaseOverAny(m) == state[m] = "PROCESSING"

\* Mutant: expired leases are not reaped.
LeaseOverNever(m) == FALSE

LeaseOver(m) == state[m] = "PROCESSING" /\ lease[m] = 0

\* _reapExpiredLeases, the first thing processNext does.
Reaped == [m \in Messages |-> IF LeaseOver(m) THEN "RECEIVED" ELSE state[m]]

RetryDue(st, m) == st[m] = "FAILED" /\ retry[m] = 0

\* _nextActionable: the oldest record to be had.  If that is a deferred one
\* whose turn has not come, the oldest of the others.
First(S) == {m \in S : \A i \in DOMAIN arrived : arrived[i] \in S =>
                         \E j \in 1 .. i : arrived[j] = m}

NextActionable(st) ==
  LET ready    == {m \in Messages : st[m] = "RECEIVED" \/ RetryDue(st, m)}
      deferred == {m \in Messages : st[m] = "DEFERRED"}
      best     == First(ready \cup deferred)
  IN  IF \E m \in best : m \in deferred /\ m > expected THEN First(ready) ELSE best

Ahead(m) == m > expected

\* acquire: the record is PROCESSING and its handler starts.
Run(w, m) ==
  /\ attempts[m] < MaxRuns
  /\ attempts' = [attempts EXCEPT ![m] = @ + 1]
  /\ lease' = [lease EXCEPT ![m] = LeaseTime]
  /\ running' = [running EXCEPT ![w] = m]
  /\ inTime' = [inTime EXCEPT ![w] = LeaseTime]

\* processNext.  A deferred record whose turn has come cannot be acquired
\* (LOCK_BUSY): only _promoteDeferred makes it RECEIVED again.
ProcessNext(w) ==
  /\ running[w] = 0
  /\ \/ /\ NextActionable(Reaped) = {}
        /\ state' = Reaped
        /\ UNCHANGED <<attempts, lease, workerVars>>
     \/ \E m \in NextActionable(Reaped) :
          \/ /\ Ahead(m)
             /\ state' = [Reaped EXCEPT ![m] = IF @ = "RECEIVED" THEN "DEFERRED" ELSE @]
             /\ UNCHANGED <<attempts, lease, workerVars>>
          \/ /\ ~Ahead(m)
             /\ IF Reaped[m] = "DEFERRED"
                THEN state' = Reaped /\ UNCHANGED <<attempts, lease, workerVars>>
                ELSE /\ state' = [Reaped EXCEPT ![m] = "PROCESSING"]
                     /\ Run(w, m)
                     /\ UNCHANGED forced
  /\ UNCHANGED <<gap, arrived, retry, expected, processed, jumped, countVars>>

\* processRecord: an operator runs a record out of its turn.
ProcessRecord(w, m) ==
  /\ running[w] = 0
  /\ state[m] \in {"RECEIVED", "FAILED"}
  /\ interventions < MaxInterventions
  /\ interventions' = interventions + 1
  /\ state' = [state EXCEPT ![m] = "PROCESSING"]
  /\ Run(w, m)
  /\ forced' = forced \cup {w}
  /\ UNCHANGED <<gap, arrived, retry, expected, processed, jumped, crashes>>

-----------------------------------------------------------------------------
(* The handler's answer.                                                   *)

Return(w) == /\ running' = [running EXCEPT ![w] = 0]
             /\ inTime' = [inTime EXCEPT ![w] = 0]
             /\ forced' = forced \ {w}

\* Mutant: expected follows whatever was processed last.
AdvancedToAny(m) == IF m >= expected THEN m + 1 ELSE expected

AdvancedTo(m) == IF m = expected THEN m + 1 ELSE expected

\* _promoteDeferred: the record whose turn it is; and if too many still wait,
\* the least of them, past the gap before it.
Promote(st, next) ==
  LET due    == [m \in Messages |-> IF st[m] = "DEFERRED" /\ m = next THEN "RECEIVED" ELSE st[m]]
      behind == {m \in Messages : due[m] = "DEFERRED"}
      jumps  == gap > 0 /\ Cardinality(behind) >= gap
      least  == CHOOSE m \in behind : \A n \in behind : m <= n
  IN  /\ expected' = IF jumps THEN least ELSE next
      /\ jumped' = IF jumps THEN jumped \cup (next .. least - 1) ELSE jumped
      /\ state' = IF jumps THEN [due EXCEPT ![least] = "RECEIVED"] ELSE due

Succeeds(w) ==
  LET m == running[w]
  IN  /\ state[m] = "PROCESSING"
      /\ Promote([state EXCEPT ![m] = "PROCESSED"], AdvancedTo(m))
      /\ lease' = [lease EXCEPT ![m] = 0]
      /\ retry' = [retry EXCEPT ![m] = 0]
      /\ processed' = processed \cup {m}
      /\ UNCHANGED <<arrived, attempts>>

Spent(m) == attempts[m] >= MaxTries

\* The catch, which a completion of a record that is not PROCESSING falls into
\* as well: park, or fail; what the state machine forbids is thrown.
Fails(w) ==
  LET m == running[w]
  IN  /\ \/ /\ Spent(m)
            /\ state[m] \in {"RECEIVED", "DEFERRED", "PROCESSING", "FAILED"}
            /\ state' = [state EXCEPT ![m] = "PARKED"]
            /\ lease' = [lease EXCEPT ![m] = 0]
            /\ retry' = [retry EXCEPT ![m] = 0]
         \/ /\ ~Spent(m)
            /\ state[m] = "PROCESSING"
            /\ state' = [state EXCEPT ![m] = "FAILED"]
            /\ lease' = [lease EXCEPT ![m] = 0]
            /\ retry' = [retry EXCEPT ![m] = RetryTime]
         \/ /\ state[m] \notin IF Spent(m)
                               THEN {"RECEIVED", "DEFERRED", "PROCESSING", "FAILED"}
                               ELSE {"PROCESSING"}
            /\ UNCHANGED <<state, lease, retry>>
      /\ UNCHANGED <<arrived, attempts, expected, processed, jumped>>

Answered(w, ok) ==
  /\ running[w] # 0
  /\ Return(w)
  /\ IF ok /\ state[running[w]] = "PROCESSING" THEN Succeeds(w) ELSE Fails(w)
  /\ UNCHANGED <<gap, countVars>>

\* The handler hangs for ever, or its process is gone.
HandlerCrashes(w) ==
  /\ running[w] # 0
  /\ crashes < MaxHandlerCrashes
  /\ crashes' = crashes + 1
  /\ Return(w)
  /\ UNCHANGED <<gap, recordVars, expected, processed, jumped, interventions>>

-----------------------------------------------------------------------------
(* The operator, and time.                                                 *)

Intervene == /\ interventions < MaxInterventions
             /\ interventions' = interventions + 1
             /\ UNCHANGED <<gap, expected, processed, jumped, crashes>>

\* redrive: any state from which RECEIVED may be reached.
Redrive(m) ==
  /\ state[m] \in {"PARKED", "PROCESSING", "DEFERRED"}
  /\ state' = [state EXCEPT ![m] = "RECEIVED"]
  /\ attempts' = [attempts EXCEPT ![m] = 0]
  /\ lease' = [lease EXCEPT ![m] = 0]
  /\ retry' = [retry EXCEPT ![m] = 0]
  /\ UNCHANGED <<arrived, workerVars>>
  /\ Intervene

\* cleanup: the PROCESSED records that are old enough, and with them the memory
\* that would tell a duplicate.  A late handler of such a record finds it
\* PROCESSED still, and changes nothing: it is let go here.
InboxCleanup(S) ==
  /\ S # {}
  /\ \A m \in S : state[m] = "PROCESSED"
  /\ state' = [m \in Messages |-> IF m \in S THEN "none" ELSE state[m]]
  /\ arrived' = Without(arrived, S)
  /\ running' = [w \in Workers |-> IF running[w] \in S THEN 0 ELSE running[w]]
  /\ inTime' = [w \in Workers |-> IF running[w] \in S THEN 0 ELSE inTime[w]]
  /\ forced' = {w \in forced : running[w] \notin S}
  /\ UNCHANGED <<attempts, lease, retry>>
  /\ Intervene

Less(t) == IF t = 0 THEN 0 ELSE t - 1

InboxTick ==
  /\ InLease => \A w \in Workers : running[w] # 0 => inTime[w] > 1
  /\ lease' = [m \in Messages |-> Less(lease[m])]
  /\ retry' = [m \in Messages |-> Less(retry[m])]
  /\ inTime' = [w \in Workers |-> Less(inTime[w])]
  /\ UNCHANGED <<gap, arrived, state, attempts, expected, running, forced, processed, jumped,
                 countVars>>

InboxNext ==
  \/ \E m \in Messages : ReceiveMessage(m) \/ Redrive(m)
  \/ \E w \in Workers : \/ ProcessNext(w)
                        \/ \E ok \in BOOLEAN : Answered(w, ok)
                        \/ HandlerCrashes(w)
                        \/ \E m \in Messages : ProcessRecord(w, m)
  \/ \E S \in SUBSET Messages : InboxCleanup(S)
  \/ InboxTick

\* The workers keep polling, handlers answer, time passes.
InboxFairness == /\ \A w \in Workers : /\ WF_inboxVars(ProcessNext(w))
                                       /\ WF_inboxVars(\E ok \in BOOLEAN : Answered(w, ok))
                 /\ WF_inboxVars(InboxTick)

InboxSpec == InboxInit /\ [][InboxNext]_inboxVars /\ InboxFairness

-----------------------------------------------------------------------------
InboxStates == {"none", "RECEIVED", "DEFERRED", "PROCESSING", "PROCESSED", "FAILED", "PARKED"}

InboxTypeOK == /\ gap \in Gaps
               /\ arrived \in Seq(Messages)
               /\ state \in [Messages -> InboxStates]
               /\ attempts \in [Messages -> 0 .. MaxRuns]
               /\ lease \in [Messages -> 0 .. LeaseTime]
               /\ retry \in [Messages -> 0 .. RetryTime]
               /\ expected \in 1 .. MaxSequence + 1
               /\ running \in [Workers -> Messages \cup {0}]
               /\ inTime \in [Workers -> 0 .. LeaseTime]
               /\ forced \subseteq Workers
               /\ processed \subseteq Messages
               /\ jumped \subseteq Messages

\* The retry budget, whichever of a message's runs counts last: it waits for a
\* retry only with an attempt left, and is parked only with none.
RetryBudget == \A m \in Messages : /\ state[m] = "FAILED" => attempts[m] < MaxTries
                                   /\ state[m] = "PARKED" => attempts[m] >= MaxTries

\* A record is deferred only until its turn: when expected reaches it, by a
\* completion or by a jump, it is promoted in the same step.  Nothing else
\* would ever take it up again.
DeferredAhead == \A m \in Messages : state[m] = "DEFERRED" => Ahead(m)

\* Ordered delivery, with late, double and failing handlers, operators and
\* cleanups: a message is handled only when each one before it was processed or
\* is one the gap tolerance gave up, unless an operator forced it.
HandledInOrder ==
  \A w \in Workers : running[w] # 0 /\ w \notin forced
    => \A m \in 1 .. running[w] - 1 : m \in processed \cup jumped

InboxInv == InboxTypeOK /\ RetryBudget /\ DeferredAhead

\* If handlers answer within their lease and nobody intervened, a message has one
\* handler at a time.
OneHandler ==
  InLease /\ interventions = 0
    => \A w, v \in Workers : running[w] # 0 /\ running[w] = running[v] => w = v

\* A message whose turn has come is processed or parked in the end.
TurnIsTaken ==
  \A m \in Messages :
    state[m] \notin {"none", "PROCESSED", "PARKED"} /\ m <= expected
      ~> state[m] \in {"none", "PROCESSED", "PARKED"}

\* InboxEngine.ts:18: "a DEFERRED record is promoted once its predecessor is
\* PROCESSED".  So no record stays deferred behind processed ones only.
PromotedAfterPredecessor ==
  \A m \in Messages : state[m] = "DEFERRED" => \E p \in 1 .. m - 1 : state[p] # "PROCESSED"
=============================================================================
