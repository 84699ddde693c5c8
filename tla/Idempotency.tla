------------------------------ MODULE Idempotency ------------------------------
(***************************************************************************)
(* Execution under an idempotency key (class IdempotencyRegistry of        *)
(* src/src/layers/retry/engine/IdempotencyRegistry.ts): callers repeat a   *)
(* call, each joins the one in flight, is given the stored result, or      *)
(* executes.  One key; keys share only the sweep.                          *)
(*                                                                         *)
(* Executions are numbered, and the number is their result.  The record    *)
(* names the execution that created it, but complete() and fail() find it  *)
(* by its key, whatever it has become; joiners hold the promise of the     *)
(* record they joined.                                                     *)
(*                                                                         *)
(* InWindow says that an operation ends before its record expires.  The    *)
(* code does not see to that.                                              *)
(***************************************************************************)
EXTENDS Integers, FiniteSets

CONSTANTS Callers, Payloads,
          Windows,        \* ttlMs: the values a registry may be configured with
          MaxExecutions,  \* bound
          InWindow

Executions == 1 .. MaxExecutions

ASSUME IdempotencyAssumption ==
  /\ MaxExecutions \in Nat
  /\ Windows \subseteq Nat
  /\ InWindow \in BOOLEAN

VARIABLES window,
          entry,        \* the record: execution, payload, state, time left; execution 0 without one
          executes,     \* the execution each caller runs, 0 for none
          joins,        \* the record whose promise each caller awaits, 0 for none
          payload,      \* of each caller's call
          started,      \* executions so far
          succeeded,    \* of these (history)
          given         \* the results callers were given: caller's payload and execution (history)

idemVars == <<window, entry, executes, joins, payload, started, succeeded, given>>

NoEntry == [execution |-> 0, payload |-> 0, state |-> "none", left |-> 0]

IdemInit == /\ window \in Windows
            /\ entry = NoEntry
            /\ executes = [c \in Callers |-> 0]
            /\ joins = [c \in Callers |-> 0]
            /\ payload \in [Callers -> Payloads]
            /\ started = [n \in {} |-> 0]
            /\ succeeded = {}
            /\ given = {}

-----------------------------------------------------------------------------
Free(c) == executes[c] = 0 /\ joins[c] = 0

\* What _sweepExpired leaves.
Unexpired == IF window > 0 /\ entry.left = 0 THEN NoEntry ELSE entry

\* Mutant: the payload is not compared.
ConflictsNever(c, e) == FALSE

Conflicts(c, e) == e.payload # payload[c]

\* There is no record, or one of a failed execution.
Executable(e) == e.state \in {"none", "failed"}

\* begin, as execute goes on from it.
Begin(c) ==
  LET e == Unexpired
      n == Cardinality(DOMAIN started) + 1
  IN  /\ Free(c)
      /\ CASE e.state # "none" /\ Conflicts(c, e) ->
                entry' = e /\ UNCHANGED <<executes, joins, started, given>>
           [] (e.state = "none" \/ ~Conflicts(c, e)) /\ Executable(e) ->
                /\ n \in Executions
                /\ started' = [i \in DOMAIN started \cup {n} |-> IF i = n THEN payload[c]
                                                                   ELSE started[i]]
                /\ entry' = [execution |-> n, payload |-> payload[c], state |-> "in-flight",
                             left |-> window]
                /\ executes' = [executes EXCEPT ![c] = n]
                /\ UNCHANGED <<joins, given>>
           [] ~Executable(e) /\ ~Conflicts(c, e) /\ e.state = "in-flight" ->
                /\ entry' = e
                /\ joins' = [joins EXCEPT ![c] = e.execution]
                /\ UNCHANGED <<executes, started, given>>
           [] ~Executable(e) /\ ~Conflicts(c, e) /\ e.state = "succeeded" ->
                /\ entry' = e
                /\ given' = given \cup {<<payload[c], e.execution>>}
                /\ UNCHANGED <<executes, joins, started>>
      /\ UNCHANGED <<window, payload, succeeded>>

\* Those who joined the record.
Told(ok) == {c \in Callers : joins[c] = entry.execution}

\* complete and fail: whatever record is in flight under the key is settled.
Settle(c, ok) ==
  /\ executes[c] # 0
  /\ executes' = [executes EXCEPT ![c] = 0]
  /\ succeeded' = IF ok THEN succeeded \cup {executes[c]} ELSE succeeded
  /\ IF entry.state = "in-flight"
     THEN /\ entry' = [entry EXCEPT !.state = IF ok THEN "succeeded" ELSE "failed",
                                    !.execution = executes[c]]
          /\ joins' = [d \in Callers |-> IF d \in Told(ok) THEN 0 ELSE joins[d]]
          /\ given' = IF ok THEN given \cup {<<payload[d], executes[c]>> : d \in Told(ok) \cup {c}}
                            ELSE given
     ELSE /\ given' = IF ok THEN given \cup {<<payload[c], executes[c]>>} ELSE given
          /\ UNCHANGED <<entry, joins>>
  /\ UNCHANGED <<window, payload, started>>

SweepEntry == /\ Unexpired # entry
              /\ entry' = Unexpired
              /\ UNCHANGED <<window, executes, joins, payload, started, succeeded, given>>

IdemTick == /\ entry.left > 0
            /\ InWindow /\ entry.state = "in-flight" => entry.left > 1
            /\ entry' = [entry EXCEPT !.left = @ - 1]
            /\ UNCHANGED <<window, executes, joins, payload, started, succeeded, given>>

IdemNext == \/ \E c \in Callers : Begin(c) \/ \E ok \in BOOLEAN : Settle(c, ok)
            \/ SweepEntry
            \/ IdemTick

\* Operations end.
IdemFairness == \A c \in Callers : WF_idemVars(\E ok \in BOOLEAN : Settle(c, ok))

IdemSpec == IdemInit /\ [][IdemNext]_idemVars /\ IdemFairness

-----------------------------------------------------------------------------
IdemTypeOK == /\ window \in Windows
              /\ entry \in [execution : Executions \cup {0}, payload : Payloads \cup {0},
                            state : {"none", "in-flight", "succeeded", "failed"},
                            left : 0 .. window]
              /\ executes \in [Callers -> Executions \cup {0}]
              /\ joins \in [Callers -> Executions \cup {0}]
              /\ succeeded \subseteq DOMAIN started

\* One execution at a time, if operations end within the window: repeated
\* calls, failures and sweeps never start a second one beside the first.
OneExecution ==
  InWindow => \A c, d \in Callers : executes[c] # 0 /\ executes[d] # 0 => c = d

\* A caller is given the result of an execution that succeeded, of its own
\* payload and no other's.
ResultsAreOwn ==
  \A g \in given : g[2] \in succeeded /\ started[g[2]] = g[1]

\* Calls with one key are one operation (begin, complete, sweep).
CallsDeduplicated == OneExecution /\ ResultsAreOwn

\* Who joins an execution is answered when it ends, however it ends.
JoinersAnswered == \A c \in Callers : joins[c] # 0 ~> joins[c] = 0
=============================================================================
