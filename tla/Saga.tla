---------------------------------- MODULE Saga ----------------------------------
(***************************************************************************)
(* A saga instance (class SagaEngine of                                    *)
(* src/src/layers/saga/engine/SagaEngine.ts with its log, SagaLog.ts):     *)
(* instances share nothing.  run() may be called again while a run is at   *)
(* an await; both then drive the same instance, each from the first step.  *)
(*                                                                         *)
(* A run is at the await of an action, of a backoff, or of a compensation; *)
(* between two awaits it runs alone.  A timeout is a failure of the        *)
(* action: what the action does later changes nothing in the engine.       *)
(***************************************************************************)
EXTENDS Integers, Sequences, FiniteSets

CONSTANTS MaxSteps,
          MaxRetries,
          Runs            \* the calls of run()

ASSUME SagaAssumption == {MaxSteps, MaxRetries} \subseteq Nat

VARIABLES saga,           \* the definition: its steps, their retries, those with a compensation
          life, completedSteps,
          log,            \* the entries replay() folds
          runs,      \* where each run is
          undone          \* how often each step was compensated (history)

sagaVars == <<saga, life, completedSteps, log, runs, undone>>

Sagas == [steps : 0 .. MaxSteps, retries : 0 .. MaxRetries, undoable : SUBSET (1 .. MaxSteps)]

SagaInit == /\ saga \in {d \in Sagas : d.undoable \subseteq 1 .. d.steps}
            /\ life = "started"
            /\ completedSteps = <<>>
            /\ log = <<>>
            /\ runs = [r \in Runs |-> [at |-> "off", step |-> 0, attempt |-> 0]]
            /\ undone = [s \in 1 .. MaxSteps |-> 0]
-----------------------------------------------------------------------------
Transition(to) == <<"state", to>>
Succeeded(s) == <<"step_succeeded", s>>
CompensatedStep(s) == <<"compensated_step", s>>

Stands(r, at, step, attempt) ==
  runs' = [runs EXCEPT ![r] = [at |-> at, step |-> step, attempt |-> attempt]]

\* The loop of run, with so many steps behind it.
Proceed(r, st, entries, behind) ==
  \/ /\ st = "running" /\ behind < saga.steps
     /\ life' = st
     /\ log' = entries
     /\ Stands(r, "acting", behind + 1, 0)
  \/ /\ st = "running" /\ behind = saga.steps
     /\ life' = "completed"
     /\ log' = Append(entries, Transition("completed"))
     /\ Stands(r, "done", 0, 0)
  \/ /\ st # "running"
     /\ life' = st
     /\ log' = entries
     /\ Stands(r, "done", 0, 0)

SagaRun(r) ==
  /\ runs[r].at = "off"
  /\ IF life = "started"
     THEN Proceed(r, "running", Append(log, Transition("running")), 0)
     ELSE Proceed(r, life, log, 0)
  /\ UNCHANGED <<saga, completedSteps, undone>>

StepSucceeds(r) ==
  LET s == runs[r].step
  IN  /\ runs[r].at = "acting"
      /\ completedSteps' = Append(completedSteps, s)
      /\ Proceed(r, life, Append(log, Succeeded(s)), s)
      /\ UNCHANGED <<saga, undone>>

\* transition at the end of compensate: a state may be entered again, and what
\* is not legal is thrown.
Reaches(r, st, entries, to) ==
  IF st \in {"compensating", to}
  THEN /\ life' = to
       /\ log' = Append(entries, Transition(to))
       /\ Stands(r, "done", 0, 0)
  ELSE /\ life' = st
       /\ log' = entries
       /\ Stands(r, "threw", 0, 0)

\* Mutant: completed steps are undone in the order of their completion.
NextUndoForward(from) ==
  LET undoable == {i \in 1 .. from : completedSteps[i] \in saga.undoable
                                     /\ undone[completedSteps[i]] = 0}
  IN  CHOOSE i \in undoable \cup {0} : undoable # {} => i # 0 /\ \A j \in undoable : i <= j

\* Steps without a compensation are passed over.
NextUndo(from) ==
  LET undoable == {i \in 1 .. from : completedSteps[i] \in saga.undoable}
  IN  CHOOSE i \in undoable \cup {0} : \A j \in undoable : j <= i

\* Mutant: without a step to undo, the state is left as it is.
CompensateIdle(r, st, entries, from) ==
  /\ life' = st
  /\ log' = entries
  /\ Stands(r, IF NextUndo(from) = 0 THEN "done" ELSE "undoing", NextUndo(from), 0)

\* compensate, from an entry of completedSteps down to the next that is undone.
Compensate(r, st, entries, from) ==
  IF NextUndo(from) = 0
  THEN Reaches(r, st, entries, "compensated")
  ELSE /\ life' = st
       /\ log' = entries
       /\ Stands(r, "undoing", NextUndo(from), 0)

\* The action throws or times out.
StepFails(r) ==
  /\ runs[r].at = "acting"
  /\ IF runs[r].attempt < saga.retries
     THEN /\ Stands(r, "backoff", runs[r].step, runs[r].attempt + 1)
          /\ UNCHANGED <<life, log>>
     ELSE IF life = "running"
     THEN Compensate(r, "compensating", Append(log, Transition("compensating")),
                     Len(completedSteps))
     ELSE Compensate(r, life, log, Len(completedSteps))
  /\ UNCHANGED <<saga, completedSteps, undone>>

StepRetried(r) ==
  /\ runs[r].at = "backoff"
  /\ Stands(r, "acting", runs[r].step, runs[r].attempt)
  /\ UNCHANGED <<saga, life, completedSteps, log, undone>>

UndoSucceeds(r) ==
  LET s == completedSteps[runs[r].step]
  IN  /\ runs[r].at = "undoing"
      /\ undone' = [undone EXCEPT ![s] = @ + 1]
      /\ Compensate(r, life, Append(log, CompensatedStep(s)), runs[r].step - 1)
      /\ UNCHANGED <<saga, completedSteps>>

\* The first compensation that fails is the last one tried.
UndoFails(r) ==
  /\ runs[r].at = "undoing"
  /\ Reaches(r, life, log, "failed")
  /\ UNCHANGED <<saga, completedSteps, undone>>

Continues(r) == StepSucceeds(r) \/ StepFails(r) \/ StepRetried(r) \/ UndoSucceeds(r) \/ UndoFails(r)

SagaNext == \E r \in Runs : SagaRun(r) \/ Continues(r)

\* Actions and compensations end, or their timers do.
SagaFairness == \A r \in Runs : WF_sagaVars(Continues(r))

SagaSpec == SagaInit /\ [][SagaNext]_sagaVars /\ SagaFairness

-----------------------------------------------------------------------------
\* replay: what folding the log gives.
ReplayedState ==
  LET states == {i \in DOMAIN log : log[i][1] = "state"}
  IN  IF states = {} THEN "started" ELSE log[CHOOSE i \in states : \A j \in states : j <= i][2]

Replayed(kind) == {log[i][2] : i \in {j \in DOMAIN log : log[j][1] = kind}}

CompletedSet == {completedSteps[i] : i \in DOMAIN completedSteps}

Alone == Cardinality({r \in Runs : runs[r].at # "off"}) <= 1

SagaTypeOK ==
  /\ life \in {"started", "running", "compensating", "completed", "compensated", "failed"}
  /\ CompletedSet \subseteq 1 .. saga.steps
  /\ \A r \in Runs : runs[r].at \in {"off", "acting", "backoff", "undoing", "done", "threw"}
  /\ undone \in [1 .. MaxSteps -> Nat]

\* At any moment of any overlapping runs, also after one has thrown, the log
\* alone gives the state of the instance: a crash loses nothing.
ReplayAgrees == /\ ReplayedState = life
                /\ Replayed("step_succeeded") = CompletedSet
                /\ Replayed("compensated_step") = {s \in DOMAIN undone : undone[s] > 0}

\* All or nothing: however many runs there are, a saga is completed only with
\* every step done.  If it is run once, nothing of a completed one is undone,
\* and of a compensated one every step that can be, and exactly once.
AllOrNothing ==
  /\ life = "completed" => CompletedSet = 1 .. saga.steps
  /\ life = "completed" /\ Alone => \A s \in 1 .. MaxSteps : undone[s] = 0
  /\ life = "compensated" /\ Alone =>
       \A s \in 1 .. MaxSteps :
         undone[s] = IF s \in CompletedSet \cap saga.undoable THEN 1 ELSE 0

\* A step is undone only when all that was built on it is.
UndoneInReverse ==
  [][\A s \in 1 .. MaxSteps : Alone /\ undone'[s] > undone[s] =>
       \A t \in CompletedSet \cap saga.undoable : t > s => undone[t] = 1]_sagaVars

\* A saga that runs reaches an end, and so does a second run of it.
SagaEnds == \A r \in Runs : runs[r].at # "off" ~> /\ runs[r].at \in {"done", "threw"}
                                                   /\ life \in {"completed", "compensated", "failed"}
=============================================================================
