------------------------------ MODULE JobScheduler ------------------------------
(***************************************************************************)
(* The job scheduler (class JobScheduler of                                *)
(* src/src/layers/scheduling/scheduler/JobScheduler.ts with the queue of   *)
(* MinHeap.ts).  The host calls tick when it likes, also while an earlier  *)
(* tick still awaits a job; callers trigger jobs by hand, switch them off  *)
(* and on, and unregister them.                                            *)
(*                                                                         *)
(* A run of a job (JobExecutor.run, its retries and its timeout included)  *)
(* is one await that ends in success or not.  Between two awaits a tick    *)
(* runs alone.                                                             *)
(***************************************************************************)
EXTENDS Integers, FiniteSets, Lists

CONSTANTS CronJobs, OnceJobs,
          RunAllJobs, SkipOneJobs,     \* by missedRunPolicy; the others skip all
          Dependents, Dependency,      \* the jobs that depend on the one named
          Concurrency,
          Meddled,                     \* jobs somebody triggers, switches and unregisters
          RemoveRunning,               \* also while they run?
          Ticks, Triggers,             \* calls of tick and of trigger that overlap
          CronPeriod, OnceAt, Deferral,
          MaxNow                       \* bound

ASSUME JobSchedulerAssumption ==
  /\ IsFiniteSet(CronJobs \cup OnceJobs)
  /\ CronJobs \cap OnceJobs = {} /\ RunAllJobs \cap SkipOneJobs = {}
  /\ RunAllJobs \cup SkipOneJobs \subseteq CronJobs
  /\ Dependents \cup Meddled \subseteq CronJobs \cup OnceJobs
  /\ Dependency \notin Dependents
  /\ RemoveRunning \in BOOLEAN
  /\ {Concurrency, CronPeriod, OnceAt, Deferral} \subseteq Nat \ {0} /\ MaxNow \in Nat

VARIABLES now,
          jobs,        \* the registered jobs: enabled, running, executed, blocked slots, last outcome
          queue,       \* the entries in the order they pop
          ticks,       \* each tick: its time, what it popped, the job it awaits and its slots
          triggered,   \* the job each trigger awaits
          slotsRun     \* the slots each job was launched for (history)

schedulerVars == <<now, jobs, queue, ticks, triggered, slotsRun>>

Jobs == CronJobs \cup OnceJobs
NoTick == [at |-> "off", time |-> 0, batch |-> <<>>, job |-> Dependency, slots |-> <<>>]

\* The cron's fire times.
NextAfter(t) == (t \div CronPeriod + 1) * CronPeriod
SlotsIn(from, to) == {s \in from + 1 .. to : s % CronPeriod = 0}

\* The same in their order (between of the cron).
SlotsBetween(from, to) ==
  [i \in 1 .. to \div CronPeriod - from \div CronPeriod |-> (from \div CronPeriod + i) * CronPeriod]

FireEntry(j, t) == [job |-> j, at |-> t]

\* push: entries pop by time, then in the order they were pushed.
Pushed(q, e) == Inserted(q, e, {x \in Range(q) : x.at > e.at})

FirstFire(j) == IF j \in OnceJobs THEN OnceAt ELSE NextAfter(0)

\* The jobs are registered in any order.
FirstQueues ==
  {q \in [1 .. Cardinality(Jobs) -> {FireEntry(j, FirstFire(j)) : j \in Jobs}] :
     /\ \A j \in Jobs : \E i \in DOMAIN q : q[i].job = j
     /\ \A i, k \in DOMAIN q : i < k => q[i].at <= q[k].at}

SchedulerInit ==
  /\ now = 0
  /\ jobs = [j \in Jobs |-> [there |-> TRUE, enabled |-> TRUE, running |-> 0, executed |-> FALSE,
                             blocked |-> <<>>, last |-> "never"]]
  /\ queue \in FirstQueues
  /\ ticks = [k \in Ticks |-> NoTick]
  /\ triggered = [c \in Triggers |-> {}]
  /\ slotsRun = [j \in Jobs |-> <<>>]

-----------------------------------------------------------------------------
(* A tick, on s: the jobs and the queue.                                   *)

\* Mutant: the next slot from now on.
RescheduledFromNow(s, j, t) ==
  IF j \in OnceJobs THEN s ELSE [s EXCEPT !.queue = Pushed(@, FireEntry(j, NextAfter(now)))]

\* _reschedule and _computeNext.
Rescheduled(s, j, t) ==
  CASE j \in CronJobs -> [s EXCEPT !.queue = Pushed(@, FireEntry(j, NextAfter(t)))]
    [] j \in OnceJobs /\ ~s.jobs[j].executed -> [s EXCEPT !.queue = Pushed(@, FireEntry(j, OnceAt))]
    [] OTHER -> s

DepsSatisfied(s, j) ==
  j \in Dependents => s.jobs[Dependency].there /\ s.jobs[Dependency].last = "success"

Launches(s, e) == /\ s.jobs[e.job].there /\ s.jobs[e.job].enabled
                  /\ DepsSatisfied(s, e.job)
                  /\ s.jobs[e.job].running < Concurrency

\* Mutant: a disabled job leaves the queue.
PassedOverDropped(s, e, t) ==
  CASE ~s.jobs[e.job].there \/ ~s.jobs[e.job].enabled -> s
    [] ~DepsSatisfied(s, e.job) -> [s EXCEPT !.queue = Pushed(@, FireEntry(e.job, t + Deferral))]
    [] OTHER -> Rescheduled([s EXCEPT !.jobs[e.job].blocked = Append(@, e.at)], e.job, t)

\* The turns of the loop that launch nothing.
PassedOver(s, e, t) ==
  CASE ~s.jobs[e.job].there -> s
    [] s.jobs[e.job].there /\ ~s.jobs[e.job].enabled -> Rescheduled(s, e.job, t)
    [] s.jobs[e.job].there /\ s.jobs[e.job].enabled /\ ~DepsSatisfied(s, e.job) ->
         [s EXCEPT !.queue = Pushed(@, FireEntry(e.job, t + Deferral))]
    [] OTHER -> Rescheduled([s EXCEPT !.jobs[e.job].blocked = Append(@, e.at)], e.job, t)

\* _missedSlots.
MissedSlots(s, e, t) ==
  LET slept == IF e.job \in CronJobs THEN SlotsBetween(e.at, t) ELSE <<>>
      all == Sorted(s.jobs[e.job].blocked \o slept)
  IN  CASE e.job \in RunAllJobs -> all
        [] e.job \in SkipOneJobs /\ all # <<>> -> <<all[Len(all)]>>
        [] OTHER -> <<>>

Launched(s, j) == [s EXCEPT !.jobs[j].running = @ + 1, !.jobs[j].executed = TRUE]

\* The loop of tick up to the next await, or to its end.
RunBatch(k, start, batch, t) ==
  LET after[n \in 0 .. Len(batch)] == IF n = 0 THEN start ELSE PassedOver(after[n - 1], batch[n], t)
      Stops(n) == Launches(after[n - 1], batch[n])
      n == CHOOSE i \in 1 .. Len(batch) : Stops(i) /\ \A h \in 1 .. i - 1 : ~Stops(h)
      e == batch[n]
      s == [after[n - 1] EXCEPT !.jobs[e.job].blocked = <<>>]
  IN  IF \E i \in 1 .. Len(batch) : Stops(i)
      THEN /\ jobs' = Launched(s, e.job).jobs
           /\ queue' = s.queue
           /\ ticks' = [ticks EXCEPT ![k] =
                [at |-> "running", time |-> t, batch |-> SubSeq(batch, n + 1, Len(batch)),
                 job |-> e.job, slots |-> MissedSlots(after[n - 1], e, t)]]
           /\ slotsRun' = [slotsRun EXCEPT ![e.job] = Append(@, e.at)]
      ELSE /\ jobs' = after[Len(batch)].jobs
           /\ queue' = after[Len(batch)].queue
           /\ ticks' = [ticks EXCEPT ![k] = NoTick]
           /\ UNCHANGED slotsRun

System == [jobs |-> jobs, queue |-> queue]

\* tick: popDue, then the loop.
TickScheduler(k) ==
  LET due == {e \in Range(queue) : e.at <= now}
  IN  /\ ticks[k].at = "off"
      /\ queue # <<>> /\ queue[1] \in due
      /\ RunBatch(k, [System EXCEPT !.queue = Without(@, due)],
                 Without(queue, Range(queue) \ due), now)
      /\ UNCHANGED <<now, triggered>>

EndedRun(j, ok) == [jobs EXCEPT ![j].running = @ - 1, ![j].last = IF ok THEN "success" ELSE "failure"]

\* A run of the tick's job ends.
FinishRun(k) ==
  /\ ticks[k].at = "running"
  /\ \E ok \in BOOLEAN : jobs' = EndedRun(ticks[k].job, ok)
  /\ ticks' = [ticks EXCEPT ![k].at = "between"]
  /\ UNCHANGED <<now, queue, triggered, slotsRun>>

\* The next slot is launched without asking again.
NextSlot(k) ==
  LET j == ticks[k].job
  IN  /\ ticks[k].at = "between" /\ ticks[k].slots # <<>>
      /\ jobs' = Launched(System, j).jobs
      /\ slotsRun' = [slotsRun EXCEPT ![j] = Append(@, Head(ticks[k].slots))]
      /\ ticks' = [ticks EXCEPT ![k].at = "running", ![k].slots = Tail(@)]
      /\ UNCHANGED <<now, queue, triggered>>

\* The job's slots are done.  _reschedule throws if it lost its cron meanwhile,
\* and the rest of the batch is lost with the tick.
NextJob(k) ==
  LET j == ticks[k].job
  IN  /\ ticks[k].at = "between" /\ ticks[k].slots = <<>>
      /\ IF j \in CronJobs /\ ~jobs[j].there
         THEN ticks' = [ticks EXCEPT ![k] = NoTick] /\ UNCHANGED <<jobs, queue, slotsRun>>
         ELSE RunBatch(k, Rescheduled(System, j, ticks[k].time), ticks[k].batch, ticks[k].time)
      /\ UNCHANGED <<now, triggered>>

-----------------------------------------------------------------------------
Trigger(c, j) ==
  /\ triggered[c] = {}
  /\ jobs[j].there /\ DepsSatisfied(System, j) /\ jobs[j].running < Concurrency
  /\ jobs' = Launched(System, j).jobs
  /\ triggered' = [triggered EXCEPT ![c] = {j}]
  /\ UNCHANGED <<now, queue, ticks, slotsRun>>

FinishTrigger(c) ==
  /\ \E j \in triggered[c], ok \in BOOLEAN : jobs' = EndedRun(j, ok)
  /\ triggered' = [triggered EXCEPT ![c] = {}]
  /\ UNCHANGED <<now, queue, ticks, slotsRun>>

\* enable and disable.
Switch(j) ==
  /\ jobs[j].there
  /\ jobs' = [jobs EXCEPT ![j].enabled = ~@]
  /\ UNCHANGED <<now, queue, ticks, triggered, slotsRun>>

Unregister(j) ==
  /\ jobs[j].there
  /\ RemoveRunning \/ \A k \in Ticks : ticks[k].job = j => ticks[k].at = "off"
  /\ jobs' = [jobs EXCEPT ![j].there = FALSE]
  /\ queue' = Without(queue, {e \in Range(queue) : e.job = j})
  /\ UNCHANGED <<now, ticks, triggered, slotsRun>>

PassNow == /\ now < MaxNow /\ now' = now + 1
           /\ UNCHANGED <<jobs, queue, ticks, triggered, slotsRun>>

SchedulerNext == \/ \E k \in Ticks : TickScheduler(k) \/ FinishRun(k) \/ NextSlot(k) \/ NextJob(k)
                 \/ \E c \in Triggers : FinishTrigger(c) \/ \E j \in Meddled : Trigger(c, j)
                 \/ \E j \in Meddled : Switch(j) \/ Unregister(j)
                 \/ PassNow

SchedulerSpec == SchedulerInit /\ [][SchedulerNext]_schedulerVars
-----------------------------------------------------------------------------
InQueue(j) == {i \in DOMAIN queue : queue[i].job = j}
Handling(j) == {k \in Ticks : /\ ticks[k].at # "off"
                              /\ \/ ticks[k].job = j
                                 \/ \E i \in DOMAIN ticks[k].batch : ticks[k].batch[i].job = j}

\* A registered recurring job is in the queue once or in one tick's hands, never
\* lost and never twice; a one-shot is in at most one place (tick, _reschedule).
OnePlace ==
  \A j \in Jobs : jobs[j].there =>
    /\ Cardinality(InQueue(j)) + Cardinality(Handling(j)) <= 1
    /\ j \in CronJobs => InQueue(j) \cup Handling(j) # {}

\* No slot is run twice, whether it was on time, blocked or slept through
\* (_missedSlots, _reschedule).
NoSlotTwice == \A j \in Jobs : IsInjective(slotsRun[j])

\* With run-all, when a job that nobody delays waits for a slot, all slots before
\* it have run ("every missed slot since the last dispatch").
RunAllComplete ==
  \A j \in RunAllJobs \ (Meddled \cup Dependents) : \A i \in InQueue(j) :
    Range(slotsRun[j]) = SlotsIn(0, queue[i].at - 1)
\* Every slot of a run-all job is run exactly once (_reschedule, _missedSlots).
SlotsRunOnce == NoSlotTwice /\ RunAllComplete
=============================================================================
