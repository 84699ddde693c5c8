# One Million Hello World: formal models

This directory holds TLA+ models of the parts of *One Million Hello World*
(TypeScript, about 960 000 lines under `src/src/layers`) whose correctness
depends on the order in which things happen: the message-delivery engines, and
the pools, caches, breakers, sagas, replicas, limiters and schedulers around
them. The models are checked with TLC on small instances, and the theorems
about them are proved with TLAPS for every value of the constants.

- [The system](#the-system): inventory of the components
- [The modules](#the-modules) and how they correspond to the code
- [The runs](#the-runs): what is checked, within which bounds
- [The proofs](#the-proofs)
- [Where the code and its comments disagree](#where-the-code-and-its-comments-disagree)
- [Not modelled](#not-modelled) and [the plan](#the-plan)

Paths below are relative to `src/src/layers`.

## The system

The program that runs is small. `src/index.ts` starts Express;
`application/Pipeline.ts` adapts each request, asks the router for a route, the
controller for a handler and the handler for a response; the use case behind it
(`service/use-cases/GetHelloWorldUseCase.ts`) checks a daily counter and
increments it with no await in between. Requests share nothing else.

Around it are 104 *layers*, constructed by `application/CompositionRoot.ts` and
`LayerRegistry.ts` but mostly not called by the request path. Every layer
repeats generated boilerplate (`interfaces`, `strategies`, `adapters`,
`configuration`, `health`, `metrics`, `domain`). The logic is in `engine`,
`engine2`, `implementations`, `pattern` and `server`. Everything runs in one
JavaScript process, so a stretch of code between two awaits is atomic;
concurrency comes from awaits, from timers, from several instances that share a
store, and from callers that keep a lease or a token and come back late.

| component | state | operations | what is hard | what makes it correct |
|---|---|---|---|---|
| Transactional outbox `outbox/implementations/TransactionalOutbox.ts` | the table of records (state, claim, lease, attempts), a sequence per aggregate; per relay a dedup window | enqueue, claimBatch, markSent, markFailed, releaseClaim, requeue, cleanup; poll, start, stop | leases that expire under a slow dispatch, relays that die, lost replies, overlapping polls, eviction | in order per aggregate, nothing marked sent that was not delivered, no sent record reopened, every message settled |
| Leader election `outbox/engine2/LeaderElection.ts` | a lease per partition, a token counter | acquire, renew, check, stepDown | a token outliving its lease or its entry | a superseded token never passes |
| Partitioned relay `outbox/engine2/RelayLoop.ts` with `Sharding.ts`, `FifoVerifier.ts` | a token per loop; a record store behind an interface | poll | a deposed leader in the middle of its batch | exclusive claims, sent for good, own shard only, every record sent |
| Broker queue `message-queue/engine/BrokerQueue.ts`, `ConsumerGroups.ts`, `MessageQueueEngine.ts` | ready heap, delay heap, in-flight leases, dead letters, group offsets | enqueue, dequeue, ack, nack, requeueExpired, requeueDeadLetter, fetchForGroup, commit, seekTo | late acks and nacks against expiry, the last attempt, groups over a destructive queue | a running lease is exclusive, the attempts budget holds, every message is settled |
| Queue heaps `PriorityHeap.ts`, `DelayScheduler.ts` | an array | push, pop, remove; schedule, collectDue, cancel | the array moves | nothing lost, pop order |
| Inbox `inbox/pattern` | records with lease and retry time, the next sequence number | receive, processNext, processRecord, reap, redrive, cleanup | a lease that expires under its handler, gaps, operators | in order, one handler per lease, every turn taken |
| Circuit breaker `circuit-breaker/engine` | a breaker per endpoint, the fleet's probe slots and their queue | execute, outcomes, force, restore, openAll | calls in flight over state changes, probes refused late | exact probe accounting, a healthy endpoint is reached again |
| Bulkhead `circuit-breaker/engine/BulkheadSemaphore.ts` | tickets in use, waiters with deadlines | acquire, release, pump | expired waiters that nobody removes, tickets released twice | slots are never lost or doubled, given in turn and in time |
| Idempotency `retry/engine/IdempotencyRegistry.ts` | a record per key with the promise joiners await | begin, complete, fail, sweep | a sweep during an operation, late completions | one execution at a time, own results, joiners answered |
| Saga `saga/engine` | state, completed steps, log | start, run, compensate, replay | time-outs, failing compensations, overlapping runs | all or nothing, undone in reverse, the log replays |
| Cache `cache/engine/SingleFlightCache.ts` | a record, the loads in flight | get, refresh, invalidate | invalidations and failures during a load | readers never go back, an invalidation holds |
| Cache coherence `cache/engine/DistributedCoherence.ts` | a stamped copy and a floor per node | put, delete, get, messages, anti-entropy, join, leave | reordered and lost broadcasts | copies only advance, nodes converge |
| Connection pool `network/engine/ConnectionPool.ts` | idle stack, lent set, creations pending, waiters | acquire, release, sweep, start, close | every call awaits the factory in the middle | a connection has one user, the counts are exact, acquires are answered |
| Write queue `transport/engine` | ring of chunks, watermarks, an adapter | enqueue, drain, shutdown, abort | refusals, drain signals, time-outs | chunks go out in order, a shutdown ends |
| Distributed rate limiter `throttling/distributed` | keys in a store with expiry | check, reset | several commands per check, expiry between them | nobody exceeds a limit, nobody is refused unfairly |
| Unit of work `unit-of-work/implementations` | rows with versions, plans and undo journals | load, commit, roll back | writes of two commits interleaved, failure in the middle | committed changes survive, failed ones vanish |
| Job scheduler `scheduling/scheduler` | a queue of due times, jobs, missed slots | tick, trigger, enable, unregister | overlapping ticks, blocked and missed slots | a job has one place, a slot runs once |
| Exactly-once sink `stream-processing/engine/ExactlyOnceSink.ts` | buffer, pending transaction, source cursor | process, prepareCommit, commit, abort, recover | lost answers, aborts, crashes | acknowledged means delivered, delivered once |
| Read model replication `cqrs/engine` | a journal ring, a cursor per replica, pinned positions | apply, pullSince, applyBatch, rebuild, pinWrite, route | delayed, repeated and reordered batches, an overrun ring | a replica is a prefix, a session reads its own writes |
| Advanced queue, outbox archive, dead letter, message bus, event sourcing, workflow engines, WebSocket server | | | | not modelled, see below |

`PROJECT.json` lists every component, with the reason for those left out, and
under `hazards` the places where an untested order of events bites.

The engines interact little. The relay reads and writes the outbox table, the
partitioned relay calls the election and the verifier, the broker calls its
heaps and offsets, a breaker asks the probe scheduler, a router reads the
replicas' checkpoints, the transport drives queue and adapter: these are
composed in one module each. Otherwise a component shares nothing with its
neighbours. Dispatchers, downstreams, handlers, loaders, factories, sinks and
stores that a caller supplies are modelled from how the code uses them and
marked external.

## The modules

Common to all: an action is what runs between two awaits, or one command for a
store; a call at an await is a `stage` or `at` of its caller, and keeps there
what it read before. Deadlines are countdowns that `...Tick` actions run down.
*History* variables record what happened for the properties and are read by no
action. **Lists** has the operators on sequences (what is left without some elements, the
sum of the first few) whose properties the proofs need by induction: they are
recursive functions.

### Outbox

**OutboxStore** is the table. It is a value `db`, and each method of the class
is an operator from table to table (`Enqueued`, `Claimed`, `MarkSent`,
`MarkFailed`, `ReleaseClaim`, `Requeue`, `Cleanups`, ...), because a relay runs
several of them in one uninterrupted stretch. The last section makes a
specification, `TableSpec`, of the table alone, called by workers that report on
records they may not hold. A record is named by aggregate and sequence number.
`lease[id]` is what is left of `claimExpiresAt`. `claimBatch` first
releases expired claims, then claims heads of line; both are in `ClaimBatch` (and
in the relay's `StartPoll`). Eviction at `maxRecords` is part of every enqueue
and cleanup.

**OutboxRelay** extends it with relays. `poll()` runs from its start to the first
`await dispatcher(record)`, and from each answer to the next await: `StartPoll`,
`ResumeOk`, `ResumeFailed`. `Proceed` is the loop between, which skips records
whose key is in the dedup window. `Accept`, `Refuse` and `LoseReply` are the
external dispatcher: it delivers, fails, or delivers and then fails. `Slots` is the
number of polls one relay may have in flight: the caller of `poll()` can await it
(one), `start()` does not (more). `Crash` loses a relay's memory; the table
stays, as the source says it would be a database table.

**OrderedDelivery** is the abstract specification: messages are published,
delivered in the order of their aggregate, suppressed if a message with the same
key was delivered, or given up. OutboxRelay implements it with
`published` = records ever enqueued, `delivered` = records the downstream received,
`dropped` = records deleted while FAILED.

### Partitioned relay

**LeaderElection** is the lease with a fencing token; `grants` keeps every grant
ever made, since its holder may present it at any time. **PartitionedRelay** puts
a `RelayLoop` for every worker and partition over it. The lease is looked at in
`StartPoll` (through `Lead`) and nowhere else, as in the code. `Eligible` is the
list of candidates with its gap rule, `Refused` is `claim()` answering false for
records taken since. The end of `Proceed` computes the order report with both
verifiers. `RelayStore` is an interface whose only implementation is the tests'
`MemStore`, so the store is external: pending, processing, sent. The clock is
bounded, which only stops leases from lapsing at the end.

### Broker queue and heaps

**BrokerQueue** has one action per method. A message's `place` says which of the
collections holds it; `timer` is the time to its due date or to the end of its
lease. `held` and `acker` are history: the time each lease holder believes it has, and
who completed a message. `Ack` and `Nack` may be called with any lease ever
issued, any number of times, which covers `work` (whose asynchronous handlers are not
awaited) and `workAsync`. Priorities are left out here: the heaps do not pop in
the promised order (below), so `Dequeue` takes any ready message, and
`Promotions` may leave due messages in the delay heap unless all of it is due.

**BinaryHeap** is the array code of `PriorityHeap` and `DelayScheduler` move for
move: `Rise` and `Sink` are one turn of the loops of `siftUp` and `siftDown`, which are
recursive functions of the number of turns. **PriorityHeap** is the class under
any sequence of pushes, pops and removals.

### Inbox

**Inbox** is one consumer of `InboxEngine` in ordered mode. `ReceiveMessage` is the
arrival of a message in any order, `ProcessNext` reaps, defers, picks and starts
a handler, `Answered` is its outcome, however late; `ProcessRecord`, `Redrive` and
`InboxCleanup` are an operator's. `expected` is `_nextSeq`. `HandlerCrashes`: a handler that never
answers. `inTime`, `forced`, `processed`, `jumped` are history.

### Circuit breaker

**CircuitBreaker** has several endpoints and one `ProbeScheduler`, over which
`queued` probes wait. `Admit` is a call that asks the breaker itself, `Schedule` one that
asks for a probe slot first; `PumpAll` is `pump`, which runs in the same step in which a
slot is freed and asks each waiting call's breaker again. `ForceState` is the
operator's, and `Restart` restores a snapshot. A backend in `sick` may fail.

**Bulkhead** is `BulkheadSemaphore`: `waiting` is its queue with the time left to each
deadline, `HandOut` is `pump`, with which every release ends. A tenant may release a
ticket again at any time after, and `waiting` keeps the expired until the next pump.

### Cache

**SingleFlightCache** is one key: `record` with its fresh and dead times, `load`
slots, and `flight`, the load new readers join. A value is the version of the
source it was read from, read at one moment of the load (external). Stale hits
start background loads. **Coherence** is one key on several nodes: a write has a
stamp of clock, sequence number and origin, and a copy with its `floor` is valid,
stale or absent. The fabric delivers, delays, reorders and loses; `eager` and
`repairs` are the two configurations a fabric can have.

### Retry and idempotency

**Idempotency** is one key. An execution is named by a number, which is its result;
`complete` and `fail` find the record by its key, whatever it has become by then,
and joiners hold the promise of the record they joined.

### Saga

**Saga** is one instance. `runs` are the calls of `run()`, each at the await of an
action, a backoff or a compensation; two calls drive one instance. `log` has the
entries `replay()` folds.

### Network and transport

**ConnectionPool** has a stage for every await of acquire, release, sweep, start and
close. `waiters` is the queue, `orphans` are creations for waiters that timed out,
`sweeping` is the sweeper or the warm-up. **WriteQueue** is queue, adapter and the
shutdown of `TransportEngine`; a shutdown's promise is resolved in one step and the
code behind the await runs in a later one.

### Throttling, unit of work, scheduling

**RateLimiter** runs one of three algorithms command by command. **UnitOfWork** writes
a plan row by row (check and write in one step, an await, the next row), and on a
failure undoes its journal. A row stands for the set of units whose changes it holds.
**JobScheduler** has any number of `tick()`s in flight, each with the batch it popped and
the missed slots it still backfills; a run of a job is one await.

### Stream processing and read models

**ExactlyOnceSink**: `commit` reads the pending transaction again after its write. A
crash keeps what the header of the code says a durable store keeps.
**ReadModelReplication**: batches are pulled, and applied at once or later, twice,
never, or to the successor of the replica they were pulled for. The router's
rule is in `Qualifies`, the pin of a session in `floor`.

### Composition

**Components** puts the modules that share no state side by side. A behaviour drives
one of them, `part`, chosen at the start, through all its actions; the others stay as
they start. So the reachable states are the sum and not the product of the parts',
and an invariant of the whole is an invariant of each part. One run answers the same
question, "is every component safe (or live) under all its callers?", for all.
The bigger conjunctions it checks are named: `ComponentsInv`, `ComponentsSteps`,
`CallersAnswered`, and in the modules `DeliverySafe` (broker), `CallsDeduplicated`,
`ProbesExact`, `PoolSafe`, `ExactlyOnce`, `CommitsAtomic`, `SlotsRunOnce`; each
conjunct has a comment of its own where it is defined.

### Abstractions

- `createdAt`, `sentAt` and the retention time: claims, purges and evictions of
  equal rank happen in any order. This only adds behaviours.
- `enqueueAll` is consecutive `enqueue`s with nothing in between; the models allow
  more interleavings.
- `stop()` is a relay that does not poll; nothing forces polls in the safety runs.
- `enqueuedAt` grows with the sequence number inside an aggregate.
- `shardOf` is any fixed function from aggregates to partitions.
- One key, stream, instance or identifier where keys share nothing.
- Payloads, headers, error texts, statistics and metrics are left out.

### Assumptions on callers

The code relies on its callers in ways it neither checks nor, mostly, says. Each is a
constant, so that TLC can show what it costs to drop it; the properties that name the
constant themselves are about callers who keep to it.

| constant | means | what holds only with it |
|---|---|---|
| `Slots` of one element | polls of a relay do not overlap | `OneDispatcherPerLease` |
| `InLease` | a handler answers within its lease (Inbox) | `OneHandler`; `HandledInOrder` does not need it |
| `InWindow` | an operation ends before its record expires (Idempotency) | `ResultsAreOwn`: a late completion lands on another caller's record |
| `OneWritePerTick` | no two writes in one millisecond (Coherence) | `Converges`: `set` stores its stamp without looking, also one that loses against what the node had by the name of the origin, and the others refuse it |
| `SweepAlone` | no client is served while `sweep()` awaits a destroy | `LentSafely`, in four steps: a connection lent and kept idle |
| `OneCheckpoint` | one prepare, one commit at a time (sink) | `DeliveredOnce`: preparing over a pending transaction loses its records |
| `OneEntryPerEvent` | a projection journals one entry per event | `ReadsOwnWrites`: a replica has the first entry of the event only |
| `ForcedStates` without HALF_OPEN | operators force breakers open or closed | `NoPhantomProbe`: a probe that ends while the breaker is CLOSED is not taken off the count, and HALF_OPEN by force finds it there |
| `Racing` | the limiter algorithms whose checks overlap: only the fixed window | `WithinLimit` for log and bucket (below) |
| `DirtyReads`, `Kinds` | units load before others commit; no removals | `CommitsAtomic`: a failed unit's change is read and written back; the check passes on a deleted row |
| `RemoveRunning` | a job is not unregistered while it runs | `OnePlace`: the tick throws and its other due jobs are lost |

## The runs

The bounds are the constants named *bound* in the modules, and the sizes of the
constant sets.

| run | bounds | what it shows |
|---|---|---|
| `outbox_relay` | 2 aggregates x 2 records, 2 relays with one poll each, lease 1, cap 1, dedup window 1, keys shared between aggregates | Relays that outlive their leases, lost replies, batches of two, evictions at every enqueue, requeues of failed records: first deliveries in order (refinement of OrderedDelivery), sent means delivered, one dispatcher per lease. |
| `outbox_liveness` | 1 aggregate x 2 records, 2 relays, 2 attempts, 1 crash | Every message is settled although a relay dies with a claim. |
| `partitioned_relay` | 1 partition, 2 workers, 1 aggregate x 3 records, 2 ticks, 1 crash, 1 step-down | A deposed leader beside its successor: claims, fencing, order inside a poll, sent for good. |
| `partitioned_liveness` | 2 partitions, 2 workers, 1 aggregate x 2 records, 1 tick | Every record is sent; the other partition's loops do not touch it. |
| `components` | below; 1.1 million states | The safety of the seventeen parts, the outbox table under calls in any order among them. |
| `components_live` | below; 16 thousand states | Messages settle, turns are taken, callers are answered, breakers recover, sagas end, records arrive, replicas catch up, shutdowns end; `DeliverySafe` with revivals and `OneHandler` with crashes, which need other constants than `components`. |

| part | bounds in `components` |
|---|---|
| table | 2 aggregates x 2 records, 2 workers, 2 attempts, cap 2 |
| broker | 3 messages, watermark 2, 2 deliveries, visibility 2, a group that fetches 2 (`components_live`: 2 messages, 1 revival) |
| heap | 6 messages, 2 priorities |
| inbox | 3 messages, 2 workers, gap tolerance 0 or 1, 2 tries, 1 intervention |
| idempotency | 3 callers, 2 payloads, 3 executions, window 0 or 2 |
| cache | 3 readers, 3 versions (one without the key), 2 loads at once, 2 waiters, time to live 0 or 1 |
| coherence | 3 nodes, 2 writes each, 3 messages in flight, 1 lost, 1 removal |
| breaker | 2 endpoints, 3 calls, 1 probe slot, 2 queued, both thresholds 2, 1 override or restart |
| pool | 3 clients, 1 connection allowed (3 exist over time), timers, with and without validation and warm-up |
| saga | 3 steps, 1 retry, 2 runs |
| sink | 3 records, 2 calls of commit, 3 failures |
| replication | 2 replicas, 2 projections, 3 entries, a ring of 2, batches of 2, 1 in flight, 1 rebuild |
| writes | 5 chunks of 1 or 2 bytes, watermarks 3 and 2, ceiling 4 |
| limiter | 2 checkers, 4 checks in 4 ticks, limit 2, window 2, bucket 3 |
| units | 3 units, 2 rows, 1 failing write |
| bulkhead | 4 tenants, 2 slots, 2 places in the queue, deadline 2 (`components_live`: 1 slot, deadline 1) |
| scheduler | 2 cron jobs and a one-shot that depends on one, 2 ticks and a trigger that overlap, concurrency 1, 4 time units |

Why the bounds are enough: a claim must expire and pass to a second worker that
finishes before the first one answers (two relays, one lease, two ticks); order
needs two records of an aggregate, and three for "the one after the failed one";
the dedup window must overflow (window 1, two keys), the cap must evict, the ring
must overrun, the watermark be reached, an attempt be the last one and be given back by
an operator; a third client or reader is needed where one holds, one waits and one
comes in between; the broken sift-down of the heap needs five entries left after a
pop. Every property fails for a plausible slip in the code it is about (`mutants` in
`PROJECT.json`: a dropped comparison, an off-by-one, a missing reset), so each bound lets
the case happen. What the passing runs check of safety is proved for all bounds besides.

`CHECK_DEADLOCK` is off where the system may stop: a bounded clock at its end, or a part
with nothing left to do. Six more runs must find a violation: see below.

**Fairness.** Safety runs use none. The liveness runs assume what the event loop,
timers and `setInterval` give, and of the outside world only what is listed.

| specification | assumes | owes nothing |
|---|---|---|
| `TimelySpec` (outbox) | relays poll, a dispatch is answered, a poll resumes, time passes, a relay that has not crashed finishes within its lease (or two slow ones take a record from each other for ever) | the dispatcher may fail always: attempts run out |
| `FairSpec` of PartitionedRelay | polls, answers; strong fairness of delivery, since this relay retries for ever | |
| `BrokerFairness` | pulls, time, and somebody calls `requeueExpired` again and again: the code never does it itself, and `MessagesSettle` fails without it | consumers may never ack or nack |
| `InboxFairness` | workers poll, handlers that do not crash answer, time passes | handlers may fail always |
| `IdemFairness`, `CacheFairness` | operations and loads end, well or not | success |
| `BreakerFairness` | callers keep calling an endpoint that is well, calls return, time passes | sick endpoints |
| `BulkheadFairness` | what runs under a ticket ends | anybody to call `pump` |
| `PoolFairness` | the factory answers, timers fire, and a validation that is tried again and again succeeds at last (strong) | clients may keep a connection for ever |
| `SagaFairness` | actions and compensations end, by their time-out | success |
| `SinkFairness` | barriers come, somebody commits or recovers | faults are bounded |
| `ReplicationFairness` | `syncOnce` is called again and again | batches pulled otherwise |
| `WriteFairness` | the shutdown's timer and a resolved promise's reaction | the sink may never drain |

## The proofs

All are checked by TLAPS for every value of the constants that the named
assumptions allow (finite sets where something is counted or listed, positive leases
and attempts, backoffs that are natural numbers). Each theorem has the form *the
component's specification implies always the property*, unless a hypothesis is
listed below, and rests on an inductive invariant that is a conjunction of named parts.

| module | theorems |
|---|---|
| OutboxProofs | `TableInvariant`, `SettledStaysSettled`, `RelayInvariant`, `NoMessageLost`, `Refinement`, `DeliveryInOrder`, `DownstreamInOrder`, `ExclusiveDispatch` |
| PartitionedRelayProofs | `ElectionInvariant`, `Fencing`, `PartitionedInvariant`, `ClaimsStayExclusive`, `SentStaysSent`, `OneLeaderPasses`, `SendsInOrder` |
| MessagingProofs | `DeliveryIsSafe`, `CommitsAreFinal` (broker), `HeapKeepsEntries`, `PushesKeepOrder` (heap), `SentInOrder`, `AccountsForChunks` (write queue), `HandlesInOrder`, `KeepsOneHandler` (inbox), `DeliversExactlyOnce` (sink) |
| ConsistencyProofs | `ReplicasArePrefixes`, `RoutesToOwnWrites` (replication), `NodesConverge`, `NoCopyGoesBack` (coherence), `HoldsInvalidations`, `ReadersAdvance` (cache), `SagaIsAtomic`, `UndoesBackwards` (saga), `CommitsAreAtomic` (units of work) |
| CallProofs | `RationsProbes` (breaker), `DeduplicatesCalls` (idempotency), `RunsEachSlotOnce` (job scheduler) |
| LimitProofs | `LendsSafely` (pool), `KeepsWithinLimit`, `RefusesFairly` (rate limiter), `KeepsSlotsExact`, `GivesSlotsInTurn` (bulkhead) |
| ComponentsProofs | `PartsKeepAccount`, `PartsStepWell`, `PartsAreSafe` (the composition) |
| DataLemmas | no theorems: lemmas about naturals, sequences, counting and sums |

A module holds several components where these share no state. Its sections are
independent of each other.

### The arguments

*Outbox.* `TableOK` is inductive as it stands; one lemma per method says what the
method does to a table that is OK, so that the relay's proof can cite them.
`RelayInv` adds that every remembered key was delivered, that the head of a
batch whose dispatch succeeded has arrived, and that every record in a batch has
had its turn (`Ready`). The last is what survives an expired lease: the record
may no longer be the poll's, but its predecessors stay settled. It holds for
overlapping polls too. From it come `NoMessageLost` and `Refinement`
(`Spec => DeliversInOrder`), step by step: each action maps to a step of
OrderedDelivery or to a stutter. With `DeliveryInOrder`, about the abstract
outbox alone, this gives `DownstreamInOrder`. `ExclusiveDispatch` needs a second
invariant, `HeldWhileLeased`: a poll holds the claim of all that is left of its
batch while its lease runs.

*Partitioned relay.* A busy loop's head is processing, only its own loop can move
it on, and `claim()` refuses it to others: so claims are exclusive although two
loops may both believe they lead. `SendsInOrder` is about every pair of records
that were dispatched in one poll, over changes of leader.

*Broker.* `SafeInv` speaks of one message at a time: a lease whose holder still
has time is the latest, and its message is in flight with the same time left. A step
changes few messages; `Kept` and `Promoted` dispose of the others. That
leases never run out of numbers is arithmetic (`LeasesSuffice`): every revival
brings its own budget. `CommitsAreFinal`: a group fetches from its position, and no
operation leaves the position below the committed offset.

*Heap.* A turn of either loop swaps two entries, or copies one into a hole that the end fills
with the sinking entry: so a sift permutes the array, whatever its order (`HeapKeepsEntries` has to
hold of heaps that the faulty `siftDown` has disordered). `PushesKeepOrder` speaks of a heap
in order but for the entry that rises, with everything below that entry also below its
parent; a turn keeps this, and a turn that stops has restored the order.

*Write queue.* The ring goes on where the sent chunks end, and as long as the queue
accepts, the two are all that was accepted (`NoGap`). A gap may open after an abort
or behind a closed adapter, but nothing is accepted after it. For `AccountsForChunks` the
numbers of the chunks fall into three stretches, sent, in the ring and failed; the ring is a
stretch, so its bytes are a difference of two sums over the sizes, and a flush that takes the
first *n* chunks takes the difference of two such sums.

*Inbox.* `HandledInOrder` speaks of the handlers that run. It is kept because what
lies behind `expected` stays settled, which has to be said of all messages.
`OneHandler` is kept because a lease that runs belongs to a message in PROCESSING.

*Sink.* What is acknowledged, the pending transaction and the buffer are consecutive
stretches of the records, and the only commit at its write writes the pending one.

*Copies.* `ReplicaIsPrefix` is not inductive: a step copies what the journal and the
batches in flight hold, so these must agree with the primary and have no hole. For
`ReadsOwnWrites`, each checkpoint is reached by an entry of the replica. The
coherent cache converges because, as long as nothing was lost, some node serves
the newest stamp and each other node serves it too or has a message of it to come. In the
single-flight cache one load runs at a time, the one in the map, and what it has read is at
least as new as what anybody was given.

*Calls.* The breaker's pump asks breaker after breaker in a recursion, so what it keeps
is stated for its intermediate states: every waiter stands in the queue once, the slots
counted are those of the calls that probe. Executions of an idempotent call are
numbered in their order, and whoever joins has joined what the record says.

*Job scheduler.* A tick changes jobs and queue entry after entry before it awaits, so
the invariant (`Scheduled`) is stated of jobs, queue, ticks and slots as such and is
kept from one turn of the loop to the next; `RunBatch` is then the turns up to the first
launch. A job is in the queue once or in one tick's hands. An entry's time lies after
every slot of its job that was run or is blocked, and what a tick still has to run was not
run yet: so no slot runs twice. Of a run-all job that nobody delays, the slots that
were run and those in a tick's hands are all there are up to the tick's time.

*Pool.* `PoolSafe` compares the places a connection may be in, so the invariant says of
each where its connections come from. `WithinMaxSize` needs the count of pending
creations, and that count needs the queue of waiters.

*Limiter.* No algorithm keeps what was admitted, so each needs a link to its
store: the fixed window's counter is never below the admissions of its window; the log
has an entry of its own for each admission that still counts, and distinct admissions have
distinct entries; what was spent since any admission, with what the bucket holds, never
exceeds what it held and got. And a key expires only when what it counts no longer matters.

`RefusesFairly` needs the converse (`FairInv`): a counter counts nothing but the admissions of its
window, unless these reach the limit anyway; each entry of the log is an admission's own, and when
the entries are counted none has lapsed; and a bucket is full or lacks no more than what was spent
since some admission. A refusal then names the stretch of admissions that, with the refused one, breaks the limit.

*Bulkhead.* Everything that frees a slot ends in the pump, which is treated once, for any
number of slots in use: of the waiters in time the first are served.

*Transactions.* Of a saga that runs once, the invariant tells the course: what is done,
what is still to be undone, where the run stands between them. For units of work, a
version is the number of a row's writers, so a row with the version that was loaded is the
row that was loaded; undoing therefore removes the unit's own change and nothing else.

*Composition.* The parts share no variable. `PartsStep` says that a step of `Components` is a
step of each part or leaves it as it is, so every part's inductive invariant is one of the
system. On this rest `PartsKeepAccount` (`ComponentsInv`), `PartsStepWell` (`ComponentsSteps`) and
`PartsAreSafe`, the conjunction of what the run `components` checks of the parts besides the table, and of
`DeliverySafe` and `OneHandler`.

*Data.* The library's induction theorems take an operator and no prover here can
instantiate one. DataLemmas therefore states induction for *sets* of naturals and for
recursive functions on `0 .. n` (`Induction`, `Recursion`): with finite sets of numbers,
counted with the theorems of FiniteSetTheorems, this needs no operator parameter. On
it rest the properties of `Without`, `Sorted`, `SumUpTo` and the sums of the log.

### What the theorems assume

| theorem | hypothesis | in the code |
|---|---|---|
| `ExclusiveDispatch` | `OnePollEach`: one slot per relay | `start()` polls on a timer and awaits nothing: with two slots TLC breaks `OneDispatcherPerLease` |
| `RationsProbes` | `ForcedStates \subseteq {"OPEN", "CLOSED"}` | the table of assumptions above |
| `DeduplicatesCalls` | `InWindow` | the table of assumptions above |
| `NodesConverge` | `OneWritePerTick` | the same |
| `DeliversExactlyOnce` | `OneCheckpoint` | the same |
| `LendsSafely` | `SweepAlone` | the same |
| `KeepsWithinLimit` | `Racing \subseteq {"fixed"}` | the same; `rate_limit_race` is the counterexample without it |
| `CommitsAreAtomic` | `~DirtyReads`, no removals in `Kinds` | the same |
| `RefusesFairly` | `Racing \subseteq {"fixed"}` | the same; TLC breaks it with overlapping checks of the log: a check may add its entry after another one has trimmed, when its time has lapsed already |
| `RunsEachSlotOnce` | `~RemoveRunning` | the same |
| `PartsKeepAccount`, `PartsStepWell`, `PartsAreSafe` | those of the parts they are about | `Components.cfg` satisfies them all |

`ReadsOwnWrites` and `OneHandler` name `OneEntryPerEvent` and `InLease` in the property itself.

### Only model-checked

- Every liveness property: fairness and `ENABLED` are out of the prover's reach.
- `RootIsBest`, `EarlierSentFirst` and what else the last section lists: they are false.
- The table's two properties are proved of `TableSpec` (`TableInvariant`, `SettledStaysSettled`), which is what
  `Components` does to the table by construction; the other parts' are proved of both.
- That a component keeps its liveness beside the others: `FairSpec` gives each part its own fairness.

## Where the code and its comments disagree

Each of these runs has one property, the comment's claim, and TLC finds it violated.

| run | comment | what happens |
|---|---|---|
| `partitioned_order` | `outbox/engine2/RelayLoop.ts:13` "a record is eligible only when every earlier seq of its aggregate is already `sent`" | The run of eligible records starts at the first *pending* one, and a failure does not stop the aggregate. |
| `priority_heap_order` | `message-queue/engine/PriorityHeap.ts:5` "higher priority pops first; equal priorities pop in enqueue order" | A bug: `siftDown` (`:127`) compares the children with the slot it has left stale instead of the sinking entry. Eight equal-priority messages pop as 0,1,2,5,4,3,6,7. `DelayScheduler` has the same code, so due messages can stay behind. |
| `pool_lost_waiter` | `network/engine/ConnectionPool.ts:453` "still full — next release will try again" | A bug: the waiter was taken off the queue before the pool was found full, and no release finds it again. It waits for its timer, or for ever. |
| `rate_limit_race` | `throttling/distributed/DistributedRateLimiter.ts:7` "one `EVAL` performs read-modify-write atomically, so N application nodes share one counter without races" | The code issues separate commands with awaits between. The fixed window's single increment is safe; two checks of the log count the same entries and both add. |
| `queue_resumes` | `transport/engine/BackpressureWriteQueue.ts:80` "The adapter's drain signal IS the resume event" | A bug: the adapter forgets a drain callback when it has fired, and the queue registers its own once. After the second refusal the queue stays paused. |
| `shutdown_drains` | `transport/engine/TransportEngine.ts:247` "Graceful shutdown: stop accepting writes, drain the queue, then end the adapter" | The wait is over as soon as the queue is under its low watermark; the chunks still queued are neither written nor rejected. |

More, seen with TLC on these modules or in the code while modelling it, and not kept as runs:

- *Outbox.* `TransactionalOutbox.ts:8` "concurrent relays can't double-claim": polls of
  one `start()` overlap and share a worker id, so a late `markFailed` of the first frees
  the claim of the second, and the dedup window can forget a key it lists. Evicting a FAILED record lets its successor overtake it.
- *Partitioned relay.* The verifier is handed pending records only and expects every aggregate to
  begin at 0: false alarms (`ViolationMeansDisorder`). A crash leaves the claimed
  record unsent, because nothing takes the claim back. Two relays are active between a
  `check()` and the end of a poll.
- *Broker.* `fetchForGroup` takes messages from the one heap, so a group's position passes
  messages it was never given (`GroupSkipsNothing`). Nack and requeue push the depth past the watermark.
- *Inbox.* A record forced through `processRecord` can leave its successor DEFERRED behind
  processed ones (`PromotedAfterPredecessor`, `InboxEngine.ts:18`). A late failure frees another worker's
  lease; a late success after the last reap finds the record PARKED; attempts grow
  without bound through reaping; a gap is tolerated only when something completes.
- *Breaker.* More than `successThreshold` probes may run; outcomes of calls admitted while
  CLOSED count as probes; a forced or restored HALF_OPEN with no traffic stays, and one forced on a breaker that
  counts `successThreshold` probes which ended while it was closed refuses everybody; forcing CLOSED keeps the failures.
  A bulkhead's waiter outlives `maxWaitMs` (`BulkheadSemaphore.ts:43`) until somebody releases or pumps, and holds its place.
- *Cache.* An invalidation during a load is followed by the old value (`SingleFlightCache.ts:189`); a
  failed background refresh hands out undefined (`:252`); a time to live of zero stores
  what is already expired (`:275`). Coherence compares with the version and not the floor, and
  a deleted key comes back from a stale copy.
- *Saga.* A second `run()` executes steps twice and compensates twice; the late effect of
  a timed-out action is not compensated, and its step is logged twice; a failing compensation
  leaves the earlier steps as they are.
- *Pool.* With validation the pool exceeds `maxSize`; a timer that races a replacement leaks
  the connection; a warm-up pushes idle connections past waiters, and after close leaks them; `pending` falls
  twice after close; an acquire may overtake waiters.
- *Replication.* A replica rebuilt after the ring dropped entry 0 never syncs again; restarting the journal
  resets its numbers; bounded staleness in milliseconds accepts a replica far behind.
- *Others.* The log's key can expire between its `zadd` and `pexpire`; a reset during a bucket check is
  undone by it. `rollback()` after `commit()` overwrites others. One-shot jobs blocked by a manual
  trigger never run; slots blocked under run-all are lost when time has moved on (`JobScheduler.ts:208`); a deferral replaces a slot. An
  abort while the sink's `commit` awaits its write delivers what was aborted. A write queue's `waitForDrain` resolves without a drain.

## Not modelled

- *Advanced queue* (`message-queue/engine/advanced`): expiry, quotas, FIFO sequencer,
  transactions. Each is a synchronous step beside a broker call; the quota leak at
  `AdvancedQueueEngine.ts:172` is on the list of hazards without a property.
- *Outbox archive* (`Backfill`, `Cleanup`, `ShardRebalancer`, ...): each works through a store
  once, and nothing in the source runs it beside a relay.
- Within modelled components: the breaker's failure window, canaries and tuning;
  hedging and retry budgets; the saga orchestrators beside `engine`; cache levels,
  warming and rings; local rate limiters, which decide in one step; stream
  multiplexing; windows, joins and watermarks, which are sequential over their input;
  the `rollback()` of a unit, nested units and the deadlock detector.
- Dead letters, message bus and event sourcing repeat, over structures of their own, questions
  asked here of the broker, the groups and replication; their appends are synchronous.
- Interpreters (workflow, BPMN, rules), codecs, parsers, query languages and
  statistics are functions of their input. Security, deployment, analytics, platform and testing
  layers are sequential over tables in memory. The generated boilerplate is one template.

## The plan

In order; each with the properties named, and a run or a theorem.

1. *AdvancedQueue* over BrokerQueue: quota and expiry bookkeeping agree with the broker.
2. *OutboxArchive*: Backfill and Cleanup composed with PartitionedRelay.
3. The event log's shards and snapshots.
