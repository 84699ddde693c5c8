------------------------------ MODULE Components ------------------------------
(***************************************************************************)
(* The components that share no state, side by side: a behaviour drives    *)
(* one of them, its part, through all its operations, and leaves the       *)
(* others as they start.  What holds of this system holds of each part by  *)
(* itself, and the other way round.                                        *)
(***************************************************************************)
EXTENDS OutboxStore, BrokerQueue, PriorityHeap, Inbox, Idempotency, SingleFlightCache, Coherence,
        CircuitBreaker, ConnectionPool, Saga, ExactlyOnceSink, ReadModelReplication, WriteQueue,
        RateLimiter, UnitOfWork, JobScheduler, Bulkhead

CONSTANT Parts

VARIABLE part

ASSUME PartsAssumption ==
  Parts \subseteq {"table", "broker", "heap", "inbox", "idempotency", "cache", "coherence",
                   "breaker", "pool", "saga", "sink", "replication", "writes", "limiter",
                   "units", "scheduler", "bulkhead"}

\* The choices of configuration and callers are the driven part's only.
Init == /\ part \in Parts
        /\ TableInit /\ BrokerInit /\ HeapInit /\ SinkInit /\ ReplicationInit
        /\ InboxInit
        /\ part # "inbox" => \A n \in Gaps : gap <= n
        /\ IdemInit
        /\ part # "idempotency" => /\ \A n \in Windows : window <= n
                                   /\ payload = CHOOSE p \in [Callers -> Payloads] : TRUE
        /\ CacheInit
        /\ part # "cache" => \A n \in ValueTtls : ttl <= n
        /\ CoherenceInit
        /\ part # "coherence" => fabric.eager /\ fabric.repairs
        /\ BreakerInit
        /\ part # "breaker" => target = [c \in Calls |-> CHOOSE e \in Endpoints : TRUE]
        /\ PoolInit
        /\ part # "pool" => options.validates /\ \A n \in MinIdles : options.minIdle <= n
        /\ SagaInit
        /\ part # "saga" => saga.steps = 0 /\ saga.retries = 0
        /\ WriteInit /\ UnitInit /\ BulkheadInit
        /\ LimiterInit
        /\ part # "limiter" => algorithm = CHOOSE a \in Algorithms : TRUE
        /\ SchedulerInit
        /\ part # "scheduler" => queue = CHOOSE q \in FirstQueues : TRUE

Next == /\ part' = part
        /\ IF part = "table" THEN TableNext ELSE UNCHANGED db
        /\ IF part = "broker" THEN BrokerNext ELSE UNCHANGED brokerVars
        /\ IF part = "heap" THEN HeapNext ELSE UNCHANGED heapVars
        /\ IF part = "inbox" THEN InboxNext ELSE UNCHANGED inboxVars
        /\ IF part = "idempotency" THEN IdemNext ELSE UNCHANGED idemVars
        /\ IF part = "cache" THEN CacheNext ELSE UNCHANGED cacheVars
        /\ IF part = "coherence" THEN CoherenceNext ELSE UNCHANGED coherenceVars
        /\ IF part = "breaker" THEN BreakerNext ELSE UNCHANGED breakerVars
        /\ IF part = "pool" THEN PoolNext ELSE UNCHANGED poolVars
        /\ IF part = "saga" THEN SagaNext ELSE UNCHANGED sagaVars
        /\ IF part = "sink" THEN SinkNext ELSE UNCHANGED sinkVars
        /\ IF part = "replication" THEN ReplicationNext ELSE UNCHANGED replicationVars
        /\ IF part = "writes" THEN WriteNext ELSE UNCHANGED writeVars
        /\ IF part = "limiter" THEN LimiterNext ELSE UNCHANGED limiterVars
        /\ IF part = "units" THEN UnitNext ELSE UNCHANGED unitVars
        /\ IF part = "scheduler" THEN SchedulerNext ELSE UNCHANGED schedulerVars
        /\ IF part = "bulkhead" THEN BulkheadNext ELSE UNCHANGED bulkheadVars

vars == <<part, db, brokerVars, heapVars, inboxVars, idemVars, cacheVars, coherenceVars,
          breakerVars, poolVars, sagaVars, sinkVars, replicationVars, writeVars, limiterVars,
          unitVars, schedulerVars, bulkheadVars>>

Spec == Init /\ [][Next]_vars

\* Each part under its own fairness.
Fairness == /\ BrokerFairness /\ InboxFairness /\ IdemFairness /\ CacheFairness
            /\ BreakerFairness /\ PoolFairness /\ SagaFairness /\ SinkFairness
            /\ ReplicationFairness /\ WriteFairness /\ BulkheadFairness

FairSpec == Spec /\ Fairness

-----------------------------------------------------------------------------
ComponentsTypeOK == /\ part \in Parts
                    /\ IdemTypeOK /\ CoherenceTypeOK /\ BreakerTypeOK /\ PoolTypeOK
                    /\ SagaTypeOK /\ SinkTypeOK /\ ReplicationTypeOK

\* Each part's account of itself is exact at every moment: the heap has what was
\* pushed, a deferred message has its turn ahead, who awaits a load has one
\* running, queued bytes and chunks add up, the saga's log replays to its
\* state, a job has one place, and a
\* bulkhead's slots are the tenants' who hold a ticket.
ComponentsInv == /\ ComponentsTypeOK
                 /\ EntriesKept /\ InboxInv /\ CacheInv /\ WriteInv
                 /\ ReplayAgrees /\ OnePlace /\ SlotsExact

\* What no step of a part does: fetch what its group has committed, break a heap
\* that is in order by a push, replace a cached write by an older one, undo a
\* step before those built on it, refuse a request for what no longer counts,
\* hand a slot to a waiter out of its turn.
ComponentsSteps == /\ CommittedNotRefetched
                   /\ PushKeepsValid
                   /\ CopiesAdvance
                   /\ UndoneInReverse
                   /\ RefusedFairly
                   /\ SlotsInTurn

\* Whoever waits for another's work is answered, however that work ends:
\* joiners of an execution, readers of a load, clients of the pool, tenants of a bulkhead.
CallersAnswered == JoinersAnswered /\ ReadersAnswered /\ AcquireAnswered /\ TenantsAnswered
=============================================================================
