-------------------------- MODULE ComponentsProofs --------------------------
(***************************************************************************)
(*  The components side by side keep their account of themselves, and      *)
(*  what no step of a part may do is done by no step of the system: what   *)
(*  was proved of each part by itself holds of the system, for any parts   *)
(*  driven and any number of anything in them.                             *)
(*                                                                         *)
(*  The parts share no variable, so a step of the system is a step of      *)
(*  each part or leaves it as it is, and the system implements each of     *)
(*  them.                                                                  *)
(***************************************************************************)
EXTENDS Components, MessagingProofs, ConsistencyProofs, CallProofs, LimitProofs

\* The system starts each part as the part starts, and a step of the system is a step of
\* the part, or leaves it as it is.
LEMMA PartsStart ==
  ASSUME Init
  PROVE  /\ part \in Parts
         /\ BrokerInit /\ HeapInit /\ InboxInit /\ IdemInit /\ CacheInit /\ CoherenceInit /\ BreakerInit /\ PoolInit
         /\ SagaInit /\ SinkInit /\ ReplicationInit /\ WriteInit /\ LimiterInit /\ UnitInit /\ SchedulerInit /\ BulkheadInit
  BY DEF Init

LEMMA PartsStep ==
  ASSUME [Next]_vars
  PROVE  /\ part' = part
         /\ [BrokerNext]_brokerVars
         /\ [HeapNext]_heapVars
         /\ [InboxNext]_inboxVars
         /\ [IdemNext]_idemVars
         /\ [CacheNext]_cacheVars
         /\ [CoherenceNext]_coherenceVars
         /\ [BreakerNext]_breakerVars
         /\ [PoolNext]_poolVars
         /\ [SagaNext]_sagaVars
         /\ [SinkNext]_sinkVars
         /\ [ReplicationNext]_replicationVars
         /\ [WriteNext]_writeVars
         /\ [LimiterNext]_limiterVars
         /\ [UnitNext]_unitVars
         /\ [SchedulerNext]_schedulerVars
         /\ [BulkheadNext]_bulkheadVars
  <1>1. CASE Next
    BY <1>1 DEF Next
  <1>2. CASE UNCHANGED vars
    BY <1>2 DEF vars
  <1> QED BY <1>1, <1>2

\* Hence the inductive invariant of a part is one of the system.
LEMMA InboxStays == Spec => []InboxIInv
  <1>1. Init => InboxIInv
    BY PartsStart, InboxStarts
  <1>2. InboxIInv /\ [Next]_vars => InboxIInv'
    BY PartsStep, InboxInductive
  <1> QED BY <1>1, <1>2, PTL DEF Spec

LEMMA IdemStays == ASSUME InWindow PROVE Spec => []IdemIInv
  <1>1. Init => IdemIInv
    BY PartsStart, IdemStarts
  <1>2. IdemIInv /\ [Next]_vars => IdemIInv'
    BY PartsStep, IdemInductive
  <1> QED BY <1>1, <1>2, PTL DEF Spec

LEMMA CacheStays == Spec => []CacheIInv
  <1>1. Init => CacheIInv
    BY PartsStart, CacheStarts
  <1>2. CacheIInv /\ [Next]_vars => CacheIInv'
    BY PartsStep, CacheInductive
  <1> QED BY <1>1, <1>2, PTL DEF Spec

LEMMA CoherenceStays == ASSUME OneWritePerTick PROVE Spec => []CoherenceIInv
  <1>1. Init => CoherenceIInv
    BY PartsStart, CoherenceStarts
  <1>2. CoherenceIInv /\ [Next]_vars => CoherenceIInv'
    BY PartsStep, CoherenceInductive
  <1> QED BY <1>1, <1>2, PTL DEF Spec

LEMMA BreakerStays == ASSUME ForcedStates \subseteq {"OPEN", "CLOSED"} PROVE Spec => []BreakerIInv
  <1>1. Init => BreakerIInv
    BY PartsStart, BreakerStarts
  <1>2. BreakerIInv /\ [Next]_vars => BreakerIInv'
    BY PartsStep, BreakerInductive
  <1> QED BY <1>1, <1>2, PTL DEF Spec

LEMMA PoolStays == ASSUME SweepAlone PROVE Spec => []PoolIInv
  <1>1. Init => PoolIInv
    BY PartsStart, PoolStarts
  <1>2. PoolIInv /\ [Next]_vars => PoolIInv'
    BY PartsStep, PoolInductive
  <1> QED BY <1>1, <1>2, PTL DEF Spec

LEMMA SagaStays == Spec => []SagaIInv
  <1>1. Init => SagaIInv
    BY PartsStart, SagaStarts
  <1>2. SagaIInv /\ [Next]_vars => SagaIInv'
    BY PartsStep, SagaInductive
  <1> QED BY <1>1, <1>2, PTL DEF Spec

LEMMA SinkStays == ASSUME OneCheckpoint PROVE Spec => []SinkIInv
  <1>1. Init => SinkIInv
    BY PartsStart, SinkStarts
  <1>2. SinkIInv /\ [Next]_vars => SinkIInv'
    BY PartsStep, SinkInductive
  <1> QED BY <1>1, <1>2, PTL DEF Spec

LEMMA RoutesStay == Spec => []RoutingInv
  <1>1. Init => RoutingInv
    BY PartsStart, RoutingStarts
  <1>2. RoutingInv /\ [Next]_vars => RoutingInv'
    BY PartsStep, RoutingIsKept
  <1> QED BY <1>1, <1>2, PTL DEF Spec

LEMMA WritesStay == Spec => []WriteIInv
  <1>1. Init => WriteIInv
    BY PartsStart, WritesStart
  <1>2. WriteIInv /\ [Next]_vars => WriteIInv'
    BY PartsStep, WritesInductive
  <1> QED BY <1>1, <1>2, PTL DEF Spec

LEMMA BulkheadStays == Spec => []BulkheadIInv
  <1>1. Init => BulkheadIInv
    BY PartsStart, BulkheadStarts
  <1>2. BulkheadIInv /\ [Next]_vars => BulkheadIInv'
    BY PartsStep, BulkheadInductive
  <1> QED BY <1>1, <1>2, PTL DEF Spec

LEMMA OffsetsStay ==
  Spec => /\ []OffsetsInv
          /\ CommittedNotRefetched
  <1>1. Init => OffsetsInv
    BY PartsStart, OffsetsStart
  <1>2. OffsetsInv /\ [Next]_vars
          => /\ OffsetsInv'
             /\ [\A g \in Groups : \A m \in received'[g] \ received[g] : m >= committed[g]]_brokerVars
    BY PartsStep, OffsetsInductive
  <1> QED BY <1>1, <1>2, PTL DEF Spec, CommittedNotRefetched

\* And what only steps can change in a part changes in the system as in the part.
LEMMA PartsImplemented ==
  Spec => HeapSpec /\ LimiterSpec /\ UnitSpec /\ SchedulerSpec /\ CoherenceSpec
  BY PartsStart, PartsStep, PTL DEF Spec, HeapSpec, LimiterSpec, UnitSpec, SchedulerSpec, CoherenceSpec

\* What the parts keep, each by itself, the system keeps: every part's account of itself is
\* exact at every moment, under the conditions on forced breakers, windows, ticks, sweeps,
\* checkpoints and removals that the parts need.
THEOREM PartsKeepAccount ==
  ASSUME ForcedStates \subseteq {"OPEN", "CLOSED"},    \* no breaker is forced half-open
         InWindow, OneWritePerTick, SweepAlone, OneCheckpoint,
         ~RemoveRunning
  PROVE  Spec => []ComponentsInv
  <1>1. Spec => [](part \in Parts)
    <2>1. Init => part \in Parts
      BY PartsStart
    <2>2. part \in Parts /\ [Next]_vars => (part \in Parts)'
      BY PartsStep
    <2> QED BY <2>1, <2>2, PTL DEF Spec
  <1>2. Spec => [](EntriesKept /\ OnePlace)
    BY PartsImplemented, HeapKeepsEntries, RunsEachSlotOnce, PTL
  <1>3. Spec => []IdemIInv
    BY IdemStays
  <1>4. Spec => []CoherenceIInv
    BY CoherenceStays
  <1>5. Spec => []BreakerIInv
    BY BreakerStays
  <1>6. Spec => []PoolIInv
    BY PoolStays
  <1>7. Spec => []SinkIInv
    BY SinkStays
  <1>8. /\ InboxIInv => InboxInv
        /\ IdemIInv => IdemTypeOK
        /\ CacheIInv => CacheInv
        /\ CoherenceIInv => CoherenceTypeOK
        /\ PoolIInv => PoolTypeOK
    BY PoolTypes DEF InboxIInv, IdemIInv, CacheIInv, CoherenceIInv, PoolIInv
  <1>9. part \in Parts /\ InboxInv /\ IdemTypeOK /\ CacheInv /\ CoherenceTypeOK /\ BreakerTypeOK /\ PoolTypeOK
           /\ SagaTypeOK /\ ReplayAgrees /\ SinkTypeOK /\ ReplicationTypeOK /\ WriteInv /\ SlotsExact
           /\ EntriesKept /\ OnePlace
         => ComponentsInv
    BY DEF ComponentsInv, ComponentsTypeOK
  <1> QED BY <1>1, <1>2, <1>3, <1>4, <1>5, <1>6, <1>7, <1>8, <1>9, InboxStays, CacheStays, SagaStays, RoutesStay,
             WritesStay, BulkheadStays, BreakerSafe, SagaSafe, SinkSafe, RoutingImplies, WritesSafe, BulkheadSafe, PTL

\* What no step of a part does, no step of the system does.
THEOREM PartsStepWell ==
  ASSUME Racing \subseteq {"fixed"}
  PROVE  Spec => ComponentsSteps
  <1>1. Spec => PushKeepsValid /\ CopiesAdvance /\ RefusedFairly
    BY PartsImplemented, PushesKeepOrder, NoCopyGoesBack, RefusesFairly, PTL
  <1>2. Spec => UndoneInReverse
    <2>1. SagaIInv /\ [Next]_vars
            => [\A s \in 1 .. MaxSteps : Alone /\ undone'[s] > undone[s] =>
                  \A t \in CompletedSet \cap saga.undoable : t > s => undone[t] = 1]_sagaVars
      BY PartsStep, UndoTurn
    <2> QED BY <2>1, SagaStays, PTL DEF Spec, UndoneInReverse
  <1>3. Spec => SlotsInTurn
    <2>1. BulkheadIInv /\ [Next]_vars => [InTurn]_bulkheadVars
      BY PartsStep, TurnsKept
    <2> QED BY <2>1, BulkheadStays, PTL DEF Spec, SlotsInTurn, InTurn
  <1> QED BY <1>1, <1>2, <1>3, OffsetsStay, PTL DEF ComponentsSteps

\* And whatever was proved of a part alone holds of it in the system, all at once, as long as callers keep
\* to what the parts rely on: leases and offsets of the queue, the order of the inbox, one execution of a
\* call, one user of a connection, limits, copies that agree, and sagas, sinks, units of work and schedules
\* that do all or nothing, once.
THEOREM PartsAreSafe ==
  ASSUME ForcedStates \subseteq {"OPEN", "CLOSED"}, Racing \subseteq {"fixed"},
         InWindow, OneWritePerTick, SweepAlone, OneCheckpoint,
         ~RemoveRunning, ~DirtyReads, "delete" \notin Kinds
  PROVE  Spec => /\ [](DeliverySafe /\ HandledInOrder /\ OneHandler /\ CallsDeduplicated /\ InvalidationHolds /\ Converges)
                 /\ [](ProbesExact /\ PoolSafe /\ AllOrNothing /\ ExactlyOnce /\ ReplicaIsPrefix /\ ReadsOwnWrites)
                 /\ [](SentIsPrefix /\ WithinLimit /\ CommitsAtomic /\ SlotsRunOnce)
                 /\ MonotonicReads
  <1>1. Spec => [](WithinLimit /\ CommitsAtomic /\ SlotsRunOnce /\ Converges)
    BY PartsImplemented, KeepsWithinLimit, CommitsAreAtomic, RunsEachSlotOnce, NodesConverge, PTL
  <1>2. Spec => [](DeliverySafe /\ HandledInOrder /\ OneHandler)
    <2>1. OffsetsInv => SafeInv
      BY DEF OffsetsInv
    <2> QED BY <2>1, OffsetsStay, SafeInvSuffices, InboxStays, InboxSafe, InboxLeased, PTL
  <1>3. Spec => [](CallsDeduplicated /\ ProbesExact /\ PoolSafe)
    <2>1. Spec => [](IdemIInv /\ BreakerIInv /\ PoolIInv)
      BY IdemStays, BreakerStays, PoolStays, PTL
    <2>2. IdemIInv => CallsDeduplicated
      BY IdemSafe
    <2> QED BY <2>1, <2>2, BreakerSafe, PoolIsSafe, PTL
  <1>4. Spec => [](AllOrNothing /\ ExactlyOnce /\ ReplicaIsPrefix /\ ReadsOwnWrites /\ SentIsPrefix)
    <2>1. Spec => []SinkIInv
      BY SinkStays
    <2>2. (RoutingInv => PrefixInv) /\ (WriteIInv => OrderInv)
      BY DEF RoutingInv, WriteIInv
    <2> QED BY <2>1, <2>2, SagaStays, SagaSafe, SinkSafe, RoutesStay, RoutingImplies, PrefixSuffices,
               WritesStay, OrderSuffices, PTL
  <1>5. Spec => []InvalidationHolds /\ MonotonicReads
    <2>1. CacheIInv /\ [Next]_vars => [\A r \in Readers : seen'[r] >= seen[r]]_cacheVars
      BY PartsStep, CacheInductive
    <2> QED BY <2>1, CacheStays, CacheSafe, PTL DEF Spec, MonotonicReads
  <1> QED BY <1>1, <1>2, <1>3, <1>4, <1>5, PTL
=============================================================================
