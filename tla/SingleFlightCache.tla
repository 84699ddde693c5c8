--------------------------- MODULE SingleFlightCache ---------------------------
(***************************************************************************)
(* The stampede-protected cache (class SingleFlightCache of                *)
(* src/src/layers/cache/engine/SingleFlightCache.ts), for one key: keys    *)
(* share nothing.  Readers, refreshers and invalidations run while a load  *)
(* is in flight; the loader reads the source at one moment of its run and  *)
(* may fail.                                                               *)
(*                                                                         *)
(* A value is the version of the source it was read from; in the versions  *)
(* of Absent the source does not have the key.  The record's timers count  *)
(* down to expiresAt and deadAt.  A load leaves the in-flight map in the   *)
(* step in which its promise settles.                                      *)
(***************************************************************************)
EXTENDS Integers, FiniteSets

CONSTANTS Readers,
          MaxVersion,       \* bound: changes of the source
          Absent,
          ValueTtls,        \* valueTtlMs: the values a cache may be configured with
          NegativeTtl, SwrTime, MaxWaiters,
          MaxLoads          \* bound: loads that run at once

Versions == 0 .. MaxVersion
None == -1                  \* no version
Slots == 1 .. MaxLoads

ASSUME CacheAssumption ==
  /\ Absent \subseteq Versions
  /\ ValueTtls \subseteq Nat
  /\ {MaxVersion, NegativeTtl, SwrTime} \subseteq Nat
  /\ {MaxWaiters, MaxLoads} \subseteq Nat \ {0}

VARIABLES ttl,
          source,           \* the version the loader would read now
          record,           \* the stored value, None without one
          load,             \* the loads running
          flight,           \* the one in the in-flight map, 0 for none
          waits,            \* the load each reader awaits, 0 for none
          seen,             \* the newest version each reader was given (history)
          dropped           \* the source at the last invalidation no load overlapped (history)

cacheVars == <<ttl, source, record, load, flight, waits, seen, dropped>>

NoRecord == [value |-> None, fresh |-> 0, dead |-> 0]
NoLoad == [runs |-> FALSE, background |-> FALSE, read |-> None]

CacheInit == /\ ttl \in ValueTtls
             /\ source = 0
             /\ record = NoRecord
             /\ load = [s \in Slots |-> NoLoad]
             /\ flight = 0
             /\ waits = [r \in Readers |-> 0]
             /\ seen = [r \in Readers |-> None]
             /\ dropped = None

-----------------------------------------------------------------------------
Kept == record.value # None
Negative == Kept /\ record.value \in Absent
Fresh == Kept /\ ~Negative /\ record.fresh > 0
Stale == Kept /\ ~Negative /\ record.fresh = 0 /\ record.dead > 0
Missing == Kept /\ Negative /\ record.dead > 0

Sees(r, v) == seen' = [seen EXCEPT ![r] = v]

Waiting(s) == {r \in Readers : waits[r] = s}

\* A load is started and put into the in-flight map.
StartLoad(background) ==
  \E s \in Slots :
    /\ ~load[s].runs
    /\ \A t \in Slots : ~load[t].runs => s <= t
    /\ load' = [load EXCEPT ![s] = [runs |-> TRUE, background |-> background, read |-> None]]
    /\ flight' = s

\* Mutant: every stale hit refreshes.
RefreshingNever == FALSE

Refreshing == flight # 0

\* get served by the store.
GetStored(r) ==
  /\ waits[r] = 0
  /\ \/ /\ Fresh \/ Missing
        /\ UNCHANGED <<load, flight>>
     \/ /\ Stale
        /\ IF Refreshing THEN UNCHANGED <<load, flight>> ELSE StartLoad(TRUE)
  /\ Sees(r, record.value)
  /\ UNCHANGED <<ttl, source, record, waits, dropped>>

\* The starter of a load in the foreground is a waiter as well.
Join(r) ==
  /\ waits' = [waits EXCEPT ![r] = flight]
  /\ UNCHANGED <<load, flight>>

StartOwn(r) == StartLoad(FALSE) /\ waits' = [waits EXCEPT ![r] = flight']

\* get otherwise: a dead record goes; join, start, or be turned away.
GetLoaded(r) ==
  /\ waits[r] = 0
  /\ ~(Fresh \/ Missing \/ Stale)
  /\ record' = NoRecord
  /\ CASE flight = 0 -> StartOwn(r)
       [] flight # 0 /\ Cardinality(Waiting(flight)) < MaxWaiters -> Join(r)
       [] OTHER -> UNCHANGED <<load, flight, waits>>
  /\ UNCHANGED <<ttl, source, seen, dropped>>

\* refresh asks neither the store nor for the limit.
Refresh(r) ==
  /\ waits[r] = 0
  /\ IF flight # 0 THEN Join(r) ELSE StartOwn(r)
  /\ UNCHANGED <<ttl, source, record, seen, dropped>>

LoaderReads(s) ==
  /\ load[s].runs
  /\ load[s].read = None
  /\ load' = [load EXCEPT ![s].read = source]
  /\ UNCHANGED <<ttl, source, record, flight, waits, seen, dropped>>

\* _commit.  Without a lifetime, a value is stored as dead already.
Committed(v) ==
  CASE v \in Absent /\ NegativeTtl = 0 -> NoRecord
    [] v \in Absent /\ NegativeTtl > 0 -> [value |-> v, fresh |-> 0, dead |-> NegativeTtl]
    [] v \notin Absent /\ ttl > 0 -> [value |-> v, fresh |-> ttl, dead |-> ttl + SwrTime]
    [] OTHER -> [value |-> v, fresh |-> 0, dead |-> 0]

Settled(s, ok) == Waiting(s)

\* Its waiters get what it read.
LoadSucceeds(s) ==
  /\ load[s].read # None
  /\ record' = Committed(load[s].read)
  /\ seen' = [r \in Readers |-> IF r \in Settled(s, TRUE) THEN load[s].read ELSE seen[r]]

\* They get the error, or undefined when it ran in the background.
LoadFails(s) == UNCHANGED <<record, seen>>

LoadSettles(s, ok) ==
  /\ load[s].runs
  /\ IF ok THEN LoadSucceeds(s) ELSE LoadFails(s)
  /\ load' = [load EXCEPT ![s] = NoLoad]
  /\ flight' = IF flight = s THEN 0 ELSE flight
  /\ waits' = [r \in Readers |-> IF r \in Settled(s, ok) THEN 0 ELSE waits[r]]
  /\ UNCHANGED <<ttl, source, dropped>>

\* Mutant: an expired value is kept for the stale window.
InvalidatedRecordStale == IF Stale THEN record ELSE NoRecord

InvalidatedRecord == NoRecord

\* invalidate, invalidateAll: loads in flight continue.
Invalidate ==
  /\ record' = InvalidatedRecord
  /\ dropped' = IF \A s \in Slots : ~load[s].runs THEN source ELSE dropped
  /\ UNCHANGED <<ttl, source, load, flight, waits, seen>>

-----------------------------------------------------------------------------
SourceChanges == /\ source < MaxVersion
                 /\ source' = source + 1
                 /\ UNCHANGED <<ttl, record, load, flight, waits, seen, dropped>>

CacheTick == /\ record' = [record EXCEPT !.fresh = IF @ = 0 THEN 0 ELSE @ - 1,
                                         !.dead = IF @ = 0 THEN 0 ELSE @ - 1]
             /\ UNCHANGED <<ttl, source, load, flight, waits, seen, dropped>>

Settles(s) == LoaderReads(s) \/ \E ok \in BOOLEAN : LoadSettles(s, ok)

CacheNext == \/ \E r \in Readers : GetStored(r) \/ GetLoaded(r) \/ Refresh(r)
             \/ \E s \in Slots : Settles(s)
             \/ Invalidate
             \/ SourceChanges
             \/ CacheTick

\* Loaders answer.
CacheFairness == \A s \in Slots : WF_cacheVars(Settles(s))

CacheSpec == CacheInit /\ [][CacheNext]_cacheVars /\ CacheFairness

-----------------------------------------------------------------------------
CacheTypeOK ==
  /\ ttl \in ValueTtls
  /\ source \in Versions
  /\ record \in [value : Versions \cup {None}, fresh : Nat, dead : Nat]
  /\ load \in [Slots -> [runs : BOOLEAN, background : BOOLEAN, read : Versions \cup {None}]]
  /\ flight \in Slots \cup {0}
  /\ waits \in [Readers -> Slots \cup {0}]
  /\ seen \in [Readers -> Versions \cup {None}]
  /\ dropped \in Versions \cup {None}

\* A reader awaits only a load that runs and that others can still join, so it
\* is answered with it.
AwaitsTheFlight == \A r \in Readers : waits[r] # 0 => waits[r] = flight /\ load[flight].runs

CacheInv == CacheTypeOK /\ AwaitsTheFlight

\* Readers never go back: however gets, refreshes, stale hits, background loads,
\* failures and invalidations overlap, no reader is given an older version of
\* the source than it was given before.
MonotonicReads == [][\A r \in Readers : seen'[r] >= seen[r]]_cacheVars

\* Unless a load overlapped it, nothing read from the source before an
\* invalidation is stored after it.
InvalidationHolds == Kept => record.value >= dropped

\* Every get and refresh is answered.
ReadersAnswered == \A r \in Readers : waits[r] # 0 ~> waits[r] = 0
=============================================================================
