------------------------------- MODULE UnitOfWork -------------------------------
(***************************************************************************)
(* Units of work (class UnitOfWorkEngine of                                *)
(* src/src/layers/unit-of-work/implementations/UnitOfWorkEngine.ts, its    *)
(* EntityTracker.ts) that commit against one InMemoryPersister.ts, whose   *)
(* versions the optimistic check reads.                                    *)
(*                                                                         *)
(* A commit writes row by row: it checks the version and writes the row in *)
(* one step, then awaits; other units run before its next write.  A unit   *)
(* writes back the whole entity it loaded, so that a row stands for the    *)
(* units whose changes it holds.                                           *)
(***************************************************************************)
EXTENDS Integers, FiniteSets, SequencesExt

CONSTANTS Units, Keys,
          Kinds,            \* the writes the units make
          DirtyReads,       \* may a unit load rows while another one commits?
          MaxPersisterFaults       \* bound

ASSUME UnitOfWorkAssumption ==
  /\ IsFiniteSet(Keys)
  /\ Kinds \subseteq {"insert", "update", "delete"}
  /\ DirtyReads \in BOOLEAN
  /\ MaxPersisterFaults \in Nat

VARIABLES rows,       \* the persister's rows; version 0 for none
          units,      \* each unit: its stage, plan and journal
          persisterFaults

unitVars == <<rows, units, persisterFaults>>

NoRow == [version |-> 0, writers |-> {}]

\* What a row is worth to a unit when it loads it.
Write(kind, k) == [kind |-> kind, key |-> k, loaded |-> rows[k]]

UnitInit == /\ rows = [k \in Keys |-> NoRow]
            /\ units = [u \in Units |-> [at |-> "open", plan |-> <<>>, journal |-> <<>>]]
            /\ persisterFaults = 0

-----------------------------------------------------------------------------
Amid(u) == units[u].at \in {"committing", "undoing"}

\* _planOps: inserts before updates before deletes.
Rank(w) == CASE w.kind = "insert" -> 1 [] w.kind = "update" -> 2 [] w.kind = "delete" -> 3

Ordered(plan) == \A i, j \in DOMAIN plan : i < j => Rank(plan[i]) <= Rank(plan[j])

\* A unit loads rows (attach), registers what it will write, and calls commit.
\* New entities it did not find; the others it did.
Load(u) ==
  /\ units[u].at = "open"
  /\ DirtyReads \/ \A v \in Units : ~Amid(v)
  /\ \E kinds \in [Keys -> Kinds \cup {"none"}] :
       LET writes == {Write(kinds[k], k) : k \in {k \in Keys : kinds[k] # "none"}}
       IN  /\ writes # {}
           /\ \A w \in writes : w.kind = "insert" <=> w.loaded.version = 0
           /\ \E plan \in SetToSeqs(writes) :
                /\ Ordered(plan)
                /\ units' = [units EXCEPT ![u].at = "loaded", ![u].plan = plan]
  /\ UNCHANGED <<rows, persisterFaults>>

\* commit, also again after one that failed.
CommitUnit(u) ==
  /\ units[u].at \in {"loaded", "failed"}
  /\ units' = [units EXCEPT ![u].at = "committing"]
  /\ UNCHANGED <<rows, persisterFaults>>

NextWrite(u) == units[u].plan[Len(units[u].journal) + 1]

\* Mutant: no optimistic lock.
StaleWriteNever(w) == FALSE

\* _checkOptimistic: a row that is gone has no version to differ.
StaleWrite(w) == /\ w.kind # "insert"
                 /\ rows[w.key].version \notin {0, w.loaded.version}

\* DuplicateKeyError.
Duplicate(w) == w.kind = "insert" /\ rows[w.key].version > 0

\* The row that apply leaves.
AppliedRow(u, w) ==
  IF w.kind = "delete" THEN NoRow
  ELSE [version |-> rows[w.key].version + 1, writers |-> w.loaded.writers \cup {u}]

ApplyWrite(u) ==
  LET w == NextWrite(u)
      journal == Append(units[u].journal, [key |-> w.key, prior |-> rows[w.key]])
  IN  /\ units[u].at = "committing"
      /\ ~StaleWrite(w) /\ ~Duplicate(w)
      /\ rows' = [rows EXCEPT ![w.key] = AppliedRow(u, w)]
      /\ units' = [units EXCEPT ![u].journal = journal,
                                ![u].at = IF Len(journal) = Len(units[u].plan) THEN "committed" ELSE @]
      /\ UNCHANGED persisterFaults

\* The check or the persister throws.
FailWrite(u) ==
  LET refused == StaleWrite(NextWrite(u)) \/ Duplicate(NextWrite(u))
  IN  /\ units[u].at = "committing"
      /\ refused \/ persisterFaults < MaxPersisterFaults
      /\ persisterFaults' = IF refused THEN persisterFaults ELSE persisterFaults + 1
      /\ units' = [units EXCEPT ![u].at = IF units[u].journal = <<>> THEN "failed" ELSE "undoing"]
      /\ UNCHANGED rows

\* restore puts the row back verbatim.
RestoredRow(now, prior) == prior

\* One turn of the loop of _rollbackTo.
UndoWrite(u) ==
  LET j == Last(units[u].journal)
  IN  /\ units[u].at = "undoing"
      /\ rows' = [rows EXCEPT ![j.key] = RestoredRow(@, j.prior)]
      /\ units' = [units EXCEPT ![u].journal = Front(@),
                                ![u].at = IF Len(units[u].journal) = 1 THEN "failed" ELSE @]
      /\ UNCHANGED persisterFaults

UnitNext == \E u \in Units : Load(u) \/ CommitUnit(u) \/ ApplyWrite(u) \/ FailWrite(u) \/ UndoWrite(u)

UnitSpec == UnitInit /\ [][UnitNext]_unitVars
-----------------------------------------------------------------------------
\* A committed change is never lost: no unit that loaded the row before, and no
\* undoing of another commit, overwrites it (_checkOptimistic, _rollbackTo).
CommittedSurvives ==
  \A u \in Units : units[u].at = "committed" =>
    \A i \in DOMAIN units[u].plan : u \in rows[units[u].plan[i].key].writers

\* A commit that failed leaves nothing behind, whichever of its writes failed
\* (commit's catch and _rollbackTo).
FailedLeavesNothing ==
  \A u \in Units, k \in Keys : u \in rows[k].writers =>
    \/ units[u].at = "committed"
    \/ \E i \in DOMAIN units[u].journal : units[u].journal[i].key = k

\* A version counts the commits a row has gone through, so that equal versions
\* are equal rows (apply, restore).
VersionsCount == \A k \in Keys : rows[k].version = Cardinality(rows[k].writers)
\* A commit is all or nothing beside other commits (commit, _checkOptimistic,
\* _rollbackTo).
CommitsAtomic == CommittedSurvives /\ FailedLeavesNothing /\ VersionsCount
=============================================================================
