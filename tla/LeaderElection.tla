---------------------------- MODULE LeaderElection ----------------------------
(***************************************************************************)
(* Partition leadership by fencing-token leases (class LeaderElection of   *)
(* src/src/layers/outbox/engine2/LeaderElection.ts).                       *)
(*                                                                         *)
(* Every grant handed out is kept in grants (history): a worker may present *)
(* it at any later time.  leader(), active() and grantedAt only report and *)
(* are left out.                                                           *)
(***************************************************************************)
EXTENDS Integers

CONSTANTS Partitions, Workers,
          Nobody,      \* no entry in _leases
          LeaseMs,     \* leaseMs
          MaxTime,     \* bound: the clock
          MaxGrants    \* bound: grants, when the election runs by itself

ASSUME ElectionAssumption ==
  /\ Nobody \notin Workers
  /\ LeaseMs \in Nat \ {0}
  /\ MaxTime \in Nat
  /\ MaxGrants \in Nat

VARIABLES now, leases, tokenCounter, grants

electionVars == <<now, leases, tokenCounter, grants>>

NoLease == [worker |-> Nobody, token |-> 0, until |-> 0]

ElectionInit == /\ now = 0
                /\ leases = [p \in Partitions |-> NoLease]
                /\ tokenCounter = 0
                /\ grants = {}

Live(p) == leases[p].until > now

\* Mutant: any live lease will do.
CheckLiveOnly(p, t) == Live(p)

\* check: the gate before every batch.
Check(p, t) == Live(p) /\ leases[p].token = t

MayAcquire(p, w) == Live(p) => leases[p].worker = w

Grant(p, w, t) ==
  /\ leases' = [leases EXCEPT ![p] = [worker |-> w, token |-> t, until |-> now + LeaseMs]]
  /\ grants' = grants \cup {[partition |-> p, worker |-> w, token |-> t]}
  /\ UNCHANGED now

\* Mutant: tokens count up from the partition's current lease.
AcquirePerPartition(p, w) ==
  /\ MayAcquire(p, w)
  /\ Grant(p, w, leases[p].token + 1)
  /\ tokenCounter' = tokenCounter + 1

\* acquire: free, lapsed or already mine; the token is new in any case.
Acquire(p, w) ==
  /\ MayAcquire(p, w)
  /\ tokenCounter' = tokenCounter + 1
  /\ Grant(p, w, tokenCounter + 1)

Renewable(p, w, t) == Live(p) /\ leases[p].worker = w /\ leases[p].token = t

\* renew: only the holder, only inside the lease.
Renew(p, w, t) ==
  /\ Renewable(p, w, t)
  /\ leases' = [leases EXCEPT ![p].until = now + LeaseMs]
  /\ UNCHANGED <<now, tokenCounter, grants>>

\* stepDown: the entry is deleted, live or not.
StepDown(p, w) ==
  /\ leases[p].worker = w
  /\ leases' = [leases EXCEPT ![p] = NoLease]
  /\ UNCHANGED <<now, tokenCounter, grants>>

Tick == /\ now < MaxTime
        /\ now' = now + 1
        /\ UNCHANGED <<leases, tokenCounter, grants>>

ElectionNext ==
  \/ Tick
  \/ \E p \in Partitions, w \in Workers :
       \/ tokenCounter < MaxGrants /\ Acquire(p, w)
       \/ StepDown(p, w)
       \/ \E g \in grants : Renew(p, w, g.token)

ElectionSpec == ElectionInit /\ [][ElectionNext]_electionVars

-----------------------------------------------------------------------------
Tokens == Nat \ {0}

ElectionTypeOK ==
  /\ now \in 0 .. MaxTime
  /\ leases \in [Partitions -> [worker : Workers \cup {Nobody}, token : Nat, until : Nat]]
  /\ tokenCounter \in Nat
  /\ grants \subseteq [partition : Partitions, worker : Workers, token : Tokens]

\* A token belongs to one grant, and the counter is ahead of every token.
TokensUnique ==
  /\ \A g \in grants : g.token <= tokenCounter
  /\ \A g, h \in grants : g.token = h.token => g = h

\* A lease on record is the partition's latest grant.
LeaseIsLatestGrant ==
  \A p \in Partitions :
    leases[p] # NoLease =>
      /\ [partition |-> p, worker |-> leases[p].worker, token |-> leases[p].token] \in grants
      /\ leases[p].until > 0
      /\ \A g \in grants : g.partition = p => g.token <= leases[p].token

\* Fencing: a token stops passing check() for good as soon as its partition is
\* granted again, even to the same worker, and even after a stepDown has
\* erased the partition's entry ("stale holders present a stale token and
\* lose").
StaleTokenLoses ==
  \A g, h \in grants :
    g.partition = h.partition /\ g.token < h.token => ~Check(g.partition, g.token)

\* The relay's "check, then renew" is safe: a grant that passes check() is its
\* own worker's, so renew() does not throw out of poll().
CheckedIsRenewable ==
  \A g \in grants : Check(g.partition, g.token) => Renewable(g.partition, g.worker, g.token)

\* The election's inductive invariant.
ElectionInv == /\ ElectionTypeOK
               /\ TokensUnique
               /\ LeaseIsLatestGrant
=============================================================================
