---------------------------- MODULE MCOutboxRelay ----------------------------
(* Small instances of OutboxRelay. *)
EXTENDS OutboxRelay, TLC

Symmetry == Permutations(Relays)

\* Every record has its own key (idempotencyKey defaults to the id).
MCIds == Ids
DistinctKeys == [id \in Ids |-> id]
\* Records of different aggregates share a key when their numbers agree.
SharedKeys == [id \in Ids |-> id[2]]
=============================================================================
