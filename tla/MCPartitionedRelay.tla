-------------------------- MODULE MCPartitionedRelay --------------------------
(* Small instances of PartitionedRelay. *)
EXTENDS PartitionedRelay, TLC

Symmetry == Permutations(Workers)

OnePartition == [a \in Aggregates |-> CHOOSE p \in Partitions : TRUE]
\* Aggregates and partitions bear the same names.
OnePartitionEach == [a \in Aggregates |-> a]
=============================================================================
