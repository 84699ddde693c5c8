------------------------------ MODULE BinaryHeap ------------------------------
(***************************************************************************)
(* The array heap of the message queue, as the code computes it            *)
(* (src/src/layers/message-queue/engine/PriorityHeap.ts; DelayScheduler.ts *)
(* has the same code over its own order).                                  *)
(*                                                                         *)
(* An entry is [key, seq]: the greater key comes first, then the smaller   *)
(* seq.  For the scheduler the key is -dueAt.  Positions count from 1.     *)
(***************************************************************************)
EXTENDS Integers, Sequences, SequencesExt

\* gt of PriorityHeap, lt of DelayScheduler.
Before(a, b) == a.key > b.key \/ (a.key = b.key /\ a.seq < b.seq)

Swapped(h, i, j) == [h EXCEPT ![i] = h[j], ![j] = h[i]]

\* One turn of siftUp's loop: the rising entry itself is compared, and the hole
\* is where it would be.
Rise(s) ==
  LET above == s.at \div 2
  IN  IF s.at > 1 /\ Before(s.array[s.at], s.array[above])
      THEN [array |-> Swapped(s.array, s.at, above), at |-> above] ELSE s

\* siftUp: from position i there are at most i turns.
SiftUp(h, i) ==
  LET turn[n \in 0 .. i] == IF n = 0 THEN [array |-> h, at |-> i] ELSE Rise(turn[n - 1])
  IN  turn[i].array

\* The first of position i and its children.
BestBelow(h, i) ==
  LET left == IF 2 * i <= Len(h) /\ Before(h[2 * i], h[i]) THEN 2 * i ELSE i
  IN  IF 2 * i + 1 <= Len(h) /\ Before(h[2 * i + 1], h[left]) THEN 2 * i + 1 ELSE left

\* One turn of siftDown's loop.  Below the first level the children are compared
\* with the entry that has just moved up, not with the sinking one.
Sink(s) ==
  LET best == BestBelow(s.array, s.at)
  IN  IF best = s.at THEN s
      ELSE [array |-> [s.array EXCEPT ![s.at] = s.array[best]], at |-> best]

\* siftDown: the hole sinks from i, and the entry that was at i fills it.
SiftDown(h, i) ==
  LET turn[n \in 0 .. Len(h)] == IF n = 0 THEN [array |-> h, at |-> i] ELSE Sink(turn[n - 1])
      last == turn[Len(h)]
  IN  [last.array EXCEPT ![last.at] = h[i]]

Push(h, e) == SiftUp(Append(h, e), Len(h) + 1)

\* remove and cancel at position i, and pop and popMin at position 1: the last
\* entry takes the place, sinks and rises.
TakeOut(h, i) ==
  LET rest == Front(h)
  IN  IF i > Len(rest) THEN rest
      ELSE SiftUp(SiftDown([rest EXCEPT ![i] = Last(h)], i), i)

\* The heap property.
Valid(h) == \A i \in 2 .. Len(h) : ~Before(h[i], h[i \div 2])
=============================================================================
