----------------------------- MODULE PriorityHeap -----------------------------
(***************************************************************************)
(* The ready heap of a broker queue under any sequence of pushes, pops and *)
(* removals (class PriorityHeap).  A message that was popped may be pushed *)
(* again with its old seq, as nack and requeueDeadLetter do.               *)
(***************************************************************************)
EXTENDS BinaryHeap, FiniteSets

CONSTANTS Priorities,
          MaxHeap    \* bound: messages

ASSUME HeapAssumption == Priorities \subseteq Int /\ MaxHeap \in Nat

VARIABLES heap,
          inside        \* the entries that were pushed and not taken (history)

heapVars == <<heap, inside>>

Entries == [key : Priorities, seq : 0 .. MaxHeap - 1]

HeapInit == heap = <<>> /\ inside = {}

PushOne(e) == /\ \A f \in inside : f.seq # e.seq
              /\ heap' = Push(heap, e)
              /\ inside' = inside \cup {e}

\* pop takes position 1, remove any position.
Take(i) == /\ heap' = TakeOut(heap, i)
           /\ inside' = inside \ {heap[i]}

HeapNext == \/ \E e \in Entries : PushOne(e)
            \/ \E i \in 1 .. Len(heap) : Take(i)

HeapSpec == HeapInit /\ [][HeapNext]_heapVars

\* No message is lost or doubled by the moves of siftUp and siftDown, even
\* once the heap is out of order.
EntriesKept == ToSet(heap) = inside /\ Len(heap) = Cardinality(inside)

\* A push never breaks a heap that is in order.
PushKeepsValid == [][Valid(heap) /\ Len(heap') > Len(heap) => Valid(heap')]_heapVars

\* The class's contract for pop: "higher priority pops first; equal priorities
\* pop in enqueue order".
RootIsBest == \A i \in 2 .. Len(heap) : ~Before(heap[i], heap[1])
=============================================================================
