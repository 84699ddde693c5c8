---------------------------------- MODULE Lists ----------------------------------
(***************************************************************************)
(* Helpers on sequences whose properties can be proved by induction.       *)
(***************************************************************************)
EXTENDS Integers, Sequences, Functions

\* The elements of s that are not in S, in their order.
Without(s, S) ==
  LET left[n \in 0 .. Len(s)] ==
        IF n = 0 THEN <<>> ELSE IF s[n] \in S THEN left[n - 1] ELSE Append(left[n - 1], s[n])
  IN  left[Len(s)]

\* The sum of the first n of the numbers s.
SumUpTo(s, n) ==
  LET sum[k \in 0 .. n] == IF k = 0 THEN 0 ELSE sum[k - 1] + s[k]
  IN  sum[n]

\* x put into q in front of those of its elements that are in Behind.
Inserted(q, x, Behind) ==
  Without(q, Behind) \o <<x>> \o Without(q, Range(q) \ Behind)

\* The numbers s in ascending order.
Sorted(s) ==
  LET from[n \in 0 .. Len(s)] ==
        IF n = 0 THEN <<>>
        ELSE Inserted(from[n - 1], s[n], {x \in Range(from[n - 1]) : x > s[n]})
  IN  from[Len(s)]
=============================================================================
