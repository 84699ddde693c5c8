----------------------------- MODULE DataLemmas -----------------------------
(***************************************************************************)
(* Facts about numbers, finite sets and sequences that the proofs share.   *)
(***************************************************************************)
EXTENDS Integers, FiniteSets, Sequences, Lists, SequencesExt, SequenceTheorems,
        FiniteSetTheorems, TLAPS

\* Induction over the natural numbers: a set with 0 and every successor of its
\* members has them all.  Otherwise the step to the successor inside the set, and
\* to itself outside, would map 0 .. n one-to-one into 1 .. n.
LEMMA Induction ==
  ASSUME NEW Q, 0 \in Q, \A k \in Nat : k \in Q => k + 1 \in Q
  PROVE  \A n \in Nat : n \in Q
  <1> SUFFICES ASSUME NEW n \in Nat, n \notin Q PROVE FALSE
    OBVIOUS
  <1> DEFINE g == [k \in 0 .. n |-> IF k \in Q THEN k + 1 ELSE k]
  <1>1. g \in [0 .. n -> 1 .. n]
    <2> SUFFICES ASSUME NEW k \in 0 .. n
                 PROVE  (IF k \in Q THEN k + 1 ELSE k) \in 1 .. n
      OBVIOUS
    <2>1. CASE k \in Q
      <3>1. k # n
        BY <2>1
      <3> QED BY <3>1, <2>1
    <2>2. CASE k \notin Q
      <3>1. k # 0
        BY <2>2
      <3> QED BY <3>1, <2>2
    <2> QED BY <2>1, <2>2
  <1>2. /\ IsFiniteSet(0 .. n) /\ Cardinality(0 .. n) = n + 1
        /\ IsFiniteSet(1 .. n) /\ Cardinality(1 .. n) = n
    BY FS_Interval
  <1>3. PICK x, y \in 0 .. n : x # y /\ g[x] = g[y]
    <2> HIDE DEF g
    <2>1. Cardinality(1 .. n) < Cardinality(0 .. n)
      BY <1>2
    <2> QED BY <1>1, <1>2, <2>1, FS_PigeonHole
  <1>4. CASE x \in Q <=> y \in Q
    BY <1>3, <1>4
  <1>5. CASE x \in Q /\ y \notin Q
    <2>1. y = x + 1
      BY <1>3, <1>5
    <2> QED BY <2>1, <1>5
  <1>6. CASE x \notin Q /\ y \in Q
    <2>1. x = y + 1
      BY <1>3, <1>6
    <2> QED BY <2>1, <1>6
  <1> QED BY <1>4, <1>5, <1>6

\* f is defined on 0 .. n by recursion from a with the steps of G.
Recursive(f, n, a, G) == f = [k \in 0 .. n |-> IF k = 0 THEN a ELSE G[<<k, f[k - 1]>>]]

\* A recursive definition over 0 .. n has a function that satisfies it.
LEMMA Recursion ==
  ASSUME NEW T, NEW a \in T, NEW G \in [Nat \X T -> T]
  PROVE  \A n \in Nat : \E f \in [0 .. n -> T] : Recursive(f, n, a, G)
  <1> DEFINE Is(f, n) == Recursive(f, n, a, G)
             Q == {n \in Nat : \E f \in [0 .. n -> T] : Is(f, n)}
  <1>1. 0 \in Q
    <2>1. [k \in 0 .. 0 |-> a] \in [0 .. 0 -> T] /\ Is([k \in 0 .. 0 |-> a], 0)
      BY DEF Recursive
    <2> QED BY <2>1
  <1>2. ASSUME NEW n \in Nat, n \in Q PROVE n + 1 \in Q
    <2>1. PICK f \in [0 .. n -> T] : Is(f, n)
      BY <1>2
    <2> DEFINE g == [k \in 0 .. n + 1 |-> IF k = n + 1 THEN G[<<n + 1, f[n]>>] ELSE f[k]]
    <2>2. g \in [0 .. n + 1 -> T]
      <3> SUFFICES ASSUME NEW k \in 0 .. n + 1
                   PROVE  (IF k = n + 1 THEN G[<<n + 1, f[n]>>] ELSE f[k]) \in T
        OBVIOUS
      <3>1. <<n + 1, f[n]>> \in Nat \X T
        OBVIOUS
      <3> QED BY <3>1
    <2>3. Is(g, n + 1)
      <3> SUFFICES ASSUME NEW k \in 0 .. n + 1
                   PROVE  g[k] = IF k = 0 THEN a ELSE G[<<k, g[k - 1]>>]
        BY <2>2 DEF Recursive
      <3>1. CASE k = n + 1
        <4>1. n + 1 # 0 /\ g[n] = f[n] /\ k - 1 = n
          BY <3>1
        <4> QED BY <3>1, <4>1
      <3>2. CASE k # n + 1
        <4>1. k \in 0 .. n /\ (k # 0 => k - 1 \in 0 .. n /\ k - 1 # n + 1)
          BY <3>2
        <4>2. g[k] = f[k] /\ (k # 0 => g[k - 1] = f[k - 1])
          BY <3>2, <4>1
        <4>3. f[k] = IF k = 0 THEN a ELSE G[<<k, f[k - 1]>>]
          BY <2>1, <4>1 DEF Recursive
        <4> QED BY <4>1, <4>2, <4>3
      <3> QED BY <3>1, <3>2
    <2> HIDE DEF g, Is
    <2> QED BY <2>2, <2>3
  <1>3. \A n \in Nat : n \in Q
    <2> HIDE DEF Q
    <2> QED BY <1>1, <1>2, Induction
  <1> QED BY <1>3

\* A set of natural numbers that is not empty has a least one.
LEMMA LeastNumber ==
  ASSUME NEW S \in SUBSET Nat, S # {}
  PROVE  \E m \in S : \A k \in S : m <= k
  <1> SUFFICES ASSUME \A m \in S : \E k \in S : k < m
               PROVE  FALSE
    OBVIOUS
  <1> DEFINE Q == {n \in Nat : \A m \in S : n < m}
  <1>1. 0 \in Q
    <2> SUFFICES ASSUME NEW m \in S PROVE 0 < m
      OBVIOUS
    <2>1. PICK k \in S : k < m
      OBVIOUS
    <2> QED BY <2>1
  <1>2. \A n \in Nat : n \in Q => n + 1 \in Q
    <2> SUFFICES ASSUME NEW n \in Nat, n \in Q, NEW m \in S PROVE n + 1 < m
      OBVIOUS
    <2>1. PICK k \in S : k < m
      OBVIOUS
    <2>2. n < k /\ k \in Nat /\ m \in Nat
      OBVIOUS
    <2> QED BY <2>1, <2>2
  <1>3. \A n \in Nat : n \in Q
    <2> HIDE DEF Q
    <2> QED BY <1>1, <1>2, Induction
  <1>4. PICK m \in S : TRUE
    OBVIOUS
  <1>5. m \in Nat /\ m < m
    BY <1>3, <1>4
  <1> QED BY <1>5

\* A finite set of numbers that is not empty has a greatest one.
LEMMA GreatestNumber ==
  ASSUME NEW n \in Nat, NEW S \in SUBSET (0 .. n), S # {}
  PROVE  \E m \in S : \A k \in S : k <= m
  <1> DEFINE T == {n - i : i \in S}
  <1>1. T \in SUBSET Nat /\ T # {}
    <2>1. \A i \in S : i \in 0 .. n /\ n - i \in Nat
      <3>1. \A i \in 0 .. n : n - i \in Nat
        OBVIOUS
      <3> QED BY <3>1
    <2>2. PICK i \in S : TRUE
      OBVIOUS
    <2>3. n - i \in T
      OBVIOUS
    <2> QED BY <2>1, <2>3
  <1>2. PICK t \in T : \A u \in T : t <= u
    <2> HIDE DEF T
    <2> QED BY <1>1, LeastNumber
  <1>3. PICK m \in S : t = n - m
    OBVIOUS
  <1>4. \A k \in S : n - m <= n - k
    BY <1>2, <1>3
  <1>5. ASSUME NEW k \in S PROVE k <= m
    <2>1. n - m <= n - k /\ k \in Int /\ m \in Int
      BY <1>4
    <2> QED BY <2>1
  <1> QED BY <1>5

\* What is left of a sequence after n elements (what is left of a batch).
LEMMA Suffix ==
  ASSUME NEW S, NEW q \in Seq(S), NEW n \in 0 .. Len(q)
  PROVE  /\ SubSeq(q, n + 1, Len(q)) \in Seq(S)
         /\ Len(SubSeq(q, n + 1, Len(q))) = Len(q) - n
         /\ \A i \in 1 .. Len(q) - n : SubSeq(q, n + 1, Len(q))[i] = q[n + i]
  <1>1. Len(q) \in Nat /\ n + 1 \in Int /\ \A i \in n + 1 .. Len(q) : q[i] \in S
    BY LenProperties, ElementOfSeq
  <1>2. /\ SubSeq(q, n + 1, Len(q)) \in Seq(S)
        /\ Len(SubSeq(q, n + 1, Len(q)))
             = IF n + 1 <= Len(q) THEN Len(q) - (n + 1) + 1 ELSE 0
        /\ \A i \in 1 .. Len(q) - (n + 1) + 1 :
             SubSeq(q, n + 1, Len(q))[i] = q[n + 1 + i - 1]
    BY <1>1, SubSeqProperties
  <1>3. \A L \in Nat : \A m \in 0 .. L :
          /\ (IF m + 1 <= L THEN L - (m + 1) + 1 ELSE 0) = L - m
          /\ \A i \in 1 .. L - m : i \in 1 .. L - (m + 1) + 1 /\ m + 1 + i - 1 = m + i
    OBVIOUS
  <1>4. Len(SubSeq(q, n + 1, Len(q))) = Len(q) - n
    BY <1>1, <1>2, <1>3
  <1>5. ASSUME NEW i \in 1 .. Len(q) - n
        PROVE  SubSeq(q, n + 1, Len(q))[i] = q[n + i]
    <2>1. i \in 1 .. Len(q) - (n + 1) + 1 /\ n + 1 + i - 1 = n + i
      BY <1>1, <1>3
    <2> QED BY <1>2, <2>1
  <1> QED BY <1>2, <1>4, <1>5

\* A sequence of SetToSeqs lists the elements of a finite set, each once.
LEMMA Listing ==
  ASSUME NEW S, IsFiniteSet(S), NEW q \in SetToSeqs(S)
  PROVE  /\ q \in Seq(S)
         /\ \A i, j \in 1 .. Len(q) : q[i] = q[j] => i = j
  <1>1. Cardinality(S) \in Nat
    BY FS_CardinalityType
  <1>2. /\ q \in [1 .. Cardinality(S) -> S]
        /\ \A i, j \in 1 .. Cardinality(S) : i # j => q[i] # q[j]
    BY DEF SetToSeqs
  <1>3. q \in Seq(S)
    BY <1>1, <1>2, SeqDef
  <1>4. Len(q) = Cardinality(S)
    BY <1>1, <1>2, <1>3, LenProperties
  <1> QED BY <1>2, <1>3, <1>4

\* The set of records 0 .. m - 1 of finitely many aggregates is finite.
LEMMA FiniteRecords ==
  ASSUME NEW A, IsFiniteSet(A), NEW m \in Nat, NEW S \in SUBSET (A \X (0 .. m - 1))
  PROVE  IsFiniteSet(S)
  <1>1. IsFiniteSet(0 .. m - 1)
    BY FS_Interval
  <1>2. IsFiniteSet(A \X (0 .. m - 1))
    BY <1>1, FS_Product
  <1> QED BY <1>2, FS_Subset

-----------------------------------------------------------------------------
\* What the recursion of Without defines.
WithoutBySteps(f, s, S) ==
  /\ f[0] = <<>>
  /\ \A n \in 1 .. Len(s) : f[n] = IF s[n] \in S THEN f[n - 1] ELSE Append(f[n - 1], s[n])
  /\ Without(s, S) = f[Len(s)]

LEMMA WithoutSteps ==
  ASSUME NEW T, NEW s \in Seq(T), NEW S
  PROVE  \E f \in [0 .. Len(s) -> Seq(T)] : WithoutBySteps(f, s, S)
  <1> DEFINE U == Seq(T)
             e == <<>>
             G == [p \in Nat \X U |->
                     IF p[1] \in 1 .. Len(s) /\ s[p[1]] \notin S THEN Append(p[2], s[p[1]]) ELSE p[2]]
             Is(f) == f = [n \in 0 .. Len(s) |-> IF n = 0 THEN <<>> ELSE
                             IF s[n] \in S THEN f[n - 1] ELSE Append(f[n - 1], s[n])]
  <1>1. Len(s) \in Nat /\ e \in U /\ \A i \in 1 .. Len(s) : s[i] \in T
    BY LenProperties, ElementOfSeq, EmptySeq
  <1>2. G \in [Nat \X U -> U]
    <2> SUFFICES ASSUME NEW k \in Nat, NEW q \in U
                 PROVE  (IF k \in 1 .. Len(s) /\ s[k] \notin S THEN Append(q, s[k]) ELSE q) \in U
      OBVIOUS
    <2> QED BY <1>1, AppendProperties
  <1>3. PICK f \in [0 .. Len(s) -> U] :
          Recursive(f, Len(s), e, G)
    <2> HIDE DEF G, U, e
    <2> QED BY <1>1, <1>2, Recursion
  <1>4. Is(f)
    <2>1. ASSUME NEW n \in 0 .. Len(s), n # 0
          PROVE  G[<<n, f[n - 1]>>] = IF s[n] \in S THEN f[n - 1] ELSE Append(f[n - 1], s[n])
      <3>0. n \in 1 .. Len(s) /\ n - 1 \in 0 .. Len(s)
        BY ONLY <1>1, <2>1, n \in 0 .. Len(s)
      <3>1. n \in 1 .. Len(s) /\ n - 1 \in 0 .. Len(s) /\ f[n - 1] \in U
        <4> HIDE DEF U
        <4> QED BY ONLY <3>0, f \in [0 .. Len(s) -> U]
      <3>2. <<n, f[n - 1]>> \in Nat \X U
        BY <3>1
      <3> HIDE DEF U
      <3> QED BY <3>1, <3>2
    <2> HIDE DEF G
    <2> QED BY <1>3, <2>1 DEF Recursive
  <1> DEFINE Step(g, n) == g[n] = IF n = 0 THEN <<>> ELSE
                                    IF s[n] \in S THEN g[n - 1] ELSE Append(g[n - 1], s[n])
  <1>5. PICK left : Is(left) /\ Without(s, S) = left[Len(s)]
    <2>1. Without(s, S) = (CHOOSE g : Is(g))[Len(s)]
      BY DEF Without
    <2> HIDE DEF Is
    <2> QED BY <1>4, <2>1
  <1>6. left = f
    <2>1. ASSUME NEW g, Is(g) PROVE \A n \in 0 .. Len(s) : Step(g, n)
      <3> HIDE DEF G, U, e
      <3> QED BY <2>1, Zenon
    <2>2. \A n \in 0 .. Len(s) : Step(left, n) /\ Step(f, n)
      BY <1>4, <1>5, <2>1
    <2> DEFINE Q == {n \in Nat : n <= Len(s) => left[n] = f[n]}
    <2> HIDE DEF Is
    <2>3. 0 \in Q
      BY <1>1, <2>2
    <2>4. ASSUME NEW n \in Nat, n \in Q PROVE n + 1 \in Q
      <3> SUFFICES ASSUME n + 1 <= Len(s) PROVE left[n + 1] = f[n + 1]
        OBVIOUS
      <3>1. n + 1 \in 0 .. Len(s) /\ n + 1 # 0 /\ n + 1 - 1 = n /\ left[n] = f[n]
        BY <1>1, <2>4
      <3>2. Step(left, n + 1) /\ Step(f, n + 1)
        BY <2>2, <3>1
      <3> QED BY <3>1, <3>2
    <2>5. \A n \in Nat : n \in Q
      <3> HIDE DEF Q
      <3> QED BY <2>3, <2>4, Induction
    <2>6. \A n \in 0 .. Len(s) : left[n] = f[n]
      BY <1>1, <2>5
    <2> QED BY <1>4, <1>5, <2>6 DEF Is
  <1>7. ASSUME NEW n \in 1 .. Len(s)
        PROVE  f[n] = IF s[n] \in S THEN f[n - 1] ELSE Append(f[n - 1], s[n])
    <2>1. n \in 0 .. Len(s) /\ n # 0
      BY <1>1
    <2> QED BY <1>4, <2>1
  <1>8. f[0] = <<>>
    BY <1>1, <1>4
  <1> QED BY <1>5, <1>6, <1>7, <1>8 DEF WithoutBySteps

\* Without keeps the other elements, and only those.
LEMMA WithoutProperties ==
  ASSUME NEW T, NEW s \in Seq(T), NEW S
  PROVE  /\ Without(s, S) \in Seq(T)
         /\ \A i \in 1 .. Len(Without(s, S)) :
              /\ Without(s, S)[i] \notin S
              /\ \E j \in 1 .. Len(s) : s[j] = Without(s, S)[i]
  <1>1. Len(s) \in Nat /\ <<>> \in Seq(T) /\ \A i \in 1 .. Len(s) : s[i] \in T
    BY LenProperties, ElementOfSeq, EmptySeq
  <1>2. PICK f \in [0 .. Len(s) -> Seq(T)] : WithoutBySteps(f, s, S)
    BY WithoutSteps
  <1> DEFINE Fine(q) == \A i \in 1 .. Len(q) : q[i] \notin S /\ \E j \in 1 .. Len(s) : s[j] = q[i]
             Q == {n \in Nat : n <= Len(s) => Fine(f[n])}
  <1>3. 0 \in Q
    BY <1>2 DEF WithoutBySteps
  <1>4. ASSUME NEW n \in Nat, n \in Q PROVE n + 1 \in Q
    <2> SUFFICES ASSUME n + 1 <= Len(s) PROVE Fine(f[n + 1])
      OBVIOUS
    <2>1. n \in 0 .. Len(s) /\ n + 1 \in 1 .. Len(s) /\ n + 1 - 1 = n
      BY <1>1
    <2>2. f[n + 1] = IF s[n + 1] \in S THEN f[n] ELSE Append(f[n], s[n + 1])
      BY <1>2, <2>1 DEF WithoutBySteps
    <2>3. f[n] \in Seq(T) /\ s[n + 1] \in T /\ Fine(f[n])
      BY <1>1, <1>4, <2>1
    <2>4. CASE s[n + 1] \in S
      BY <2>2, <2>3, <2>4
    <2>5. CASE s[n + 1] \notin S
      <3> DEFINE q == f[n]
                 x == s[n + 1]
      <3>1. /\ Len(Append(q, x)) = Len(q) + 1
            /\ \A i \in 1 .. Len(q) : Append(q, x)[i] = q[i]
            /\ Append(q, x)[Len(q) + 1] = x
        BY <2>3, AppendProperties
      <3>2. Len(q) \in Nat
        BY <2>3, LenProperties
      <3>3. x \notin S /\ \E j \in 1 .. Len(s) : s[j] = x
        BY <2>1, <2>5
      <3>4. \A i \in 1 .. Len(q) + 1 : i \in 1 .. Len(q) \/ i = Len(q) + 1
        BY <3>2
      <3>5. Fine(q) /\ f[n + 1] = Append(q, x)
        BY <2>2, <2>3, <2>5
      <3> HIDE DEF q, x
      <3> QED BY <3>1, <3>3, <3>4, <3>5
    <2> QED BY <2>4, <2>5
  <1>5. \A n \in Nat : n \in Q
    <2> HIDE DEF Q
    <2> QED BY <1>3, <1>4, Induction
  <1>6. Fine(f[Len(s)]) /\ f[Len(s)] \in Seq(T)
    <2>1. Len(s) \in Q /\ Len(s) \in 0 .. Len(s)
      BY <1>1, <1>5
    <2> QED BY <2>1
  <1> QED BY <1>2, <1>6 DEF WithoutBySteps

\* q is what Without leaves of the first n elements of s; e tells which they are.
LeavesOf(e, q, s, n, S) ==
  /\ e \in [1 .. Len(q) -> 1 .. n]
  /\ \A i \in 1 .. Len(q) : q[i] = s[e[i]] /\ s[e[i]] \notin S
  /\ \A i, j \in 1 .. Len(q) : i < j => e[i] < e[j]
  /\ \A k \in 1 .. n : s[k] \notin S => \E i \in 1 .. Len(q) : e[i] = k

\* One element more.
LEMMA LeavesOneMore ==
  ASSUME NEW T, NEW s \in Seq(T), NEW S, NEW n \in Nat, n + 1 <= Len(s), NEW q \in Seq(T),
         NEW e, LeavesOf(e, q, s, n, S)
  PROVE  \E d : LeavesOf(d, IF s[n + 1] \in S THEN q ELSE Append(q, s[n + 1]), s, n + 1, S)
  <1>1. Len(q) \in Nat /\ 1 .. n \subseteq 1 .. n + 1 /\ \A k \in 1 .. n + 1 : k \in 1 .. n \/ k = n + 1
    BY LenProperties
  <1>2. CASE s[n + 1] \in S
    <2>1. e \in [1 .. Len(q) -> 1 .. n + 1]
      BY <1>1 DEF LeavesOf
    <2>2. LeavesOf(e, q, s, n + 1, S)
      BY <1>1, <1>2, <2>1 DEF LeavesOf
    <2> QED BY <1>2, <2>2
  <1>3. CASE s[n + 1] \notin S
    <2> DEFINE m == Len(q)
               d == [i \in 1 .. m + 1 |-> IF i = m + 1 THEN n + 1 ELSE e[i]]
    <2>1. s[n + 1] \in T
      BY ElementOfSeq
    <2>2. PICK r \in Seq(T) : r = Append(q, s[n + 1])
      BY <2>1, AppendProperties
    <2>3. /\ Len(r) = m + 1 /\ \A i \in 1 .. m : r[i] = q[i]
          /\ r[m + 1] = s[n + 1]
      BY <2>1, <2>2, AppendProperties
    <2>4. /\ 1 .. m \subseteq 1 .. m + 1 /\ m + 1 \in 1 .. m + 1 /\ \A i \in 1 .. m : i < m + 1
          /\ \A i \in 1 .. m + 1 : i \in 1 .. m \/ i = m + 1
      BY <1>1
    <2>5. /\ \A i \in 1 .. m : d[i] = e[i] /\ e[i] \in 1 .. n
          /\ d[m + 1] = n + 1
      BY <2>4 DEF LeavesOf
    <2>6. d \in [1 .. m + 1 -> 1 .. n + 1]
      <3>1. n + 1 \in 1 .. n + 1
        OBVIOUS
      <3>2. \A i \in 1 .. m : e[i] \in 1 .. n + 1
        BY <1>1, <2>5
      <3>3. \A i \in 1 .. m + 1 : (IF i = m + 1 THEN n + 1 ELSE e[i]) \in 1 .. n + 1
        BY <2>4, <3>1, <3>2
      <3> QED BY <3>3
    <2>7. PICK c : c = d
      OBVIOUS
    <2> HIDE DEF d, m
    <2>8. \A i \in 1 .. m + 1 : r[i] = s[c[i]] /\ s[c[i]] \notin S
      BY <1>3, <2>3, <2>4, <2>5, <2>7 DEF LeavesOf, m
    <2>9. \A i, j \in 1 .. m + 1 : i < j => c[i] < c[j]
      <3> SUFFICES ASSUME NEW i \in 1 .. m + 1, NEW j \in 1 .. m + 1, i < j PROVE c[i] < c[j]
        OBVIOUS
      <3>1. i \in 1 .. m
        BY <1>1 DEF m
      <3>2. CASE j = m + 1
        BY <2>5, <2>7, <3>1, <3>2
      <3>3. CASE j \in 1 .. m
        BY <2>5, <2>7, <3>1, <3>3 DEF LeavesOf, m
      <3> QED BY <2>4, <3>2, <3>3
    <2>10. \A k \in 1 .. n + 1 : s[k] \notin S => \E i \in 1 .. m + 1 : c[i] = k
      <3> SUFFICES ASSUME NEW k \in 1 .. n + 1, s[k] \notin S PROVE \E i \in 1 .. m + 1 : c[i] = k
        OBVIOUS
      <3>1. CASE k = n + 1
        BY <2>4, <2>5, <2>7, <3>1
      <3>2. CASE k \in 1 .. n
        <4>1. PICK i \in 1 .. m : e[i] = k
          BY <3>2 DEF LeavesOf, m
        <4> QED BY <2>4, <2>5, <2>7, <4>1
      <3> QED BY <1>1, <3>1, <3>2
    <2>11. LeavesOf(c, r, s, n + 1, S)
      BY <2>3, <2>6, <2>7, <2>8, <2>9, <2>10 DEF LeavesOf
    <2> QED BY <1>3, <2>2, <2>11
  <1> QED BY <1>2, <1>3

\* Without keeps all the other elements in their order.
LEMMA WithoutKeepsOrder ==
  ASSUME NEW T, NEW s \in Seq(T), NEW S
  PROVE  \E e : LeavesOf(e, Without(s, S), s, Len(s), S)
  <1>1. Len(s) \in Nat
    BY LenProperties
  <1>2. PICK f \in [0 .. Len(s) -> Seq(T)] : WithoutBySteps(f, s, S)
    BY WithoutSteps
  <1> DEFINE Q == {n \in Nat : n <= Len(s) => \E e : LeavesOf(e, f[n], s, n, S)}
  <1>3. 0 \in Q
    <2>1. [i \in 1 .. 0 |-> 0] \in [1 .. 0 -> 1 .. 0]
      OBVIOUS
    <2>2. LeavesOf([i \in 1 .. 0 |-> 0], <<>>, s, 0, S)
      BY <2>1, EmptySeq DEF LeavesOf
    <2> QED BY <1>2, <2>2 DEF WithoutBySteps
  <1>4. ASSUME NEW n \in Nat, n \in Q PROVE n + 1 \in Q
    <2> SUFFICES ASSUME n + 1 <= Len(s) PROVE \E e : LeavesOf(e, f[n + 1], s, n + 1, S)
      OBVIOUS
    <2>1. n \in 0 .. Len(s) /\ n + 1 \in 1 .. Len(s) /\ n + 1 - 1 = n
      BY <1>1
    <2>2. f[n + 1] = IF s[n + 1] \in S THEN f[n] ELSE Append(f[n], s[n + 1])
      BY <1>2, <2>1 DEF WithoutBySteps
    <2>3. PICK q \in Seq(T) : q = f[n]
      BY <2>1
    <2>4. PICK e : LeavesOf(e, q, s, n, S)
      BY <1>1, <1>4, <2>1, <2>3
    <2> QED BY <2>2, <2>3, <2>4, LeavesOneMore
  <1>5. \A n \in Nat : n \in Q
    <2> HIDE DEF Q
    <2> QED BY <1>3, <1>4, Induction
  <1>6. \E e : LeavesOf(e, f[Len(s)], s, Len(s), S)
    BY <1>1, <1>5
  <1> QED BY <1>2, <1>6 DEF WithoutBySteps

\* No element of s comes twice.
Distinct(s) == \A i, j \in 1 .. Len(s) : s[i] = s[j] => i = j

\* What is left of different elements are different elements.
LEMMA WithoutDistinct ==
  ASSUME NEW T, NEW s \in Seq(T), NEW S, Distinct(s)
  PROVE  Distinct(Without(s, S))
  <1>1. PICK q : q = Without(s, S)
    OBVIOUS
  <1>2. PICK e : LeavesOf(e, q, s, Len(s), S)
    BY <1>1, WithoutKeepsOrder
  <1>3. q \in Seq(T)
    BY <1>1, WithoutProperties
  <1>4. ASSUME NEW i \in 1 .. Len(q), NEW j \in 1 .. Len(q), q[i] = q[j]
        PROVE  i = j
    <2>1. e[i] \in 1 .. Len(s) /\ e[j] \in 1 .. Len(s) /\ s[e[i]] = s[e[j]]
      BY <1>2, <1>4 DEF LeavesOf
    <2>2. e[i] = e[j]
      BY <2>1 DEF Distinct
    <2>3. i < j => e[i] < e[j]
      BY <1>2 DEF LeavesOf
    <2>4. j < i => e[j] < e[i]
      BY <1>2 DEF LeavesOf
    <2>5. Len(s) \in Nat /\ Len(q) \in Nat
      BY <1>3, LenProperties
    <2> QED BY <2>1, <2>2, <2>3, <2>4, <2>5
  <1> QED BY <1>1, <1>4 DEF Distinct

\* A sequence without repetitions is as long as the set of its elements is large.
LEMMA DistinctCount ==
  ASSUME NEW T, NEW s \in Seq(T), Distinct(s)
  PROVE  /\ IsFiniteSet({s[i] : i \in DOMAIN s})
         /\ Cardinality({s[i] : i \in DOMAIN s}) = Len(s)
  <1> DEFINE R == {s[i] : i \in 1 .. Len(s)}
  <1>1. Len(s) \in Nat /\ DOMAIN s = 1 .. Len(s)
    BY LenProperties
  <1>2. IsFiniteSet(1 .. Len(s)) /\ Cardinality(1 .. Len(s)) = Len(s)
    BY <1>1, FS_Interval
  <1>3. [i \in 1 .. Len(s) |-> s[i]] \in Bijection(1 .. Len(s), R)
    BY DEF Distinct, Bijection, Injection, Surjection, IsInjective
  <1>4. IsFiniteSet(R) /\ Cardinality(R) = Cardinality(1 .. Len(s))
    <2> HIDE DEF R
    <2> QED BY <1>2, <1>3, FS_Bijection DEF ExistsBijection
  <1> QED BY <1>1, <1>2, <1>4

-----------------------------------------------------------------------------
\* f adds up s as SumUpTo does.
Adds(f, s, n) == f = [k \in 0 .. n |-> IF k = 0 THEN 0 ELSE f[k - 1] + s[k]]

\* There is such a function.
LEMMA AddsExists ==
  ASSUME NEW s, NEW n \in Nat, \A k \in 1 .. n : s[k] \in Int
  PROVE  \E f \in [0 .. n -> Int] : Adds(f, s, n)
  <1> DEFINE T == Int
             zero == 0
             G == [p \in Nat \X Int |-> IF p[1] \in 1 .. n THEN p[2] + s[p[1]] ELSE p[2]]
  <1>0. zero \in T
    OBVIOUS
  <1>1. G \in [Nat \X T -> T]
    <2> SUFFICES ASSUME NEW k \in Nat, NEW x \in Int
                 PROVE  (IF k \in 1 .. n THEN x + s[k] ELSE x) \in Int
      OBVIOUS
    <2> QED OBVIOUS
  <1>2. PICK f \in [0 .. n -> Int] : Recursive(f, n, 0, G)
    <2> HIDE DEF G
    <2>1. \A m \in Nat : \E f \in [0 .. m -> T] : Recursive(f, m, zero, G)
      <3> HIDE DEF T, zero
      <3> QED BY <1>0, <1>1, Recursion
    <2> QED BY <2>1
  <1>3. ASSUME NEW k \in 0 .. n, k # 0 PROVE G[<<k, f[k - 1]>>] = f[k - 1] + s[k]
    <2>1. k \in 1 .. n /\ k - 1 \in 0 .. n /\ f[k - 1] \in Int
      BY <1>3
    <2>2. <<k, f[k - 1]>> \in Nat \X Int
      BY <2>1
    <2> QED BY <2>1, <2>2
  <1> HIDE DEF G
  <1>4. Adds(f, s, n)
    BY <1>2, <1>3 DEF Recursive, Adds
  <1> QED BY <1>4

\* Two of them agree where their numbers do.
LEMMA AddsAgree ==
  ASSUME NEW n \in Nat, NEW m \in 0 .. n, NEW s, NEW r, NEW f, NEW g,
         Adds(f, s, n), Adds(g, r, m), \A k \in 1 .. m : s[k] = r[k]
  PROVE  \A k \in 0 .. m : f[k] = g[k]
  <1> DEFINE Q == {k \in Nat : k <= m => f[k] = g[k]}
  <1>1. ASSUME NEW k \in 0 .. m
        PROVE  /\ f[k] = IF k = 0 THEN 0 ELSE f[k - 1] + s[k]
               /\ g[k] = IF k = 0 THEN 0 ELSE g[k - 1] + r[k]
    <2>1. k \in 0 .. n
      OBVIOUS
    <2>2. f[k] = IF k = 0 THEN 0 ELSE f[k - 1] + s[k]
      BY <2>1, Zenon DEF Adds
    <2>3. g[k] = IF k = 0 THEN 0 ELSE g[k - 1] + r[k]
      BY Zenon DEF Adds
    <2> QED BY <2>2, <2>3
  <1>2. 0 \in Q
    BY <1>1
  <1>3. ASSUME NEW k \in Nat, k \in Q PROVE k + 1 \in Q
    <2> SUFFICES ASSUME k + 1 <= m PROVE f[k + 1] = g[k + 1]
      OBVIOUS
    <2>1. k + 1 \in 0 .. m /\ k + 1 \in 1 .. m /\ k + 1 # 0 /\ k + 1 - 1 = k /\ f[k] = g[k]
      BY <1>3
    <2> QED BY <1>1, <2>1
  <1>4. \A k \in Nat : k \in Q
    <2> HIDE DEF Q
    <2> QED BY <1>2, <1>3, Induction
  <1> QED BY <1>4

\* SumUpTo has the value of any of them.
LEMMA SumUpToValue ==
  ASSUME NEW n \in Nat, NEW m \in 0 .. n, NEW s, NEW f, Adds(f, s, n)
  PROVE  SumUpTo(s, m) = f[m]
  <1> DEFINE h == [k \in 0 .. m |-> f[k]]
  <1>1. Adds(h, s, m)
    <2> SUFFICES ASSUME NEW k \in 0 .. m PROVE f[k] = IF k = 0 THEN 0 ELSE h[k - 1] + s[k]
      BY DEF Adds
    <2>1. k \in 0 .. n /\ (k # 0 => k - 1 \in 0 .. m)
      OBVIOUS
    <2>2. f[k] = IF k = 0 THEN 0 ELSE f[k - 1] + s[k]
      BY <2>1, Zenon DEF Adds
    <2> QED BY <2>1, <2>2
  <1> HIDE DEF h
  <1>2. PICK g : Adds(g, s, m) /\ SumUpTo(s, m) = g[m]
    <2>1. SumUpTo(s, m) = (CHOOSE g : Adds(g, s, m))[m]
      BY DEF SumUpTo, Adds
    <2> QED BY <1>1, <2>1
  <1>3. \A k \in 0 .. m : f[k] = g[k]
    BY <1>2, AddsAgree
  <1> QED BY <1>2, <1>3

\* SumUpTo adds one number at a time.
LEMMA SumUpToProperties ==
  ASSUME NEW s, NEW n \in Nat, \A k \in 1 .. n : s[k] \in Int
  PROVE  /\ SumUpTo(s, 0) = 0
         /\ \A k \in 0 .. n : SumUpTo(s, k) \in Int
         /\ \A k \in 1 .. n : SumUpTo(s, k) = SumUpTo(s, k - 1) + s[k]
  <1>1. PICK f \in [0 .. n -> Int] : Adds(f, s, n)
    BY AddsExists
  <1>2. \A k \in 0 .. n : SumUpTo(s, k) = f[k] /\ f[k] \in Int
    BY <1>1, SumUpToValue
  <1>3. ASSUME NEW k \in 0 .. n PROVE f[k] = IF k = 0 THEN 0 ELSE f[k - 1] + s[k]
    BY <1>1, Zenon DEF Adds
  <1>4. \A k \in 1 .. n : k \in 0 .. n /\ k - 1 \in 0 .. n /\ k # 0
    OBVIOUS
  <1>5. 0 \in 0 .. n
    OBVIOUS
  <1> QED BY <1>2, <1>3, <1>4, <1>5

\* Equal numbers have equal sums.
LEMMA SumUpToAgrees ==
  ASSUME NEW n \in Nat, NEW s, NEW r, \A k \in 1 .. n : s[k] \in Int /\ s[k] = r[k]
  PROVE  SumUpTo(s, n) = SumUpTo(r, n)
  <1>1. PICK f \in [0 .. n -> Int] : Adds(f, s, n)
    BY AddsExists
  <1>2. PICK g \in [0 .. n -> Int] : Adds(g, r, n)
    BY AddsExists
  <1>3. n \in 0 .. n
    OBVIOUS
  <1>4. SumUpTo(s, n) = f[n]
    BY <1>1, <1>3, SumUpToValue
  <1>5. SumUpTo(r, n) = g[n]
    BY <1>2, <1>3, SumUpToValue
  <1>6. \A k \in 0 .. n : f[k] = g[k]
    BY <1>1, <1>2, <1>3, AddsAgree
  <1> QED BY <1>3, <1>4, <1>5, <1>6

\* Products keep their order.
LEMMA ProductOrder ==
  ASSUME NEW a \in Int, NEW b \in Int, NEW w \in Nat \ {0}
  PROVE  a * w \in Int /\ (a * w < b * w => a < b) /\ (a <= b => a * w <= b * w)
  OBVIOUS

\* Division by blocks of w.
LEMMA Division ==
  ASSUME NEW t \in Nat, NEW w \in Nat \ {0}
  PROVE  t \div w \in Nat /\ (t \div w) * w <= t /\ t < (t \div w + 1) * w
  OBVIOUS

\* The quotient is the largest such.
LEMMA DivisionBound ==
  ASSUME NEW t \in Nat, NEW w \in Nat \ {0}, NEW a \in Int
  PROVE  a * w <= t => a <= t \div w
  <1>1. t \div w \in Nat /\ t < (t \div w + 1) * w
    BY Division
  <1>2. PICK d \in Nat : d = t \div w
    BY <1>1
  <1>3. a * w \in Int /\ (d + 1) * w \in Int /\ (a * w < (d + 1) * w => a < d + 1)
    BY ProductOrder
  <1> QED BY <1>1, <1>2, <1>3

\* What maps one-to-one into a finite set is no larger.
LEMMA InjectionCount ==
  ASSUME NEW S, NEW T, IsFiniteSet(T), NEW g \in [S -> T], \A a, b \in S : g[a] = g[b] => a = b
  PROVE  /\ IsFiniteSet(S)
         /\ Cardinality(S) \in Nat /\ Cardinality(T) \in Nat /\ Cardinality(S) <= Cardinality(T)
  <1>1. g \in Injection(S, T)
    BY DEF Injection, IsInjective
  <1> QED BY <1>1, FS_Injection, FS_CardinalityType

-----------------------------------------------------------------------------
(* Elements of sequences, and sorting.                                     *)

\* The set of the elements of a sequence.
LEMMA RangeFacts ==
  ASSUME NEW T, NEW s \in Seq(T)
  PROVE  /\ DOMAIN s = 1 .. Len(s) /\ Len(s) \in Nat
         /\ \A x \in Range(s) : x \in T /\ \E i \in 1 .. Len(s) : s[i] = x
         /\ \A i \in 1 .. Len(s) : s[i] \in Range(s)
  <1>1. DOMAIN s = 1 .. Len(s) /\ Len(s) \in Nat /\ \A i \in 1 .. Len(s) : s[i] \in T
    BY LenProperties, ElementOfSeq
  <1> QED BY <1>1 DEF Range

\* Appending adds one element.
LEMMA RangeOfAppend ==
  ASSUME NEW T, NEW s \in Seq(T), NEW x \in T
  PROVE  /\ Append(s, x) \in Seq(T)
         /\ Range(Append(s, x)) = Range(s) \cup {x}
         /\ Distinct(s) /\ x \notin Range(s) => Distinct(Append(s, x))
  <1>1. PICK r \in Seq(T) : r = Append(s, x)
    BY AppendProperties
  <1>2. /\ Len(r) = Len(s) + 1 /\ Len(s) \in Nat
        /\ \A i \in 1 .. Len(s) : r[i] = s[i]
        /\ r[Len(s) + 1] = x
    BY <1>1, AppendProperties, LenProperties
  <1>3. \A i \in 1 .. Len(r) : i \in 1 .. Len(s) \/ i = Len(s) + 1
    BY <1>2
  <1>4. 1 .. Len(s) \subseteq 1 .. Len(r) /\ Len(s) + 1 \in 1 .. Len(r)
    BY <1>2
  <1>5. /\ DOMAIN s = 1 .. Len(s) /\ DOMAIN r = 1 .. Len(r)
    BY LenProperties
  <1>6. Range(r) = Range(s) \cup {x}
    BY <1>2, <1>3, <1>4, <1>5 DEF Range
  <1>7. ASSUME Distinct(s), x \notin Range(s) PROVE Distinct(r)
    BY <1>2, <1>3, <1>5, <1>7 DEF Distinct, Range
  <1> QED BY <1>1, <1>6, <1>7

\* Two sequences in one.
LEMMA RangeOfConcat ==
  ASSUME NEW T, NEW s \in Seq(T), NEW r \in Seq(T)
  PROVE  /\ s \o r \in Seq(T)
         /\ Range(s \o r) = Range(s) \cup Range(r)
         /\ Distinct(s) /\ Distinct(r) /\ Range(s) \cap Range(r) = {} => Distinct(s \o r)
  <1>1. PICK q \in Seq(T) : q = s \o r
    BY ConcatProperties
  <1>2. PICK m \in Nat, n \in Nat : m = Len(s) /\ n = Len(r)
    BY LenProperties
  <1>3. /\ Len(q) = m + n
        /\ \A i \in 1 .. m + n : q[i] = IF i <= m THEN s[i] ELSE r[i - m]
    BY <1>1, <1>2, ConcatProperties
  <1>4. /\ DOMAIN s = 1 .. m /\ DOMAIN r = 1 .. n /\ DOMAIN q = 1 .. m + n
    BY <1>2, <1>3, LenProperties
  <1>5. ASSUME NEW i \in 1 .. m + n
        PROVE  \/ i \in 1 .. m /\ q[i] = s[i]
               \/ i - m \in 1 .. n /\ q[i] = r[i - m] /\ i = m + (i - m)
    BY <1>3
  <1>6. ASSUME NEW i \in 1 .. m PROVE i \in 1 .. m + n /\ q[i] = s[i]
    BY <1>3
  <1>7. ASSUME NEW i \in 1 .. n PROVE i + m \in 1 .. m + n /\ q[i + m] = r[i]
    <2>1. i + m \in 1 .. m + n /\ ~(i + m <= m) /\ i + m - m = i
      OBVIOUS
    <2> QED BY <1>3, <2>1
  <1>8. Range(q) = Range(s) \cup Range(r)
    <2>1. Range(q) \subseteq Range(s) \cup Range(r)
      BY <1>4, <1>5 DEF Range
    <2>2. Range(s) \subseteq Range(q)
      BY <1>4, <1>6 DEF Range
    <2>3. Range(r) \subseteq Range(q)
      BY <1>4, <1>7 DEF Range
    <2> QED BY <2>1, <2>2, <2>3
  <1>9. ASSUME Distinct(s), Distinct(r), Range(s) \cap Range(r) = {} PROVE Distinct(q)
    <2> SUFFICES ASSUME NEW i \in 1 .. m + n, NEW j \in 1 .. m + n, q[i] = q[j] PROVE i = j
      BY <1>3 DEF Distinct
    <2>1. \A a \in 1 .. m : s[a] \in Range(s)
      BY <1>4 DEF Range
    <2>2. \A a \in 1 .. n : r[a] \in Range(r)
      BY <1>4 DEF Range
    <2>3. CASE i \in 1 .. m /\ q[i] = s[i]
      <3>1. j \in 1 .. m /\ q[j] = s[j]
        BY <1>5, <1>9, <2>1, <2>2, <2>3
      <3> QED BY <1>2, <1>9, <2>3, <3>1 DEF Distinct
    <2>4. CASE i - m \in 1 .. n /\ q[i] = r[i - m] /\ i = m + (i - m)
      <3>1. j - m \in 1 .. n /\ q[j] = r[j - m] /\ j = m + (j - m)
        BY <1>5, <1>9, <2>1, <2>2, <2>4
      <3>2. i - m = j - m
        BY <1>2, <1>9, <2>4, <3>1 DEF Distinct
      <3> QED BY <2>4, <3>1, <3>2
    <2> QED BY <1>5, <2>3, <2>4
  <1> QED BY <1>1, <1>8, <1>9

\* What is left of a sequence.
LEMMA RangeOfWithout ==
  ASSUME NEW T, NEW s \in Seq(T), NEW S
  PROVE  /\ Without(s, S) \in Seq(T)
         /\ Range(Without(s, S)) = Range(s) \ S
         /\ Distinct(s) => Distinct(Without(s, S))
  <1>1. PICK q \in Seq(T) : q = Without(s, S)
    BY WithoutProperties
  <1>2. PICK e : LeavesOf(e, q, s, Len(s), S)
    BY <1>1, WithoutKeepsOrder
  <1>3. /\ DOMAIN s = 1 .. Len(s) /\ DOMAIN q = 1 .. Len(q)
    BY LenProperties
  <1>4. Range(q) \subseteq Range(s) \ S
    BY <1>2, <1>3 DEF Range, LeavesOf
  <1>5. Range(s) \ S \subseteq Range(q)
    <2> SUFFICES ASSUME NEW k \in 1 .. Len(s), s[k] \notin S PROVE s[k] \in Range(q)
      BY <1>3 DEF Range
    <2>1. PICK i \in 1 .. Len(q) : e[i] = k
      BY <1>2 DEF LeavesOf
    <2>2. q[i] = s[k]
      BY <1>2, <2>1 DEF LeavesOf
    <2> QED BY <1>3, <2>2 DEF Range
  <1> QED BY <1>1, <1>4, <1>5, WithoutDistinct

\* An element is put in, and nothing else changes.
LEMMA RangeOfInserted ==
  ASSUME NEW T, NEW q \in Seq(T), NEW x \in T, NEW B
  PROVE  /\ Inserted(q, x, B) \in Seq(T)
         /\ Range(Inserted(q, x, B)) = Range(q) \cup {x}
         /\ Distinct(q) /\ x \notin Range(q) => Distinct(Inserted(q, x, B))
  <1>1. PICK f \in Seq(T) : f = Without(q, B) /\ Range(f) = Range(q) \ B /\ (Distinct(q) => Distinct(f))
    BY RangeOfWithout
  <1>2. PICK g \in Seq(T) : /\ g = Without(q, Range(q) \ B) /\ Range(g) = Range(q) \ (Range(q) \ B)
                            /\ Distinct(q) => Distinct(g)
    BY RangeOfWithout
  <1>3. PICK y \in Seq(T) : y = <<x>> /\ Len(y) = 1 /\ y[1] = x
    <2>1. <<x>> \in Seq(T) /\ Len(<<x>>) = 1 /\ <<x>>[1] = x
      OBVIOUS
    <2> QED BY <2>1
  <1>8. Range(y) = {x} /\ Distinct(y)
    <2>1. DOMAIN y = 1 .. 1 /\ \A i \in 1 .. 1 : i = 1
      BY <1>3, LenProperties
    <2>2. 1 \in 1 .. 1
      OBVIOUS
    <2> QED BY <1>3, <2>1, <2>2 DEF Range, Distinct
  <1>4. PICK h \in Seq(T) : /\ h = f \o y /\ Range(h) = Range(f) \cup Range(y)
                            /\ Distinct(f) /\ Distinct(y) /\ Range(f) \cap Range(y) = {} => Distinct(h)
    BY RangeOfConcat
  <1>5. PICK r \in Seq(T) : /\ r = h \o g /\ Range(r) = Range(h) \cup Range(g)
                            /\ Distinct(h) /\ Distinct(g) /\ Range(h) \cap Range(g) = {} => Distinct(r)
    BY <1>4, RangeOfConcat
  <1>6. Inserted(q, x, B) = r
    BY <1>1, <1>2, <1>3, <1>4, <1>5 DEF Inserted
  <1>7. Range(r) = Range(q) \cup {x}
    BY <1>1, <1>2, <1>4, <1>5, <1>8
  <1>9. ASSUME Distinct(q), x \notin Range(q) PROVE Distinct(r)
    <2>1. Distinct(f) /\ Distinct(g) /\ Range(f) \cap Range(y) = {} /\ Range(h) \cap Range(g) = {}
      BY <1>1, <1>2, <1>4, <1>8, <1>9
    <2> QED BY <1>4, <1>5, <1>8, <2>1
  <1> QED BY <1>6, <1>7, <1>9
\* What the recursion of Sorted defines.
SortedBySteps(g, s) ==
  /\ g[0] = <<>>
  /\ \A n \in 1 .. Len(s) : \E B : g[n] = Inserted(g[n - 1], s[n], B)
  /\ Sorted(s) = g[Len(s)]

\* The steps of Sorted keep the elements so far.
LEMMA SortedSteps ==
  ASSUME NEW s \in Seq(Int)
  PROVE  \E g : SortedBySteps(g, s)
  <1> DEFINE U == Seq(Int)
             e == <<>>
             G == [p \in Nat \X U |->
                     IF p[1] \in 1 .. Len(s)
                     THEN Inserted(p[2], s[p[1]], {x \in Range(p[2]) : x > s[p[1]]}) ELSE p[2]]
             Is(f) == f = [n \in 0 .. Len(s) |-> IF n = 0 THEN <<>> ELSE
                             Inserted(f[n - 1], s[n], {x \in Range(f[n - 1]) : x > s[n]})]
  <1>1. Len(s) \in Nat /\ e \in U /\ \A i \in 1 .. Len(s) : s[i] \in Int
    BY LenProperties, ElementOfSeq, EmptySeq
  <1>2. G \in [Nat \X U -> U]
    <2> SUFFICES ASSUME NEW k \in Nat, NEW q \in U
                 PROVE  (IF k \in 1 .. Len(s) THEN Inserted(q, s[k], {x \in Range(q) : x > s[k]})
                         ELSE q) \in U
      OBVIOUS
    <2> QED BY <1>1, RangeOfInserted
  <1>3. PICK f \in [0 .. Len(s) -> U] :
          Recursive(f, Len(s), e, G)
    <2> HIDE DEF G, U, e
    <2> QED BY <1>1, <1>2, Recursion
  <1>4. Is(f)
    <2>1. ASSUME NEW n \in 0 .. Len(s), n # 0
          PROVE  G[<<n, f[n - 1]>>] = Inserted(f[n - 1], s[n], {x \in Range(f[n - 1]) : x > s[n]})
      <3>0. n \in 1 .. Len(s) /\ n - 1 \in 0 .. Len(s)
        BY ONLY <1>1, <2>1, n \in 0 .. Len(s)
      <3>1. n \in 1 .. Len(s) /\ n - 1 \in 0 .. Len(s) /\ f[n - 1] \in U
        <4> HIDE DEF U
        <4> QED BY ONLY <3>0, f \in [0 .. Len(s) -> U]
      <3>2. <<n, f[n - 1]>> \in Nat \X U
        BY <3>1
      <3> HIDE DEF U
      <3> QED BY <3>1, <3>2
    <2> HIDE DEF G
    <2> QED BY <1>3, <2>1 DEF Recursive
  <1>5. PICK g : Is(g) /\ Sorted(s) = g[Len(s)]
    <2>1. Sorted(s) = (CHOOSE g : Is(g))[Len(s)]
      BY DEF Sorted
    <2> HIDE DEF Is
    <2> QED BY <1>4, <2>1
  <1> DEFINE Step(n) == g[n] = IF n = 0 THEN <<>> ELSE
                                 Inserted(g[n - 1], s[n], {x \in Range(g[n - 1]) : x > s[n]})
  <1>6. \A n \in 0 .. Len(s) : Step(n)
    <2> HIDE DEF G, U, e
    <2> QED BY <1>5, Zenon
  <1>7. \A n \in 1 .. Len(s) : n \in 0 .. Len(s) /\ n # 0
    BY <1>1
  <1>8. 0 \in 0 .. Len(s)
    BY <1>1
  <1>9. g[0] = <<>>
    BY <1>6, <1>8
  <1> HIDE DEF Is
  <1>10. ASSUME NEW n \in 1 .. Len(s)
         PROVE  \E B : g[n] = Inserted(g[n - 1], s[n], B)
    <2>1. g[n] = Inserted(g[n - 1], s[n], {x \in Range(g[n - 1]) : x > s[n]})
      BY <1>6, <1>7
    <2> QED BY <2>1
  <1> QED BY <1>5, <1>9, <1>10 DEF SortedBySteps

\* Sorting keeps the numbers.
LEMMA RangeOfSorted ==
  ASSUME NEW s \in Seq(Int)
  PROVE  /\ Sorted(s) \in Seq(Int)
         /\ Range(Sorted(s)) = Range(s)
         /\ Distinct(s) => Distinct(Sorted(s))
  <1>1. Len(s) \in Nat /\ DOMAIN s = 1 .. Len(s) /\ \A i \in 1 .. Len(s) : s[i] \in Int
    BY LenProperties, ElementOfSeq
  <1>2. PICK g : SortedBySteps(g, s)
    BY SortedSteps
  <1> DEFINE First(n) == {s[i] : i \in 1 .. n}
             Fine(n) == /\ g[n] \in Seq(Int) /\ Range(g[n]) = First(n)
                        /\ Distinct(s) => Distinct(g[n])
             Q == {n \in Nat : n <= Len(s) => Fine(n)}
  <1>3. 0 \in Q
    <2>1. g[0] = <<>>
      BY <1>2 DEF SortedBySteps
    <2>2. <<>> \in Seq(Int) /\ Range(<<>>) = {} /\ Distinct(<<>>)
      BY EmptySeq DEF Range, Distinct
    <2>3. First(0) = {}
      OBVIOUS
    <2> HIDE DEF First
    <2> QED BY <2>1, <2>2, <2>3
  <1>4. ASSUME NEW n \in Nat, n \in Q PROVE n + 1 \in Q
    <2> SUFFICES ASSUME n + 1 <= Len(s) PROVE Fine(n + 1)
      OBVIOUS
    <2>1. n + 1 \in 1 .. Len(s) /\ n + 1 - 1 = n /\ n <= Len(s)
      BY <1>1
    <2>2. g[n] \in Seq(Int) /\ Range(g[n]) = First(n) /\ (Distinct(s) => Distinct(g[n]))
      BY <1>4, <2>1
    <2>3. s[n + 1] \in Int
      BY <1>1, <2>1
    <2>4. PICK B : g[n + 1] = Inserted(g[n + 1 - 1], s[n + 1], B)
      BY <1>2, <2>1 DEF SortedBySteps
    <2>5. PICK q \in Seq(Int), y \in Int : q = g[n] /\ y = s[n + 1]
      BY <2>2, <2>3
    <2>7. g[n + 1] = Inserted(q, y, B)
      BY <2>1, <2>4, <2>5
    <2>6. PICK r \in Seq(Int) : /\ r = Inserted(q, y, B) /\ Range(r) = Range(q) \cup {y}
                                /\ Distinct(q) /\ y \notin Range(q) => Distinct(r)
      BY RangeOfInserted
    <2>8. /\ g[n + 1] \in Seq(Int) /\ Range(g[n + 1]) = First(n) \cup {s[n + 1]}
          /\ Distinct(q) /\ s[n + 1] \notin First(n) => Distinct(g[n + 1])
      <3> HIDE DEF First
      <3>1. g[n + 1] = r
        BY <2>6, <2>7
      <3>2. Range(q) = First(n)
        BY <2>2, <2>5
      <3>3. Range(r) = First(n) \cup {s[n + 1]} /\ (Distinct(q) /\ s[n + 1] \notin First(n) => Distinct(r))
        BY <2>5, <2>6, <3>2
      <3> QED BY <3>1, <3>3, Zenon
    <2>9. \A i \in 1 .. n + 1 : i \in 1 .. n \/ i = n + 1
      OBVIOUS
    <2>10. 1 .. n \subseteq 1 .. n + 1 /\ n + 1 \in 1 .. n + 1
      OBVIOUS
    <2>11. First(n + 1) = First(n) \cup {s[n + 1]}
      BY <2>9, <2>10
    <2>12. Distinct(s) => s[n + 1] \notin First(n)
      <3> SUFFICES ASSUME Distinct(s), NEW i \in 1 .. n, s[n + 1] = s[i] PROVE FALSE
        OBVIOUS
      <3>1. i \in 1 .. Len(s) /\ i # n + 1
        BY <1>1, <2>1
      <3> QED BY <2>1, <3>1 DEF Distinct
    <2> HIDE DEF First
    <2> QED BY <2>2, <2>5, <2>8, <2>11, <2>12
  <1>5. \A n \in Nat : n \in Q
    <2> HIDE DEF Q
    <2> QED BY <1>3, <1>4, Induction
  <1>6. Fine(Len(s))
    <2>1. Len(s) \in Q
      BY <1>1, <1>5
    <2>2. Len(s) <= Len(s)
      BY <1>1
    <2> HIDE DEF Fine
    <2> QED BY <2>1, <2>2
  <1>7. First(Len(s)) = Range(s)
    BY <1>1 DEF Range
  <1> HIDE DEF First
  <1> QED BY <1>2, <1>6, <1>7 DEF SortedBySteps

\* What is left of b after its first p elements.
LEMMA RangeOfSuffix ==
  ASSUME NEW T, NEW b \in Seq(T), NEW p \in 0 .. Len(b)
  PROVE  /\ SubSeq(b, p + 1, Len(b)) \in Seq(T)
         /\ \A x \in Range(SubSeq(b, p + 1, Len(b))) : \E i \in p + 1 .. Len(b) : x = b[i]
         /\ \A i \in p + 1 .. Len(b) : b[i] \in Range(SubSeq(b, p + 1, Len(b)))
         /\ Distinct(b) => Distinct(SubSeq(b, p + 1, Len(b)))
  <1>1. PICK m \in Nat : m = Len(b)
    BY LenProperties
  <1>2. PICK r \in Seq(T) : r = SubSeq(b, p + 1, Len(b))
    BY Suffix
  <1>3. Len(r) = m - p /\ \A i \in 1 .. m - p : r[i] = b[p + i]
    BY <1>1, <1>2, Suffix
  <1>4. \A x \in Range(r) : \E i \in 1 .. m - p : r[i] = x
    BY <1>3, RangeFacts
  <1>5. \A i \in 1 .. m - p : r[i] \in Range(r)
    BY <1>3, RangeFacts
  <1>6. \A i \in 1 .. m - p : p + i \in p + 1 .. m
    BY <1>1
  <1>7. \A i \in p + 1 .. m : i - p \in 1 .. m - p /\ p + (i - p) = i
    BY <1>1
  <1>8. \A x \in Range(r) : \E i \in p + 1 .. m : x = b[i]
    BY <1>3, <1>4, <1>6
  <1>9. \A i \in p + 1 .. m : b[i] \in Range(r)
    <2> SUFFICES ASSUME NEW i \in p + 1 .. m PROVE b[i] \in Range(r)
      OBVIOUS
    <2>1. PICK j \in 1 .. m - p : p + j = i
      BY <1>7
    <2> QED BY <1>3, <1>5, <2>1
  <1>10. ASSUME Distinct(b) PROVE Distinct(r)
    <2> SUFFICES ASSUME NEW i \in 1 .. m - p, NEW j \in 1 .. m - p, r[i] = r[j] PROVE i = j
      BY <1>3 DEF Distinct
    <2>1. PICK h \in 1 .. m, l \in 1 .. m : h = p + i /\ l = p + j
      BY <1>1
    <2>2. h = l
      BY <1>1, <1>3, <1>10, <2>1 DEF Distinct
    <2> QED BY <2>1, <2>2
  <1> QED BY <1>1, <1>2, <1>8, <1>9, <1>10

\* The first of the elements and the others.
LEMMA HeadAndTail ==
  ASSUME NEW T, NEW s \in Seq(T), s # <<>>
  PROVE  /\ Head(s) \in T /\ Tail(s) \in Seq(T)
         /\ Range(s) = {Head(s)} \cup Range(Tail(s))
         /\ Distinct(s) => Head(s) \notin Range(Tail(s)) /\ Distinct(Tail(s))
  <1>1. PICK m \in Nat : m = Len(s) /\ m > 0 /\ DOMAIN s = 1 .. m
    BY LenProperties, EmptySeq
  <1>2. PICK t \in Seq(T) : t = Tail(s)
    BY HeadTailProperties
  <1>3. PICK n \in Nat : n = m - 1 /\ n + 1 = m
    BY <1>1
  <1>4. Len(t) = n /\ \A i \in 1 .. n : t[i] = s[i + 1]
    BY <1>1, <1>2, <1>3, HeadTailProperties
  <1>5. DOMAIN t = 1 .. n
    BY <1>2, <1>4, LenProperties
  <1>6. Head(s) = s[1] /\ s[1] \in T
    BY <1>1, HeadTailProperties, ElementOfSeq
  <1>7. \A i \in 1 .. m : i = 1 \/ \E a \in 1 .. n : i = a + 1
    BY <1>3
  <1>8. \A a \in 1 .. n : a + 1 \in 1 .. m /\ a + 1 # 1
    BY <1>3
  <1>9. Range(s) = {s[1]} \cup Range(t)
    <2>1. 1 \in 1 .. m
      BY <1>1
    <2>2. ASSUME NEW x \in Range(s) PROVE x \in {s[1]} \cup Range(t)
      <3>1. PICK i \in 1 .. m : x = s[i]
        BY <1>1 DEF Range
      <3>2. CASE i # 1
        <4>1. PICK a \in 1 .. n : i = a + 1
          BY <1>7, <3>2
        <4>2. x = t[a]
          BY <1>4, <3>1, <4>1
        <4> QED BY <1>5, <4>2 DEF Range
      <3> QED BY <3>1, <3>2
    <2>3. ASSUME NEW x \in Range(t) PROVE x \in Range(s)
      <3>1. PICK a \in 1 .. n : x = t[a]
        BY <1>5 DEF Range
      <3>2. x = s[a + 1] /\ a + 1 \in 1 .. m
        BY <1>4, <1>8, <3>1
      <3> QED BY <1>1, <3>2 DEF Range
    <2>4. s[1] \in Range(s)
      BY <1>1, <2>1 DEF Range
    <2> QED BY <2>2, <2>3, <2>4
  <1>10. ASSUME Distinct(s) PROVE s[1] \notin Range(t) /\ Distinct(t)
    <2>1. \A i, l \in 1 .. m : s[i] = s[l] => i = l
      BY <1>1, <1>10 DEF Distinct
    <2>2. 1 \in 1 .. m
      BY <1>1
    <2>3. s[1] \notin Range(t)
      <3> SUFFICES ASSUME NEW a \in 1 .. n, t[a] = s[1] PROVE FALSE
        BY <1>5 DEF Range
      <3>1. a + 1 = 1
        BY <1>4, <1>8, <2>1, <2>2
      <3> QED BY <3>1
    <2>4. \A a, b \in 1 .. n : t[a] = t[b] => a = b
      <3> SUFFICES ASSUME NEW a \in 1 .. n, NEW b \in 1 .. n, t[a] = t[b] PROVE a = b
        OBVIOUS
      <3>1. PICK i \in 1 .. m, l \in 1 .. m : i = a + 1 /\ l = b + 1
        BY <1>8
      <3>2. s[i] = t[a] /\ s[l] = t[b]
        BY <1>4, <3>1
      <3>3. i = l
        BY ONLY <2>1, <3>2, t[a] = t[b], i \in 1 .. m, l \in 1 .. m
      <3>4. a \in Int /\ b \in Int
        OBVIOUS
      <3> QED BY ONLY <3>1, <3>3, <3>4
    <2> QED BY <1>5, <2>3, <2>4 DEF Distinct
  <1> QED BY <1>2, <1>6, <1>9, <1>10

\* The size of a set of at most one element.
LEMMA AtMostOne ==
  ASSUME NEW S, \A x, y \in S : x = y
  PROVE  /\ Cardinality(S) \in {0, 1}
         /\ S = {} => Cardinality(S) = 0
  <1>1. CASE S = {}
    BY <1>1, FS_EmptySet
  <1>2. CASE S # {}
    <2>1. PICK x \in S : S = {x}
      BY <1>2
    <2> QED BY <1>2, <2>1, FS_Singleton
  <1> QED BY <1>1, <1>2

-----------------------------------------------------------------------------
(* Sums of stretches.                                                      *)

\* The sum of a stretch is the difference of the sums up to its ends.
LEMMA SumOfStretch ==
  ASSUME NEW s, NEW k \in Nat, NEW m \in Nat, \A i \in 1 .. k + m : s[i] \in Int,
         NEW r, \A i \in 1 .. m : r[i] = s[k + i]
  PROVE  /\ SumUpTo(r, m) \in Int /\ SumUpTo(s, k) \in Int /\ SumUpTo(s, k + m) \in Int
         /\ SumUpTo(r, m) = SumUpTo(s, k + m) - SumUpTo(s, k)
  <1> DEFINE Q == {j \in Nat : j <= m => SumUpTo(r, j) = SumUpTo(s, k + j) - SumUpTo(s, k)}
  <1>1. /\ \A j \in 0 .. k + m : SumUpTo(s, j) \in Int
        /\ \A j \in 1 .. k + m : SumUpTo(s, j) = SumUpTo(s, j - 1) + s[j]
    BY SumUpToProperties
  <1>2. \A i \in 1 .. m : k + i \in 1 .. k + m /\ r[i] \in Int
    OBVIOUS
  <1>3. /\ SumUpTo(r, 0) = 0 /\ \A j \in 0 .. m : SumUpTo(r, j) \in Int
        /\ \A j \in 1 .. m : SumUpTo(r, j) = SumUpTo(r, j - 1) + r[j]
    BY <1>2, SumUpToProperties
  <1>4. 0 \in Q
    <2>1. k \in 0 .. k + m /\ k + 0 = k
      OBVIOUS
    <2> QED BY <1>1, <1>3, <2>1
  <1>5. ASSUME NEW j \in Nat, j \in Q PROVE j + 1 \in Q
    <2> SUFFICES ASSUME j + 1 <= m
                 PROVE  SumUpTo(r, j + 1) = SumUpTo(s, k + (j + 1)) - SumUpTo(s, k)
      OBVIOUS
    <2>1. /\ j + 1 \in 1 .. m /\ j + 1 - 1 = j /\ k + (j + 1) \in 1 .. k + m /\ k + (j + 1) - 1 = k + j
          /\ k \in 0 .. k + m /\ k + j \in 0 .. k + m /\ j \in 0 .. m
      OBVIOUS
    <2>2. SumUpTo(r, j + 1) = SumUpTo(r, j) + r[j + 1]
      BY <1>3, <2>1
    <2>3. SumUpTo(s, k + (j + 1)) = SumUpTo(s, k + j) + s[k + (j + 1)]
      BY <1>1, <2>1
    <2>4. r[j + 1] = s[k + (j + 1)] /\ r[j + 1] \in Int
      BY <1>2, <2>1
    <2>5. SumUpTo(r, j) = SumUpTo(s, k + j) - SumUpTo(s, k)
      BY <1>5, <2>1
    <2>6. SumUpTo(s, k + j) \in Int /\ SumUpTo(s, k) \in Int
      BY <1>1, <2>1
    <2> QED BY <2>2, <2>3, <2>4, <2>5, <2>6
  <1>6. \A j \in Nat : j \in Q
    <2> HIDE DEF Q
    <2> QED BY <1>4, <1>5, Induction
  <1>7. m \in 0 .. m /\ k \in 0 .. k + m /\ k + m \in 0 .. k + m
    OBVIOUS
  <1> QED BY <1>1, <1>3, <1>6, <1>7

\* A sum of natural numbers grows with its end.
LEMMA SumGrows ==
  ASSUME NEW s, NEW k \in Nat, NEW m \in Nat, \A i \in 1 .. k + m : s[i] \in Nat
  PROVE  /\ SumUpTo(s, k) \in Int /\ SumUpTo(s, k + m) \in Int
         /\ SumUpTo(s, k) <= SumUpTo(s, k + m)
  <1> DEFINE Q == {j \in Nat : j <= m => SumUpTo(s, k) <= SumUpTo(s, k + j)}
  <1>1. /\ \A j \in 0 .. k + m : SumUpTo(s, j) \in Int
        /\ \A j \in 1 .. k + m : SumUpTo(s, j) = SumUpTo(s, j - 1) + s[j]
    BY SumUpToProperties
  <1>2. k \in 0 .. k + m /\ k + m \in 0 .. k + m /\ k + 0 = k
    OBVIOUS
  <1>3. 0 \in Q
    BY <1>1, <1>2
  <1>4. ASSUME NEW j \in Nat, j \in Q PROVE j + 1 \in Q
    <2> SUFFICES ASSUME j + 1 <= m PROVE SumUpTo(s, k) <= SumUpTo(s, k + (j + 1))
      OBVIOUS
    <2>1. k + (j + 1) \in 1 .. k + m /\ k + (j + 1) - 1 = k + j /\ k + j \in 0 .. k + m
      OBVIOUS
    <2>2. /\ SumUpTo(s, k + (j + 1)) = SumUpTo(s, k + j) + s[k + (j + 1)]
          /\ s[k + (j + 1)] \in Nat /\ SumUpTo(s, k + j) \in Int /\ SumUpTo(s, k) \in Int
      BY <1>1, <1>2, <2>1
    <2>3. SumUpTo(s, k) <= SumUpTo(s, k + j)
      BY <1>4
    <2> QED BY <2>2, <2>3
  <1>5. \A j \in Nat : j \in Q
    <2> HIDE DEF Q
    <2> QED BY <1>3, <1>4, Induction
  <1>6. m \in Q
    <2> HIDE DEF Q
    <2> QED BY ONLY <1>5, m \in Nat
  <1>7. SumUpTo(s, k) <= SumUpTo(s, k + m)
    BY ONLY <1>6, m \in Nat
  <1>8. SumUpTo(s, k) \in Int /\ SumUpTo(s, k + m) \in Int
    BY ONLY <1>1, <1>2
  <1> QED BY ONLY <1>7, <1>8

\* Consecutive numbers are an interval.
LEMMA Consecutive ==
  ASSUME NEW k \in Nat, NEW l \in Nat, NEW s, \A i \in 1 .. l : s[i] = k + i
  PROVE  {s[i] : i \in 1 .. l} = k + 1 .. k + l
  <1>1. ASSUME NEW j \in k + 1 .. k + l PROVE j \in {s[i] : i \in 1 .. l}
    <2>1. j - k \in 1 .. l /\ j = k + (j - k)
      OBVIOUS
    <2>2. PICK i \in 1 .. l : j = k + i
      BY <2>1
    <2> QED BY <2>2
  <1>2. \A i \in 1 .. l : k + i \in k + 1 .. k + l
    OBVIOUS
  <1> QED BY <1>1, <1>2
=============================================================================
