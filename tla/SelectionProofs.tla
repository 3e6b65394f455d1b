-------------------------- MODULE SelectionProofs --------------------------
(***************************************************************************)
(* What selecting yields, and how it changes as the sequence grows at its  *)
(* end and shrinks at its head; and what a sequence of sequences is when   *)
(* it is flattened.                                                        *)
(***************************************************************************)
EXTENDS Selection, SequencesExt, FiniteSetTheorems, SequenceTheorems, WellFoundedInduction, TLAPS

-----------------------------------------------------------------------------
(* Ranks: the places of a finite set of numbers are numbered 1 to its size. *)

LEMMA RankOfNumbers ==
  ASSUME NEW I \in SUBSET Nat, IsFiniteSet(I)
  PROVE  /\ Cardinality(I) \in Nat
         /\ \A i \in I : Rank(I, i) \in 1..Cardinality(I)
         /\ \A i, j \in I : i < j => Rank(I, i) < Rank(I, j)
<1>1. IsFiniteSet(I) /\ Cardinality(I) \in Nat
  BY FS_CardinalityType
<1>2. ASSUME NEW i \in I
      PROVE  Rank(I, i) \in 1..Cardinality(I)
  <2> DEFINE low == {j \in I : j <= i}
  <2>1. low \in SUBSET I /\ i \in low
    OBVIOUS
  <2>2. IsFiniteSet(low) /\ Cardinality(low) <= Cardinality(I) /\ Cardinality(low) \in Nat
    BY <1>1, <2>1, FS_Subset, FS_CardinalityType
  <2>3. Cardinality(low) # 0
    BY <2>1, <2>2, FS_EmptySet
  <2>4. QED
    BY <1>1, <2>2, <2>3 DEF Rank
<1>3. ASSUME NEW i \in I, NEW j \in I, i < j
      PROVE  Rank(I, i) < Rank(I, j)
  <2> DEFINE below == {x \in I : x <= i}
             upto  == {x \in I : x <= j}
  <2>1. below \in SUBSET upto /\ upto \in SUBSET I /\ j \in upto /\ j \notin below
    <3>1. \A x \in I : x \in Int
      OBVIOUS
    <3>2. upto \in SUBSET I /\ j \in upto /\ j \notin below
      BY <1>3, <3>1
    <3>3. ASSUME NEW x \in below PROVE x \in upto
      BY <1>3, <3>1
    <3>4. QED
      BY <3>2, <3>3
  <2>2. IsFiniteSet(upto) /\ Cardinality(upto) \in Nat
    BY <1>1, <2>1, FS_Subset, FS_CardinalityType
  <2>3. IsFiniteSet(below) /\ Cardinality(below) \in Nat
    BY <2>1, <2>2, FS_Subset, FS_CardinalityType
  <2>4. Cardinality(below) <= Cardinality(upto) /\ Cardinality(below) # Cardinality(upto)
    BY <2>1, <2>2, FS_Subset
  <2>5. QED
    BY <2>2, <2>3, <2>4 DEF Rank
<1>4. QED
  BY <1>1, <1>2, <1>3

LEMMA RankShape ==
  ASSUME NEW n \in Nat, NEW I \in SUBSET (1..n)
  PROVE  /\ IsFiniteSet(I) /\ Cardinality(I) \in Nat
         /\ \A i \in I : Rank(I, i) \in 1..Cardinality(I)
         /\ \A i, j \in I : i < j => Rank(I, i) < Rank(I, j)
<1>1. IsFiniteSet(I)
  <2>1. IsFiniteSet(1..n)
    BY FS_Interval
  <2>2. QED
    BY <2>1, FS_Subset
<1>2. I \in SUBSET Nat
  OBVIOUS
<1>3. QED
  BY <1>1, <1>2, RankOfNumbers

LEMMA NthOfNumbers ==
  ASSUME NEW I \in SUBSET Nat, IsFiniteSet(I)
  PROVE  /\ \A k \in 1..Cardinality(I) : Nth(I, k) \in I /\ Rank(I, Nth(I, k)) = k
         /\ \A i \in I : Rank(I, i) \in 1..Cardinality(I) /\ Nth(I, Rank(I, i)) = i
<1> DEFINE N == Cardinality(I)
           rank == [i \in I |-> Rank(I, i)]
<1>1. /\ IsFiniteSet(I) /\ N \in Nat
      /\ \A i \in I : Rank(I, i) \in 1..N
      /\ \A i, j \in I : i < j => Rank(I, i) < Rank(I, j)
  BY RankOfNumbers
<1>2. \A i, j \in I : Rank(I, i) = Rank(I, j) => i = j
  <2>1. SUFFICES ASSUME NEW i \in I, NEW j \in I, Rank(I, i) = Rank(I, j), i # j
                 PROVE  FALSE
    OBVIOUS
  <2>2. Rank(I, i) \in Int /\ Rank(I, j) \in Int
    BY <1>1
  <2>3. i < j \/ j < i
    BY <2>1
  <2>4. QED
    BY <1>1, <2>1, <2>2, <2>3
<1>3. rank \in Injection(I, 1..N)
  BY <1>1, <1>2 DEF Injection, IsInjective
<1>4. IsFiniteSet(1..N) /\ Cardinality(1..N) = N
  BY <1>1, FS_Interval
<1>5. rank \in Surjection(I, 1..N)
  BY <1>3, <1>4, FS_Injection
<1>6. \A k \in 1..N : \E i \in I : Rank(I, i) = k
  BY <1>5 DEF Surjection
<1>7. \A k \in 1..N : Nth(I, k) \in I /\ Rank(I, Nth(I, k)) = k
  BY <1>6 DEF Nth
<1>8. \A i \in I : Nth(I, Rank(I, i)) = i
  BY <1>1, <1>2, <1>7
<1>9. QED
  BY <1>1, <1>7, <1>8

LEMMA NthShape ==
  ASSUME NEW n \in Nat, NEW I \in SUBSET (1..n)
  PROVE  /\ \A k \in 1..Cardinality(I) : Nth(I, k) \in I /\ Rank(I, Nth(I, k)) = k
         /\ \A i \in I : Nth(I, Rank(I, i)) = i
<1>1. IsFiniteSet(I)
  BY RankShape
<1>2. I \in SUBSET Nat
  OBVIOUS
<1>3. QED
  BY <1>1, <1>2, NthOfNumbers

\* A place after all others is the last.
LEMMA NthGrows ==
  ASSUME NEW n \in Nat, NEW I \in SUBSET (1..n)
  PROVE  /\ Cardinality(I \cup {n + 1}) = Cardinality(I) + 1
         /\ \A k \in 1..Cardinality(I) : Nth(I \cup {n + 1}, k) = Nth(I, k)
         /\ Nth(I \cup {n + 1}, Cardinality(I) + 1) = n + 1
<1> DEFINE J == I \cup {n + 1}
<1>1. J \in SUBSET (1..(n + 1)) /\ n + 1 \in Nat /\ n + 1 \notin I /\ n + 1 \in J
  OBVIOUS
<1>2. IsFiniteSet(I) /\ Cardinality(I) \in Nat
  BY RankShape
<1>3. Cardinality(J) = Cardinality(I) + 1
  BY <1>1, <1>2, FS_AddElement
<1>4. \A i \in I : Rank(J, i) = Rank(I, i)
  <2>1. SUFFICES ASSUME NEW i \in I PROVE Rank(J, i) = Rank(I, i)
    OBVIOUS
  <2>2. {j \in J : j <= i} = {j \in I : j <= i}
    OBVIOUS
  <2>3. QED
    BY <2>2 DEF Rank
<1>5. Rank(J, n + 1) = Cardinality(J)
  <2>1. \A j \in J : j <= n + 1
    BY <1>1
  <2>2. {j \in J : j <= n + 1} = J
    BY <2>1
  <2>3. QED
    BY <2>2 DEF Rank
<1>6. \A i \in J : Nth(J, Rank(J, i)) = i
  <2>1. J \in SUBSET (1..(n + 1)) /\ n + 1 \in Nat
    BY <1>1
  <2> HIDE DEF J
  <2>2. QED
    BY <2>1, NthShape
<1>7. ASSUME NEW k \in 1..Cardinality(I)
      PROVE  Nth(J, k) = Nth(I, k)
  <2>1. Nth(I, k) \in I /\ Rank(I, Nth(I, k)) = k
    BY NthShape
  <2>2. QED
    BY <1>4, <1>6, <2>1
<1>8. QED
  BY <1>1, <1>3, <1>5, <1>6, <1>7

\* One place to the left, the place 1 dropped.
Shifted(I) == {i - 1 : i \in I \ {1}}

LEMMA NthShifts ==
  ASSUME NEW n \in Nat, NEW I \in SUBSET (1..(n + 1))
  PROVE  /\ Shifted(I) \in SUBSET (1..n)
         /\ 1 \notin I => /\ Cardinality(Shifted(I)) = Cardinality(I)
                          /\ \A k \in 1..Cardinality(I) : Nth(Shifted(I), k) = Nth(I, k) - 1
         /\ 1 \in I => /\ Cardinality(Shifted(I)) = Cardinality(I) - 1
                       /\ Nth(I, 1) = 1
                       /\ \A k \in 1..(Cardinality(I) - 1) : Nth(Shifted(I), k) = Nth(I, k + 1) - 1
<1> DEFINE J == Shifted(I)
           R == I \ {1}
<1>1. J \in SUBSET (1..n)
  BY DEF Shifted
<1>2. IsFiniteSet(I) /\ Cardinality(I) \in Nat /\ n + 1 \in Nat
  <2>1. n + 1 \in Nat
    OBVIOUS
  <2>2. QED
    BY <2>1, RankShape
<1>3. /\ IsFiniteSet(R)
      /\ Cardinality(R) = IF 1 \in I THEN Cardinality(I) - 1 ELSE Cardinality(I)
  BY <1>2, FS_RemoveElement
\* Shifting keeps sizes.
<1>4. ASSUME NEW X \in SUBSET R
      PROVE  Cardinality({i - 1 : i \in X}) = Cardinality(X)
  <2> DEFINE less == [i \in X |-> i - 1]
             Y == {i - 1 : i \in X}
  <2>1. \A i, j \in X : i - 1 = j - 1 => i = j
    OBVIOUS
  <2>2. less \in Bijection(X, Y)
    BY <2>1 DEF Bijection, Injection, Surjection, IsInjective
  <2>3. IsFiniteSet(X)
    BY <1>3, FS_Subset
  <2>4. QED
    BY <2>2, <2>3, FS_Bijection DEF ExistsBijection
<1>5. Cardinality(J) = Cardinality(R)
  BY <1>4 DEF Shifted
<1>6. ASSUME NEW i \in R
      PROVE  Rank(I, i) = IF 1 \in I THEN Rank(J, i - 1) + 1 ELSE Rank(J, i - 1)
  <2> DEFINE X == {j \in R : j <= i}
             L == {j \in I : j <= i}
  <2>1. {j \in J : j <= i - 1} = {j - 1 : j \in X}
    BY DEF Shifted
  <2>2. Rank(J, i - 1) = Cardinality(X)
    BY <1>4, <2>1 DEF Rank
  <2>3. X = L \ {1} /\ (1 \in L <=> 1 \in I)
    OBVIOUS
  <2>4. IsFiniteSet(L) /\ Cardinality(L) \in Nat
    BY <1>2, FS_Subset, FS_CardinalityType
  <2>5. Cardinality(X) = IF 1 \in I THEN Cardinality(L) - 1 ELSE Cardinality(L)
    BY <2>3, <2>4, FS_RemoveElement
  <2>6. QED
    BY <2>2, <2>4, <2>5 DEF Rank
<1>7. /\ \A k \in 1..Cardinality(J) : Nth(J, k) \in J /\ Rank(J, Nth(J, k)) = k
      /\ \A i \in I : Nth(I, Rank(I, i)) = i
  BY <1>1, <1>2, NthShape
<1>8. \A x \in J : x + 1 \in R /\ (x + 1) - 1 = x /\ x \in Nat
  BY DEF Shifted
<1>9. CASE 1 \notin I
  <2>1. Cardinality(J) = Cardinality(I)
    BY <1>3, <1>5, <1>9
  <2>2. ASSUME NEW k \in 1..Cardinality(I)
        PROVE  Nth(J, k) = Nth(I, k) - 1
    <3> DEFINE x == Nth(J, k)
    <3>1. x \in J /\ Rank(J, x) = k
      BY <1>7, <2>1
    <3>2. x + 1 \in R /\ (x + 1) - 1 = x /\ x \in Nat
      BY <1>8, <3>1
    <3>3. Rank(I, x + 1) = k
      BY <1>6, <1>9, <3>1, <3>2
    <3>4. Nth(I, k) = x + 1
      BY <1>7, <3>2, <3>3
    <3>5. QED
      BY <3>2, <3>4
  <2>3. QED
    BY <1>1, <1>9, <2>1, <2>2
<1>10. CASE 1 \in I
  <2>1. Cardinality(J) = Cardinality(I) - 1
    BY <1>3, <1>5, <1>10
  <2>2. ASSUME NEW k \in 1..(Cardinality(I) - 1)
        PROVE  Nth(J, k) = Nth(I, k + 1) - 1
    <3> DEFINE x == Nth(J, k)
    <3>1. x \in J /\ Rank(J, x) = k
      BY <1>7, <2>1
    <3>2. x + 1 \in R /\ (x + 1) - 1 = x /\ x \in Nat
      BY <1>8, <3>1
    <3>3. Rank(I, x + 1) = k + 1
      BY <1>6, <1>10, <3>1, <3>2
    <3>4. Nth(I, k + 1) = x + 1
      BY <1>7, <3>2, <3>3
    <3>5. QED
      BY <3>2, <3>4
  <2>3. Nth(I, 1) = 1
    <3>1. {j \in I : j <= 1} = {1}
      <4>1. \A j \in I : j \in Nat \ {0}
        OBVIOUS
      <4>2. \A j \in I : j <= 1 => j = 1
        BY <4>1
      <4>3. 1 <= 1
        OBVIOUS
      <4>4. QED
        BY <1>10, <4>2, <4>3, Zenon
    <3>2. Rank(I, 1) = 1
      BY <3>1, FS_Singleton DEF Rank
    <3>3. QED
      BY <1>7, <1>10, <3>2
  <2>4. QED
    BY <1>1, <1>10, <2>1, <2>2, <2>3
<1>11. QED
  BY <1>9, <1>10

-----------------------------------------------------------------------------
(* Selections. *)

LEMMA SelectedShape ==
  ASSUME NEW T, NEW S, NEW seq \in Seq(T)
  PROVE  /\ Selected(seq, S) \in Seq(S \cap T)
         /\ Len(Selected(seq, S)) = Cardinality(Places(seq, S))
         /\ Cardinality(Places(seq, S)) \in Nat
<1> DEFINE I == Places(seq, S)
<1>1. Len(seq) \in Nat /\ I \in SUBSET (1..Len(seq))
  BY DEF Places
<1>2. Cardinality(I) \in Nat
  BY <1>1, RankShape
<1>3. \A k \in 1..Cardinality(I) : Nth(I, k) \in I
  BY <1>1, NthShape
<1>4. \A i \in I : seq[i] \in S \cap T
  BY ElementOfSeq DEF Places
<1>5. Selected(seq, S) \in [1..Cardinality(I) -> S \cap T]
  BY <1>3, <1>4 DEF Selected
<1>6. QED
  BY <1>2, <1>5, IsASeq, LenProperties

LEMMA SelectedNone ==
  ASSUME NEW S
  PROVE  Selected(<<>>, S) = <<>>
<1>1. Places(<<>>, S) = {}
  BY DEF Places
<1>2. Cardinality({}) = 0
  BY FS_EmptySet
<1>3. Selected(<<>>, S) \in Seq(S \cap {}) /\ Len(Selected(<<>>, S)) = 0
  BY <1>1, <1>2, SelectedShape, EmptySeq
<1>4. QED
  BY <1>3

LEMMA SelectedAppend ==
  ASSUME NEW T, NEW S, NEW seq \in Seq(T), NEW e \in T
  PROVE  Selected(Append(seq, e), S) = IF e \in S THEN Append(Selected(seq, S), e) ELSE Selected(seq, S)
<1> DEFINE I == Places(seq, S)
           longer == Append(seq, e)
           J == Places(longer, S)
           n == Len(seq)
<1>1. n \in Nat /\ I \in SUBSET (1..n)
  BY DEF Places
<1>2. /\ longer \in Seq(T) /\ Len(longer) = n + 1
      /\ \A i \in 1..n : longer[i] = seq[i]
      /\ longer[n + 1] = e
  BY AppendProperties
<1>3. J = IF e \in S THEN I \cup {n + 1} ELSE I
  BY <1>1, <1>2 DEF Places
<1>4. \A k \in 1..Cardinality(I) : Nth(I, k) \in 1..n
  BY <1>1, NthShape
<1>5. CASE e \notin S
  <2>1. J = I
    BY <1>3, <1>5
  <2>2. QED
    BY <1>2, <1>4, <1>5, <2>1 DEF Selected
<1>6. CASE e \in S
  <2> DEFINE N == Cardinality(I)
  <2>1. J = I \cup {n + 1} /\ N \in Nat
    BY <1>1, <1>3, <1>6, RankShape
  <2>2. /\ Cardinality(J) = N + 1
        /\ \A k \in 1..N : Nth(J, k) = Nth(I, k)
        /\ Nth(J, N + 1) = n + 1
    <3>1. /\ Cardinality(I \cup {n + 1}) = Cardinality(I) + 1
          /\ \A k \in 1..Cardinality(I) : Nth(I \cup {n + 1}, k) = Nth(I, k)
          /\ Nth(I \cup {n + 1}, Cardinality(I) + 1) = n + 1
      BY <1>1, NthGrows
    <3>2. QED
      BY <2>1, <3>1, Zenon
  <2>3. /\ Selected(seq, S) \in Seq(T) /\ Len(Selected(seq, S)) = N
        /\ Selected(longer, S) \in Seq(T) /\ Len(Selected(longer, S)) = N + 1
    <3>1. Seq(S \cap T) \subseteq Seq(T)
      BY SeqMonotonic
    <3>2. QED
      BY <1>2, <2>2, <3>1, SelectedShape
  <2>4. /\ Append(Selected(seq, S), e) \in Seq(T) /\ Len(Append(Selected(seq, S), e)) = N + 1
        /\ \A k \in 1..N : Append(Selected(seq, S), e)[k] = Selected(seq, S)[k]
        /\ Append(Selected(seq, S), e)[N + 1] = e
    BY <2>3, AppendProperties
  <2>5. ASSUME NEW k \in 1..(N + 1)
        PROVE  Selected(longer, S)[k] = Append(Selected(seq, S), e)[k]
    <3>1. Selected(longer, S)[k] = longer[Nth(J, k)]
      BY <2>2 DEF Selected
    <3>2. CASE k \in 1..N
      <4>1. Selected(seq, S)[k] = seq[Nth(I, k)]
        BY <3>2 DEF Selected
      <4>2. QED
        BY <1>2, <1>4, <2>2, <2>4, <3>1, <3>2, <4>1
    <3>3. CASE k = N + 1
      BY <1>2, <2>2, <2>4, <3>1, <3>3
    <3>4. k \in 1..N \/ k = N + 1
      BY <2>1, <2>5
    <3>5. QED
      BY <3>2, <3>3, <3>4
  <2>6. QED
    BY <1>6, <2>3, <2>4, <2>5, SeqEqual
<1>7. QED
  BY <1>5, <1>6

LEMMA SelectedTail ==
  ASSUME NEW T, NEW S, NEW seq \in Seq(T), seq # <<>>
  PROVE  /\ Head(seq) \notin S => Selected(Tail(seq), S) = Selected(seq, S)
         /\ Head(seq) \in S =>
              /\ Selected(seq, S) # <<>> /\ Head(Selected(seq, S)) = Head(seq)
              /\ Tail(Selected(seq, S)) = Selected(Tail(seq), S)
<1> DEFINE I == Places(seq, S)
           rest == Tail(seq)
           J == Places(rest, S)
           n == Len(rest)
<1>1. /\ rest \in Seq(T) /\ n \in Nat /\ Len(seq) = n + 1
      /\ \A i \in 1..n : rest[i] = seq[i + 1]
      /\ Head(seq) = seq[1]
  BY HeadTailProperties, LenProperties
<1>2. I \in SUBSET (1..(n + 1)) /\ (1 \in I <=> Head(seq) \in S)
  BY <1>1 DEF Places
<1>3. J = Shifted(I)
  <2>1. \A j \in J : j + 1 \in I \ {1} /\ j = (j + 1) - 1
    BY <1>1 DEF Places
  <2>2. \A i \in I \ {1} : i - 1 \in J
    <3>1. SUFFICES ASSUME NEW i \in I \ {1} PROVE i - 1 \in J
      OBVIOUS
    <3>2. i - 1 \in 1..n /\ (i - 1) + 1 = i /\ seq[i] \in S
      BY <1>1, <1>2 DEF Places
    <3>3. rest[i - 1] = seq[i]
      BY <1>1, <3>2
    <3>4. QED
      BY <3>2, <3>3 DEF Places
  <2>3. QED
    BY <2>1, <2>2 DEF Shifted
<1>4. Cardinality(I) \in Nat /\ \A k \in 1..Cardinality(I) : Nth(I, k) \in I
  <2>1. n + 1 \in Nat
    BY <1>1
  <2>2. QED
    BY <1>2, <2>1, RankShape, NthShape
<1>5. \A k \in 1..Cardinality(J) : Nth(J, k) \in 1..n
  <2>1. J \in SUBSET (1..n)
    BY DEF Places
  <2>2. QED
    BY <1>1, <2>1, NthShape
<1>6. /\ Selected(seq, S) \in Seq(S \cap T) /\ Len(Selected(seq, S)) = Cardinality(I)
      /\ Selected(rest, S) \in Seq(S \cap T) /\ Len(Selected(rest, S)) = Cardinality(J)
  BY <1>1, SelectedShape
<1>7. CASE Head(seq) \notin S
  <2>1. /\ Cardinality(J) = Cardinality(I)
        /\ \A k \in 1..Cardinality(I) : Nth(J, k) = Nth(I, k) - 1
    BY <1>1, <1>2, <1>3, <1>7, NthShifts
  <2>2. ASSUME NEW k \in 1..Cardinality(I)
        PROVE  Selected(rest, S)[k] = Selected(seq, S)[k]
    <3>1. Selected(seq, S)[k] = seq[Nth(I, k)] /\ Selected(rest, S)[k] = rest[Nth(J, k)]
      BY <2>1 DEF Selected
    <3>2. Nth(I, k) \in I
      BY <1>4
    <3>3. Nth(J, k) \in 1..n /\ Nth(J, k) + 1 = Nth(I, k)
      BY <1>2, <1>5, <2>1, <3>2
    <3>4. QED
      BY <1>1, <3>1, <3>3
  <2>3. QED
    BY <1>6, <1>7, <2>1, <2>2, SeqEqual
<1>8. CASE Head(seq) \in S
  <2>1. /\ Cardinality(J) = Cardinality(I) - 1
        /\ Nth(I, 1) = 1
        /\ \A k \in 1..(Cardinality(I) - 1) : Nth(J, k) = Nth(I, k + 1) - 1
    BY <1>1, <1>2, <1>3, <1>8, NthShifts
  <2>2. Cardinality(J) \in Nat
    BY <1>1, SelectedShape
  <2>3. Selected(seq, S) # <<>>
    BY <1>4, <1>6, <2>1, <2>2, LenProperties
  <2>4. /\ Head(Selected(seq, S)) = Selected(seq, S)[1]
        /\ Tail(Selected(seq, S)) \in Seq(S \cap T)
        /\ Len(Tail(Selected(seq, S))) = Cardinality(J)
        /\ \A k \in 1..Cardinality(J) : Tail(Selected(seq, S))[k] = Selected(seq, S)[k + 1]
    BY <1>4, <1>6, <2>1, <2>2, <2>3, HeadTailProperties
  <2>5. Selected(seq, S)[1] = seq[1]
    <3>1. 1 \in 1..Cardinality(I)
      BY <1>4, <2>1, <2>2
    <3>2. QED
      BY <2>1, <3>1 DEF Selected
  <2>6. ASSUME NEW k \in 1..Cardinality(J)
        PROVE  Tail(Selected(seq, S))[k] = Selected(rest, S)[k]
    <3>1. k + 1 \in 1..Cardinality(I)
      BY <1>4, <2>1
    <3>2. Selected(seq, S)[k + 1] = seq[Nth(I, k + 1)] /\ Selected(rest, S)[k] = rest[Nth(J, k)]
      BY <3>1 DEF Selected
    <3>3. Nth(I, k + 1) \in I
      BY <1>4, <3>1
    <3>4. Nth(J, k) \in 1..n /\ Nth(J, k) + 1 = Nth(I, k + 1)
      BY <1>2, <1>5, <2>1, <3>3
    <3>5. QED
      BY <1>1, <2>4, <3>2, <3>4
  <2>7. QED
    BY <1>1, <1>6, <1>8, <2>3, <2>4, <2>5, <2>6, SeqEqual
<1>9. QED
  BY <1>7, <1>8

-----------------------------------------------------------------------------
(* Sequences one after the other, and their elements renamed. *)

LEMMA HeadTailConcat ==
  ASSUME NEW T, NEW s \in Seq(T), NEW t \in Seq(T), s # <<>>
  PROVE  /\ s \o t # <<>>
         /\ Head(s \o t) = Head(s)
         /\ Tail(s \o t) = Tail(s) \o t
<1>1. /\ Len(s) \in Nat \ {0} /\ Len(t) \in Nat
      /\ s \o t \in Seq(T) /\ Len(s \o t) = Len(s) + Len(t)
      /\ \A i \in 1..Len(s) + Len(t) : (s \o t)[i] = IF i <= Len(s) THEN s[i] ELSE t[i - Len(s)]
  BY ConcatProperties, LenProperties
<1>2. s \o t # <<>>
  BY <1>1
<1>3. /\ Tail(s) \in Seq(T) /\ Len(Tail(s)) = Len(s) - 1
      /\ \A i \in 1..Len(s) - 1 : Tail(s)[i] = s[i + 1]
  BY HeadTailProperties
<1>4. /\ Tail(s \o t) \in Seq(T) /\ Len(Tail(s \o t)) = Len(s) + Len(t) - 1
      /\ \A i \in 1..Len(s) + Len(t) - 1 : Tail(s \o t)[i] = (s \o t)[i + 1]
  BY <1>1, <1>2, HeadTailProperties
<1>5. /\ Tail(s) \o t \in Seq(T) /\ Len(Tail(s) \o t) = Len(s) - 1 + Len(t)
      /\ \A i \in 1..Len(s) - 1 + Len(t) :
           (Tail(s) \o t)[i] = IF i <= Len(s) - 1 THEN Tail(s)[i] ELSE t[i - (Len(s) - 1)]
  BY <1>3, ConcatProperties
<1>6. ASSUME NEW i \in 1..Len(s) + Len(t) - 1
      PROVE  Tail(s \o t)[i] = (Tail(s) \o t)[i]
  <2>1. Tail(s \o t)[i] = IF i + 1 <= Len(s) THEN s[i + 1] ELSE t[i + 1 - Len(s)]
    BY <1>1, <1>4
  <2>2. (Tail(s) \o t)[i] = IF i <= Len(s) - 1 THEN s[i + 1] ELSE t[i - (Len(s) - 1)]
    BY <1>1, <1>3, <1>5
  <2>3. (i + 1 <= Len(s) <=> i <= Len(s) - 1) /\ i + 1 - Len(s) = i - (Len(s) - 1)
    BY <1>1
  <2>4. QED
    BY <2>1, <2>2, <2>3
<1>7. Tail(s \o t) = Tail(s) \o t
  <2>1. Len(s) + Len(t) - 1 = Len(s) - 1 + Len(t)
    BY <1>1
  <2>2. QED
    BY <1>4, <1>5, <1>6, <2>1, SeqEqual
<1>8. Head(s \o t) = Head(s)
  BY <1>1, <1>2
<1>9. QED
  BY <1>2, <1>7, <1>8

LEMMA PrefixOfConcat ==
  ASSUME NEW T, NEW s \in Seq(T), NEW t \in Seq(T)
  PROVE  \E n \in 0..Len(s \o t) : s = SubSeq(s \o t, 1, n)
<1>1. /\ Len(s) \in Nat /\ Len(t) \in Nat
      /\ s \o t \in Seq(T) /\ Len(s \o t) = Len(s) + Len(t)
      /\ \A i \in 1..Len(s) : (s \o t)[i] = s[i]
  BY ConcatProperties, LenProperties
<1>2. \A i \in 1..Len(s) : (s \o t)[i] \in T
  BY <1>1, ElementOfSeq
<1>3. /\ SubSeq(s \o t, 1, Len(s)) \in Seq(T)
      /\ Len(SubSeq(s \o t, 1, Len(s))) = Len(s)
      /\ \A i \in 1..Len(s) : SubSeq(s \o t, 1, Len(s))[i] = (s \o t)[i]
  <2>1. /\ SubSeq(s \o t, 1, Len(s)) \in Seq(T)
        /\ Len(SubSeq(s \o t, 1, Len(s))) = IF 1 <= Len(s) THEN Len(s) - 1 + 1 ELSE 0
        /\ \A i \in 1..Len(s) - 1 + 1 : SubSeq(s \o t, 1, Len(s))[i] = (s \o t)[1 + i - 1]
    BY <1>1, <1>2, SubSeqProperties
  <2>2. QED
    BY <1>1, <2>1
<1>4. s = SubSeq(s \o t, 1, Len(s))
  BY <1>1, <1>3, SeqEqual
<1>5. Len(s) \in 0..Len(s \o t)
  BY <1>1
<1>6. QED
  BY <1>4, <1>5

\* A sequence with its elements renamed by a function.
Renamed(f, s) == [i \in DOMAIN s |-> f[s[i]]]

LEMMA RenamedShape ==
  ASSUME NEW T, NEW f, NEW s \in Seq(T)
  PROVE  /\ Len(Renamed(f, s)) = Len(s)
         /\ \A i \in 1..Len(s) : Renamed(f, s)[i] = f[s[i]]
         /\ \A U : f \in [T -> U] => Renamed(f, s) \in Seq(U)
<1>1. DOMAIN s = 1..Len(s) /\ Len(s) \in Nat
  BY LenProperties
<1>2. \A i \in 1..Len(s) : s[i] \in T
  BY ElementOfSeq
<1>3. Renamed(f, s) = [i \in 1..Len(s) |-> f[s[i]]]
  BY <1>1 DEF Renamed
<1>4. ASSUME NEW U, f \in [T -> U]
      PROVE  Renamed(f, s) \in Seq(U)
  <2>1. Renamed(f, s) \in [1..Len(s) -> U]
    BY <1>2, <1>3, <1>4
  <2>2. QED
    BY <1>1, <2>1
<1>5. Len(Renamed(f, s)) = Len(s)
  BY <1>1, <1>3
<1>6. QED
  BY <1>3, <1>4, <1>5

LEMMA RenamedAppend ==
  ASSUME NEW T, NEW U, NEW f \in [T -> U], NEW s \in Seq(T), NEW e \in T
  PROVE  Renamed(f, Append(s, e)) = Append(Renamed(f, s), f[e])
<1>1. /\ Append(s, e) \in Seq(T) /\ Len(Append(s, e)) = Len(s) + 1 /\ Len(s) \in Nat
      /\ \A i \in 1..Len(s) : Append(s, e)[i] = s[i]
      /\ Append(s, e)[Len(s) + 1] = e
  BY AppendProperties, LenProperties
<1>2. /\ Renamed(f, s) \in Seq(U) /\ Len(Renamed(f, s)) = Len(s)
      /\ \A i \in 1..Len(s) : Renamed(f, s)[i] = f[s[i]]
  BY RenamedShape
<1>3. /\ Renamed(f, Append(s, e)) \in Seq(U) /\ Len(Renamed(f, Append(s, e))) = Len(s) + 1
      /\ \A i \in 1..Len(s) + 1 : Renamed(f, Append(s, e))[i] = f[Append(s, e)[i]]
  <2>1. /\ Renamed(f, Append(s, e)) \in Seq(U)
        /\ Len(Renamed(f, Append(s, e))) = Len(Append(s, e))
        /\ \A i \in 1..Len(Append(s, e)) : Renamed(f, Append(s, e))[i] = f[Append(s, e)[i]]
    <3>1. ASSUME NEW t \in Seq(T)
          PROVE  /\ Renamed(f, t) \in Seq(U) /\ Len(Renamed(f, t)) = Len(t)
                 /\ \A i \in 1..Len(t) : Renamed(f, t)[i] = f[t[i]]
      BY RenamedShape
    <3>2. QED
      BY <1>1, <3>1
  <2>2. QED
    BY <1>1, <2>1
<1>4. f[e] \in U
  OBVIOUS
<1>5. /\ Append(Renamed(f, s), f[e]) \in Seq(U) /\ Len(Append(Renamed(f, s), f[e])) = Len(s) + 1
      /\ \A i \in 1..Len(s) : Append(Renamed(f, s), f[e])[i] = Renamed(f, s)[i]
      /\ Append(Renamed(f, s), f[e])[Len(s) + 1] = f[e]
  BY <1>2, <1>4, AppendProperties
<1>6. ASSUME NEW i \in 1..Len(s) + 1
      PROVE  Renamed(f, Append(s, e))[i] = Append(Renamed(f, s), f[e])[i]
  <2>1. i \in 1..Len(s) \/ i = Len(s) + 1
    BY <1>1
  <2>2. QED
    BY <1>1, <1>2, <1>3, <1>5, <2>1
<1>7. QED
  BY <1>3, <1>5, <1>6, SeqEqual

LEMMA RenamedTail ==
  ASSUME NEW T, NEW U, NEW f \in [T -> U], NEW s \in Seq(T), s # <<>>
  PROVE  /\ Renamed(f, s) # <<>>
         /\ Head(Renamed(f, s)) = f[Head(s)]
         /\ Tail(Renamed(f, s)) = Renamed(f, Tail(s))
<1>1. /\ Tail(s) \in Seq(T) /\ Len(s) \in Nat \ {0} /\ Len(Tail(s)) = Len(s) - 1
      /\ \A i \in 1..Len(s) - 1 : Tail(s)[i] = s[i + 1]
      /\ Head(s) = s[1]
  BY HeadTailProperties, LenProperties
<1>2. /\ Renamed(f, s) \in Seq(U) /\ Len(Renamed(f, s)) = Len(s)
      /\ \A i \in 1..Len(s) : Renamed(f, s)[i] = f[s[i]]
  BY RenamedShape
<1>3. Renamed(f, s) # <<>>
  BY <1>1, <1>2
<1>4. Head(Renamed(f, s)) = f[Head(s)]
  BY <1>1, <1>2, <1>3
<1>5. /\ Renamed(f, Tail(s)) \in Seq(U) /\ Len(Renamed(f, Tail(s))) = Len(s) - 1
      /\ \A i \in 1..Len(s) - 1 : Renamed(f, Tail(s))[i] = f[Tail(s)[i]]
  <2>1. /\ Renamed(f, Tail(s)) \in Seq(U)
        /\ Len(Renamed(f, Tail(s))) = Len(Tail(s))
        /\ \A i \in 1..Len(Tail(s)) : Renamed(f, Tail(s))[i] = f[Tail(s)[i]]
    <3>1. ASSUME NEW t \in Seq(T)
          PROVE  /\ Renamed(f, t) \in Seq(U) /\ Len(Renamed(f, t)) = Len(t)
                 /\ \A i \in 1..Len(t) : Renamed(f, t)[i] = f[t[i]]
      BY RenamedShape
    <3>2. QED
      BY <1>1, <3>1
  <2>2. QED
    BY <1>1, <2>1
<1>6. /\ Tail(Renamed(f, s)) \in Seq(U) /\ Len(Tail(Renamed(f, s))) = Len(s) - 1
      /\ \A i \in 1..Len(s) - 1 : Tail(Renamed(f, s))[i] = Renamed(f, s)[i + 1]
  BY <1>1, <1>2, <1>3, HeadTailProperties
<1>7. ASSUME NEW i \in 1..Len(s) - 1
      PROVE  Tail(Renamed(f, s))[i] = Renamed(f, Tail(s))[i]
  <2>1. i + 1 \in 1..Len(s)
    BY <1>1
  <2>2. QED
    BY <1>1, <1>2, <1>5, <1>6, <2>1
<1>8. QED
  BY <1>3, <1>4, <1>5, <1>6, <1>7, SeqEqual

-----------------------------------------------------------------------------
(* Flattening. *)

(* A set of numbers has a least one, and with 0 and every successor it has  *)
(* them all: induction over a set instead of an operator.                   *)
LEMMA LeastOf ==
  ASSUME NEW N \in SUBSET Nat, N # {}
  PROVE  \E x \in N : \A y \in N : x <= y
<1>1. IsWellFoundedOn(OpToRel(<, Nat), Nat)
  BY NatLessThanWellFounded
<1>2. PICK x \in N : \A y \in N : ~(<<y, x>> \in OpToRel(<, Nat))
  BY <1>1, WFMin
<1>3. \A y \in N : ~(y < x)
  BY <1>2 DEF OpToRel
<1> QED
  BY <1>3

(* A set of numbers with 0 and every successor has every number. *)
LEMMA EveryNumber ==
  ASSUME NEW N \in SUBSET Nat, 0 \in N, \A n \in N : n + 1 \in N
  PROVE  \A n \in Nat : n \in N
<1> SUFFICES ASSUME Nat \ N # {}
             PROVE  FALSE
  OBVIOUS
<1>1. PICK x \in Nat \ N : \A y \in Nat \ N : x <= y
  <2>1. Nat \ N \in SUBSET Nat
    OBVIOUS
  <2> QED
    BY <2>1, LeastOf
<1>2. x - 1 \in Nat /\ ~(x <= x - 1)
  BY <1>1
<1>3. x - 1 \in N
  BY <1>1, <1>2
<1> QED
  BY <1>1, <1>2, <1>3

-----------------------------------------------------------------------------
(* FlattenSeq: its recursion has a value at every length.                   *)
LEMMA FlattenSteps ==
  ASSUME NEW s, Len(s) \in Nat \ {0}
  PROVE  \E F : /\ FlattenSeq(s) = F[Len(s)]
                /\ F = [i \in 1..Len(s) |-> IF i = 1 THEN s[i] ELSE F[i - 1] \o s[i]]
<1> DEFINE Steps(n, F) == F = [i \in 1..n |-> IF i = 1 THEN s[i] ELSE F[i - 1] \o s[i]]
           N == {n \in Nat : \E F : Steps(n, F)}
<1>1. 0 \in N
  <2>1. Steps(0, [i \in 1..0 |-> 0])
    OBVIOUS
  <2> QED
    BY <2>1
<1>2. ASSUME NEW n \in N
      PROVE  n + 1 \in N
  <2>1. PICK F : Steps(n, F)
    OBVIOUS
  <2> DEFINE G == [i \in 1..(n + 1) |->
                     IF i <= n THEN F[i] ELSE IF i = 1 THEN s[i] ELSE F[i - 1] \o s[i]]
             H == [i \in 1..(n + 1) |-> IF i = 1 THEN s[i] ELSE G[i - 1] \o s[i]]
  <2>2. ASSUME NEW i \in 1..(n + 1)
        PROVE  G[i] = H[i]
    <3>1. CASE i <= n
      <4>1. i \in 1..n /\ (i # 1 => i - 1 \in 1..n)
        BY <3>1
      <4>2. F[i] = IF i = 1 THEN s[i] ELSE F[i - 1] \o s[i]
        BY <2>1, <4>1
      <4>3. i # 1 => G[i - 1] = F[i - 1]
        BY <4>1
      <4> QED
        BY <3>1, <4>2, <4>3
    <3>2. CASE i = n + 1
      <4>1. i # 1 => G[i - 1] = F[i - 1]
        BY <3>2
      <4> QED
        BY <3>2, <4>1
    <3> QED
      BY <3>1, <3>2
  <2>3. G = H
    BY <2>2
  <2>4. Steps(n + 1, G)
    BY <2>3
  <2>5. \E f : Steps(n + 1, f)
    <3> HIDE DEF Steps, G
    <3> QED
      BY <2>4
  <2>6. n + 1 \in Nat
    OBVIOUS
  <2> HIDE DEF Steps
  <2> QED
    BY <2>5, <2>6
<1>3. \E F : Steps(Len(s), F)
  <2>1. \A n \in Nat : n \in N
    <3> HIDE DEF N
    <3>1. N \in SUBSET Nat
      BY DEF N
    <3> QED
      BY <1>1, <1>2, <3>1, EveryNumber
  <2> QED
    BY <2>1
<1> DEFINE C == CHOOSE F : Steps(Len(s), F)
<1>4. Steps(Len(s), C)
  BY <1>3
<1>5. FlattenSeq(s) = C[Len(s)]
  BY DEF FlattenSeq
<1> QED
  BY <1>4, <1>5

(* A sequence begins with another one. *)
Begins(a, b) ==
  Len(a) \in Nat /\ Len(b) \in Nat /\ Len(a) <= Len(b) /\ \A p \in 1..Len(a) : b[p] = a[p]

(* What begins a beginning begins the whole. *)
LEMMA BeginsOn ==
  ASSUME NEW a, NEW b, NEW c, Begins(a, b), Begins(b, c)
  PROVE  Begins(a, c)
BY DEF Begins

(* Two lists one after the other. *)
LEMMA Joined ==
  ASSUME NEW T, NEW a \in Seq(T), NEW b \in Seq(T)
  PROVE  /\ a \o b \in Seq(T) /\ Begins(a, a \o b)
         /\ Len(a) \in Nat /\ Len(b) \in Nat /\ Len(a \o b) = Len(a) + Len(b)
         /\ \A p \in 1..Len(b) : (a \o b)[Len(a) + p] = b[p]
<1>1. Len(a) \in Nat /\ Len(b) \in Nat
  BY LenProperties
<1>2. /\ a \o b \in Seq(T) /\ Len(a \o b) = Len(a) + Len(b)
      /\ \A i \in 1..(Len(a) + Len(b)) : (a \o b)[i] = IF i <= Len(a) THEN a[i] ELSE b[i - Len(a)]
  BY ConcatProperties
<1>3. Begins(a, a \o b)
  BY <1>1, <1>2 DEF Begins
<1>4. ASSUME NEW p \in 1..Len(b)
      PROVE  (a \o b)[Len(a) + p] = b[p]
  BY <1>1, <1>2
<1> QED
  BY <1>1, <1>2, <1>3, <1>4

(* What a flattened sequence holds: where each part starts, and its elements. *)
PartsAt(s, flat, at) ==
  /\ at[1] = 0 /\ at[Len(s) + 1] = Len(flat)
  /\ \A i \in 1..Len(s) :
       /\ at[i + 1] = at[i] + Len(s[i]) /\ at[i + 1] <= Len(flat)
       /\ \A j \in 1..Len(s[i]) : flat[at[i] + j] = s[i][j]

(* Lists one after the other: each starts where the one before ends. *)
LEMMA FlattenShape ==
  ASSUME NEW T, NEW s \in Seq(Seq(T))
  PROVE  /\ FlattenSeq(s) \in Seq(T)
         /\ \E at \in [1..(Len(s) + 1) -> Nat] : PartsAt(s, FlattenSeq(s), at)
<1> DEFINE n == Len(s)
<1>1. n \in Nat /\ \A i \in 1..n : s[i] \in Seq(T) /\ Len(s[i]) \in Nat
  OBVIOUS
<1>2. CASE n = 0
  <2>1. s = <<>> /\ FlattenSeq(s) = s
    BY <1>2 DEF FlattenSeq
  <2>2. PartsAt(s, <<>>, [i \in 1..(n + 1) |-> 0])
    BY <1>2, <2>1 DEF PartsAt
  <2>3. [i \in 1..(n + 1) |-> 0] \in [1..(n + 1) -> Nat] /\ <<>> \in Seq(T)
    OBVIOUS
  <2> QED
    BY <2>1, <2>2, <2>3
<1>3. CASE n # 0
  <2>1. PICK F : /\ FlattenSeq(s) = F[n]
                 /\ F = [i \in 1..n |-> IF i = 1 THEN s[i] ELSE F[i - 1] \o s[i]]
    BY <1>1, <1>3, FlattenSteps
  <2>2. \A i \in 1..n : F[i] = IF i = 1 THEN s[i] ELSE F[i - 1] \o s[i]
    BY <2>1
  <2> DEFINE Grown(k) == F[k] \in Seq(T) /\ \A j \in 1..k : Begins(F[j], F[k])
             N == {k \in Nat : k \in 1..n => Grown(k)}
  <2> HIDE DEF n
  <2>3. ASSUME NEW m \in 1..n, m # 1 => Grown(m - 1)
        PROVE  Grown(m)
    <3>1. m \in Nat /\ s[m] \in Seq(T)
      BY <1>1
    <3>2. CASE m = 1
      <4>1. F[m] = s[m]
        BY <2>2, <3>2
      <4>2. \A j \in 1..m : j = m
        BY <3>2
      <4>3. Begins(F[m], F[m])
        BY <3>1, <4>1, LenProperties DEF Begins
      <4> QED
        BY <3>1, <4>1, <4>2, <4>3
    <3>3. CASE m # 1
      <4>1. PICK l \in 1..n : m = l + 1 /\ l = m - 1
        BY <1>1, <3>1, <3>3
      <4>2. Grown(l)
        BY <2>3, <3>3, <4>1
      <4>3. F[m] = F[l] \o s[m]
        BY <2>2, <3>3, <4>1
      <4>4. F[m] \in Seq(T) /\ Begins(F[l], F[m])
        BY <3>1, <4>2, <4>3, Joined
      <4>5. ASSUME NEW j \in 1..m
            PROVE  Begins(F[j], F[m])
        <5>1. CASE j = m
          BY <4>4, <5>1, LenProperties DEF Begins
        <5>2. CASE j # m
          <6>1. j \in 1..l
            BY <1>1, <4>1, <5>2
          <6> QED
            BY <4>2, <4>4, <6>1, BeginsOn
        <5> QED
          BY <5>1, <5>2
      <4> QED
        BY <4>4, <4>5
    <3> QED
      BY <3>2, <3>3
  <2>4. \A k \in 1..n : Grown(k)
    <3> HIDE DEF Grown
    <3>1. 0 \in N /\ N \in SUBSET Nat
      OBVIOUS
    <3>2. ASSUME NEW k \in Nat, k \in 1..n => Grown(k), k + 1 \in 1..n
          PROVE  Grown(k + 1)
      <4>1. PICK m \in 1..n : m = k + 1 /\ k = m - 1
        BY <3>2
      <4>2. m # 1 => k \in 1..n
        BY <1>1, <4>1
      <4> QED
        BY <2>3, <3>2, <4>1, <4>2
    <3>3. \A k \in N : k + 1 \in N
      BY <3>2
    <3>4. \A k \in Nat : k \in N
      <4> HIDE DEF N
      <4> QED
        BY <3>1, <3>3, EveryNumber
    <3> QED
      BY <1>1, <3>4
  <2> DEFINE flat == F[n]
             at == [i \in 1..(n + 1) |-> IF i = 1 THEN 0 ELSE Len(F[i - 1])]
  <2>5. flat \in Seq(T) /\ \A j \in 1..n : Begins(F[j], flat)
    BY <1>1, <1>3, <2>4
  <2>6. at[1] = 0 /\ at[n + 1] = Len(flat)
    BY <1>1, <1>3
  <2>7. at \in [1..(n + 1) -> Nat]
    <3>1. ASSUME NEW i \in 1..(n + 1), i # 1
          PROVE  Len(F[i - 1]) \in Nat
      <4>1. PICK l \in 1..n : l = i - 1
        BY <1>1, <3>1
      <4> QED
        BY <2>5, <4>1 DEF Begins
    <3> QED
      BY <3>1
  <2>8. ASSUME NEW i \in 1..n
        PROVE  /\ at[i + 1] = at[i] + Len(s[i]) /\ at[i + 1] <= Len(flat)
               /\ \A j \in 1..Len(s[i]) : flat[at[i] + j] = s[i][j]
    <3>1. at[i + 1] = Len(F[i]) /\ (i # 1 => at[i] = Len(F[i - 1])) /\ (i = 1 => at[i] = 0)
      BY <1>1
    <3>2. Begins(F[i], flat) /\ s[i] \in Seq(T) /\ Len(s[i]) \in Nat
      BY <1>1, <2>5
    <3>3. /\ at[i] \in Nat /\ Len(F[i]) = at[i] + Len(s[i])
          /\ \A j \in 1..Len(s[i]) : F[i][at[i] + j] = s[i][j]
      <4>1. CASE i = 1
        <5>1. F[i] = s[i] /\ at[i] = 0
          BY <2>2, <3>1, <4>1
        <5> HIDE DEF at
        <5> QED
          BY <3>2, <5>1
      <4>2. CASE i # 1
        <5>1. PICK l \in 1..n : l = i - 1
          BY <1>1, <4>2
        <5>2. F[i] = F[l] \o s[i] /\ F[l] \in Seq(T) /\ at[i] = Len(F[l])
          BY <2>2, <2>4, <3>1, <4>2, <5>1
        <5>3. PICK f, c, w : f = F[l] /\ c = F[i] /\ w = s[i]
          OBVIOUS
        <5>4. f \in Seq(T) /\ w \in Seq(T) /\ c = f \o w /\ at[i] = Len(f)
          BY <3>2, <5>2, <5>3
        <5>5. /\ Len(f) \in Nat /\ Len(f \o w) = Len(f) + Len(w)
              /\ \A j \in 1..Len(w) : (f \o w)[Len(f) + j] = w[j]
          BY <5>4, Joined
        <5> HIDE DEF at
        <5> QED
          BY <5>3, <5>4, <5>5
      <4> QED
        BY <4>1, <4>2
    <3> HIDE DEF at
    <3>4. \A j \in 1..Len(s[i]) : at[i] + j \in 1..Len(F[i])
      BY <3>2, <3>3
    <3> QED
      BY <3>1, <3>2, <3>3, <3>4 DEF Begins
  <2>9. PartsAt(s, flat, at)
    <3> HIDE DEF at, flat
    <3> QED
      BY <2>6, <2>8 DEF PartsAt, n
  <2> QED
    BY <2>1, <2>5, <2>7, <2>9 DEF n
<1> QED
  BY <1>2, <1>3

(* Every place of a flattened sequence lies in one of the parts. *)
LEMMA FlattenPlace ==
  ASSUME NEW T, NEW s \in Seq(Seq(T)), NEW p \in 1..Len(FlattenSeq(s))
  PROVE  \E i \in 1..Len(s) : \E j \in 1..Len(s[i]) : FlattenSeq(s)[p] = s[i][j]
<1>1. /\ Len(s) \in Nat /\ \A i \in 1..Len(s) : Len(s[i]) \in Nat
      /\ FlattenSeq(s) \in Seq(T) /\ Len(FlattenSeq(s)) \in Nat
  BY FlattenShape, LenProperties
<1>2. PICK at \in [1..(Len(s) + 1) -> Nat] : PartsAt(s, FlattenSeq(s), at)
  BY FlattenShape
<1> DEFINE N == {i \in 1..(Len(s) + 1) : p <= at[i]}
<1>3. N \in SUBSET Nat /\ Len(s) + 1 \in N
  BY <1>1, <1>2 DEF PartsAt
<1>4. PICK x \in N : \A y \in N : x <= y
  BY <1>3, LeastOf
<1>5. x # 1 /\ x \in 1..(Len(s) + 1)
  BY <1>1, <1>2 DEF PartsAt
<1>6. PICK i \in 1..Len(s) : x = i + 1
  <2>1. x - 1 \in 1..Len(s) /\ x = (x - 1) + 1
    BY <1>1, <1>5
  <2> QED
    BY <2>1
<1>7. at[i] \in Nat /\ ~(p <= at[i]) /\ p <= at[i + 1]
  <2>1. i \in 1..(Len(s) + 1) /\ ~(x <= i)
    BY <1>1, <1>6
  <2>2. i \notin N
    BY <1>4, <2>1
  <2> QED
    BY <1>2, <1>4, <1>6, <2>1, <2>2
<1>8. at[i + 1] = at[i] + Len(s[i]) /\ \A j \in 1..Len(s[i]) : FlattenSeq(s)[at[i] + j] = s[i][j]
  BY <1>2 DEF PartsAt
<1>9. p - at[i] \in 1..Len(s[i]) /\ p = at[i] + (p - at[i])
  BY <1>1, <1>7, <1>8
<1> QED
  BY <1>8, <1>9

(* Every element of every part is in the flattened sequence. *)
LEMMA FlattenHas ==
  ASSUME NEW T, NEW s \in Seq(Seq(T)), NEW i \in 1..Len(s), NEW j \in 1..Len(s[i])
  PROVE  \E p \in 1..Len(FlattenSeq(s)) : FlattenSeq(s)[p] = s[i][j]
<1>1. /\ Len(s) \in Nat /\ Len(s[i]) \in Nat
      /\ FlattenSeq(s) \in Seq(T) /\ Len(FlattenSeq(s)) \in Nat
  BY FlattenShape, LenProperties
<1>2. PICK at \in [1..(Len(s) + 1) -> Nat] : PartsAt(s, FlattenSeq(s), at)
  BY FlattenShape
<1>3. /\ at[i + 1] = at[i] + Len(s[i]) /\ at[i + 1] <= Len(FlattenSeq(s))
      /\ FlattenSeq(s)[at[i] + j] = s[i][j] /\ at[i] \in Nat
  BY <1>1, <1>2 DEF PartsAt
<1>4. at[i] + j \in 1..Len(FlattenSeq(s))
  BY <1>1, <1>3
<1> QED
  BY <1>3, <1>4

=============================================================================
