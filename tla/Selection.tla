----------------------------- MODULE Selection -----------------------------
(***************************************************************************)
(* The elements of a sequence that are in a set, in their order: SelectSeq *)
(* with membership for its test, by ranks instead of by recursion, so that *)
(* it can be reasoned about.                                               *)
(***************************************************************************)
EXTENDS Naturals, Sequences, FiniteSets

Rank(I, i) == Cardinality({j \in I : j <= i})
Nth(I, k) == CHOOSE i \in I : Rank(I, i) = k

Places(seq, S) == {i \in 1..Len(seq) : seq[i] \in S}

Selected(seq, S) ==
  LET I == Places(seq, S) IN [k \in 1..Cardinality(I) |-> seq[Nth(I, k)]]

=============================================================================
