---------------------------- MODULE MCMockNetwork ----------------------------
(* An instance of MockNetwork for TLC. *)
EXTENDS MockNetwork, TLC

CONSTANTS quick, slow, p, q, v1

Order == <<quick, slow>>
Failing == {<<quick, "AdvDisc">>, <<slow, "Reset">>}
OneEach == {[x \in {p} |-> v1], [x \in {q} |-> v1]}
Dropping == {<<slow, "GetData">>}
Alike == Permutations({p, q})

=============================================================================
