---------------------------- MODULE MCSmContext ----------------------------
EXTENDS SmContext, TLC
CONSTANTS c1, c2, k1, a1, a2, u1, u2
Ctx1 == {c1}
Ctx2 == {c1, c2}
Symmetry2 == Permutations(Ctx2) \cup Permutations({a1, a2})
=============================================================================
