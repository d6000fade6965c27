------------------------ MODULE MCThreadSpecificPtr ------------------------
EXTENDS ThreadSpecificPtr, TLC

CONSTANTS p1, p2, t1, t2, v1, v2

MCPtrs == {p1, p2}
MCThreads == {t1, t2}
MCValues == {v1, v2}

Symmetry == Permutations(MCPtrs) \cup Permutations(MCThreads) \cup Permutations(MCValues)
=============================================================================
