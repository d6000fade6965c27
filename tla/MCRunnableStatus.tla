-------------------------- MODULE MCRunnableStatus --------------------------
EXTENDS RunnableStatus, TLC
CONSTANTS r1, r2
MCRunnables == {r1, r2}
Symmetry == Permutations(MCRunnables)
=============================================================================
