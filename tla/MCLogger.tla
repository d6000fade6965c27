------------------------------ MODULE MCLogger ------------------------------
EXTENDS Logger, TLC
CONSTANTS t1, t2, b1, b2, s1, s2
MCThreads == {t1, t2}
MCBits == {b1, b2}
MCStreams == {s1, s2}
\* A logger constructed with one of the two channels.
MCStatic == {b1}
Symmetry == Permutations(MCThreads) \cup Permutations(MCStreams)
=============================================================================
