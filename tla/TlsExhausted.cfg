\* Two objects over a pool of two FLS indexes, one of which another user
\* of FLS in the process takes first.
CONSTANTS
    p1 = p1  p2 = p2  t1 = t1  t2 = t2  v1 = v1  v2 = v2
    Ptrs <- MCPtrs
    Threads <- MCThreads
    Values <- MCValues
    NIndexes = 2
    Others = 1
SPECIFICATION Spec
INVARIANT GetReturnsSet
SYMMETRY Symmetry
CHECK_DEADLOCK FALSE
