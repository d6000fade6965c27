\* Two objects and two threads over a pool of three FLS indexes, one of
\* which another user of FLS may take: enough for both objects, and small
\* enough that a freed index is handed to the other object.
CONSTANTS
    p1 = p1  p2 = p2  t1 = t1  t2 = t2  v1 = v1  v2 = v2
    Ptrs <- MCPtrs
    Threads <- MCThreads
    Values <- MCValues
    NIndexes = 3
    Others = 1
SPECIFICATION Spec
INVARIANT GetReturnsSet
SYMMETRY Symmetry
\* Every object is freed and every thread exits: the process ends.
CHECK_DEADLOCK FALSE
