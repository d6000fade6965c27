\* PrintRunnables on every tree of up to four contexts, each context with
\* at most one runnable.
CONSTANTS
    N = 4
    MaxRunnables = 1
    Modes = {"runnables"}
    Concurrent = FALSE
SPECIFICATION Spec
INVARIANT DrawingConnected
CHECK_DEADLOCK FALSE
