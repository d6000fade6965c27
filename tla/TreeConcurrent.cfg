\* PrintContextTree on trees of up to four contexts while other threads
\* create and release contexts.
CONSTANTS
    N = 4
    MaxRunnables = 0
    Modes = {"tree"}
    Concurrent = TRUE
SPECIFICATION Spec
INVARIANT TreeDrawingConnected
CHECK_DEADLOCK FALSE
