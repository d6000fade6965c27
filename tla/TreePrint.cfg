\* PrintContextTree and PrintRunnables on every tree of up to five
\* contexts, each with at most one runnable, while other threads create
\* and release contexts.
CONSTANTS
    N = 5
    MaxRunnables = 1
    Modes = {"tree", "runnables"}
    Concurrent = TRUE
SPECIFICATION Spec
INVARIANT WalkPreOrder
INVARIANT TreeDrawingConnected
\* The print returns and the tree stops growing at N contexts.
CHECK_DEADLOCK FALSE
