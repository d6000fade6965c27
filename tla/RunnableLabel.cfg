\* PrintRunnables' status column over two runnables changing state.
CONSTANTS
    r1 = r1  r2 = r2
    Runnables <- MCRunnables
SYMMETRY Symmetry
SPECIFICATION Spec
INVARIANTS LabelWithinWindow
