\* PrintRunnables' status column against the states actually held.
CONSTANTS
    r1 = r1  r2 = r2
    Runnables <- MCRunnables
SPECIFICATION Spec
INVARIANT LabelWasHeld
