\* ListRootDecorations when filters take arguments in place (T&&).
CONSTANTS
    A = A  B = B  F1 = F1  F2 = F2  F3 = F3
    Types <- MCTypes
    FilterTypes = {F1, F2}
    ArgKinds = {"in", "out", "inout"}
    MaxArgs = 2
    MaxShift = 0
    RepeatIds = FALSE
    MaxDepth = 3
SPECIFICATION Spec
INVARIANT RootsComplete
