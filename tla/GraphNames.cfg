\* Two filter types whose demangled names are the same text.
CONSTANTS
    A = A  B = B  F1 = F1  F2 = F2  F3 = F3
    Types <- MCTypes
    FilterTypes = {F1, F2}
    FilterName <- SharedName
    ArgKinds = {"in", "out"}
    MaxArgs = 1
    MaxShift = 0
    RepeatIds = FALSE
SPECIFICATION Spec
INVARIANT GraphFaithful
