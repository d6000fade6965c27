\* AutoFilterInfo when one filter declares a type twice: an auto_prev<T>
\* input and an output of T.
CONSTANTS
    A = A  B = B  F1 = F1  F2 = F2  F3 = F3
    Types <- MCTypes
    FilterTypes = {F1, F2}
    ArgKinds = {"in", "out"}
    MaxArgs = 2
    MaxShift = 1
    RepeatIds = TRUE
    MaxDepth = 3
SPECIFICATION Spec
INVARIANT InfoComplete
