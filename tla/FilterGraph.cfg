\* WriteAutoFilterGraph on every registry of up to three filters with up to
\* two in/out/inout arguments, exports interleaved with registrations.
CONSTANTS
    A = A  B = B  F1 = F1  F2 = F2  F3 = F3
    Types <- MCTypes
    FilterTypes <- MCFilterTypes
    FilterName <- DistinctNames
    ArgKinds = {"in", "out", "inout"}
    MaxArgs = 2
    MaxShift = 1
    RepeatIds = FALSE
SYMMETRY Symmetry
SPECIFICATION Spec
INVARIANT GraphFaithful
