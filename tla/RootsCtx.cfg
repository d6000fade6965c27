\* ListRootDecorations against the spec's UnsatisfiedInputs when filters
\* take a context argument (AutoPacket&) that is neither input nor output.
CONSTANTS
    A = A  B = B  F1 = F1  F2 = F2  F3 = F3
    Types <- MCTypes
    FilterTypes = {F1, F2}
    ArgKinds = {"in", "out", "ctx"}
    MaxArgs = 2
    MaxShift = 0
    RepeatIds = FALSE
    MaxDepth = 3
SPECIFICATION Spec
INVARIANT RootsMatchSpec
