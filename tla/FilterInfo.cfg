\* AutoFilterInfo and ListRootDecorations on every registry of up to three
\* filters with up to two arguments each, all ids distinct per filter.
CONSTANTS
    A = A  B = B  F1 = F1  F2 = F2  F3 = F3
    Types <- MCTypes
    FilterTypes <- MCFilterTypes
    ArgKinds = {"in", "out", "inout"}
    MaxArgs = 2
    MaxShift = 0
    RepeatIds = FALSE
    MaxDepth = 4
SYMMETRY Symmetry
SPECIFICATION Spec
INVARIANTS InfoLinesSound InfoComplete RootsMatchSpec
