\* AutoFilterInfo on registries of two filters whose only provider cycles
\* pass through a time-shifted (auto_prev) input.
CONSTANTS
    A = A  B = B  F1 = F1  F2 = F2  F3 = F3
    Types <- MCTypes
    FilterTypes = {F1, F2}
    ArgKinds = {"in", "out"}
    MaxArgs = 2
    MaxShift = 1
    RepeatIds = FALSE
    MaxDepth = 3
SPECIFICATION PrevCycleSpec
PROPERTY AutoFilterInfoReturns
