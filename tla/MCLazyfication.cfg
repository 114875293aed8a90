CONSTANTS
    c1 = c1  c2 = c2  f1 = f1  f2 = f2  F1 = F1  F2 = F2  v1 = v1  v2 = v2
    Calls <- MCCalls
    Callees <- MCCallees
    Indices <- MCIndices
    Callers <- MCCallers
    ArgValues <- MCArgValues
    SliceSizes <- MCSliceSizes
    UIntMax <- MCUIntMax
SPECIFICATION Spec
INVARIANT SliceSizeBoundsExact
CHECK_DEADLOCK FALSE
