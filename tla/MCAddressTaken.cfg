CONSTANTS
    N = 4
    ALLOC = 2
    Sizes = {1, 2}
    Offsets = {1, 2}
    MaxDepth = 5
SPECIFICATION Spec
INVARIANT TypeOK
INVARIANT VerdictMatchesReference
CHECK_DEADLOCK FALSE
