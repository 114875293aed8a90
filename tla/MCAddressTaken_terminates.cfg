CONSTANTS
    N = 3
    ALLOC = 2
    Sizes = {1, 2}
    Offsets = {1, 2}
    MaxDepth = 4
SPECIFICATION Spec
PROPERTY CanOutlineTerminates
CHECK_DEADLOCK FALSE
