CONSTANTS
    Vals = {v0, v1}
    MaxUses = 4
    MemoModes = {FALSE}
    NArgs = 1
    K = v0
    ActualArg = v1
    ThunkPtr = ThunkPtr
SPECIFICATION Spec
PROPERTY ThunkReturnsEager
CHECK_DEADLOCK FALSE
