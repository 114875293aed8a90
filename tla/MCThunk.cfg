CONSTANTS
    Vals = {v0, v1}
    MaxUses = 5
    MemoModes = {TRUE, FALSE}
    NArgs = 0
    K = v0
    ActualArg = v1
    ThunkPtr = ThunkPtr
SPECIFICATION Spec
INVARIANT TypeOK
PROPERTY ThunkImplementsMode
CHECK_DEADLOCK FALSE
