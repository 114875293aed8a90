CONSTANTS
    Funcs <- MCFuncs
    Args <- MCArgs
    CondTermKinds = {"br"}
SPECIFICATION Spec
INVARIANT WellFormedThunk
CHECK_DEADLOCK FALSE
