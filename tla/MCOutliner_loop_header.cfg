CONSTANTS
    Funcs <- MCLoopHeaderFuncs
    Args <- MCArgs
    CondTermKinds = {"br"}
SPECIFICATION Spec
INVARIANT PhiValidAfterUpdate
CHECK_DEADLOCK FALSE
