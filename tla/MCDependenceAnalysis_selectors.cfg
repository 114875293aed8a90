CONSTANTS
    Funcs <- MCFuncsAllCFGs
    Args <- MCArgs
SPECIFICATION Spec
INVARIANT PhiSelectorsInSlice
CHECK_DEADLOCK FALSE
