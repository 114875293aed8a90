CONSTANTS
    Funcs <- MCFuncs
    Args <- MCArgs
    CondTermKinds = {"br", "switch"}
SPECIFICATION Spec
INVARIANT TerminatorTotality
CHECK_DEADLOCK FALSE
