CONSTANTS
    Funcs <- MCFuncs
    Args <- MCArgs
SPECIFICATION Spec
INVARIANT TypeOK
INVARIANT SliceIsBackwardClosure
INVARIANT GateIsConditionalBranch
PROPERTY WalkTerminates
CHECK_DEADLOCK FALSE
