CONSTANTS
    Funcs <- MCFuncs
    Args <- MCArgs
    CondTermKinds = {"br", "switch"}
SPECIFICATION Spec
INVARIANT TypeOK NoDanglingBlockRef EntryExists
CHECK_DEADLOCK FALSE
