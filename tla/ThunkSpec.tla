------------------------------- MODULE ThunkSpec -------------------------------
(***************************************************************************)
(* What a lazified argument promises the callee (spec.md, "Correctness"): *)
(* a thunk stands for one value; every force returns it.  Call-by-need    *)
(* (memoization on) evaluates the slice at most once; call-by-name        *)
(* (memoization off) evaluates it on every force.                         *)
(***************************************************************************)
EXTENDS Naturals, Sequences

CONSTANT Allowed   \* the values the thunk may stand for

VARIABLES
    byNeed,       \* TRUE: call-by-need; FALSE: call-by-name
    value,        \* the value the thunk stands for
    evaluations,  \* how many times the slice has been evaluated
    returned      \* the results of the forces so far, in order

Init ==
    /\ byNeed \in BOOLEAN
    /\ value \in Allowed
    /\ evaluations = 0
    /\ returned = <<>>

\* A force returns the thunk's value; by need it evaluates the slice only
\* if it never has, by name it evaluates it every time.
Force ==
    /\ returned' = Append(returned, value)
    /\ evaluations' \in IF byNeed
                        THEN {e \in {evaluations, evaluations + 1} : e <= 1}
                        ELSE {evaluations + 1}
    /\ UNCHANGED <<byNeed, value>>

Spec == Init /\ [][Force]_<<byNeed, value, evaluations, returned>>
=============================================================================
