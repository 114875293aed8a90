--------------------------------- MODULE Thunk ---------------------------------
(***************************************************************************)
(* One lazified call site at run time: the call-site rewrite of           *)
(* lazifyCallsite (src/passes/Lazyfication.cpp), the forcing calls that   *)
(* cloneCalleeFunction puts in the callee clone, and the thunk body's     *)
(* parameter loads and memoization code (insertLoadForThunkParams and     *)
(* addMemoizationCode, src/passes/ProgramSlice.cpp).                      *)
(*                                                                         *)
(* The slice's computation is abstracted to Body: its value is a function  *)
(* of the captured caller arguments it loads from the thunk record.  The  *)
(* callee clone's execution is abstracted to the number of uses of the    *)
(* lazified parameter it reaches.                                         *)
(***************************************************************************)
EXTENDS Naturals, Sequences

CONSTANTS
    Vals,        \* values of the argument's type
    MemoModes,   \* the values the wylazy-memo option may have
    NArgs,       \* the number of captured caller arguments, |_depArgs|
    MaxUses,     \* the most uses of the parameter the clone may reach
    K,           \* the slice's value when it captures no argument
    ActualArg,   \* the caller's value of a captured argument
    ThunkPtr     \* the thunk record pointer, as an operand value

\* The slice's value, given the captured arguments the thunk loaded.
Body(args) == IF args = <<>> THEN K ELSE args[1]

VARIABLES
    memo,       \* WyvernLazificationMemoization
    uses,       \* how many more uses of the parameter the clone reaches
    mem,        \* the stack memory of the memo thunk record: slots 1
                \* (cached value), 2 (flag) and 3.. (captured arguments)
    pc,         \* "callsite" before the rewritten call runs, then "callee"
    evals,      \* executions of the slice's computation
    returned    \* results of the forcing calls, in order

vars == <<memo, uses, mem, pc, evals, returned>>

\* What the uninitialised stack memory of a memo record can hold.
Records(n) == [val : Vals, flag : BOOLEAN, args : [1..n -> Vals]]

\* The value the eager argument had.
Eager == Body([i \in 1..NArgs |-> ActualArg])

Init ==
    /\ memo \in MemoModes
    /\ uses \in 1..MaxUses
    /\ mem \in IF memo THEN Records(NArgs) ELSE {<<>>}
    /\ pc = "callsite"
    /\ evals = 0
    /\ returned = <<>>

\* Memo call site: alloca the record, store the thunk into slot 0 through
\* GEP {0}, store i8 0 through the single-index GEP {2}, which addresses
\* the third record past the alloca, not the flag slot; no captured
\* argument slot is stored; then switch the callee and pass the record.
\* Of the record's slots 1.., none is written.
CallSiteRecord(m) == m

RewriteMemoCall ==
    /\ pc = "callsite" /\ memo
    /\ mem' = CallSiteRecord(mem)
    /\ pc' = "callee"
    /\ UNCHANGED <<memo, uses, evals, returned>>

\* Non-memo call site: switch the callee and pass the thunk function itself.
RewriteByNameCall ==
    /\ pc = "callsite" /\ ~memo
    /\ pc' = "callee"
    /\ UNCHANGED <<memo, uses, mem, evals, returned>>

\* The memo thunk's prologue: load the cached value and the flag; a set
\* flag returns the cached value, otherwise the body runs on the captured
\* arguments loaded from slots 3...
ThunkResult(m) == IF m.flag THEN m.val ELSE Body(m.args)

\* Mutant: the epilogue's two stores swap struct indices 1 and 2.
EpilogueSwapped(m, r) == IF m.flag THEN m ELSE [m EXCEPT !.flag = r, !.val = TRUE]

\* Mutant: the epilogue stores the result but not the flag.
EpilogueNoFlag(m, r) == IF m.flag THEN m ELSE [m EXCEPT !.val = r]

\* The memo thunk's epilogue, before the body's return: store 1 to the
\* flag and the result to the cached-value slot.
Epilogue(m, r) == IF m.flag THEN m ELSE [m EXCEPT !.flag = TRUE, !.val = r]

\* A use reached in a memo clone: load the function pointer from slot 0 and
\* call it with the record.  The use itself still reads the record
\* pointer: updateMemoizedThunkArgUses replaces no use.
ForceMemo ==
    /\ pc = "callee" /\ memo /\ uses > 0
    /\ LET r == ThunkResult(mem)
       IN  /\ mem' = Epilogue(mem, r)
           /\ evals' = IF mem.flag THEN evals ELSE evals + 1
           /\ returned' = Append(returned, r)
    /\ uses' = uses - 1
    /\ UNCHANGED <<memo, pc>>

\* A use reached in a non-memo clone: call the parameter with no argument
\* and make the use read the call's result.  The thunk's record parameter
\* is then undefined, so each captured argument it loads may be anything.
ForceByName ==
    /\ pc = "callee" /\ ~memo /\ uses > 0
    /\ \E args \in [1..NArgs -> Vals] : returned' = Append(returned, Body(args))
    /\ evals' = evals + 1
    /\ uses' = uses - 1
    /\ UNCHANGED <<memo, mem, pc>>

Next == RewriteMemoCall \/ RewriteByNameCall \/ ForceMemo \/ ForceByName

Spec == Init /\ [][Next]_vars

-----------------------------------------------------------------------------
(* Properties.                                                             *)

\* The variables hold values of their types; in particular the memo
\* record's cached-value slot holds a value and its flag slot a bit.
TypeOK ==
    /\ memo \in BOOLEAN
    /\ uses \in 0..MaxUses
    /\ mem \in Records(NArgs) \cup {<<>>}
    /\ pc \in {"callsite", "callee"}
    /\ evals \in Nat
    /\ returned \in Seq(Vals)

\* The value a memo thunk stands for: the cached value if the flag already
\* reads set, else what its body computes from the record.
MemoValue == ThunkResult(mem)

\* The value the thunk stands for: by name the eager one; by need the
\* memo thunk's, read from the record as the call site leaves it, since
\* before the call runs the record is not yet the thunk's.
ThunkValue ==
    IF ~memo THEN Eager
    ELSE IF pc = "callsite" THEN ThunkResult(CallSiteRecord(mem)) ELSE MemoValue

\* The value the caller expects the thunk to stand for: the eager argument
\* until the rewritten call passes the thunk, the thunk's own after.
ValuePassed == IF memo /\ pc = "callee" THEN MemoValue ELSE Eager

AnyValue == INSTANCE ThunkSpec
    WITH Allowed <- Vals, byNeed <- memo, value <- ThunkValue,
         evaluations <- evals, returned <- returned

EagerValue == INSTANCE ThunkSpec
    WITH Allowed <- {Eager}, byNeed <- memo, value <- ValuePassed,
         evaluations <- evals, returned <- returned

(* The thunk implements its mode's discipline (spec.md, "Correctness").   *)
(* By need, every forcing call returns the same value and the slice runs  *)
(* at most once over the record's lifetime, whatever the uninitialised   *)
(* record held: memo idempotence, from addMemoizationCode's prologue and  *)
(* epilogue.  By name, every forcing call of updateThunkArgUses evaluates *)
(* the slice again and returns the eager value.                          *)
ThunkImplementsMode == AnyValue!Spec

(* Semantic preservation: the value the callee sees through the thunk,    *)
(* from the rewritten call on and at every force, is the value the eager  *)
(* argument had.  The memo call site must leave the record's flag clear   *)
(* and its captured arguments stored (lazifyCallsite's memo branch), and  *)
(* the non-memo forcing call must pass the thunk its captured arguments.  *)
ThunkReturnsEager == EagerValue!Spec
=============================================================================
