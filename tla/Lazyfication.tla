----------------------------- MODULE Lazyfication -----------------------------
(***************************************************************************)
(* The pass driver of src/passes/Lazyfication.cpp: runOnModule walks the   *)
(* candidate (call, argument index) pairs of FindLazyfiableAnalysis and    *)
(* calls lazifyCallsite on those whose current callee and index are in the *)
(* analysis' set of lazyfiable paths; lazifyCallsite slices, validates,    *)
(* outlines, clones the callee and rewrites the call, and keeps the        *)
(* statistics.                                                             *)
(*                                                                         *)
(* What a slice is and whether it is outlineable is decided by the         *)
(* DependenceAnalysis and validator modules; here the answer for a         *)
(* candidate, the identity of its argument value and the size of the      *)
(* outlined thunk are inputs chosen when the candidate is processed (each  *)
(* pair is processed at most once, so choosing then is choosing up front). *)
(***************************************************************************)
EXTENDS Naturals, Sequences, FiniteSets, TLC

CONSTANTS
    Calls,          \* the call instructions of the module
    Callees,        \* the functions they call before the pass runs
    Indices,        \* argument positions
    Callers,        \* the functions containing the calls
    ArgValues,      \* instructions a lazified argument may be
    SliceSizes,     \* possible instruction counts of an outlined thunk
    UIntMax         \* std::numeric_limits<unsigned int>::max(), the initial
                    \* SmallestSliceSize; larger than every slice size

ASSUME \A s \in SliceSizes : 0 < s /\ s < UIntMax

\* _wyvern_calleeclone_<f>_<index>: the clone of f with parameter index
\* turned into a thunk pointer.
Clone(f, i) == <<"clone", f, i>>

\* Candidate lists FindLazyfiableAnalysis can return: distinct pairs.
CandidateLists ==
    {s \in UNION {[1..n -> Calls \X Indices] : n \in 0..Cardinality(Calls \X Indices)} :
        \A j, k \in DOMAIN s : j # k => s[j] # s[k]}

VARIABLES
    callSites,          \* FLA.getLazyfiableCallSites(), in iteration order
    lazyfiablePaths,    \* FLA.getLazyfiablePaths(): (callee, index) pairs
    callerOf,           \* the caller containing each call
    calledFunction,     \* CI.getCalledFunction() of each call, as rewritten
    thunkArgs,          \* (call, index) operands replaced by a thunk
    lazifiedFunctions,  \* the pass' set of (caller, lazified value) pairs
    NumCallsitesLazified, NumFunctionsLazified,
    LargestSliceSize, SmallestSliceSize, TotalSliceSize,
    sizeOf,             \* slice size recorded for each rewritten (call, index)
    next,               \* index of the next candidate of callSites
    changed,            \* runOnModule's `changed`
    pc                  \* "loop" or "done"

vars == <<callSites, lazyfiablePaths, callerOf, calledFunction, thunkArgs,
          lazifiedFunctions, NumCallsitesLazified, NumFunctionsLazified,
          LargestSliceSize, SmallestSliceSize, TotalSliceSize, sizeOf,
          next, changed, pc>>

stats == <<NumCallsitesLazified, NumFunctionsLazified, LargestSliceSize,
           SmallestSliceSize, TotalSliceSize>>

\* Statistics start at 0 (LLVM STATISTIC); runOnModule's first statement sets
\* SmallestSliceSize to UINT_MAX.
Init ==
    /\ callSites \in CandidateLists
    /\ lazyfiablePaths \in SUBSET (Callees \X Indices)
    /\ callerOf \in [Calls -> Callers]
    /\ calledFunction \in [Calls -> Callees]
    /\ thunkArgs = {}
    /\ lazifiedFunctions = {}
    /\ NumCallsitesLazified = 0
    /\ NumFunctionsLazified = 0
    /\ LargestSliceSize = 0
    /\ SmallestSliceSize = UIntMax
    /\ TotalSliceSize = 0
    /\ sizeOf = <<>>
    /\ next = 1
    /\ changed = FALSE
    /\ pc = "loop"

Candidate == callSites[next]

\* The loop's guard: the candidate's callee is read from the call as it is
\* now, after earlier iterations may have rewritten it.
Eligible ==
    <<calledFunction[Candidate[1]], Candidate[2]>> \in lazyfiablePaths

\* Iteration whose pair is not a lazyfiable path: nothing happens.
SkipCandidate ==
    /\ pc = "loop" /\ next <= Len(callSites)
    /\ ~Eligible
    /\ next' = next + 1
    /\ UNCHANGED <<callSites, lazyfiablePaths, callerOf, calledFunction, thunkArgs,
                   lazifiedFunctions, stats, sizeOf, changed, pc>>

\* lazifyCallsite returns false: the operand is not an instruction, or the
\* slice is not outlineable (the module is left as it was).  runOnModule
\* assigns the result to changed.
RejectCandidate ==
    /\ pc = "loop" /\ next <= Len(callSites)
    /\ Eligible
    /\ changed' = FALSE
    /\ next' = next + 1
    /\ UNCHANGED <<callSites, lazyfiablePaths, callerOf, calledFunction, thunkArgs,
                   lazifiedFunctions, stats, sizeOf, pc>>

\* lazifyCallsite returns true: count the call site, count the (caller,
\* value) pair if new, call the callee's clone with the thunk in place of
\* the argument, and fold the thunk's size into the statistics.
LazifyCandidate ==
    /\ pc = "loop" /\ next <= Len(callSites)
    /\ Eligible
    /\ \E value \in ArgValues, size \in SliceSizes :
        LET call == Candidate[1]
            idx  == Candidate[2]
            key  == <<callerOf[call], value>>
        IN  /\ NumCallsitesLazified' = NumCallsitesLazified + 1
            /\ lazifiedFunctions' = lazifiedFunctions \cup {key}
            /\ NumFunctionsLazified' = IF key \in lazifiedFunctions
                                       THEN NumFunctionsLazified
                                       ELSE NumFunctionsLazified + 1
            /\ calledFunction' = [calledFunction EXCEPT ![call] = Clone(@, idx)]
            /\ thunkArgs' = thunkArgs \cup {Candidate}
            /\ TotalSliceSize' = TotalSliceSize + size
            /\ LargestSliceSize' = IF LargestSliceSize < size THEN size ELSE LargestSliceSize
            /\ SmallestSliceSize' = IF SmallestSliceSize > size THEN size ELSE SmallestSliceSize
            /\ sizeOf' = sizeOf @@ (Candidate :> size)
    /\ changed' = TRUE
    /\ next' = next + 1
    /\ UNCHANGED <<callSites, lazyfiablePaths, callerOf, pc>>

\* Mutant: the sentinel is not reset after the loop.
FinishKeepsSentinel ==
    /\ pc = "loop" /\ next > Len(callSites)
    /\ pc' = "done"
    /\ UNCHANGED <<callSites, lazyfiablePaths, callerOf, calledFunction, thunkArgs,
                   lazifiedFunctions, stats, sizeOf, next, changed>>

\* After the loop: a SmallestSliceSize still at UINT_MAX is reset to 0.
Finish ==
    /\ pc = "loop" /\ next > Len(callSites)
    /\ SmallestSliceSize' = IF SmallestSliceSize = UIntMax THEN 0 ELSE SmallestSliceSize
    /\ pc' = "done"
    /\ UNCHANGED <<callSites, lazyfiablePaths, callerOf, calledFunction, thunkArgs,
                   lazifiedFunctions, NumCallsitesLazified, NumFunctionsLazified,
                   LargestSliceSize, TotalSliceSize, sizeOf, next, changed>>

Next == SkipCandidate \/ RejectCandidate \/ LazifyCandidate \/ Finish

Spec == Init /\ [][Next]_vars /\ WF_vars(Next)

-----------------------------------------------------------------------------
(* Properties.                                                             *)

\* When runOnModule returns, SmallestSliceSize and LargestSliceSize are the
\* least and greatest size of an outlined thunk, and both are 0 when no call
\* was lazified: the UINT_MAX sentinel set on entry never survives.
SliceSizeBoundsExact ==
    pc = "done" =>
        IF thunkArgs = {}
        THEN SmallestSliceSize = 0 /\ LargestSliceSize = 0
        ELSE /\ \E t \in thunkArgs : SmallestSliceSize = sizeOf[t]
             /\ \E t \in thunkArgs : LargestSliceSize = sizeOf[t]
             /\ \A t \in thunkArgs : SmallestSliceSize <= sizeOf[t] /\ sizeOf[t] <= LargestSliceSize
=============================================================================
