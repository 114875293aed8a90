----------------------------- MODULE AddressTaken -----------------------------
(***************************************************************************)
(* ProgramSlice::canOutline (src/passes/ProgramSlice.cpp) on slices that   *)
(* touch memory, with the recursive hasAddressTaken it calls on an alloca  *)
(* of the slice.                                                           *)
(*                                                                         *)
(* The function is one alloca (instruction 1), N - 1 further instructions  *)
(* over pointer operands, and the lazified call site (instruction N + 1),  *)
(* a user of the slicing criterion.  The slice is the criterion's backward *)
(* closure over operands; the branches the slicer adds pass every test of  *)
(* canOutline, so they are left out.  Iteration orders the code does not   *)
(* fix are free choices: _instsInSlice is a std::set of pointers, and      *)
(* users() follows the use list.  hasAddressTaken's recursion is an        *)
(* explicit stack of frames, one per active call.                          *)
(***************************************************************************)
EXTENDS Naturals, Sequences, FiniteSets

CONSTANTS
    N,          \* instructions of the function, the alloca included
    ALLOC,      \* getTypeAllocSize of the alloca's type
    Sizes,      \* access sizes of loads and stores
    Offsets,    \* constant offsets of GEPs
    MaxDepth    \* the most hasAddressTaken frames the model keeps

ASSUME MaxDepth > N   \* an acyclic user chain never needs more frames

CallSite == N + 1
Ids == 1..CallSite

\* Instructions that yield a pointer and may be another's operand.
PtrKinds == {"alloca", "gep", "gepvar", "bitcast", "phi"}

\* One instruction: its kind, its access size or GEP offset, its operands.
Shapes(i) ==
    LET earlier == 1..(i - 1)
        single  == [k : {"load", "store"}, n : Sizes, ops : {{o} : o \in earlier}]
                   \cup [k : {"gep"}, n : Offsets, ops : {{o} : o \in earlier}]
                   \cup [k : {"storeval", "ptrtoint", "call", "callro",
                              "gepvar", "bitcast", "other"},
                         n : {0}, ops : {{o} : o \in earlier}]
        phis    == [k : {"phi"}, n : {0},
                    ops : {p \in SUBSET ((1..N) \ {i}) : Cardinality(p) = 2}]
    IN  single \cup phis

\* Every operand is a pointer; non-PHI operands precede their user (SSA).
WellTyped(f) == \A i \in DOMAIN f : \A o \in f[i].ops : f[o].k \in PtrKinds

\* The functions of N instructions, built one position at a time.
RECURSIVE Prefixes(_)
Prefixes(i) ==
    IF i = 1 THEN {<<[k |-> "alloca", n |-> 0, ops |-> {}]>>}
    ELSE {Append(p, s) : p \in Prefixes(i - 1), s \in Shapes(i)}

Functions == {f \in Prefixes(N) : WellTyped(f)}

VARIABLES
    ir,        \* the function's instructions and the call site
    crit,      \* the slicing criterion, _initial
    loopOK,    \* the loop-depth rule's verdict (module Validator)
    slice,     \* _instsInSlice
    todo,      \* the instructions canOutline's loop has yet to visit
    stack,     \* hasAddressTaken's frames, the innermost first
    pc,        \* "loop", "addr" (inside hasAddressTaken) or "done"
    result     \* canOutline's return value

vars == <<ir, crit, loopOK, slice, todo, stack, pc, result>>

Users(v) == {u \in Ids : v \in ir[u].ops}

\* The backward closure of the criterion over operands.
RECURSIVE Closure(_)
Closure(S) ==
    LET T == S \cup UNION {ir[i].ops : i \in S}
    IN  IF T = S THEN S ELSE Closure(T)

Init ==
    /\ \E f \in Functions, c \in 1..N, callee \in {"call", "callro"} :
          /\ f[c].k \notin {"store", "storeval"}
          /\ ir = [i \in Ids |-> IF i = CallSite
                                 THEN [k |-> callee, n |-> 0, ops |-> {c}]
                                 ELSE f[i]]
          /\ crit = c
    /\ loopOK \in BOOLEAN
    /\ slice = Closure({crit})
    /\ todo = slice
    /\ stack = <<>>
    /\ pc = "loop"
    /\ result = TRUE

\* mayThrow, mayReadOrWriteMemory or !willReturn: loads, stores and calls.
Refuses(i) == ir[i].k \in {"load", "store", "storeval", "call", "callro"}

Frame(v, size) == [v |-> v, size |-> size, users |-> Users(v)]

\* One iteration of canOutline's loop over _instsInSlice.
CanOutlineInst ==
    /\ pc = "loop"
    /\ \E i \in todo :
          \/ /\ Refuses(i)
             /\ result' = FALSE /\ pc' = "done"
             /\ UNCHANGED <<todo, stack>>
          \/ /\ ~Refuses(i) /\ ir[i].k = "alloca"
             /\ todo' = todo \ {i}
             /\ stack' = <<Frame(i, ALLOC)>>
             /\ pc' = "addr"
             /\ UNCHANGED result
          \/ /\ ~Refuses(i) /\ ir[i].k # "alloca"
             /\ todo' = todo \ {i}
             /\ UNCHANGED <<stack, pc, result>>
    /\ UNCHANGED <<ir, crit, loopOK, slice>>

\* hasAddressTaken's tests that return true for user u at size s: an
\* access past the object, the address stored, cast to an integer or
\* passed to a call that may write, an unknown or out-of-bounds offset,
\* and any instruction the switch does not list.
Taken(u, s) ==
    \/ ir[u].k \in {"load", "store"} /\ ir[u].n > s
    \/ ir[u].k \in {"storeval", "ptrtoint", "call", "gepvar", "other"}
    \/ ir[u].k = "gep" /\ ~(s > ir[u].n)

\* Users that carry the address on: GEP, BitCast, Select, PHI.
Forwards(u) == ir[u].k \in {"gep", "bitcast", "phi"}

\* Mutant: the GEP case keeps AllocSize instead of the remaining space.
GepRemainingKeep(s, off) == s

\* Mutant: the subtraction's operands swapped.
GepRemainingSwapped(s, off) == off - s

\* NewAllocSize: the space left after the GEP's offset.
GepRemaining(s, off) == s - off

\* The size a forwarded user is examined with.
ForwardSize(u, s) == IF ir[u].k = "gep" THEN GepRemaining(s, ir[u].n) ELSE s

\* One iteration of hasAddressTaken's loop over the innermost frame's
\* users: a true answer returns through every frame and canOutline
\* refuses; a forwarding user is examined by a recursive call; any other
\* user is passed over.
HasAddressTakenUser ==
    /\ pc = "addr"
    /\ LET f == Head(stack)
           rest(u) == <<[f EXCEPT !.users = @ \ {u}]>> \o Tail(stack)
       IN  \E u \in f.users :
              \/ /\ Taken(u, f.size)
                 /\ stack' = <<>> /\ result' = FALSE /\ pc' = "done"
              \/ /\ ~Taken(u, f.size) /\ Forwards(u)
                 /\ Len(stack) < MaxDepth
                 /\ stack' = <<Frame(u, ForwardSize(u, f.size))>> \o rest(u)
                 /\ UNCHANGED <<pc, result>>
              \/ /\ ~Taken(u, f.size) /\ ~Forwards(u)
                 /\ stack' = rest(u)
                 /\ UNCHANGED <<pc, result>>
    /\ UNCHANGED <<ir, crit, loopOK, slice, todo>>

\* hasAddressTaken returns false once its users are exhausted; the
\* outermost call returning false resumes canOutline's loop.
HasAddressTakenReturn ==
    /\ pc = "addr"
    /\ Head(stack).users = {}
    /\ stack' = Tail(stack)
    /\ pc' = IF Tail(stack) = <<>> THEN "loop" ELSE "addr"
    /\ UNCHANGED <<ir, crit, loopOK, slice, todo, result>>

\* After the loop: the loop-depth rule, an alloca criterion, and the LCSSA
\* test, which needs a single-entry PHI and so never refuses here.
CanOutlineFinish ==
    /\ pc = "loop" /\ todo = {}
    /\ result' = (loopOK /\ ir[crit].k # "alloca")
    /\ pc' = "done"
    /\ UNCHANGED <<ir, crit, loopOK, slice, todo, stack>>

Next == CanOutlineInst \/ HasAddressTakenUser \/ HasAddressTakenReturn
        \/ CanOutlineFinish

\* canOutline is one sequential call: while it has a step, it takes one.
Spec == Init /\ [][Next]_vars /\ WF_vars(Next)

-----------------------------------------------------------------------------
(* Reference definitions.                                                  *)

\* The (value, remaining size) pairs the address reaches through users
\* that forward it, as a least fixed point: it is finite even where the
\* users form a cycle.
RECURSIVE Reached(_)
Reached(R) ==
    LET fwd(p) == {w \in Users(p[1]) :
                      \/ ir[w].k \in {"bitcast", "phi"}
                      \/ ir[w].k = "gep" /\ ir[w].n < p[2]}
        step == UNION {{<<u, IF ir[u].k = "gep" THEN p[2] - ir[u].n ELSE p[2]>> :
                           u \in fwd(p)} : p \in R}
        T == R \cup step
    IN  IF T = R THEN R ELSE Reached(T)

\* The alloca's address escapes: some user of a value it reaches
\* accesses beyond what is left of the object, or lets the address out.
AddressEscapes(a) ==
    \E p \in Reached({<<a, ALLOC>>}) : \E u \in Users(p[1]) :
        \/ ir[u].k \in {"load", "store"} /\ ir[u].n > p[2]
        \/ ir[u].k \in {"storeval", "ptrtoint", "call", "gepvar", "other"}
        \/ ir[u].k = "gep" /\ ir[u].n >= p[2]

\* What canOutline should answer for this slice.
OutlineAllowed ==
    /\ \A i \in slice : ~Refuses(i)
    /\ \A i \in slice : ir[i].k = "alloca" => ~AddressEscapes(i)
    /\ loopOK
    /\ ir[crit].k # "alloca"

-----------------------------------------------------------------------------
(* Properties.                                                             *)

TypeOK ==
    /\ crit \in 1..N /\ loopOK \in BOOLEAN
    /\ slice \subseteq 1..N /\ todo \subseteq slice
    /\ stack \in Seq([v : Ids, size : 0..ALLOC, users : SUBSET Ids])
    /\ Len(stack) <= MaxDepth
    /\ pc \in {"loop", "addr", "done"}
    /\ result \in BOOLEAN

\* Whenever canOutline returns, its verdict is the reference one, whatever
\* order std::set puts the slice in and whatever order the use lists give
\* hasAddressTaken: the early returns, the shrinking AllocSize along GEPs
\* and the propagation of a true answer through the recursion agree with
\* the closure over every forwarded value.
VerdictMatchesReference == pc = "done" => (result <=> OutlineAllowed)

\* canOutline returns on every slice: hasAddressTaken's recursion ends.
CanOutlineTerminates == <>(pc = "done")
=============================================================================
