-------------------------------- MODULE Gates --------------------------------
(***************************************************************************)
(* The operators of src/passes/ProgramSlice.cpp that are functions of the  *)
(* caller alone: computeGates with getController and getGate, which the    *)
(* slicer computes once per ProgramSlice, computeAttractorBlocks, and the  *)
(* criteria lazifyCallsite accepts.                                        *)
(***************************************************************************)
EXTENDS IR

\* getGate's result when the terminator is neither a br nor a switch: the
\* local `condition` is then read uninitialized.
UndefGate == <<"undef">>

-----------------------------------------------------------------------------
(* computeGates and its helpers.                                           *)

\* Walk up the dominator tree from BB to the first block BB does not
\* post-dominate.
getController(g, BB) ==
    LET RECURSIVE Walk(_)
        Walk(d) == IF d = NoBlock THEN NoBlock
                   ELSE IF ~PostDominates(g, BB, d) THEN d
                   ELSE Walk(IDom(g, d))
    IN  Walk(BB)

\* The value standing for BB's branch: the terminator itself when it is a br
\* (the assert on conditionality is compiled out of release builds) or a
\* switch; uninitialized otherwise.
getGate(g, BB) ==
    IF g.succ[BB] # <<>> THEN Term(BB) ELSE UndefGate

\* Mutant: the post-dominance test of the first case dropped.
computeGatesNoPostDomTest(g) ==
    [BB \in g.node |->
        IF Cardinality(Preds(g, BB)) > 1
        THEN {IF Dominates(g, pred, BB)
              THEN getGate(g, pred)
              ELSE getGate(g, getController(g, pred)) :
                pred \in {p \in Preds(g, BB) :
                            Dominates(g, p, BB) \/ getController(g, p) # NoBlock}}
        ELSE {}]

\* For each block with more than one predecessor, one gate per predecessor:
\* the predecessor's own branch when it dominates BB and BB does not
\* post-dominate it, else the branch of its controller, if any.
computeGates(g) ==
    [BB \in g.node |->
        IF Cardinality(Preds(g, BB)) > 1
        THEN {IF Dominates(g, pred, BB) /\ ~PostDominates(g, BB, pred)
              THEN getGate(g, pred)
              ELSE getGate(g, getController(g, pred)) :
                pred \in {p \in Preds(g, BB) :
                            \/ Dominates(g, p, BB) /\ ~PostDominates(g, BB, p)
                            \/ getController(g, p) # NoBlock}}
        ELSE {}]

\* computeAttractorBlocks: a block of the slice is its own attractor; any
\* other block is attracted to its nearest post-dominator in the slice, or
\* to none (NoBlock) when the walk reaches the post-dominator tree's root.
computeAttractorBlocks(g, inSlice) ==
    LET RECURSIVE Up(_)
        Up(c) == IF c = NoBlock THEN NoBlock
                 ELSE IF c \in inSlice THEN c ELSE Up(IPDom(g, c))
    IN  [b \in g.node |-> IF b \in inSlice THEN b ELSE Up(IPDom(g, b))]

\* The criteria the pass hands the slicer: a non-terminator instruction.
Criteria(f) == {v \in DOMAIN f.ops : v[1] # "term"}
=============================================================================
