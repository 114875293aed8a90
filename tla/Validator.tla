------------------------------- MODULE Validator -------------------------------
(***************************************************************************)
(* ProgramSlice::canOutline (src/passes/ProgramSlice.cpp) on the pure IR   *)
(* of module IR.  Every instruction there is a phi, a side-effect-free     *)
(* operation or a branch, so mayThrow, mayReadOrWriteMemory and willReturn *)
(* never refuse, no alloca reaches hasAddressTaken, and the criterion is    *)
(* not an alloca; PHIs have at least two incoming blocks, so the LCSSA      *)
(* test does not apply.  What remains is the loop-depth rule, over LLVM's  *)
(* LoopInfo: natural loops grouped by header.                              *)
(***************************************************************************)
EXTENDS IR

\* Latches of header h: predecessors of h that h dominates (back edges).
Latches(g, h) == {t \in Preds(g, h) : Dominates(g, h, t)}

Headers(g) == {h \in g.node : Latches(g, h) # {}}

\* The loop of header h: h and every block reaching a latch without
\* passing through h.
LoopBlocks(g, h) ==
    {h} \cup {b \in g.node \ {h} :
                 \E t \in Latches(g, h) : t \in ReachAvoiding(g, {b}, {h})}

\* LoopInfo::getLoopDepth: the number of loops containing b.
LoopDepth(g, b) == Cardinality({h \in Headers(g) : b \in LoopBlocks(g, h)})

\* canOutline: a call site inside a loop admits only slices whose blocks
\* are all strictly deeper than the call site.
canOutline(g, BBsInSlice, callBlock) ==
    LoopDepth(g, callBlock) > 0 =>
        \A b \in BBsInSlice : LoopDepth(g, b) > LoopDepth(g, callBlock)
=============================================================================
