------------------------- MODULE MCDependenceAnalysis -------------------------
(***************************************************************************)
(* Model-checking instance of DependenceAnalysis: callers over three CFG   *)
(* shapes with every SSA-valid choice of operands, and, for the gate       *)
(* properties, every well-formed CFG of four blocks.                       *)
(***************************************************************************)
EXTENDS DependenceAnalysis

MCArgs == {<<"arg", 1>>}

\* if (c) x = ..; else y = ..; phi
Diamond == WithTrees([node |-> 1..4, entry |-> 1,
                      succ |-> <<<<2, 3>>, <<4>>, <<4>>, <<>>>>])

\* a while loop whose header 2 merges the entry and the latch 3
Loop == WithTrees([node |-> 1..4, entry |-> 1,
                   succ |-> <<<<2>>, <<3, 4>>, <<2>>, <<>>>>])

\* a loop whose body branches to an early exit
LoopEarlyExit == WithTrees([node |-> 1..5, entry |-> 1,
                            succ |-> <<<<2>>, <<3, 5>>, <<2, 4>>, <<5>>, <<>>>>])

\* The caller over g in which each PHI merges its predecessors' pure
\* instructions and each pure instruction uses its block's PHI, if any.
Canonical(g) ==
    [cfg |-> g,
     ops |-> [v \in Insts(g) |->
                CASE IsPhi(v) -> [i \in DOMAIN g.pred[BlockOf(v)] |-> Op(g.pred[BlockOf(v)][i])]
                  [] v[1] = "op" -> IF BlockOf(v) \in PhiBlocks(g) THEN <<Phi(BlockOf(v))>> ELSE <<>>
                  [] v[1] = "term" -> IF Len(g.succ[BlockOf(v)]) = 2 THEN <<Op(BlockOf(v))>> ELSE <<>>]]

MCFuncsExamples ==
    Functions(Diamond, MCArgs, 1) \cup Functions(Loop, MCArgs, 1)
        \cup {Canonical(LoopEarlyExit)}

MCFuncsAllCFGs == {Canonical(g) : g \in AllCFGs(4)}

MCFuncs == MCFuncsExamples \cup MCFuncsAllCFGs
=============================================================================
