------------------------------ MODULE MCOutliner ------------------------------
(***************************************************************************)
(* Model-checking instance of Outliner: every well-formed caller CFG of up *)
(* to four blocks, with canonical operands (every PHI reads the operation  *)
(* of each predecessor, every operation reads its block's PHI, every       *)
(* conditional branch its block's operation), and a family of five-block  *)
(* loops for the PHI repair.                                               *)
(***************************************************************************)
EXTENDS Outliner

MCArgs == {<<"arg", 1>>}

Canonical(g) ==
    [cfg |-> g,
     ops |-> [v \in Insts(g) |->
                CASE IsPhi(v) -> [i \in DOMAIN g.pred[BlockOf(v)] |-> Op(g.pred[BlockOf(v)][i])]
                  [] v[1] = "op" -> IF BlockOf(v) \in PhiBlocks(g) THEN <<Phi(BlockOf(v))>> ELSE <<>>
                  [] v[1] = "term" -> IF Len(g.succ[BlockOf(v)]) = 2 THEN <<Op(BlockOf(v))>> ELSE <<>>]]

MCFuncs == {Canonical(g) : g \in AllCFGs(4)}

\* Five-block CFGs in which the entry branches to block 5, a loop header
\* with a self-loop and two further latches among blocks 2..4: its PHI has
\* four entries, and a slice can drop two adjacent ones.
MCLoopHeaderFuncs ==
    LET B        == 1..5
        SuccSeqs == {<<>>} \cup {<<s>> : s \in B \ {1}}
                    \cup {<<s, t>> \in (B \ {1}) \X (B \ {1}) : s # t}
        Latch    == {s \in SuccSeqs : 5 \in ToSet(s)}
        SuccsOf(o, b) == IF b = o THEN SuccSeqs \ Latch ELSE Latch
        Shapes   == UNION {{<<<<5>>, x2, x3, x4, x5>> :
                               x2 \in SuccsOf(o, 2), x3 \in SuccsOf(o, 3),
                               x4 \in SuccsOf(o, 4), x5 \in Latch} : o \in 2..4}
    IN  {Canonical(WithTrees(g)) :
           g \in {g \in {[node |-> B, entry |-> 1, succ |-> f] : f \in Shapes} :
                    WellFormed(g)}}
=============================================================================
