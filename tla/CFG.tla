-------------------------------- MODULE CFG --------------------------------
(***************************************************************************)
(* Control-flow graphs of an LLVM function and the dominance relations the *)
(* slicer reads from LLVM's DominatorTree and PostDominatorTree.           *)
(*                                                                         *)
(* These relations are computed by LLVM, not by this repository, so they   *)
(* are stated here by their textbook definitions over paths: A dominates B *)
(* iff every path from the entry to B passes A; A post-dominates B iff     *)
(* every path from B to a function exit passes A.  Both are reflexive, as  *)
(* DT.dominates/PDT.dominates are on blocks.  A function with several      *)
(* exits has a virtual post-dominator root, here NoBlock.                  *)
(*                                                                         *)
(* A CFG is a record [node, entry, succ, pred, dom, pdom]: succ[b] is the *)
(* sequence of b's successors in terminator operand order (<<>> for a     *)
(* ret, <<s>> for an unconditional br, <<t, f>> for a conditional br or a  *)
(* two-way switch), pred[b] the predecessors of b in ascending order, and  *)
(* dom, pdom the dominance tables.                                         *)
(***************************************************************************)
EXTENDS Naturals, Sequences, FiniteSets

NoBlock == 0

Succs(g, b) == {g.succ[b][i] : i \in DOMAIN g.succ[b]}

Preds(g, b) == {p \in g.node : b \in Succs(g, p)}

Exits(g) == {b \in g.node : g.succ[b] = <<>>}

\* Blocks reachable from the blocks of S by paths that never enter Avoid.
RECURSIVE ReachAvoiding(_, _, _)
ReachAvoiding(g, S, Avoid) ==
    LET S1 == (S \cup UNION {Succs(g, b) : b \in S}) \ Avoid
    IN  IF S1 = S THEN S ELSE ReachAvoiding(g, S1, Avoid)

DominatesByPaths(g, a, b) ==
    a = b \/ b \notin ReachAvoiding(g, {g.entry} \ {a}, {a})

PostDominatesByPaths(g, a, b) ==
    a = b \/ ReachAvoiding(g, {b} \ {a}, {a}) \cap Exits(g) = {}

\* The blocks of S in increasing order.
RECURSIVE Ascending(_)
Ascending(S) ==
    IF S = {} THEN <<>>
    ELSE LET m == CHOOSE m \in S : \A x \in S : m <= x
         IN  <<m>> \o Ascending(S \ {m})

\* A CFG with its dominance tables, computed once per CFG (as LLVM builds
\* the trees once per function).
WithTrees(g) ==
    [node |-> g.node, entry |-> g.entry, succ |-> g.succ,
     pred |-> [b \in g.node |-> Ascending(Preds(g, b))],
     dom  |-> [p \in g.node \X g.node |-> DominatesByPaths(g, p[1], p[2])],
     pdom |-> [p \in g.node \X g.node |-> PostDominatesByPaths(g, p[1], p[2])]]

Dominates(g, a, b) == g.dom[a, b]

PostDominates(g, a, b) == g.pdom[a, b]

\* The immediate dominator of b: the strict dominator that every other
\* strict dominator dominates; NoBlock for the entry.
IDom(g, b) ==
    LET SDom == {d \in g.node \ {b} : Dominates(g, d, b)}
    IN  IF SDom = {} THEN NoBlock
        ELSE CHOOSE d \in SDom : \A e \in SDom : Dominates(g, e, d)

\* The immediate post-dominator of b; NoBlock when it is the virtual root.
IPDom(g, b) ==
    LET SPDom == {d \in g.node \ {b} : PostDominates(g, d, b)}
    IN  IF SPDom = {} THEN NoBlock
        ELSE CHOOSE d \in SPDom : \A e \in SPDom : PostDominates(g, e, d)

\* The CFGs LLVM accepts and the slicer is run on: every block reachable
\* from the entry, the entry without predecessors, every block reaching an
\* exit (so the post-dominator tree has no reverse-unreachable regions).
WellFormed(g) ==
    /\ ReachAvoiding(g, {g.entry}, {}) = g.node
    /\ Preds(g, g.entry) = {}
    /\ \A b \in g.node : ReachAvoiding(g, {b}, {}) \cap Exits(g) # {}

\* Every well-formed CFG over blocks 1..n with entry 1 and at most two
\* distinct successors per block.
AllCFGs(n) ==
    LET B      == 1..n
        SuccSeqs == {<<>>} \cup {<<s>> : s \in B \ {1}}
                    \cup {<<s, t>> \in (B \ {1}) \X (B \ {1}) : s # t}
    IN  {WithTrees(g) :
           g \in {g \in {[node |-> B, entry |-> 1, succ |-> f] : f \in [B -> SuccSeqs]} :
                    WellFormed(g)}}
=============================================================================
