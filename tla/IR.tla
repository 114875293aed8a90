--------------------------------- MODULE IR ---------------------------------
(***************************************************************************)
(* The SSA functions the slicer reads.  Data is abstracted to what the     *)
(* slicer tells apart: which instruction a value is, which block it lives  *)
(* in and which values it uses.  Each block b holds                        *)
(*   Phi(b)  a PHI node, present when b has more than one predecessor,     *)
(*           with one incoming value per predecessor;                      *)
(*   Op(b)   a pure instruction using up to two dominating values,         *)
(*           arguments or constants (constants are not values here: the    *)
(*           slicer skips them);                                           *)
(*   Term(b) the terminator: ret, br, or a conditional br on Op(b).        *)
(* A function is [cfg, ops] with ops[v] the sequence of v's operands that  *)
(* are instructions or arguments, in operand order.                        *)
(***************************************************************************)
EXTENDS CFG, SequencesExt

Phi(b)  == <<"phi", b>>
Op(b)   == <<"op", b>>
Term(b) == <<"term", b>>

BlockOf(v) == v[2]
IsPhi(v)   == v[1] = "phi"

PhiBlocks(g) == {b \in g.node : Cardinality(Preds(g, b)) > 1}

Insts(g) ==
    {Phi(b) : b \in PhiBlocks(g)} \cup {Op(b) : b \in g.node}
        \cup {Term(b) : b \in g.node}

\* Definitions of the block d (PHI, then the pure instruction).
DefsOf(g, d) == (IF d \in PhiBlocks(g) THEN {Phi(d)} ELSE {}) \cup {Op(d)}

\* Values an instruction of block b may use under SSA: those defined in a
\* block strictly dominating b, and (for Op(b)) the PHI of b itself.
AvailIn(g, b) ==
    UNION {DefsOf(g, d) : d \in {d \in g.node \ {b} : Dominates(g, d, b)}}
        \cup (IF b \in PhiBlocks(g) THEN {Phi(b)} ELSE {})

\* Values live at the end of block p: an incoming value of a PHI on p's edge.
AvailOut(g, p) == AvailIn(g, p) \cup {Op(p)}

\* The functions f with DOMAIN f = D and f[x] \in R[x] for every x of D.
RECURSIVE Assignments(_, _)
Assignments(D, R) ==
    IF D = {} THEN {[x \in {} |-> NoBlock]}
    ELSE LET x == CHOOSE x \in D : TRUE
         IN  {[y \in DOMAIN f \cup {x} |-> IF y = x THEN c ELSE f[y]] :
                f \in Assignments(D \ {x}, R), c \in R[x]}

\* The operand sequences each instruction of g may have: a pure instruction
\* uses at most MaxUses available values or arguments; a PHI takes, for its
\* i-th incoming block, a value live at the end of that block.
OperandChoices(g, Args, MaxUses) ==
    LET PredSeq(b) == g.pred[b]
    IN  [v \in Insts(g) |->
           CASE v[1] = "op" ->
                  {SetToSeq(S) : S \in {S \in SUBSET (AvailIn(g, BlockOf(v)) \cup Args) :
                                          Cardinality(S) <= MaxUses}}
             [] v[1] = "phi" ->
                  LET ps == PredSeq(BlockOf(v))
                  IN  Assignments(DOMAIN ps, [i \in DOMAIN ps |-> AvailOut(g, ps[i]) \cup Args])
             [] v[1] = "term" ->
                  {IF Len(g.succ[BlockOf(v)]) = 2 THEN <<Op(BlockOf(v))>> ELSE <<>>}]

\* Every SSA function over cfg g and arguments Args.
Functions(g, Args, MaxUses) ==
    {[cfg |-> g, ops |-> o] : o \in Assignments(Insts(g), OperandChoices(g, Args, MaxUses))}

\* The incoming blocks of a PHI, in the order of its operands.
IncomingBlocks(g, v) == g.pred[BlockOf(v)]
=============================================================================
