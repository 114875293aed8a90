-------------------------- MODULE DependenceAnalysis --------------------------
(***************************************************************************)
(* The Dependence Analyzer of src/passes/ProgramSlice.cpp: the breadth-   *)
(* first walk get_data_dependences_for over the gates of computeGates      *)
(* (module Gates), and the ProgramSlice constructor that splits the walk's *)
(* result into instructions and arguments and computes the attractors.     *)
(*                                                                         *)
(* The constructor runs once per candidate (caller F, value Initial).  Its *)
(* loop is modelled step by step (one action per popped worklist entry),   *)
(* the rest, which has no intermediate state anyone reads, as operators.   *)
(***************************************************************************)
EXTENDS Gates

CONSTANTS
    Funcs,   \* the callers the slicer may be given: records [cfg, ops]
    Args     \* the callers' formal parameters

-----------------------------------------------------------------------------
(* get_data_dependences_for: the worklist walk.                            *)

VARIABLES
    fn,          \* the caller F being sliced
    initial,     \* the slicing criterion I
    gates,       \* the map computed by computeGates(F)
    toVisit,     \* the FIFO to_visit
    visited,     \* values ever pushed as an operand
    deps,        \* values reached so far
    BBs,         \* blocks reached so far
    pc,          \* "walk" while the loop runs, "done" once the slice is built
    instsInSlice,\* _instsInSlice
    depArgs,     \* _depArgs
    attractors   \* _attractors

vars == <<fn, initial, gates, toVisit, visited, deps, BBs, pc,
          instsInSlice, depArgs, attractors>>

\* The operands of a value the loop pushes: those not yet visited, each once
\* (visited is updated as the loop runs, so a repeated operand is skipped).
FreshOperands(s, V) ==
    LET keep == SelectSeq([i \in 1..Len(s) |-> i],
                          LAMBDA i : s[i] \notin V /\ \A j \in 1..(i - 1) : s[j] # s[i])
    IN  [k \in 1..Len(keep) |-> s[keep[k]]]

Init ==
    /\ fn \in Funcs
    /\ initial \in Criteria(fn)
    /\ gates = computeGates(fn.cfg)
    /\ toVisit = <<initial>>
    /\ visited = {}
    /\ deps = {initial}
    /\ BBs = {}
    /\ pc = "walk"
    /\ instsInSlice = {}
    /\ depArgs = {}
    /\ attractors = [b \in fn.cfg.node |-> NoBlock]

\* Mutant: PHI gates never pushed.
VisitNextNoGates ==
    /\ pc = "walk"
    /\ toVisit # <<>>
    /\ LET cur    == Head(toVisit)
           isInst == cur \in DOMAIN fn.ops
           pushed == IF isInst THEN FreshOperands(fn.ops[cur], visited) ELSE <<>>
       IN  /\ deps' = deps \cup {cur}
           /\ BBs' = BBs \cup (IF isInst THEN {BlockOf(cur)} ELSE {})
                         \cup (IF isInst /\ IsPhi(cur)
                               THEN ToSet(IncomingBlocks(fn.cfg, cur)) ELSE {})
           /\ visited' = visited \cup ToSet(pushed)
           /\ toVisit' = Tail(toVisit) \o pushed
    /\ UNCHANGED <<fn, initial, gates, pc, instsInSlice, depArgs, attractors>>

\* Mutant: the pop moved inside the instruction case, so an argument at the
\* head of the queue is never removed.
VisitNextPopInstOnly ==
    /\ pc = "walk"
    /\ toVisit # <<>>
    /\ Head(toVisit) \in DOMAIN fn.ops
    /\ LET cur    == Head(toVisit)
           pushed == FreshOperands(fn.ops[cur], visited)
           vis    == visited \cup ToSet(pushed)
           gatesOfPhi == IF IsPhi(cur)
                         THEN SetToSeq({gt \in gates[BlockOf(cur)] :
                                          gt # UndefGate /\ gt \notin vis})
                         ELSE <<>>
       IN  /\ deps' = deps \cup {cur}
           /\ BBs' = BBs \cup {BlockOf(cur)}
                         \cup (IF IsPhi(cur) THEN ToSet(IncomingBlocks(fn.cfg, cur)) ELSE {})
           /\ visited' = vis
           /\ toVisit' = Tail(toVisit) \o pushed \o gatesOfPhi
    /\ UNCHANGED <<fn, initial, gates, pc, instsInSlice, depArgs, attractors>>

\* One iteration of the while loop: pop the head, record it, push its
\* unvisited operands, and for a PHI add its incoming blocks and push the
\* gates of its block that are not visited (gates are not marked visited).
VisitNext ==
    /\ pc = "walk"
    /\ toVisit # <<>>
    /\ LET cur    == Head(toVisit)
           isInst == cur \in DOMAIN fn.ops
           pushed == IF isInst THEN FreshOperands(fn.ops[cur], visited) ELSE <<>>
           vis    == visited \cup ToSet(pushed)
           gatesOfPhi == IF isInst /\ IsPhi(cur)
                         THEN SetToSeq({gt \in gates[BlockOf(cur)] :
                                          gt # UndefGate /\ gt \notin vis})
                         ELSE <<>>
       IN  /\ deps' = deps \cup {cur}
           /\ BBs' = BBs \cup (IF isInst THEN {BlockOf(cur)} ELSE {})
                         \cup (IF isInst /\ IsPhi(cur)
                               THEN ToSet(IncomingBlocks(fn.cfg, cur)) ELSE {})
           /\ visited' = vis
           /\ toVisit' = Tail(toVisit) \o pushed \o gatesOfPhi
    /\ UNCHANGED <<fn, initial, gates, pc, instsInSlice, depArgs, attractors>>

\* Mutant: every value of the walk, arguments included, taken as an
\* instruction of the slice.
BuildSliceNoSplit ==
    /\ pc = "walk"
    /\ toVisit = <<>>
    /\ instsInSlice' = deps
    /\ depArgs' = deps \cap Args
    /\ attractors' = computeAttractorBlocks(fn.cfg, BBs)
    /\ pc' = "done"
    /\ UNCHANGED <<fn, initial, gates, toVisit, visited, deps, BBs>>

\* The rest of the constructor once the queue is empty: arguments go to
\* depArgs, instructions to instsInSlice, then computeAttractorBlocks.
BuildSlice ==
    /\ pc = "walk"
    /\ toVisit = <<>>
    /\ instsInSlice' = deps \cap DOMAIN fn.ops
    /\ depArgs' = deps \cap Args
    /\ attractors' = computeAttractorBlocks(fn.cfg, BBs)
    /\ pc' = "done"
    /\ UNCHANGED <<fn, initial, gates, toVisit, visited, deps, BBs>>

Next == VisitNext \/ BuildSlice

Spec == Init /\ [][Next]_vars /\ WF_vars(Next)

-----------------------------------------------------------------------------
(* Properties.                                                             *)

\* Every variable of the slicer holds what its C++ type allows: the
\* worklist and the visited set hold instructions and arguments of the
\* caller, instsInSlice only instructions (the constructor's dyn_cast split),
\* attractors map blocks to blocks or to no block.
TypeOK ==
    /\ initial \in Criteria(fn)
    /\ toVisit \in Seq(DOMAIN fn.ops \cup Args)
    /\ visited \subseteq DOMAIN fn.ops \cup Args
    /\ deps \subseteq DOMAIN fn.ops \cup Args
    /\ BBs \subseteq fn.cfg.node
    /\ pc \in {"walk", "done"}
    /\ instsInSlice \subseteq DOMAIN fn.ops
    /\ depArgs \subseteq Args
    /\ attractors \in [fn.cfg.node -> fn.cfg.node \cup {NoBlock}]

\* The backward slice by its definition: the least set holding I that is
\* closed under "operand of" and, for a PHI, under the gates of its block.
RECURSIVE Closure(_)
Closure(S) ==
    LET Step == S \cup UNION {ToSet(fn.ops[v]) : v \in S \cap DOMAIN fn.ops}
                  \cup UNION {gates[BlockOf(v)] \ {UndefGate} :
                                v \in {v \in S \cap DOMAIN fn.ops : IsPhi(v)}}
    IN  IF Step = S THEN S ELSE Closure(Step)

RefSlice == Closure({initial})

\* The blocks a slice S spans: those of its instructions and the incoming
\* blocks of its PHIs.
BlocksOf(S) ==
    {BlockOf(v) : v \in S \cap DOMAIN fn.ops}
        \cup UNION {ToSet(IncomingBlocks(fn.cfg, v)) :
                      v \in {v \in S \cap DOMAIN fn.ops : IsPhi(v)}}

RefBlocks == BlocksOf(RefSlice)

(* The worklist walk computes exactly the backward slice: once the         *)
(* constructor has run, instsInSlice and depArgs partition the closure of  *)
(* I and BBs holds every block of a slice instruction and every incoming   *)
(* block of a slice PHI, although the walk never marks I or the gates it   *)
(* pushes as visited (get_data_dependences_for).                           *)
SliceIsBackwardClosure ==
    pc = "done" =>
        /\ instsInSlice \cup depArgs = RefSlice
        /\ BBs = RefBlocks

(* The walk terminates although I and pushed gates are never marked        *)
(* visited and may be queued again (get_data_dependences_for's loop).      *)
WalkTerminates == <>(pc = "done")

(* Every gate computeGates records is the terminator of a block with two   *)
(* successors: getGate's assert on a conditional branch cannot fire and    *)
(* its `condition` is never read uninitialized.                            *)
GateIsConditionalBranch ==
    \A b \in fn.cfg.node : \A gt \in gates[b] :
        gt # UndefGate /\ Len(fn.cfg.succ[BlockOf(gt)]) = 2

\* x is control dependent on the branch of c: x post-dominates a successor
\* of c but does not strictly post-dominate c.
ControlDependent(g, x, c) ==
    /\ Len(g.succ[c]) = 2
    /\ \E s \in Succs(g, c) : PostDominates(g, x, s)
    /\ ~(x # c /\ PostDominates(g, x, c))

\* The branches that decide from which predecessor block b is entered: those
\* of the blocks below b's immediate dominator on which a predecessor of b
\* is control dependent.
Selectors(g, b) ==
    {c \in g.node : /\ Dominates(g, IDom(g, b), c)
                    /\ \E p \in Preds(g, b) : ControlDependent(g, p, c)}

(* The slice of a PHI holds every branch that decides which incoming value *)
(* the PHI takes, as the glossary defines a gate ("the branch whose       *)
(* outcome controls whether a block is reached from a predecessor").  The *)
(* walk pulls in only the gates computeGates records, one per predecessor *)
(* (getController's nearest dominator the predecessor does not            *)
(* post-dominate).                                                        *)
PhiSelectorsInSlice ==
    pc = "done" =>
        \A v \in instsInSlice :
            IsPhi(v) => \A c \in Selectors(fn.cfg, BlockOf(v)) : Term(c) \in instsInSlice
=============================================================================
