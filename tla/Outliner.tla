------------------------------- MODULE Outliner -------------------------------
(***************************************************************************)
(* ProgramSlice::outline and ProgramSlice::memoizedOutline                 *)
(* (src/passes/ProgramSlice.cpp): the thunk's CFG is rebuilt from the      *)
(* slice of DependenceAnalysis, one stage per action, in the order the two *)
(* functions call them: populateFunctionWithBBs + populateBBsWithInsts +   *)
(* reorganizeUses, rerouteBranches (addDomBranches, the unreachable block, *)
(* one loop iteration per block, erasing the unused unreachable block,     *)
(* updatePHINodes), addReturnValue, reorderBlocks and, in memo mode,       *)
(* addMemoizationCode.  insertLoadForThunkParams only replaces argument    *)
(* uses by loads in the entry and changes no block or edge.                *)
(*                                                                         *)
(* A block of the thunk is named by the original block it clones, or by    *)
(* UnreachableBB, MemoEntryBB, MemoRetBB.  A terminator or PHI operand     *)
(* refers to a block of the thunk, InF(b), or still to a block of the      *)
(* caller, InOrig(b).  Instruction operands are not tracked: reorganizeUses *)
(* maps all of them into the thunk, as the slice is operand-closed.        *)
(***************************************************************************)
EXTENDS Gates, Validator

CONSTANTS
    Funcs,          \* the candidate callers, with their operands
    Args,           \* the caller's arguments
    CondTermKinds   \* what a two-successor terminator may be: br, switch

ASSUME CondTermKinds \subseteq {"br", "switch"}

UnreachableBB == -1
MemoEntryBB   == -2
MemoRetBB     == -3

InF(b)    == <<"F", b>>
InOrig(b) == <<"O", b>>

NoTerm          == [kind |-> "none", succ |-> <<>>]
Br(s)           == [kind |-> "br", succ |-> s]
RetTerm         == [kind |-> "ret", succ |-> <<>>]
UnreachableTerm == [kind |-> "unreachable", succ |-> <<>>]

VARIABLES
    fn, initial,   \* the caller and the slicing criterion
    callBlock,     \* the block of the call site
    memo,          \* WyvernLazificationMemoization
    slice,         \* _instsInSlice
    BBs,           \* _BBsInSlice
    attractors,    \* _attractors
    gates,         \* ProgramSlice's gates of F, computeGates(F)
    layout,        \* the blocks of the thunk F, in F's block-list order
    term,          \* term[b]: the terminator of block b of F
    phiIn,         \* phiIn[b]: incoming blocks of the PHI of b, by operand index
    ub,            \* removeIncomingValue was called on an absent block
    phase, cursor

vars == <<fn, initial, callBlock, memo, slice, BBs, attractors, gates,
          layout, term, phiIn, ub, phase, cursor>>

\* The slicer's result, as DependenceAnalysis computes it (its run shows the
\* worklist walk returns exactly this closure).
Slicer == INSTANCE DependenceAnalysis
            WITH toVisit <- <<>>, visited <- {},
                 deps <- {}, pc <- "done", instsInSlice <- {}, depArgs <- {}

Blocks == ToSet(layout)

PredsF(b) == {x \in Blocks : InF(b) \in ToSet(term[x].succ)}

-----------------------------------------------------------------------------
(* Dominator-tree order, as LLVM builds it: children in DFS preorder.      *)

DFSPreorder(g) ==
    LET RECURSIVE Go(_, _)
        Go(stack, acc) ==
            IF stack = <<>> THEN acc
            ELSE IF Head(stack) \in ToSet(acc) THEN Go(Tail(stack), acc)
            ELSE Go(g.succ[Head(stack)] \o Tail(stack), Append(acc, Head(stack)))
    IN  Go(<<g.entry>>, <<>>)

DomChildren(g, b) ==
    SelectSeq(DFSPreorder(g), LAMBDA c : c # g.entry /\ IDom(g, c) = b)

-----------------------------------------------------------------------------
(* The stages.                                                             *)

\* Replace every reference Old by New in a sequence of block references.
Subst(s, Old, New) == [i \in DOMAIN s |-> IF s[i] = Old THEN New ELSE s[i]]

\* addDomBranches: walking the dominator tree, a slice block that still has
\* no terminator branches to its nearest slice descendant, the deepest
\* descendants being served first.
\* Mutant: parentBB and childBB swapped, the child branching to its parent.
RECURSIVE addDomBranchesSwapped(_, _, _, _, _)
addDomBranchesSwapped(g, inSlice, cur, parent, t) ==
    LET p    == IF cur \in inSlice THEN cur ELSE parent
        kids == DomChildren(g, cur)
        RECURSIVE Each(_, _)
        Each(i, tt) ==
            IF i > Len(kids) THEN tt
            ELSE LET c  == kids[i]
                     t1 == addDomBranchesSwapped(g, inSlice, c, p, tt)
                 IN  Each(i + 1, IF c \in inSlice /\ p # NoBlock /\ t1[c].kind = "none"
                                 THEN [t1 EXCEPT ![c] = Br(<<InF(p)>>)] ELSE t1)
    IN  Each(1, t)

RECURSIVE addDomBranches(_, _, _, _, _)
addDomBranches(g, inSlice, cur, parent, t) ==
    LET p    == IF cur \in inSlice THEN cur ELSE parent
        kids == DomChildren(g, cur)
        RECURSIVE Each(_, _)
        Each(i, tt) ==
            IF i > Len(kids) THEN tt
            ELSE LET c  == kids[i]
                     t1 == addDomBranches(g, inSlice, c, p, tt)
                 IN  Each(i + 1, IF c \in inSlice /\ p # NoBlock /\ t1[p].kind = "none"
                                 THEN [t1 EXCEPT ![p] = Br(<<InF(c)>>)] ELSE t1)
    IN  Each(1, t)

\* populateFunctionWithBBs, populateBBsWithInsts and reorganizeUses: one
\* block per slice block, in the (address) order of the std::set, holding
\* the cloned PHI, with incoming blocks mapped into F where cloned, and the
\* cloned branch, still targeting the caller's blocks.
Populate ==
    /\ phase = "populate"
    /\ \E order \in SetToSeqs(BBs) : layout' = order
    /\ term' = [b \in BBs |-> IF Term(b) \in slice
                              THEN Br([i \in DOMAIN fn.cfg.succ[b] |-> InOrig(fn.cfg.succ[b][i])])
                              ELSE NoTerm]
    /\ phiIn' = [b \in {b \in BBs : Phi(b) \in slice} |->
                   [i \in DOMAIN fn.cfg.pred[b] |->
                      IF fn.cfg.pred[b][i] \in BBs THEN InF(fn.cfg.pred[b][i])
                      ELSE InOrig(fn.cfg.pred[b][i])]]
    /\ phase' = "domBranches"
    /\ UNCHANGED <<fn, initial, callBlock, memo, slice, BBs, attractors, gates, ub, cursor>>

\* rerouteBranches, first part: addDomBranches from the root, then the
\* _wyvern_unreachable block appended to F.
AddDomBranches ==
    /\ phase = "domBranches"
    /\ LET g == fn.cfg
           t == addDomBranches(g, BBs, g.entry, IF g.entry \in BBs THEN g.entry ELSE NoBlock, term)
       IN  term' = t @@ (UnreachableBB :> UnreachableTerm)
    /\ layout' = Append(layout, UnreachableBB)
    /\ phase' = "reroute"
    /\ cursor' = 1
    /\ UNCHANGED <<fn, initial, callBlock, memo, slice, BBs, attractors, gates, phiIn, ub>>

\* The instruction a caller block ends with, as far as rerouteBranches
\* tells them apart: a conditional br or a switch (CondTermKinds) with two
\* successors, an unconditional br with one, a return with none.
OrigTermKinds(BB) ==
    CASE Len(fn.cfg.succ[BB]) = 2 -> CondTermKinds
      [] Len(fn.cfg.succ[BB]) = 1 -> {"br"}
      [] OTHER                    -> {"ret"}

\* A block without terminator whose caller block ends in a br: branch to
\* the attractor of the first original successor that has one, and make
\* the attractor's PHI take from this block the entries of caller blocks
\* this block strictly dominates.  Any other terminator fails the
\* dyn_cast<BranchInst>, and the block stays without a terminator.
RerouteUnterminated(BB, kind) ==
    LET origSucc == fn.cfg.succ[BB]
        cands    == SelectSeq(origSucc, LAMBDA s : attractors[s] # NoBlock)
        A        == attractors[cands[1]]
    IN  IF kind # "br" \/ cands = <<>> THEN UNCHANGED <<term, phiIn>>
        ELSE /\ term' = [term EXCEPT ![BB] = Br(<<InF(A)>>)]
             /\ phiIn' = IF A \in DOMAIN phiIn
                         THEN [phiIn EXCEPT ![A] =
                                 [i \in DOMAIN @ |->
                                    IF /\ @[i][1] = "O"
                                       /\ @[i][2] # BB
                                       /\ Dominates(fn.cfg, BB, @[i][2])
                                    THEN InF(BB) ELSE @[i]]]
                         ELSE phiIn

\* Mutant: a successor without attractor is left as it is (`continue`
\* without sending it to the unreachable block).
RerouteSuccSkipsNoAttractor(BB, idx, tp) ==
    LET t == tp[1]  ph == tp[2]  suc == t[BB].succ[idx]
        A == attractors[suc[2]]
    IN  IF suc[1] = "F" \/ A = NoBlock THEN tp
        ELSE <<[t EXCEPT ![BB].succ[idx] = InF(A)],
               IF A \in DOMAIN ph THEN [ph EXCEPT ![A] = Subst(@, suc, InF(BB))] ELSE ph>>

\* A cloned branch: each successor still in the caller is redirected to its
\* attractor (whose PHI then takes this block for the successor), or, when
\* it has none, every branch of F to it is sent to _wyvern_unreachable.
RerouteSucc(BB, idx, tp) ==
    LET t == tp[1]  ph == tp[2]  suc == t[BB].succ[idx]
        A == attractors[suc[2]]
    IN  IF suc[1] = "F" THEN tp
        ELSE IF A = NoBlock
        THEN <<[x \in DOMAIN t |-> [t[x] EXCEPT !.succ = Subst(@, suc, InF(UnreachableBB))]], ph>>
        ELSE <<[t EXCEPT ![BB].succ[idx] = InF(A)],
               IF A \in DOMAIN ph THEN [ph EXCEPT ![A] = Subst(@, suc, InF(BB))] ELSE ph>>

RerouteTerminated(BB) ==
    LET RECURSIVE Each(_, _)
        Each(idx, tp) == IF idx > Len(term[BB].succ) THEN tp
                         ELSE Each(idx + 1, RerouteSucc(BB, idx, tp))
        r == Each(1, <<term, phiIn>>)
    IN  /\ term' = r[1]
        /\ phiIn' = r[2]

\* One iteration of rerouteBranches' loop over the blocks of F.
RerouteBlock ==
    /\ phase = "reroute"
    /\ cursor <= Len(layout)
    /\ LET BB == layout[cursor]
       IN  CASE term[BB].kind = "none" -> \E k \in OrigTermKinds(BB) :
                                            RerouteUnterminated(BB, k)
             [] term[BB].kind = "br"   -> RerouteTerminated(BB)
             [] OTHER                  -> UNCHANGED <<term, phiIn>>
    /\ cursor' = cursor + 1
    /\ UNCHANGED <<fn, initial, callBlock, memo, slice, BBs, attractors, gates, layout, ub, phase>>

\* Mutant: the block is unlinked from F but its terminator is kept.
EraseUnreachableKeepsTerm ==
    /\ phase = "reroute"
    /\ cursor > Len(layout)
    /\ IF PredsF(UnreachableBB) = {}
       THEN layout' = SelectSeq(layout, LAMBDA b : b # UnreachableBB)
       ELSE UNCHANGED layout
    /\ phase' = "updatePhis"
    /\ UNCHANGED <<fn, initial, callBlock, memo, slice, BBs, attractors, gates, term, phiIn, ub, cursor>>

\* After the loop: _wyvern_unreachable is erased when nothing branches to it.
EraseUnreachable ==
    /\ phase = "reroute"
    /\ cursor > Len(layout)
    /\ IF PredsF(UnreachableBB) = {}
       THEN /\ layout' = SelectSeq(layout, LAMBDA b : b # UnreachableBB)
            /\ term' = [b \in DOMAIN term \ {UnreachableBB} |-> term[b]]
       ELSE UNCHANGED <<layout, term>>
    /\ phase' = "updatePhis"
    /\ UNCHANGED <<fn, initial, callBlock, memo, slice, BBs, attractors, gates, phiIn, ub, cursor>>

\* updatePHINodes' inner loop over one PHI: PE is read once, entries are
\* indexed by PI while removeIncomingValue(incBB) shifts the later ones
\* down (leaving the old last slot in place) and shrinks the count n.  The
\* result is <<slots, n, ub>>; ub when the block to remove is absent
\* (getBasicBlockIndex is -1) or the PHI, emptied and erased, is read again.
PhiSweep(arr, preds) ==
    LET PE == Len(arr)
        RECURSIVE Go(_, _, _)
        Go(a, n, PI) ==
            IF PI > PE THEN <<a, n, FALSE>>
            ELSE IF n = 0 THEN <<a, n, TRUE>>
            ELSE IF a[PI] \in preds THEN Go(a, n, PI + 1)
            ELSE LET idxs == {i \in 1..n : a[i] = a[PI]}
                     i    == CHOOSE i \in idxs : \A j \in idxs : i <= j
                 IN  IF idxs = {} THEN <<a, n, TRUE>>
                     ELSE Go([j \in 1..PE |-> IF j >= i /\ j < n THEN a[j + 1] ELSE a[j]],
                             n - 1, PI + 1)
    IN  Go(arr, PE, 1)

\* updatePHINodes: every PHI of F loses its entries from blocks that are not
\* predecessors in F; a PHI left without entries is erased.
UpdatePHINodes ==
    /\ phase = "updatePhis"
    /\ LET r == [b \in DOMAIN phiIn |-> PhiSweep(phiIn[b], {InF(p) : p \in PredsF(b)})]
           kept == {b \in DOMAIN phiIn : r[b][2] > 0}
       IN  /\ phiIn' = [b \in kept |-> SubSeq(r[b][1], 1, r[b][2])]
           /\ ub' = \E b \in DOMAIN phiIn : r[b][3]
    /\ phase' = "return"
    /\ UNCHANGED <<fn, initial, callBlock, memo, slice, BBs, attractors, gates, layout, term, cursor>>

\* addReturnValue: the criterion's block ends in `ret` instead of its
\* terminator, if it had one.
AddReturnValue ==
    /\ phase = "return"
    /\ term' = [term EXCEPT ![BlockOf(initial)] = RetTerm]
    /\ phase' = "reorder"
    /\ UNCHANGED <<fn, initial, callBlock, memo, slice, BBs, attractors, gates, layout, phiIn, ub, cursor>>

\* reorderBlocks: the last block of F with no predecessors is moved first.
\* When there is none realEntry stays null and is dereferenced; the guard
\* leaves that case a dead end, and EntryExists shows it is never reached.
ReorderBlocks ==
    /\ phase = "reorder"
    /\ LET Z == {i \in DOMAIN layout : PredsF(layout[i]) = {}}
           realEntry == layout[CHOOSE i \in Z : \A j \in Z : j <= i]
       IN  /\ Z # {}
           /\ layout' = <<realEntry>> \o SelectSeq(layout, LAMBDA b : b # realEntry)
    /\ phase' = IF memo THEN "memo" ELSE "done"
    /\ UNCHANGED <<fn, initial, callBlock, memo, slice, BBs, attractors, gates, term, phiIn, ub, cursor>>

\* addMemoizationCode: a new entry tests the flag and branches to a block
\* returning the cached value or to the old entry.
AddMemoizationCode ==
    /\ phase = "memo"
    /\ layout' = <<MemoEntryBB, MemoRetBB>> \o layout
    /\ term' = term @@ (MemoEntryBB :> Br(<<InF(MemoRetBB), InF(layout[1])>>))
                    @@ (MemoRetBB :> RetTerm)
    /\ phase' = "done"
    /\ UNCHANGED <<fn, initial, callBlock, memo, slice, BBs, attractors, gates, phiIn, ub, cursor>>

\* The candidates that reach outline: a criterion and a call site its value
\* reaches (the call's block is dominated by the criterion's), whose slice
\* canOutline accepts.
Init ==
    /\ fn \in Funcs
    /\ initial \in Criteria(fn)
    /\ gates = computeGates(fn.cfg)
    /\ slice = Slicer!RefSlice \cap DOMAIN fn.ops
    /\ BBs = Slicer!BlocksOf(slice)
    /\ callBlock \in {c \in fn.cfg.node : Dominates(fn.cfg, BlockOf(initial), c)}
    /\ canOutline(fn.cfg, BBs, callBlock)
    /\ attractors = computeAttractorBlocks(fn.cfg, BBs)
    /\ memo \in BOOLEAN
    /\ layout = <<>>
    /\ term = [b \in {} |-> NoTerm]
    /\ phiIn = [b \in {} |-> <<>>]
    /\ ub = FALSE
    /\ phase = "populate"
    /\ cursor = 0

Next ==
    \/ Populate \/ AddDomBranches \/ RerouteBlock \/ EraseUnreachable
    \/ UpdatePHINodes \/ AddReturnValue \/ ReorderBlocks
    \/ AddMemoizationCode

Spec == Init /\ [][Next]_vars

-----------------------------------------------------------------------------
(* Properties.                                                             *)

Done == phase = "done"

Entry == layout[1]

\* Blocks of F reachable from S along F's branches.
RECURSIVE ReachF(_)
ReachF(S) == LET S1 == S \cup {r[2] : r \in UNION {ToSet(term[b].succ) : b \in S}}
             IN  IF S1 = S THEN S ELSE ReachF(S1)

\* Every PHI takes exactly one entry per predecessor block of F.
PhisMatchPreds == \A b \in DOMAIN phiIn : ToSet(phiIn[b]) = {InF(p) : p \in PredsF(b)}

\* Each variable holds what the outliner's data allows: F's block list has
\* no repeats and a terminator per block, PHIs sit in cloned slice blocks,
\* and operands name blocks of F or of the caller.
TypeOK ==
    LET Ids  == BBs \cup {UnreachableBB, MemoEntryBB, MemoRetBB}
        Refs == {InF(b) : b \in Ids} \cup {InOrig(b) : b \in fn.cfg.node}
    IN  /\ layout \in Seq(Ids) /\ Len(layout) = Cardinality(Blocks)
        /\ DOMAIN term = Blocks
        /\ \A b \in Blocks : term[b].kind \in {"none", "br", "ret", "unreachable"}
                            /\ ToSet(term[b].succ) \subseteq Refs
        /\ DOMAIN phiIn \subseteq BBs
        /\ \A b \in DOMAIN phiIn : ToSet(phiIn[b]) \subseteq Refs
        /\ phase \in {"populate", "domBranches", "reroute", "updatePhis",
                      "return", "reorder", "memo", "done"}

(* Terminator totality: every block of the finished thunk has exactly one  *)
(* terminator, although only the slice's own branches are cloned and the  *)
(* others come from addDomBranches or rerouteBranches' attractor branch.  *)
TerminatorTotality == Done => \A b \in Blocks : term[b].kind # "none"

(* No block of the finished thunk branches to, or takes a PHI value from, *)
(* a block of the caller or a block that is not in F: rerouteBranches     *)
(* redirects every cloned successor to an attractor or to                 *)
(* _wyvern_unreachable, and reorganizeUses maps every PHI block.          *)
NoDanglingBlockRef ==
    Done => /\ \A b \in Blocks : \A r \in ToSet(term[b].succ) : r[1] = "F" /\ r[2] \in Blocks
            /\ \A b \in DOMAIN phiIn : \A r \in ToSet(phiIn[b]) : r[1] = "F"

(* reorderBlocks finds a block with no predecessors: realEntry is never    *)
(* left null and dereferenced.                                             *)
EntryExists == phase = "reorder" => \E b \in Blocks : PredsF(b) = {}

(* updatePHINodes does what its comment says: afterwards every PHI has     *)
(* exactly its block's predecessors in F, although it indexes the entries  *)
(* with a stale bound while removeIncomingValue shifts them, and it never  *)
(* asks to remove a block that is no longer an entry.                      *)
PhiValidAfterUpdate == phase = "return" => PhisMatchPreds /\ ~ub

(* PHI validity (spec section 7): in the finished thunk every PHI's        *)
(* incoming blocks are exactly its block's predecessors.  addReturnValue   *)
(* runs after updatePHINodes and erases a terminator.                      *)
PhiValidity == Done => PhisMatchPreds

(* Single entry (spec section 7): the finished thunk has exactly one block *)
(* with no predecessors, and it is the entry (reorderBlocks).              *)
SingleEntry == Done => {b \in Blocks : PredsF(b) = {}} = {Entry}

(* The thunk's entry reaches the block that returns the criterion's value *)
(* (addReturnValue), so a call of the thunk can return it.                *)
ReturnReachable == Done => BlockOf(initial) \in ReachF({Entry})

(* The finished thunk is a well-formed function (spec section 7): PHI      *)
(* validity, a single entry, and an entry that reaches the return.         *)
(* addReturnValue runs after updatePHINodes and rerouteBranches' erase of  *)
(* the unreachable block, and its terminator swap can break all three.    *)
WellFormedThunk == PhiValidity /\ SingleEntry /\ ReturnReachable
=============================================================================
