# TLA+ models of the Wyvern lazification pass

Wyvern is an LLVM module pass (`src/passes/Lazyfication.cpp`,
`src/passes/ProgramSlice.cpp`). It turns an eagerly evaluated call argument
into a thunk. It slices the instructions that compute the argument, outlines
them into a new function, clones the callee so that every use of the
parameter forces the thunk, and rewrites the call.

This directory holds the TLA+ modules that model the pass, the TLC
configurations that check them, and `PROJECT.json`. `PROJECT.json` lists
the components, runs, mutants, the source lines each definition models,
the findings and the hazards.

## 1. Inventory of the system

### Components

| Component | Code | State | Operations |
|---|---|---|---|
| Dependence Analyzer | `ProgramSlice.cpp` 35–138, 239–268, 298–326 | `gates` (block → gate values), worklist `to_visit`, `visited`, `deps`, `BBs`; then `_instsInSlice`, `_depArgs`, `_attractors` | `computeGates` (with `getController`, `getGate`), `get_data_dependences_for`, the constructor's split, `computeAttractorBlocks` |
| Slice Validator | `ProgramSlice.cpp` 140–232, 511–574 | none (reads the slice, `LoopInfo`, the data layout) | `canOutline`, recursive `hasAddressTaken` |
| Slice Outliner | `ProgramSlice.cpp` 328–509, 576–913 | the new function `F`, `_origToNewBBmap`, `_newToOrigBBmap`, `_Imap` | `insertNewBB`, `populate*`, `reorganizeUses`, `addDomBranches`, `rerouteBranches`, `updatePHINodes`, `addMissingTerminators`, `reorderBlocks`, `addReturnValue`, `insertLoadForThunkParams`, `outline`, `addMemoizationCode`, `memoizedOutline` |
| Call-site Rewriter | `Lazyfication.cpp` 29–109, 137–164 | the callee clone, the thunk record alloca, the call's callee and operands | `cloneCalleeFunction`, `updateThunkArgUses` (non-memo), `updateMemoizedThunkArgUses` (memo), the stores and `setCalledFunction`/`setArgOperand` |
| Pass driver and statistics | `Lazyfication.cpp` 111–135, 166–199 | `changed`, `lazifiedFunctions`, five `STATISTIC` counters | `runOnModule`, the accept and refuse paths of `lazifyCallsite` |
| FindLazyfiableAnalysis | not under `src/` | candidate list, lazyfiable `(callee, index)` paths | input only |

### How the components interact

`runOnModule` iterates over the analysis' candidates in order. For each
candidate whose current callee and index form a lazyfiable path, it calls
`lazifyCallsite`, which runs these stages in sequence:

1. Build a `ProgramSlice`, which is the Dependence Analyzer.
2. Ask `canOutline` (the Validator) whether the slice may be outlined.
3. Call `outline` or `memoizedOutline`, which is the Outliner.
4. Clone the callee and rewrite the call, which is the Rewriter.
5. Update the statistics.

The pass is single-threaded. What makes it hard is:

- the order of candidates;
- the rewritten module that earlier candidates leave behind for later
  ones;
- the graph algorithms over arbitrary CFGs with loops.

### Hard behaviours

- **Control dependence.**
  - Gates are found by walking dominator trees with a post-dominance test
    (`getController`).
  - A wrong test silently drops the branch that selects a PHI's value.
- **Worklist termination.**
  - Gates and the criterion are never marked visited, so values can be
    queued again.
  - On loops the walk must still terminate.
- **Order across candidates.**
  - The callee is re-read from the call, which an earlier iteration may
    already have redirected to a clone.
  - The `changed` flag is overwritten on every iteration.
- **CFG reconstruction.**
  - `updatePHINodes` removes PHI entries while it indexes them, and on a
    loop header with four entries it removes one that is already gone.
  - `reorderBlocks` picks the last block with no predecessors.
- **Thunk protocol.**
  - The memo flag is written through an out-of-bounds GEP.
  - Captured-argument slots are never stored.
  - In memo mode, uses of the parameter are never replaced.
  - In both modes, the forcing code of a PHI user is put before the PHI.
- **Unterminated blocks.** A block whose switch is not in the slice gets
  no branch at all.
  - In non-memo mode, the function pointer is passed where the record is
    expected.

### Properties that make each component correct

- **Dependence Analyzer.**
  - The slice is the backward closure of the criterion under operand and
    gate edges.
  - Every PHI's selecting branches are in the slice.
  - Gates are conditional branches.
  - The walk terminates.
  - Every block's attractor is its nearest post-dominator in the slice.
- **Validator.** It accepts only slices without memory effects, and whose
  blocks are deeper than the call site's loop.
- **Outliner.**
  - PHI validity: a PHI's incoming blocks are exactly its block's
    predecessors.
  - Terminator totality.
  - Single entry.
  - The thunk computes the criterion's value.
- **Rewriter.**
  - Forcing the thunk yields the value the eager argument had.
  - In memo mode, the computation runs at most once.
  - Every use in the clone sees the forced value.
- **Driver.**
  - The statistics agree with the rewrites.
  - The pass reports `changed` exactly when it rewrote a call.
  - The result does not depend on the order of the candidates.

## 2. Plan

Modules, in the order they are built. Later modules reuse the earlier ones.

1. `CFG`: control-flow graphs as records, and dominance and post-dominance
   defined by paths. These are LLVM's semantics, not repository code.
   `AllCFGs(n)` enumerates every well-formed CFG on `n` blocks.
2. `IR`: SSA functions over a CFG. Per block there is an optional PHI, one
   pure instruction and a terminator, with their operands. `Functions`
   enumerates all of them for a CFG.
3. `Gates` (built): the constant-level slicer operators: `computeGates`,
   `getController`, `getGate`, `computeAttractorBlocks` and the accepted
   criteria. `DependenceAnalysis` (built): the worklist walk and the
   constructor.
4. `Lazyfication` (built): the driver and the statistics. The slicer,
   validator and outliner results are nondeterministic inputs.
5. `Validator` and `AddressTaken` (built):
   - `Validator` holds `canOutline`'s loop-depth rule over natural loops.
   - `AddressTaken` holds the rest of `canOutline`: the purity tests and
     the recursive `hasAddressTaken`, over an IR with an alloca, memory
     accesses, calls, GEPs, casts and PHIs. It is checked against a
     closure-based reference definition.
6. `Outliner` (built): the thunk's CFG, stage by stage. It composes the
   slicer through `INSTANCE DependenceAnalysis` and the validator through
   `EXTENDS`. Still to come: a value-level check that the thunk returns
   the criterion's value along every path.
7. `Thunk` and `ThunkSpec` (built): the thunk record and the forcing
   protocol, in both modes.
   - `ThunkSpec` is the abstract specification: a thunk stands for one
     value, and every force returns it. By need, the slice is evaluated
     at most once; by name, it is evaluated on every force.
   - `Thunk` is checked against it through refinement mappings
     (`INSTANCE ThunkSpec WITH ...`).
   - The call-site defects are violation runs.
8. (built) A family of 5-block loops (`MCLoopHeaderFuncs`), where a
   PHI with four entries reaches the stale-index case of `updatePHINodes`.
9. A composition of `Lazyfication` with the slicer, so that the slice size
   and the refusal come from the modelled slicer rather than being inputs.

## 3. Modules and how they correspond to the code

### `DependenceAnalysis.tla` (with `MCDependenceAnalysis.tla`)

- **Operators:**
  - `computeGates`, `getController` and `getGate` are operators over a
    CFG, computed in `Init` as the code computes them once per constructor
    call.
  - `getGate` returns `UndefGate` where the code would read the
    uninitialised `condition`.
- **State:** the variables are the locals of `get_data_dependences_for`
  (`toVisit`, `visited`, `deps`, `BBs`) and the slice's fields
  (`instsInSlice`, `depArgs`, `attractors`).
- **`VisitNext`** is one iteration of the `while` loop:
  - pop the head;
  - push the operands not yet visited (`FreshOperands`);
  - for a PHI, add its incoming blocks and push its block's gates that are
    not yet visited.
- **`BuildSlice`** is the rest of the constructor: the `dyn_cast` split
  and `computeAttractorBlocks`.
- **IR abstraction.** Each block has:
  - a PHI if it has two or more predecessors, with one value per
    predecessor;
  - one pure instruction using at most one available value or argument;
  - a terminator that branches on that instruction when the block has two
    successors.

  Values are `<<kind, block>>` tuples and arguments are `<<"arg", i>>`.
  Constants are not values: the walk skips them.

### `Outliner.tla` (with `MCOutliner.tla`)

- **The candidate (`Init`).**
  - A caller, a criterion, a call-site block dominated by the
    criterion's block, and the memo flag.
  - The candidate must be accepted by `canOutline` (module `Validator`).
  - The slice is `Slicer!RefSlice`, the closure that the
    `dependence_analysis` run shows the worklist walk computes. Its
    blocks are `Slicer!BlocksOf(slice)`.
  - `gates` holds `computeGates(F)`, which the slicer reads.
- **State.** The thunk `F` is:
  - `layout`: its block list, in order;
  - `term`: each block's terminator, with successors as references;
  - `phiIn`: each PHI's incoming-block references.

  A reference is `InF(b)`, a block of `F`, or `InOrig(b)`, a block of
  the caller that a clone still points at. `ub` records an undefined
  `removeIncomingValue`.
- **Actions.** One per stage, in the order `outline` and
  `memoizedOutline` call them:
  - `Populate`: `populateFunctionWithBBs`, `populateBBsWithInsts` and
    `reorganizeUses`. Blocks enter `F` in `std::set` pointer order, which
    is unspecified, so every order is explored.
  - `AddDomBranches`: the recursive walk over the dominator tree
    (children in DFS preorder, as LLVM builds the tree), then
    `_wyvern_unreachable` is created.
  - `RerouteBlock`: one iteration of `rerouteBranches`' loop over `F`.
    - A block without a terminator takes `RerouteUnterminated`.
      `OrigTermKinds` gives what its caller block ended with: a br or a
      switch for two successors (the constant `CondTermKinds`), a br for
      one, and a return for none. Only a br gets a branch to an attractor.
      The choice is made where the code reads the terminator, which is
      once per block.
    - A block with a cloned branch takes `RerouteTerminated`, which
      applies `RerouteSucc` per successor.
  - `EraseUnreachable`.
  - `UpdatePHINodes`: `PhiSweep` models the loop's stale bound `PE` and
    LLVM's shifting `removeIncomingValue`, which leaves the old last slot
    in place.
  - `AddReturnValue`.
  - `ReorderBlocks`.
  - `AddMemoizationCode` (memo mode only).
- **Not modelled.**
  - `insertLoadForThunkParams`: it changes no block or edge.
  - `addMissingTerminators`: it is defined but never called.

### `Validator.tla`

`canOutline` on the modelled IR:

- Only the loop-depth rule can refuse, computed over LLVM's natural loops
  grouped by header.
- `mayThrow`, `mayReadOrWriteMemory` and `willReturn` always pass on these
  pure instructions.
- There are no allocas, so `hasAddressTaken` is never called.
- Every PHI has at least two entries, so the LCSSA test does not apply.

### `AddressTaken.tla` (with `MCAddressTaken.tla`)

`canOutline` on slices that touch memory. The function has:
- one alloca (instruction 1);
- `N - 1` instructions over pointer operands. Each is a load or store of
  a given size, a store of the address, a `ptrtoint`, a call that may
  write, a read-only call, a GEP with a constant or unknown offset, a
  bitcast, a PHI of two values, or another instruction;
- the lazified call site (instruction `N + 1`), which uses the criterion.

Non-PHI operands come before their user, as SSA requires. PHIs may refer
to later instructions, so the users of an address can form a cycle. The
slice is the criterion's backward closure over operands. The branches the
slicer adds pass every test, so they are left out.

**State.**
- `ir`, `crit` and `loopOK` are chosen in `Init` and never change.
  `loopOK` is the loop-depth verdict of module `Validator`.
- `todo` holds what the loop over `_instsInSlice` has yet to visit.
- `stack` holds `hasAddressTaken`'s active calls, innermost first. Each
  frame is `[v, size, users]`: the value, its `AllocSize`, and the users
  its loop has yet to visit.
- `pc` and `result`.

**Actions.**
- `CanOutlineInst` is one iteration of the loop. It refuses loads, stores
  and calls. On an alloca, it calls `hasAddressTaken`. The slice's order
  is `std::set` pointer order, so it is a free choice.
- `HasAddressTakenUser` is one iteration of `hasAddressTaken`'s loop. The
  user is chosen freely, since use-list order is not fixed:
  - `Taken` holds the cases that return true. A true answer returns
    through every frame, and `canOutline` refuses.
  - A GEP, bitcast or PHI (`Forwards`) pushes a recursive call. A GEP
    passes `GepRemaining`, the size left after its offset.
  - Other users are passed over.
- `HasAddressTakenReturn` returns false. The outermost call returning
  false resumes `canOutline`'s loop.
- `CanOutlineFinish` applies the loop-depth verdict, the alloca-criterion
  test and the LCSSA test.

**Reference.** `Reached` is the least set of (value, size left) pairs the
address reaches through forwarding users. It is finite even on cycles.
`OutlineAllowed` is the verdict `canOutline` should give.

**Bound.** Recursion depth is capped at `MaxDepth`. An acyclic chain of
users needs at most `N` frames, so with `MaxDepth > N` (an `ASSUME`) the
cap is reached only by following a cycle. There the code would recurse
forever.

### `Thunk.tla` and `ThunkSpec.tla` (with `MCThunk.tla`)

`Thunk` models one lazified call site at run time: the call-site rewrite,
the rewritten call, and the forcing calls the callee clone reaches.

**State.**
- `memo` is the `wylazy-memo` option.
- `mem` is the memo thunk record's stack memory:
  - slot 1, the cached value;
  - slot 2, the flag;
  - slots 3.., the captured arguments.

  Slot 0 is always the stored thunk. The memory is chosen in `Init` over
  every value it can hold, because the alloca is not initialised.
- `uses` counts the uses of the parameter that the clone has yet to
  reach. Which uses they are is abstracted away.
- `evals` and `returned` count the slice evaluations and record what each
  force returned.

**Actions.**
- `RewriteMemoCall` is `lazifyCallsite`'s memo branch:
  - the flag store's single-index GEP `{2}` lands past the record, so
    `CallSiteRecord` leaves `mem` unchanged;
  - the captured-argument slots are never stored.
- `RewriteByNameCall` is the non-memo branch, which passes the thunk
  function itself.
- `ForceMemo` is one forcing call of `updateMemoizedThunkArgUses`,
  running the thunk:
  - the prologue (`ThunkResult`): a set flag returns the cached value;
  - otherwise the body (`Body`) runs on the argument slots that
    `insertLoadForThunkParams` loads;
  - the epilogue (`Epilogue`) stores the flag and the value.
  - The use keeps reading the record pointer. The clone's operands are
    not modelled (section 5).
- `ForceByName` is one forcing call of `updateThunkArgUses`:
  - the call passes no argument, so the thunk's record pointer is
    undefined and each captured argument it loads may be anything;
  - the use reads the result.

**Abstractions.**
- `Body` stands for the slice's value as a function of its captured
  argument: `K` without arguments, else the argument.
- Argument values are the model values `v0` and `v1`.

**Refinement.** `ThunkSpec` has the variable `byNeed`, which is mapped to
`memo`, so a single instance covers both modes. `ThunkSpec` is
instantiated twice, with two mappings of its `value`:

- `AnyValue` allows any value and maps `value` to `ThunkValue`. By name
  that is `Eager`. By need it is the thunk's value read from the record:
  the cached value if the flag reads set, else what the body computes
  from the captured slots. Before the call runs, the record is read as
  the call site leaves it (`CallSiteRecord`). So a call site that did
  write the record would not fail the mapping. This gives
  `ThunkImplementsMode`: every force returns one value, and by need the
  slice runs at most once.
- `EagerValue` allows only the eager argument's value and maps `value` to
  `ValuePassed`: `Eager` until the rewritten memo call passes the record,
  and the record's value after that. This gives `ThunkReturnsEager`,
  semantic preservation. It fails at the step of the code that goes
  wrong: the memo call site, or a by-name force. With a call site that
  stores the flag and the captured argument, the memo run passes.

### `Lazyfication.tla` (with `MCLazyfication.tla`)

- **State:** the call list, the lazyfiable paths, each call's current
  callee (`Clone(f, i)` after a rewrite), the operands replaced by thunks,
  `lazifiedFunctions`, the five statistics, the loop index and `changed`.
- **Actions:**
  - `SkipCandidate`: the candidate is not a lazyfiable path.
  - `RejectCandidate`: `lazifyCallsite` returns false because the operand
    is not an instruction or the slice is not outlineable.
  - `LazifyCandidate`: `lazifyCallsite` returns true.
  - `Finish`: resets the sentinel and returns.
- **Inputs.** The slicer's verdict, the argument's identity and the thunk
  size are chosen when a candidate is processed. Each pair is processed
  at most once, so choosing them then is the same as choosing them up
  front.
- **Abstraction.** Memo and non-memo mode differ only inside the
  rewrite, which this module abstracts, so they are one action here.
- **History variable.** `sizeOf` is used only by the property.
- `changed` follows the code, including the `changed =` overwrite at
  line 190. The callee is re-read from the rewritten call (line 188). No
  run checks either (section 5).

## 4. Runs

| Run | Config | Expect | Checks |
|---|---|---|---|
| `dependence_analysis` | `MCDependenceAnalysis.cfg` | pass | `TypeOK`, `SliceIsBackwardClosure`, `GateIsConditionalBranch`, `WalkTerminates` |
| `phi_selectors` | `MCDependenceAnalysis_selectors.cfg` | violation | `PhiSelectorsInSlice` |
| `outline_structure` | `MCOutliner.cfg` | pass | `TypeOK`, `NoDanglingBlockRef`, `EntryExists` |
| `outline_well_formed` | `MCOutliner_well_formed.cfg` | violation | `WellFormedThunk` |
| `outline_loop_header` | `MCOutliner_loop_header.cfg` | violation | `PhiValidAfterUpdate` |
| `outline_switch` | `MCOutliner_switch.cfg` | violation | `TerminatorTotality` |
| `thunk_modes` | `MCThunk.cfg` | pass | `TypeOK`, `ThunkImplementsMode` |
| `thunk_memo_record` | `MCThunk_eager.cfg` | violation | `ThunkReturnsEager` |
| `thunk_by_name_captured` | `MCThunk_byname_captured.cfg` | violation | `ThunkReturnsEager` |
| `driver_stats` | `MCLazyfication.cfg` | pass | `SliceSizeBoundsExact` |
| `address_taken` | `MCAddressTaken.cfg` | pass | `TypeOK`, `VerdictMatchesReference` |
| `address_taken_terminates` | `MCAddressTaken_terminates.cfg` | violation | `CanOutlineTerminates` |

### `dependence_analysis`

The walk terminates on every function. It returns exactly the least set
that contains the criterion and is closed under two edges: "operand of",
and "gate of the PHI's block". `BBs` is the set of those values' blocks
plus the PHIs' incoming blocks. Every recorded gate is the terminator of a
block with two successors. The modelled terminators are br and switch,
and `getGate` always sets `condition` for both. An `invoke` or
`indirectbr` with two successors would reach the uninitialised read, but
the model does not express those terminators.

### `phi_selectors`

The run compares the gates with control dependence defined by
post-dominance: the selectors of a PHI at `b` are the branches, inside
`b`'s immediate dominator region, on which a predecessor of `b` is control
dependent. TLC finds the do-while loop `1→2, 2→3, 3→2|4`. The header PHI
at block 2 gets no gate:

- Predecessor 1 dominates block 2, but block 2 post-dominates 1.
- Predecessor 3's walk reaches no block that 3 does not post-dominate.

The latch branch in block 3 is therefore missing from the slice.

### `outline_structure`

The run covers every accepted candidate over every caller CFG of up to 4
blocks. It uses canonical operands, both modes, every block order, and
either a br or a switch for every two-successor terminator. That gives
1.2 million states in about a minute. In every finished thunk:

- no branch or PHI refers to a caller block;
- `reorderBlocks` always finds a block without predecessors, so the null
  dereference cannot happen.

This run does not check PHI repair. Its stale-index case needs a PHI with
four entries, and no 4-block caller gives one. `outline_loop_header`
checks it on five blocks.

### `outline_loop_header`

The run covers the 5-block CFGs in which the entry jumps to block 5, a
loop header with a self-loop and two more latches among blocks 2 to 4.
Its conditional terminators are br. TLC takes about 25 seconds to find
the caller `1→5, 5→3|5, 3→4|5,
4→2|5`, with the criterion in block 5 and the call in block 2.

- No branch is in the slice, so `rerouteBranches` leaves `3→4`, `4→5` and
  `5→3`. Block 5's PHI has entries from 1, 3, 4 and 5, but only 1 and 4
  are predecessors.
- `updatePHINodes` removes entry 3, then entry 5.
- It then reads the old last slot, which `removeIncomingValue` left in
  place and which still names block 5, and removes block 5 again.
  `getBasicBlockIndex` returns -1. In a debug build the assertion fails.
  In a release build, the removal happens at index -1.

### `outline_switch`

`TerminatorTotality`: every block of the finished thunk has a terminator.
TLC finds the caller `1: br 2|4`, `2: switch 3|4`, with the criterion
`op4` reading a PHI of `op1` and `op2` in block 4.

- Block 2 is in the thunk as the PHI's incoming block.
- Its switch is not in the slice.
- `rerouteBranches` reroutes only blocks whose caller block ended in a br
  (`dyn_cast<BranchInst>`, lines 406–407).

So block 2 is left without a terminator.

### `outline_well_formed`

The run uses br-only callers, so its trace comes from `addReturnValue`
alone and not from the switch case above.

`WellFormedThunk` is the conjunction of PHI validity, a single entry, and
a reachable return. All of its failures stem from `addReturnValue`
running last. It replaces the criterion block's branch by `ret` after the
PHIs were repaired and after the unreachable block was kept or erased:

- A successor's PHI keeps an entry from the criterion block.
- A loop's latch block loses its last predecessor, so there are two
  entry candidates.
- `_wyvern_unreachable`, now without predecessors and last in the block
  list, becomes the entry, so the thunk executes `unreachable`.

### `thunk_modes`

This run has no captured argument and covers both modes.

- **Memo mode.** Whatever the uninitialised record holds, all forces
  return one value and the slice runs at most once. This is spec.md's
  "memo idempotence": the prologue and epilogue of `addMemoizationCode`
  are right.
- **Non-memo mode.** The clone implements call-by-name of the eager value.

### The thunk violation runs

Each run fixes one mode and has one captured argument, so its trace shows
one defect.

- `thunk_memo_record` (memo mode): `ThunkReturnsEager` fails at the
  rewritten call.
  - The flag store misses the flag slot, and no captured argument is
    stored.
  - In TLC's trace the flag happens to read set, so the thunk stands for
    the uninitialised cached value `v0` instead of the eager `v1`.
  - If `CallSiteRecord` is replaced by a record with the flag clear and
    the argument stored, the run passes.
- `thunk_by_name_captured` (non-memo mode): `ThunkReturnsEager` fails at
  the first force.
  - The forcing call passes no record, so the thunk loads its captured
    argument from arbitrary memory.
  - It returns `v0` instead of the eager `v1`.

### `driver_stats`

`SliceSizeBoundsExact` is checked over every candidate list of up to 4
distinct pairs. The run has 2 calls, 2 callees, 2 callers, 2 argument
values, slice sizes {1, 3} and every lazyfiable-path set. When
`runOnModule` returns:

- the smallest and largest sizes are exact;
- both are 0 when nothing was lazified.

### `address_taken`

Up to 4 instructions and the call site give 93,108 initial states and
1.6 million distinct states, in about 20 seconds. The run covers every
slice order and every use-list order. Whenever `canOutline` returns, its
verdict equals `OutlineAllowed`. So these are right:
- the early returns;
- the propagation of a true answer through the recursion;
- the shrinking `AllocSize` along GEPs.

The verdict does not depend on either order.

### `address_taken_terminates`

`CanOutlineTerminates` (`<>` done, under weak fairness) is violated with
3 instructions:
- the alloca `%1` is the criterion;
- `%2 = phi(%1, %3)` and `%3 = bitcast %2`;
- the call site writes memory.

`hasAddressTaken` visits the PHI before the call site, then recurses
`%2 → %3 → %2` until the depth bound. The comment at lines 209–210 says
PHIs are visited once, but the code keeps no visited set.

### Bounds

- **CFGs.** `AllCFGs(4)` covers all 954 well-formed CFGs of up to 4 blocks
  with at most two successors each. Among them are:
  - diamonds;
  - nested branches;
  - while loops and do-while loops;
  - loops with two exits;
  - irreducible shapes.

  Four blocks is the smallest size at which a branch, a join and a loop
  latch can all differ.
- **Full SSA enumeration.** The slicer run enumerates all SSA functions
  over a diamond and a while loop; the loop with an early exit adds one
  canonical function.
- **Outliner operands.** The Outliner run uses canonical operands on
  every CFG of up to 4 blocks:
  - every PHI reads each predecessor's operation;
  - every operation reads its block's PHI;
  - every branch reads its block's operation.

  The layout is every permutation of the slice blocks. Each
  two-successor terminator is a br or a switch. The two PHI violation
  runs use br only, so each trace comes from one defect.
- **Thunk.**
  - Two values are enough to tell a right result from a wrong one.
  - Zero or one captured argument separates the cases with and without
    record loads.
  - Up to five uses in the passing run, and four in the violation runs,
    reach the second, memoised force and beyond. 110 states are reached.
- **Loop header.** The 5-block run fixes the entry's branch and requires
  two latches into block 5. This gives 672 initial states, whereas all
  5-block CFGs give millions, which is more than a run can cover. It is
  the smallest shape in which one PHI loses two adjacent entries with an
  entry still left after them.
- **`canOutline`.** `ALLOC = 2`, access sizes {1, 2} and GEP offsets
  {1, 2} reach each boundary:
  - an offset equal to the size left;
  - an access one byte wider than what is left after a GEP.

  Four instructions allow two forwarding levels, a PHI cycle, and a
  refusing instruction beside an alloca.
- **Driver.** Two calls with two indices give the interesting cases:
  - two arguments of one call;
  - one callee shared by two calls;
  - a refusal after an acceptance.

### Fairness

- `DependenceAnalysis` assumes weak fairness of `Next`. The walk is a
  sequential loop with no other process: while it has a step to take, it
  takes it.
- The driver is checked for safety only.
- `AddressTaken` assumes weak fairness of `Next`: `canOutline` is one
  sequential call. Only the termination run uses it.
- The Outliner and the thunk are checked for safety, including
  refinement, which is a safety property of `ThunkSpec`.
- Every module stops in a final state, so those cfgs say
  `CHECK_DEADLOCK FALSE`:
  - the slicer when its slice is built;
  - the driver after its loop;
  - the outliner after its last stage;
  - the thunk when the clone has reached its last use;
  - `canOutline` when it returns, or when its recursion reaches the depth
    bound on a cycle.

## 5. What is not modelled, and why

- **Defects without a run.** Four defects are each visible on one line.
  The runs go instead to the defects that take a sequence of steps to
  show. They are listed as hazards in `PROJECT.json`:
  - `Lazyfication.cpp:190`: `changed = lazifyCallsite(...)` overwrites
    the flag, so a refusal after a rewrite makes the pass report no
    change. The driver model has this assignment.
  - `Lazyfication.cpp:188`: the callee is re-read from the call as
    already rewritten, so a second lazyfiable argument of the same call
    is skipped. The driver model has this too.
  - `Lazyfication.cpp:64`: `updateMemoizedThunkArgUses` never replaces
    the use with the forced value.
  - `Lazyfication.cpp:36` and `:62`: both rewrites insert the forcing
    code immediately before the user, which is invalid when the user is
    a PHI node.

  The last two concern the clone's operands, which `Thunk` abstracts to
  a count of uses.

- **Instruction attributes in `canOutline`.** `mayThrow`,
  `mayReadOrWriteMemory` and `willReturn` are reduced to the instruction's
  kind: loads, stores and calls refuse. Select, addrspacecast, invoke,
  cmpxchg, atomicrmw and ret are left out. Each behaves like a modelled
  kind: select and addrspacecast like bitcast, invoke like a writing
  call, cmpxchg like a store of the address, atomicrmw and ret like a load.
- **The LCSSA test.** It applies only to a single-entry PHI criterion, and
  modelled PHIs have two entries.
- **What the thunk computes.** The Outliner model checks the thunk's
  structure, not the value it computes. In the driver, the slicer's
  verdict and the thunk's size are inputs.
- **The callee clone's own code.** `CloneFunctionInto`'s result is reduced
  to the sequence of parameter uses it reaches. The type mismatch of the
  clone's uses, which still expect the original parameter type, is not
  modelled.
- **FindLazyfiableAnalysis.** It is not part of `src/`. Its results are
  the driver's inputs.
- **LLVM itself.** The dominator trees are stated by their path
  definitions. They are not modelled as the code's data structures, since
  LLVM computes them.
- **Debug output.** `printSlice`, `printFunctions` and the
  `LLVM_DEBUG`/`errs()` messages only write output.
