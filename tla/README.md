# A TLA+ development for the SIA32 Cranelift

This directory models the parts of this Cranelift tree in which control is hard
to follow and a mistake silently produces wrong machine code. It holds TLA+
specifications translated from the source, TLC configurations that check them
on small instances, and TLAPS proofs for every value of the constants.

All paths below are relative to the repository; `buffer.rs` is
`cranelift/codegen/src/machinst/buffer.rs`, `vcode.rs` its neighbour, and
`label.rs` and `inst.rs` are in `cranelift/codegen/src/isa/sia32/`.

## The system and its parts

A function enters as CLIF through `cranelift-frontend` or `cranelift-reader`,
is kept as a `Function` (a `DataFlowGraph` and a `Layout`), optimised by the
mid-end (e-graphs, alias analysis, dominator tree), lowered by ISLE rules into
`VCode` of one backend, register-allocated, and emitted by `VCode::emit` into a
`MachBuffer`. `cranelift-module` with `cranelift-jit` or `cranelift-object`
links what comes out. This fork adds the `sia32` backend, a 16-bit instruction
set whose conditional branches reach 128 bytes, so that islands and veneers,
rare on other targets, are everyday work here.

The compiler is sequential. What makes it hard is not threads but state that is
edited long after it was recorded, lazily maintained caches, deadlines, and
long sequences of legal calls.

| Part | State | Operations | What makes it correct |
| --- | --- | --- | --- |
| `MachBuffer` | bytes, label offsets and aliases, labels at the tail, recent branches, fixups with deadlines, deferred traps and constants | `put*`, `get_label`, `bind_label`, `use_label_at_offset`, `add_*_branch`, `optimize_branches`, `defer_trap`, `emit_island`, `finish` | the edits preserve what the code does; lists and offsets stay in step; every use is patched in range; loops end |
| `VCode::emit` | current block, block starts, padding | emission of blocks and instructions, island checks | deadlines never pass; reported blocks and edges are true |
| SIA32 label uses | none | `patch`, `generate_veneer`, ranges | the processor arrives where the compiler meant |
| SIA32 instruction emission | calls on the buffer | `Inst::emit` | branches, literals and tables respect the buffer's protocol |
| Text section builder | a `MachBuffer` for all functions | `append`, `resolve_reloc`, `finish` | relocations between functions are in range or get veneers |
| `Layout` | linked lists of blocks and instructions, sequence numbers | insert, append, remove, split, renumber | lists are well formed; `pp_cmp` agrees with the order |
| `DataFlowGraph` | values, aliases, parameters | attach, detach, alias | alias chains end and respect types |
| `SSABuilder` | definitions per variable and block, unsealed blocks | `use_var`, `def_var`, `seal_block` | each use sees the definitions that reach it |
| `ListPool`, `EntityList` | one vector cut into size classes with free lists | push, insert, remove, `realloc` | lists never overlap; freed blocks are reused whole |
| `bforest` | tree nodes in a pool | insert, remove, cursor moves | keys in order, nodes filled, no leak |
| CFG, dominator trees, loops | edges ordered by instruction, immediate dominators, loop tree | `compute`, `recompute_block` | the graph follows edits; dominance and loops agree with their definitions |
| `BlockLoweringOrder` | blocks and split edges in lowering order, successor tables | `new` | every edge is kept, no critical edge is left, order follows dominance |
| Alias analysis, e-graph, scoped map | memory versions, scopes by depth and generation | passes over a function | a value used is available |
| Module, JIT, object | declarations, definitions, relocations | declare, define, finalise | every reference is resolved once |

`PROJECT.json` lists these and the remaining parts, with the reason for each
that is not modelled, and the hazards, each at its line.

## Modules

| Module | Models | Uses |
| --- | --- | --- |
| `MachBuffer` | `MachBuffer` for any table of label uses | |
| `MachBuffer_proofs` | its theorems | `MachBuffer` |
| `MachBufferSem` | what the buffer's code does when it runs, against the client's listing | `MachBuffer` |
| `MachBufferSem_proofs` | its theorems | `MachBufferSem`, `MachBuffer_proofs` |
| `Sia32LabelUse` | the tables of `label.rs`, and the sizes `inst.rs` declares | |
| `Sia32Emit` | `VCode::emit` with SIA32 instructions driving the buffer | `MachBuffer`, `Sia32LabelUse` |
| `Sia32Emit_proofs` | theorems on both `Sia32Emit` and `Sia32Patch` | `Sia32Emit`, `Sia32Patch`, `MachBuffer_proofs` |
| `Sia32Patch` | `patch` and `generate_veneer` against the processor | `Sia32LabelUse` |
| `LayoutSpec` | what a `Layout` promises: a sequence of blocks, a sequence of instructions for each | |
| `Layout` | the linked lists and sequence numbers of `ir/layout.rs` | |
| `LayoutRefines` | iterators and `pp_cmp`, and the refinement mapping to `LayoutSpec` | `Layout`, `LayoutSpec` |
| `LayoutRefines_proofs` | theorems on the lists, iteration, `pp_cmp` and the refinement | `LayoutRefines` |
| `ListsSpec` | what entity lists promise: each handle a sequence of its own | |
| `ListPool` | the blocks and free lists of `entity/src/list.rs` | `ListsSpec` |
| `ListPool_proofs` | its theorems | `ListPool` |
| `SSABuilder` | `frontend/src/ssa.rs` behind `FunctionBuilder`, and the execution of what it builds | |
| `SSABuilder_proofs` | its theorems | `SSABuilder` |
| `FlowGraph` | `ControlFlowGraph` of `flowgraph.rs` and its updates | |
| `DominatorTree` | Semi-NCA of `dominator_tree.rs`, on the graph and on its reverse, and `unreachable_code.rs` | `FlowGraph` |
| `LoopAnalysis` | `loop_analysis.rs` | `DominatorTree` |
| `BlockOrder` | `machinst/blockorder.rs`; the pipeline of the four | `LoopAnalysis` |
| `FlowGraph_proofs` | theorems on the graph and the lowering order, through the whole pipeline | `BlockOrder` |
| `DominatorTree_proofs` | theorems on the two dominator trees | `FlowGraph_proofs` |
| `MC...` | instances for TLC: only values for constants | |

### MachBuffer

The variables are the fields of the struct under their own names. The bytes of
`data` are abstracted to their number `off`; `fixup_records` is the set of
records in the heap, from which any record with the soonest deadline may come
out first; `SmallVec`s are sequences, and lists of labels, whose order does not
matter, are sets. `UNKNOWN_LABEL` and `UNKNOWN_LABEL_OFFSET` are -1.

Public methods are actions enabled when `pc = "idle"`. The three calls a backend
makes to emit one branch (`use_label_at_offset`, `add_uncond_branch` or
`add_cond_branch`, `put`) are one action, as the protocol in `buffer.rs` allows
nothing in between. The label use of a branch is taken at the branch's start,
which is so on SIA32 (on x64 it lies behind the opcode). Loops of the buffer
run one iteration per step, while `pc` names the loop:

- `OptTruncate`, `OptRedirect`, `OptInvert`, `OptDone`: one turn of
  `optimize_branches`. `OptTruncate` serves the branch to the tail and the
  unconditional branch behind another. `OptDone` includes
  `purge_latest_branches`.
- `IslandPending`, `IslandPendingDone`, `IslandHeap`, `IslandHeapDone`,
  `IslandTrap`, `IslandConstant`, `IslandDone`: `emit_island_maybe_forced` in
  its order, including the reset of `pending_fixup_deadline` after the pending
  fixups were handled.
- `FinishIsland`, `FinishDone`: the loop of `finish`.

A failed `assert!` (`handle_fixup`, `emit_veneer`, or `patch` by its declared
range) leads to `pc = "panic"`. `ctrl_plane.get_decision()` is a choice from
`Decisions`. Relocations, traps' records, call sites, source locations, debug
tags and patchable regions are left out: they are lists that follow the code
and decide nothing.

Reading the source for the model showed three details that are not what one
would guess, and that the model keeps: a redirected label keeps its old offset
for ever, possibly past the tail (only aliases are followed afterwards);
`purge_latest_branches` clears the list only when the last branch ends before
the tail; and `pending_constants_size` is not reduced when constants are
emitted, which only makes later islands come earlier.

### MachBufferSem

Adds the content: `code`, one item per instruction, `patched`, what `patch` has
written where, and `program`, the client's calls read as an assembly listing.
Both are tables of steps: `listing` says where each line goes on, `emitted` where
each item does, by the label use of its branch if it is outstanding and by
`patched` if it is not; `ends` follows the steps of a table until an instruction,
a trap, the tail or an unbound label is reached, or a cycle is found. The client calls
`emit_island` only where the code cannot fall into it, as its documentation
demands, and binds blocks in order, as `VCode::emit` does.

### Sia32LabelUse, Sia32Emit

`Sia32Emit` gives `MachBuffer` the SIA32 tables. An instruction is a sequence of
calls (`calls`), named as the variants of `Inst`: straight-line instructions by
their length, `Jump`, `BrNz`, `Select`, `TrapIfZ`, `TrapIfNz`,
`emit_ext_name32`, `emit_direct_call` and `BrTable`. After each instruction
`CallCheck` is the end of `do_emit`. `CallCase` is one comparison of a
`BrTable`, with the island check before it; the comparison takes the 6 bytes
that case values below 64 need. `CallBBStart` and `bb_starts_before` are the
tracking of block starts, `CallPadding` the padding between blocks, and
`EndFunction` the last `optimize_branches`. What functions look like is a
constant: a family says how many instructions a function has, which ones each
block may choose from, and the padding between blocks; `Init` picks the family,
which then stays. A family also says which blocks are cold (`cold`; the verifier
refuses a cold entry block). `final_order` is the order in which blocks are
emitted: the order of their indices, but cold blocks after the others. `block`
counts the blocks of `final_order` that were begun, and entry `i` of `bb_starts`
belongs to the block `final_order[i]`; `edges_start` is how the loop that reports
the edges reads `bb_starts`, by the index of the block. A target `next_block` is
the block that is emitted next. In `emit`, a table of 18 cases is longer than the
reach of its own branches, so the check between two comparisons asks for an island.

### Sia32Patch

One use is patched to its label, or to a veneer whose own use is resolved next.
`field` is what `patch` writes (modulo the field's width), `goes` what the
processor makes of it. Whether a use may be patched is decided by the declared
ranges alone, as `MachBuffer` does, so that `RangesExact` and `PatchLands` tie
the three tables together: the ranges, the assertions of `patch`, the encoding.

### Layout, LayoutSpec, LayoutRefines

The fields of `BlockNode` and `InstNode` are functions on blocks and
instructions, `None` included; a `SecondaryMap` has a default for every key, so
nodes never inserted are ordinary elements of the domain. Methods are actions
under the source's names, enabled when `pc = "idle"`, guarded by the
`debug_assert!`s that are the client's obligations. The loops of
`renumber_insts`, `full_block_renumber`, `split_block` (its last loop is
`move_insts`) and `remove_block_and_insts` run one turn per step, so the
invariant has to say what holds in their middle.

`LayoutSpec` keeps the same promises with sequences: blocks and instructions are
placed anywhere, removed, split off at once. `LayoutRefines` walks the lists the
way the iterators do and states `ImplementsSequences`: the walked lists change
as the sequences of `LayoutSpec` do, renumbering is a stutter, and the moving of
instructions in `split_block` shows in the lists at its first step only.

### ListsSpec, ListPool

`pool` is the one vector all lists live in, with the head of the free list of
each size class, and `index` the field of each `EntityList`. Cells are what they
are in the code, numbers: a block's first cell is the length, or, when the block
is free, the next free block, so that a block freed twice or read after it was
freed shows. `alloc`, `free`, `realloc` (with its copying of cells, `resized`) and
the size classes are operators; `sclass_size` is a recursive function, as the
provers do not accept recursive operators; each method of `EntityList` and `ListPool` that changes
state is an action, and includes the moves between blocks it causes. The client
owns a few handles and keeps to the "Safety" section of `EntityList`: it never
copies a handle, and clears a list before it forgets it. `lists` is a history
variable: each action also takes the action of `ListsSpec` that the same call
would be on independent vectors.

### SSABuilder

A client picks one of the `Graphs`, visits blocks in any order, defines and uses
variables, ends a block with its branch, and seals blocks whose predecessors are
all declared: the block it fills at any time, also between two statements; another
one between two blocks; what is left at the end. The source also lets the client
seal another block amid the statements of the current one. A block has one terminator and stands for
it in `predecessors`. Values are numbers; `alias` is what `change_to_alias`
recorded. The loops run one iteration per step, and `pc` names them:

- `find_var`'s walk along single predecessors, which ends at a definition or
  adds a parameter where it stops, also when it has gone around a cycle, and the
  copying of the value found into the blocks along the walk;
- `run_state_machine` with its stacks `calls` and `results`;
  `finish_predecessors_lookup` either keeps the parameter and adds an argument
  to every branch, or removes it and makes it an alias;
- `seal_one_block`, which resolves the variables in `undef_variables`;
  `seal_all_blocks` calls it for each block in the order of their numbers.

`StacksBalanced` states the debug assertions of `run_state_machine` and
`seal_one_block` and that `drain` in `finish_predecessors_lookup` is in range.

Types are left out (`emit_zero` is one constant). When the function is finished,
`at`, `env` and `regs` execute it twice at once: the client's statements with
variables, and the SSA form with parameters, arguments and resolved aliases.
`UsesSeeLastDef` compares the two at each use; a use before any definition
yields 0. `StackMapsComplete` looks values up the way the safepoint pass does,
after resolving aliases.

### FlowGraph, DominatorTree, LoopAnalysis, BlockOrder

One function goes through the pipeline: the graph is computed, block by block,
then either dominator tree; after the forward one unreachable blocks are
eliminated, one by one, or not
(the verifier and other users analyse functions that still have them); loops are
found, and the lowering order is made. Then a pass may replace a terminator,
with `recompute_block`, and it all starts again; `edits` counts how often.

A terminator is its kind and its destinations; the predecessors of a block are a
set of edges, each with the number of its instruction, which is the key that
orders iteration. `DominatorTree` has the depth-first search with
its stack of enter and exit events, the semidominators from the last node back
with path compression, the immediate dominators, and the preorder numbers that
`dominates` compares. `graph_successors` and `graph_predecessors` are
`ForwardGraph` and `ReverseGraph`. `LoopAnalysis` has the backward search from
each loop's back edges and the levels with their saturation at `INVALID`.
`BlockOrder` counts edges, splits critical ones in any order (the control plane
shuffles them), and builds the successor tables. The properties use reference
definitions of their own: a block dominates another if removing it cuts the
other off, a natural loop is what reaches a back edge without the header.

## Runs

| Run | Configuration | Shows |
| --- | --- | --- |
| `buffer` | 3 labels, a client that emits up to 4 bytes, branches of a short kind that needs veneers, a trap, a constant, forced veneers, `get_decision` free | the branch editor's lists (`LabelsAtTail`, `LabelsAtBranch`, `BranchesOrdered`, `BranchFixup`, `FixupsInBuffer`, `NoLabelPastTail`), `NoAliasCycle`, `LabelsNeverAdvance`, `TypeOK`, `FInv`, `AllLabelsResolved`, `CallsReturn` |
| `semantics` | listings of up to 6 lines over 2 blocks and a trap, islands anywhere | `SemanticsPreserved` |
| `emit` | 3 blocks; 9 instructions that stretch branches beyond 128 bytes, or 6 of every kind that uses labels with a table of 3 cases and 16 bytes of padding, or 5 around a table of 18 cases, or 5 with any control flow, no block or the middle one cold | `NeverPanics`, `LiteralsAligned`, `BBStartsTrueToLabels`, `BBEdgesReachStarts`, `EmitInv`, `EmissionFinishes` |
| `patch` | offsets around both ends of every range | `PatchLands`, `RangesExact`, `VeneerLayout` |
| `layout` | 3 blocks, 3 instructions, any calls, strides 2 and 1, local limit 1 | `LInv`, `BothWays`, `PpCmpAgrees`, `ImplementsSequences` |
| `lists` | 2 lists of up to 4 elements, any calls | `BlocksTilePool`, `ListsIndependent` |
| `ssa` | 4 blocks in 4 graphs, 2 variables, 3 statements, sealing the current block at any time | `UsesSeeLastDef`, `WellFormed`, `StacksBalanced`, `StackMapsComplete`, `LookupsEnd` |
| `flow` | 5 blocks: rows of blocks with any second target, nests of three loops, any three blocks with an edit | `GraphFollowsEdits`, `RemovedIsolated`, `DominatorsExact`, `PostDominatorsExact`, `LoopsNatural`, `LoweredOrderSound` |
| `emit_padding` | 3 blocks, 5 instructions that stretch branches, 2048 bytes of padding | `NeverPanics` is violated |
| `emit_bb_starts` | 4 blocks, 5 instructions, any control flow | `BBStartsInCode` is violated |
| `emit_cold` | 3 blocks, the middle one cold | `BBEdgesFromBlocks` is violated |
| `ssa_stack_maps` | as `ssa`, one of the two variables needs stack maps | `StackMapsComplete` is violated |

*Bounds.* In `buffer`, three labels and two branches at a time suffice for each
edit of `optimize_branches`, and, as truncation gives bytes back, for long
sequences of them and for an alias cycle of any of the lengths 1 to 3; a label
is left for the trap and the veneers need none. `semantics` has room for three
branches and for each pair of edits to follow one another.
`LABEL_LIST_THRESHOLD` is 1 in these runs so that the early exit for long lists
happens, and 100, as in the source, in the SIA32 runs. In the abstract runs ranges are a few bytes and a veneer is longer
than the branch it serves, the proportions of SIA32; the SIA32 runs use the real
numbers. `U32_MAX` stands for `u32::MAX` and is larger than any offset of the
instance. Each run names its bounds in its cfg: `MaxLabels`, `MaxOff`,
`MaxProgram`, `MaxInsts`, `NumBlocks`, `MaxLen`, `MaxData`, `MaxAdd`,
`MaxStmts`; the families of `emit` name theirs (`insts`), the functions of
`flow` theirs (`edits`).

In `layout`, three blocks give an insertion between two others and a split of
the last block and of one before it. The strides are scaled down from 10, 2 and 200 so
that three instructions exhaust the midpoints, renumber locally until the
numbers catch up, and pass the limit into a full renumbering; all of these
happen. `MaxSeq` bounds the number an insertion starts from and replaces the
width of `u32`. Blocks and instructions are symmetric, which is sound because
the run checks no liveness property.

In `lists`, a list of four elements is the first that needs the second size
class, so both lists cross the boundary in both directions, grow in place,
leave blocks behind and take each other's; twenty cells hold two blocks of that
class and one of the first. Handles are symmetric and the run has no liveness
property.

In `ssa`, four blocks give a loop whose header is built first or last, a loop
with two entries, a cycle nothing leads to and branches that name a block more
than once; two variables give a copy from one to the other, and three statements
a definition, a use and a redefinition in different blocks. In `flow`, five
blocks give three nested loops below an entry, irreducible loops and unreachable
blocks that lead into the reachable part; `INVALID` is 3 rather than 255, so that
the third level saturates.

*Deadlock* is checked except in `semantics`, where a client at its bound may be
unable to go on, and in `patch`, where a use may be out of range of every
offset of the instance. Buffers that are done or panicked, and the
pipeline of `flow` at its end, stutter explicitly.

*Fairness.* The buffer's methods are sequential code that runs to its end, so
the internal steps are weakly fair in `MachBuffer` (`WF_vars(Internal)`); client
calls are not. In `Sia32Emit` the client is `VCode::emit`, a loop over a finite
function, and the whole next-state relation is weakly fair. In `SSABuilder` the
steps of a lookup or a sealing in progress are weakly fair, for the same reason,
and calls of the client are not. Each specification's
only other fairness-relevant choice, which record the heap yields among equals,
needs none.

### What the violations say

1. `emit_padding`: `pending_fixup_deadline` is set to `u32::MAX` after veneers
   have added new label uses, so `island_needed` does not see their deadlines.
   With the largest padding the fuzzer's configuration allows, the branch in a
   veneer is overtaken and the range assertion of `handle_fixup` fails.
2. `emit_bb_starts`: the last `optimize_branches` may remove the last block; its
   start stays in `bb_offsets` and equals the length of the code.
3. `emit_cold`: `bb_starts` is filled in the order of emission and read by the
   index of the block when the edges are made, so with a cold block that is not the
   last one an edge leaves from the start of another block. In the run a block
   that returns is reported to jump to itself. `emit` and the theorem
   `BBStartsStayTrue` say what does hold: in the order of emission the recorded
   starts are true to the labels. The set of starts and the ends of the edges
   (`BBEdgesReachStarts`) do not depend on the order.
4. `ssa_stack_maps`: the documentation of `declare_var_needs_stack_map` says that
   all values used as the variable are spilled before each safepoint.
   `record_stack_map_binding` records the value it is given. If that is the
   placeholder of another variable in an unsealed block, sealing may turn it
   into an alias of a value that is not recorded, and the safepoint pass
   (`safepoints.rs:441-442`) resolves aliases before it looks. If the other
   variable is declared too, as in `ssa`, nothing is lost.

### What reading the source showed besides

No run rests on these; they are kept for whoever edits the code next.

- `buffer.rs:149-152` states that `worst_case_end_of_island(0) <= soonest_deadline`
  always holds, and `vcode.rs:847-850` that `do_emit` keeps it. `do_emit` asks
  `island_needed(lookahead)` and then emits an island with distance 0, so a use
  whose deadline lies between the two thresholds stays behind: after a `br_table`
  of three cases a deadline of 154 with a worst-case end of 156. What rests on it
  holds in `emit` (`NeverPanics`), because estimates count 24 bytes for veneers
  that take 2.
- `alloc` and `grow` of `list.rs` say that the new elements hold reserved values;
  that is so for new cells only, a block from a free list and the unused part of
  a list's block keep what they held. `copy_from` asserts that the two lists have
  different indices; two empty lists share the index 0 and fail it. Its other
  assertion (`list.rs:518-521`) compares only the number of elements with the length
  of `other`, so that a range that starts and ends too late passes it; `CopyFrom`
  takes the ranges that lie within the list.
- `DominatorTree::dominates` says it is false if either block is unreachable
  (`dominator_tree.rs:310-312`); two unreachable blocks both have the numbers 0
  and dominate one another. `DominatorsExact` leaves such pairs out, and
  `PostDominatorsExact` the pairs of blocks from which no exit is reached.
- `change_jump_destination` (`frontend.rs:791-801`) removes the old block's
  predecessor once per destination, although it was declared once; with both
  destinations of a `brif` the same old block the second `expect` fails.
- The text section builder asks `island_needed(size)` before it aligns, so the
  padding is not counted.

## Proofs

A step that cites `SMTT(60)` or `ZenonT(60)` follows from the facts beside it like
any other; it only has more time than the prover's default, so that a slower
machine proves it as well.

### MachBuffer

`MachBuffer_proofs` proves, for all constants that satisfy the assumptions
(`SizesAssumption`, `ConstAssumption`, `KindAssumption`: sizes are natural
numbers, a veneer's label use lies inside the veneer, no use is due before it is
emitted), that `IInv` is an invariant of `Spec`, and from it each of the
properties on lists and labels that `buffer` checks, including the action property
`LabelsNeverAdvance`.

The properties the documentation of `buffer.rs` relies on are not inductive one
by one: truncation keeps `LabelsAtTail` only if the truncated branch's label
list was precise (`LabelsAtBranch`), which a bind keeps only if no branch lies
beyond the tail (`BranchesOrdered`); `FixupsInBuffer` survives a truncation only
because the branch's index separates earlier from later fixups (`BranchFixup`),
and those in the heap only because they lie before every recorded branch
(`HeapBeforeBranches`, which holds because an island forgets the branches:
`IslandPhases`). Aliases stay acyclic because only labels bound at the start of
the branch, none of them an alias, are redirected, to a target that does not
resolve there; that the target's chain does not lead back to them is the core
of `AliasesAcyclic`, and it needs `UnusedUnbound` and `DeferredUnbound` for the
labels islands bind. The proof has one lemma per action, and under it one step
per conjunct the action can disturb; facts on appending, truncation and label
resolution are lemmas of their own.

`FInv` adds what `finish` relies on, and `FinishInvariant` is `Spec => []FInv`:
branches and fixups refer to labels that were handed out (`TargetsAllocated`), a
constant with a label is pending until an island places it
(`ConstantsPending`), and `FinishPhases` says what each phase of `finish` has
left to do. `LabelsResolvedAtTheEnd` follows: in a finished buffer an allocated
label is bound or an alias, and since aliases form no cycle, resolving it ends
at an offset inside the code.

### MachBufferSem

`MachBufferSem_proofs` proves `SemanticsArePreserved`, `SemSpec => []SemanticsPreserved`,
for any table of label uses, any number of labels and listings of any length, from
the assumptions of `MachBuffer` and `KnownAssumption`. What a client may do is what
`SemNext` lets it do: it binds blocks in order and calls `emit_island` where the code
cannot fall into it. `SemNext` has no constants, and of the calls of
`optimize_branches` only those in `bind_label`.

A run has any number of steps, and nothing can be proved by induction over them
here. The proof follows runs backwards instead. `Reaches(next, x)` is the least set
of positions of a table that is closed under "goes to `x`, or to one that does", and
`EndsAre` shows that `ends` leads to `x` just from there; this is the one place where
the recursion of `ends` matters, and it is dealt with by the choice of a least
counterexample. Two runs end alike when they are in the same such sets
(`SameEnds`), so an edit is a fact on least sets:

- `Shortcut`: what leads to a position may lead on to where that leads, unless it is
  to itself; if it is the last one, it may be dropped then, or added. That is every
  edit (a truncated branch, an inverted conditional, labels redirected past a
  jump), and read the other way a veneer and the trap of an island.
- `Continues`: the runs that ended at the tail, or at an unbound label, go on with a
  new position. That is a new line of the listing and a new item at the tail, at
  once in both tables (`ContinueAlike`).
- `Rename`: one end becomes another. When a label is bound, the listing has a new
  line, but in the buffer what ended at the unbound label now ends at the tail.

`SemInvariant` is `SemSpec => [](SemInv /\ CondInv)`. `OInv`, the part that speaks of
runs, is stronger than `SemanticsPreserved`: buffer and listing run alike from every
label, too, since the next edit may send a branch there, and for any outcome of the
conditionals. `CInv` says what the edits need of the code:

- `CodeInv`, `BranchItems`: the items lie in order, and every branch that may still
  be edited is one of them; with `BranchesOrdered` of the buffer the last is the
  item a truncation drops.
- `UsesApart`, `UseInv`: each branch has one label use, which is outstanding, or it
  is patched to an offset before every branch that can be dropped. That is why
  an island has to forget the recorded branches.
- `LineInv`: the labels bound in the buffer and those in the listing are the same,
  and those of deferred traps are bound by islands only.
- `TailClosed`: while an island is emitted nothing falls into its first byte and no
  label is bound there; veneers and traps change no run.

The hard steps are the edits. A truncated branch to the tail was an item that went
on to what follows it; an unconditional branch behind another is reached by no
label, as `LabelsAtBranch` says that none is bound there, nor by falling through.
Labels are redirected only past a branch whose target does not resolve to its own
start, as `Shortcut` demands. Where all this relies on the
lists of labels being precise, it takes the theorems on `MachBuffer` for it: each
step of `SemNext` is one of `Next` (`SemImplements`). TLC checked `CInv` and `OInv` on
the instance of `semantics` before they were proved.

### Sia32Emit

`Sia32Emit_proofs` is about the buffer under its real client. Each step of
`EmitNext` is a step of the buffer's `Next`, or leaves the buffer alone, so
`FInv` carries over. `EmitInvariant` adds `EmitInv`, whose parts are:

- `CallsInOrder`: the calls still to make come in one of the orders in which
  `Inst::emit` and `do_emit` make them. A label is bound only behind code, behind
  an island, or behind a jump past it with code to follow; a literal is aligned
  before it is bound.
- `NextCallReady` and `TailSettled`: what the next call finds at the tail. Either
  no recorded branch ends there, or the last one is `pinned`: it leads to a label
  that is not bound yet and nothing is bound at it, so no edit applies. Except
  while a block starts, `optimize_branches` thus never removes a branch that a
  block or a literal starts at.
- `BlocksAliasBlocks`: a block's label is redirected to the label of a block, never
  to one inside an instruction or behind an island. That needs the exception for
  a jump around an island that is not emitted yet.
- `StartsOrdered`, `StartsAtLabels`, `LabelsAtStarts`: `bb_starts` against the
  labels, in the order of emission. `FinalOrder` proves that `final_order` is a
  permutation of the blocks for any set of cold ones (an order exists for any number
  of blocks, by the least counterexample), so that a label is bound by the block that
  is begun and by no other. While a block starts (`starting`), the label is bound,
  branches may have been removed and the start is not recorded; in this window the entries from the
  tail on are stale, and the invariant speaks of those before it only.
- `LiteralsStay`, `LiteralsAhead`: a literal that a use refers to is bound to
  itself, aligned, and kept in place by the word behind it; one that is not bound
  yet is aligned first.

`LiteralsStayAligned`, `BBStartsStayTrue`, `BBEdgesAlwaysReachStarts` and
`EmittedLabelsResolved` follow. Besides the buffer's assumptions they use
`EmitAssumption` (the instructions of the menus are those of `Inst`) and
`LabelUseAssumption` (an island gives a literal no veneer, and no veneer contains
one), which TLC evaluates on the tables of `label.rs`. `emit` checks `EmitInv`;
it does not check `FInv`, whose `NoAliasCycle` ranges over all sets of labels,
30 of them in that run.

### Sia32Patch

`Sia32Emit_proofs` also proves, of `PatchSpec`, for any set of even offsets below any modulus that
chains of veneers land at the label and that ranges and layouts are exact. The
invariant `PatchInv` records that a `LongDelta32` use stems from the Branch11
veneer patched before it, at the right distance.

### Layout

`LayoutRefines_proofs` proves `LayoutInvariant`, `Spec => []LInv`, for any sets of
blocks and instructions, any positive strides and any limits, from
`LayoutAssumption` alone. `LInv` is the inductive invariant itself. `BlockLinks`
and `InstLinks` say that `prev` and `next` are inverse and that the ends agree;
`InstBlocks` that linked instructions name the same block, except at the point
`split_block` has reached (`SplitPoint`); `SeqIncreasing` that numbers increase
along every link, except at the instruction `renumber_insts` is about to number
and, in `full_block_renumber`, behind the set of instructions it has numbered.
Links alone admit a circle beside the list, whose instructions no loop would
ever reach: `Acyclic` (every non-empty set of instructions has one whose
predecessor lies outside of it) rules that out and takes the place of an
induction along the list. It is what shows that a block with instructions has a
first one, and that full renumbering has numbered the whole block when its loop
ends. The precondition asserted in `midpoint` and the `expect` of
`renumber_insts` follow from it.

It also proves that the lists are sequences: `IteratorsAgree`,
`PpCmpIsListOrder` and `LayoutImplementsSequences`, the refinement of
`LayoutSpec`. It needs `EntityAssumption` besides: there are finitely many blocks
and instructions, and none is both. The theorems rest on `ListsInvariant`,
`Spec => []RInv`. `RInv` adds to `LInv` that what an iterator yields is a list in
the sense of `IsList(s, first, last, next, prev, U)`, a sequence without
repetition whose neighbours are linked in both directions, and that all blocks
that `is_block_inserted` tells are in theirs. For instructions the latter follows from
`Acyclic`.

The proof has a layer of lemmas on lists alone: linking an element in or out
(`LinkIn`, `LinkOut`) inserts it in the sequence or removes it, cutting a list
(`CutList`) gives two, a reversed list is a list, and a walk along the links of
a list yields the list (`ListingIs`). The last is where the recursive function of
`listing` is dealt with: it has a solution, the list itself, and any solution
agrees with it up to a least counterexample. Each call is then one of these
links, made at a place the list of the invariant gives, and each turn of a loop
leaves the links alone. Of other blocks' lists one has to know that no element is
relinked: while no split is in progress an instruction in the list of a block
names this block (`InstsKnowBlock`), so no two lists meet.

### ListPool

`ListPool_proofs` proves `PoolInOrder`, `Spec => []PInv`, and from it
`ListsStayIndependent` and `BlocksAlwaysTile`, from `ListAssumption` alone: any
number of lists, any elements, any bounds on lists and pool.

`PInv` says that there are sequences of blocks, one for each size class, such
that the heads of the free lists and the first cells of free blocks link them in
this order (`Chain`), that these blocks and the blocks of the lists tile the
vector, each cell in one block (`Tiles`), that each list sits in a block of the
class of its length, and that its cells hold its length and its elements. That
the sequences exist is the point: `BlocksTilePool` finds them by walking, which is
a recursion, and a proof can rather pass them on from step to step, `alloc`
taking the first block off a sequence and `free` putting one in front. As the
sequences are of any length, TLC cannot evaluate `PInv`; it checks its two
consequences.

The proof climbs in three layers. `Pool(p, U)` is about the vector with the set
`U` of blocks in use, for `alloc`, `free` and `realloc`. `List` and `Gives` are
about the one list a method is called on, next to the other blocks in use: there
is one lemma for each operation (`push`, `insert`, `remove`, `copy_from` and so
on), which says what the list holds afterwards and that the cells of the other
blocks are kept (`Keeps`). `GoodCall` lifts that to all lists. At the end
`ChainShort` shows by counting cells that a chain is no longer than the vector,
so that the walk of `BlocksTilePool`, which is bounded, visits all of it. Induction
over numbers is done by the choice of a least counterexample (`NatMin`).

### FlowGraph

`FlowGraph_proofs` proves `GraphInvariant`, `Spec => []GInv`, over the whole
pipeline of `BlockOrder`, and from it `GraphStaysTrue` and `RemovedStayIsolated`;
and `OrderInvariant`, and from it `OrderIsSound`, which is `LoweredOrderSound`;
from `FlowAssumption` alone: any number of blocks, any functions a frontend may
hand over, any terminators and any number of edits.

`FlowInv` says that the graph has the edges of the blocks `compute` has visited,
later of all blocks: `GraphOf(g, f, S)`, with one lemma for `compute_block`, which
adds a block to `S`, one for `invalidate_block_successors`, which takes it out,
and one for `recompute_block`, which does both for another function that
differs in this block. The old predecessor maps are purged through the old
successor set, so the second needs that both sides of the graph agree.

That removed blocks have no edges is not a matter of the graph alone: a block that
stays must not name one. `eliminate_unreachable_code` takes unreachability from
the dominator tree's search, and `SearchInv` follows that search: a branch of a
visited block leads to a visited block or to one that waits on the stack, hence
the visited blocks are closed under branches when the stack is empty, and the
phases of Semi-NCA that follow change no preorder number. `RemovedInv` adds that
while blocks are being removed, only unvisited blocks, which go as well, name a
removed one. The filter of successors that are pushed (`kept`) is recursive;
that its recursion has a solution and keeps what it should is proved by the
choice of a least counterexample. TLC checked the parts of `GInv` on the instance
of `flow` before they were proved.

`LoweredOrderSound` speaks of dominance by its definition, what paths from the entry
reach without a block, and not by the tree, so that its proof needs
nothing of Semi-NCA but the search. The model's `reached` is a recursive function; the lemmas
about it (`ReachedFacts`) need only that it is the least set that has the entry
and is closed under branches, which follows since a chain of subsets of
`NumBlocks` blocks that grows at every step has at most `NumBlocks` of them.
`OrderInv` then goes with the pipeline:

- `SearchOf`, while the search runs: a block that has left, or waits to leave with
  others above it on the stack, dominates every visited block that is not
  reached without it, and these have left before it or leave before it. The hard
  step is a visit, where a block is reached by an edge the stack has held since
  long before: that the edge avoids the blocks below is part of the invariant.
- `PostorderOf`, when the stack is empty: the postorder lists what the entry
  reaches, each once, a block after those it dominates.
- `LoweredOf`, in the loop of `BlockLoweringOrder::new`: the blocks lowered so far
  are a prefix of the reverse postorder, each followed by its edge blocks, in any
  order the control plane may choose.
- `TableOf` and `TableTargets`, in the second pass: the successors are found by their
  identity in the finished order.

The last step is about `is_critical`. Of a block that may leave to several others,
or by a table, an edge that is not critical is the only one to its target
(`NotCritical`), so that the target's entry is its alone, and the edge blocks of
the critical ones are told apart by predecessor and index (`OnlyEntry`).

### DominatorTree

`DominatorTree_proofs` proves `DomInvariant`, `Spec => []DomInv`, and from it
`DominatorsAreExact` and `PostDominatorsAreExact`: `DominatorsExact` and
`PostDominatorsExact`, again from `FlowAssumption` alone. What `dominates` answers
from the preorder numbers of the finished tree is dominance by its definition, for
any function after any edits.

The module starts with graphs and no program. `DfsTree` is a graph whose nodes
are numbered in preorder, with a spanning tree and for each node the last of its
descendants; an edge to a later node leads to a descendant. `SemiFrom` has the
semidominators as the recursion of Semi-NCA has them, and `SemiDominance` says
that `d` dominates `w` (`DominatesIn`: some set is closed under the edges but those
into `d`, and `w` is not in it) exactly if `d` is over `w` in the tree and no
semidominator on the path between is before `d`. Neither direction mentions
paths: one shows that the nodes reached without `d` would be closed, the other
follows semidominators down. `ClosestDominator` and `ClimbFinds` then say that
climbing immediate dominators until one is not after the semidominator ends at
the immediate dominator.

The phases follow, each with what it computes:

- `Searching`: the stack of enter and exit events is the open path of the tree
  with what is still to visit beside it (`StackOf`), every branch of a numbered
  block is followed or waits there (`AllFollowed`), and blocks have left in
  postorder (`LeftInOrder`). Both directions share it: `Flow` is an edge of
  either graph. That the edge iterators go through exactly the branches needs
  `InstsDistinct`, that the keys which order them are distinct.
- `Linked` and `Evaluated`: path compression. A label is the least semidominator
  between a node and the ancestor its path was compressed to, and `eval` keeps
  that while it changes both.
- `Candidate`: the minimum over the predecessors looked at so far, which becomes
  the semidominator (`SemiIsFound`).
- `IdomsFoundOf`, and `TreeIsFound`: the immediate dominators make a tree whose
  ancestors are the dominators (`DomTree`), in the order of the search.
- `LinkedTree`, `PreorderOf` and `MaxUpTo`: child and sibling links, the preorder
  made from them with a stack, and the greatest number below each node. Then
  `NumbersDecide` has it that comparing numbers decides ancestry (`ExactTree`).

`DomInv` says which of these holds at which point of the program, and that a
removal of unreachable blocks leaves the finished tree exact. The model's
recursive functions (compressed paths, links, maxima) are each shown to have a
solution by the choice of a least counterexample, as above.

### SSABuilder

`SSABuilder_proofs` proves `SSAInvariant`, `Spec => []SInv`, and from it
`AlwaysWellFormed`, `StacksStayBalanced` and `StackMapsCompleteForAllVariables`,
from `SSAAssumption` alone: any number of blocks and variables, any graphs, any
order of definitions, uses and sealing.

`WellFormed` holds between calls of the client only. While lookups run, a block
may have parameters that no branch passes a value for yet, and the invariant has
to say which. There are two kinds: the parameter of a lookup that waits on the
stack of calls, and the placeholders of a block that is not sealed, or is being
sealed, that have not been looked up. `Arity` is the number of the others, and
`ArityOK` that each branch passes as many arguments. A block has one waiting
lookup at most: it gets a definition of the variable with its parameter, so that
the walk ends there when it comes around a loop. Hence no block is to be finished
twice, and it is always sealed (`CallsOK`). `PredecessorsOK` says that a block
that is sealed, or about to be, has each branch to it among its predecessors; without it
a destination would be left without an argument. `SealOK` follows
`seal_all_blocks` through its blocks and variables.

For the stacks, `StacksOK` says that there is a number for each call on the stack,
the height of `results` when its turn comes (`Heights`): a use adds one value, a
finish takes one per predecessor and adds one, and one is left at the end.
Pushing a lookup replaces one value by a use for each predecessor and a finish
(`PushHeights`).

`resolve_aliases` is a bounded walk. That it ends at a value that is no alias is
`ResolveEnds`: no set of values is closed under aliases (`Acyclic`), and by the
pigeonhole principle a walk as long as there are values would close one. A new
alias makes no cycle, as its target has been resolved and is not the parameter
itself, which is no alias so far (`ParamsOK`, `AliasSet`).

`StackMapsComplete` follows if all variables are declared to need stack maps, or
none: then every value but the zeros is recorded (`StackMapped`). The hypothesis is
needed. With some variables declared and others not, the property is false, and
run `ssa_stack_maps` has the counterexample. TLC checked the parts of `SInv` on
the instance of `ssa` before they were proved.

### Only model-checked

- Termination and the other liveness properties, which need fairness.
- `NeverPanics` of `Sia32Emit`: it rests on arithmetic over whole functions, the
  slack between the estimated and the real sizes of veneers, and it fails for
  large padding (`emit_padding`), so that a theorem would have to bound the
  family of functions.
- `LoopsNatural`: that the loops found with the dominator tree are those of the
  definition. The tree is proved exact, but the backward searches and the levels
  of `loop_analysis.rs` are checked on the instance of `flow` only.
- `UsesSeeLastDef`: it compares two executions of the function along paths of any
  length while lookups and sealing are in progress; the backward argument of
  `MachBufferSem_proofs` would need the state of every lookup in it.

## Not modelled

`PROJECT.json` has a reason for each part. Of the parts that are modelled, these
operations are not: the records a `MachBuffer` trims with its code (relocations,
traps, call sites, stack maps, debug tags, patchable regions); `try_call` and
exception tables in graph and lowering order, and cold blocks in lowering order
(`Sia32Emit` emits them last); dominance
between instructions; types and `remove_block_predecessor` in the SSA builder;
`change_jump_destination`, `Switch`, and the liveness and spilling of
`safepoints.rs`; the maps and sets of the entity crate. The text section builder
has no instance on SIA32, whose `from_reloc` yields nothing; it is a client of
the buffer that is proved for any table of label uses.

Most of the tree is out of the scope of this development: the upstream backends
(x64, aarch64, riscv64, s390x, pulley), the ISLE compiler and its rules, the
generators and the assembler, the reader and the interpreter. They are tables,
rewriting of one instruction at a time, text processing or arithmetic on values,
with little state that outlives a call, and tests reach them well.

## Plan

Proofs to add: that the copying in `use_var_nonlocal` meets no definition, as its
debug assertion says, which needs that the path `find_var` walked is the one that
is copied along; that in `seal_one_block` the last parameters belong to the
remaining variables (`ssa.rs:491-493`), which needs a history of placeholders.

Components, in this order: `ScopedHashMap`, then elaboration; alias analysis of
memory versions; `remove_constant_phis` as a fixed point; SIA32 frames (argument
slots, prologue and epilogue as inverse effects); the module and JIT protocols;
`bforest`. Runs over the same instance are merged where that keeps the whole set
quick to repeat.
