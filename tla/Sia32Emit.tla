----------------------------- MODULE Sia32Emit ------------------------------
(***************************************************************************)
(* VCode::emit (machinst/vcode.rs) driving a MachBuffer with SIA32         *)
(* instructions (Inst::emit, isa/sia32/inst.rs).                           *)
(*                                                                         *)
(* The instruction being emitted is `todo', the calls it still has to make *)
(* on the buffer; a call is one step, so that the buffer's own loops run   *)
(* to their end in between.  After every instruction do_emit asks whether  *)
(* an island is needed and, if so, jumps around one.                       *)
(***************************************************************************)
EXTENDS MachBuffer, Sia32LabelUse

CONSTANTS
    Prologue,   \* lengths of the instructions of the prologue
    Families    \* kinds of functions: the cold blocks, the menu of instructions
                \* for the first block emitted, the second and so on, a bound on
                \* the instructions, and the bytes of padding between blocks, 0
                \* when that flag is off

\* A target of the menu: a block, or the block that is emitted next.
next_block == -1
Blocks == 0 .. (NumBlocks - 1)
Target == Blocks \cup {next_block}

\* The instructions of the menu.
Inst ==
    [op: {"Simple"}, n: Nat \ {0}] \cup [op: {"Jump"}, l: Target]
    \cup [op: {"BrNz"}, l: Target, not_taken: Target]
    \cup [op: {"BrTable"}, n: Nat, l: Blocks]
    \cup [op: {"Ret", "Select", "TrapIfZ", "TrapIfNz", "LoadExtName", "Call"}]

\* The verifier refuses a cold entry.
ASSUME EmitAssumption ==
    /\ Prologue \in Seq(Nat \ {0})
    /\ \A f \in Families :
          /\ f.cold \subseteq Blocks \ {0}
          /\ f.insts \in Nat /\ f.padding \in Nat
          /\ \A nth \in 1 .. NumBlocks : f.menu[nth] \subseteq Inst

\* The buffer is told about the label uses of SIA32: an island gives a literal
\* no veneer, and no veneer contains one.
ASSUME LabelUseAssumption ==
    /\ InstLabelUse \subseteq ClientKind
    /\ \A k \in Kind : VeneerKind[k] # "Literal8"

VARIABLES
    family,     \* the kind of function that is emitted
    todo,       \* calls left to make
    block,      \* how many blocks of final_order have been started
    in_block,   \* a block is open: its terminator has not been emitted
    emitted,    \* instructions emitted
    bb_starts   \* where each block of final_order starts; Deleted if it was
                \* optimised away

emitVars == <<family, todo, block, in_block, emitted, bb_starts>>
allVars == <<vars, emitVars>>

(***************************************************************************)
(* The order in which blocks are emitted: cold blocks at the end.          *)
(***************************************************************************)

precedes(k, l, cold) == IF k \in cold <=> l \in cold THEN k < l ELSE l \in cold

orders_blocks(order, n, cold) ==
    /\ order \in [1 .. n -> 0 .. (n - 1)]
    /\ \A l \in 0 .. (n - 1) : \E i \in 1 .. n : order[i] = l
    /\ \A i, j \in 1 .. n : i < j => precedes(order[i], order[j], cold)

final_orders ==
    [cold \in SUBSET Blocks |->
        CHOOSE order \in [1 .. NumBlocks -> Blocks] : orders_blocks(order, NumBlocks, cold)]

final_order == final_orders[family.cold]

lookahead == worst_case_size + worst_case_island_growth

(***************************************************************************)
(* Inst::emit, as the calls it makes.  a and d are fresh labels.           *)
(***************************************************************************)

put(n) == [op |-> "put", n |-> n]
use(l, k) == [op |-> "use", l |-> l, k |-> k]
jump(l) == [op |-> "jump", l |-> l]
bind_to(l) == [op |-> "bind", l |-> l]
align(a) == [op |-> "align", a |-> a]
island(d) == [op |-> "island", d |-> d]
case_of(l) == [op |-> "case", l |-> l]
check == [op |-> "check"]

\* Mutant: the word goes where the code ends.
unaligned_pool_word(a, d) == <<bind_to(a), put(4), bind_to(d)>>

literal_pool_word(a, d) == <<align(4), bind_to(a), put(4), bind_to(d)>>

target_of(l) == IF l # next_block THEN l ELSE IF block < NumBlocks THEN final_order[block + 1] ELSE 0

\* Instructions without label uses, by their length.
straight_line(n) == <<put(n)>>
Ret == <<put(2)>>
Jump(target) == <<jump(target)>>
BrNz(yes, no) == <<use(yes, "Cond7"), jump(no)>>
Select(yes, done) ==
    <<use(yes, "Cond7"), put(2), use(done, "Branch11"), bind_to(yes), put(2), bind_to(done)>>
TrapIfZ(done) == <<use(done, "Cond7"), put(2), bind_to(done)>>
TrapIfNz(trap, done) ==
    <<use(trap, "Cond7"), jump(done), bind_to(trap), put(2), bind_to(done)>>
emit_ext_name32(literal, done) ==
    <<use(literal, "Literal8"), jump(done)>> \o literal_pool_word(literal, done)

\* Mutant: the call returns into the word of the literal pool.
call_falls_into_pool(literal, done) ==
    <<use(literal, "Literal8"), put(2)>> \o literal_pool_word(literal, done)

emit_direct_call(literal, done) ==
    <<use(literal, "Literal8"), put(2), jump(done)>> \o literal_pool_word(literal, done)

BrTable(n, target) == [i \in 1 .. n |-> case_of(target)] \o <<jump(target_of(target))>>

calls(i, a, d) ==
    CASE i.op = "Simple" -> straight_line(i.n)
      [] i.op = "Ret" -> Ret
      [] i.op = "Jump" -> Jump(target_of(i.l))
      [] i.op = "BrNz" -> BrNz(target_of(i.l), target_of(i.not_taken))
      [] i.op = "Select" -> Select(a, d)
      [] i.op = "TrapIfZ" -> TrapIfZ(d)
      [] i.op = "TrapIfNz" -> TrapIfNz(a, d)
      [] i.op = "LoadExtName" -> emit_ext_name32(a, d)
      [] i.op = "Call" -> emit_direct_call(a, d)
      [] i.op = "BrTable" -> BrTable(i.n, i.l)

\* The labels an instruction gets with get_label.
fresh(i) ==
    CASE i.op \in {"Select", "TrapIfNz", "LoadExtName", "Call"} -> 2
      [] i.op = "TrapIfZ" -> 1
      [] OTHER -> 0

terminators == {"Ret", "Jump", "BrNz", "BrTable"}

(***************************************************************************)
(* The calls, one per step.                                                *)
(***************************************************************************)

next_call(op) == pc = "idle" /\ todo # <<>> /\ Head(todo).op = op
returns == todo' = Tail(todo) /\ UNCHANGED <<family, block, in_block, emitted, bb_starts>>

CallPut == next_call("put") /\ Put(Head(todo).n) /\ returns
CallUse == next_call("use") /\ UseLabel(Head(todo).l, Head(todo).k, 2) /\ returns
CallJump == next_call("jump") /\ add_uncond_branch(Head(todo).l, "Branch11", 2) /\ returns
CallBind == next_call("bind") /\ BindLabel(Head(todo).l) /\ returns
CallAlign == next_call("align") /\ Put(AlignUp(off, Head(todo).a) - off) /\ returns
CallIsland == next_call("island") /\ EmitIsland(Head(todo).d, FALSE) /\ returns

\* A jump around an island: get_label, Jump, emit_island, bind_label.
jump_around(d) == <<jump(nlabels), island(d), bind_to(nlabels)>>

\* Replace the first call by others that use a fresh label, or by none.
expands(needed, with, without) ==
    /\ nlabels < MaxLabels
    /\ nlabels' = IF needed THEN nlabels + 1 ELSE nlabels
    /\ todo' = (IF needed THEN with ELSE without) \o Tail(todo)
    /\ UNCHANGED <<off, labelVars, latest_branches, pending_fixup_records,
                   pending_fixup_deadline, fixup_records, deferVars, pc, islandVars,
                   family, block, in_block, emitted, bb_starts>>

\* Mutant: no island is ever asked for between instructions.
CallCheckNever == next_call("check") /\ expands(FALSE, <<>>, <<>>)

\* do_emit, after the instruction.
CallCheck == next_call("check") /\ expands(island_needed(lookahead), jump_around(0), <<>>)

\* One comparison of a BrTable: li, mov, cmpeq, bnz.
CallCase ==
    LET compare == <<put(6), use(Head(todo).l, "Cond7")>> IN
    next_call("case") /\ expands(island_needed(26), jump_around(28) \o compare, compare)

Call == CallPut \/ CallUse \/ CallJump \/ CallBind \/ CallAlign \/ CallIsland
        \/ CallCheck \/ CallCase

(***************************************************************************)
(* VCode::emit.                                                            *)
(***************************************************************************)

ready == pc = "idle" /\ todo = <<>> /\ ~finishing

BeginBlock ==
    /\ ready /\ ~in_block /\ block < NumBlocks
    /\ BindLabel(final_order[block + 1])
    /\ block' = block + 1 /\ in_block' = TRUE
    /\ todo' = <<[op |-> "bb_start"]>>
    /\ UNCHANGED <<family, emitted, bb_starts>>

Deleted == -1

\* Mutant: only a block that starts at the tail is deleted.
bb_starts_not_at(o) ==
    [i \in DOMAIN bb_starts |-> IF bb_starts[i] # o THEN bb_starts[i] ELSE Deleted]

\* Mutant: when the tail moved back, every block before it is forgotten.
bb_starts_all_deleted(o) ==
    [i \in DOMAIN bb_starts |->
        IF bb_starts[Len(bb_starts)] < o THEN bb_starts[i] ELSE Deleted]

\* The recorded starts when a block starts at o: binding its label may have
\* moved the tail back, and the blocks from there on were removed.
bb_starts_before(o) ==
    [i \in DOMAIN bb_starts |->
        IF \E j \in i .. Len(bb_starts) : bb_starts[j] # Deleted /\ bb_starts[j] < o
        THEN bb_starts[i] ELSE Deleted]

CallBBStart ==
    /\ next_call("bb_start")
    /\ bb_starts' = Append(bb_starts_before(off), off)
    /\ todo' = Tail(todo)
    /\ UNCHANGED <<vars, family, block, in_block, emitted>>

padding_len == family.padding + Align - 1

\* Padding between blocks goes to the buffer directly, after an island if the
\* padding and the next instruction might overrun a deadline.
padding ==
    IF family.padding = 0 THEN <<>>
    ELSE <<[op |-> "padding"], put(family.padding), align(Align)>>

CallPadding ==
    /\ next_call("padding")
    /\ todo' = (IF island_needed(padding_len + lookahead)
                THEN <<island(padding_len + lookahead)>> ELSE <<>>) \o Tail(todo)
    /\ UNCHANGED <<vars, family, block, in_block, emitted, bb_starts>>

\* Room for a terminator in every block that is still to be emitted.
room_for(i) == i.op \in terminators \/ emitted + (NumBlocks - block) + 1 < family.insts

EmitInst(i) ==
    /\ ready /\ in_block /\ emitted < family.insts /\ room_for(i)
    /\ nlabels + fresh(i) <= MaxLabels
    /\ nlabels' = nlabels + fresh(i)
    /\ todo' = calls(i, nlabels, nlabels + fresh(i) - 1) \o <<check>>
               \o (IF i.op \in terminators THEN padding ELSE <<>>)
    /\ in_block' = (i.op \notin terminators)
    /\ emitted' = emitted + 1
    /\ UNCHANGED <<off, labelVars, latest_branches, pending_fixup_records,
                   pending_fixup_deadline, fixup_records, deferVars, pc, islandVars, family,
                   block, bb_starts>>

\* buffer.optimize_branches after the last block, then buffer.finish.
EndFunction ==
    /\ ready /\ ~in_block /\ block = NumBlocks
    /\ OptimizeBranches
    /\ block' = block + 1
    /\ UNCHANGED <<family, todo, in_block, emitted, bb_starts>>

EmitFinish == ready /\ block > NumBlocks /\ Finish(FALSE) /\ UNCHANGED emitVars

\* The prologue goes first, one do_emit per instruction.
prologue == [i \in 1 .. 2 * Len(Prologue) |->
                IF i % 2 = 1 THEN put(Prologue[(i + 1) \div 2]) ELSE check]

EmitInit ==
    /\ Init
    /\ family \in Families
    /\ todo = prologue /\ block = 0 /\ in_block = FALSE /\ emitted = 0
    /\ bb_starts = <<>>

\* Emission is one sequential program: it always takes its next step.
EmitNext ==
    \/ Call \/ CallPadding \/ CallBBStart \/ BeginBlock \/ EndFunction \/ EmitFinish
    \/ block \in 1 .. NumBlocks /\ \E i \in family.menu[block] : EmitInst(i)
    \/ Internal /\ UNCHANGED emitVars
    \/ pc \in {"done", "panic"} /\ UNCHANGED allVars

EmitSpec == EmitInit /\ [][EmitNext]_allVars /\ WF_allVars(EmitNext)

(***************************************************************************)
(* Properties.                                                             *)
(***************************************************************************)

\* No assertion of the island machinery ever fails: every label use is patched
\* to its label, or to a veneer, while that is in range.
NeverPanics == pc # "panic"

\* patch() asserts that "SIA literal target must be 4-byte aligned": a label
\* bound after the alignment stays aligned, whatever is truncated around it.
LiteralsAligned ==
    LET literals(fs) == {i \in DOMAIN fs : fs[i].kind = "Literal8"}
        word_aligned(f) == resolve_label_offset[f.label] # UNKNOWN_LABEL_OFFSET
                             => resolve_label_offset[f.label] % 4 = 0
    IN  /\ \A i \in literals(pending_fixup_records) : word_aligned(pending_fixup_records[i])
        /\ \A i \in literals(taken) : word_aligned(taken[i])
        /\ \A f \in fixup_records : f.kind = "Literal8" => word_aligned(f)

\* Every emission ends with a finished buffer: no endless sequence of islands.
EmissionFinishes == <>(pc \in {"done", "panic"})

\* What bb_offsets is computed from, once the last block is optimised.
starts == {bb_starts[i] : i \in DOMAIN bb_starts} \ {Deleted}
laid_out == ready /\ block > NumBlocks

\* The blocks that survive in the machine code, in the order of emission, start
\* at increasing offsets, each where its label is bound unless the label was
\* redirected: the list does not miss that binding a label moved the tail back.
BBStartsTrueToLabels ==
    laid_out => \A i \in DOMAIN bb_starts : bb_starts[i] # Deleted =>
        /\ final_order[i] \in live => label_offsets[final_order[i]] = bb_starts[i]
        /\ \A j \in 1 .. (i - 1) : bb_starts[j] < bb_starts[i]

\* CompiledCode documents an edge of the CFG as a pair of "basic-block start
\* offsets": every block an edge may lead to resolves to a recorded start.
BBEdgesReachStarts ==
    laid_out => \A l \in 0 .. (NumBlocks - 1) : resolve_label_offset[l] \in starts

\* The entry of bb_starts that VCode::emit reports the edges of block l from: the
\* one at the block's index, whichever block was emitted in that place.
edges_start(l) == bb_starts[l + 1]

\* CompiledCode: "Each edge is `(from, to)`, where `from` and `to` are basic-block
\* start offsets of the respective blocks": the edges of a block start at it.
BBEdgesFromBlocks ==
    laid_out => \A l \in Blocks \cap live :
        edges_start(l) # Deleted => edges_start(l) = label_offsets[l]

\* vcode.rs: "If we have backed up due to MachBuffer branch opts, note that the
\* removed blocks were removed": a recorded block has code.
BBStartsInCode == laid_out => \A o \in starts : o < off

(***************************************************************************)
(* What the properties above need besides themselves to be inductive.      *)
(***************************************************************************)

\* The calls that may be left to make.
CallRecord ==
    [op: {"put"}, n: Nat] \cup [op: {"align"}, a: Nat \ {0}] \cup [op: {"island"}, d: Nat]
    \cup [op: {"use"}, l: allocated, k: InstLabelUse] \cup [op: {"jump"}, l: allocated]
    \cup [op: {"bind"}, l: NumBlocks .. (nlabels - 1)] \cup [op: {"case"}, l: Blocks]
    \cup [op: {"check", "bb_start", "padding"}]

EmitTypeOK ==
    /\ family \in Families /\ NumBlocks <= nlabels
    /\ todo \in Seq(CallRecord)
    /\ block \in 0 .. (NumBlocks + 1) /\ in_block \in BOOLEAN /\ emitted \in Nat
    /\ bb_starts \in Seq(Offset)
    /\ \A i \in DOMAIN latest_branches : ~latest_branches[i].cond

\* BindLabel(block) has run, and the start of the block is not yet recorded.
starting == todo # <<>> /\ Head(todo).op = "bb_start"

\* Where the loop over blocks is.
BlockPhases ==
    /\ in_block => block \in 1 .. NumBlocks
    /\ starting => Len(todo) = 1 /\ in_block /\ pc \in {"idle", "optimize_branches"}
    /\ block > NumBlocks => todo = <<>> /\ ~in_block
    /\ finishing => block > NumBlocks
    /\ Len(bb_starts) = IF starting THEN block - 1 ELSE Least(block, NumBlocks)
    /\ pending_traps = <<>> /\ pending_constants = <<>>

\* A jump to a label of the instruction itself, and a use of its literal.
jumps_ahead(c) == c.op = "jump" /\ c.l >= NumBlocks
uses_literal(c) == c.op = "use" /\ c.k = "Literal8"
puts(c) == c.op = "put" /\ c.n > 0
grows(c) == puts(c) \/ c.op = "use"
plain(c) == c.op \notin {"bind", "bb_start"} /\ ~jumps_ahead(c) /\ ~uses_literal(c)
next_op(t, j, op) == j < Len(t) /\ t[j + 1].op = op

\* jump past l, then bind l: only with code behind the label.
jumps_past(t, i, l) == jumps_ahead(t[i]) /\ t[i].l # l
puts_next(t, j) == j < Len(t) /\ puts(t[j + 1])

\* A bound label has code, an island or a jump past it in front of it.
bind_in_order(t, j) ==
    \/ grows(t[j - 1]) \/ t[j - 1].op = "island"
    \/ jumps_past(t, j - 1, t[j].l) /\ puts_next(t, j)
    \/ t[j - 1].op = "align" /\ t[j - 1].a = 4 /\ puts_next(t, j)

\* In which order the calls of an instruction come.
in_order(t, j) ==
    /\ t[j].op = "bind" /\ j > 1 => bind_in_order(t, j)
    /\ t[j].op = "align" /\ next_op(t, j, "bind") /\ j > 1 => jumps_past(t, j - 1, t[j + 1].l)
    /\ jumps_ahead(t[j]) /\ ~next_op(t, j, "island") /\ j > 1 => grows(t[j - 1])
    /\ jumps_ahead(t[j]) \/ uses_literal(t[j]) => \A i \in 1 .. (j - 1) : t[i].op # "bind"
    /\ t[j].op \in {"check", "case", "padding"} => \A i \in (j + 1) .. Len(t) : plain(t[i])
    /\ uses_literal(t[j]) => \A i \in DOMAIN t : t[i].op = "bind" /\ t[i].l = t[j].l =>
                               i > 1 /\ t[i - 1].op = "align"
    /\ t[j].op = "bb_start" => j = 1

CallsInOrder ==
    \A j \in DOMAIN todo :
        /\ in_order(todo, j)
        /\ jumps_ahead(todo[j]) \/ uses_literal(todo[j]) =>
             todo[j].l >= NumBlocks /\ label_offsets[todo[j].l] = UNKNOWN_LABEL_OFFSET

\* No recorded branch ends at the tail; no label is bound there.
tail_free == latest_branches = <<>> \/ b.end < off
no_label_at_tail == labels_bound_at(off) = {}

\* The last branch leads to a label that is not bound yet, nothing is bound at
\* it and no branch ends where it starts: it stays as it is.
pinned ==
    /\ latest_branches # <<>> /\ b.labels = {}
    /\ label_offsets[b.target] = UNKNOWN_LABEL_OFFSET
    /\ Len(latest_branches) > 1 => prev_b.end < b.start

\* What the next call finds.
binds_next(l) == tail_free \/ (pinned /\ no_label_at_tail /\ b.target # l)

NextCallReady ==
    todo # <<>> =>
        /\ Head(todo).op = "bind" =>
             /\ pc # "optimize_branches" /\ binds_next(Head(todo).l)
             /\ tail_free \/ puts_next(todo, 1)
        /\ Head(todo).op = "align" /\ next_op(todo, 1, "bind") =>
             pc # "optimize_branches" /\ binds_next(todo[2].l)
        /\ jumps_ahead(Head(todo)) /\ ~next_op(todo, 1, "island") =>
             pc # "optimize_branches" /\ tail_free /\ no_label_at_tail

\* Code was emitted since a block was started.
past_blocks == \A l \in Blocks \cap live : label_offsets[l] < off

\* Code is emitted next.
puts_first == todo # <<>> /\ puts(Head(todo))
grows_next ==
    \/ todo = <<>> /\ in_block
    \/ puts_first
    \/ todo # <<>> /\ Head(todo).op \in {"use", "jump", "case"}

\* Except where a block starts, the optimiser removes no branch that a block
\* or a literal starts at.
TailSettled ==
    \/ finishing \/ starting
    \/ past_blocks /\ (tail_free \/ no_label_at_tail)
    \/ past_blocks /\ pinned /\ grows_next
    \/ pc = "idle" /\ grows_next

\* A block is redirected to blocks only.
BlocksAliasBlocks ==
    /\ \A l \in Blocks : label_aliases[l] # UNKNOWN_LABEL => label_aliases[l] \in Blocks
    /\ \A i \in DOMAIN latest_branches :
          \/ latest_branches[i].target \in Blocks
          \/ latest_branches[i].labels \cap Blocks = {}
          \/ pc = "idle" /\ todo # <<>> /\ Head(todo).op = "island"

\* The recorded starts increase; they are where the labels are, and every label
\* is at one of them, but for the blocks that the block being started replaces.
StartsOrdered ==
    \A i, j \in DOMAIN bb_starts :
        i < j /\ bb_starts[i] # Deleted /\ bb_starts[j] # Deleted => bb_starts[i] < bb_starts[j]

StartsAtLabels ==
    /\ \A i \in DOMAIN bb_starts :
          bb_starts[i] # Deleted /\ final_order[i] \in live /\ (starting => bb_starts[i] < off) =>
              label_offsets[final_order[i]] = bb_starts[i]
    /\ starting /\ final_order[block] \in live => label_offsets[final_order[block]] = off

begun(l) == \E i \in 1 .. NumBlocks : i <= block /\ final_order[i] = l
LabelsAtStarts ==
    \A l \in Blocks \cap live :
        begun(l) => \/ starting /\ label_offsets[l] = off
                    \/ /\ label_offsets[l] \in starts
                       /\ starting => label_offsets[l] < off

\* The label uses still to be patched, and the labels of literals among them.
outstanding ==
    {pending_fixup_records[i] : i \in DOMAIN pending_fixup_records}
    \cup {taken[i] : i \in DOMAIN taken} \cup fixup_records
literal_labels == {f.label : f \in {g \in outstanding : g.kind = "Literal8"}}

\* A literal is bound to an aligned offset, with code behind it that no
\* optimisation removes.
LiteralsStay ==
    \A l \in literal_labels :
        /\ l \in NumBlocks .. (nlabels - 1) /\ l \in live
        /\ \A i \in DOMAIN latest_branches : l \notin latest_branches[i].labels
        /\ label_offsets[l] # UNKNOWN_LABEL_OFFSET =>
             label_offsets[l] % 4 = 0 /\ (label_offsets[l] < off \/ puts_first)

\* A literal that is still to be bound is aligned before, and has code behind it.
LiteralsAhead ==
    \A l \in literal_labels, j \in DOMAIN todo : todo[j].op = "bind" /\ todo[j].l = l =>
        IF j = 1 THEN pc = "idle" /\ off % 4 = 0 /\ puts_next(todo, 1)
        ELSE todo[j - 1].op = "align"

EmitInv ==
    /\ EmitTypeOK /\ BlockPhases /\ CallsInOrder /\ NextCallReady
    /\ TailSettled /\ BlocksAliasBlocks
    /\ finishing \/ (StartsOrdered /\ StartsAtLabels /\ LabelsAtStarts)
    /\ LiteralsStay /\ LiteralsAhead

=============================================================================
