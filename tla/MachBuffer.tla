----------------------------- MODULE MachBuffer -----------------------------
(***************************************************************************)
(* The MachBuffer of cranelift/codegen/src/machinst/buffer.rs: the         *)
(* assembler back end that emits machine code in one pass, edits the       *)
(* branches at its tail in place, and inserts islands of veneers, traps    *)
(* and constants before a short branch runs out of range.                  *)
(*                                                                         *)
(* The bytes of `data' are abstracted to their number, `off'; the control  *)
(* is kept whole.  The straight-line calls a backend makes to emit one     *)
(* branch (use_label_at_offset, add_*_branch, put) are one action, since   *)
(* the protocol of add_uncond_branch allows nothing in between.  The loops *)
(* of optimize_branches, emit_island and finish are unrolled: while `pc'   *)
(* is not "idle" only the next iteration of the loop can happen.  A failed *)
(* assert! leads to pc = "panic", where the buffer stays.                  *)
(***************************************************************************)
EXTENDS Integers, Sequences, FiniteSets

CONSTANTS
    NumBlocks,        \* labels reserved for basic blocks
    MaxLabels,        \* bound: labels ever allocated
    MaxOff,           \* bound: code bytes a client emits before it finishes
    U32_MAX,          \* u32::MAX, the "no deadline" value, saturation point
    Sizes,            \* instruction lengths a client may emit
    Kind,             \* the backend's LabelUse kinds
    ClientKind,       \* the kinds instructions use (some occur in veneers only)
    MaxPos, MaxNeg,   \* max_pos_range, max_neg_range
    PatchSize,        \* patch_size
    VeneerSize,       \* veneer_size
    WorstVeneerSize,  \* worst_case_veneer_size
    VeneerKind,       \* kind of the label use inside a veneer; NoKind if none
    VeneerFixupDelta, \* where in a veneer its label is used, by its offset mod 4
    NoKind,
    Align,            \* LabelUse::ALIGN
    TrapSize,         \* TRAP_OPCODE.len()
    Const, ConstSize, ConstAlign, \* VCode constants, their sizes and alignments
    LABEL_LIST_THRESHOLD,
    Decisions,        \* what ctrl_plane.get_decision() may return
    Distances,        \* distances a client passes to emit_island
    Forces            \* whether a client forces veneers

ASSUME SizesAssumption ==
    /\ NumBlocks \in Nat /\ MaxLabels \in Nat /\ NumBlocks <= MaxLabels
    /\ MaxOff \in Nat /\ U32_MAX \in Nat
    /\ Sizes \subseteq Nat \ {0} /\ Distances \subseteq Nat
    /\ Align \in Nat \ {0} /\ TrapSize \in Nat \ {0}
    /\ LABEL_LIST_THRESHOLD \in Nat
    /\ Decisions \subseteq BOOLEAN /\ Forces \subseteq BOOLEAN

ASSUME ConstAssumption ==
    /\ ConstSize \in [Const -> Nat \ {0}]
    /\ ConstAlign \in [Const -> Nat \ {0}]

\* A veneer is laid out inside the space reserved for it, its own label use
\* is of a kind the backend knows, and no use is due before it is emitted.
ASSUME KindAssumption ==
    /\ ClientKind \subseteq Kind /\ NoKind \notin Kind
    /\ MaxPos \in [Kind -> Nat] /\ MaxNeg \in [Kind -> Nat]
    /\ PatchSize \in [Kind -> Nat \ {0}]
    /\ VeneerSize \in [Kind -> Nat] /\ WorstVeneerSize \in Nat
    /\ VeneerKind \in [Kind -> Kind \cup {NoKind}]
    /\ \A k \in Kind : Align <= MaxPos[k] /\ Align <= U32_MAX
    /\ VeneerFixupDelta \in [Kind -> [0 .. 3 -> Nat]]
    /\ \A k \in Kind, r \in 0 .. 3 : VeneerKind[k] # NoKind =>
          VeneerFixupDelta[k][r] + PatchSize[VeneerKind[k]] <= VeneerSize[k]

Label == 0 .. (MaxLabels - 1)
UNKNOWN_LABEL == -1
UNKNOWN_LABEL_OFFSET == -1

\* MachLabelFixup and MachBranch; `fixup' indexes pending_fixup_records.
Fixup == [label: Label, offset: Nat, kind: Kind]
Branch == [start: Nat, end: Nat, target: Label, fixup: Nat,
           cond: BOOLEAN, labels: SUBSET Label]

VARIABLES
    off,                     \* data.len(), i.e. cur_offset()
    nlabels,                 \* label_offsets.len()
    label_offsets,           \* bound offset of each label
    label_aliases,           \* label each label was redirected to
    labels_at_tail,          \* labels bound at labels_at_tail_off
    labels_at_tail_off,
    latest_branches,         \* branches that may still be edited
    pending_fixup_records,   \* label uses since the last island
    pending_fixup_deadline,
    fixup_records,           \* older label uses (a heap ordered by deadline)
    pending_traps,           \* labels of deferred traps
    pending_constants,       \* constants to be placed in the next island
    pending_constants_size,
    upcoming_label,          \* constants[c].upcoming_label
    pc,                      \* which loop of the buffer is running
    taken,                   \* emit_island: what mem::take left to handle
    forced_threshold,        \* emit_island: the local of that name
    force_veneers,           \* emit_island: the argument of that name
    finishing                \* emit_island was called from finish

labelVars  == <<label_offsets, label_aliases, labels_at_tail, labels_at_tail_off>>
deferVars  == <<pending_traps, pending_constants, pending_constants_size, upcoming_label>>
islandVars == <<taken, forced_threshold, force_veneers, finishing>>
vars == <<off, nlabels, labelVars, latest_branches, pending_fixup_records,
          pending_fixup_deadline, fixup_records, deferVars, pc, islandVars>>

SatAdd(a, b) == IF a + b > U32_MAX THEN U32_MAX ELSE a + b
Least(a, b) == IF a <= b THEN a ELSE b
AlignUp(o, a) == o + ((a - (o % a)) % a)
Last(s) == s[Len(s)]
Front(s) == SubSeq(s, 1, Len(s) - 1)

\* Mutant: counts the range backwards.
deadline_backward(f) == f.offset - MaxNeg[f.kind]

deadline(f) == SatAdd(f.offset, MaxPos[f.kind])
supports_veneer(k) == VeneerKind[k] # NoKind

Init ==
    /\ off = 0
    /\ nlabels = NumBlocks
    /\ label_offsets = [l \in Label |-> UNKNOWN_LABEL_OFFSET]
    /\ label_aliases = [l \in Label |-> UNKNOWN_LABEL]
    /\ labels_at_tail = {} /\ labels_at_tail_off = 0
    /\ latest_branches = <<>>
    /\ pending_fixup_records = <<>> /\ pending_fixup_deadline = U32_MAX
    /\ fixup_records = {}
    /\ pending_traps = <<>>
    /\ pending_constants = <<>> /\ pending_constants_size = 0
    /\ upcoming_label = [c \in Const |-> UNKNOWN_LABEL]
    /\ pc = "idle"
    /\ taken = <<>> /\ forced_threshold = 0
    /\ force_veneers = FALSE /\ finishing = FALSE

(***************************************************************************)
(* Labels.                                                                 *)
(***************************************************************************)

\* The offset a label stands for: aliases are followed to their end.
resolve_label_offset[l \in Label] ==
    IF label_aliases[l] = UNKNOWN_LABEL
    THEN label_offsets[l]
    ELSE resolve_label_offset[label_aliases[l]]

\* Mutant: never clears.
lazily_cleared_never(o) == labels_at_tail

\* labels_at_tail after lazily_clear_labels_at_tail() ran at offset o.
lazily_cleared(o) == IF o > labels_at_tail_off THEN {} ELSE labels_at_tail
lazily_cleared_off(o) == IF o > labels_at_tail_off THEN o ELSE labels_at_tail_off

allocated == 0 .. (nlabels - 1)

GetLabel ==
    /\ pc = "idle" /\ nlabels < MaxLabels
    /\ nlabels' = nlabels + 1
    /\ UNCHANGED <<off, labelVars, latest_branches, pending_fixup_records,
                   pending_fixup_deadline, fixup_records, deferVars, pc, islandVars>>

\* Mutant: adds the label without clearing the list first.
bind_without_clearing(l, o) ==
    /\ label_offsets' = [label_offsets EXCEPT ![l] = o]
    /\ labels_at_tail' = labels_at_tail \cup {l}
    /\ labels_at_tail_off' = lazily_cleared_off(o)
    /\ UNCHANGED label_aliases

\* What bind_label does before it calls optimize_branches, at offset o.
bind(l, o) ==
    /\ label_offsets' = [label_offsets EXCEPT ![l] = o]
    /\ labels_at_tail' = lazily_cleared(o) \cup {l}
    /\ labels_at_tail_off' = lazily_cleared_off(o)
    /\ UNCHANGED label_aliases

\* optimize_branches returns at once when the control plane decides so.
enter_optimize_branches ==
    \E skip \in Decisions : pc' = IF skip THEN "idle" ELSE "optimize_branches"

\* A label is bound once; labels of deferred traps and of constants are bound
\* by the island that emits them.
bindable(l) ==
    /\ l \in allocated /\ label_offsets[l] = UNKNOWN_LABEL_OFFSET
    /\ \A i \in 1 .. Len(pending_traps) : pending_traps[i] # l
    /\ \A c \in Const : upcoming_label[c] # l

BindLabel(l) ==
    /\ pc = "idle" /\ bindable(l)
    /\ bind(l, off)
    /\ enter_optimize_branches
    /\ UNCHANGED <<off, nlabels, latest_branches, pending_fixup_records,
                   pending_fixup_deadline, fixup_records, deferVars, islandVars>>

(***************************************************************************)
(* Emission of code, label uses and branches.                              *)
(***************************************************************************)

\* put1 .. put8, put_data, get_appended_space.
Put(n) ==
    /\ pc = "idle" /\ off + n <= MaxOff
    /\ off' = off + n
    /\ UNCHANGED <<nlabels, labelVars, latest_branches, pending_fixup_records,
                   pending_fixup_deadline, fixup_records, deferVars, pc, islandVars>>

\* use_label_at_offset on records rs.
use_label_at_offset(o, l, k, rs) ==
    LET f == [label |-> l, offset |-> o, kind |-> k] IN
    /\ pending_fixup_records' = Append(rs, f)
    /\ pending_fixup_deadline' = Least(pending_fixup_deadline, deadline(f) - Align)

\* An instruction of n bytes that uses a label but is not a known branch.
UseLabel(l, k, n) ==
    /\ pc = "idle" /\ l \in allocated
    /\ PatchSize[k] <= n /\ off + n <= MaxOff
    /\ use_label_at_offset(off, l, k, pending_fixup_records)
    /\ off' = off + n
    /\ UNCHANGED <<nlabels, labelVars, latest_branches, fixup_records,
                   deferVars, pc, islandVars>>

\* use_label_at_offset, add_uncond_branch or add_cond_branch, put: a branch of
\* n bytes that the buffer may later edit.
AddBranch(l, k, n, cond) ==
    /\ pc = "idle" /\ l \in allocated
    /\ PatchSize[k] <= n /\ off + n <= MaxOff
    /\ use_label_at_offset(off, l, k, pending_fixup_records)
    /\ labels_at_tail' = lazily_cleared(off)
    /\ labels_at_tail_off' = lazily_cleared_off(off)
    /\ latest_branches' = Append(latest_branches,
          [start |-> off, end |-> off + n, target |-> l,
           fixup |-> Len(pending_fixup_records) + 1,
           cond |-> cond, labels |-> lazily_cleared(off)])
    /\ off' = off + n
    /\ UNCHANGED <<nlabels, label_offsets, label_aliases, fixup_records,
                   deferVars, pc, islandVars>>

add_uncond_branch(l, k, n) == AddBranch(l, k, n, FALSE)
add_cond_branch(l, k, n) == AddBranch(l, k, n, TRUE)

(***************************************************************************)
(* optimize_branches, one loop iteration per step.                         *)
(***************************************************************************)

b == Last(latest_branches)
prev_b == latest_branches[Len(latest_branches) - 1]

\* The last branch ends at the tail and has not collected too many labels.
editable ==
    /\ latest_branches # <<>>
    /\ b.end >= off
    /\ Cardinality(b.labels) <= LABEL_LIST_THRESHOLD

branch_to_tail == editable /\ resolve_label_offset[b.target] = off

\* Mutant: does not look for a branch to itself.
redirectable_to_itself == editable /\ ~branch_to_tail /\ ~b.cond

\* An unconditional branch that does not resolve to itself.
redirectable ==
    /\ editable /\ ~branch_to_tail
    /\ ~b.cond /\ resolve_label_offset[b.target] # b.start

redirects == redirectable /\ b.labels # {}

has_prev == redirectable /\ b.labels = {} /\ Len(latest_branches) > 1

uncond_after_uncond == has_prev /\ ~prev_b.cond /\ prev_b.end = b.start

cond_around_uncond ==
    /\ has_prev /\ prev_b.cond /\ prev_b.end = b.start
    /\ resolve_label_offset[prev_b.target] = off

\* Mutant: leaves the labels where the tail was.
truncate_keeps_labels ==
    /\ off' = b.start
    /\ labels_at_tail' = lazily_cleared(off) \cup b.labels
    /\ labels_at_tail_off' = b.start
    /\ UNCHANGED <<label_offsets, label_aliases>>

\* Mutant: forgets the labels bound to the start of the branch.
truncate_forgets_labels ==
    /\ off' = b.start
    /\ label_offsets' = [l \in Label |->
          IF l \in lazily_cleared(off) THEN b.start ELSE label_offsets[l]]
    /\ labels_at_tail' = lazily_cleared(off)
    /\ labels_at_tail_off' = b.start
    /\ UNCHANGED label_aliases

\* truncate_last_branch: the labels at the tail move back to the start of the
\* branch, where they join the labels bound there.
truncate_last_branch ==
    /\ off' = b.start
    /\ label_offsets' = [l \in Label |->
          IF l \in lazily_cleared(off) THEN b.start ELSE label_offsets[l]]
    /\ labels_at_tail' = lazily_cleared(off) \cup b.labels
    /\ labels_at_tail_off' = b.start
    /\ UNCHANGED label_aliases

\* Mutants: the branch is not popped; its fixup is kept.
unpopped_branches == latest_branches
untruncated_fixups == SubSeq(pending_fixup_records, 1, b.fixup)

truncated_branches == Front(latest_branches)
truncated_fixups == SubSeq(pending_fixup_records, 1, b.fixup - 1)

OptTruncate ==
    /\ pc = "optimize_branches"
    /\ branch_to_tail \/ uncond_after_uncond
    /\ truncate_last_branch
    /\ latest_branches' = truncated_branches
    /\ pending_fixup_records' = truncated_fixups
    /\ UNCHANGED <<nlabels, pending_fixup_deadline, fixup_records, deferVars,
                   pc, islandVars>>

\* Mutant: the branch keeps its labels.
OptRedirectKeepsLabels ==
    /\ pc = "optimize_branches" /\ redirects
    /\ label_aliases' = [l \in Label |->
          IF l \in b.labels THEN b.target ELSE label_aliases[l]]
    /\ UNCHANGED <<off, nlabels, label_offsets, labels_at_tail, labels_at_tail_off,
                   latest_branches, pending_fixup_records, pending_fixup_deadline,
                   fixup_records, deferVars, pc, islandVars>>

OptRedirect ==
    /\ pc = "optimize_branches" /\ redirects
    /\ label_aliases' = [l \in Label |->
          IF l \in b.labels THEN b.target ELSE label_aliases[l]]
    /\ latest_branches' = [latest_branches EXCEPT ![Len(latest_branches)].labels = {}]
    /\ UNCHANGED <<off, nlabels, label_offsets, labels_at_tail, labels_at_tail_off,
                   pending_fixup_records, pending_fixup_deadline, fixup_records,
                   deferVars, pc, islandVars>>

\* Mutant: the fixup keeps the old target.
OptInvertKeepsFixup ==
    /\ pc = "optimize_branches" /\ cond_around_uncond
    /\ truncate_last_branch
    /\ latest_branches' =
          [truncated_branches EXCEPT ![Len(latest_branches) - 1].target = b.target]
    /\ pending_fixup_records' = truncated_fixups
    /\ UNCHANGED <<nlabels, pending_fixup_deadline, fixup_records, deferVars,
                   pc, islandVars>>

\* The conditional branch before b jumps over b: drop b, invert the
\* conditional and send it, and its fixup, to b's target.
OptInvert ==
    /\ pc = "optimize_branches" /\ cond_around_uncond
    /\ truncate_last_branch
    /\ latest_branches' =
          [truncated_branches EXCEPT ![Len(latest_branches) - 1].target = b.target]
    /\ pending_fixup_records' =
          [truncated_fixups EXCEPT ![prev_b.fixup].label = b.target]
    /\ UNCHANGED <<nlabels, pending_fixup_deadline, fixup_records, deferVars,
                   pc, islandVars>>

purge_latest_branches ==
    latest_branches' =
        IF latest_branches # <<>> /\ b.end < off THEN <<>> ELSE latest_branches

OptDone ==
    /\ pc = "optimize_branches"
    /\ ~branch_to_tail /\ ~redirects /\ ~uncond_after_uncond /\ ~cond_around_uncond
    /\ purge_latest_branches
    /\ pc' = "idle"
    /\ UNCHANGED <<off, nlabels, labelVars, pending_fixup_records,
                   pending_fixup_deadline, fixup_records, deferVars, islandVars>>

\* The call VCode::emit makes after the last block.
OptimizeBranches ==
    /\ pc = "idle"
    /\ enter_optimize_branches
    /\ labels_at_tail' = IF pc' = "idle" THEN labels_at_tail ELSE lazily_cleared(off)
    /\ labels_at_tail_off' =
          IF pc' = "idle" THEN labels_at_tail_off ELSE lazily_cleared_off(off)
    /\ UNCHANGED <<off, nlabels, label_offsets, label_aliases, latest_branches,
                   pending_fixup_records, pending_fixup_deadline, fixup_records,
                   deferVars, islandVars>>

OptStep == OptTruncate \/ OptRedirect \/ OptInvert \/ OptDone

(***************************************************************************)
(* Deferred traps and constants.                                           *)
(***************************************************************************)

defer_trap ==
    /\ pc = "idle" /\ nlabels < MaxLabels
    /\ nlabels' = nlabels + 1
    /\ pending_traps' = Append(pending_traps, nlabels)
    /\ UNCHANGED <<off, labelVars, latest_branches, pending_fixup_records,
                   pending_fixup_deadline, fixup_records, pending_constants,
                   pending_constants_size, upcoming_label, pc, islandVars>>

\* A constant that already has an upcoming label keeps it: no state changes.
get_label_for_constant(c) ==
    /\ pc = "idle" /\ nlabels < MaxLabels
    /\ upcoming_label[c] = UNKNOWN_LABEL
    /\ nlabels' = nlabels + 1
    /\ pending_constants' = Append(pending_constants, c)
    /\ pending_constants_size' = pending_constants_size + ConstSize[c]
    /\ upcoming_label' = [upcoming_label EXCEPT ![c] = nlabels]
    /\ UNCHANGED <<off, labelVars, latest_branches, pending_fixup_records,
                   pending_fixup_deadline, fixup_records, pending_traps, pc, islandVars>>

(***************************************************************************)
(* Islands.                                                                *)
(***************************************************************************)

num_fixups == Cardinality(fixup_records) + Len(pending_fixup_records)

worst_case_end_of_island(distance) ==
    LET size == num_fixups * WorstVeneerSize + pending_constants_size
                + Len(pending_traps) * TrapSize
    IN  SatAdd(SatAdd(off, distance), size)

soonest_deadline ==
    CHOOSE d \in {pending_fixup_deadline} \cup {deadline(f) : f \in fixup_records} :
        \A f \in fixup_records : d <= deadline(f) /\ d <= pending_fixup_deadline

island_needed(distance) ==
    /\ soonest_deadline < U32_MAX
    /\ worst_case_end_of_island(distance) > soonest_deadline

\* Mutant: branches before the island stay editable.
start_island_keeps_branches(distance, force) ==
    /\ UNCHANGED latest_branches
    /\ forced_threshold' = worst_case_end_of_island(distance)
    /\ force_veneers' = force
    /\ taken' = pending_fixup_records
    /\ pending_fixup_records' = <<>>
    /\ pc' = "island_pending"

\* The start of emit_island_maybe_forced: branches can no longer be edited and
\* the pending fixups are taken for processing.
start_island(distance, force) ==
    /\ latest_branches' = <<>>
    /\ forced_threshold' = worst_case_end_of_island(distance)
    /\ force_veneers' = force
    /\ taken' = pending_fixup_records
    /\ pending_fixup_records' = <<>>
    /\ pc' = "island_pending"

EmitIsland(distance, force) ==
    /\ pc = "idle"
    /\ start_island(distance, force)
    /\ UNCHANGED <<off, nlabels, labelVars, pending_fixup_deadline, fixup_records,
                   deferVars, finishing>>

\* Mutant: a label that is known by now does not count.
should_apply_if_due(f) == deadline(f) < forced_threshold /\ supports_veneer(f.kind)

should_apply_fixup(f) ==
    \/ resolve_label_offset[f.label] # UNKNOWN_LABEL_OFFSET
    \/ deadline(f) < forced_threshold /\ supports_veneer(f.kind)

\* The range a patch of a use at offset o may span (the contract of patch()).
in_range(k, o, target) ==
    IF target >= o THEN target - o <= MaxPos[k] ELSE o - target <= MaxNeg[k]

veneer_required(f) ==
    LET lo == resolve_label_offset[f.label] IN
    \/ lo = UNKNOWN_LABEL_OFFSET
    \/ force_veneers /\ supports_veneer(f.kind)
    \/ lo < f.offset /\ f.offset - lo > MaxNeg[f.kind]

\* The assert!s of handle_fixup and emit_veneer, and the one of patch().
asserts_hold(f) ==
    LET lo == resolve_label_offset[f.label] IN
    /\ lo >= f.offset => lo - f.offset <= MaxPos[f.kind]
    /\ lo = UNKNOWN_LABEL_OFFSET => forced_threshold - f.offset > MaxPos[f.kind]
    /\ veneer_required(f) =>
         supports_veneer(f.kind) /\ in_range(f.kind, f.offset, AlignUp(off, Align))

emit_veneer(f) ==
    LET veneer_offset == AlignUp(off, Align) IN
    /\ off' = veneer_offset + VeneerSize[f.kind]
    /\ use_label_at_offset(veneer_offset + VeneerFixupDelta[f.kind][veneer_offset % 4],
                           f.label, VeneerKind[f.kind], pending_fixup_records)

\* Patch the use in place, or send it to a veneer that takes over the label.
handle_fixup(f, next_pc) ==
    IF ~asserts_hold(f)
    THEN pc' = "panic" /\ UNCHANGED <<off, pending_fixup_records, pending_fixup_deadline>>
    ELSE /\ pc' = next_pc
         /\ IF veneer_required(f)
            THEN emit_veneer(f)
            ELSE UNCHANGED <<off, pending_fixup_records, pending_fixup_deadline>>

IslandPending ==
    /\ pc = "island_pending" /\ taken # <<>>
    /\ taken' = Tail(taken)
    /\ IF should_apply_fixup(Head(taken))
       THEN handle_fixup(Head(taken), pc) /\ UNCHANGED fixup_records
       ELSE /\ fixup_records' = fixup_records \cup {Head(taken)}
            /\ UNCHANGED <<off, pending_fixup_records, pending_fixup_deadline, pc>>
    /\ UNCHANGED <<nlabels, labelVars, latest_branches, deferVars,
                   forced_threshold, force_veneers, finishing>>

IslandPendingDone ==
    /\ pc = "island_pending" /\ taken = <<>>
    /\ pending_fixup_deadline' = U32_MAX
    /\ pc' = "island_heap"
    /\ UNCHANGED <<off, nlabels, labelVars, latest_branches, pending_fixup_records,
                   fixup_records, deferVars, islandVars>>

\* What fixup_records.peek() may return: a record with the soonest deadline.
heap_top == {f \in fixup_records : \A g \in fixup_records : deadline(f) <= deadline(g)}

IslandHeap(f) ==
    /\ pc = "island_heap" /\ f \in heap_top /\ should_apply_fixup(f)
    /\ fixup_records' = fixup_records \ {f}
    /\ handle_fixup(f, pc)
    /\ UNCHANGED <<nlabels, labelVars, latest_branches, deferVars, islandVars>>

IslandHeapDone ==
    /\ pc = "island_heap"
    /\ fixup_records = {} \/ \E f \in heap_top : ~should_apply_fixup(f)
    /\ pc' = "island_traps"
    /\ UNCHANGED <<off, nlabels, labelVars, latest_branches, pending_fixup_records,
                   pending_fixup_deadline, fixup_records, deferVars, islandVars>>

\* bind_label's optimize_branches has nothing to do: latest_branches is empty.
IslandTrap ==
    /\ pc = "island_traps" /\ pending_traps # <<>>
    /\ bind(Head(pending_traps), AlignUp(off, Align))
    /\ off' = AlignUp(off, Align) + TrapSize
    /\ pending_traps' = Tail(pending_traps)
    /\ UNCHANGED <<nlabels, latest_branches, pending_fixup_records,
                   pending_fixup_deadline, fixup_records, pending_constants,
                   pending_constants_size, upcoming_label, pc, islandVars>>

\* Mutant: the constant keeps its label for a next use.
IslandConstantKeepsLabel ==
    /\ pc = "island_traps" /\ pending_traps = <<>> /\ pending_constants # <<>>
    /\ LET c == Head(pending_constants)
           at == AlignUp(off, ConstAlign[c])
       IN  bind(upcoming_label[c], at) /\ off' = at + ConstSize[c]
    /\ pending_constants' = Tail(pending_constants)
    /\ UNCHANGED <<nlabels, latest_branches, pending_fixup_records,
                   pending_fixup_deadline, fixup_records, pending_traps, upcoming_label,
                   pending_constants_size, pc, islandVars>>

IslandConstant ==
    /\ pc = "island_traps" /\ pending_traps = <<>> /\ pending_constants # <<>>
    /\ LET c == Head(pending_constants)
           at == AlignUp(off, ConstAlign[c])
       IN  /\ bind(upcoming_label[c], at)
           /\ off' = at + ConstSize[c]
           /\ upcoming_label' = [upcoming_label EXCEPT ![c] = UNKNOWN_LABEL]
    /\ pending_constants' = Tail(pending_constants)
    /\ UNCHANGED <<nlabels, latest_branches, pending_fixup_records,
                   pending_fixup_deadline, fixup_records, pending_traps,
                   pending_constants_size, pc, islandVars>>

IslandDone ==
    /\ pc = "island_traps" /\ pending_traps = <<>> /\ pending_constants = <<>>
    /\ pc' = IF finishing THEN "finish" ELSE "idle"
    /\ UNCHANGED <<off, nlabels, labelVars, latest_branches, pending_fixup_records,
                   pending_fixup_deadline, fixup_records, deferVars, islandVars>>

IslandStep ==
    \/ IslandPending \/ IslandPendingDone
    \/ \E f \in fixup_records : IslandHeap(f)
    \/ IslandHeapDone \/ IslandTrap \/ IslandConstant \/ IslandDone

(***************************************************************************)
(* finish: islands until nothing is left to emit or to patch.              *)
(***************************************************************************)

\* Mutant: deferred traps do not count.
no_fixups_left ==
    /\ pending_constants = <<>>
    /\ fixup_records = {} /\ pending_fixup_records = <<>>

nothing_left ==
    /\ pending_constants = <<>> /\ pending_traps = <<>>
    /\ fixup_records = {} /\ pending_fixup_records = <<>>

\* A client finishes when it has bound every label it used.
Finish(force) ==
    /\ pc = "idle"
    /\ \A l \in allocated : ~bindable(l)
    /\ pc' = "finish" /\ finishing' = TRUE /\ force_veneers' = force
    /\ UNCHANGED <<off, nlabels, labelVars, latest_branches, pending_fixup_records,
                   pending_fixup_deadline, fixup_records, deferVars, taken,
                   forced_threshold>>

FinishIsland ==
    /\ pc = "finish" /\ ~nothing_left
    /\ start_island(0, force_veneers)
    /\ UNCHANGED <<off, nlabels, labelVars, pending_fixup_deadline, fixup_records,
                   deferVars, finishing>>

FinishDone ==
    /\ pc = "finish" /\ nothing_left
    /\ pc' = "done"
    /\ UNCHANGED <<off, nlabels, labelVars, latest_branches, pending_fixup_records,
                   pending_fixup_deadline, fixup_records, deferVars, islandVars>>

FinishStep == FinishIsland \/ FinishDone

\* The steps the buffer takes by itself once a method was called.
Internal == OptStep \/ IslandStep \/ FinishStep


(***************************************************************************)
(* A client that calls the public methods in any order they allow.         *)
(***************************************************************************)

ClientCall ==
    \/ GetLabel \/ defer_trap \/ OptimizeBranches
    \/ \E l \in Label : BindLabel(l)
    \/ \E n \in Sizes : Put(n)
    \/ \E l \in Label, k \in ClientKind, n \in Sizes :
          \/ UseLabel(l, k, n)
          \/ add_uncond_branch(l, k, n)
          \/ add_cond_branch(l, k, n)
    \/ \E c \in Const : get_label_for_constant(c)
    \/ \E d \in Distances, force \in Forces : EmitIsland(d, force)
    \/ \E force \in Forces : Finish(force)

\* A finished, or panicked, buffer does nothing more.
Stopped == pc \in {"done", "panic"} /\ UNCHANGED vars

Next == ClientCall \/ Internal \/ Stopped

\* The buffer's loops are sequential code: once entered they keep running.
Spec == Init /\ [][Next]_vars /\ WF_vars(Internal)

(***************************************************************************)
(* Properties.                                                             *)
(***************************************************************************)

Offset == Nat \cup {UNKNOWN_LABEL_OFFSET}

\* Every variable keeps its type: offsets and deadlines never go below zero,
\* and what the lists hold are labels, branches and fixups.
TypeOK ==
    /\ off \in Nat /\ nlabels \in 0 .. MaxLabels
    /\ label_offsets \in [Label -> Offset]
    /\ label_aliases \in [Label -> Label \cup {UNKNOWN_LABEL}]
    /\ labels_at_tail \in SUBSET Label /\ labels_at_tail_off \in Nat
    /\ latest_branches \in Seq(Branch)
    /\ pending_fixup_records \in Seq(Fixup) /\ pending_fixup_deadline \in Nat
    /\ fixup_records \in SUBSET Fixup /\ IsFiniteSet(fixup_records)
    /\ pending_traps \in Seq(Label)
    /\ pending_constants \in Seq(Const) /\ pending_constants_size \in Nat
    /\ upcoming_label \in [Const -> Label \cup {UNKNOWN_LABEL}]
    /\ pc \in {"idle", "optimize_branches", "island_pending", "island_heap",
               "island_traps", "finish", "done", "panic"}
    /\ taken \in Seq(Fixup) /\ forced_threshold \in Nat
    /\ force_veneers \in BOOLEAN /\ finishing \in BOOLEAN

\* The labels that are bound to offset o and were not redirected.
labels_bound_at(o) ==
    {l \in Label : label_offsets[l] = o /\ label_aliases[l] = UNKNOWN_LABEL}

live == {l \in Label : label_aliases[l] = UNKNOWN_LABEL}

\* No label is bound past the tail of the buffer, also after a truncation moved
\* the tail back.  Redirected labels keep a dead offset, which may lie past it.
NoLabelPastTail == \A l \in live : label_offsets[l] <= off

\* labels_at_tail, lazily cleared, is complete and precise: it holds exactly
\* the labels bound to the tail that are not aliases.
LabelsAtTail ==
    /\ labels_at_tail_off <= off
    /\ lazily_cleared(off) = labels_bound_at(off)

\* labels_at_this_branch is complete and precise for every recorded branch.
LabelsAtBranch ==
    \A i \in DOMAIN latest_branches :
        latest_branches[i].labels = labels_bound_at(latest_branches[i].start)

\* Recorded branches lie inside the buffer, in order, without overlap, and no
\* label is bound inside one of them.
BranchesOrdered ==
    \A i \in DOMAIN latest_branches :
        /\ latest_branches[i].start < latest_branches[i].end
        /\ latest_branches[i].end <= off
        /\ \A j \in DOMAIN latest_branches :
              i < j => latest_branches[i].end <= latest_branches[j].start
        /\ \A l \in live : ~( /\ latest_branches[i].start < label_offsets[l]
                              /\ label_offsets[l] < latest_branches[i].end )

\* The end of the bytes a fixup patches.
end_of(f) == f.offset + PatchSize[f.kind]

\* Every outstanding fixup patches bytes that are still in the buffer: a
\* truncation never leaves a fixup behind.
FixupsInBuffer ==
    /\ \A i \in DOMAIN pending_fixup_records : end_of(pending_fixup_records[i]) <= off
    /\ \A i \in DOMAIN taken : end_of(taken[i]) <= off
    /\ \A f \in fixup_records : end_of(f) <= off

\* The fixup index of a recorded branch names the fixup of that very branch,
\* with its target; earlier fixups patch bytes before the branch and later ones
\* bytes after it: truncating the list to the index drops exactly the fixups of
\* the bytes that are dropped.
BranchFixup ==
    \A i \in DOMAIN latest_branches :
        LET br == latest_branches[i] IN
        /\ br.fixup \in DOMAIN pending_fixup_records
        /\ pending_fixup_records[br.fixup].label = br.target
        /\ pending_fixup_records[br.fixup].offset = br.start
        /\ \A j \in DOMAIN pending_fixup_records :
              /\ j < br.fixup => end_of(pending_fixup_records[j]) <= br.start
              /\ j > br.fixup => pending_fixup_records[j].offset >= br.end

\* Label aliases form no cycle: every set of labels has a member whose alias
\* lies outside the set.  resolve_label_offset terminates because of this.
NoAliasCycle ==
    \A S \in SUBSET Label : S # {} => \E l \in S : label_aliases[l] \notin S

(* What the properties above need besides themselves to be inductive. *)

\* The loops of an island run with no editable branch and only the loop over
\* the taken fixups has any of these.
IslandPhases ==
    /\ pc \in {"island_pending", "island_heap", "island_traps", "panic"}
         => latest_branches = <<>>
    /\ pc \notin {"island_pending", "panic"} => taken = <<>>

\* Fixups that survived an island lie before every branch recorded since.
HeapBeforeBranches ==
    \A i \in DOMAIN latest_branches, f \in fixup_records :
        end_of(f) <= latest_branches[i].start

\* A label that was handed out and is neither bound nor redirected.
unbound_label(l) ==
    l \in allocated /\ label_offsets[l] = UNKNOWN_LABEL_OFFSET /\ l \in live

\* Labels not handed out are unbound, and redirected labels are bound.
UnusedUnbound ==
    \A l \in Label :
        /\ l \notin allocated => label_offsets[l] = UNKNOWN_LABEL_OFFSET
        /\ label_offsets[l] = UNKNOWN_LABEL_OFFSET => l \in live

\* The labels of deferred traps and of constants to come are unbound, and no
\* two of them share one.
DeferredUnbound ==
    /\ \A i \in DOMAIN pending_traps :
          /\ unbound_label(pending_traps[i])
          /\ \A j \in DOMAIN pending_traps : i # j => pending_traps[i] # pending_traps[j]
          /\ \A c \in Const : upcoming_label[c] # pending_traps[i]
    /\ \A c \in Const : upcoming_label[c] # UNKNOWN_LABEL =>
          /\ unbound_label(upcoming_label[c])
          /\ \A d \in Const : c # d => upcoming_label[c] # upcoming_label[d]
    /\ \A i \in DOMAIN pending_constants :
          /\ upcoming_label[pending_constants[i]] # UNKNOWN_LABEL
          /\ \A j \in DOMAIN pending_constants :
                i # j => pending_constants[i] # pending_constants[j]

IInv ==
    /\ TypeOK /\ NoLabelPastTail /\ LabelsAtTail /\ LabelsAtBranch /\ BranchesOrdered
    /\ FixupsInBuffer /\ BranchFixup /\ NoAliasCycle
    /\ IslandPhases /\ HeapBeforeBranches /\ UnusedUnbound /\ DeferredUnbound

(* What a finished buffer needs besides. *)

\* Branches and aliases lead to labels that were handed out.
TargetsAllocated ==
    /\ \A i \in DOMAIN latest_branches : latest_branches[i].target \in allocated
    /\ \A l \in Label : label_aliases[l] # UNKNOWN_LABEL => label_aliases[l] \in allocated

\* A constant whose label is still to come is on the list for the next island.
ConstantsPending ==
    \A c \in Const : upcoming_label[c] # UNKNOWN_LABEL =>
        \E i \in DOMAIN pending_constants : pending_constants[i] = c

\* From finish() on no label is left to the client, and the buffer is done only
\* when nothing waits for an island.
FinishPhases ==
    /\ finishing => /\ pc \notin {"idle", "optimize_branches"}
                    /\ \A l \in allocated : ~bindable(l)
    /\ pc \in {"finish", "done"} => finishing
    /\ pc = "done" => nothing_left

FInv == IInv /\ TargetsAllocated /\ ConstantsPending /\ FinishPhases

label_step ==
    \A l \in Label :
        /\ label_aliases[l] # UNKNOWN_LABEL => label_aliases'[l] = label_aliases[l]
        /\ label_offsets[l] # UNKNOWN_LABEL_OFFSET /\ label_offsets'[l] # label_offsets[l]
             => label_offsets[l] = off /\ label_offsets'[l] = off' /\ off' < off

\* A label that was redirected stays redirected, and a bound label moves only
\* backwards, to a tail that was truncated.
LabelsNeverAdvance == [][label_step]_vars

\* A finished buffer has a place for every label that was ever handed out: no
\* deferred trap or constant was forgotten by the islands of finish().
AllLabelsResolved ==
    pc = "done" => \A l \in allocated : resolve_label_offset[l] \in 0 .. off

\* Every call returns: each turn of optimize_branches makes progress, islands
\* end, and finish ends with every fixup patched and every deferred item
\* emitted, or with a panic; it does not loop over islands for ever.
CallsReturn == []<>(pc \in {"idle", "done", "panic"})

=============================================================================
