--------------------------- MODULE MachBufferSem ----------------------------
(***************************************************************************)
(* What the code in a MachBuffer does when it runs, against what the       *)
(* client asked for.                                                       *)
(*                                                                         *)
(* MachBuffer counts bytes.  This module adds their content, one item per  *)
(* instruction, and the displacements patched into them; `program' is the  *)
(* history of the client's calls, read as an assembly listing that nobody  *)
(* optimises.  The comments "Preserves execution semantics" in buffer.rs   *)
(* say that both run alike after every edit; SemanticsPreserved states it  *)
(* for branch editing, label aliases, veneers and patches together.        *)
(***************************************************************************)
EXTENDS MachBuffer

CONSTANTS
    MaxProgram,  \* bound: client calls that add code or bind a label
    MaxInsts,    \* bound: of these, instructions that are not branches
    Known        \* are branches to blocks reported with add_cond_branch?

ASSUME KnownAssumption == Known \subseteq BOOLEAN

VARIABLES
    code,      \* the instructions in data, in order of their offsets
    patched,   \* label-use offset -> the target written by patch()
    program    \* the client's listing

semVars == <<vars, code, patched, program>>

\* An item of code: `use' is the offset of its label use.  op: "inst" (falls
\* through), "ret" (does not), "jump", "cond", "trap".
item(op, id, start, end, use) ==
    [op |-> op, id |-> id, start |-> start, end |-> end, use |-> use, sense |-> TRUE]

id == Len(program) + 1

\* The bound leaves room to bind every label, so that the client can finish.
room == Len(program) + Cardinality({l \in Label : bindable(l)}) < MaxProgram

line(op, l) == program' = Append(program, [op |-> op, label |-> l])
NoTarget == -1
trap_labels == {program[i].label : i \in {j \in DOMAIN program : program[j].op = "trap"}}

SemInit == Init /\ code = <<>> /\ patched = <<>> /\ program = <<>>

(***************************************************************************)
(* Client calls.                                                           *)
(***************************************************************************)

SemPut(op, n) ==
    /\ Cardinality({i \in DOMAIN program : program[i].op \in {"inst", "ret"}}) < MaxInsts
    /\ Put(n) /\ line(op, NoTarget)
    /\ code' = Append(code, item(op, id, off, off', off))
    /\ UNCHANGED patched

\* A conditional branch the buffer may edit (known) or may not, as those that
\* backends emit to reach a deferred trap.
reported(l) == IF l \in trap_labels THEN {FALSE} ELSE Known

SemCond(l, k, n, known) ==
    /\ IF known THEN add_cond_branch(l, k, n) ELSE UseLabel(l, k, n)
    /\ line("cond", l)
    /\ code' = Append(code, item("cond", id, off, off', off))
    /\ UNCHANGED patched

SemJump(l, k, n) ==
    /\ add_uncond_branch(l, k, n) /\ line("jump", l)
    /\ code' = Append(code, item("jump", id, off, off', off))
    /\ UNCHANGED patched

\* Block labels are bound in order, as VCode::emit does.
SemBind(l) ==
    /\ \A m \in 0 .. (l - 1) : ~bindable(m)
    /\ BindLabel(l) /\ line("label", l) /\ UNCHANGED <<code, patched>>

SemTrap == defer_trap /\ line("trap", nlabels) /\ UNCHANGED <<code, patched>>

\* emit_island: "no fallthrough into the island contents from the previous
\* instruction is possible", nor may a label be bound where it starts.
safe_for_island ==
    /\ code # <<>> /\ Last(code).op \in {"jump", "ret"} /\ Last(code).end = off
    /\ labels_bound_at(off) = {}

SemIsland(d, force) ==
    /\ safe_for_island /\ EmitIsland(d, force)
    /\ UNCHANGED <<code, patched, program>>

SemFinish(force) ==
    /\ safe_for_island /\ Finish(force)
    /\ UNCHANGED <<code, patched, program>>

(***************************************************************************)
(* The buffer's own steps.                                                 *)
(***************************************************************************)

\* data.truncate(b.start): the items before the new tail.
remaining == [i \in {j \in DOMAIN code : code[j].start < off'} |-> code[i]]

SemTruncate == OptTruncate /\ code' = remaining /\ UNCHANGED <<patched, program>>

\* data.truncate, then the bytes of the conditional are replaced by `inverted'.
SemInvert ==
    /\ OptInvert
    /\ code' = [remaining EXCEPT ![Len(remaining)].sense = ~@]
    /\ UNCHANGED <<patched, program>>

SemOther ==
    /\ OptRedirect \/ OptDone \/ IslandPendingDone \/ IslandHeapDone \/ IslandDone \/ FinishStep
    /\ UNCHANGED <<code, patched, program>>

\* The bytes handle_fixup writes for f: the displacement to the label, or the
\* one to the veneer and the veneer itself.
handled(f) ==
    LET target == IF veneer_required(f) THEN AlignUp(off, Align)
                  ELSE resolve_label_offset[f.label]
        veneer == item("jump", 0, target, off', target + VeneerFixupDelta[f.kind][target % 4])
    IN  /\ patched' = [o \in DOMAIN patched \cup {f.offset} |->
                          IF o = f.offset THEN target ELSE patched[o]]
        /\ code' = IF veneer_required(f) THEN Append(code, veneer) ELSE code

SemPending ==
    /\ IslandPending
    /\ IF should_apply_fixup(Head(taken)) /\ asserts_hold(Head(taken))
       THEN handled(Head(taken)) ELSE UNCHANGED <<code, patched>>
    /\ UNCHANGED program

SemHeap(f) ==
    /\ IslandHeap(f)
    /\ IF asserts_hold(f) THEN handled(f) ELSE UNCHANGED <<code, patched>>
    /\ UNCHANGED program

SemIslandTrap ==
    /\ IslandTrap
    /\ code' = Append(code, item("trap", Head(pending_traps), AlignUp(off, Align), off', off))
    /\ UNCHANGED <<patched, program>>

SemInternal ==
    \/ SemTruncate \/ SemInvert \/ SemOther \/ SemPending \/ SemIslandTrap
    \/ \E f \in fixup_records : SemHeap(f)

SemNext ==
    \/ /\ room
       /\ \/ \E op \in {"inst", "ret"}, n \in Sizes : SemPut(op, n)
          \/ \E l \in Label, k \in ClientKind, n \in Sizes :
                SemJump(l, k, n) \/ \E known \in reported(l) : SemCond(l, k, n, known)
          \/ SemTrap
    \/ \E l \in Label : SemBind(l)
    \/ \E d \in Distances, force \in Forces : SemIsland(d, force)
    \/ \E force \in Forces : SemFinish(force)
    \/ SemInternal
    \/ pc \in {"done", "panic"} /\ UNCHANGED semVars

SemSpec == SemInit /\ [][SemNext]_semVars /\ WF_semVars(SemInternal)

(***************************************************************************)
(* Running the code.  What a line or an item does is a step: it goes to    *)
(* another one, or ends the run with an instruction or a trap, at an       *)
(* unbound label, or at the tail of what has been emitted.  V fixes the    *)
(* outcome of every conditional branch, by its line in the program.        *)
(***************************************************************************)

step(does, at) == [does |-> does, at |-> at]
goto(i) == step("goto", i)
tail == step("tail", 0)
loop == step("loop", 0)

\* Where step s leads when next[i] is the step of position i: more steps than
\* there are positions can only be taken in a cycle of branches.
ends(next, s) ==
    LET run[n \in 0 .. Len(next)] ==
            [i \in DOMAIN next |->
                IF next[i].does # "goto" THEN next[i]
                ELSE IF n = 0 THEN loop ELSE run[n - 1][next[i].at]]
    IN  IF s.does = "goto" THEN run[Len(next)][s.at] ELSE s

unbound(l) == step(IF l \in trap_labels THEN "trap" ELSE "unbound", l)

line_of(l) == {i \in DOMAIN program : program[i].op = "label" /\ program[i].label = l}
goto_line(i) == IF i > Len(program) THEN tail ELSE goto(i)
goto_label(l) ==
    IF line_of(l) = {} THEN unbound(l) ELSE goto(CHOOSE i \in line_of(l) : TRUE)

\* The listing: what its line p, at position i, does.
line_step(p, i, V) ==
    CASE p.op \in {"inst", "ret"} -> step("inst", i)
      [] p.op = "jump" \/ (p.op = "cond" /\ V[i]) -> goto_label(p.label)
      [] OTHER -> goto_line(i + 1)
listing(V) == [i \in DOMAIN program |-> line_step(program[i], i, V)]

outstanding ==
    fixup_records
    \cup {pending_fixup_records[i] : i \in DOMAIN pending_fixup_records}
    \cup {taken[i] : i \in DOMAIN taken}

\* The label at the end of the aliases of l.
root[l \in Label] == IF label_aliases[l] = UNKNOWN_LABEL THEN l ELSE root[label_aliases[l]]

item_at(o) == {i \in DOMAIN code : code[i].start = o}
goto_offset(o) ==
    IF o = off THEN tail
    ELSE IF item_at(o) = {} THEN step("garbage", 0) ELSE goto(CHOOSE i \in item_at(o) : TRUE)
goto_bound(l) ==
    IF resolve_label_offset[l] = UNKNOWN_LABEL_OFFSET THEN unbound(root[l])
    ELSE goto_offset(resolve_label_offset[l])

\* Where the label use of an item leads: to its label until it is patched.
uses_of(c) == {f \in outstanding : f.offset = c.use}
follow(c) ==
    IF uses_of(c) = {} THEN goto_offset(patched[c.use])
    ELSE goto_bound((CHOOSE f \in uses_of(c) : TRUE).label)

\* The buffer: what its item c does.
item_step(c, V) ==
    CASE c.op \in {"inst", "ret"} -> step("inst", c.id)
      [] c.op = "trap" -> step("trap", c.id)
      [] c.op = "jump" \/ (c.op = "cond" /\ V[c.id] = c.sense) -> follow(c)
      [] OTHER -> goto_offset(c.end)
emitted(V) == [i \in DOMAIN code |-> item_step(code[i], V)]

conds == {i \in DOMAIN program : program[i].op = "cond"}

RunsAlike(s, t, V) == ends(listing(V), s) = ends(emitted(V), t)

\* Running the buffer from the function's entry, and from every instruction
\* in it, reaches the instruction the client's listing reaches, whatever the
\* conditional branches decide: branch removal, inversion, label redirection,
\* veneers and patches never change where control goes, neither between two
\* calls nor between two edits of optimize_branches.
SemanticsPreserved ==
    pc \in {"idle", "optimize_branches", "done"} => \A V \in [conds -> BOOLEAN] :
        /\ RunsAlike(goto_line(1), goto_offset(0), V)
        /\ \A i \in DOMAIN program : program[i].op = "inst" =>
              \E c \in DOMAIN code :
                  code[c].id = i /\ RunsAlike(goto_line(i + 1), goto_offset(code[c].end), V)

=============================================================================
