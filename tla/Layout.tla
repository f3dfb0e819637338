------------------------------- MODULE Layout -------------------------------
(***************************************************************************)
(* The Layout of cranelift/codegen/src/ir/layout.rs: doubly linked lists   *)
(* of blocks and of the instructions in each block, and sequence numbers   *)
(* that answer pp_cmp without walking a list.                              *)
(*                                                                         *)
(* The fields of the nodes are functions on blocks and instructions.  The  *)
(* loops of renumber_insts, full_block_renumber, split_block and           *)
(* remove_block_and_insts run one iteration per step, while `pc' names the *)
(* loop.  The debug_assert!s are guards of the client's calls.             *)
(***************************************************************************)
EXTENDS Integers, FiniteSets, Sequences

CONSTANTS
    Block, Inst, None,
    MAJOR_STRIDE, MINOR_STRIDE, LOCAL_LIMIT,
    MaxSeq       \* bound: the largest number a client's call starts from

ASSUME LayoutAssumption ==
    /\ None \notin Block /\ None \notin Inst
    /\ MAJOR_STRIDE \in Nat \ {0} /\ MINOR_STRIDE \in Nat \ {0}
    /\ LOCAL_LIMIT \in Nat /\ MaxSeq \in Nat

VARIABLES
    first_block, last_block,
    block_prev, block_next,    \* BlockNode
    first_inst, last_inst,
    cold,                      \* the blocks whose node is cold
    inst_block,                \* InstNode
    inst_prev, inst_next,
    inst_seq,
    pc,                        \* which loop is running
    cur,                       \* the instruction the loop is at
    arg,                       \* the block the loop is about
    seq, limit                 \* the locals of renumber_insts

blockVars == <<first_block, last_block, block_prev, block_next>>
instVars == <<first_inst, last_inst, inst_prev, inst_next>>
loopVars == <<pc, cur, arg, seq, limit>>
vars == <<blockVars, instVars, cold, inst_block, inst_seq, loopVars>>

Init ==
    /\ first_block = None /\ last_block = None
    /\ block_prev = [b \in Block |-> None] /\ block_next = [b \in Block |-> None]
    /\ first_inst = [b \in Block |-> None] /\ last_inst = [b \in Block |-> None]
    /\ cold = {}
    /\ inst_block = [i \in Inst |-> None]
    /\ inst_prev = [i \in Inst |-> None] /\ inst_next = [i \in Inst |-> None]
    /\ inst_seq = [i \in Inst |-> 0]
    /\ pc = "idle" /\ cur = None /\ arg = None /\ seq = 0 /\ limit = 0

\* A link of a node that may be absent.
relinked(f, n, v) == IF n = None THEN f ELSE [f EXCEPT ![n] = v]

returns == pc' = "idle" /\ cur' = None /\ arg' = None /\ seq' = 0 /\ limit' = 0
stays_idle == pc = "idle" /\ UNCHANGED loopVars

(***************************************************************************)
(* Blocks.                                                                 *)
(***************************************************************************)

\* Mutant: forgets the first block.
is_block_linked(b) == block_prev[b] # None

is_block_inserted(b) == b = first_block \/ block_prev[b] # None

append_block(b) ==
    /\ stays_idle /\ ~is_block_inserted(b)
    /\ first_inst[b] = None /\ last_inst[b] = None
    /\ block_prev' = [block_prev EXCEPT ![b] = last_block]
    /\ block_next' = relinked([block_next EXCEPT ![b] = None], last_block, b)
    /\ first_block' = IF last_block = None THEN b ELSE first_block
    /\ last_block' = b
    /\ UNCHANGED <<instVars, cold, inst_block, inst_seq>>

insert_block(b, before) ==
    LET after == block_prev[before] IN
    /\ stays_idle /\ ~is_block_inserted(b) /\ is_block_inserted(before)
    /\ block_next' = relinked([block_next EXCEPT ![b] = before], after, b)
    /\ block_prev' = [block_prev EXCEPT ![b] = after, ![before] = b]
    /\ first_block' = IF after = None THEN b ELSE first_block
    /\ UNCHANGED <<last_block, instVars, cold, inst_block, inst_seq>>

\* Mutant: last_block stays.
insert_block_after_last(b, after) ==
    LET before == block_next[after] IN
    /\ stays_idle /\ ~is_block_inserted(b) /\ is_block_inserted(after)
    /\ block_next' = [block_next EXCEPT ![b] = before, ![after] = b]
    /\ block_prev' = relinked([block_prev EXCEPT ![b] = after], before, b)
    /\ UNCHANGED <<first_block, last_block, instVars, cold, inst_block, inst_seq>>

insert_block_after(b, after) ==
    LET before == block_next[after] IN
    /\ stays_idle /\ ~is_block_inserted(b) /\ is_block_inserted(after)
    /\ block_next' = [block_next EXCEPT ![b] = before, ![after] = b]
    /\ block_prev' = relinked([block_prev EXCEPT ![b] = after], before, b)
    /\ last_block' = IF before = None THEN b ELSE last_block
    /\ UNCHANGED <<first_block, instVars, cold, inst_block, inst_seq>>

\* What remove_block does to the links.
unlink_block(b) ==
    LET prev == block_prev[b]
        next == block_next[b]
    IN  /\ is_block_inserted(b) /\ first_inst[b] = None
        /\ block_prev' = relinked([block_prev EXCEPT ![b] = None], next, prev)
        /\ block_next' = relinked([block_next EXCEPT ![b] = None], prev, next)
        /\ first_block' = IF prev = None THEN next ELSE first_block
        /\ last_block' = IF next = None THEN prev ELSE last_block
        /\ UNCHANGED <<instVars, cold, inst_block, inst_seq>>

remove_block(b) == stays_idle /\ unlink_block(b)

set_cold(b) ==
    /\ stays_idle
    /\ cold' = cold \cup {b}
    /\ UNCHANGED <<blockVars, instVars, inst_block, inst_seq>>

\* Clearing a SecondaryMap resets every node to its default.
clear ==
    /\ stays_idle
    /\ first_block' = None /\ last_block' = None
    /\ block_prev' = [b \in Block |-> None] /\ block_next' = [b \in Block |-> None]
    /\ first_inst' = [b \in Block |-> None] /\ last_inst' = [b \in Block |-> None]
    /\ cold' = {}
    /\ inst_block' = [i \in Inst |-> None]
    /\ inst_prev' = [i \in Inst |-> None] /\ inst_next' = [i \in Inst |-> None]
    /\ inst_seq' = [i \in Inst |-> 0]

(***************************************************************************)
(* Sequence numbers.                                                       *)
(***************************************************************************)

\* Mutant: rounds up.
midpoint_rounded_up(a, b) == a + (b - a + 1) \div 2

midpoint(a, b) == a + (b - a) \div 2

seq_of(i) == IF i = None THEN 0 ELSE inst_seq[i]

\* assign_inst_seq for i, which was put behind prev, at the end of its block,
assign_last_seq(i, prev) ==
    /\ inst_seq' = [inst_seq EXCEPT ![i] = seq_of(prev) + MAJOR_STRIDE]
    /\ UNCHANGED loopVars

\* or between prev and next.
assign_inner_seq(i, prev, next) ==
    LET prev_seq == seq_of(prev)
        mid == midpoint(prev_seq, inst_seq[next])
    IN  \/ /\ mid > prev_seq
           /\ inst_seq' = [inst_seq EXCEPT ![i] = mid]
           /\ UNCHANGED loopVars
        \/ /\ mid <= prev_seq
           /\ pc' = "renumber" /\ cur' = i
           /\ seq' = prev_seq + MINOR_STRIDE /\ limit' = prev_seq + LOCAL_LIMIT
           /\ UNCHANGED <<inst_seq, arg>>

\* Mutant: equal numbers count as caught up.
caught_up_or_equal(next) == next # None => seq <= inst_seq[next]

caught_up(next) == next # None => seq < inst_seq[next]

\* One turn of renumber_insts: number `cur', and stop when the numbers caught
\* up, give up when the limit is passed, or go on.
renumber(next) ==
    \/ /\ caught_up(next) /\ returns
    \/ /\ ~caught_up(next) /\ seq > limit
       /\ pc' = "full" /\ arg' = inst_block[next]
       /\ cur' = first_inst[inst_block[next]] /\ seq' = MAJOR_STRIDE
       /\ UNCHANGED limit
    \/ /\ ~caught_up(next) /\ seq <= limit
       /\ cur' = next /\ seq' = seq + MINOR_STRIDE
       /\ UNCHANGED <<pc, arg, limit>>

renumber_insts ==
    /\ pc = "renumber"
    /\ inst_seq' = [inst_seq EXCEPT ![cur] = seq]
    /\ renumber(inst_next[cur])
    /\ UNCHANGED <<blockVars, instVars, cold, inst_block>>

full_block_renumber ==
    /\ pc = "full"
    /\ \/ /\ cur # None
          /\ inst_seq' = [inst_seq EXCEPT ![cur] = seq]
          /\ cur' = inst_next[cur] /\ seq' = seq + MAJOR_STRIDE
          /\ UNCHANGED <<pc, arg, limit>>
       \/ cur = None /\ returns /\ UNCHANGED inst_seq
    /\ UNCHANGED <<blockVars, instVars, cold, inst_block>>

(***************************************************************************)
(* Instructions.                                                           *)
(***************************************************************************)

append_inst(i, b) ==
    LET last == last_inst[b] IN
    /\ pc = "idle" /\ inst_block[i] = None /\ is_block_inserted(b)
    /\ seq_of(last) <= MaxSeq
    /\ inst_block' = [inst_block EXCEPT ![i] = b]
    /\ inst_prev' = [inst_prev EXCEPT ![i] = last]
    /\ inst_next' = IF first_inst[b] = None THEN inst_next ELSE relinked(inst_next, last, i)
    /\ first_inst' = IF first_inst[b] = None THEN [first_inst EXCEPT ![b] = i] ELSE first_inst
    /\ last_inst' = [last_inst EXCEPT ![b] = i]
    /\ assign_last_seq(i, last)
    /\ UNCHANGED <<blockVars, cold>>

insert_inst(i, before) ==
    LET b == inst_block[before]
        after == inst_prev[before]
    IN  /\ pc = "idle" /\ inst_block[i] = None /\ b # None
        /\ inst_seq[before] <= MaxSeq
        /\ inst_block' = [inst_block EXCEPT ![i] = b]
        /\ inst_next' = relinked([inst_next EXCEPT ![i] = before], after, i)
        /\ inst_prev' = [inst_prev EXCEPT ![i] = after, ![before] = i]
        /\ first_inst' = IF after = None THEN [first_inst EXCEPT ![b] = i] ELSE first_inst
        /\ assign_inner_seq(i, after, before)
        /\ UNCHANGED <<blockVars, last_inst, cold>>

\* What remove_inst does to the links.
unlink_inst(i) ==
    LET b == inst_block[i]
        prev == inst_prev[i]
        next == inst_next[i]
    IN  /\ b # None
        /\ inst_block' = [inst_block EXCEPT ![i] = None]
        /\ inst_prev' = relinked([inst_prev EXCEPT ![i] = None], next, prev)
        /\ inst_next' = relinked([inst_next EXCEPT ![i] = None], prev, next)
        /\ first_inst' = IF prev = None THEN [first_inst EXCEPT ![b] = next] ELSE first_inst
        /\ last_inst' = IF next = None THEN [last_inst EXCEPT ![b] = prev] ELSE last_inst
        /\ UNCHANGED <<blockVars, cold, inst_seq>>

remove_inst(i) == stays_idle /\ unlink_inst(i)

\* split_block, up to the loop that tells the moved instructions their block.
split_block(new, before) ==
    LET old == inst_block[before]
        next == block_next[old]
        prev_inst == inst_prev[before]
    IN  /\ pc = "idle" /\ old # None /\ ~is_block_inserted(new)
        /\ block_prev' = IF old = last_block THEN [block_prev EXCEPT ![new] = old]
                         ELSE [block_prev EXCEPT ![new] = old, ![next] = new]
        /\ block_next' = [block_next EXCEPT ![new] = next, ![old] = new]
        /\ last_block' = IF old = last_block THEN new ELSE last_block
        /\ first_inst' = IF prev_inst = None
                         THEN [first_inst EXCEPT ![new] = before, ![old] = None]
                         ELSE [first_inst EXCEPT ![new] = before]
        /\ last_inst' = [last_inst EXCEPT ![new] = last_inst[old], ![old] = prev_inst]
        /\ inst_prev' = [inst_prev EXCEPT ![before] = None]
        /\ inst_next' = relinked(inst_next, prev_inst, None)
        /\ pc' = "split" /\ cur' = before /\ arg' = new
        /\ UNCHANGED <<first_block, cold, inst_block, inst_seq, seq, limit>>

move_insts ==
    /\ pc = "split"
    /\ \/ /\ cur # None
          /\ inst_block' = [inst_block EXCEPT ![cur] = arg]
          /\ cur' = inst_next[cur]
          /\ UNCHANGED <<pc, arg, seq, limit>>
       \/ cur = None /\ returns /\ UNCHANGED inst_block
    /\ UNCHANGED <<blockVars, instVars, cold, inst_seq>>

remove_block_and_insts(b) ==
    /\ pc = "idle" /\ is_block_inserted(b)
    /\ pc' = "remove" /\ arg' = b
    /\ UNCHANGED <<blockVars, instVars, cold, inst_block, inst_seq, cur, seq, limit>>

remove_insts ==
    /\ pc = "remove"
    /\ \/ first_inst[arg] # None /\ unlink_inst(first_inst[arg]) /\ UNCHANGED loopVars
       \/ first_inst[arg] = None /\ unlink_block(arg) /\ returns

(***************************************************************************)
(* A client that calls the methods in any order.                           *)
(***************************************************************************)

Loop == renumber_insts \/ full_block_renumber \/ move_insts \/ remove_insts

Next ==
    \/ \E b \in Block : append_block(b) \/ remove_block(b) \/ remove_block_and_insts(b) \/ set_cold(b)
    \/ \E b, at \in Block : insert_block(b, at) \/ insert_block_after(b, at)
    \/ \E i \in Inst, b \in Block : append_inst(i, b) \/ split_block(b, i)
    \/ \E i, before \in Inst : insert_inst(i, before)
    \/ \E i \in Inst : remove_inst(i)
    \/ clear
    \/ Loop

Spec == Init /\ [][Next]_vars

(***************************************************************************)
(* Properties.                                                             *)
(***************************************************************************)

OrNone(S) == S \cup {None}

\* Every variable keeps its type.
TypeOK ==
    /\ {first_block, last_block, arg} \subseteq OrNone(Block)
    /\ block_prev \in [Block -> OrNone(Block)] /\ block_next \in [Block -> OrNone(Block)]
    /\ first_inst \in [Block -> OrNone(Inst)] /\ last_inst \in [Block -> OrNone(Inst)]
    /\ cold \subseteq Block
    /\ inst_block \in [Inst -> OrNone(Block)]
    /\ inst_prev \in [Inst -> OrNone(Inst)] /\ inst_next \in [Inst -> OrNone(Inst)]
    /\ inst_seq \in [Inst -> Nat]
    /\ pc \in {"idle", "renumber", "full", "split", "remove"}
    /\ cur \in OrNone(Inst) /\ seq \in Nat /\ limit \in Nat

\* The links of the blocks are those of one list: prev and next are inverse,
\* its ends are first_block and last_block, and a block outside of it, which
\* is_block_inserted tells by its prev alone, has neither links nor instructions.
BlockLinks ==
    /\ first_block = None <=> last_block = None
    /\ first_block # None => block_prev[first_block] = None
    /\ last_block # None => is_block_inserted(last_block) /\ block_next[last_block] = None
    /\ \A b, c \in Block : block_next[b] = c <=> block_prev[c] = b
    /\ \A b \in Block : is_block_inserted(b) /\ block_next[b] = None => b = last_block
    /\ \A b \in Block : ~is_block_inserted(b) =>
          block_next[b] = None /\ first_inst[b] = None /\ last_inst[b] = None

\* So are the links of the instructions, for every block.
InstLinks ==
    /\ \A b \in Block : first_inst[b] = None <=> last_inst[b] = None
    /\ \A b \in Block : first_inst[b] # None =>
          inst_prev[first_inst[b]] = None /\ inst_next[last_inst[b]] = None
    /\ \A b, c \in Block : first_inst[b] = first_inst[c] /\ b # c => first_inst[b] = None
    /\ \A b, c \in Block : last_inst[b] = last_inst[c] /\ b # c => last_inst[b] = None
    /\ \A i, j \in Inst : inst_next[i] = j <=> inst_prev[j] = i
    /\ \A i \in Inst : inst_block[i] = None => inst_prev[i] = None /\ inst_next[i] = None

\* No list of instructions runs in a circle.
Acyclic == \A S \in SUBSET Inst : S # {} => \E i \in S : inst_prev[i] \notin S

splitting == pc = "split" /\ cur # None

\* Instructions know their block, except for those split_block has not come
\* to yet, which start at `cur'.
InstBlocks ==
    /\ \A i, j \in Inst : inst_next[i] = j /\ ~(splitting /\ j = cur)
          => inst_block[i] = inst_block[j]
    /\ \A i \in Inst : inst_block[i] # None /\ inst_prev[i] = None /\ ~(splitting /\ i = cur)
          => first_inst[inst_block[i]] = i
    /\ \A b \in Block : first_inst[b] # None /\ ~(splitting /\ first_inst[b] = cur)
          => inst_block[first_inst[b]] = b
    /\ \A i \in Inst : /\ inst_block[i] # None /\ inst_next[i] = None
                       /\ ~(splitting /\ i = last_inst[arg])
          => last_inst[inst_block[i]] = i
    /\ \A b \in Block : last_inst[b] # None /\ ~(splitting /\ b = arg)
          => inst_block[last_inst[b]] = b

\* While split_block moves instructions: where it is in the list of the new block.
SplitPoint ==
    splitting =>
        /\ arg \in Block /\ first_inst[arg] # None
        /\ inst_block[cur] \notin {arg, None}
        /\ inst_block[last_inst[arg]] = inst_block[cur]
        /\ inst_prev[cur] = None => first_inst[arg] = cur
        /\ inst_prev[cur] # None => inst_block[inst_prev[cur]] = arg
        /\ last_inst[inst_block[cur]] # None =>
              inst_seq[last_inst[inst_block[cur]]] < inst_seq[cur]

in_order(i) == inst_seq[i] > 0 /\ (inst_next[i] # None => inst_seq[i] < inst_seq[inst_next[i]])

\* The instructions of block `arg' full_block_renumber has numbered are D.
numbered(D) ==
    /\ \A i \in D : /\ inst_block[i] = arg /\ 0 < inst_seq[i] /\ inst_seq[i] < seq
                    /\ inst_prev[i] \in OrNone(D)
                    /\ inst_next[i] # cur => inst_next[i] \in D /\ in_order(i)
    /\ cur # first_inst[arg] => first_inst[arg] \in D
    /\ cur # None => /\ cur \notin D /\ inst_block[cur] = arg
                     /\ inst_prev[cur] # None => inst_prev[cur] \in D

\* Sequence numbers increase along every list, but for the instruction that is
\* being renumbered and the links that full_block_renumber has not come to yet.
SeqIncreasing ==
    /\ pc \in {"idle", "split", "remove"} =>
          \A i \in Inst : inst_block[i] # None => in_order(i)
    /\ pc = "renumber" =>
          /\ cur # None /\ inst_block[cur] # None /\ seq > 0
          /\ inst_prev[cur] # None => inst_seq[inst_prev[cur]] < seq
          /\ \A i \in Inst \ {cur} : inst_block[i] # None =>
                inst_seq[i] > 0 /\ (inst_next[i] # cur => in_order(i))
    /\ pc = "full" =>
          /\ arg \in Block /\ first_inst[arg] # None /\ seq > 0
          /\ \A i \in Inst : inst_block[i] \notin {None, arg} => in_order(i)
          /\ \E D \in SUBSET Inst : numbered(D)

\* remove_block_and_insts is called for a block in the layout.
RemovedBlock == pc = "remove" => arg \in Block /\ is_block_inserted(arg)

\* The inductive invariant: whatever the calls, and in the middle of the loops
\* too, the lists are well formed and numbered in order.
LInv ==
    /\ TypeOK /\ BlockLinks /\ InstLinks /\ Acyclic /\ InstBlocks
    /\ SplitPoint /\ SeqIncreasing /\ RemovedBlock

=============================================================================
