----------------------------- MODULE FlowGraph ------------------------------
(***************************************************************************)
(* The ControlFlowGraph of codegen/src/flowgraph.rs, computed from the     *)
(* terminators of a function (visit_block_succs), and kept up to date with *)
(* recompute_block when a pass replaces one.                               *)
(*                                                                         *)
(* A terminator is its kind and its destinations in order; the default of  *)
(* a br_table comes first; a block outside the layout has none and counts  *)
(* as "removed".  Instructions are numbered as they are made; the map of   *)
(* the predecessors of a block has them as keys, and is a set of edges     *)
(* that iterators go through in the order of the keys.                     *)
(***************************************************************************)
EXTENDS Integers, Sequences, FiniteSets, FiniteSetsExt, SequencesExt

CONSTANTS
    NumBlocks,   \* block 0 is the entry
    Functions,   \* functions as they come from a frontend
    Edits        \* terminators a pass may put in the place of another

Block == 0 .. (NumBlocks - 1)
Kind == {"return", "jump", "brif", "br_table"}
\* The verifier refuses a branch to the entry block.
Terminator == [op : Kind, dests : Seq(Block \ {0})]
outside_layout == [op |-> "removed", dests |-> <<>>]
None == -1

ASSUME FlowAssumption ==
    /\ NumBlocks \in Nat \ {0}
    /\ \A f \in Functions : f.term \in [Block -> Terminator] /\ f.edits \in Nat
    /\ Edits \subseteq Terminator

VARIABLES
    func,      \* terminator and its number, per block; instructions made
    cfg,       \* the control flow graph
    computed,  \* blocks of the layout ControlFlowGraph::compute has visited
    pc         \* which computation runs

flowVars == <<func, cfg, computed>>

dests(f, b) == f.term[b].dests
layout == [i \in 1 .. NumBlocks |-> i - 1]

\* visit_block_succs: does the destination come from a jump table?
from_table(f, b, i) == f.term[b].op = "br_table" /\ i > 1

empty_cfg == [successors |-> [b \in Block |-> {}], predecessors |-> [b \in Block |-> {}]]

\* compute_block: add_edge for every destination.
compute_block(g, f, b) ==
    LET to == ToSet(dests(f, b))
        edge == [inst |-> f.inst[b], block |-> b]
    IN  [successors |-> [g.successors EXCEPT ![b] = @ \cup to],
         predecessors |-> [d \in Block |->
            IF d \in to THEN g.predecessors[d] \cup {edge} ELSE g.predecessors[d]]]

\* Mutant: only the successors of the new branch forget the old one.
invalidate_successors_only(g, b) == [g EXCEPT !.successors[b] = {}]

invalidate_block_successors(g, b) ==
    [successors |-> [g.successors EXCEPT ![b] = {}],
     predecessors |-> [d \in Block |->
        IF d \in g.successors[b]
        THEN {e \in g.predecessors[d] : e.block # b} ELSE g.predecessors[d]]]

recompute_block(g, f, b) == compute_block(invalidate_block_successors(g, b), f, b)

\* The elements of s that are in T, in their order.
kept(s, T) ==
    LET upto[i \in 0 .. Len(s)] ==
            IF i = 0 THEN <<>>
            ELSE IF s[i] \in T THEN Append(upto[i - 1], s[i]) ELSE upto[i - 1]
    IN  upto[Len(s)]

\* succ_iter is ordered by block number.
succ_iter(b) == kept(layout, cfg.successors[b])
pred_iter(b) ==
    LET nth(i) == CHOOSE e \in cfg.predecessors[b] :
                      Cardinality({d \in cfg.predecessors[b] : d.inst < e.inst}) = i - 1
    IN  [i \in 1 .. Cardinality(cfg.predecessors[b]) |-> nth(i).block]

FlowInit ==
    /\ func \in {[term |-> f.term, inst |-> [b \in Block |-> b], made |-> NumBlocks,
                  edits |-> f.edits] : f \in Functions}
    /\ cfg = empty_cfg /\ computed = 0
    /\ pc = "cfg"

\* ControlFlowGraph::compute, one block of the layout.
ComputeGraph ==
    /\ pc = "cfg"
    /\ cfg' = compute_block(cfg, func, computed)
    /\ computed' = computed + 1
    /\ pc' = IF computed' = NumBlocks THEN "compute" ELSE pc
    /\ UNCHANGED func

\* A pass replaces the terminator of a block, and has the graph follow.
ReplaceTerminator(b, t) ==
    /\ pc = "done" /\ func.edits > 0
    /\ t \in Edits /\ t # func.term[b] /\ func.term[b].op # "removed"
    /\ \A d \in ToSet(t.dests) : func.term[d].op # "removed"
    /\ func' = [term |-> [func.term EXCEPT ![b] = t],
                inst |-> [func.inst EXCEPT ![b] = func.made],
                made |-> func.made + 1, edits |-> func.edits - 1]
    /\ cfg' = recompute_block(cfg, func', b)
    /\ pc' = "compute"
    /\ UNCHANGED computed

(***************************************************************************)
(* Properties.                                                             *)
(***************************************************************************)

\* The blocks a path from the entry reaches without entering those in `avoid'.
reached(avoid) ==
    LET r[k \in 0 .. NumBlocks] ==
            IF k = 0 THEN {0} \ avoid
            ELSE LET q == r[k - 1]
                 IN  q \cup ((UNION {ToSet(dests(func, b)) : b \in q}) \ avoid)
    IN  r[NumBlocks]

\* "The redundant block stored here is always consistent with the CFG successor
\* lists, even after the IR has been edited": once it is computed the graph
\* has the edges of the function, each once, and no edge of a replaced branch.
GraphFollowsEdits ==
    pc # "cfg" => \A b \in Block :
        /\ cfg.successors[b] = ToSet(dests(func, b))
        /\ cfg.predecessors[b] = {[inst |-> func.inst[p], block |-> p] :
                                     p \in {q \in Block : b \in ToSet(dests(func, q))}}

\* ControlFlowGraph::blocks includes blocks that have been removed: "such blocks
\* have no predecessors or successors in the graph".
RemovedIsolated ==
    pc # "unreachable" => \A b \in Block : func.term[b].op = "removed" =>
        cfg.successors[b] = {} /\ cfg.predecessors[b] = {}
=============================================================================
