----------------------------- MODULE BlockOrder -----------------------------
(***************************************************************************)
(* BlockLoweringOrder::new of codegen/src/machinst/blockorder.rs: the      *)
(* reverse postorder of the blocks with a block of its own for every       *)
(* critical edge.  With it the pipeline graph, dominators, loops, order is *)
(* complete, and starts again when a pass has edited the function.         *)
(***************************************************************************)
EXTENDS LoopAnalysis

VARIABLES
    lowered_order,   \* original blocks and edges
    visited,         \* blocks of the reverse postorder already appended
    lowered_succs,   \* indices of the successors of each lowered block
    indirect_branch_targets

orderVars == <<lowered_order, visited, lowered_succs, indirect_branch_targets>>
vars == <<flowVars, pc, domVars, loopVars, orderVars>>

orig(b) == [pred |-> None, block |-> b, succ_idx |-> 0]
critical_edge(pred, succ, i) == [pred |-> pred, block |-> succ, succ_idx |-> i]

edges == UNION {{<<p, i>> : i \in DOMAIN dests(func, p)} : p \in Block}
block_in_count(b) == Cardinality({e \in edges : dests(func, e[1])[e[2]] = b})

\* A br_table counts as a conditional branch however short its table is.
block_out_count(b) ==
    IF func.term[b].op = "br_table" THEN Max({2, Len(dests(func, b))}) ELSE Len(dests(func, b))

\* Mutant: a br_table with only a default is an unconditional branch.
is_critical_by_length(b, i) ==
    Len(dests(func, b)) > 1 /\ block_in_count(dests(func, b)[i]) > 1

is_critical(b, i) == block_out_count(b) > 1 /\ block_in_count(dests(func, b)[i]) > 1

\* block_succs, once critical edges are known.
block_succs(b) ==
    [i \in DOMAIN dests(func, b) |->
        IF is_critical(b, i) THEN critical_edge(b, dests(func, b)[i], i) ELSE orig(dests(func, b)[i])]

OrderBegin ==
    /\ pc = "order" /\ pc' = "lowering"
    /\ lowered_order' = <<>> /\ visited' = 0 /\ lowered_succs' = <<>>
    /\ indirect_branch_targets' = {}
    /\ UNCHANGED <<flowVars, domVars, loopVars>>

\* The next block of the reverse postorder and the critical edges that leave
\* it, in an order the control plane chooses.
OrderBlock ==
    /\ pc = "lowering" /\ visited < Len(postorder)
    /\ LET b == cfg_rpo[visited + 1]
           split == {i \in DOMAIN dests(func, b) : is_critical(b, i)}
       IN  \E order \in SetToSeqs(split) :
              lowered_order' = lowered_order \o <<orig(b)>>
                               \o [k \in DOMAIN order |-> block_succs(b)[order[k]]]
    /\ visited' = visited + 1
    /\ UNCHANGED <<flowVars, pc, domVars, loopVars, lowered_succs, indirect_branch_targets>>

lb_to_bindex(lb) == CHOOSE k \in DOMAIN lowered_order : lowered_order[k] = lb

\* The successor tables.  An edge leads to its block and inherits from it that
\* it is the target of an indirect branch.
OrderSuccessors ==
    LET succs(lb) == IF lb.pred = None THEN block_succs(lb.block) ELSE <<orig(lb.block)>>
    IN
    /\ pc = "lowering" /\ visited = Len(postorder)
    /\ lowered_succs' = [k \in DOMAIN lowered_order |->
          LET s == succs(lowered_order[k]) IN [i \in DOMAIN s |-> lb_to_bindex(s[i])]]
    /\ indirect_branch_targets' = {k \in DOMAIN lowered_order :
          \E e \in edges : from_table(func, e[1], e[2])
                           /\ dests(func, e[1])[e[2]] = lowered_order[k].block}
    /\ pc' = "done"
    /\ UNCHANGED <<flowVars, domVars, loopVars, lowered_order, visited>>

OrderInit ==
    lowered_order = <<>> /\ visited = 0 /\ lowered_succs = <<>> /\ indirect_branch_targets = {}

Init == DomInit /\ LoopInit /\ OrderInit

Next ==
    \/ DomNext /\ UNCHANGED <<loopVars, orderVars>>
    \/ LoopNext /\ UNCHANGED orderVars
    \/ OrderBegin \/ OrderBlock \/ OrderSuccessors
    \/ \E b \in Block, t \in Edits :
          ReplaceTerminator(b, t) /\ UNCHANGED <<domVars, loopVars, orderVars>>
    \/ pc \in {"done", "post_dominators"} /\ UNCHANGED vars

Spec == Init /\ [][Next]_vars

(***************************************************************************)
(* Properties.                                                             *)
(***************************************************************************)

\* In the order the code is lowered in, every reachable block appears once,
\* after its dominators, so that values are seen before their uses; following
\* a successor, through an edge block if there is one, leads to the block the
\* branch names; and no edge is left on which moves have no place: if a block
\* may leave to several others, or by a table, each of them has it as its only
\* predecessor.  Every target of a table is known as one.
LoweredOrderSound ==
    pc = "done" =>
        LET leads_to(k, i) ==
                LET j == lowered_succs[k][i]
                IN  IF lowered_order[j].pred = None THEN j ELSE lowered_succs[j][1]
            entries(j) == UNION {{<<k, i>> : i \in {x \in DOMAIN lowered_succs[k] :
                              lowered_succs[k][x] = j}} : k \in DOMAIN lowered_succs}
            index(b) == lb_to_bindex(orig(b))
        IN
        /\ {lb.block : lb \in {x \in ToSet(lowered_order) : x.pred = None}} = reached({})
        /\ Cardinality(ToSet(lowered_order)) = Len(lowered_order)
        /\ \A a, b \in reached({}) : a # b /\ dominates(a, b) => index(a) < index(b)
        /\ \A k \in DOMAIN lowered_order : lowered_order[k].pred # None =>
              index(lowered_order[k].pred) < k
        /\ \A b \in reached({}) : \A i \in DOMAIN dests(func, b) :
              /\ lowered_order[leads_to(index(b), i)] = orig(dests(func, b)[i])
              /\ Len(dests(func, b)) > 1 \/ func.term[b].op = "br_table" =>
                    Cardinality(entries(lowered_succs[index(b)][i])) = 1
              /\ from_table(func, b, i) => lowered_succs[index(b)][i] \in indirect_branch_targets
=============================================================================
