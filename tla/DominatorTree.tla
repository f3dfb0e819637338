--------------------------- MODULE DominatorTree ----------------------------
(***************************************************************************)
(* DominatorTree::compute of codegen/src/dominator_tree.rs: the Semi-NCA   *)
(* algorithm.  A depth-first search numbers the blocks and records a       *)
(* postorder; semidominators are computed backwards with path compression, *)
(* immediate dominators forwards; a preorder of the dominator tree then    *)
(* makes dominance a comparison of numbers.  The same algorithm on the     *)
(* reversed graph computes the PostDominatorTree (post_dominator_tree.rs). *)
(*                                                                         *)
(* One step is one iteration of a loop of the algorithm.                   *)
(***************************************************************************)
EXTENDS FlowGraph

VARIABLES
    direction,  \* "forward" for dominators, "reverse" for post-dominators
    stree,      \* spanning tree in preorder; the virtual root is 0
    postorder,
    nodes,      \* the dominator tree, per block
    worklist,   \* stack of the traversals, top first
    cursor      \* the spanning tree node a loop is at; numbers handed out

domVars == <<direction, stree, postorder, nodes, worklist, cursor>>

NOT_VISITED == 0

blank_node == [idom |-> None, pre_number |-> NOT_VISITED, child |-> None, sibling |-> None,
               dom_pre_number |-> 0, dom_pre_max |-> 0]

(***************************************************************************)
(* ForwardGraph and ReverseGraph, the implementations of DomTreeGraph.     *)
(***************************************************************************)

\* Mutant: exits that cannot be reached from the entry are no roots.
roots_reachable(dir) ==
    IF dir = "forward" THEN <<0>>
    ELSE kept(layout, {b \in Block : cfg.successors[b] = {} /\ cfg.predecessors[b] # {}})

roots(dir) ==
    IF dir = "forward" THEN <<0>> ELSE kept(layout, {b \in Block : cfg.successors[b] = {}})

\* In the order they are taken from the stack.
graph_successors(b) ==
    IF direction = "forward" THEN dests(func, b) ELSE Reverse(pred_iter(b))

graph_predecessors(b) == IF direction = "forward" THEN pred_iter(b) ELSE succ_iter(b)

enter(parent, b) == [event |-> "enter", parent |-> parent, block |-> b]
exit(b) == [event |-> "exit", block |-> b]

\* clear() and the start of compute_spanning_tree.
ComputeBegin ==
    /\ pc = "compute" /\ pc' = "spanning_tree"
    /\ stree' = <<>> /\ postorder' = <<>> /\ cursor' = 0
    /\ nodes' = [b \in Block |-> blank_node]
    /\ \E dir \in {"forward", "reverse"} :
          /\ direction' = dir
          /\ LET rs == Reverse(roots(dir)) IN worklist' = [i \in DOMAIN rs |-> enter(0, rs[i])]
    /\ UNCHANGED flowVars

\* A block is entered once; its successors go on the stack, first one on top.
Enter ==
    LET b == Head(worklist).block
        n == Len(stree) + 1
        unvisited == {s \in Block \ {b} : nodes[s].pre_number = NOT_VISITED}
        next == kept(graph_successors(b), unvisited)
    IN
    /\ pc = "spanning_tree" /\ worklist # <<>> /\ Head(worklist).event = "enter"
    /\ IF nodes[b].pre_number # NOT_VISITED
       THEN worklist' = Tail(worklist) /\ UNCHANGED <<stree, nodes>>
       ELSE /\ stree' = Append(stree, [block |-> b, ancestor |-> Head(worklist).parent,
                  label |-> n, semi |-> n, idom |-> Head(worklist).parent])
            /\ nodes' = [nodes EXCEPT ![b].pre_number = n]
            /\ worklist' = [i \in DOMAIN next |-> enter(n, next[i])]
                           \o <<exit(b)>> \o Tail(worklist)
    /\ UNCHANGED <<flowVars, pc, direction, postorder, cursor>>

Exit ==
    /\ pc = "spanning_tree" /\ worklist # <<>> /\ Head(worklist).event = "exit"
    /\ postorder' = Append(postorder, Head(worklist).block)
    /\ worklist' = Tail(worklist)
    /\ UNCHANGED <<flowVars, pc, direction, stree, nodes, cursor>>

SpanningTreeDone ==
    /\ pc = "spanning_tree" /\ worklist = <<>>
    /\ pc' = "semi" /\ cursor' = Len(stree)
    /\ UNCHANGED <<flowVars, direction, stree, postorder, nodes, worklist>>

\* The semi-dominator path eval follows from v.
eval_path(st, v, last_linked) ==
    LET path[u \in DOMAIN st] ==
            IF st[u].ancestor < last_linked THEN {u} ELSE {u} \cup path[st[u].ancestor]
    IN  path[v]

\* Mutant: the last node of the path does not pass its label on.
eval_without_top(st, v, last_linked) ==
    LET path == eval_path(st, v, last_linked)
    IN  [u \in DOMAIN st |->
            IF u \in path \ {Min(path)}
            THEN [st[u] EXCEPT !.ancestor = st[Min(path)].ancestor,
                               !.label = Min({st[x].label : x \in {y \in path \ {Min(path)} : y <= u}})]
            ELSE st[u]]

\* The spanning tree after eval: along the path every node gets the least
\* label above it and the root as its ancestor.  The value is v's label.
eval(st, v, last_linked) ==
    LET path == eval_path(st, v, last_linked)
    IN  [u \in DOMAIN st |->
            IF u \in path \ {Min(path)}
            THEN [st[u] EXCEPT !.ancestor = st[Min(path)].ancestor,
                               !.label = Min({st[x].label : x \in {y \in path : y <= u}})]
            ELSE st[u]]

\* One predecessor of the node w, unless it is unreachable.
semi_candidate(acc, pred, w) ==
    LET v == nodes[pred].pre_number
        st == eval(acc.stree, v, w + 1)
    IN  IF v = NOT_VISITED THEN acc
        ELSE [stree |-> st, semi |-> Min({acc.semi, st[v].label})]

ComputeSemi ==
    LET w == cursor
        preds == graph_predecessors(stree[w].block)
        after[i \in 0 .. Len(preds)] ==
            IF i = 0 THEN [stree |-> stree, semi |-> stree[w].ancestor]
            ELSE semi_candidate(after[i - 1], preds[i], w)
        found == after[Len(preds)]
    IN
    /\ pc = "semi" /\ w > 0
    /\ stree' = [found.stree EXCEPT ![w].label = found.semi, ![w].semi = found.semi]
    /\ cursor' = w - 1
    /\ UNCHANGED <<flowVars, pc, direction, postorder, nodes, worklist>>

SemiDone ==
    /\ pc = "semi" /\ cursor = 0
    /\ pc' = "idom" /\ cursor' = 1
    /\ UNCHANGED <<flowVars, direction, stree, postorder, nodes, worklist>>

ComputeIdom ==
    LET v == cursor
        up[i \in 0 .. Len(stree)] == IF i <= stree[v].semi THEN i ELSE up[stree[i].idom]
        idom == up[stree[v].idom]
    IN
    /\ pc = "idom" /\ v <= Len(stree)
    /\ stree' = [stree EXCEPT ![v].idom = idom]
    /\ nodes' = [nodes EXCEPT ![stree[v].block].idom =
                    IF idom = 0 THEN None ELSE stree[idom].block]
    /\ cursor' = v + 1
    /\ UNCHANGED <<flowVars, pc, direction, postorder, worklist>>

cfg_rpo == Reverse(postorder)

\* compute_domtree_preorder: child and sibling links, in reverse postorder.
link(ns, b) ==
    IF ns[b].idom = None THEN ns
    ELSE [ns EXCEPT ![ns[b].idom].child = b, ![b].sibling = ns[ns[b].idom].child]

ComputeLinks ==
    LET tops == kept(cfg_rpo, {b \in Block : nodes[b].idom = None})
        after[i \in 0 .. Len(postorder)] ==
            IF i = 0 THEN nodes ELSE link(after[i - 1], postorder[i])
        linked == after[Len(postorder)]
    IN
    /\ pc = "idom" /\ cursor > Len(stree)
    /\ nodes' = [b \in Block |-> [nodes[b] EXCEPT !.child = linked[b].child,
                                                !.sibling = linked[b].sibling]]
    /\ worklist' = [i \in DOMAIN tops |-> enter(0, tops[i])]
    /\ pc' = "preorder" /\ cursor' = 0
    /\ UNCHANGED <<flowVars, direction, stree, postorder>>

\* The stack a preorder number is taken from: the child is on top.
pushed(b) == IF b = None THEN <<>> ELSE <<enter(0, b)>>

AssignPreorder ==
    LET b == Head(worklist).block IN
    /\ pc = "preorder" /\ worklist # <<>>
    /\ cursor' = cursor + 1
    /\ nodes' = [nodes EXCEPT ![b].dom_pre_number = cursor + 1, ![b].dom_pre_max = cursor + 1]
    /\ worklist' = pushed(nodes[b].child) \o pushed(nodes[b].sibling) \o Tail(worklist)
    /\ UNCHANGED <<flowVars, pc, direction, stree, postorder>>

propagate_max(maxima, b) ==
    IF nodes[b].idom = None THEN maxima
    ELSE [maxima EXCEPT ![nodes[b].idom] = Max({@, maxima[b]})]

PropagateMax ==
    LET after[i \in 0 .. Len(postorder)] ==
            IF i = 0 THEN [b \in Block |-> nodes[b].dom_pre_max]
            ELSE propagate_max(after[i - 1], postorder[i])
        maxima == after[Len(postorder)]
    IN
    /\ pc = "preorder" /\ worklist = <<>>
    /\ nodes' = [b \in Block |-> [nodes[b] EXCEPT !.dom_pre_max = maxima[b]]]
    /\ pc' = IF direction = "forward" THEN "loops" ELSE "post_dominators"
    /\ UNCHANGED <<flowVars, direction, stree, postorder, worklist, cursor>>

block_dominates(a, b) ==
    /\ nodes[a].dom_pre_number <= nodes[b].dom_pre_number
    /\ nodes[a].dom_pre_max >= nodes[b].dom_pre_max

is_reachable(b) == nodes[b].pre_number # NOT_VISITED

\* Mutant: the block that is removed keeps its edges.
removed_without_recompute(b) ==
    func' = [func EXCEPT !.term[b] = outside_layout] /\ UNCHANGED cfg

\* A block loses its instructions, then its edges, and leaves the layout.
removed(b) ==
    /\ func' = [func EXCEPT !.term[b] = outside_layout]
    /\ cfg' = recompute_block(cfg, func', b)

\* eliminate_unreachable_code: the next block the dominator tree did not reach;
\* the tree is not computed again.
EliminateUnreachable ==
    LET gone == {b \in Block : ~is_reachable(b) /\ func.term[b].op # "removed"} IN
    /\ pc \in {"loops", "unreachable"}
    /\ \E b \in gone :
          /\ \A c \in gone : b <= c
          /\ removed(b)
          /\ pc' = IF gone = {b} THEN "loops" ELSE "unreachable"
    /\ UNCHANGED <<domVars, computed>>

DomInit ==
    /\ FlowInit /\ direction = "forward"
    /\ stree = <<>> /\ postorder = <<>> /\ worklist = <<>> /\ cursor = 0
    /\ nodes = [b \in Block |-> blank_node]

DomNext ==
    \/ ComputeGraph /\ UNCHANGED domVars
    \/ ComputeBegin \/ Enter \/ Exit \/ SpanningTreeDone \/ ComputeSemi \/ SemiDone
    \/ ComputeIdom \/ ComputeLinks \/ AssignPreorder \/ PropagateMax
    \/ EliminateUnreachable

(***************************************************************************)
(* Properties.                                                             *)
(***************************************************************************)

\* a dominates b: every path from the entry to b goes through a.
dominates(a, b) == b \in reached({}) /\ b \notin reached({a})

\* The tree agrees with the definition of dominance, also for graphs that are
\* not reducible, with unreachable predecessors, and after the function was
\* edited: block_dominates for reachable blocks, idom as the closest strict
\* dominator, and no relation between a reachable and an unreachable block.
DominatorsExact ==
    pc = "done" =>
        /\ \A a, b \in Block :
              a \in reached({}) \/ b \in reached({}) => (block_dominates(a, b) <=> dominates(a, b))
        /\ \A b \in Block :
              LET strict == {a \in Block \ {b} : dominates(a, b)}
              IN  IF strict = {} THEN nodes[b].idom = None
                  ELSE nodes[b].idom \in strict /\ \A a \in strict : dominates(a, nodes[b].idom)

\* The blocks from which an exit is reached without entering those in `avoid'.
exits(avoid) ==
    LET r[k \in 0 .. NumBlocks] ==
            IF k = 0 THEN {b \in Block \ avoid : dests(func, b) = <<>>}
            ELSE LET q == r[k - 1]
                 IN  q \cup {b \in Block \ avoid : ToSet(dests(func, b)) \cap q # {}}
    IN  r[NumBlocks]

\* "every path from b to a function exit must go through a", for every b that
\* does not diverge; diverges is true of exactly the others.
PostDominatorsExact ==
    pc = "post_dominators" => \A b \in Block :
        /\ is_reachable(b) <=> b \in exits({})
        /\ b \in exits({}) =>
              LET strict == {a \in Block \ {b} : b \notin exits({a})}
              IN  /\ \A a \in Block : block_dominates(a, b) <=> a \in strict \cup {b}
                  /\ IF strict = {} THEN nodes[b].idom = None
                     ELSE /\ nodes[b].idom \in strict
                          /\ \A a \in strict \ {nodes[b].idom} : nodes[b].idom \notin exits({a})
=============================================================================
