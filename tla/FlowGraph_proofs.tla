-------------------------- MODULE FlowGraph_proofs --------------------------
(***************************************************************************)
(* Proofs about FlowGraph, the search of DominatorTree and BlockOrder: for *)
(* any function, any number of blocks and any edits, the control flow      *)
(* graph is that of the function, blocks that are removed have no edges,   *)
(* and the order the blocks are lowered in is sound.                       *)
(*                                                                         *)
(* GraphOf(g, f, S) says that g has the edges of the blocks S of f.        *)
(* compute_block adds a block to S, invalidate_block_successors takes it   *)
(* out, and recompute_block, which is both, follows an edit (FlowInv).     *)
(* That no branch names a removed block is a property of the depth-first   *)
(* search (SearchInv): a branch of a visited block leads to a visited one  *)
(* or to one on the stack, so that the visited blocks are closed when the  *)
(* stack is empty; the phases that follow visit nothing, and a block that  *)
(* is removed is named by blocks only that go as well (RemovedInv).        *)
(*                                                                         *)
(* The lowering order needs what the search leaves behind (OrderInv). Its  *)
(* stack and postorder say of every block left or to leave which blocks    *)
(* are reached without it (SearchOf), so that the postorder lists what the *)
(* entry reaches, each block after those it dominates (PostorderOf). The   *)
(* lowering appends the reverse, each block followed by the edge blocks of *)
(* its branches (LoweredOf), and looks its successors up in the whole      *)
(* order (TableOf).                                                        *)
(***************************************************************************)
EXTENDS BlockOrder, TLAPS, SequenceTheorems, FiniteSetTheorems, WellFoundedInduction

USE FlowAssumption

\* The blocks a branch of b leads to.
Targets(f, b) == ToSet(dests(f, b))

\* The edge the graph has for the terminator of p.
EdgeFrom(f, p) == [inst |-> f.inst[p], block |-> p]

\* g is the graph of the terminators of the blocks S of f.
GraphOf(g, f, S) ==
    /\ g = [successors |-> g.successors, predecessors |-> g.predecessors]
    /\ g.successors = [b \in Block |-> IF b \in S THEN Targets(f, b) ELSE {}]
    /\ g.predecessors = [d \in Block |-> {EdgeFrom(f, p) : p \in {q \in S : d \in Targets(f, q)}}]

\* Functions as they are while they are compiled.
FuncOK(f) ==
    /\ f = [term |-> f.term, inst |-> f.inst, made |-> f.made, edits |-> f.edits]
    /\ f.term \in [Block -> Terminator \cup {outside_layout}]
    /\ f.inst \in [Block -> Nat]
    /\ f.made \in Nat /\ f.edits \in Nat

\* Branches lead to blocks other than the entry.
LEMMA TargetsType ==
    ASSUME NEW f, FuncOK(f), NEW b \in Block
    PROVE  /\ dests(f, b) \in Seq(Block \ {0})
           /\ Targets(f, b) = {dests(f, b)[i] : i \in 1 .. Len(dests(f, b))}
           /\ Targets(f, b) \subseteq Block \ {0}
<1>1. dests(f, b) \in Seq(Block \ {0})
  <2>1. f.term[b] \in Terminator \cup {outside_layout}
    BY DEF FuncOK
  <2>2. CASE f.term[b] \in Terminator
    BY <2>2 DEF dests, Terminator
  <2>3. CASE f.term[b] = outside_layout
    <3>1. dests(f, b) = <<>>
      BY <2>3 DEF dests, outside_layout
    <3> QED  BY <3>1
  <2> QED  BY <2>1, <2>2, <2>3
<1>2. Targets(f, b) = {dests(f, b)[i] : i \in 1 .. Len(dests(f, b))}
  BY <1>1 DEF Targets, ToSet
<1> QED  BY <1>1, <1>2

\* compute_block adds the edges of a block the graph does not have.
LEMMA ComputeBlockAdds ==
    ASSUME NEW g, NEW f, FuncOK(f), NEW S \in SUBSET Block, NEW b \in Block \ S, GraphOf(g, f, S)
    PROVE  GraphOf(compute_block(g, f, b), f, S \cup {b})
<1> DEFINE n == compute_block(g, f, b)
           T == S \cup {b}
<1>1. /\ n.successors = [g.successors EXCEPT ![b] = @ \cup Targets(f, b)]
      /\ n.predecessors = [d \in Block |-> IF d \in Targets(f, b)
            THEN g.predecessors[d] \cup {EdgeFrom(f, b)} ELSE g.predecessors[d]]
      /\ n = [successors |-> n.successors, predecessors |-> n.predecessors]
  BY DEF compute_block, Targets, EdgeFrom
<1>2. n.successors = [c \in Block |-> IF c \in T THEN Targets(f, c) ELSE {}]
  <2>1. g.successors = [c \in Block |-> IF c \in S THEN Targets(f, c) ELSE {}]
    BY DEF GraphOf
  <2>2. g.successors[b] \cup Targets(f, b) = Targets(f, b)
    BY <2>1
  <2>3. n.successors = [g.successors EXCEPT ![b] = Targets(f, b)]
    BY <1>1, <2>2
  <2> HIDE DEF n
  <2> QED  BY <2>1, <2>3
<1>3. ASSUME NEW d \in Block
      PROVE  n.predecessors[d] = {EdgeFrom(f, p) : p \in {q \in T : d \in Targets(f, q)}}
  <2>1. g.predecessors[d] = {EdgeFrom(f, p) : p \in {q \in S : d \in Targets(f, q)}}
    BY DEF GraphOf
  <2> QED  BY <1>1, <2>1
<1>4. n.predecessors = [d \in Block |-> {EdgeFrom(f, p) : p \in {q \in T : d \in Targets(f, q)}}]
  BY <1>1, <1>3
<1> QED  BY <1>1, <1>2, <1>4 DEF GraphOf

\* invalidate_block_successors takes the edges of a block out of the graph.
LEMMA InvalidateRemoves ==
    ASSUME NEW g, NEW f, FuncOK(f), NEW S \in SUBSET Block, NEW b \in S, GraphOf(g, f, S)
    PROVE  GraphOf(invalidate_block_successors(g, b), f, S \ {b})
<1> DEFINE n == invalidate_block_successors(g, b)
           T == S \ {b}
<1>1. /\ n.successors = [g.successors EXCEPT ![b] = {}]
      /\ n.predecessors = [d \in Block |-> IF d \in g.successors[b]
            THEN {e \in g.predecessors[d] : e.block # b} ELSE g.predecessors[d]]
      /\ n = [successors |-> n.successors, predecessors |-> n.predecessors]
  BY DEF invalidate_block_successors
<1>2. n.successors = [c \in Block |-> IF c \in T THEN Targets(f, c) ELSE {}]
  BY <1>1 DEF GraphOf
<1>3. ASSUME NEW d \in Block
      PROVE  n.predecessors[d] = {EdgeFrom(f, p) : p \in {q \in T : d \in Targets(f, q)}}
  <2>1. g.predecessors[d] = {EdgeFrom(f, p) : p \in {q \in S : d \in Targets(f, q)}}
    BY DEF GraphOf
  <2>2. g.successors[b] = Targets(f, b)
    BY DEF GraphOf
  <2>3. \A p : EdgeFrom(f, p).block = p
    BY DEF EdgeFrom
  <2>4. CASE d \in Targets(f, b)
    <3>1. n.predecessors[d] = {e \in g.predecessors[d] : e.block # b}
      BY <1>1, <2>2, <2>4
    <3> QED  BY <3>1, <2>1, <2>3
  <2>5. CASE d \notin Targets(f, b)
    <3>1. n.predecessors[d] = g.predecessors[d]
      BY <1>1, <2>2, <2>5
    <3>2. {q \in S : d \in Targets(f, q)} = {q \in T : d \in Targets(f, q)}
      BY <2>5
    <3> QED  BY <3>1, <3>2, <2>1
  <2> QED  BY <2>4, <2>5
<1>4. n.predecessors = [d \in Block |-> {EdgeFrom(f, p) : p \in {q \in T : d \in Targets(f, q)}}]
  BY <1>1, <1>3
<1> QED  BY <1>1, <1>2, <1>4 DEF GraphOf

\* The graph of a part of a function does not depend on the other blocks.
LEMMA GraphOfPart ==
    ASSUME NEW g, NEW f, NEW h, NEW S \in SUBSET Block, GraphOf(g, f, S),
           \A p \in S : f.term[p] = h.term[p] /\ f.inst[p] = h.inst[p]
    PROVE  GraphOf(g, h, S)
<1>1. \A p \in S : Targets(f, p) = Targets(h, p) /\ EdgeFrom(f, p) = EdgeFrom(h, p)
  BY DEF Targets, EdgeFrom, dests
<1>2. [b \in Block |-> IF b \in S THEN Targets(f, b) ELSE {}]
        = [b \in Block |-> IF b \in S THEN Targets(h, b) ELSE {}]
  BY <1>1
<1>3. ASSUME NEW d \in Block
      PROVE  {EdgeFrom(f, p) : p \in {q \in S : d \in Targets(f, q)}}
               = {EdgeFrom(h, p) : p \in {q \in S : d \in Targets(h, q)}}
  BY <1>1
<1> QED  BY <1>2, <1>3 DEF GraphOf

\* recompute_block brings the graph of a function up to date when the
\* terminator of one block has changed.
LEMMA RecomputeFollows ==
    ASSUME NEW g, NEW f, FuncOK(f), NEW h, FuncOK(h), NEW b \in Block, GraphOf(g, f, Block),
           \A p \in Block \ {b} : f.term[p] = h.term[p] /\ f.inst[p] = h.inst[p]
    PROVE  GraphOf(recompute_block(g, h, b), h, Block)
<1> DEFINE m == invalidate_block_successors(g, b)
           S == Block \ {b}
<1>1. GraphOf(m, f, S)
  BY InvalidateRemoves
<1>2. GraphOf(m, h, S)
  <2> HIDE DEF m
  <2> QED  BY <1>1, GraphOfPart
<1>3. GraphOf(compute_block(m, h, b), h, S \cup {b})
  <2> HIDE DEF m
  <2> QED  BY <1>2, ComputeBlockAdds
<1>4. S \cup {b} = Block
  OBVIOUS
<1> QED  BY <1>3, <1>4 DEF recompute_block

(***************************************************************************)
(* What the search keeps of the successors of a block.                     *)
(***************************************************************************)

\* A set of naturals that is not empty has a least member.
LEMMA NatMin ==
    ASSUME NEW T, T \subseteq Nat, T # {}
    PROVE  \E x \in T : \A y \in T : x <= y
<1> DEFINE R == {ss \in Nat \X Nat : ss[1] < ss[2]}
<1>1. OpToRel(<, Nat) = R
  BY Zenon DEF OpToRel
<1>2. IsWellFoundedOn(R, Nat)
  BY <1>1, NatLessThanWellFounded
<1>3. \E x \in T : \A y \in T : ~(<<y, x>> \in R)
  <2> HIDE DEF R
  <2> QED  BY <1>2, WFMin
<1>4. PICK x \in T : \A y \in T : ~(<<y, x>> \in R)
  BY <1>3
<1>5. ASSUME NEW y \in T PROVE x <= y
  <2>1. ~(<<y, x>> \in R)
    BY <1>4
  <2>2. x \in Nat /\ y \in Nat
    OBVIOUS
  <2>3. ~(y < x)
    BY <2>1, <2>2
  <2> QED  BY <2>2, <2>3
<1> QED  BY <1>5

\* f solves the recursion of kept.
KeptUpTo(f, s, T) ==
    f = [i \in 0 .. Len(s) |-> IF i = 0 THEN <<>>
            ELSE IF s[i] \in T THEN Append(f[i - 1], s[i]) ELSE f[i - 1]]

\* There is a solution.
LEMMA KeptExists ==
    ASSUME NEW U, NEW s \in Seq(U), NEW T
    PROVE  \E f : KeptUpTo(f, s, T)
<1> DEFINE P(n, g) == /\ g = [k \in 0 .. n |-> g[k]] /\ g[0] = <<>>
                      /\ \A k \in 1 .. n :
                            g[k] = IF s[k] \in T THEN Append(g[k - 1], s[k]) ELSE g[k - 1]
           C == {n \in Nat : \A g : ~P(n, g)}
<1>1. C = {}
  <2> SUFFICES ASSUME C # {} PROVE FALSE
    OBVIOUS
  <2>1. PICK n \in C : \A m \in C : n <= m
    BY NatMin
  <2>2. n \in Nat
    OBVIOUS
  <2>3. CASE n = 0
    <3>1. P(0, [k \in 0 .. 0 |-> <<>>])
      OBVIOUS
    <3> QED  BY <2>3, <3>1
  <2>4. CASE n # 0
    <3>1. n - 1 \in Nat /\ n - 1 \notin C
      <4> HIDE DEF C
      <4> QED  BY <2>1, <2>2, <2>4
    <3>2. PICK g : P(n - 1, g)
      <4> HIDE DEF P
      <4> QED  BY <3>1
    <3> DEFINE last_value == IF s[n] \in T THEN Append(g[n - 1], s[n]) ELSE g[n - 1]
               G == [k \in 0 .. n |-> IF k = n THEN last_value ELSE g[k]]
    <3> HIDE DEF last_value
    <3>3. G = [k \in 0 .. n |-> G[k]] /\ G[0] = <<>>
      BY <2>2, <2>4, <3>1, <3>2
    <3>4. ASSUME NEW k \in 1 .. n
          PROVE  G[k] = IF s[k] \in T THEN Append(G[k - 1], s[k]) ELSE G[k - 1]
      <4>1. k \in 0 .. n /\ k - 1 \in 0 .. n /\ k - 1 # n
        BY <2>2
      <4>2. G[k - 1] = g[k - 1]
        BY <4>1
      <4>3. CASE k = n
        <5>1. G[k] = last_value
          BY <4>1, <4>3
        <5> HIDE DEF G
        <5> QED  BY <5>1, <4>2, <4>3 DEF last_value
      <4>4. CASE k # n
        <5>1. k \in 1 .. (n - 1)
          BY <2>2, <4>4
        <5>2. G[k] = g[k]
          BY <4>1, <4>4
        <5> HIDE DEF G
        <5> QED  BY <3>2, <4>2, <5>1, <5>2
      <4> QED  BY <4>3, <4>4
    <3>5. P(n, G)
      BY <3>3, <3>4
    <3> QED  BY <3>5
  <2> QED  BY <2>3, <2>4
<1>2. Len(s) \in Nat /\ Len(s) \notin C
  BY <1>1
<1>3. PICK g : P(Len(s), g)
  <2> HIDE DEF P
  <2> QED  BY <1>2
<1>4. KeptUpTo(g, s, T)
  <2>1. ASSUME NEW i \in 0 .. Len(s)
        PROVE  g[i] = IF i = 0 THEN <<>>
                      ELSE IF s[i] \in T THEN Append(g[i - 1], s[i]) ELSE g[i - 1]
    <3>1. CASE i = 0
      BY <1>3, <3>1
    <3>2. CASE i # 0
      <4>1. i \in 1 .. Len(s)
        BY <1>2, <3>2
      <4> QED  BY <1>3, <3>2, <4>1
    <3> QED  BY <3>1, <3>2
  <2> QED  BY <1>3, <2>1 DEF KeptUpTo
<1> QED  BY <1>4

\* kept drops elements outside T and nothing else.
LEMMA KeptKeeps ==
    ASSUME NEW U, NEW s \in Seq(U), NEW T
    PROVE  /\ kept(s, T) \in Seq(U)
           /\ \A j \in 1 .. Len(s) : s[j] \in T =>
                 \E m \in 1 .. Len(kept(s, T)) : kept(s, T)[m] = s[j]
<1> DEFINE Eq(f) == KeptUpTo(f, s, T)
           u == CHOOSE f : Eq(f)
           Good(i) == /\ u[i] \in Seq(U)
                      /\ \A j \in 1 .. i : s[j] \in T => \E m \in 1 .. Len(u[i]) : u[i][m] = s[j]
           C == {i \in Nat : i <= Len(s) /\ ~Good(i)}
<1>1. kept(s, T) = u[Len(s)]
  BY Zenon DEF kept, KeptUpTo
<1>2. Eq(u)
  <2>1. \E f : Eq(f)
    BY KeptExists
  <2> HIDE DEF Eq
  <2> QED  BY <2>1
<1> HIDE DEF u
<1>3. Len(s) \in Nat
  OBVIOUS
<1>4. u[0] = <<>>
  BY <1>2, <1>3 DEF KeptUpTo
<1>5. C = {}
  <2> SUFFICES ASSUME C # {} PROVE FALSE
    OBVIOUS
  <2>1. PICK n \in C : \A m \in C : n <= m
    <3> HIDE DEF Good
    <3> QED  BY NatMin
  <2>2. n \in Nat /\ n <= Len(s) /\ ~Good(n)
    <3> HIDE DEF Good
    <3> QED  OBVIOUS
  <2>3. n # 0
    <3>1. Good(0)
      BY <1>4
    <3> HIDE DEF Good
    <3> QED  BY <2>2, <3>1
  <2>4. n - 1 \in Nat /\ n - 1 <= Len(s) /\ Good(n - 1)
    <3> HIDE DEF Good
    <3> QED  BY <1>3, <2>1, <2>2, <2>3
  <2>5. n \in 0 .. Len(s)
    BY <1>3, <2>2
  <2>6. u[n] = IF s[n] \in T THEN Append(u[n - 1], s[n]) ELSE u[n - 1]
    BY <1>2, <2>3, <2>5 DEF KeptUpTo
  <2> DEFINE v == u[n - 1]
             w == u[n]
  <2>7. /\ v \in Seq(U)
        /\ \A j \in 1 .. (n - 1) : s[j] \in T => \E m \in 1 .. Len(v) : v[m] = s[j]
    BY <2>4
  <2>8. w = IF s[n] \in T THEN Append(v, s[n]) ELSE v
    BY <2>6
  <2>9. s[n] \in U
    BY <2>3, <2>5
  <2>10. Good(n) <=> /\ w \in Seq(U)
                     /\ \A j \in 1 .. n : s[j] \in T => \E m \in 1 .. Len(w) : w[m] = s[j]
    OBVIOUS
  <2> HIDE DEF v, w, Good
  <2>11. w \in Seq(U)
    BY <2>7, <2>8, <2>9
  <2>12. ASSUME NEW j \in 1 .. n, s[j] \in T
         PROVE  \E m \in 1 .. Len(w) : w[m] = s[j]
    <3>1. CASE j = n
      <4>1. w = Append(v, s[n])
        BY <2>8, <2>12, <3>1
      <4>2. Len(v) + 1 \in 1 .. Len(w) /\ w[Len(v) + 1] = s[n]
        BY <2>7, <2>9, <4>1
      <4> QED  BY <3>1, <4>2
    <3>2. CASE j # n
      <4>1. j \in 1 .. (n - 1)
        BY <2>2, <3>2
      <4>2. PICK m \in 1 .. Len(v) : v[m] = s[j]
        BY <2>7, <2>12, <4>1
      <4>3. m \in 1 .. Len(w) /\ w[m] = v[m]
        BY <2>7, <2>8, <2>9
      <4> QED  BY <4>2, <4>3
    <3> QED  BY <3>1, <3>2
  <2> QED  BY <2>2, <2>10, <2>11, <2>12
<1>6. Good(Len(s))
  <2> HIDE DEF Good
  <2> QED  BY <1>3, <1>5
<1> QED  BY <1>1, <1>6

(***************************************************************************)
(* The inductive invariant.                                                *)
(***************************************************************************)

\* The graph is the graph of the blocks compute has visited, and later of all.
FlowInv ==
    /\ FuncOK(func)
    /\ computed \in Nat /\ (pc = "cfg" => computed < NumBlocks)
    /\ GraphOf(cfg, func, IF pc = "cfg" THEN 0 .. (computed - 1) ELSE Block)

WorkItem == [event : {"enter"}, parent : Nat, block : Block] \cup [event : {"exit"}, block : Block]
TreeNode == [block : Block, ancestor : Nat, label : Nat, semi : Nat, idom : Nat]

\* A block the depth-first search has still to enter.
Waiting(b) == \E i \in 1 .. Len(worklist) : worklist[i].event = "enter" /\ worklist[i].block = b

NodesOK(ns) ==
    /\ ns = [b \in Block |-> ns[b]]
    /\ \A b \in Block :
          /\ ns[b] = [idom |-> ns[b].idom, pre_number |-> ns[b].pre_number,
                      child |-> ns[b].child, sibling |-> ns[b].sibling,
                      dom_pre_number |-> ns[b].dom_pre_number, dom_pre_max |-> ns[b].dom_pre_max]
          /\ ns[b].pre_number \in Nat

Searched == {"semi", "idom", "preorder", "loops", "unreachable"}

\* From a block that was visited a branch leads to a visited one, or to one
\* that waits on the stack; when the search is over, to a visited one.
SearchInv ==
    /\ pc \in {"loops", "unreachable"} => direction = "forward"
    /\ direction = "forward" /\ pc \in Searched \cup {"spanning_tree"} => NodesOK(nodes)
    /\ direction = "forward" /\ pc = "spanning_tree" =>
          /\ worklist \in Seq(WorkItem) /\ stree \in Seq(TreeNode)
          /\ \A b \in Block : is_reachable(b) =>
                \A d \in Targets(func, b) : is_reachable(d) \/ Waiting(d)
    /\ direction = "forward" /\ pc \in Searched =>
          \A b \in Block : is_reachable(b) => \A d \in Targets(func, b) : is_reachable(d)

\* Only while unreachable blocks are removed does a branch name a removed
\* block, and then it is the branch of a block that goes as well.
RemovedInv ==
    \A p \in Block : \A d \in Targets(func, p) :
        func.term[d].op = "removed" => pc = "unreachable" /\ ~is_reachable(p)

GInv == FlowInv /\ SearchInv /\ RemovedInv

\* A block is removed or has a terminator.
LEMMA RemovedTerm ==
    ASSUME NEW f, FuncOK(f), NEW b \in Block
    PROVE  f.term[b].op = "removed" <=> f.term[b] = outside_layout
<1>1. f.term[b] \in Terminator \cup {outside_layout}
  BY DEF FuncOK
<1>2. ASSUME NEW t \in Terminator PROVE t.op # "removed"
  BY DEF Terminator, Kind
<1> QED  BY <1>1, <1>2 DEF outside_layout

\* A removed block has no branches.
LEMMA RemovedTargets ==
    ASSUME NEW f, FuncOK(f), NEW b \in Block, f.term[b].op = "removed"
    PROVE  Targets(f, b) = {}
<1>1. dests(f, b) = <<>>
  BY RemovedTerm DEF outside_layout, dests
<1> QED  BY <1>1, TargetsType

\* The first states have nothing in the graph and nothing removed.
LEMMA GraphInit == Init => GInv
<1> SUFFICES ASSUME Init PROVE GInv
  OBVIOUS
<1>1. PICK f \in Functions : func = [term |-> f.term, inst |-> [b \in Block |-> b],
                                     made |-> NumBlocks, edits |-> f.edits]
  BY DEF Init, DomInit, FlowInit
<1>2. /\ cfg = empty_cfg /\ computed = 0 /\ pc = "cfg"
  BY DEF Init, DomInit, FlowInit
<1>3. f.term \in [Block -> Terminator] /\ f.edits \in Nat
  OBVIOUS
<1>4. FuncOK(func)
  BY <1>1, <1>3 DEF FuncOK, Block
<1>5. GraphOf(cfg, func, 0 .. (computed - 1))
  <2>1. 0 .. (computed - 1) = {}
    BY <1>2
  <2> QED  BY <1>2, <2>1 DEF GraphOf, empty_cfg
<1>6. FlowInv
  BY <1>2, <1>4, <1>5 DEF FlowInv
<1>7. SearchInv
  BY <1>2 DEF SearchInv, Searched
<1>8. RemovedInv
  <2>1. ASSUME NEW d \in Block PROVE func.term[d].op # "removed"
    <3>1. func.term[d] \in Terminator
      BY <1>1, <1>3
    <3> QED  BY <3>1 DEF Terminator, Kind
  <2>2. \A p \in Block : Targets(func, p) \subseteq Block
    BY <1>4, TargetsType
  <2> QED  BY <2>1, <2>2 DEF RemovedInv
<1> QED  BY <1>6, <1>7, <1>8 DEF GInv

\* A step that leaves the function and its graph alone keeps FlowInv.
LEMMA FlowKept ==
    ASSUME FlowInv, UNCHANGED flowVars, pc # "cfg", pc' # "cfg"
    PROVE  FlowInv'
BY DEF FlowInv, flowVars

\* No branch names a removed block, unless they are being removed.
LEMMA RemovedKept ==
    ASSUME RemovedInv, pc # "unreachable", UNCHANGED flowVars
    PROVE  RemovedInv'
BY DEF RemovedInv, flowVars

\* A step after the search that keeps what it has visited.
LEMMA SearchedKept ==
    ASSUME GInv, UNCHANGED flowVars, UNCHANGED direction,
           pc \in Searched \ {"unreachable"},
           pc' \notin {"cfg", "spanning_tree", "unreachable"},
           pc' = "loops" => direction = "forward",
           direction = "forward" =>
              /\ NodesOK(nodes')
              /\ \A b \in Block : nodes'[b].pre_number = nodes[b].pre_number
    PROVE  GInv'
<1>1. FlowInv'
  BY FlowKept DEF GInv, Searched
<1>2. RemovedInv'
  BY RemovedKept DEF GInv, Searched
<1>3. SearchInv'
  <2>1. direction' = direction /\ func' = func
    BY DEF flowVars
  <2>2. ASSUME direction = "forward", NEW b \in Block, nodes'[b].pre_number # NOT_VISITED,
               NEW d \in Targets(func, b)
        PROVE  nodes'[d].pre_number # NOT_VISITED
    <3>1. d \in Block
      BY TargetsType DEF GInv, FlowInv
    <3>2. is_reachable(b)
      BY <2>2 DEF is_reachable
    <3>3. is_reachable(d)
      BY <2>2, <3>2 DEF GInv, SearchInv, Searched
    <3> QED  BY <2>2, <3>1, <3>3 DEF is_reachable
  <2> QED  BY <2>1, <2>2 DEF SearchInv, Searched, is_reachable
<1> QED  BY <1>1, <1>2, <1>3 DEF GInv

\* A step that starts no search and ends none.
LEMMA OtherKept ==
    ASSUME GInv, UNCHANGED flowVars,
           pc \notin {"cfg", "unreachable"},
           pc' \notin {"cfg", "spanning_tree"} \cup Searched
    PROVE  GInv'
<1>1. FlowInv'
  BY FlowKept DEF GInv
<1>2. RemovedInv'
  BY RemovedKept DEF GInv
<1>3. SearchInv'
  BY DEF SearchInv, Searched
<1> QED  BY <1>1, <1>2, <1>3 DEF GInv

(***************************************************************************)
(* The actions.                                                            *)
(***************************************************************************)

\* compute visits the next block.
LEMMA ComputeGraphKeeps == ASSUME GInv, ComputeGraph PROVE GInv'
<1> DEFINE S == 0 .. (computed - 1)
<1>1. /\ pc = "cfg" /\ func' = func /\ computed' = computed + 1
      /\ cfg' = compute_block(cfg, func, computed)
      /\ pc' = IF computed' = NumBlocks THEN "compute" ELSE pc
  BY DEF ComputeGraph
<1>2. /\ FuncOK(func) /\ computed \in Nat /\ computed < NumBlocks
      /\ GraphOf(cfg, func, S)
  BY <1>1 DEF GInv, FlowInv
<1>3. S \in SUBSET Block /\ computed \in Block \ S /\ S \cup {computed} = 0 .. computed
  BY <1>2 DEF Block
<1>4. GraphOf(cfg', func, 0 .. computed)
  <2> HIDE DEF S
  <2> QED  BY <1>1, <1>2, <1>3, ComputeBlockAdds
<1>5. FlowInv'
  <2>1. CASE computed' = NumBlocks
    <3>1. 0 .. computed = Block
      BY <1>1, <1>2, <2>1 DEF Block
    <3> QED  BY <1>1, <1>2, <1>4, <2>1, <3>1 DEF FlowInv
  <2>2. CASE computed' # NumBlocks
    <3>1. computed' - 1 = computed /\ computed' < NumBlocks
      BY <1>1, <1>2, <2>2
    <3> QED  BY <1>1, <1>2, <1>4, <2>2, <3>1 DEF FlowInv
  <2> QED  BY <2>1, <2>2
<1>6. SearchInv'
  BY <1>1 DEF SearchInv, Searched
<1>7. RemovedInv'
  BY <1>1 DEF GInv, RemovedInv
<1> QED  BY <1>5, <1>6, <1>7 DEF GInv

\* The search starts from the entry block, with nothing visited.
LEMMA ComputeBeginKeeps == ASSUME GInv, ComputeBegin PROVE GInv'
<1>1. /\ pc = "compute" /\ pc' = "spanning_tree" /\ UNCHANGED flowVars
      /\ stree' = <<>> /\ nodes' = [b \in Block |-> blank_node]
  BY DEF ComputeBegin
<1>2. FlowInv' /\ RemovedInv'
  BY <1>1, FlowKept, RemovedKept DEF GInv
<1>3. NodesOK(nodes')
  BY <1>1 DEF NodesOK, blank_node, NOT_VISITED
<1>4. ASSUME direction' = "forward" PROVE worklist' \in Seq(WorkItem)
  <2>1. LET rs == Reverse(roots("forward"))
        IN  worklist' = [i \in DOMAIN rs |-> enter(0, rs[i])]
    BY <1>4 DEF ComputeBegin
  <2>2. roots("forward") = <<0>>
    BY DEF roots
  <2>3. Reverse(<<0>>) = <<0>>
    BY DEF Reverse
  <2>4. enter(0, 0) \in WorkItem
    BY DEF enter, WorkItem, Block
  <2>5. worklist' = [i \in 1 .. 1 |-> enter(0, 0)]
    BY <2>1, <2>2, <2>3
  <2> QED  BY <2>4, <2>5
<1>5. \A b \in Block : ~is_reachable(b)'
  BY <1>1 DEF is_reachable, blank_node
<1>6. SearchInv'
  BY <1>1, <1>3, <1>4, <1>5 DEF SearchInv, Searched
<1> QED  BY <1>2, <1>6 DEF GInv

\* A block is taken from the stack and its successors put there.
LEMMA EnterKeeps == ASSUME GInv, Enter PROVE GInv'
<1> DEFINE b == Head(worklist).block
           n == Len(stree) + 1
           unvisited == {s \in Block \ {b} : nodes[s].pre_number = NOT_VISITED}
           next == kept(graph_successors(b), unvisited)
           entered == [i \in DOMAIN next |-> enter(n, next[i])]
<1>1. /\ pc = "spanning_tree" /\ worklist # <<>> /\ Head(worklist).event = "enter"
      /\ UNCHANGED <<flowVars, pc, direction>> /\ func' = func
  BY DEF Enter, flowVars
<1>2. FlowInv' /\ RemovedInv'
  BY <1>1, FlowKept, RemovedKept DEF GInv
<1>3. SearchInv'
  <2> SUFFICES ASSUME direction = "forward"
               PROVE  /\ NodesOK(nodes')
                      /\ worklist' \in Seq(WorkItem) /\ stree' \in Seq(TreeNode)
                      /\ \A c \in Block : is_reachable(c)' =>
                            \A d \in Targets(func, c) : is_reachable(d)' \/ Waiting(d)'
    BY <1>1 DEF SearchInv, Searched
  <2>1. /\ NodesOK(nodes) /\ worklist \in Seq(WorkItem) /\ stree \in Seq(TreeNode)
        /\ \A c \in Block : is_reachable(c) =>
              \A d \in Targets(func, c) : is_reachable(d) \/ Waiting(d)
    BY <1>1 DEF GInv, SearchInv
  <2>2. Head(worklist) \in WorkItem /\ Tail(worklist) \in Seq(WorkItem)
    BY <1>1, <2>1
  <2>3. b \in Block /\ Head(worklist).parent \in Nat
    BY <1>1, <2>2 DEF WorkItem
  <2>4. \A d \in Block : Waiting(d) =>
            d = b \/ \E i \in 1 .. Len(Tail(worklist)) :
                        Tail(worklist)[i].event = "enter" /\ Tail(worklist)[i].block = d
    <3> SUFFICES ASSUME NEW d \in Block, NEW i \in 1 .. Len(worklist),
                        worklist[i].event = "enter", worklist[i].block = d, d # b
                 PROVE  \E j \in 1 .. Len(Tail(worklist)) :
                          Tail(worklist)[j].event = "enter" /\ Tail(worklist)[j].block = d
      BY DEF Waiting
    <3>1. i # 1
      BY <1>1, <2>1
    <3>2. i - 1 \in 1 .. Len(Tail(worklist)) /\ Tail(worklist)[i - 1] = worklist[i]
      BY <1>1, <2>1, <3>1
    <3> QED  BY <3>2
  <2>5. CASE nodes[b].pre_number # NOT_VISITED
    <3>1. worklist' = Tail(worklist) /\ stree' = stree /\ nodes' = nodes
      BY <2>5 DEF Enter
    <3>2. ASSUME NEW c \in Block, is_reachable(c), NEW d \in Targets(func, c)
          PROVE  is_reachable(d) \/ Waiting(d)'
      <4>1. d \in Block
        BY TargetsType DEF GInv, FlowInv
      <4>2. is_reachable(d) \/ Waiting(d)
        BY <2>1, <3>2
      <4>3. CASE d = b
        BY <2>5, <4>3 DEF is_reachable
      <4>4. CASE d # b /\ Waiting(d)
        BY <2>4, <3>1, <4>1, <4>4 DEF Waiting
      <4> QED  BY <4>2, <4>3, <4>4
    <3> QED  BY <2>1, <2>2, <3>1, <3>2 DEF is_reachable
  <2>6. CASE nodes[b].pre_number = NOT_VISITED
    <3>1. /\ stree' = Append(stree, [block |-> b, ancestor |-> Head(worklist).parent,
                  label |-> n, semi |-> n, idom |-> Head(worklist).parent])
          /\ nodes' = [nodes EXCEPT ![b].pre_number = n]
          /\ worklist' = entered \o <<exit(b)>> \o Tail(worklist)
      BY <2>6 DEF Enter
    <3>2. n \in Nat /\ n # NOT_VISITED
      BY <2>1 DEF NOT_VISITED
    <3>3. /\ next \in Seq(Block)
          /\ \A d \in Targets(func, b) : d \in unvisited =>
                \E m \in 1 .. Len(next) : next[m] = d
      <4>1. graph_successors(b) = dests(func, b)
        BY DEF graph_successors
      <4>2. /\ dests(func, b) \in Seq(Block)
            /\ Targets(func, b) = {dests(func, b)[i] : i \in 1 .. Len(dests(func, b))}
        <5>1. FuncOK(func)
          BY DEF GInv, FlowInv
        <5>2. dests(func, b) \in Seq(Block \ {0})
          <6> HIDE DEF b
          <6> QED  BY <2>3, <5>1, TargetsType
        <5> HIDE DEF b
        <5> QED  BY <2>3, <5>1, <5>2, TargetsType
      <4> DEFINE s == dests(func, b)
      <4>3. next = kept(s, unvisited)
        BY <4>1
      <4> HIDE DEF b, next, s, unvisited
      <4>4. /\ next \in Seq(Block)
            /\ \A j \in 1 .. Len(s) : s[j] \in unvisited =>
                  \E m \in 1 .. Len(next) : next[m] = s[j]
        BY <4>2, <4>3, KeptKeeps DEF s
      <4> QED  BY <4>2, <4>4 DEF s
    <3>4. /\ entered \in Seq(WorkItem) /\ Len(entered) = Len(next)
          /\ \A m \in 1 .. Len(next) : entered[m] = enter(n, next[m])
      <4> HIDE DEF next, n
      <4>1. \A m \in 1 .. Len(next) : enter(n, next[m]) \in WorkItem
        BY <3>2, <3>3 DEF enter, WorkItem
      <4>2. entered = [m \in 1 .. Len(next) |-> enter(n, next[m])]
        BY <3>3
      <4> HIDE DEF entered
      <4> QED  BY <3>3, <4>1, <4>2
    <3>5. exit(b) \in WorkItem
      BY <2>3 DEF exit, WorkItem
    <3> HIDE DEF next, n, unvisited, entered
    <3>6. worklist' \in Seq(WorkItem)
      BY <2>2, <3>1, <3>4, <3>5
    <3>7. stree' \in Seq(TreeNode)
      <4>1. [block |-> b, ancestor |-> Head(worklist).parent, label |-> n, semi |-> n,
             idom |-> Head(worklist).parent] \in TreeNode
        BY <2>3, <3>2 DEF TreeNode
      <4> QED  BY <2>1, <3>1, <4>1
    <3>8. NodesOK(nodes') /\ nodes'[b].pre_number = n
          /\ \A c \in Block \ {b} : nodes'[c] = nodes[c]
      <4> HIDE DEF b
      <4>1. nodes' = [c \in Block |-> IF c = b THEN [nodes[b] EXCEPT !.pre_number = n]
                                     ELSE nodes[c]]
        BY <2>1, <2>3, <3>1 DEF NodesOK
      <4>2. [nodes[b] EXCEPT !.pre_number = n]
              = [idom |-> nodes[b].idom, pre_number |-> n,
                 child |-> nodes[b].child, sibling |-> nodes[b].sibling,
                 dom_pre_number |-> nodes[b].dom_pre_number, dom_pre_max |-> nodes[b].dom_pre_max]
        BY SMTT(60), <2>1, <2>3 DEF NodesOK
      <4> QED  BY <2>1, <2>3, <3>2, <4>1, <4>2 DEF NodesOK
    <3>9. \A d \in Block : is_reachable(d) => is_reachable(d)'
      BY <2>3, <3>2, <3>8 DEF is_reachable
    <3>10. \A d \in Block : d = b => is_reachable(d)'
      BY <3>2, <3>8 DEF is_reachable
    <3>11. ASSUME NEW d, NEW m \in 1 .. Len(next), next[m] = d
           PROVE  Waiting(d)'
      <4>1. m \in 1 .. Len(worklist') /\ worklist'[m] = enter(n, next[m])
        BY <2>2, <3>1, <3>3, <3>4, <3>5
      <4> QED  BY <3>11, <4>1 DEF Waiting, enter
    <3>12. ASSUME NEW d, NEW i \in 1 .. Len(Tail(worklist)),
                  Tail(worklist)[i].event = "enter", Tail(worklist)[i].block = d
           PROVE  Waiting(d)'
      <4> DEFINE j == Len(entered) + 1 + i
      <4>1. j \in 1 .. Len(worklist') /\ worklist'[j] = Tail(worklist)[i]
        BY <2>2, <3>1, <3>4, <3>5
      <4> HIDE DEF j
      <4> QED  BY <3>12, <4>1 DEF Waiting
    <3>13. ASSUME NEW c \in Block, is_reachable(c)', NEW d \in Targets(func, c)
           PROVE  is_reachable(d)' \/ Waiting(d)'
      <4>1. d \in Block
        BY TargetsType DEF GInv, FlowInv
      <4>2. CASE d = b
        BY <3>10, <4>1, <4>2
      <4>3. CASE d # b /\ is_reachable(d)
        BY <3>9, <4>1, <4>3
      <4>4. CASE d # b /\ ~is_reachable(d) /\ c = b
        <5>1. d \in unvisited
          BY <4>1, <4>4 DEF unvisited, is_reachable
        <5>2. PICK m \in 1 .. Len(next) : next[m] = d
          BY <3>3, <3>13, <4>4, <5>1
        <5> QED  BY <3>11, <5>2
      <4>5. CASE d # b /\ ~is_reachable(d) /\ c # b
        <5>1. is_reachable(c)
          BY <3>8, <3>13, <4>5 DEF is_reachable
        <5>2. Waiting(d)
          BY <2>1, <3>13, <4>5, <5>1
        <5>3. PICK i \in 1 .. Len(Tail(worklist)) :
                     Tail(worklist)[i].event = "enter" /\ Tail(worklist)[i].block = d
          BY <2>4, <4>1, <4>5, <5>2
        <5> QED  BY <3>12, <5>3
      <4> QED  BY <4>2, <4>3, <4>4, <4>5
    <3> QED  BY SMTT(60), <3>6, <3>7, <3>8, <3>13
  <2> QED  BY <2>5, <2>6
<1> QED  BY <1>2, <1>3 DEF GInv

\* A block whose successors are all dealt with leaves the stack.
LEMMA ExitKeeps == ASSUME GInv, Exit PROVE GInv'
<1>1. /\ pc = "spanning_tree" /\ worklist # <<>> /\ Head(worklist).event = "exit"
      /\ UNCHANGED <<flowVars, pc, direction, stree, nodes>> /\ func' = func
      /\ worklist' = Tail(worklist)
  BY DEF Exit, flowVars
<1>2. FlowInv' /\ RemovedInv'
  BY <1>1, FlowKept, RemovedKept DEF GInv
<1>3. SearchInv'
  <2> SUFFICES ASSUME direction = "forward"
               PROVE  /\ worklist' \in Seq(WorkItem)
                      /\ \A d \in Block : Waiting(d) => Waiting(d)'
    <3>1. \A c \in Block : \A d \in Targets(func, c) : d \in Block
      BY TargetsType DEF GInv, FlowInv
    <3> QED  BY <1>1, <3>1 DEF GInv, SearchInv, Searched, is_reachable
  <2>1. worklist \in Seq(WorkItem)
    BY <1>1 DEF GInv, SearchInv
  <2>2. ASSUME NEW d \in Block, NEW i \in 1 .. Len(worklist),
               worklist[i].event = "enter", worklist[i].block = d
        PROVE  Waiting(d)'
    <3>1. i # 1
      BY <1>1, <2>1, <2>2
    <3>2. i - 1 \in 1 .. Len(Tail(worklist)) /\ Tail(worklist)[i - 1] = worklist[i]
      BY <1>1, <2>1, <3>1
    <3> QED  BY <1>1, <2>2, <3>2 DEF Waiting
  <2> QED  BY <1>1, <2>1, <2>2 DEF Waiting
<1> QED  BY <1>2, <1>3 DEF GInv

\* Nothing waits any more: the visited blocks are closed under branches.
LEMMA SpanningTreeDoneKeeps == ASSUME GInv, SpanningTreeDone PROVE GInv'
<1>1. /\ pc = "spanning_tree" /\ worklist = <<>> /\ pc' = "semi"
      /\ UNCHANGED <<flowVars, direction, nodes>> /\ func' = func
  BY DEF SpanningTreeDone, flowVars
<1>2. FlowInv' /\ RemovedInv'
  BY <1>1, FlowKept, RemovedKept DEF GInv
<1>3. \A d : ~Waiting(d)
  BY <1>1 DEF Waiting
<1>4. SearchInv'
  BY <1>1, <1>3 DEF GInv, SearchInv, Searched, is_reachable
<1> QED  BY <1>2, <1>4 DEF GInv

\* A node of the tree with two of its fields changed.
LEMMA NodeUpdates ==
    ASSUME NEW r, NEW x, NEW y,
           r = [idom |-> r.idom, pre_number |-> r.pre_number, child |-> r.child,
                sibling |-> r.sibling, dom_pre_number |-> r.dom_pre_number,
                dom_pre_max |-> r.dom_pre_max]
    PROVE  /\ [r EXCEPT !.child = x, !.sibling = y]
                = [idom |-> r.idom, pre_number |-> r.pre_number, child |-> x, sibling |-> y,
                   dom_pre_number |-> r.dom_pre_number, dom_pre_max |-> r.dom_pre_max]
           /\ [r EXCEPT !.dom_pre_number = x, !.dom_pre_max = y]
                = [idom |-> r.idom, pre_number |-> r.pre_number, child |-> r.child,
                   sibling |-> r.sibling, dom_pre_number |-> x, dom_pre_max |-> y]
<1>1. [r EXCEPT !.child = x] = [idom |-> r.idom, pre_number |-> r.pre_number, child |-> x,
                sibling |-> r.sibling, dom_pre_number |-> r.dom_pre_number,
                dom_pre_max |-> r.dom_pre_max]
  OBVIOUS
<1>2. [r EXCEPT !.child = x, !.sibling = y] = [[r EXCEPT !.child = x] EXCEPT !.sibling = y]
  OBVIOUS
<1>3. [r EXCEPT !.dom_pre_number = x] = [idom |-> r.idom, pre_number |-> r.pre_number,
                child |-> r.child, sibling |-> r.sibling, dom_pre_number |-> x,
                dom_pre_max |-> r.dom_pre_max]
  OBVIOUS
<1>4. [r EXCEPT !.dom_pre_number = x, !.dom_pre_max = y]
        = [[r EXCEPT !.dom_pre_number = x] EXCEPT !.dom_pre_max = y]
  OBVIOUS
<1>5. [r EXCEPT !.child = x, !.sibling = y]
        = [idom |-> r.idom, pre_number |-> r.pre_number, child |-> x, sibling |-> y,
           dom_pre_number |-> r.dom_pre_number, dom_pre_max |-> r.dom_pre_max]
  <2> DEFINE q == [r EXCEPT !.child = x]
  <2>1. q = [idom |-> r.idom, pre_number |-> r.pre_number, child |-> x,
                sibling |-> r.sibling, dom_pre_number |-> r.dom_pre_number,
                dom_pre_max |-> r.dom_pre_max]
    BY <1>1
  <2>2. [r EXCEPT !.child = x, !.sibling = y] = [q EXCEPT !.sibling = y]
    BY <1>2
  <2> HIDE DEF q
  <2>3. [q EXCEPT !.sibling = y] = [idom |-> r.idom, pre_number |-> r.pre_number, child |-> x,
            sibling |-> y, dom_pre_number |-> r.dom_pre_number, dom_pre_max |-> r.dom_pre_max]
    BY <2>1
  <2> QED  BY <2>2, <2>3, Zenon
<1>6. [r EXCEPT !.dom_pre_number = x, !.dom_pre_max = y]
        = [idom |-> r.idom, pre_number |-> r.pre_number, child |-> r.child,
           sibling |-> r.sibling, dom_pre_number |-> x, dom_pre_max |-> y]
  <2> DEFINE q == [r EXCEPT !.dom_pre_number = x]
  <2>1. q = [idom |-> r.idom, pre_number |-> r.pre_number, child |-> r.child,
                sibling |-> r.sibling, dom_pre_number |-> x, dom_pre_max |-> r.dom_pre_max]
    BY <1>3
  <2>2. [r EXCEPT !.dom_pre_number = x, !.dom_pre_max = y] = [q EXCEPT !.dom_pre_max = y]
    BY <1>4
  <2> HIDE DEF q
  <2>3. [q EXCEPT !.dom_pre_max = y] = [idom |-> r.idom, pre_number |-> r.pre_number,
            child |-> r.child, sibling |-> r.sibling, dom_pre_number |-> x, dom_pre_max |-> y]
    BY <2>1
  <2> QED  BY <2>2, <2>3, Zenon
<1> QED  BY <1>5, <1>6, Zenon

\* The dominator tree is computed without another visit.
LEMMA TreeSteps ==
    ASSUME GInv, ComputeSemi \/ SemiDone \/ ComputeIdom \/ ComputeLinks \/ AssignPreorder
                 \/ PropagateMax
    PROVE  /\ UNCHANGED flowVars /\ UNCHANGED direction /\ UNCHANGED postorder
           /\ pc \in {"semi", "idom", "preorder"}
           /\ pc' \in {"semi", "idom", "preorder", "loops", "post_dominators"}
           /\ pc' = "loops" => direction = "forward"
           /\ direction = "forward" =>
                 /\ NodesOK(nodes')
                 /\ \A b \in Block : nodes'[b].pre_number = nodes[b].pre_number
<1>1. CASE ComputeSemi \/ SemiDone
  <2>1. /\ pc = "semi" /\ pc' \in {"semi", "idom"}
        /\ UNCHANGED flowVars /\ UNCHANGED <<direction, postorder, nodes>>
    BY <1>1 DEF ComputeSemi, SemiDone
  <2>2. direction = "forward" => NodesOK(nodes')
    BY <2>1 DEF GInv, SearchInv, Searched
  <2> QED  BY SMTT(60), <2>1, <2>2
<1>2. CASE ComputeIdom
  <2> DEFINE up[i \in 0 .. Len(stree)] == IF i <= stree[cursor].semi THEN i ELSE up[stree[i].idom]
             w == IF up[stree[cursor].idom] = 0 THEN None ELSE stree[up[stree[cursor].idom]].block
             b == stree[cursor].block
  <2>1. /\ pc = "idom" /\ pc' = "idom"
        /\ UNCHANGED flowVars /\ UNCHANGED direction /\ UNCHANGED postorder
        /\ nodes' = [nodes EXCEPT ![b].idom = w]
    BY <1>2 DEF ComputeIdom
  <2> HIDE DEF w, b
  <2>2. ASSUME direction = "forward"
        PROVE  NodesOK(nodes') /\ \A c \in Block : nodes'[c].pre_number = nodes[c].pre_number
    <3>1. NodesOK(nodes)
      BY <2>1, <2>2 DEF GInv, SearchInv, Searched
    <3>2. nodes' = [c \in Block |-> IF c = b THEN [nodes[c] EXCEPT !.idom = w] ELSE nodes[c]]
      BY <2>1, <3>1 DEF NodesOK
    <3>3. ASSUME NEW c \in Block
          PROVE  [nodes[c] EXCEPT !.idom = w]
              = [idom |-> w, pre_number |-> nodes[c].pre_number,
                 child |-> nodes[c].child, sibling |-> nodes[c].sibling,
                 dom_pre_number |-> nodes[c].dom_pre_number, dom_pre_max |-> nodes[c].dom_pre_max]
      BY <3>1 DEF NodesOK
    <3> QED  BY <3>1, <3>2, <3>3 DEF NodesOK
  <2> QED  BY SMTT(60), <2>1, <2>2
<1>3. CASE ComputeLinks
  <2> DEFINE after[i \in 0 .. Len(postorder)] ==
                IF i = 0 THEN nodes ELSE link(after[i - 1], postorder[i])
             linked == after[Len(postorder)]
  <2>1. /\ pc = "idom" /\ pc' = "preorder"
        /\ UNCHANGED flowVars /\ UNCHANGED direction /\ UNCHANGED postorder
        /\ nodes' = [c \in Block |-> [nodes[c] EXCEPT !.child = linked[c].child,
                                                     !.sibling = linked[c].sibling]]
    BY <1>3 DEF ComputeLinks
  <2> HIDE DEF linked
  <2>2. ASSUME direction = "forward"
        PROVE  NodesOK(nodes') /\ \A c \in Block : nodes'[c].pre_number = nodes[c].pre_number
    <3>1. NodesOK(nodes)
      BY <2>1, <2>2 DEF GInv, SearchInv, Searched
    <3>2. ASSUME NEW c \in Block
          PROVE  nodes'[c]
              = [idom |-> nodes[c].idom, pre_number |-> nodes[c].pre_number,
                 child |-> linked[c].child, sibling |-> linked[c].sibling,
                 dom_pre_number |-> nodes[c].dom_pre_number, dom_pre_max |-> nodes[c].dom_pre_max]
      <4>1. nodes'[c] = [nodes[c] EXCEPT !.child = linked[c].child, !.sibling = linked[c].sibling]
        BY <2>1
      <4>2. nodes[c] = [idom |-> nodes[c].idom, pre_number |-> nodes[c].pre_number,
                 child |-> nodes[c].child, sibling |-> nodes[c].sibling,
                 dom_pre_number |-> nodes[c].dom_pre_number, dom_pre_max |-> nodes[c].dom_pre_max]
        BY <3>1 DEF NodesOK
      <4> QED  BY ZenonT(60), <4>1, <4>2, NodeUpdates
    <3>3. nodes' = [c \in Block |-> nodes'[c]]
      BY <2>1, Zenon
    <3> QED  BY <3>1, <3>2, <3>3 DEF NodesOK
  <2> QED  BY <2>1, <2>2
<1>4. CASE AssignPreorder
  <2> DEFINE b == Head(worklist).block
             k == cursor + 1
  <2>1. /\ pc = "preorder" /\ pc' = "preorder"
        /\ UNCHANGED flowVars /\ UNCHANGED direction /\ UNCHANGED postorder
        /\ nodes' = [nodes EXCEPT ![b].dom_pre_number = k, ![b].dom_pre_max = k]
    BY <1>4 DEF AssignPreorder
  <2> HIDE DEF b, k
  <2>2. ASSUME direction = "forward"
        PROVE  NodesOK(nodes') /\ \A c \in Block : nodes'[c].pre_number = nodes[c].pre_number
    <3>1. NodesOK(nodes)
      BY <2>1, <2>2 DEF GInv, SearchInv, Searched
    <3>2. nodes' = [c \in Block |-> IF c = b
                      THEN [nodes[c] EXCEPT !.dom_pre_number = k, !.dom_pre_max = k] ELSE nodes[c]]
      BY <2>1, <3>1 DEF NodesOK
    <3>3. ASSUME NEW c \in Block
          PROVE  [nodes[c] EXCEPT !.dom_pre_number = k, !.dom_pre_max = k]
              = [idom |-> nodes[c].idom, pre_number |-> nodes[c].pre_number,
                 child |-> nodes[c].child, sibling |-> nodes[c].sibling,
                 dom_pre_number |-> k, dom_pre_max |-> k]
      <4>1. nodes[c] = [idom |-> nodes[c].idom, pre_number |-> nodes[c].pre_number,
                 child |-> nodes[c].child, sibling |-> nodes[c].sibling,
                 dom_pre_number |-> nodes[c].dom_pre_number, dom_pre_max |-> nodes[c].dom_pre_max]
        BY <3>1 DEF NodesOK
      <4> QED  BY <4>1, NodeUpdates
    <3> QED  BY ZenonT(60), <3>1, <3>2, <3>3 DEF NodesOK
  <2> QED  BY <2>1, <2>2
<1>5. CASE PropagateMax
  <2> DEFINE after[i \in 0 .. Len(postorder)] ==
                IF i = 0 THEN [b \in Block |-> nodes[b].dom_pre_max]
                ELSE propagate_max(after[i - 1], postorder[i])
             maxima == after[Len(postorder)]
  <2>1. /\ pc = "preorder" /\ pc' = IF direction = "forward" THEN "loops" ELSE "post_dominators"
        /\ UNCHANGED flowVars /\ UNCHANGED direction /\ UNCHANGED postorder
        /\ nodes' = [c \in Block |-> [nodes[c] EXCEPT !.dom_pre_max = maxima[c]]]
    BY <1>5 DEF PropagateMax
  <2> HIDE DEF maxima
  <2>2. ASSUME direction = "forward"
        PROVE  NodesOK(nodes') /\ \A c \in Block : nodes'[c].pre_number = nodes[c].pre_number
    <3>1. NodesOK(nodes)
      BY <2>1, <2>2 DEF GInv, SearchInv, Searched
    <3>2. ASSUME NEW c \in Block
          PROVE  nodes'[c]
              = [idom |-> nodes[c].idom, pre_number |-> nodes[c].pre_number,
                 child |-> nodes[c].child, sibling |-> nodes[c].sibling,
                 dom_pre_number |-> nodes[c].dom_pre_number, dom_pre_max |-> maxima[c]]
      BY <2>1, <3>1 DEF NodesOK
    <3>3. nodes' = [c \in Block |-> nodes'[c]]
      BY <2>1, Zenon
    <3> QED  BY <3>1, <3>2, <3>3 DEF NodesOK
  <2> QED  BY <2>1, <2>2
<1> QED  BY <1>1, <1>2, <1>3, <1>4, <1>5

\* The steps on the tree keep what SearchInv says of the search.
LEMMA TreeKeeps ==
    ASSUME GInv, ComputeSemi \/ SemiDone \/ ComputeIdom \/ ComputeLinks \/ AssignPreorder
                 \/ PropagateMax
    PROVE  GInv'
BY TreeSteps, SearchedKept DEF Searched

\* A block that was not visited is removed, with its edges.
LEMMA EliminateUnreachableKeeps == ASSUME GInv, EliminateUnreachable PROVE GInv'
<1> DEFINE gone == {b \in Block : ~is_reachable(b) /\ func.term[b].op # "removed"}
<1>1. PICK b \in gone : removed(b) /\ pc' = IF gone = {b} THEN "loops" ELSE "unreachable"
  BY DEF EliminateUnreachable
<1>2. /\ pc \in {"loops", "unreachable"} /\ UNCHANGED <<direction, nodes, computed>>
      /\ pc' \in {"loops", "unreachable"}
  BY <1>1 DEF EliminateUnreachable, domVars
<1>3. /\ b \in Block /\ ~is_reachable(b) /\ func.term[b].op # "removed"
      /\ func' = [func EXCEPT !.term[b] = outside_layout]
      /\ cfg' = recompute_block(cfg, func', b)
  BY <1>1 DEF removed
<1>4. FuncOK(func) /\ GraphOf(cfg, func, Block) /\ computed \in Nat
  BY <1>2 DEF GInv, FlowInv
<1>5. /\ func' = [term |-> [func.term EXCEPT ![b] = outside_layout], inst |-> func.inst,
                  made |-> func.made, edits |-> func.edits]
  BY <1>3, <1>4 DEF FuncOK
<1>6. FuncOK(func')
  BY <1>4, <1>5 DEF FuncOK
<1>7. \A p \in Block \ {b} : func.term[p] = func'.term[p] /\ func.inst[p] = func'.inst[p]
  BY <1>4, <1>5 DEF FuncOK
<1>8. GraphOf(cfg', func', Block)
  BY <1>3, <1>4, <1>6, <1>7, RecomputeFollows
<1>9. FlowInv'
  BY <1>2, <1>4, <1>6, <1>8 DEF FlowInv
<1>10. func'.term[b].op = "removed"
  BY <1>3, <1>4, <1>5 DEF FuncOK, outside_layout
<1>11. \A p \in Block \ {b} : Targets(func', p) = Targets(func, p)
  BY <1>7 DEF Targets, dests
<1>12. Targets(func', b) = {}
  BY <1>3, <1>6, <1>10, RemovedTargets
<1>13. \A p \in Block : Targets(func, p) \subseteq Block
  BY <1>4, TargetsType
<1>14. /\ direction = "forward" /\ NodesOK(nodes)
       /\ \A p \in Block : is_reachable(p) => \A d \in Targets(func, p) : is_reachable(d)
  BY <1>2 DEF GInv, SearchInv, Searched
<1>15. SearchInv'
  <2>1. \A p : is_reachable(p)' <=> is_reachable(p)
    BY <1>2 DEF is_reachable
  <2> QED  BY <1>2, <1>11, <1>12, <1>14, <2>1 DEF SearchInv, Searched
<1>16. RemovedInv'
  <2> SUFFICES ASSUME NEW p \in Block, NEW d \in Targets(func', p), func'.term[d].op = "removed"
               PROVE  pc' = "unreachable" /\ ~is_reachable(p)
    BY <1>2 DEF RemovedInv, is_reachable
  <2>1. p # b /\ d \in Targets(func, p) /\ d \in Block
    BY <1>11, <1>12, <1>13
  <2>2. ~is_reachable(p)
    <3>1. CASE d = b
      BY <1>3, <1>14, <2>1, <3>1
    <3>2. CASE d # b
      <4>1. func.term[d].op = "removed"
        BY <1>7, <2>1, <3>2
      <4> QED  BY <2>1, <4>1 DEF GInv, RemovedInv
    <3> QED  BY <3>1, <3>2
  <2>3. func.term[p].op # "removed"
    BY <1>4, <2>1, RemovedTargets
  <2>4. p \in gone
    BY <2>2, <2>3
  <2> QED  BY <1>1, <2>1, <2>2, <2>4
<1> QED  BY <1>9, <1>15, <1>16 DEF GInv

\* A pass replaces a terminator by one that names no removed block.
LEMMA ReplaceTerminatorKeeps ==
    ASSUME GInv, NEW b \in Block, NEW t \in Edits, ReplaceTerminator(b, t)
    PROVE  GInv'
<1>1. /\ pc = "done" /\ pc' = "compute" /\ func.edits > 0 /\ UNCHANGED computed
      /\ \A d \in ToSet(t.dests) : func.term[d].op # "removed"
      /\ func' = [term |-> [func.term EXCEPT ![b] = t],
                  inst |-> [func.inst EXCEPT ![b] = func.made],
                  made |-> func.made + 1, edits |-> func.edits - 1]
      /\ cfg' = recompute_block(cfg, func', b)
  BY DEF ReplaceTerminator
<1>2. FuncOK(func) /\ GraphOf(cfg, func, Block) /\ computed \in Nat
  BY <1>1 DEF GInv, FlowInv
<1>3. t \in Terminator
  OBVIOUS
<1>4. FuncOK(func')
  BY <1>1, <1>2, <1>3 DEF FuncOK
<1>5. \A p \in Block \ {b} : func.term[p] = func'.term[p] /\ func.inst[p] = func'.inst[p]
  BY <1>1, <1>2 DEF FuncOK
<1>6. GraphOf(cfg', func', Block)
  BY <1>1, <1>2, <1>4, <1>5, RecomputeFollows
<1>7. FlowInv'
  BY <1>1, <1>2, <1>4, <1>6 DEF FlowInv
<1>8. SearchInv'
  BY <1>1 DEF SearchInv, Searched
<1>9. RemovedInv'
  <2> SUFFICES ASSUME NEW p \in Block, NEW d \in Targets(func', p)
               PROVE  func'.term[d].op # "removed"
    BY DEF RemovedInv
  <2>1. d \in Block
    BY <1>4, TargetsType
  <2>2. func.term[d].op # "removed"
    <3>1. CASE p = b
      <4>1. Targets(func', p) = ToSet(t.dests)
        BY <1>1, <1>2, <3>1 DEF FuncOK, Targets, dests
      <4> QED  BY <1>1, <4>1
    <3>2. CASE p # b
      <4>1. d \in Targets(func, p)
        BY <1>5, <3>2 DEF Targets, dests
      <4> QED  BY <1>1, <4>1 DEF GInv, RemovedInv
    <3> QED  BY <3>1, <3>2
  <2>3. CASE d = b
    <3>1. func'.term[d] = t
      BY <1>1, <1>2, <2>3 DEF FuncOK
    <3> QED  BY <1>3, <3>1 DEF Terminator, Kind
  <2>4. CASE d # b
    BY <1>5, <2>1, <2>2, <2>4
  <2> QED  BY <2>3, <2>4
<1> QED  BY <1>7, <1>8, <1>9 DEF GInv

(***************************************************************************)
(* The theorems.                                                           *)
(***************************************************************************)

\* Every step keeps the invariant.
LEMMA GraphStep == ASSUME GInv, [Next]_vars PROVE GInv'
<1>1. CASE ComputeGraph
  BY <1>1, ComputeGraphKeeps
<1>2. CASE ComputeBegin
  BY <1>2, ComputeBeginKeeps
<1>3. CASE Enter
  BY <1>3, EnterKeeps
<1>4. CASE Exit
  BY <1>4, ExitKeeps
<1>5. CASE SpanningTreeDone
  BY <1>5, SpanningTreeDoneKeeps
<1>6. CASE ComputeSemi \/ SemiDone \/ ComputeIdom \/ ComputeLinks \/ AssignPreorder \/ PropagateMax
  BY <1>6, TreeKeeps
<1>7. CASE EliminateUnreachable
  BY <1>7, EliminateUnreachableKeeps
<1>8. CASE LoopNext
  <2>1. /\ UNCHANGED flowVars /\ pc \in {"loops", "loop_blocks"}
        /\ pc' \in {"loop_blocks", "order"}
    BY <1>8 DEF LoopNext, FindLoopHeaders, DiscoverNext, DiscoverBlock, AssignLoopLevels
  <2> QED  BY <2>1, OtherKept DEF Searched
<1>9. CASE OrderBegin \/ OrderBlock \/ OrderSuccessors
  <2>1. /\ UNCHANGED flowVars /\ pc \in {"order", "lowering"}
        /\ pc' \in {"lowering", "done"}
    BY <1>9 DEF OrderBegin, OrderBlock, OrderSuccessors
  <2> QED  BY <2>1, OtherKept DEF Searched
<1>10. ASSUME NEW b \in Block, NEW t \in Edits, ReplaceTerminator(b, t) PROVE GInv'
  BY <1>10, ReplaceTerminatorKeeps
<1>11. CASE UNCHANGED vars
  <2>1. UNCHANGED <<func, cfg, computed, pc, direction, stree, nodes, worklist>>
    BY <1>11 DEF vars, flowVars, domVars
  <2> QED  BY <2>1 DEF GInv, FlowInv, SearchInv, RemovedInv, is_reachable, Waiting
<1> QED  BY <1>1, <1>2, <1>3, <1>4, <1>5, <1>6, <1>7, <1>8, <1>9, <1>10, <1>11 DEF Next, DomNext

\* The invariant the theorems below rest on: the graph is that of the
\* terminators, the blocks the forward search visits are closed under
\* branches once it ends, and no branch that stays names a removed block.
THEOREM GraphInvariant == Spec => []GInv
BY GraphInit, GraphStep, PTL DEF Spec

\* add_edge, recompute_block: after any number of terminators were replaced and
\* blocks removed, in any order, the successors and predecessors are those the
\* terminators name, "even after the IR has been edited".
THEOREM GraphStaysTrue == Spec => []GraphFollowsEdits
<1>1. GInv => GraphFollowsEdits
  <2> SUFFICES ASSUME GInv, pc # "cfg", NEW b \in Block
               PROVE  /\ cfg.successors[b] = ToSet(dests(func, b))
                      /\ cfg.predecessors[b] = {[inst |-> func.inst[p], block |-> p] :
                            p \in {q \in Block : b \in ToSet(dests(func, q))}}
    BY DEF GraphFollowsEdits
  <2>1. GraphOf(cfg, func, Block)
    BY DEF GInv, FlowInv
  <2> QED  BY <2>1 DEF GraphOf, Targets, EdgeFrom
<1> QED  BY <1>1, GraphInvariant, PTL

\* eliminate_unreachable_code asks the tree that was computed before it for
\* reachability and updates the graph block by block: the blocks it removes end
\* with no edge, and none is removed that a remaining branch names.
THEOREM RemovedStayIsolated == Spec => []RemovedIsolated
<1>1. GInv => RemovedIsolated
  <2> SUFFICES ASSUME GInv, pc # "unreachable", NEW b \in Block, func.term[b].op = "removed"
               PROVE  cfg.successors[b] = {} /\ cfg.predecessors[b] = {}
    BY DEF RemovedIsolated
  <2> DEFINE S == IF pc = "cfg" THEN 0 .. (computed - 1) ELSE Block
  <2>1. FuncOK(func) /\ GraphOf(cfg, func, S)
    BY DEF GInv, FlowInv
  <2>2. S \subseteq Block
    BY DEF GInv, FlowInv, Block
  <2>3. Targets(func, b) = {}
    BY <2>1, RemovedTargets
  <2>4. \A p \in Block : b \notin Targets(func, p)
    BY DEF GInv, RemovedInv
  <2> HIDE DEF S
  <2> QED  BY <2>1, <2>2, <2>3, <2>4 DEF GraphOf
<1> QED  BY <1>1, GraphInvariant, PTL

(***************************************************************************)
(* What is reached from the entry.                                         *)
(***************************************************************************)

\* reached, for the function f.
ReachedIn(f, avoid) ==
    LET r[k \in 0 .. NumBlocks] ==
            IF k = 0 THEN {0} \ avoid
            ELSE LET q == r[k - 1]
                 IN  q \cup ((UNION {ToSet(dests(f, b)) : b \in q}) \ avoid)
    IN  r[NumBlocks]

\* One more branch from the blocks of q.
Further(f, q, avoid) == q \cup ((UNION {Targets(f, b) : b \in q}) \ avoid)

\* r solves the recursion of ReachedIn up to n.
ReachUpTo(r, f, avoid, n) ==
    r = [k \in 0 .. n |-> IF k = 0 THEN {0} \ avoid ELSE Further(f, r[k - 1], avoid)]

\* There is a solution.
LEMMA ReachExists ==
    ASSUME NEW f, NEW avoid, NEW n \in Nat
    PROVE  \E r : ReachUpTo(r, f, avoid, n)
<1> DEFINE C == {m \in Nat : ~\E r : ReachUpTo(r, f, avoid, m)}
<1>1. C = {}
  <2> SUFFICES ASSUME C # {} PROVE FALSE
    OBVIOUS
  <2>1. PICK m \in C : \A k \in C : m <= k
    BY NatMin
  <2>2. m \in Nat
    OBVIOUS
  <2>3. CASE m = 0
    <3>1. ReachUpTo([k \in 0 .. 0 |-> {0} \ avoid], f, avoid, 0)
      BY DEF ReachUpTo
    <3> QED  BY <2>3, <3>1
  <2>4. CASE m # 0
    <3>1. m - 1 \in Nat /\ m - 1 \notin C
      <4> HIDE DEF C
      <4> QED  BY <2>1, <2>2, <2>4
    <3>2. PICK g : ReachUpTo(g, f, avoid, m - 1)
      BY <3>1
    <3> DEFINE top == Further(f, g[m - 1], avoid)
               G == [k \in 0 .. m |-> IF k = m THEN top ELSE g[k]]
    <3> HIDE DEF top
    <3>3. ASSUME NEW k \in 0 .. m
          PROVE  G[k] = IF k = 0 THEN {0} \ avoid ELSE Further(f, G[k - 1], avoid)
      <4>1. CASE k = m
        <5>1. G[k] = top /\ G[k - 1] = g[m - 1]
          BY <2>2, <2>4, <4>1
        <5> QED  BY <2>4, <4>1, <5>1 DEF top
      <4>2. CASE k # m
        <5>1. k \in 0 .. (m - 1)
          BY <2>2, <4>2
        <5>2. G[k] = g[k] /\ (k # 0 => G[k - 1] = g[k - 1])
          BY <2>2, <5>1
        <5>3. g[k] = IF k = 0 THEN {0} \ avoid ELSE Further(f, g[k - 1], avoid)
          BY <3>2, <5>1 DEF ReachUpTo
        <5> HIDE DEF G
        <5> QED  BY <5>2, <5>3
      <4> QED  BY <4>1, <4>2
    <3>4. G = [k \in 0 .. m |-> G[k]]
      OBVIOUS
    <3>5. ReachUpTo(G, f, avoid, m)
      <4> HIDE DEF G
      <4> QED  BY <3>3, <3>4 DEF ReachUpTo
    <3> QED  BY <3>5
  <2> QED  BY <2>3, <2>4
<1> QED  BY <1>1

\* What is reached holds the entry, is closed under branches, and is the least
\* such set of blocks.
LEMMA ReachedFacts ==
    ASSUME NEW f, FuncOK(f), NEW avoid
    PROVE  /\ ReachedIn(f, avoid) \subseteq Block \ avoid
           /\ 0 \notin avoid => 0 \in ReachedIn(f, avoid)
           /\ \A b \in ReachedIn(f, avoid) : \A d \in Targets(f, b) :
                 d \notin avoid => d \in ReachedIn(f, avoid)
           /\ \A S : {0} \ avoid \subseteq S /\ (\A b \in S : Targets(f, b) \ avoid \subseteq S)
                 => ReachedIn(f, avoid) \subseteq S
<1> DEFINE Eq(r) == ReachUpTo(r, f, avoid, NumBlocks)
           u == CHOOSE r : Eq(r)
<1>1. ReachedIn(f, avoid) = u[NumBlocks]
  BY Zenon DEF ReachedIn, ReachUpTo, Further, Targets
<1>2. Eq(u)
  <2>1. \E r : Eq(r)
    BY ReachExists
  <2> HIDE DEF Eq
  <2> QED  BY <2>1
<1> HIDE DEF u
<1>3. /\ u[0] = {0} \ avoid
      /\ \A k \in 1 .. NumBlocks : u[k] = Further(f, u[k - 1], avoid)
  <2>1. \A k \in 0 .. NumBlocks :
            u[k] = IF k = 0 THEN {0} \ avoid ELSE Further(f, u[k - 1], avoid)
    BY <1>2 DEF ReachUpTo
  <2> HIDE DEF Eq
  <2> QED  BY <2>1
<1> HIDE DEF Eq
<1>4. 0 \in Block
  BY DEF Block
<1>5. ASSUME NEW S, {0} \ avoid \subseteq S, \A b \in S : Targets(f, b) \ avoid \subseteq S,
             NEW k \in 0 .. NumBlocks
      PROVE  u[k] \subseteq S
  <2> DEFINE C == {m \in Nat : m <= NumBlocks /\ ~(u[m] \subseteq S)}
  <2>1. C = {}
    <3> SUFFICES ASSUME C # {} PROVE FALSE
      OBVIOUS
    <3>1. PICK m \in C : \A j \in C : m <= j
      BY NatMin
    <3>2. m \in Nat /\ m <= NumBlocks /\ ~(u[m] \subseteq S)
      OBVIOUS
    <3>3. m # 0
      BY <1>3, <1>5, <3>2
    <3>4. m - 1 \in Nat /\ m - 1 <= NumBlocks /\ m - 1 \notin C
      <4> HIDE DEF C
      <4> QED  BY <3>1, <3>2, <3>3
    <3>5. u[m - 1] \subseteq S
      BY <3>4
    <3>6. u[m] = Further(f, u[m - 1], avoid)
      BY <1>3, <3>2, <3>3
    <3>7. (UNION {Targets(f, b) : b \in u[m - 1]}) \ avoid \subseteq S
      BY <1>5, <3>5
    <3> QED  BY <3>2, <3>5, <3>6, <3>7 DEF Further
  <2> QED  BY <2>1
<1>6. ASSUME NEW k \in 0 .. NumBlocks PROVE u[k] \subseteq Block \ avoid
  <2>1. \A b \in Block \ avoid : Targets(f, b) \ avoid \subseteq Block \ avoid
    BY TargetsType
  <2>2. {0} \ avoid \subseteq Block \ avoid
    BY <1>4
  <2> DEFINE S == Block \ avoid
  <2> HIDE DEF S
  <2> QED  BY <1>5, <2>1, <2>2 DEF S
<1>7. ASSUME NEW i \in 0 .. NumBlocks, NEW k \in 0 .. NumBlocks, i <= k PROVE u[i] \subseteq u[k]
  <2> DEFINE C == {m \in Nat : i <= m /\ m <= NumBlocks /\ ~(u[i] \subseteq u[m])}
  <2>1. C = {}
    <3> SUFFICES ASSUME C # {} PROVE FALSE
      OBVIOUS
    <3>1. PICK m \in C : \A j \in C : m <= j
      BY NatMin
    <3>2. m \in Nat /\ i <= m /\ m <= NumBlocks /\ ~(u[i] \subseteq u[m]) /\ m # i
      OBVIOUS
    <3>3. m - 1 \in Nat /\ i <= m - 1 /\ m - 1 <= NumBlocks /\ m - 1 \notin C
      <4> HIDE DEF C
      <4> QED  BY <3>1, <3>2
    <3>4. u[i] \subseteq u[m - 1]
      BY <3>3
    <3>5. u[m] = Further(f, u[m - 1], avoid)
      BY <1>3, <3>2, <3>3
    <3> QED  BY <3>2, <3>4, <3>5 DEF Further
  <2> QED  BY <1>7, <2>1
\* As long as the sets grow there are more blocks than steps.
<1>8. \E k \in 1 .. NumBlocks : u[k] = u[k - 1]
  <2> SUFFICES ASSUME \A k \in 1 .. NumBlocks : u[k] # u[k - 1] PROVE FALSE
    OBVIOUS
  <2>1. CASE u[0] = {}
    <3>1. u[1] = {}
      BY <1>3, <2>1 DEF Further
    <3>2. 1 \in 1 .. NumBlocks
      OBVIOUS
    <3>3. u[1] # u[1 - 1]
      BY <3>2
    <3> QED  BY <2>1, <3>1, <3>3
  <2>2. CASE u[0] # {}
    <3>1. IsFiniteSet(Block) /\ Cardinality(Block) = NumBlocks
      BY FS_Interval DEF Block
    <3>2. \A k \in 0 .. NumBlocks : IsFiniteSet(u[k]) /\ Cardinality(u[k]) <= NumBlocks
      <4> SUFFICES ASSUME NEW k \in 0 .. NumBlocks
                   PROVE  IsFiniteSet(u[k]) /\ Cardinality(u[k]) <= NumBlocks
        OBVIOUS
      <4>1. u[k] \subseteq Block
        BY <1>6
      <4> QED  BY <3>1, <4>1, FS_Subset
    <3> DEFINE C == {m \in Nat : m <= NumBlocks /\ ~(m + 1 <= Cardinality(u[m]))}
    <3>3. C = {}
      <4> SUFFICES ASSUME C # {} PROVE FALSE
        OBVIOUS
      <4>1. PICK m \in C : \A j \in C : m <= j
        BY NatMin
      <4>2. m \in Nat /\ m <= NumBlocks /\ ~(m + 1 <= Cardinality(u[m]))
        OBVIOUS
      <4>3. Cardinality(u[m]) \in Nat
        BY <3>2, <4>2, FS_CardinalityType
      <4>4. m # 0
        <5>1. Cardinality(u[0]) # 0
          BY <2>2, <3>2, FS_EmptySet
        <5> QED  BY <4>2, <4>3, <5>1
      <4>5. m - 1 \in Nat /\ m - 1 <= NumBlocks /\ m - 1 \notin C
        <5> HIDE DEF C
        <5> QED  BY <4>1, <4>2, <4>4
      <4>6. m <= Cardinality(u[m - 1])
        BY <4>5
      <4>7. u[m - 1] \subseteq u[m] /\ u[m - 1] # u[m]
        <5>1. m \in 1 .. NumBlocks /\ m - 1 \in 0 .. NumBlocks /\ m \in 0 .. NumBlocks
          BY <4>2, <4>4
        <5> QED  BY <1>7, <5>1
      <4>8. Cardinality(u[m - 1]) < Cardinality(u[m])
        <5>1. IsFiniteSet(u[m])
          BY <3>2, <4>2
        <5>2. u[m - 1] \in SUBSET u[m]
          BY <4>7
        <5>3. /\ Cardinality(u[m - 1]) <= Cardinality(u[m])
              /\ Cardinality(u[m]) = Cardinality(u[m - 1]) => u[m] = u[m - 1]
          BY <5>1, <5>2, FS_Subset
        <5>4. Cardinality(u[m - 1]) \in Nat
          BY <3>2, <4>5, FS_CardinalityType
        <5> QED  BY <4>3, <4>7, <5>3, <5>4
      <4>9. Cardinality(u[m - 1]) \in Nat
        BY <3>2, <4>5, FS_CardinalityType
      <4> QED  BY <4>2, <4>3, <4>6, <4>8, <4>9
    <3>4. NumBlocks + 1 <= Cardinality(u[NumBlocks])
      BY <3>3
    <3>5. Cardinality(u[NumBlocks]) \in Nat /\ Cardinality(u[NumBlocks]) <= NumBlocks
      BY <3>2, FS_CardinalityType
    <3> QED  BY <3>4, <3>5
  <2> QED  BY <2>1, <2>2
<1>9. \A b \in u[NumBlocks] : Targets(f, b) \ avoid \subseteq u[NumBlocks]
  <2>1. PICK k \in 1 .. NumBlocks : u[k] = u[k - 1]
    BY <1>8
  <2>2. k \in 0 .. NumBlocks /\ k - 1 \in 0 .. NumBlocks /\ k <= NumBlocks /\ 0 <= k
    OBVIOUS
  <2>3. u[k] \subseteq u[NumBlocks] /\ u[0] \subseteq u[k]
    BY <1>7, <2>2
  <2>4. \A b \in u[k] : Targets(f, b) \ avoid \subseteq u[k]
    <3>1. u[k] = u[k] \cup ((UNION {Targets(f, b) : b \in u[k]}) \ avoid)
      BY <1>3, <2>1 DEF Further
    <3> QED  BY <3>1
  <2>5. {0} \ avoid \subseteq u[k]
    BY <1>3, <2>3
  <2>6. u[NumBlocks] \subseteq u[k]
    <3> DEFINE S == u[k]
    <3>1. NumBlocks \in 0 .. NumBlocks
      OBVIOUS
    <3> HIDE DEF S
    <3> QED  BY <1>5, <2>4, <2>5, <3>1 DEF S
  <2> QED  BY <2>3, <2>4, <2>6
<1>10. u[0] \subseteq u[NumBlocks]
  BY <1>7
<1> QED  BY <1>1, <1>3, <1>5, <1>6, <1>9, <1>10

\* reached is ReachedIn the function as it is.
LEMMA ReachedNow == \A avoid : reached(avoid) = ReachedIn(func, avoid)
BY Zenon DEF reached, ReachedIn, dests

(***************************************************************************)
(* The order in which the search leaves the blocks.                        *)
(***************************************************************************)

\* The item q of the stack leaves b.
LeavesAt(wl, q, b) == wl[q].event = "exit" /\ wl[q].block = b

\* The search has left b.
HasLeft(po, b) == \E m \in 1 .. Len(po) : po[m] = b

\* The stack wl, the postorder po and the visited blocks V of a search.  As long
\* as a block a was not visited, everything visited is reached without it; what
\* was visited between entering and leaving a was left before a; and once a was
\* left, what is still to be entered was visited or is reached without a.
SearchOf(f, wl, po, V) ==
    /\ wl \in Seq(WorkItem) /\ po \in Seq(Block) /\ V \subseteq ReachedIn(f, {})
    /\ 0 \in V \/ \E i \in 1 .. Len(wl) : wl[i].event = "enter" /\ wl[i].block = 0
    /\ \A i \in 1 .. Len(wl) :
          /\ wl[i].block \in ReachedIn(f, {})
          /\ wl[i].event = "exit" => wl[i].block \in V /\ ~HasLeft(po, wl[i].block)
    /\ \A i, j \in 1 .. Len(wl) : wl[i].event = "exit" /\ LeavesAt(wl, j, wl[i].block) => i = j
    /\ \A i, j \in 1 .. Len(po) : po[i] = po[j] => i = j
    /\ \A i \in 1 .. Len(po) : po[i] \in V
    /\ \A b \in V : HasLeft(po, b) \/ \E q \in 1 .. Len(wl) : LeavesAt(wl, q, b)
    /\ \A a \in Block \ V :
          /\ V \subseteq ReachedIn(f, {a})
          /\ \A i \in 1 .. Len(wl) : wl[i].block = a \/ wl[i].block \in ReachedIn(f, {a})
    /\ \A p \in 1 .. Len(wl) : \A a \in Block : LeavesAt(wl, p, a) =>
          /\ \A q \in (p + 1) .. Len(wl) : wl[q].block = a \/ wl[q].block \in ReachedIn(f, {a})
          /\ \A b \in V \ ReachedIn(f, {a}) : b = a \/ HasLeft(po, b)
                \/ \E q \in 1 .. (p - 1) : LeavesAt(wl, q, b)
    /\ \A m \in 1 .. Len(po) :
          /\ \A i \in 1 .. Len(wl) : wl[i].block \in V \/ wl[i].block \in ReachedIn(f, {po[m]})
          /\ \A b \in V \ ReachedIn(f, {po[m]}) : b = po[m] \/ \E k \in 1 .. (m - 1) : po[k] = b

\* An item is dropped whose block was visited.
LEMMA SearchDrops ==
    ASSUME NEW f, FuncOK(f), NEW wl, NEW po, NEW V, SearchOf(f, wl, po, V), wl # <<>>,
           Head(wl).event = "enter", Head(wl).block \in V
    PROVE  SearchOf(f, Tail(wl), po, V)
<1> DEFINE w == Tail(wl)
<1>1. /\ wl \in Seq(WorkItem) /\ w \in Seq(WorkItem)
      /\ Len(wl) \in Nat /\ Len(w) = Len(wl) - 1 /\ wl[1] = Head(wl)
      /\ \A i \in 1 .. Len(w) : i + 1 \in 1 .. Len(wl) /\ w[i] = wl[i + 1]
      /\ \A i \in 1 .. Len(wl) : i # 1 => i - 1 \in 1 .. Len(w) /\ w[i - 1] = wl[i]
  BY DEF SearchOf
<1> HIDE DEF w
<1>2. wl[1].event # "exit" /\ wl[1].block \in V
  BY <1>1
<1>3. 0 \in V \/ \E i \in 1 .. Len(w) : w[i].event = "enter" /\ w[i].block = 0
  <2>1. 0 \in V \/ \E i \in 1 .. Len(wl) : wl[i].event = "enter" /\ wl[i].block = 0
    BY DEF SearchOf
  <2>2. ASSUME NEW i \in 1 .. Len(wl), wl[i].event = "enter", wl[i].block = 0, 0 \notin V
        PROVE  i - 1 \in 1 .. Len(w) /\ w[i - 1] = wl[i]
    <3>1. i # 1
      BY <1>2, <2>2
    <3> QED  BY <1>1, <3>1
  <2> QED  BY <2>1, <2>2
<1>4. \A i \in 1 .. Len(w) :
          /\ w[i].block \in ReachedIn(f, {})
          /\ w[i].event = "exit" => w[i].block \in V /\ ~HasLeft(po, w[i].block)
  BY <1>1 DEF SearchOf
<1>5. ASSUME NEW i \in 1 .. Len(w), NEW j \in 1 .. Len(w), w[i].event = "exit",
             LeavesAt(w, j, w[i].block)
      PROVE  i = j
  <2>1. i + 1 = j + 1
    BY <1>1, <1>5 DEF SearchOf, LeavesAt
  <2> QED  BY <2>1
<1>6. ASSUME NEW b, NEW q \in 1 .. Len(wl), LeavesAt(wl, q, b)
      PROVE  q # 1 /\ q - 1 \in 1 .. Len(w) /\ LeavesAt(w, q - 1, b)
  BY <1>1, <1>2, <1>6 DEF LeavesAt
<1>7. \A b \in V : HasLeft(po, b) \/ \E q \in 1 .. Len(w) : LeavesAt(w, q, b)
  <2>1. \A b \in V : HasLeft(po, b) \/ \E q \in 1 .. Len(wl) : LeavesAt(wl, q, b)
    BY DEF SearchOf
  <2> QED  BY <1>6, <2>1
<1>8. \A a \in Block \ V :
          /\ V \subseteq ReachedIn(f, {a})
          /\ \A i \in 1 .. Len(w) : w[i].block = a \/ w[i].block \in ReachedIn(f, {a})
  <2>1. \A a \in Block \ V :
          /\ V \subseteq ReachedIn(f, {a})
          /\ \A i \in 1 .. Len(wl) : wl[i].block = a \/ wl[i].block \in ReachedIn(f, {a})
    BY DEF SearchOf
  <2> QED  BY ZenonT(60), <1>1, <2>1
<1>9. ASSUME NEW p \in 1 .. Len(w), NEW a \in Block, LeavesAt(w, p, a)
      PROVE  /\ \A q \in (p + 1) .. Len(w) : w[q].block = a \/ w[q].block \in ReachedIn(f, {a})
             /\ \A b \in V \ ReachedIn(f, {a}) : b = a \/ HasLeft(po, b)
                   \/ \E q \in 1 .. (p - 1) : LeavesAt(w, q, b)
  <2>0. Len(w) \in Nat /\ Len(wl) = Len(w) + 1 /\ \A i \in 1 .. Len(w) : w[i] = wl[i + 1]
    BY <1>1
  <2>1. PICK k \in 1 .. Len(wl) : k = p + 1 /\ LeavesAt(wl, k, a)
    BY <1>9, <2>0 DEF LeavesAt
  <2>2. /\ \A q \in (k + 1) .. Len(wl) : wl[q].block = a \/ wl[q].block \in ReachedIn(f, {a})
        /\ \A b \in V \ ReachedIn(f, {a}) : b = a \/ HasLeft(po, b)
                   \/ \E q \in 1 .. (k - 1) : LeavesAt(wl, q, b)
    <3>1. \A r \in 1 .. Len(wl) : LeavesAt(wl, r, a) =>
            /\ \A q \in (r + 1) .. Len(wl) : wl[q].block = a \/ wl[q].block \in ReachedIn(f, {a})
            /\ \A b \in V \ ReachedIn(f, {a}) : b = a \/ HasLeft(po, b)
                     \/ \E q \in 1 .. (r - 1) : LeavesAt(wl, q, b)
      BY DEF SearchOf
    <3> QED  BY <2>1, <3>1, Zenon
  <2>3. ASSUME NEW q \in (p + 1) .. Len(w)
        PROVE  w[q].block = a \/ w[q].block \in ReachedIn(f, {a})
    <3>1. q + 1 \in (k + 1) .. Len(wl) /\ q \in 1 .. Len(w)
      BY <2>0, <2>1
    <3>2. w[q] = wl[q + 1]
      BY <2>0, <3>1
    <3> QED  BY <2>2, <3>1, <3>2
  <2>4. ASSUME NEW b \in V \ ReachedIn(f, {a}), b # a, ~HasLeft(po, b)
        PROVE  \E q \in 1 .. (p - 1) : LeavesAt(w, q, b)
    <3>1. PICK q \in 1 .. (k - 1) : LeavesAt(wl, q, b)
      BY <2>2, <2>4
    <3>2. q \in 1 .. Len(wl)
      BY <2>0, <2>1
    <3>3. q # 1 /\ LeavesAt(w, q - 1, b)
      BY <1>6, <3>1, <3>2
    <3>4. q - 1 \in 1 .. (p - 1)
      BY <2>1, <3>3
    <3> QED  BY <3>3, <3>4
  <2> QED  BY <2>3, <2>4
<1>10. \A m \in 1 .. Len(po) :
          /\ \A i \in 1 .. Len(w) : w[i].block \in V \/ w[i].block \in ReachedIn(f, {po[m]})
          /\ \A b \in V \ ReachedIn(f, {po[m]}) : b = po[m] \/ \E k \in 1 .. (m - 1) : po[k] = b
  <2>1. \A m \in 1 .. Len(po) :
          /\ \A i \in 1 .. Len(wl) : wl[i].block \in V \/ wl[i].block \in ReachedIn(f, {po[m]})
          /\ \A b \in V \ ReachedIn(f, {po[m]}) : b = po[m] \/ \E k \in 1 .. (m - 1) : po[k] = b
    BY DEF SearchOf
  <2> QED  BY ZenonT(60), <1>1, <2>1
<1>11. SearchOf(f, w, po, V)
  BY <1>1, <1>3, <1>4, <1>5, <1>7, <1>8, <1>9, <1>10 DEF SearchOf
<1> QED  BY <1>11 DEF w

\* A block is left.
LEMMA SearchLeaves ==
    ASSUME NEW f, FuncOK(f), NEW wl, NEW po, NEW V, SearchOf(f, wl, po, V), wl # <<>>,
           Head(wl).event = "exit"
    PROVE  SearchOf(f, Tail(wl), Append(po, Head(wl).block), V)
<1> DEFINE w == Tail(wl)
           c == Head(wl).block
           o == Append(po, c)
<1>1. /\ wl \in Seq(WorkItem) /\ w \in Seq(WorkItem)
      /\ Len(wl) \in Nat /\ Len(w) = Len(wl) - 1 /\ wl[1] = Head(wl)
      /\ \A i \in 1 .. Len(w) : i + 1 \in 1 .. Len(wl) /\ w[i] = wl[i + 1]
      /\ \A i \in 1 .. Len(wl) : i # 1 => i - 1 \in 1 .. Len(w) /\ w[i - 1] = wl[i]
  BY DEF SearchOf
<1>2. /\ LeavesAt(wl, 1, c) /\ 1 \in 1 .. Len(wl) /\ c \in Block
  <2>1. Head(wl) \in WorkItem
    BY <1>1
  <2> QED  BY <1>1, <2>1 DEF LeavesAt, WorkItem
<1>3. c \in V /\ ~HasLeft(po, c)
  BY <1>1, <1>2 DEF SearchOf, LeavesAt
<1> HIDE DEF c
<1>4. /\ po \in Seq(Block) /\ o \in Seq(Block) /\ Len(po) \in Nat /\ Len(o) = Len(po) + 1
      /\ o[Len(o)] = c
      /\ \A i \in 1 .. Len(po) : i \in 1 .. Len(o) /\ o[i] = po[i]
      /\ \A i \in 1 .. Len(o) : i # Len(o) => i \in 1 .. Len(po)
  BY <1>2 DEF SearchOf
<1> HIDE DEF w, o
<1>5. \A b : HasLeft(o, b) <=> HasLeft(po, b) \/ b = c
  <2>1. ASSUME NEW b, HasLeft(po, b) PROVE HasLeft(o, b)
    BY <1>4, <2>1 DEF HasLeft
  <2>2. HasLeft(o, c)
    <3>1. Len(o) \in 1 .. Len(o)
      BY <1>4
    <3> QED  BY <1>4, <3>1 DEF HasLeft
  <2>3. ASSUME NEW b, HasLeft(o, b), b # c PROVE HasLeft(po, b)
    BY <1>4, <2>3 DEF HasLeft
  <2> QED  BY <2>1, <2>2, <2>3
<1>6. 0 \in V \/ \E i \in 1 .. Len(w) : w[i].event = "enter" /\ w[i].block = 0
  <2>1. 0 \in V \/ \E i \in 1 .. Len(wl) : wl[i].event = "enter" /\ wl[i].block = 0
    BY DEF SearchOf
  <2>2. ASSUME NEW i \in 1 .. Len(wl), wl[i].event = "enter"
        PROVE  i - 1 \in 1 .. Len(w) /\ w[i - 1] = wl[i]
    <3>1. i # 1
      BY <1>2, <2>2 DEF LeavesAt
    <3> QED  BY <1>1, <3>1
  <2> QED  BY <2>1, <2>2
<1>7. ASSUME NEW i \in 1 .. Len(w)
      PROVE  /\ w[i].block \in ReachedIn(f, {})
             /\ w[i].event = "exit" => w[i].block \in V /\ ~HasLeft(o, w[i].block)
  <2>1. w[i] = wl[i + 1] /\ i + 1 \in 1 .. Len(wl) /\ i + 1 # 1
    BY <1>1
  <2>2. w[i].event = "exit" => w[i].block # c
    BY <1>2, <2>1 DEF SearchOf, LeavesAt
  <2> QED  BY <1>5, <2>1, <2>2 DEF SearchOf
<1>8. ASSUME NEW i \in 1 .. Len(w), NEW j \in 1 .. Len(w), w[i].event = "exit",
             LeavesAt(w, j, w[i].block)
      PROVE  i = j
  <2>1. i + 1 = j + 1
    BY <1>1, <1>8 DEF SearchOf, LeavesAt
  <2> QED  BY <2>1
<1>9. ASSUME NEW i \in 1 .. Len(o), NEW j \in 1 .. Len(o), o[i] = o[j]
      PROVE  i = j
  <2>1. \A k \in 1 .. Len(po) : po[k] # c
    BY <1>3 DEF HasLeft
  <2>2. \A k \in 1 .. Len(o) : k # Len(o) => o[k] # c
    BY <1>4, <2>1
  <2>3. \A k, l \in 1 .. Len(po) : po[k] = po[l] => k = l
    BY DEF SearchOf
  <2> QED  BY <1>4, <1>9, <2>2, <2>3
<1>10. \A i \in 1 .. Len(o) : o[i] \in V
  BY <1>3, <1>4 DEF SearchOf
<1>11. ASSUME NEW b, NEW q \in 1 .. Len(wl), LeavesAt(wl, q, b), b # c
       PROVE  q # 1 /\ q - 1 \in 1 .. Len(w) /\ LeavesAt(w, q - 1, b)
  BY <1>1, <1>2, <1>11 DEF LeavesAt
<1>12. \A b \in V : HasLeft(o, b) \/ \E q \in 1 .. Len(w) : LeavesAt(w, q, b)
  <2>1. \A b \in V : HasLeft(po, b) \/ \E q \in 1 .. Len(wl) : LeavesAt(wl, q, b)
    BY DEF SearchOf
  <2> QED  BY <1>5, <1>11, <2>1
<1>13. \A a \in Block \ V :
          /\ V \subseteq ReachedIn(f, {a})
          /\ \A i \in 1 .. Len(w) : w[i].block = a \/ w[i].block \in ReachedIn(f, {a})
  <2>1. \A a \in Block \ V :
          /\ V \subseteq ReachedIn(f, {a})
          /\ \A i \in 1 .. Len(wl) : wl[i].block = a \/ wl[i].block \in ReachedIn(f, {a})
    BY DEF SearchOf
  <2> QED  BY SMTT(60), <1>1, <2>1
<1>14. ASSUME NEW p \in 1 .. Len(w), NEW a \in Block, LeavesAt(w, p, a)
      PROVE  /\ \A q \in (p + 1) .. Len(w) : w[q].block = a \/ w[q].block \in ReachedIn(f, {a})
             /\ \A b \in V \ ReachedIn(f, {a}) : b = a \/ HasLeft(o, b)
                   \/ \E q \in 1 .. (p - 1) : LeavesAt(w, q, b)
  <2>1. p + 1 \in 1 .. Len(wl) /\ LeavesAt(wl, p + 1, a)
    BY <1>1, <1>14 DEF LeavesAt
  <2>2. /\ \A q \in (p + 1 + 1) .. Len(wl) : wl[q].block = a \/ wl[q].block \in ReachedIn(f, {a})
        /\ \A b \in V \ ReachedIn(f, {a}) : b = a \/ HasLeft(po, b)
                   \/ \E q \in 1 .. (p + 1 - 1) : LeavesAt(wl, q, b)
    BY <2>1 DEF SearchOf
  <2>3. ASSUME NEW q \in (p + 1) .. Len(w)
        PROVE  w[q].block = a \/ w[q].block \in ReachedIn(f, {a})
    <3>1. q + 1 \in (p + 1 + 1) .. Len(wl) /\ q \in 1 .. Len(w)
      BY <1>1
    <3> QED  BY <1>1, <2>2, <3>1
  <2>4. ASSUME NEW b \in V \ ReachedIn(f, {a}), b # a, ~HasLeft(o, b)
        PROVE  \E q \in 1 .. (p - 1) : LeavesAt(w, q, b)
    <3>1. PICK q \in 1 .. (p + 1 - 1) : LeavesAt(wl, q, b)
      BY <1>5, <2>2, <2>4
    <3>2. q \in 1 .. Len(wl)
      BY <1>1
    <3>3. q # 1 /\ LeavesAt(w, q - 1, b)
      BY <1>5, <1>11, <2>4, <3>1, <3>2
    <3>4. q - 1 \in 1 .. (p - 1)
      BY <3>3
    <3> QED  BY <3>3, <3>4
  <2> QED  BY <2>3, <2>4
<1>15. ASSUME NEW m \in 1 .. Len(o)
       PROVE  /\ \A i \in 1 .. Len(w) : w[i].block \in V \/ w[i].block \in ReachedIn(f, {o[m]})
              /\ \A b \in V \ ReachedIn(f, {o[m]}) : b = o[m] \/ \E k \in 1 .. (m - 1) : o[k] = b
  <2>1. CASE m # Len(o)
    <3>1. m \in 1 .. Len(po) /\ o[m] = po[m]
      BY <1>4, <2>1
    <3>2. /\ \A i \in 1 .. Len(wl) : wl[i].block \in V \/ wl[i].block \in ReachedIn(f, {po[m]})
          /\ \A b \in V \ ReachedIn(f, {po[m]}) : b = po[m] \/ \E k \in 1 .. (m - 1) : po[k] = b
      BY <3>1 DEF SearchOf
    <3>3. \A k \in 1 .. (m - 1) : k \in 1 .. Len(po)
      BY <3>1
    <3> QED  BY <1>1, <1>4, <3>1, <3>2, <3>3
  <2>2. CASE m = Len(o)
    <3>1. /\ \A q \in (1 + 1) .. Len(wl) : wl[q].block = c \/ wl[q].block \in ReachedIn(f, {c})
          /\ \A b \in V \ ReachedIn(f, {c}) : b = c \/ HasLeft(po, b)
                   \/ \E q \in 1 .. (1 - 1) : LeavesAt(wl, q, b)
      BY <1>2 DEF SearchOf
    <3>2. o[m] = c /\ 1 .. (m - 1) = 1 .. Len(po)
      BY <1>4, <2>2
    <3>3. ASSUME NEW i \in 1 .. Len(w)
          PROVE  w[i].block \in V \/ w[i].block \in ReachedIn(f, {c})
      <4>1. i + 1 \in (1 + 1) .. Len(wl)
        BY <1>1
      <4> QED  BY <1>1, <1>3, <3>1, <4>1
    <3>4. ASSUME NEW b \in V \ ReachedIn(f, {c}), b # c
          PROVE  \E k \in 1 .. Len(po) : o[k] = b
      <4>1. HasLeft(po, b)
        <5>1. \A q \in 1 .. (1 - 1) : FALSE
          OBVIOUS
        <5> QED  BY <3>1, <3>4, <5>1
      <4> QED  BY <1>4, <4>1 DEF HasLeft
    <3> QED  BY <3>2, <3>3, <3>4
  <2> QED  BY <2>1, <2>2
<1>16. SearchOf(f, w, o, V)
  <2>1. V \subseteq ReachedIn(f, {})
    BY DEF SearchOf
  <2> QED  BY <1>1, <1>4, <1>6, <1>7, <1>8, <1>9, <1>10, <1>12, <1>13, <1>14, <1>15, <2>1
           DEF SearchOf
<1> QED  BY <1>16 DEF w, o, c

\* A block is entered, and the blocks its branches lead to are put on the stack.
LEMMA SearchEnters ==
    ASSUME NEW f, FuncOK(f), NEW wl, NEW po, NEW V, SearchOf(f, wl, po, V), wl # <<>>,
           Head(wl).event = "enter", Head(wl).block \notin V, NEW es \in Seq(WorkItem),
           \A m \in 1 .. Len(es) : es[m].event = "enter" /\ es[m].block \in Targets(f, Head(wl).block)
    PROVE  SearchOf(f, es \o <<exit(Head(wl).block)>> \o Tail(wl), po, V \cup {Head(wl).block})
<1> DEFINE b == Head(wl).block
           w == es \o <<exit(b)>> \o Tail(wl)
           M == Len(es)
           W == V \cup {b}
<1>1. /\ wl \in Seq(WorkItem) /\ Len(wl) \in Nat /\ wl[1] = Head(wl) /\ 1 \in 1 .. Len(wl)
      /\ Tail(wl) \in Seq(WorkItem) /\ Len(Tail(wl)) = Len(wl) - 1
      /\ \A i \in 1 .. Len(Tail(wl)) : Tail(wl)[i] = wl[i + 1]
  BY DEF SearchOf
<1>2. b \in Block /\ Head(wl) \in WorkItem
  <2>1. Head(wl) \in WorkItem
    BY <1>1
  <2> QED  BY <2>1 DEF WorkItem
<1>3. exit(b) \in WorkItem /\ exit(b).event = "exit" /\ exit(b).block = b
  BY <1>2 DEF exit, WorkItem
<1>4. M \in Nat
  OBVIOUS
<1>5. /\ w \in Seq(WorkItem) /\ Len(w) = M + Len(wl)
      /\ \A i \in 1 .. M : w[i] = es[i]
      /\ w[M + 1] = exit(b)
      /\ \A i \in (M + 2) .. Len(w) : w[i] = Tail(wl)[i - M - 1]
  <2> DEFINE T == Tail(wl)
             x == exit(b)
  <2>1. T \in Seq(WorkItem) /\ Len(T) = Len(wl) - 1 /\ x \in WorkItem
    BY <1>1, <1>3
  <2>2. w = es \o <<x>> \o T
    OBVIOUS
  <2> HIDE DEF w, T, x
  <2> DEFINE v == es \o <<x>>
  <2>4. /\ v \in Seq(WorkItem) /\ Len(v) = M + 1 /\ v[M + 1] = x
        /\ \A i \in 1 .. M : v[i] = es[i]
    BY <1>4, <2>1
  <2>5. w = v \o T
    BY <2>2
  <2> HIDE DEF v
  <2>6. /\ w \in Seq(WorkItem) /\ Len(w) = M + Len(wl)
        /\ \A i \in 1 .. (M + 1) : w[i] = v[i]
    <3>1. w \in Seq(WorkItem) /\ Len(w) = Len(v) + Len(T)
      BY <2>1, <2>4, <2>5, ConcatProperties
    <3>2. \A i \in 1 .. Len(v) : w[i] = v[i]
      BY <2>1, <2>4, <2>5
    <3>3. Len(w) = M + Len(wl)
      BY <1>1, <1>4, <2>1, <2>4, <3>1
    <3> QED  BY <2>4, <3>1, <3>2, <3>3
  <2>7. ASSUME NEW i \in (M + 2) .. Len(w) PROVE w[i] = T[i - M - 1]
    BY <1>1, <1>4, <2>1, <2>4, <2>5, <2>6
  <2>3. /\ w \in Seq(WorkItem) /\ Len(w) = M + Len(wl)
        /\ \A i \in 1 .. M : w[i] = es[i]
        /\ w[M + 1] = x
        /\ \A i \in (M + 2) .. Len(w) : w[i] = T[i - M - 1]
    BY <1>4, <2>4, <2>6, <2>7
  <2> QED  BY <2>3 DEF T, x
<1> HIDE DEF w, M
<1>6. \A i \in (M + 2) .. Len(w) : i - M \in 2 .. Len(wl) /\ i - M \in 1 .. Len(wl) /\ w[i] = wl[i - M]
  <2> SUFFICES ASSUME NEW i \in (M + 2) .. Len(w)
               PROVE  i - M \in 2 .. Len(wl) /\ i - M \in 1 .. Len(wl) /\ w[i] = wl[i - M]
    OBVIOUS
  <2>1. i - M - 1 \in 1 .. Len(Tail(wl)) /\ i - M - 1 + 1 = i - M
    BY <1>1, <1>4, <1>5
  <2> QED  BY <1>1, <1>4, <1>5, <2>1
<1>7. \A j \in 2 .. Len(wl) : j + M \in (M + 2) .. Len(w) /\ j + M \in 1 .. Len(w) /\ w[j + M] = wl[j]
  <2> SUFFICES ASSUME NEW j \in 2 .. Len(wl)
               PROVE  j + M \in (M + 2) .. Len(w) /\ j + M \in 1 .. Len(w) /\ w[j + M] = wl[j]
    OBVIOUS
  <2>1. j + M \in (M + 2) .. Len(w) /\ j + M \in 1 .. Len(w) /\ (j + M) - M = j
    BY <1>1, <1>4, <1>5
  <2> DEFINE x == j + M
  <2>2. x \in (M + 2) .. Len(w) /\ x \in 1 .. Len(w) /\ x - M = j
    BY <2>1
  <2> HIDE DEF x
  <2>3. w[x] = wl[j]
    BY <1>6, <2>2
  <2> QED  BY <2>2, <2>3 DEF x
<1>8. \A i \in 1 .. Len(w) : i \in 1 .. M \/ i = M + 1 \/ i \in (M + 2) .. Len(w)
  BY <1>4
<1>9. /\ \A i \in 1 .. M : w[i].event = "enter" /\ w[i].block \in Targets(f, b)
      /\ w[M + 1].event = "exit" /\ w[M + 1].block = b
      /\ M + 1 \in 1 .. Len(w)
  BY <1>1, <1>3, <1>4, <1>5 DEF M
<1>10. b \in ReachedIn(f, {}) /\ V \subseteq ReachedIn(f, {})
  BY <1>1 DEF SearchOf
<1>11. Targets(f, b) \subseteq ReachedIn(f, {})
  BY <1>10, ReachedFacts
<1> HIDE DEF b
<1>12. b \notin V
  BY DEF b
<1>13. \A i \in 2 .. Len(wl) : i \in 1 .. Len(wl)
  OBVIOUS
<1>14. wl[1].event = "enter" /\ wl[1].block = b
  BY <1>1 DEF b
<1>15. 0 \in W \/ \E i \in 1 .. Len(w) : w[i].event = "enter" /\ w[i].block = 0
  <2>1. 0 \in V \/ \E i \in 1 .. Len(wl) : wl[i].event = "enter" /\ wl[i].block = 0
    BY DEF SearchOf
  <2>2. ASSUME NEW i \in 1 .. Len(wl), wl[i].event = "enter", wl[i].block = 0, b # 0
        PROVE  i + M \in 1 .. Len(w) /\ w[i + M] = wl[i]
    <3>1. i \in 2 .. Len(wl)
      BY <1>14, <2>2
    <3> QED  BY <1>7, <3>1
  <2> QED  BY <2>1, <2>2
<1>16. ASSUME NEW i \in 1 .. Len(w)
       PROVE  /\ w[i].block \in ReachedIn(f, {})
              /\ w[i].event = "exit" => w[i].block \in W /\ ~HasLeft(po, w[i].block)
  <2>1. CASE i \in 1 .. M
    BY <1>9, <1>11, <2>1
  <2>2. CASE i = M + 1
    <3>1. ~HasLeft(po, b)
      BY <1>12 DEF SearchOf, HasLeft
    <3> QED  BY <1>9, <1>10, <2>2, <3>1
  <2>3. CASE i \in (M + 2) .. Len(w)
    BY <1>6, <2>3 DEF SearchOf
  <2> QED  BY <1>8, <2>1, <2>2, <2>3
\* The items that leave a block are those of the old stack and the new one.
<1>17. ASSUME NEW c, NEW q \in 1 .. Len(w), LeavesAt(w, q, c)
       PROVE  \/ q = M + 1 /\ c = b
              \/ q \in (M + 2) .. Len(w) /\ c \in V /\ LeavesAt(wl, q - M, c)
  <2>1. CASE q \in 1 .. M
    BY <1>9, <1>17, <2>1 DEF LeavesAt
  <2>2. CASE q = M + 1
    BY <1>9, <1>17, <2>2 DEF LeavesAt
  <2>3. CASE q \in (M + 2) .. Len(w)
    BY <1>6, <1>17, <2>3 DEF LeavesAt, SearchOf
  <2> QED  BY <1>8, <2>1, <2>2, <2>3
<1>18. ASSUME NEW i \in 1 .. Len(w), NEW j \in 1 .. Len(w), w[i].event = "exit",
              LeavesAt(w, j, w[i].block)
       PROVE  i = j
  <2> DEFINE c == w[i].block
  <2>1. LeavesAt(w, i, c) /\ LeavesAt(w, j, c)
    BY <1>18 DEF LeavesAt
  <2> HIDE DEF c
  <2>2. \/ i = M + 1 /\ c = b
        \/ i \in (M + 2) .. Len(w) /\ c \in V /\ LeavesAt(wl, i - M, c)
    BY <1>17, <2>1
  <2>3. \/ j = M + 1 /\ c = b
        \/ j \in (M + 2) .. Len(w) /\ c \in V /\ LeavesAt(wl, j - M, c)
    BY <1>17, <2>1
  <2>4. CASE c = b
    BY <1>12, <2>2, <2>3, <2>4
  <2>5. CASE c # b
    <3>1. i - M \in 1 .. Len(wl) /\ j - M \in 1 .. Len(wl)
      BY <1>6, <2>2, <2>3, <2>5
    <3>2. i - M = j - M
      BY <2>2, <2>3, <2>5, <3>1 DEF SearchOf, LeavesAt
    <3> QED  BY <1>4, <3>2
  <2> QED  BY <2>4, <2>5
<1>19. ASSUME NEW c, NEW q \in 1 .. Len(wl), LeavesAt(wl, q, c)
       PROVE  q \in 2 .. Len(wl) /\ LeavesAt(w, q + M, c)
  <2>1. q # 1
    BY <1>14, <1>19 DEF LeavesAt
  <2>2. q \in 2 .. Len(wl)
    BY <2>1
  <2> QED  BY <1>7, <1>19, <2>2 DEF LeavesAt
<1>20. \A c \in W : HasLeft(po, c) \/ \E q \in 1 .. Len(w) : LeavesAt(w, q, c)
  <2>1. \A c \in V : HasLeft(po, c) \/ \E q \in 1 .. Len(wl) : LeavesAt(wl, q, c)
    BY DEF SearchOf
  <2>2. \E q \in 1 .. Len(w) : LeavesAt(w, q, b)
    BY <1>9 DEF LeavesAt
  <2>3. ASSUME NEW c \in V, NEW q \in 1 .. Len(wl), LeavesAt(wl, q, c)
        PROVE  \E x \in 1 .. Len(w) : LeavesAt(w, x, c)
    BY <1>7, <1>19, <2>3
  <2> QED  BY <2>1, <2>2, <2>3
<1>21. ASSUME NEW a \in Block \ W
       PROVE  /\ W \subseteq ReachedIn(f, {a})
              /\ \A i \in 1 .. Len(w) : w[i].block = a \/ w[i].block \in ReachedIn(f, {a})
  <2>1. /\ V \subseteq ReachedIn(f, {a})
        /\ \A i \in 1 .. Len(wl) : wl[i].block = a \/ wl[i].block \in ReachedIn(f, {a})
    BY <1>21 DEF SearchOf
  <2>2. b \in ReachedIn(f, {a})
    BY <1>1, <1>14, <2>1
  <2>3. \A d \in Targets(f, b) : d = a \/ d \in ReachedIn(f, {a})
    BY <2>2, ReachedFacts
  <2>4. ASSUME NEW i \in 1 .. Len(w)
        PROVE  w[i].block = a \/ w[i].block \in ReachedIn(f, {a})
    <3>1. CASE i \in 1 .. M
      BY <1>9, <2>3, <3>1
    <3>2. CASE i = M + 1
      BY <1>9, <2>2, <3>2
    <3>3. CASE i \in (M + 2) .. Len(w)
      BY <1>6, <2>1, <3>3
    <3> QED  BY <1>8, <3>1, <3>2, <3>3
  <2> QED  BY <2>1, <2>2, <2>4
<1>22. ASSUME NEW p \in 1 .. Len(w), NEW a \in Block, LeavesAt(w, p, a)
       PROVE  /\ \A q \in (p + 1) .. Len(w) : w[q].block = a \/ w[q].block \in ReachedIn(f, {a})
              /\ \A c \in W \ ReachedIn(f, {a}) : c = a \/ HasLeft(po, c)
                    \/ \E q \in 1 .. (p - 1) : LeavesAt(w, q, c)
  <2>1. CASE p = M + 1 /\ a = b
    <3>1. /\ V \subseteq ReachedIn(f, {b})
          /\ \A i \in 1 .. Len(wl) : wl[i].block = b \/ wl[i].block \in ReachedIn(f, {b})
      BY <1>2, <1>12 DEF SearchOf
    <3>2. \A q \in (p + 1) .. Len(w) : q \in (M + 2) .. Len(w)
      BY <1>4, <2>1
    <3> QED  BY <1>6, <2>1, <3>1, <3>2
  <2>2. CASE p \in (M + 2) .. Len(w) /\ LeavesAt(wl, p - M, a)
    <3> DEFINE o == p - M
    <3>1. o \in 1 .. Len(wl) /\ o \in 2 .. Len(wl) /\ p = o + M /\ LeavesAt(wl, o, a)
      BY <1>4, <1>6, <2>2
    <3> HIDE DEF o
    <3>2. /\ \A q \in (o + 1) .. Len(wl) : wl[q].block = a \/ wl[q].block \in ReachedIn(f, {a})
          /\ \A c \in V \ ReachedIn(f, {a}) : c = a \/ HasLeft(po, c)
                    \/ \E q \in 1 .. (o - 1) : LeavesAt(wl, q, c)
      BY <3>1 DEF SearchOf
    <3>3. ASSUME NEW q \in (p + 1) .. Len(w)
          PROVE  w[q].block = a \/ w[q].block \in ReachedIn(f, {a})
      <4>1. q \in (M + 2) .. Len(w) /\ q - M \in (o + 1) .. Len(wl)
        BY <1>1, <1>4, <1>5, <3>1
      <4> QED  BY <1>6, <3>2, <4>1
    <3>4. ASSUME NEW c \in V \ ReachedIn(f, {a}), c # a, ~HasLeft(po, c)
          PROVE  \E q \in 1 .. (p - 1) : LeavesAt(w, q, c)
      <4>1. PICK q \in 1 .. (o - 1) : LeavesAt(wl, q, c)
        BY <3>2, <3>4
      <4>2. q \in 1 .. Len(wl) /\ q + M \in 1 .. (p - 1)
        BY <1>1, <1>4, <3>1
      <4> QED  BY <1>19, <4>1, <4>2
    <3>5. \E q \in 1 .. (p - 1) : LeavesAt(w, q, b)
      <4>1. M + 1 \in 1 .. (p - 1)
        BY <1>4, <3>1
      <4> QED  BY <1>9, <4>1 DEF LeavesAt
    <3> QED  BY <3>3, <3>4, <3>5
  <2> QED  BY <1>17, <1>22, <2>1, <2>2
<1>23. ASSUME NEW m \in 1 .. Len(po)
       PROVE  /\ \A i \in 1 .. Len(w) : w[i].block \in W \/ w[i].block \in ReachedIn(f, {po[m]})
              /\ \A c \in W \ ReachedIn(f, {po[m]}) : c = po[m] \/ \E k \in 1 .. (m - 1) : po[k] = c
  <2>1. /\ \A i \in 1 .. Len(wl) : wl[i].block \in V \/ wl[i].block \in ReachedIn(f, {po[m]})
        /\ \A c \in V \ ReachedIn(f, {po[m]}) : c = po[m] \/ \E k \in 1 .. (m - 1) : po[k] = c
        /\ po[m] \in V
    BY DEF SearchOf
  <2>2. b \in ReachedIn(f, {po[m]})
    BY <1>1, <1>12, <1>14, <2>1
  <2>3. \A d \in Targets(f, b) : d = po[m] \/ d \in ReachedIn(f, {po[m]})
    BY <2>2, ReachedFacts
  <2>4. ASSUME NEW i \in 1 .. Len(w)
        PROVE  w[i].block \in W \/ w[i].block \in ReachedIn(f, {po[m]})
    <3>1. CASE i \in 1 .. M
      BY <1>9, <2>1, <2>3, <3>1
    <3>2. CASE i = M + 1
      BY <1>9, <3>2
    <3>3. CASE i \in (M + 2) .. Len(w)
      BY <1>6, <2>1, <3>3
    <3> QED  BY <1>8, <3>1, <3>2, <3>3
  <2> QED  BY <2>1, <2>2, <2>4
<1>24. /\ po \in Seq(Block) /\ W \subseteq ReachedIn(f, {})
       /\ \A i, j \in 1 .. Len(po) : po[i] = po[j] => i = j
       /\ \A i \in 1 .. Len(po) : po[i] \in W
  BY <1>10 DEF SearchOf
<1> HIDE DEF W
<1>25. SearchOf(f, w, po, W)
  BY <1>5, <1>15, <1>16, <1>18, <1>20, <1>21, <1>22, <1>23, <1>24 DEF SearchOf
<1> QED  BY <1>25 DEF w, W, b

\* A postorder of the blocks of f that are reached: each once, and after the
\* blocks it dominates.
PostorderOf(f, po) ==
    /\ po \in Seq(Block)
    /\ \A i, j \in 1 .. Len(po) : po[i] = po[j] => i = j
    /\ \A b : b \in ReachedIn(f, {}) <=> HasLeft(po, b)
    /\ \A m, k \in 1 .. Len(po) : m # k /\ po[k] \notin ReachedIn(f, {po[m]}) => k < m

\* When the stack is empty, what was visited is what is reached.
LEMMA SearchEnds ==
    ASSUME NEW f, FuncOK(f), NEW po, NEW V, SearchOf(f, <<>>, po, V),
           \A b \in V : Targets(f, b) \subseteq V
    PROVE  PostorderOf(f, po) /\ \A b : b \in V <=> HasLeft(po, b)
<1>1. Len(<<>>) = 0 /\ 1 .. 0 = {}
  OBVIOUS
<1>2. 0 \in V
  BY <1>1 DEF SearchOf
<1>3. \A b : b \in V <=> HasLeft(po, b)
  BY <1>1 DEF SearchOf, HasLeft
<1>4. ReachedIn(f, {}) \subseteq V
  BY <1>2, ReachedFacts
<1>5. V \subseteq ReachedIn(f, {})
  BY DEF SearchOf
<1>6. ASSUME NEW m \in 1 .. Len(po), NEW k \in 1 .. Len(po), m # k,
             po[k] \notin ReachedIn(f, {po[m]})
      PROVE  k < m
  <2>1. po[k] \in V /\ (\A i, j \in 1 .. Len(po) : po[i] = po[j] => i = j)
    BY DEF SearchOf
  <2>2. po[k] = po[m] \/ \E l \in 1 .. (m - 1) : po[l] = po[k]
    BY <1>6, <2>1 DEF SearchOf
  <2>3. PICK l \in 1 .. (m - 1) : po[l] = po[k]
    BY <1>6, <2>1, <2>2
  <2>4. l \in 1 .. Len(po)
    OBVIOUS
  <2>5. l = k
    BY <2>1, <2>3, <2>4
  <2> QED  BY <2>5
<1>7. /\ po \in Seq(Block)
      /\ \A i, j \in 1 .. Len(po) : po[i] = po[j] => i = j
  BY DEF SearchOf
<1> QED  BY <1>3, <1>4, <1>5, <1>6, <1>7 DEF PostorderOf

\* What is reached does not depend on the branches of the other blocks.
LEMMA ReachedSame ==
    ASSUME NEW f, FuncOK(f), NEW h, FuncOK(h),
           \A b \in ReachedIn(f, {}) : Targets(h, b) = Targets(f, b)
    PROVE  \A avoid : ReachedIn(h, avoid) = ReachedIn(f, avoid)
<1> TAKE avoid
<1> DEFINE R == ReachedIn(f, avoid)
           Q == ReachedIn(h, avoid)
           U == ReachedIn(f, {})
<1>1. /\ 0 \notin avoid => 0 \in R
      /\ \A b \in R : \A d \in Targets(f, b) : d \notin avoid => d \in R
      /\ \A S : {0} \ avoid \subseteq S /\ (\A b \in S : Targets(f, b) \ avoid \subseteq S)
            => R \subseteq S
  BY ReachedFacts
<1>2. /\ 0 \notin avoid => 0 \in Q
      /\ \A b \in Q : \A d \in Targets(h, b) : d \notin avoid => d \in Q
      /\ \A S : {0} \ avoid \subseteq S /\ (\A b \in S : Targets(h, b) \ avoid \subseteq S)
            => Q \subseteq S
  BY ReachedFacts
<1>3. 0 \in U /\ \A b \in U : \A d \in Targets(f, b) : d \in U
  BY ReachedFacts
<1>4. \A b \in U : Targets(h, b) = Targets(f, b)
  OBVIOUS
<1> HIDE DEF R, Q, U
<1>5. R \subseteq U
  <2>1. {0} \ avoid \subseteq U /\ \A b \in U : Targets(f, b) \ avoid \subseteq U
    BY <1>3
  <2> QED  BY <1>1, <2>1
<1>6. Q \subseteq R
  <2>1. {0} \ avoid \subseteq R /\ \A b \in R : Targets(h, b) \ avoid \subseteq R
    BY <1>1, <1>4, <1>5
  <2> QED  BY <1>2, <2>1
<1>7. R \subseteq Q
  <2>1. {0} \ avoid \subseteq Q /\ \A b \in Q : Targets(f, b) \ avoid \subseteq Q
    BY <1>2, <1>4, <1>5, <1>6
  <2> QED  BY <1>1, <2>1
<1>8. Q = R
  BY <1>6, <1>7
<1> QED  BY <1>8 DEF Q, R

(***************************************************************************)
(* The lowered blocks.                                                     *)
(***************************************************************************)

LoweredBlock == [pred : Block \cup {None}, block : Block, succ_idx : Nat]

\* The block of its own that the edge i of b has when it is critical.
EdgeBlock(f, b, i) == critical_edge(b, dests(f, b)[i], i)

\* The edges of each block that have one.
SplitEdges == [b \in Block |-> {i \in DOMAIN dests(func, b) : is_critical(b, i)}]

\* lo holds, once each, the blocks s[1] to s[v] in this order, and each of
\* their edges in split after the block it leaves.
LoweredOf(lo, v, s, split, f) ==
    /\ lo \in Seq(LoweredBlock)
    /\ \A k, l \in 1 .. Len(lo) : lo[k] = lo[l] => k = l
    /\ \A k \in 1 .. Len(lo) : \E w \in 1 .. v :
          \/ lo[k] = orig(s[w])
          \/ \E i \in split[s[w]] : lo[k] = EdgeBlock(f, s[w], i)
    /\ \A w \in 1 .. v :
          /\ \E k \in 1 .. Len(lo) : lo[k] = orig(s[w])
          /\ \A i \in split[s[w]] : \E k \in 1 .. Len(lo) : lo[k] = EdgeBlock(f, s[w], i)
    /\ \A k, l \in 1 .. Len(lo) : \A w, x \in 1 .. v :
          lo[k] = orig(s[w]) /\ lo[l] = orig(s[x]) /\ w < x => k < l
    /\ \A k, l \in 1 .. Len(lo) : \A w \in 1 .. v : \A i \in split[s[w]] :
          lo[k] = orig(s[w]) /\ lo[l] = EdgeBlock(f, s[w], i) => k < l

\* The blocks of two kinds differ, and so do those of two blocks or edges.
LEMMA LoweredKinds ==
    ASSUME NEW f
    PROVE  /\ \A a, b : orig(a) = orig(b) => a = b
           /\ \A a, b, i, j : EdgeBlock(f, a, i) = EdgeBlock(f, b, j) => a = b /\ i = j
           /\ \A a : \A b \in Block : \A i : orig(a) # EdgeBlock(f, b, i)
           /\ \A a : orig(a).pred = None /\ orig(a).block = a
           /\ \A a, i : EdgeBlock(f, a, i).pred = a /\ EdgeBlock(f, a, i).block = dests(f, a)[i]
<1>1. \A a : orig(a).pred = None /\ orig(a).block = a
  BY DEF orig
<1>2. \A a, i : /\ EdgeBlock(f, a, i).pred = a /\ EdgeBlock(f, a, i).block = dests(f, a)[i]
                /\ EdgeBlock(f, a, i).succ_idx = i
  BY DEF EdgeBlock, critical_edge
<1>3. \A b \in Block : b # None
  BY DEF Block, None
<1>4. ASSUME NEW a, NEW b, NEW i, NEW j, EdgeBlock(f, a, i) = EdgeBlock(f, b, j)
      PROVE  a = b /\ i = j
  BY <1>2, <1>4
<1>5. \A a : \A b \in Block : \A i : orig(a) # EdgeBlock(f, b, i)
  BY <1>1, <1>2, <1>3
<1> QED  BY <1>1, <1>2, <1>4, <1>5

\* An order of a finite set has all its members.
LEMMA OrderOf ==
    ASSUME NEW S, IsFiniteSet(S), NEW q \in SetToSeqs(S)
    PROVE  /\ q \in Seq(S)
           /\ \A i, j \in 1 .. Len(q) : q[i] = q[j] => i = j
           /\ \A x \in S : \E k \in 1 .. Len(q) : q[k] = x
<1> DEFINE n == Cardinality(S)
<1>1. n \in Nat
  BY FS_CardinalityType
<1>2. q \in [1 .. n -> S] /\ \A i, j \in 1 .. n : i # j => q[i] # q[j]
  BY DEF SetToSeqs
<1>3. q \in Seq(S) /\ Len(q) = n
  <2> HIDE DEF n
  <2> QED  BY <1>1, <1>2
<1>4. q \in Injection(1 .. n, S)
  <2> HIDE DEF n
  <2> QED  BY <1>2 DEF Injection, IsInjective
<1>5. Cardinality(1 .. n) = n
  <2> HIDE DEF n
  <2> QED  BY <1>1, FS_Interval
<1>6. q \in Surjection(1 .. n, S)
  BY <1>4, <1>5, FS_Injection
<1>7. \A x \in S : \E k \in 1 .. n : q[k] = x
  BY <1>6 DEF Surjection
<1> QED  BY <1>2, <1>3, <1>7

\* What a sequence that is put together of two holds.
LEMMA ConcatAt ==
    ASSUME NEW S, NEW u \in Seq(S), NEW e \in Seq(S), NEW w, w = u \o e
    PROVE  /\ w \in Seq(S) /\ Len(w) = Len(u) + Len(e)
           /\ \A i \in 1 .. Len(u) + Len(e) : w[i] = IF i <= Len(u) THEN u[i] ELSE e[i - Len(u)]
BY ConcatProperties

\* The next block and its edges are appended.
LEMMA LoweredAppends ==
    ASSUME NEW f, FuncOK(f), NEW s \in Seq(Block), NEW split, NEW v \in Nat, v + 1 \in 1 .. Len(s),
           \A i, j \in 1 .. Len(s) : s[i] = s[j] => i = j,
           \A b \in Block : split[b] \subseteq 1 .. Len(dests(f, b)),
           NEW lo, LoweredOf(lo, v, s, split, f),
           NEW q \in Seq(split[s[v + 1]]),
           \A i, j \in 1 .. Len(q) : q[i] = q[j] => i = j,
           \A x \in split[s[v + 1]] : \E k \in 1 .. Len(q) : q[k] = x,
           NEW es \in Seq(LoweredBlock), Len(es) = Len(q),
           \A k \in 1 .. Len(q) : es[k] = EdgeBlock(f, s[v + 1], q[k])
    PROVE  LoweredOf(lo \o <<orig(s[v + 1])>> \o es, v + 1, s, split, f)
<1> DEFINE b == s[v + 1]
           M == Len(lo)
           o == orig(b)
           w == lo \o <<o>> \o es
<1>1. b \in Block /\ lo \in Seq(LoweredBlock) /\ M \in Nat /\ Len(q) \in Nat
  BY DEF LoweredOf
<1>2. o \in LoweredBlock
  BY <1>1 DEF orig, LoweredBlock
<1>3. /\ es \in Seq(LoweredBlock) /\ Len(es) = Len(q)
      /\ \A k \in 1 .. Len(q) : es[k] = EdgeBlock(f, b, q[k]) /\ q[k] \in split[b]
  <2> DEFINE T == split[b]
  <2>1. q \in Seq(T)
    OBVIOUS
  <2>2. \A k \in 1 .. Len(q) : es[k] = EdgeBlock(f, b, q[k])
    OBVIOUS
  <2> HIDE DEF T, b
  <2>3. \A k \in 1 .. Len(q) : q[k] \in T
    BY <2>1, ElementOfSeq
  <2> QED  BY <2>2, <2>3 DEF T
<1> HIDE DEF o, w, M
<1>4. /\ w \in Seq(LoweredBlock) /\ Len(w) = M + 1 + Len(q)
      /\ \A k \in 1 .. M : w[k] = lo[k]
      /\ w[M + 1] = o
      /\ \A k \in 1 .. Len(q) : w[M + 1 + k] = EdgeBlock(f, b, q[k])
  <2> DEFINE u == lo \o <<o>>
  <2>1. /\ u \in Seq(LoweredBlock) /\ Len(u) = M + 1 /\ u[M + 1] = o
        /\ \A k \in 1 .. M : u[k] = lo[k]
    BY <1>1, <1>2 DEF M
  <2>2. w = u \o es
    BY DEF w
  <2> HIDE DEF u
  <2>3. /\ w \in Seq(LoweredBlock) /\ Len(w) = Len(u) + Len(es)
        /\ \A i \in 1 .. Len(u) + Len(es) : w[i] = IF i <= Len(u) THEN u[i] ELSE es[i - Len(u)]
    BY <1>3, <2>1, <2>2, ConcatAt
  <2>4. ASSUME NEW k \in 1 .. M PROVE w[k] = lo[k]
    <3>1. k \in 1 .. Len(u) + Len(es) /\ k <= Len(u)
      BY <1>1, <1>3, <2>1
    <3> QED  BY <2>1, <2>3, <3>1
  <2>5. w[M + 1] = o
    <3>1. M + 1 \in 1 .. Len(u) + Len(es) /\ M + 1 <= Len(u)
      BY <1>1, <1>3, <2>1
    <3> QED  BY <2>1, <2>3, <3>1
  <2>6. ASSUME NEW k \in 1 .. Len(q) PROVE w[M + 1 + k] = EdgeBlock(f, b, q[k])
    <3> DEFINE i == M + 1 + k
    <3>1. i \in 1 .. Len(u) + Len(es) /\ ~(i <= Len(u)) /\ i - Len(u) = k
      BY <1>1, <1>3, <2>1
    <3> HIDE DEF i
    <3>2. w[i] = es[k]
      BY <2>3, <3>1
    <3> QED  BY <1>3, <3>2 DEF i
  <2> QED  BY <1>3, <2>1, <2>3, <2>4, <2>5, <2>6
\* A place of w is one of lo, that of the block, or that of an edge of it.
<1>5. ASSUME NEW k \in 1 .. Len(w), ~(k \in 1 .. M), k # M + 1
      PROVE  \E i \in 1 .. Len(q) : k = M + 1 + i /\ w[k] = EdgeBlock(f, b, q[i])
  <2> DEFINE i == k - (M + 1)
  <2>1. i \in 1 .. Len(q) /\ k = M + 1 + i
    BY <1>1, <1>4, <1>5
  <2> HIDE DEF i
  <2> QED  BY <1>4, <2>1
<1>6. ASSUME NEW k \in 1 .. M
      PROVE  \E x \in 1 .. v : s[x] \in Block /\ s[x] # b /\
                \/ w[k] = orig(s[x])
                \/ \E i \in split[s[x]] : w[k] = EdgeBlock(f, s[x], i)
  <2>1. PICK x \in 1 .. v : \/ lo[k] = orig(s[x])
                            \/ \E i \in split[s[x]] : lo[k] = EdgeBlock(f, s[x], i)
    BY DEF LoweredOf, M
  <2>2. x \in 1 .. Len(s) /\ x # v + 1
    OBVIOUS
  <2>3. s[x] \in Block /\ s[x] # b
    BY <2>2
  <2> QED  BY <1>4, <2>1, <2>3
<1>7. /\ \A c, d : orig(c) = orig(d) => c = d
      /\ \A c, d, i, j : EdgeBlock(f, c, i) = EdgeBlock(f, d, j) => c = d /\ i = j
      /\ \A c : \A d \in Block : \A i : orig(c) # EdgeBlock(f, d, i)
  BY LoweredKinds
<1> HIDE DEF b
<1>8. ASSUME NEW k \in 1 .. M PROVE w[k] # o /\ \A i : w[k] # EdgeBlock(f, b, i)
  <2>1. PICK x \in 1 .. v : s[x] \in Block /\ s[x] # b /\
                \/ w[k] = orig(s[x])
                \/ \E i \in split[s[x]] : w[k] = EdgeBlock(f, s[x], i)
    BY <1>6
  <2>2. CASE w[k] = orig(s[x])
    BY <1>1, <1>7, <2>1, <2>2 DEF o
  <2>3. ASSUME NEW i, w[k] = EdgeBlock(f, s[x], i)
        PROVE  w[k] # o /\ \A j : w[k] # EdgeBlock(f, b, j)
    BY <1>1, <1>7, <2>1, <2>3 DEF o
  <2> QED  BY <2>1, <2>2, <2>3
<1>9. \A i : o # EdgeBlock(f, b, i)
  BY <1>1, <1>7 DEF o
<1>10. ASSUME NEW k \in 1 .. Len(w), NEW l \in 1 .. Len(w), w[k] = w[l]
       PROVE  k = l
  <2>1. CASE k \in 1 .. M /\ l \in 1 .. M
    BY <1>4, <1>10, <2>1 DEF LoweredOf, M
  <2>5. ASSUME NEW x \in 1 .. Len(w), ~(x \in 1 .. M)
        PROVE  w[x] = o \/ \E i : w[x] = EdgeBlock(f, b, i)
    BY <1>4, <1>5, <2>5
  <2>2. CASE k \in 1 .. M /\ ~(l \in 1 .. M)
    BY <1>8, <1>10, <2>2, <2>5
  <2>3. CASE ~(k \in 1 .. M) /\ l \in 1 .. M
    BY <1>8, <1>10, <2>3, <2>5
  <2>4. CASE ~(k \in 1 .. M) /\ ~(l \in 1 .. M)
    <3>1. CASE k = M + 1
      BY <1>4, <1>5, <1>9, <1>10, <2>4, <3>1
    <3>2. CASE l = M + 1
      BY <1>4, <1>5, <1>9, <1>10, <2>4, <3>2
    <3>3. CASE k # M + 1 /\ l # M + 1
      <4>1. PICK i \in 1 .. Len(q) : k = M + 1 + i /\ w[k] = EdgeBlock(f, b, q[i])
        BY <1>5, <2>4, <3>3
      <4>2. PICK j \in 1 .. Len(q) : l = M + 1 + j /\ w[l] = EdgeBlock(f, b, q[j])
        BY <1>5, <2>4, <3>3
      <4>3. q[i] = q[j]
        BY <1>7, <1>10, <4>1, <4>2
      <4>4. i = j
        BY <4>3
      <4> QED  BY <4>1, <4>2, <4>4
    <3> QED  BY <3>1, <3>2, <3>3
  <2> QED  BY <2>1, <2>2, <2>3, <2>4
<1>11. \A x \in 1 .. (v + 1) : x \in 1 .. v \/ x = v + 1
  OBVIOUS
<1>12. \A x \in 1 .. v : x \in 1 .. (v + 1) /\ x \in 1 .. Len(s) /\ s[x] \in Block /\ s[x] # b
  <2> SUFFICES ASSUME NEW x \in 1 .. v
               PROVE  x \in 1 .. (v + 1) /\ x \in 1 .. Len(s) /\ s[x] \in Block /\ s[x] # b
    OBVIOUS
  <2>1. x \in 1 .. (v + 1) /\ x \in 1 .. Len(s) /\ x # v + 1
    OBVIOUS
  <2> QED  BY <2>1 DEF b
<1>13. ASSUME NEW k \in 1 .. Len(w)
       PROVE  \E x \in 1 .. (v + 1) :
                \/ w[k] = orig(s[x])
                \/ \E i \in split[s[x]] : w[k] = EdgeBlock(f, s[x], i)
  <2>1. CASE k \in 1 .. M
    BY <1>6, <1>12, <2>1
  <2>2. CASE k = M + 1
    BY <1>4, <2>2 DEF o, b
  <2>3. CASE ~(k \in 1 .. M) /\ k # M + 1
    <3>1. PICK i \in 1 .. Len(q) : w[k] = EdgeBlock(f, b, q[i])
      BY <1>5, <2>3
    <3>2. q[i] \in split[s[v + 1]] /\ v + 1 \in 1 .. (v + 1)
      BY <1>3 DEF b
    <3> QED  BY <3>1, <3>2 DEF b
  <2> QED  BY <2>1, <2>2, <2>3
<1>14. \A k \in 1 .. M : k \in 1 .. Len(w)
  BY <1>1, <1>4
<1>15. ASSUME NEW x \in 1 .. (v + 1)
       PROVE  /\ \E k \in 1 .. Len(w) : w[k] = orig(s[x])
              /\ \A i \in split[s[x]] : \E k \in 1 .. Len(w) : w[k] = EdgeBlock(f, s[x], i)
  <2>1. CASE x \in 1 .. v
    <3>1. /\ \E k \in 1 .. M : lo[k] = orig(s[x])
          /\ \A i \in split[s[x]] : \E k \in 1 .. M : lo[k] = EdgeBlock(f, s[x], i)
      BY <2>1 DEF LoweredOf, M
    <3> QED  BY <1>4, <1>14, <3>1
  <2>2. CASE x = v + 1
    <3>1. M + 1 \in 1 .. Len(w) /\ \A k \in 1 .. Len(q) : M + 1 + k \in 1 .. Len(w)
      <4>1. PICK n \in Nat : n = Len(q)
        BY <1>1
      <4>2. Len(w) = M + 1 + n
        BY <1>4, <4>1
      <4>3. \A k \in 1 .. n : M + 1 + k \in 1 .. Len(w)
        BY <1>1, <4>2
      <4> QED  BY <1>1, <4>1, <4>2, <4>3
    <3>2. \A i \in split[b] : \E k \in 1 .. Len(q) : q[k] = i
      BY DEF b
    <3>3. ASSUME NEW i \in split[b] PROVE \E k \in 1 .. Len(w) : w[k] = EdgeBlock(f, b, i)
      <4>1. PICK k \in 1 .. Len(q) : q[k] = i
        BY <3>2
      <4> QED  BY <1>4, <3>1, <4>1
    <3>4. w[M + 1] = orig(b) /\ b = s[x]
      BY <1>4, <2>2 DEF o, b
    <3> QED  BY <3>1, <3>3, <3>4
  <2> QED  BY <1>11, <2>1, <2>2
<1>16. ASSUME NEW k \in 1 .. Len(w), NEW x \in 1 .. v, w[k] = orig(s[x])
       PROVE  k \in 1 .. M
  <2>1. orig(s[x]) # o /\ \A i : orig(s[x]) # EdgeBlock(f, b, i)
    BY <1>1, <1>7, <1>12 DEF o
  <2>2. k # M + 1
    BY <1>4, <1>16, <2>1
  <2> QED  BY <1>5, <1>16, <2>1, <2>2
<1>17. ASSUME NEW k \in 1 .. Len(w), w[k] = o
       PROVE  k = M + 1
  <2>1. M + 1 \in 1 .. Len(w)
    BY <1>1, <1>4
  <2> QED  BY <1>4, <1>10, <1>17, <2>1
<1>18. ASSUME NEW k \in 1 .. Len(w), NEW l \in 1 .. Len(w),
              NEW x \in 1 .. (v + 1), NEW y \in 1 .. (v + 1),
              w[k] = orig(s[x]), w[l] = orig(s[y]), x < y
       PROVE  k < l
  <2>1. x \in 1 .. v
    BY <1>18
  <2>2. k \in 1 .. M
    BY <1>16, <1>18, <2>1
  <2>3. CASE y \in 1 .. v
    <3>1. l \in 1 .. M
      BY <1>16, <1>18, <2>3
    <3> QED  BY <1>4, <1>18, <2>1, <2>2, <2>3, <3>1 DEF LoweredOf, M
  <2>4. CASE y = v + 1
    <3>1. l = M + 1
      BY <1>17, <1>18, <2>4 DEF o, b
    <3> QED  BY <1>1, <2>2, <3>1
  <2> QED  BY <1>11, <2>3, <2>4
<1>19. ASSUME NEW k \in 1 .. Len(w), NEW l \in 1 .. Len(w), NEW x \in 1 .. (v + 1),
              NEW i \in split[s[x]], w[k] = orig(s[x]), w[l] = EdgeBlock(f, s[x], i)
       PROVE  k < l
  <2>1. CASE x \in 1 .. v
    <3>1. k \in 1 .. M
      BY <1>16, <1>19, <2>1
    <3>2. CASE l \in 1 .. M
      BY <1>4, <1>19, <2>1, <3>1, <3>2 DEF LoweredOf, M
    <3>3. CASE ~(l \in 1 .. M)
      BY <1>1, <3>1, <3>3
    <3> QED  BY <3>2, <3>3
  <2>2. CASE x = v + 1
    <3>1. k = M + 1 /\ w[l] = EdgeBlock(f, b, i)
      BY <1>17, <1>19, <2>2 DEF o, b
    <3>2. ~(l \in 1 .. M) /\ l # M + 1
      BY <1>4, <1>8, <1>9, <3>1
    <3> QED  BY <1>1, <1>4, <3>1, <3>2
  <2> QED  BY <1>11, <2>1, <2>2
<1>20. LoweredOf(w, v + 1, s, split, f)
  <2>1. w \in Seq(LoweredBlock)
    BY <1>4
  <2> QED  BY <2>1, <1>10, <1>13, <1>15, <1>18, <1>19, ZenonT(60) DEF LoweredOf
<1> QED  BY <1>20 DEF w, o, b

(***************************************************************************)
(* The invariant of the block order.                                       *)
(***************************************************************************)

Visited(ns) == {b \in Block : ns[b].pre_number # NOT_VISITED}

\* What follows the dominator tree of the forward search.
Later == {"loop_blocks", "order", "lowering", "done"}

\* The successors of a lowered block.
SuccsOf(f, split, lb) ==
    IF lb.pred = None
    THEN [i \in DOMAIN dests(f, lb.block) |->
            IF i \in split[lb.block] THEN EdgeBlock(f, lb.block, i) ELSE orig(dests(f, lb.block)[i])]
    ELSE <<orig(lb.block)>>

IndexOf(lo, lb) == CHOOSE k \in DOMAIN lo : lo[k] = lb

\* The tables of the lowered blocks lo.
TableOf(f, split, lo) ==
    [k \in DOMAIN lo |-> [i \in DOMAIN SuccsOf(f, split, lo[k]) |->
                            IndexOf(lo, SuccsOf(f, split, lo[k])[i])]]
TableTargets(f, lo) ==
    {k \in DOMAIN lo : \E p \in Block : \E i \in DOMAIN dests(f, p) :
                          from_table(f, p, i) /\ dests(f, p)[i] = lo[k].block}

\* What holds of the search, its postorder, the lowered blocks and their tables,
\* where the pipeline is.
OrderInv ==
    /\ pc \in Later => direction = "forward"
    /\ direction = "forward" /\ pc = "spanning_tree" =>
          SearchOf(func, worklist, postorder, Visited(nodes))
    /\ direction = "forward" /\ pc \in Searched =>
          \A b : b \in Visited(nodes) <=> HasLeft(postorder, b)
    /\ direction = "forward" /\ pc \in Searched \cup Later => PostorderOf(func, postorder)
    /\ pc \in {"lowering", "done"} =>
          /\ visited \in Nat /\ visited <= Len(postorder)
          /\ LoweredOf(lowered_order, visited, cfg_rpo, SplitEdges, func)
    /\ pc = "done" =>
          /\ visited = Len(postorder)
          /\ lowered_succs = TableOf(func, SplitEdges, lowered_order)
          /\ indirect_branch_targets = TableTargets(func, lowered_order)

\* Nothing is searched or lowered at first.
LEMMA OrderStart == Init => OrderInv
BY DEF Init, DomInit, FlowInit, OrderInv, Later, Searched

\* A step between the search and the lowering that keeps the postorder.
LEMMA OrderKept ==
    ASSUME OrderInv, func' = func, direction' = direction, postorder' = postorder,
           pc' \notin {"spanning_tree", "lowering", "done"},
           pc' \in Later => direction = "forward",
           pc' \in Searched => pc \in Searched /\ (direction = "forward" => Visited(nodes') = Visited(nodes)),
           pc' \in Later => pc \in Searched \cup Later
    PROVE  OrderInv'
BY DEF OrderInv, Later, Searched

\* The search starts from the entry.
LEMMA OrderComputeBegin == ASSUME GInv, OrderInv, ComputeBegin PROVE OrderInv'
<1>1. /\ pc' = "spanning_tree" /\ func' = func /\ postorder' = <<>>
      /\ nodes' = [b \in Block |-> blank_node]
  BY DEF ComputeBegin, flowVars
<1>2. FuncOK(func)
  BY DEF GInv, FlowInv
<1>3. ASSUME direction' = "forward"
      PROVE  SearchOf(func, worklist', <<>>, {})
  <2>1. LET rs == Reverse(roots("forward"))
        IN  worklist' = [i \in DOMAIN rs |-> enter(0, rs[i])]
    BY <1>3 DEF ComputeBegin
  <2>2. Reverse(roots("forward")) = <<0>>
    BY DEF roots, Reverse
  <2>3. worklist' = [i \in 1 .. 1 |-> enter(0, 0)]
    BY <2>1, <2>2
  <2>4. enter(0, 0) \in WorkItem /\ enter(0, 0).event = "enter" /\ enter(0, 0).block = 0
    BY DEF enter, WorkItem, Block
  <2> DEFINE w == worklist'
  <2>5. w \in Seq(WorkItem) /\ Len(w) = 1
        /\ \A i \in 1 .. Len(w) : w[i].event = "enter" /\ w[i].block = 0
    BY <2>3, <2>4
  <2> HIDE DEF w
  <2>6. 0 \in ReachedIn(func, {}) /\ \A a \in Block \ {0} : 0 \in ReachedIn(func, {a})
    BY <1>2, ReachedFacts
  <2>7. 1 \in 1 .. Len(w)
    BY <2>5
  <2>8. <<>> \in Seq(Block) /\ 1 .. Len(<<>>) = {}
    OBVIOUS
  <2>9. \A i \in 1 .. Len(w) : w[i].event # "exit"
    BY <2>5
  <2>10. SearchOf(func, w, <<>>, {})
    BY <2>5, <2>6, <2>7, <2>8, <2>9 DEF SearchOf, LeavesAt
  <2> QED  BY <2>10 DEF w
<1>4. Visited(nodes') = {}
  BY <1>1 DEF Visited, blank_node
<1> QED  BY <1>1, <1>3, <1>4 DEF OrderInv, Later, Searched

\* A block is taken from the stack.
LEMMA OrderEnter == ASSUME GInv, OrderInv, Enter PROVE OrderInv'
<1> DEFINE b == Head(worklist).block
           n == Len(stree) + 1
           unvisited == {s \in Block \ {b} : nodes[s].pre_number = NOT_VISITED}
           next == kept(graph_successors(b), unvisited)
           entered == [i \in DOMAIN next |-> enter(n, next[i])]
<1>1. /\ pc = "spanning_tree" /\ pc' = "spanning_tree" /\ worklist # <<>>
      /\ Head(worklist).event = "enter" /\ func' = func /\ direction' = direction
      /\ postorder' = postorder
  BY DEF Enter, flowVars
<1> SUFFICES ASSUME direction = "forward"
             PROVE  SearchOf(func, worklist', postorder, Visited(nodes'))
  BY <1>1 DEF OrderInv, Later, Searched
<1>2. SearchOf(func, worklist, postorder, Visited(nodes))
  BY <1>1 DEF OrderInv
<1>3. FuncOK(func) /\ NodesOK(nodes) /\ stree \in Seq(TreeNode)
  BY <1>1 DEF GInv, FlowInv, SearchInv
<1>4. Head(worklist) \in WorkItem /\ b \in Block
  <2>1. Head(worklist) \in WorkItem
    BY <1>1, <1>2 DEF SearchOf
  <2> QED  BY <2>1 DEF WorkItem
<1>5. CASE b \in Visited(nodes)
  <2>1. worklist' = Tail(worklist) /\ nodes' = nodes
    BY SMTT(60), <1>5 DEF Enter, Visited
  <2> QED  BY <1>1, <1>2, <1>3, <1>5, <2>1, SearchDrops
<1>6. CASE b \notin Visited(nodes)
  <2>1. /\ nodes' = [nodes EXCEPT ![b].pre_number = n]
        /\ worklist' = entered \o <<exit(b)>> \o Tail(worklist)
    BY <1>4, <1>6 DEF Enter, Visited
  <2>2. n \in Nat /\ n # NOT_VISITED
    BY <1>3 DEF NOT_VISITED
  <2>3. next \in Seq(Targets(func, b))
    <3> HIDE DEF b
    <3>1. graph_successors(b) = dests(func, b)
      BY DEF graph_successors
    <3>2. dests(func, b) \in Seq(Block) /\ Targets(func, b) = {dests(func, b)[i] : i \in 1 .. Len(dests(func, b))}
      BY <1>3, <1>4, TargetsType
    <3>3. dests(func, b) \in Seq(Targets(func, b))
      BY <3>2
    <3> DEFINE s == dests(func, b)
               U == Targets(func, b)
    <3> HIDE DEF s, U, unvisited
    <3>4. kept(s, unvisited) \in Seq(U)
      BY <3>3, KeptKeeps DEF s, U
    <3> QED  BY <3>1, <3>4 DEF s, U
  <2>4. /\ entered \in Seq(WorkItem)
        /\ \A m \in 1 .. Len(entered) : entered[m].event = "enter" /\ entered[m].block \in Targets(func, b)
    <3>1. Targets(func, b) \subseteq Block
      BY <1>3, <1>4, TargetsType
    <3> DEFINE U == Targets(func, b)
    <3> HIDE DEF next, n, b, U
    <3>2. Len(next) \in Nat /\ \A m \in 1 .. Len(next) : next[m] \in U
      BY <2>3, ElementOfSeq DEF U
    <3>3. entered = [m \in 1 .. Len(next) |-> enter(n, next[m])]
      BY <2>3
    <3>4. \A m \in 1 .. Len(next) : /\ enter(n, next[m]) \in WorkItem
                                    /\ enter(n, next[m]).event = "enter"
                                    /\ enter(n, next[m]).block \in U
      BY <2>2, <3>1, <3>2 DEF enter, WorkItem, U
    <3> HIDE DEF entered
    <3>5. entered \in Seq(WorkItem) /\ Len(entered) = Len(next)
      BY <3>2, <3>3, <3>4
    <3> QED  BY <3>3, <3>4, <3>5 DEF U
  <2>5. Visited(nodes') = Visited(nodes) \cup {b}
    <3> HIDE DEF b, n
    <3>1. nodes' = [c \in Block |-> IF c = b THEN [nodes[b] EXCEPT !.pre_number = n] ELSE nodes[c]]
      BY <1>3, <1>4, <2>1 DEF NodesOK
    <3>2. [nodes[b] EXCEPT !.pre_number = n].pre_number = n
      BY <1>3, <1>4 DEF NodesOK
    <3> QED  BY SMTT(60), <1>4, <2>2, <3>1, <3>2 DEF Visited
  <2> HIDE DEF entered
  <2>6. SearchOf(func, entered \o <<exit(b)>> \o Tail(worklist), postorder, Visited(nodes) \cup {b})
    BY <1>1, <1>2, <1>3, <1>6, <2>4, SearchEnters
  <2> QED  BY <2>1, <2>5, <2>6 DEF entered
<1> QED  BY <1>5, <1>6

\* A block is left.
LEMMA OrderExit == ASSUME GInv, OrderInv, Exit PROVE OrderInv'
<1>1. /\ pc = "spanning_tree" /\ pc' = "spanning_tree" /\ worklist # <<>>
      /\ Head(worklist).event = "exit" /\ func' = func /\ direction' = direction
      /\ postorder' = Append(postorder, Head(worklist).block) /\ worklist' = Tail(worklist)
      /\ nodes' = nodes
  BY DEF Exit, flowVars
<1>2. FuncOK(func)
  BY DEF GInv, FlowInv
<1>3. ASSUME direction = "forward"
      PROVE  SearchOf(func, worklist', postorder', Visited(nodes'))
  <2>1. SearchOf(func, worklist, postorder, Visited(nodes))
    BY <1>1, <1>3 DEF OrderInv
  <2> QED  BY <1>1, <1>2, <2>1, SearchLeaves
<1> QED  BY <1>1, <1>3 DEF OrderInv, Later, Searched

\* The search is over.
LEMMA OrderSearched == ASSUME GInv, OrderInv, SpanningTreeDone PROVE OrderInv'
<1>1. /\ pc = "spanning_tree" /\ pc' = "semi" /\ worklist = <<>> /\ func' = func
      /\ direction' = direction /\ postorder' = postorder /\ nodes' = nodes
  BY DEF SpanningTreeDone, flowVars
<1>2. FuncOK(func)
  BY DEF GInv, FlowInv
<1>3. ASSUME direction = "forward"
      PROVE  /\ PostorderOf(func, postorder)
             /\ \A b : b \in Visited(nodes) <=> HasLeft(postorder, b)
  <2>1. SearchOf(func, <<>>, postorder, Visited(nodes))
    BY <1>1, <1>3 DEF OrderInv
  <2>2. \A b \in Visited(nodes) : Targets(func, b) \subseteq Visited(nodes)
    <3>1. \A d : ~Waiting(d)
      BY <1>1 DEF Waiting
    <3>2. \A b \in Block : is_reachable(b) => \A d \in Targets(func, b) : is_reachable(d)
      BY <1>1, <1>3, <3>1 DEF GInv, SearchInv
    <3>3. \A b \in Block : Targets(func, b) \subseteq Block
      BY <1>2, TargetsType
    <3> QED  BY <3>2, <3>3 DEF Visited, is_reachable
  <2> QED  BY <1>2, <2>1, <2>2, SearchEnds
<1> QED  BY <1>1, <1>3 DEF OrderInv, Later, Searched

\* A removed block is none of those that are reached.
LEMMA OrderRemoves == ASSUME GInv, OrderInv, EliminateUnreachable PROVE OrderInv'
<1> DEFINE gone == {b \in Block : ~is_reachable(b) /\ func.term[b].op # "removed"}
<1>1. PICK b \in gone : removed(b) /\ pc' = IF gone = {b} THEN "loops" ELSE "unreachable"
  BY DEF EliminateUnreachable
<1>2. /\ pc \in {"loops", "unreachable"} /\ UNCHANGED <<direction, nodes, postorder>>
      /\ pc' \in {"loops", "unreachable"}
  BY <1>1 DEF EliminateUnreachable, domVars
<1>3. /\ b \in Block /\ b \notin Visited(nodes)
      /\ func' = [func EXCEPT !.term[b] = outside_layout]
  BY <1>1 DEF removed, Visited, is_reachable
<1>4. FuncOK(func) /\ FuncOK(func')
  <2>1. GInv'
    BY EliminateUnreachableKeeps
  <2> QED  BY <2>1 DEF GInv, FlowInv
<1>5. /\ direction = "forward" /\ PostorderOf(func, postorder)
      /\ \A c : c \in Visited(nodes) <=> HasLeft(postorder, c)
  BY <1>2 DEF GInv, SearchInv, OrderInv, Searched
<1>6. b \notin ReachedIn(func, {})
  BY <1>3, <1>5 DEF PostorderOf
<1>7. \A c \in ReachedIn(func, {}) : Targets(func', c) = Targets(func, c)
  <2> SUFFICES ASSUME NEW c \in ReachedIn(func, {}) PROVE Targets(func', c) = Targets(func, c)
    OBVIOUS
  <2>1. c # b
    BY <1>6
  <2>2. func'.term[c] = func.term[c]
    BY <1>3, <1>4, <2>1 DEF FuncOK
  <2> QED  BY <2>2 DEF Targets, dests
<1>8. \A avoid : ReachedIn(func', avoid) = ReachedIn(func, avoid)
  BY <1>4, <1>7, ReachedSame
<1>9. PostorderOf(func', postorder)
  BY <1>5, <1>8 DEF PostorderOf
<1> QED  BY <1>2, <1>5, <1>9 DEF OrderInv, Later, Searched

\* The reverse postorder has the blocks of the postorder.
LEMMA ReversePostorder ==
    ASSUME postorder \in Seq(Block)
    PROVE  /\ cfg_rpo \in Seq(Block) /\ Len(cfg_rpo) = Len(postorder) /\ Len(postorder) \in Nat
           /\ \A i \in 1 .. Len(postorder) :
                 /\ (Len(postorder) - i) + 1 \in 1 .. Len(postorder)
                 /\ cfg_rpo[i] = postorder[(Len(postorder) - i) + 1]
                 /\ cfg_rpo[(Len(postorder) - i) + 1] = postorder[i]
<1> DEFINE n == Len(postorder)
<1>1. n \in Nat
  OBVIOUS
<1>2. cfg_rpo = [i \in 1 .. n |-> postorder[(n - i) + 1]]
  BY DEF cfg_rpo, Reverse
<1>3. \A i \in 1 .. n : (n - i) + 1 \in 1 .. n /\ (n - ((n - i) + 1)) + 1 = i
  BY <1>1
<1>4. \A i \in 1 .. n : cfg_rpo[i] = postorder[(n - i) + 1]
  BY <1>2
<1>5. \A i \in 1 .. n : postorder[i] \in Block
  OBVIOUS
<1> HIDE DEF n
<1>6. cfg_rpo \in Seq(Block) /\ Len(cfg_rpo) = n
  <2>1. \A i \in 1 .. n : postorder[(n - i) + 1] \in Block
    BY <1>3, <1>5
  <2> QED  BY <1>1, <1>2, <2>1
<1>7. ASSUME NEW i \in 1 .. n PROVE cfg_rpo[(n - i) + 1] = postorder[i]
  <2> DEFINE j == (n - i) + 1
  <2>1. j \in 1 .. n /\ (n - j) + 1 = i
    BY <1>3
  <2> HIDE DEF j
  <2>2. cfg_rpo[j] = postorder[i]
    BY <1>4, <2>1
  <2> QED  BY <2>2 DEF j
<1> QED  BY <1>1, <1>3, <1>4, <1>6, <1>7 DEF n

\* The lowering has no block yet.
LEMMA OrderBegins == ASSUME GInv, OrderInv, OrderBegin PROVE OrderInv'
<1>1. /\ pc = "order" /\ pc' = "lowering" /\ func' = func /\ direction' = direction
      /\ postorder' = postorder /\ lowered_order' = <<>> /\ visited' = 0
  BY DEF OrderBegin, flowVars, domVars
<1>2. direction = "forward" /\ PostorderOf(func, postorder)
  BY <1>1 DEF OrderInv, Later
<1>3. \A s, split : LoweredOf(<<>>, 0, s, split, func')
  <2>1. <<>> \in Seq(LoweredBlock) /\ 1 .. Len(<<>>) = {} /\ 1 .. 0 = {}
    OBVIOUS
  <2> QED  BY <2>1 DEF LoweredOf
<1>4. visited' \in Nat /\ visited' <= Len(postorder')
  BY <1>1, <1>2 DEF PostorderOf
<1>5. LoweredOf(lowered_order', visited', cfg_rpo', SplitEdges', func')
  BY <1>1, <1>3
<1> QED  BY <1>1, <1>2, <1>4, <1>5 DEF OrderInv, Later, Searched

\* Which edges are critical follows from the function.
LEMMA SplitKept == ASSUME func' = func PROVE SplitEdges' = SplitEdges
<1>1. edges' = edges
  BY DEF edges, dests
<1>2. \A b : block_in_count(b)' = block_in_count(b)
  BY <1>1 DEF block_in_count, dests
<1>3. \A b, i : is_critical(b, i)' <=> is_critical(b, i)
  BY <1>2 DEF is_critical, block_out_count, dests
<1> QED  BY <1>3 DEF SplitEdges, dests

\* A block and its critical edges.
LEMMA OrderAppends == ASSUME GInv, OrderInv, OrderBlock PROVE OrderInv'
<1> DEFINE b == cfg_rpo[visited + 1]
           split == {i \in DOMAIN dests(func, b) : is_critical(b, i)}
<1>1. PICK order \in SetToSeqs(split) :
         lowered_order' = lowered_order \o <<orig(b)>>
                          \o [k \in DOMAIN order |-> block_succs(b)[order[k]]]
  BY DEF OrderBlock
<1>2. /\ pc = "lowering" /\ pc' = "lowering" /\ func' = func /\ direction' = direction
      /\ postorder' = postorder /\ visited' = visited + 1 /\ visited < Len(postorder)
  BY DEF OrderBlock, flowVars, domVars
<1>3. direction = "forward" /\ PostorderOf(func, postorder) /\ FuncOK(func)
  BY <1>2 DEF OrderInv, Later, GInv, FlowInv
<1>4. visited \in Nat /\ LoweredOf(lowered_order, visited, cfg_rpo, SplitEdges, func)
  BY <1>2 DEF OrderInv
<1>5. postorder \in Seq(Block) /\ \A i, j \in 1 .. Len(postorder) : postorder[i] = postorder[j] => i = j
  BY <1>3 DEF PostorderOf
<1>6. /\ cfg_rpo \in Seq(Block) /\ Len(cfg_rpo) = Len(postorder)
      /\ \A i, j \in 1 .. Len(cfg_rpo) : cfg_rpo[i] = cfg_rpo[j] => i = j
  <2> DEFINE n == Len(postorder)
  <2>1. /\ cfg_rpo \in Seq(Block) /\ Len(cfg_rpo) = n /\ n \in Nat
        /\ \A i \in 1 .. n : (n - i) + 1 \in 1 .. n /\ cfg_rpo[i] = postorder[(n - i) + 1]
    BY <1>5, ReversePostorder
  <2> HIDE DEF n
  <2>2. ASSUME NEW i \in 1 .. n, NEW j \in 1 .. n, cfg_rpo[i] = cfg_rpo[j] PROVE i = j
    <3>1. (n - i) + 1 = (n - j) + 1
      BY <1>5, <2>1, <2>2 DEF n
    <3> QED  BY <2>1, <3>1
  <2> QED  BY <2>1, <2>2 DEF n
<1>7. visited + 1 \in 1 .. Len(cfg_rpo)
  BY <1>2, <1>4, <1>5, <1>6
<1>8. b \in Block
  BY <1>6, <1>7
<1>9. /\ SplitEdges[b] = split /\ split \subseteq 1 .. Len(dests(func, b))
      /\ \A c \in Block : SplitEdges[c] \subseteq 1 .. Len(dests(func, c))
  <2>1. \A c \in Block : DOMAIN dests(func, c) = 1 .. Len(dests(func, c))
    BY <1>3, TargetsType
  <2> HIDE DEF b
  <2> QED  BY <1>8, <2>1 DEF SplitEdges
<1>10. /\ order \in Seq(split)
       /\ \A i, j \in 1 .. Len(order) : order[i] = order[j] => i = j
       /\ \A x \in split : \E k \in 1 .. Len(order) : order[k] = x
  <2>1. IsFiniteSet(split)
    <3>1. Len(dests(func, b)) \in Nat
      BY <1>3, <1>8, TargetsType
    <3>2. IsFiniteSet(1 .. Len(dests(func, b)))
      <4>1. PICK n \in Nat : n = Len(dests(func, b))
        BY <3>1
      <4>2. IsFiniteSet(1 .. n)
        BY FS_Interval
      <4> QED  BY <4>1, <4>2
    <3> HIDE DEF split
    <3> QED  BY <1>9, <3>2, FS_Subset
  <2> HIDE DEF split
  <2> QED  BY SMTT(60), <2>1, OrderOf
<1> DEFINE es == [k \in DOMAIN order |-> block_succs(b)[order[k]]]
<1>11. \A i \in split : /\ block_succs(b)[i] = EdgeBlock(func, b, i)
                        /\ EdgeBlock(func, b, i) \in LoweredBlock
  <2> SUFFICES ASSUME NEW i \in split
               PROVE  /\ block_succs(b)[i] = EdgeBlock(func, b, i)
                      /\ EdgeBlock(func, b, i) \in LoweredBlock
    OBVIOUS
  <2>1. i \in DOMAIN dests(func, b) /\ is_critical(b, i)
    OBVIOUS
  <2>2. i \in Nat /\ dests(func, b)[i] \in Block
    <3>1. dests(func, b) \in Seq(Block \ {0})
      BY <1>3, <1>8, TargetsType
    <3> HIDE DEF b, split
    <3> QED  BY <2>1, <3>1
  <2> HIDE DEF b, split
  <2> QED  BY <1>8, <2>1, <2>2 DEF block_succs, EdgeBlock, critical_edge, LoweredBlock
<1>12. /\ es \in Seq(LoweredBlock) /\ Len(es) = Len(order)
       /\ \A k \in 1 .. Len(order) : es[k] = EdgeBlock(func, b, order[k])
  <2> HIDE DEF b, split
  <2>1. Len(order) \in Nat /\ \A k \in 1 .. Len(order) : order[k] \in split
    BY <1>10, ElementOfSeq
  <2>2. es = [k \in 1 .. Len(order) |-> block_succs(b)[order[k]]]
    BY <1>10
  <2> HIDE DEF es
  <2>3. \A k \in 1 .. Len(order) : es[k] = EdgeBlock(func, b, order[k]) /\ es[k] \in LoweredBlock
    BY <1>11, <2>1, <2>2
  <2>4. es \in Seq(LoweredBlock) /\ Len(es) = Len(order)
    BY <2>1, <2>2, <2>3
  <2> QED  BY <2>3, <2>4
<1>13. LoweredOf(lowered_order \o <<orig(b)>> \o es, visited + 1, cfg_rpo, SplitEdges, func)
  <2>1. SplitEdges[cfg_rpo[visited + 1]] = split
    BY <1>9
  <2> HIDE DEF split, es
  <2> QED  BY <1>3, <1>4, <1>6, <1>7, <1>9, <1>10, <1>12, <2>1, LoweredAppends
<1>14. SplitEdges' = SplitEdges /\ cfg_rpo' = cfg_rpo
  BY <1>2, SplitKept DEF cfg_rpo
<1>15. LoweredOf(lowered_order', visited', cfg_rpo', SplitEdges', func')
  BY <1>1, <1>2, <1>13, <1>14
<1>16. visited' \in Nat /\ visited' <= Len(postorder')
  BY <1>2, <1>4, <1>5
<1> QED  BY <1>2, <1>3, <1>15, <1>16 DEF OrderInv, Later, Searched

\* The successor tables.
LEMMA OrderEnds == ASSUME GInv, OrderInv, OrderSuccessors PROVE OrderInv'
<1>1. /\ pc = "lowering" /\ pc' = "done" /\ func' = func /\ direction' = direction
      /\ postorder' = postorder /\ visited' = visited /\ visited = Len(postorder)
      /\ lowered_order' = lowered_order
  BY DEF OrderSuccessors, flowVars, domVars
<1>2. direction = "forward" /\ PostorderOf(func, postorder)
  BY <1>1 DEF OrderInv, Later
<1>3. visited \in Nat /\ LoweredOf(lowered_order, visited, cfg_rpo, SplitEdges, func)
  BY <1>1 DEF OrderInv
<1>4. SplitEdges' = SplitEdges /\ cfg_rpo' = cfg_rpo
  BY <1>1, SplitKept DEF cfg_rpo
<1>5. LoweredOf(lowered_order', visited', cfg_rpo', SplitEdges', func')
  BY <1>1, <1>3, <1>4
<1>6. \A k \in DOMAIN lowered_order : lowered_order[k] \in LoweredBlock
  BY <1>3 DEF LoweredOf
<1>7. lowered_succs' = TableOf(func, SplitEdges, lowered_order)
  <2> DEFINE succs(lb) == IF lb.pred = None THEN block_succs(lb.block) ELSE <<orig(lb.block)>>
  <2>1. lowered_succs' = [k \in DOMAIN lowered_order |->
            LET s == succs(lowered_order[k]) IN [i \in DOMAIN s |-> lb_to_bindex(s[i])]]
    BY Zenon DEF OrderSuccessors
  <2>2. \A lb \in LoweredBlock : succs(lb) = SuccsOf(func, SplitEdges, lb)
    <3> SUFFICES ASSUME NEW lb \in LoweredBlock PROVE succs(lb) = SuccsOf(func, SplitEdges, lb)
      OBVIOUS
    <3>1. lb.block \in Block
      BY DEF LoweredBlock
    <3>2. \A i \in DOMAIN dests(func, lb.block) :
              i \in SplitEdges[lb.block] <=> is_critical(lb.block, i)
      BY <3>1 DEF SplitEdges
    <3> QED  BY <3>2 DEF SuccsOf, block_succs, EdgeBlock
  <2> HIDE DEF succs
  <2>3. \A k \in DOMAIN lowered_order :
            succs(lowered_order[k]) = SuccsOf(func, SplitEdges, lowered_order[k])
    BY <1>6, <2>2
  <2>4. \A x : lb_to_bindex(x) = IndexOf(lowered_order, x)
    BY DEF lb_to_bindex, IndexOf
  <2> DEFINE row(k) == [i \in DOMAIN SuccsOf(func, SplitEdges, lowered_order[k]) |->
                          IndexOf(lowered_order, SuccsOf(func, SplitEdges, lowered_order[k])[i])]
  <2>5. \A k \in DOMAIN lowered_order :
            (LET s == succs(lowered_order[k]) IN [i \in DOMAIN s |-> lb_to_bindex(s[i])]) = row(k)
    BY <2>3, <2>4
  <2>6. lowered_succs' = [k \in DOMAIN lowered_order |-> row(k)]
    <3> HIDE DEF row
    <3> QED  BY <2>1, <2>5
  <2> QED  BY <2>6, Zenon DEF TableOf
<1>8. indirect_branch_targets' = TableTargets(func, lowered_order)
  <2>1. indirect_branch_targets' = {k \in DOMAIN lowered_order :
            \E e \in edges : from_table(func, e[1], e[2])
                             /\ dests(func, e[1])[e[2]] = lowered_order[k].block}
    BY DEF OrderSuccessors
  <2>2. ASSUME NEW x
        PROVE  (\E e \in edges : from_table(func, e[1], e[2]) /\ dests(func, e[1])[e[2]] = x)
               <=> \E p \in Block : \E i \in DOMAIN dests(func, p) :
                          from_table(func, p, i) /\ dests(func, p)[i] = x
    <3>1. ASSUME NEW e \in edges, from_table(func, e[1], e[2]), dests(func, e[1])[e[2]] = x
          PROVE  \E p \in Block : \E i \in DOMAIN dests(func, p) :
                    from_table(func, p, i) /\ dests(func, p)[i] = x
      <4>1. PICK p \in Block : e \in {<<p, i>> : i \in DOMAIN dests(func, p)}
        BY DEF edges
      <4>2. PICK i \in DOMAIN dests(func, p) : e = <<p, i>>
        BY <4>1
      <4>3. e[1] = p /\ e[2] = i
        BY <4>2
      <4> QED  BY <3>1, <4>3
    <3>2. ASSUME NEW p \in Block, NEW i \in DOMAIN dests(func, p),
                 from_table(func, p, i), dests(func, p)[i] = x
          PROVE  \E e \in edges : from_table(func, e[1], e[2]) /\ dests(func, e[1])[e[2]] = x
      <4>1. <<p, i>> \in edges
        BY DEF edges
      <4>2. <<p, i>>[1] = p /\ <<p, i>>[2] = i
        OBVIOUS
      <4> QED  BY <3>2, <4>1, <4>2
    <3> QED  BY <3>1, <3>2
  <2> QED  BY <2>1, <2>2, Zenon DEF TableTargets
<1>9. /\ lowered_succs' = TableOf(func', SplitEdges', lowered_order')
      /\ indirect_branch_targets' = TableTargets(func', lowered_order')
  BY <1>1, <1>4, <1>7, <1>8
<1> QED  BY <1>1, <1>2, <1>3, <1>5, <1>9 DEF OrderInv, Later, Searched

\* Every step keeps the invariant of the block order.
LEMMA OrderStep == ASSUME GInv, OrderInv, [Next]_vars PROVE OrderInv'
<1>1. CASE ComputeGraph /\ UNCHANGED domVars
  <2>1. pc = "cfg" /\ pc' \in {"cfg", "compute"}
    BY <1>1 DEF ComputeGraph
  <2> QED  BY <2>1 DEF OrderInv, Later, Searched
<1>2. CASE ComputeBegin
  BY <1>2, OrderComputeBegin
<1>3. CASE Enter
  BY <1>3, OrderEnter
<1>4. CASE Exit
  BY <1>4, OrderExit
<1>5. CASE SpanningTreeDone
  BY <1>5, OrderSearched
<1>6. CASE ComputeSemi \/ SemiDone \/ ComputeIdom \/ ComputeLinks \/ AssignPreorder \/ PropagateMax
  <2>1. /\ func' = func /\ direction' = direction /\ postorder' = postorder
        /\ pc \in {"semi", "idom", "preorder"}
        /\ pc' \in {"semi", "idom", "preorder", "loops", "post_dominators"}
        /\ direction = "forward" => \A b \in Block : nodes'[b].pre_number = nodes[b].pre_number
    BY <1>6, TreeSteps DEF flowVars
  <2>2. direction = "forward" => Visited(nodes') = Visited(nodes)
    BY <2>1 DEF Visited
  <2> QED  BY <2>1, <2>2, OrderKept DEF Later, Searched
<1>7. CASE EliminateUnreachable
  BY <1>7, OrderRemoves
<1>8. CASE LoopNext /\ UNCHANGED orderVars
  <2>1. /\ func' = func /\ direction' = direction /\ postorder' = postorder
        /\ pc \in {"loops", "loop_blocks"} /\ pc' \in {"loop_blocks", "order"}
    BY <1>8 DEF LoopNext, FindLoopHeaders, DiscoverNext, DiscoverBlock, AssignLoopLevels,
                flowVars, domVars
  <2>2. direction = "forward"
    BY <2>1 DEF OrderInv, GInv, SearchInv, Later
  <2> QED  BY <2>1, <2>2, OrderKept DEF Later, Searched
<1>9. CASE OrderBegin
  BY <1>9, OrderBegins
<1>10. CASE OrderBlock
  BY <1>10, OrderAppends
<1>11. CASE OrderSuccessors
  BY <1>11, OrderEnds
<1>12. ASSUME NEW b \in Block, NEW t \in Edits, ReplaceTerminator(b, t) PROVE OrderInv'
  <2>1. pc' = "compute"
    BY <1>12 DEF ReplaceTerminator
  <2> QED  BY <2>1 DEF OrderInv, Later, Searched
<1>13. CASE UNCHANGED vars
  <2>1. /\ func' = func /\ direction' = direction /\ postorder' = postorder /\ pc' = pc
        /\ nodes' = nodes /\ worklist' = worklist /\ visited' = visited
        /\ lowered_order' = lowered_order /\ lowered_succs' = lowered_succs
        /\ indirect_branch_targets' = indirect_branch_targets
    BY <1>13 DEF vars, flowVars, domVars, orderVars
  <2>2. SplitEdges' = SplitEdges /\ cfg_rpo' = cfg_rpo
    BY <2>1, SplitKept DEF cfg_rpo
  <2> QED  BY <2>1, <2>2 DEF OrderInv
<1> QED  BY <1>1, <1>2, <1>3, <1>4, <1>5, <1>6, <1>7, <1>8, <1>9, <1>10, <1>11, <1>12, <1>13
         DEF Next, DomNext

\* From the search to the tables, over the functions and edits of the model: the
\* search leaves the blocks in postorder, the loop of BlockLoweringOrder::new
\* appends in reverse, and the tables are those of the finished order.
THEOREM OrderInvariant == Spec => []OrderInv
<1>1. Init => OrderInv
  BY OrderStart
<1>2. GInv /\ OrderInv /\ [Next]_vars => OrderInv'
  BY OrderStep
<1> QED  BY <1>1, <1>2, GraphInvariant, PTL DEF Spec

\* Where a lowered block is.
LEMMA IndexFacts ==
    ASSUME NEW lo \in Seq(LoweredBlock), NEW lb, \E k \in 1 .. Len(lo) : lo[k] = lb
    PROVE  IndexOf(lo, lb) \in 1 .. Len(lo) /\ lo[IndexOf(lo, lb)] = lb
<1>1. DOMAIN lo = 1 .. Len(lo)
  OBVIOUS
<1>2. \E k \in DOMAIN lo : lo[k] = lb
  BY <1>1
<1> QED  BY <1>1, <1>2 DEF IndexOf

\* The edges of a function are finitely many.
LEMMA EdgesFinite == ASSUME FuncOK(func) PROVE IsFiniteSet(edges)
<1> DEFINE from == [p \in Block |-> {<<p, i>> : i \in DOMAIN dests(func, p)}]
           all == {from[p] : p \in Block}
<1>1. IsFiniteSet(Block)
  BY FS_Interval DEF Block
<1>2. ASSUME NEW p \in Block PROVE IsFiniteSet(from[p])
  <2>1. PICK n \in Nat : n = Len(dests(func, p)) /\ DOMAIN dests(func, p) = 1 .. n
    BY TargetsType
  <2>2. IsFiniteSet(1 .. n)
    BY FS_Interval
  <2> DEFINE pair == [i \in 1 .. n |-> <<p, i>>]
             P == {<<p, i>> : i \in 1 .. n}
  <2>3. pair \in Surjection(1 .. n, P)
    BY DEF Surjection
  <2>4. IsFiniteSet(P)
    <3> HIDE DEF pair, P
    <3> QED  BY <2>2, <2>3, FS_Surjection
  <2> QED  BY <2>1, <2>4
<1>3. from \in Surjection(Block, all)
  <2> HIDE DEF from
  <2>1. from = [p \in Block |-> from[p]]
    BY DEF from
  <2> QED  BY <2>1 DEF Surjection
<1>4. IsFiniteSet(all)
  <2> HIDE DEF from, all
  <2> QED  BY <1>1, <1>3, FS_Surjection
<1>5. IsFiniteSet(UNION all)
  <2>1. \A T \in all : IsFiniteSet(T)
    BY <1>2
  <2> HIDE DEF from, all
  <2> QED  BY <1>4, <2>1, FS_UNION
<1>6. edges = UNION all
  BY DEF edges
<1> QED  BY <1>5, <1>6

\* An edge that is not critical, of a block that may leave to several others or
\* by a table, is the only one that leads to its block.
LEMMA NotCritical ==
    ASSUME FuncOK(func), NEW b \in Block, NEW i \in DOMAIN dests(func, b), ~is_critical(b, i),
           Len(dests(func, b)) > 1 \/ func.term[b].op = "br_table",
           NEW p \in Block, NEW j \in DOMAIN dests(func, p), dests(func, p)[j] = dests(func, b)[i]
    PROVE  p = b /\ j = i
<1> DEFINE E == {e \in edges : dests(func, e[1])[e[2]] = dests(func, b)[i]}
<1>1. block_out_count(b) > 1
  <2>1. PICK n \in Nat : n = Len(dests(func, b))
    BY TargetsType
  <2>2. Max({2, n}) > 1
    <3>1. \E x \in {2, n} : \A y \in {2, n} : x >= y
      BY DEF Max
    <3>2. Max({2, n}) \in {2, n} /\ Max({2, n}) >= 2
      BY <3>1 DEF Max
    <3> QED  BY <3>2
  <2> QED  BY <2>1, <2>2 DEF block_out_count
<1>2. ~(Cardinality(E) > 1)
  BY <1>1 DEF is_critical, block_in_count
<1>3. IsFiniteSet(E)
  BY EdgesFinite, FS_Subset
<1>4. <<b, i>> \in E /\ <<p, j>> \in E
  <2>1. <<b, i>> \in edges /\ <<p, j>> \in edges
    BY DEF edges
  <2>2. /\ <<b, i>>[1] = b /\ <<b, i>>[2] = i
        /\ <<p, j>>[1] = p /\ <<p, j>>[2] = j
    OBVIOUS
  <2> QED  BY <2>1, <2>2
<1> HIDE DEF E
<1>5. <<b, i>> = <<p, j>>
  <2> SUFFICES ASSUME <<b, i>> # <<p, j>> PROVE FALSE
    OBVIOUS
  <2> DEFINE x == <<b, i>>
             y == <<p, j>>
  <2>5. x # y
    OBVIOUS
  <2>1. IsFiniteSet({x, y}) /\ Cardinality({x, y}) = 2
    <3> HIDE DEF x, y
    <3>1. IsFiniteSet({x}) /\ Cardinality({x}) = 1
      BY FS_Singleton
    <3>2. y \notin {x}
      BY <2>5
    <3>3. {x} \cup {y} = {x, y}
      OBVIOUS
    <3>4. /\ IsFiniteSet({x} \cup {y})
          /\ Cardinality({x} \cup {y}) = IF y \in {x} THEN Cardinality({x}) ELSE Cardinality({x}) + 1
      BY <3>1, FS_AddElement
    <3>5. Cardinality({x} \cup {y}) = 1 + 1
      BY <3>1, <3>2, <3>4, Zenon
    <3>6. 1 + 1 = 2
      OBVIOUS
    <3> QED  BY <3>3, <3>4, <3>5, <3>6, Zenon
  <2>2. {<<b, i>>, <<p, j>>} \in SUBSET E
    BY <1>4
  <2>3. Cardinality({<<b, i>>, <<p, j>>}) <= Cardinality(E)
    BY <1>3, <2>2, FS_Subset
  <2>4. Cardinality(E) \in Nat
    BY <1>3, FS_CardinalityType
  <2> QED  BY <1>2, <2>1, <2>3, <2>4
<1> QED  BY <1>5

\* What lowered_order holds in the end, and the successors of each of its blocks.
LoweredFacts(lo, f, s, split) ==
    /\ lo \in Seq(LoweredBlock)
    /\ \A k, l \in 1 .. Len(lo) : lo[k] = lo[l] => k = l
    \* Every block is that of a reached block or of an edge of one.
    /\ \A k \in 1 .. Len(lo) :
          \/ \E b \in ReachedIn(f, {}) : lo[k] = orig(b)
          \/ \E b \in ReachedIn(f, {}) : \E i \in split[b] : lo[k] = EdgeBlock(f, b, i)
    /\ \A b \in ReachedIn(f, {}) :
          /\ \E k \in 1 .. Len(lo) : lo[k] = orig(b)
          /\ \A i \in split[b] : \E k \in 1 .. Len(lo) : lo[k] = EdgeBlock(f, b, i)
    /\ \A k, l \in 1 .. Len(lo) : \A a, b \in ReachedIn(f, {}) :
          a # b /\ b \notin ReachedIn(f, {a}) /\ lo[k] = orig(a) /\ lo[l] = orig(b) => k < l
    /\ \A k, l \in 1 .. Len(lo) : \A b \in ReachedIn(f, {}) : \A i \in split[b] :
          lo[k] = orig(b) /\ lo[l] = EdgeBlock(f, b, i) => k < l

\* They follow from the invariant.
LEMMA LoweringDone ==
    ASSUME GInv, OrderInv, pc = "done"
    PROVE  LoweredFacts(lowered_order, func, cfg_rpo, SplitEdges)
<1> DEFINE n == Len(postorder)
           s == cfg_rpo
           R == ReachedIn(func, {})
           lo == lowered_order
<1>1. PostorderOf(func, postorder) /\ visited = n
  BY DEF OrderInv, Later
<1>2. LoweredOf(lo, n, s, SplitEdges, func)
  BY <1>1 DEF OrderInv
<1>3. postorder \in Seq(Block)
  BY <1>1 DEF PostorderOf
<1>4. /\ n \in Nat
      /\ \A i \in 1 .. n : (n - i) + 1 \in 1 .. n /\ s[i] = postorder[(n - i) + 1]
                           /\ s[(n - i) + 1] = postorder[i]
  BY <1>3, ReversePostorder
<1> HIDE DEF s
<1>5. \A b : b \in R <=> \E w \in 1 .. n : s[w] = b
  <2>1. ASSUME NEW b \in R PROVE \E w \in 1 .. n : s[w] = b
    <3>1. PICK m \in 1 .. n : postorder[m] = b
      BY <1>1 DEF PostorderOf, HasLeft
    <3> QED  BY <1>4, <3>1
  <2>2. ASSUME NEW w \in 1 .. n PROVE s[w] \in R
    <3>1. HasLeft(postorder, s[w])
      BY <1>4 DEF HasLeft
    <3> QED  BY <1>1, <3>1 DEF PostorderOf
  <2> HIDE DEF R, n
  <2> QED  BY <2>1, <2>2
<1>6. ASSUME NEW x \in 1 .. n, NEW y \in 1 .. n, s[x] # s[y], s[y] \notin ReachedIn(func, {s[x]})
      PROVE  x < y
  <2> DEFINE m == (n - x) + 1
             k == (n - y) + 1
  <2>1. m \in 1 .. n /\ k \in 1 .. n /\ s[x] = postorder[m] /\ s[y] = postorder[k]
    BY <1>4
  <2>2. m # k
    BY <1>6, <2>1
  <2> HIDE DEF m, k
  <2>3. k < m
    BY <1>1, <1>6, <2>1, <2>2 DEF PostorderOf
  <2> QED  BY <1>4, <2>3 DEF m, k
<1> HIDE DEF n, R, lo
<1>7. /\ lo \in Seq(LoweredBlock)
      /\ \A k, l \in 1 .. Len(lo) : lo[k] = lo[l] => k = l
  BY <1>2 DEF LoweredOf
<1>8. ASSUME NEW k \in 1 .. Len(lo)
      PROVE  \/ \E b \in R : lo[k] = orig(b)
             \/ \E b \in R : \E i \in SplitEdges[b] : lo[k] = EdgeBlock(func, b, i)
  <2>1. PICK w \in 1 .. n : \/ lo[k] = orig(s[w])
                            \/ \E i \in SplitEdges[s[w]] : lo[k] = EdgeBlock(func, s[w], i)
    BY <1>2 DEF LoweredOf
  <2>2. s[w] \in R
    BY <1>5
  <2> QED  BY <2>1, <2>2
<1>9. ASSUME NEW b \in R
      PROVE  /\ \E k \in 1 .. Len(lo) : lo[k] = orig(b)
             /\ \A i \in SplitEdges[b] : \E k \in 1 .. Len(lo) : lo[k] = EdgeBlock(func, b, i)
  <2>1. PICK w \in 1 .. n : s[w] = b
    BY <1>5
  <2> QED  BY <1>2, <2>1 DEF LoweredOf
<1>10. ASSUME NEW k \in 1 .. Len(lo), NEW l \in 1 .. Len(lo), NEW a \in R, NEW b \in R,
              a # b, b \notin ReachedIn(func, {a}), lo[k] = orig(a), lo[l] = orig(b)
       PROVE  k < l
  <2>1. PICK x \in 1 .. n : s[x] = a
    BY <1>5
  <2>2. PICK y \in 1 .. n : s[y] = b
    BY <1>5
  <2>3. x < y
    BY <1>6, <1>10, <2>1, <2>2
  <2> QED  BY <1>2, <1>10, <2>1, <2>2, <2>3 DEF LoweredOf
<1>11. ASSUME NEW k \in 1 .. Len(lo), NEW l \in 1 .. Len(lo), NEW b \in R,
              NEW i \in SplitEdges[b], lo[k] = orig(b), lo[l] = EdgeBlock(func, b, i)
       PROVE  k < l
  <2>1. PICK x \in 1 .. n : s[x] = b
    BY <1>5
  <2> QED  BY <1>2, <1>11, <2>1 DEF LoweredOf
<1>12. LoweredFacts(lo, func, s, SplitEdges)
  BY <1>7, <1>8, <1>9, <1>10, <1>11 DEF LoweredFacts, R
<1> QED  BY <1>12 DEF lo, s

\* Following a successor of a reached block.
LEMMA SuccessorFacts ==
    ASSUME FuncOK(func), NEW lo, LoweredFacts(lo, func, cfg_rpo, SplitEdges),
           NEW b \in ReachedIn(func, {}), NEW k \in 1 .. Len(lo), lo[k] = orig(b),
           NEW i \in DOMAIN dests(func, b), NEW j,
           j = IndexOf(lo, SuccsOf(func, SplitEdges, lo[k])[i])
    PROVE  /\ b \in Block /\ DOMAIN SuccsOf(func, SplitEdges, lo[k]) = DOMAIN dests(func, b)
           /\ dests(func, b)[i] \in ReachedIn(func, {})
           /\ j \in 1 .. Len(lo) /\ lo[j].block = dests(func, b)[i]
           /\ i \in SplitEdges[b] => lo[j] = EdgeBlock(func, b, i)
           /\ i \notin SplitEdges[b] => lo[j] = orig(dests(func, b)[i])
<1>1. b \in Block
  BY ReachedFacts
<1>2. lo[k].pred = None /\ lo[k].block = b
  BY LoweredKinds
<1>3. DOMAIN SuccsOf(func, SplitEdges, lo[k]) = DOMAIN dests(func, b)
  BY <1>2 DEF SuccsOf
<1>4. SuccsOf(func, SplitEdges, lo[k])[i] =
          IF i \in SplitEdges[b] THEN EdgeBlock(func, b, i) ELSE orig(dests(func, b)[i])
  BY <1>2 DEF SuccsOf
<1>5. dests(func, b)[i] \in ReachedIn(func, {})
  <2>1. dests(func, b)[i] \in Targets(func, b)
    BY <1>1, TargetsType DEF Targets, ToSet
  <2> QED  BY <2>1, ReachedFacts
<1>6. CASE i \in SplitEdges[b]
  <2>1. j = IndexOf(lo, EdgeBlock(func, b, i))
    BY <1>4, <1>6
  <2>2. \E l \in 1 .. Len(lo) : lo[l] = EdgeBlock(func, b, i)
    BY <1>6 DEF LoweredFacts
  <2>3. j \in 1 .. Len(lo) /\ lo[j] = EdgeBlock(func, b, i)
    BY <2>1, <2>2, IndexFacts DEF LoweredFacts
  <2> QED  BY <1>1, <1>3, <1>5, <1>6, <2>3, LoweredKinds
<1>7. CASE i \notin SplitEdges[b]
  <2> DEFINE d == dests(func, b)[i]
  <2>1. j = IndexOf(lo, orig(d))
    BY <1>4, <1>7
  <2> HIDE DEF d
  <2>2. \E l \in 1 .. Len(lo) : lo[l] = orig(d)
    BY <1>5 DEF LoweredFacts, d
  <2>3. j \in 1 .. Len(lo) /\ lo[j] = orig(d)
    BY <2>1, <2>2, IndexFacts DEF LoweredFacts
  <2> QED  BY <1>1, <1>3, <1>5, <1>7, <2>3, LoweredKinds DEF d
<1> QED  BY <1>6, <1>7

\* The successor of a block that has an edge block leads on to the block the
\* branch names.
LEMMA EdgeLeadsOn ==
    ASSUME FuncOK(func), NEW lo, LoweredFacts(lo, func, cfg_rpo, SplitEdges),
           NEW b \in ReachedIn(func, {}), NEW i \in SplitEdges[b], i \in DOMAIN dests(func, b),
           NEW j \in 1 .. Len(lo), lo[j] = EdgeBlock(func, b, i)
    PROVE  /\ SuccsOf(func, SplitEdges, lo[j]) = <<orig(dests(func, b)[i])>>
           /\ IndexOf(lo, orig(dests(func, b)[i])) \in 1 .. Len(lo)
           /\ lo[IndexOf(lo, orig(dests(func, b)[i]))] = orig(dests(func, b)[i])
<1> DEFINE d == dests(func, b)[i]
<1>1. b \in Block
  BY ReachedFacts
<1>2. lo[j].pred = b /\ lo[j].block = d
  BY LoweredKinds
<1>3. b # None
  BY <1>1 DEF Block, None
<1>4. d \in ReachedIn(func, {})
  <2>1. d \in Targets(func, b)
    BY <1>1, TargetsType DEF Targets, ToSet
  <2> QED  BY <2>1, ReachedFacts
<1> HIDE DEF d
<1>5. \E l \in 1 .. Len(lo) : lo[l] = orig(d)
  BY <1>4 DEF LoweredFacts
<1>6. lo \in Seq(LoweredBlock)
  BY DEF LoweredFacts
<1>7. IndexOf(lo, orig(d)) \in 1 .. Len(lo) /\ lo[IndexOf(lo, orig(d))] = orig(d)
  BY <1>5, <1>6, IndexFacts
<1>8. SuccsOf(func, SplitEdges, lo[j]) = <<orig(d)>>
  BY <1>2, <1>3 DEF SuccsOf
<1> QED  BY <1>7, <1>8 DEF d

\* No other entry of the order's table is the i-th of the k-th block.
OnlyEntryOf(lo, b, k, i) ==
    \A l \in 1 .. Len(lo) : \A x \in DOMAIN SuccsOf(func, SplitEdges, lo[l]) :
        IndexOf(lo, SuccsOf(func, SplitEdges, lo[l])[x])
            = IndexOf(lo, SuccsOf(func, SplitEdges, lo[k])[i]) => l = k /\ x = i

\* A block that may leave to several others, or by a table, is the only lowered
\* block that leads to its successors.
LEMMA OnlyEntry ==
    ASSUME FuncOK(func), NEW lo, LoweredFacts(lo, func, cfg_rpo, SplitEdges),
           NEW b \in ReachedIn(func, {}), NEW k \in 1 .. Len(lo), lo[k] = orig(b),
           NEW i \in DOMAIN dests(func, b),
           Len(dests(func, b)) > 1 \/ func.term[b].op = "br_table"
    PROVE  OnlyEntryOf(lo, b, k, i)
<1> SUFFICES ASSUME NEW l \in 1 .. Len(lo), NEW x \in DOMAIN SuccsOf(func, SplitEdges, lo[l]),
                    IndexOf(lo, SuccsOf(func, SplitEdges, lo[l])[x])
                      = IndexOf(lo, SuccsOf(func, SplitEdges, lo[k])[i])
             PROVE  l = k /\ x = i
  BY DEF OnlyEntryOf
<1> DEFINE j == IndexOf(lo, SuccsOf(func, SplitEdges, lo[k])[i])
<1>1. /\ b \in Block /\ j \in 1 .. Len(lo) /\ lo[j].block = dests(func, b)[i]
      /\ i \in SplitEdges[b] => lo[j] = EdgeBlock(func, b, i)
      /\ i \notin SplitEdges[b] => lo[j] = orig(dests(func, b)[i])
  BY SuccessorFacts
<1>2. j = IndexOf(lo, SuccsOf(func, SplitEdges, lo[l])[x])
  OBVIOUS
<1> HIDE DEF j
<1>3. i \notin SplitEdges[b] => ~is_critical(b, i)
  BY <1>1 DEF SplitEdges
<1>4. CASE \E c \in ReachedIn(func, {}) : lo[l] = orig(c)
  <2>1. PICK c \in ReachedIn(func, {}) : lo[l] = orig(c)
    BY <1>4
  <2>2. c \in Block /\ DOMAIN SuccsOf(func, SplitEdges, lo[l]) = DOMAIN dests(func, c)
    <3>1. c \in Block
      BY ReachedFacts
    <3>2. lo[l].pred = None /\ lo[l].block = c
      BY <2>1, LoweredKinds
    <3> QED  BY <3>1, <3>2 DEF SuccsOf
  <2>3. x \in DOMAIN dests(func, c)
    BY <2>2
  <2>4. /\ lo[j].block = dests(func, c)[x]
        /\ x \in SplitEdges[c] => lo[j] = EdgeBlock(func, c, x)
        /\ x \notin SplitEdges[c] => lo[j] = orig(dests(func, c)[x])
    BY <1>2, <2>1, <2>3, SuccessorFacts
  <2>5. c = b /\ x = i
    <3>1. CASE i \in SplitEdges[b]
      <4>1. x \in SplitEdges[c]
        BY <1>1, <2>4, <3>1, LoweredKinds
      <4>2. EdgeBlock(func, b, i) = EdgeBlock(func, c, x)
        BY <1>1, <2>4, <3>1, <4>1
      <4> QED  BY <4>2, LoweredKinds
    <3>2. CASE i \notin SplitEdges[b]
      <4>1. dests(func, c)[x] = dests(func, b)[i] /\ ~is_critical(b, i)
        BY <1>1, <1>3, <2>4, <3>2
      <4> QED  BY <1>1, <2>2, <2>3, <4>1, NotCritical
    <3> QED  BY <3>1, <3>2
  <2>6. lo[l] = lo[k]
    BY <2>1, <2>5
  <2> QED  BY <2>5, <2>6 DEF LoweredFacts
<1>5. CASE \E c \in ReachedIn(func, {}) : \E y \in SplitEdges[c] : lo[l] = EdgeBlock(func, c, y)
  <2>8. PICK c \in ReachedIn(func, {}) : \E y \in SplitEdges[c] : lo[l] = EdgeBlock(func, c, y)
    BY <1>5
  <2>1. PICK y \in SplitEdges[c] : lo[l] = EdgeBlock(func, c, y)
    BY <2>8
  <2>2. c \in Block /\ y \in DOMAIN dests(func, c) /\ is_critical(c, y)
    <3>1. c \in Block
      BY ReachedFacts
    <3> QED  BY <2>1, <3>1 DEF SplitEdges
  <2> DEFINE d == dests(func, c)[y]
  <2>3. /\ SuccsOf(func, SplitEdges, lo[l]) = <<orig(d)>>
        /\ lo[IndexOf(lo, orig(d))] = orig(d)
    BY <2>1, <2>2, EdgeLeadsOn
  <2> HIDE DEF d
  <2>4. x = 1 /\ SuccsOf(func, SplitEdges, lo[l])[x] = orig(d)
    BY <2>3
  <2>5. lo[j] = orig(d)
    BY <1>2, <2>3, <2>4
  <2>6. i \notin SplitEdges[b] /\ dests(func, b)[i] = d
    BY <1>1, <2>5, LoweredKinds
  <2>7. c = b /\ y = i
    BY <1>1, <1>3, <2>2, <2>6, NotCritical DEF d
  <2> QED  BY <1>3, <2>2, <2>6, <2>7
<1>6. \/ \E c \in ReachedIn(func, {}) : lo[l] = orig(c)
      \/ \E c \in ReachedIn(func, {}) : \E y \in SplitEdges[c] : lo[l] = EdgeBlock(func, c, y)
  BY DEF LoweredFacts
<1> QED  BY <1>4, <1>5, <1>6

\* BlockLoweringOrder::new and the search before it: for any function and after
\* any edits, every reachable block is lowered once, after its dominators; each
\* successor, through an edge block if there is one, is the block the branch
\* names; and no edge of a block that may leave to several others, or by a
\* table, shares its target with another edge.
THEOREM OrderIsSound == Spec => []LoweredOrderSound
<1>1. GInv /\ OrderInv => LoweredOrderSound
  <2> SUFFICES ASSUME GInv, OrderInv, pc = "done"
               PROVE  LoweredOrderSound
    BY DEF LoweredOrderSound
  <2> DEFINE lo == lowered_order
             R == ReachedIn(func, {})
             succs(k) == SuccsOf(func, SplitEdges, lo[k])
             table == lowered_succs
             leads_to(k, i) ==
                LET j == table[k][i] IN IF lo[j].pred = None THEN j ELSE table[j][1]
             entries(j) == UNION {{<<k, i>> : i \in {x \in DOMAIN table[k] : table[k][x] = j}} :
                                  k \in DOMAIN table}
             index(b) == lb_to_bindex(orig(b))
  <2>1. FuncOK(func) /\ LoweredFacts(lo, func, cfg_rpo, SplitEdges)
    BY LoweringDone DEF GInv, FlowInv
  <2>2. /\ lo \in Seq(LoweredBlock) /\ DOMAIN lo = 1 .. Len(lo) /\ Len(lo) \in Nat
        /\ \A k, l \in 1 .. Len(lo) : lo[k] = lo[l] => k = l
    BY <2>1 DEF LoweredFacts
  <2>3. reached({}) = R /\ \A a : reached({a}) = ReachedIn(func, {a})
    BY ReachedNow
  <2>4. /\ table = TableOf(func, SplitEdges, lo)
        /\ indirect_branch_targets = TableTargets(func, lo)
    BY DEF OrderInv
  <2>5. /\ DOMAIN table = 1 .. Len(lo)
        /\ \A k \in 1 .. Len(lo) : table[k] = [i \in DOMAIN succs(k) |-> IndexOf(lo, succs(k)[i])]
    BY <2>2, <2>4 DEF TableOf
  <2>6. \A b : index(b) = IndexOf(lo, orig(b))
    BY DEF lb_to_bindex, IndexOf
  <2>7. R \subseteq Block
    BY <2>1, ReachedFacts
  <2>8. LoweredOrderSound <=>
            /\ {lb.block : lb \in {x \in ToSet(lo) : x.pred = None}} = reached({})
            /\ Cardinality(ToSet(lo)) = Len(lo)
            /\ \A a, b \in reached({}) : a # b /\ dominates(a, b) => index(a) < index(b)
            /\ \A k \in DOMAIN lo : lo[k].pred # None => index(lo[k].pred) < k
            /\ \A b \in reached({}) : \A i \in DOMAIN dests(func, b) :
                  /\ lo[leads_to(index(b), i)] = orig(dests(func, b)[i])
                  /\ Len(dests(func, b)) > 1 \/ func.term[b].op = "br_table" =>
                        Cardinality(entries(table[index(b)][i])) = 1
                  /\ from_table(func, b, i) => table[index(b)][i] \in indirect_branch_targets
    BY Zenon DEF LoweredOrderSound
  <2> HIDE DEF lo, R, succs, table, leads_to, entries, index
  <2>9. ASSUME NEW b \in R
        PROVE  index(b) \in 1 .. Len(lo) /\ lo[index(b)] = orig(b)
    <3>1. \E k \in 1 .. Len(lo) : lo[k] = orig(b)
      BY <2>1 DEF LoweredFacts, R
    <3> QED  BY <2>2, <2>6, <3>1, IndexFacts
  <2>10. {lb.block : lb \in {x \in ToSet(lo) : x.pred = None}} = R
    <3>1. ASSUME NEW k \in 1 .. Len(lo), lo[k].pred = None PROVE lo[k].block \in R
      <4>1. CASE \E b \in R : lo[k] = orig(b)
        BY <4>1, LoweredKinds
      <4>2. CASE \E b \in R : \E i \in SplitEdges[b] : lo[k] = EdgeBlock(func, b, i)
        <5>1. PICK b \in R : \E i \in SplitEdges[b] : lo[k] = EdgeBlock(func, b, i)
          BY <4>2
        <5>2. lo[k].pred = b /\ b \in Block
          BY <2>7, <5>1, LoweredKinds
        <5> QED  BY <3>1, <5>2 DEF Block, None
      <4> QED  BY <2>1, <4>1, <4>2 DEF LoweredFacts, R
    <3>2. ASSUME NEW b \in R
          PROVE  \E k \in 1 .. Len(lo) : lo[k].pred = None /\ lo[k].block = b
      BY <2>9, <3>2, LoweredKinds
    <3>3. ToSet(lo) = {lo[k] : k \in 1 .. Len(lo)}
      BY <2>2 DEF ToSet
    <3> QED  BY <3>1, <3>2, <3>3
  <2>11. Cardinality(ToSet(lo)) = Len(lo)
    <3> DEFINE n == Len(lo)
               T == ToSet(lo)
    <3>1. T = {lo[k] : k \in 1 .. n} /\ n \in Nat
      BY <2>2 DEF ToSet
    <3>2. lo = [k \in 1 .. n |-> lo[k]] /\ \A k, l \in 1 .. n : lo[k] = lo[l] => k = l
      BY <2>2
    <3> HIDE DEF n, T
    <3>3. lo \in Surjection(1 .. n, T)
      BY <3>1, <3>2 DEF Surjection
    <3>4. lo \in Injection(1 .. n, T)
      <4>1. lo \in [1 .. n -> T]
        BY <3>1, <3>2
      <4>2. IsInjective(lo)
        BY <3>2 DEF IsInjective
      <4> QED  BY <4>1, <4>2 DEF Injection
    <3>5. IsFiniteSet(1 .. n) /\ Cardinality(1 .. n) = n
      BY <3>1, FS_Interval
    <3>6. Cardinality(T) = Cardinality(1 .. n)
      BY <3>3, <3>4, <3>5, FS_Surjection
    <3> QED  BY <3>5, <3>6 DEF n, T
  <2>12. ASSUME NEW a \in R, NEW b \in R, a # b, dominates(a, b)
         PROVE  index(a) < index(b)
    <3>1. b \notin ReachedIn(func, {a})
      BY <2>3, <2>12 DEF dominates
    <3> QED  BY <2>1, <2>9, <2>12, <3>1 DEF LoweredFacts, R
  <2>13. ASSUME NEW k \in DOMAIN lo, lo[k].pred # None
         PROVE  index(lo[k].pred) < k
    <3>1. k \in 1 .. Len(lo)
      BY <2>2
    <3>2. ~\E b \in R : lo[k] = orig(b)
      BY <2>13, LoweredKinds
    <3>3. PICK b \in R : \E i \in SplitEdges[b] : lo[k] = EdgeBlock(func, b, i)
      BY <2>1, <3>1, <3>2 DEF LoweredFacts, R
    <3>4. lo[k].pred = b
      BY <3>3, LoweredKinds
    <3> QED  BY <2>1, <2>9, <3>1, <3>3, <3>4 DEF LoweredFacts, R
  <2>14. ASSUME NEW b \in R, NEW i \in DOMAIN dests(func, b)
         PROVE  /\ lo[leads_to(index(b), i)] = orig(dests(func, b)[i])
                /\ Len(dests(func, b)) > 1 \/ func.term[b].op = "br_table" =>
                      Cardinality(entries(table[index(b)][i])) = 1
                /\ from_table(func, b, i) => table[index(b)][i] \in indirect_branch_targets
    <3> DEFINE k == index(b)
               d == dests(func, b)[i]
               j == table[k][i]
    <3>1. k \in 1 .. Len(lo) /\ lo[k] = orig(b)
      BY <2>9
    <3>2. b \in Block /\ DOMAIN succs(k) = DOMAIN dests(func, b)
      <4>1. b \in Block
        BY <2>7
      <4>2. lo[k].pred = None /\ lo[k].block = b
        BY <3>1, LoweredKinds
      <4> QED  BY <4>1, <4>2 DEF SuccsOf, succs
    <3>3. j = IndexOf(lo, succs(k)[i])
      <4>1. i \in DOMAIN succs(k)
        BY <3>2
      <4> QED  BY <2>5, <3>1, <4>1
    <3> HIDE DEF k, d, j
    <3>4. /\ d \in R /\ j \in 1 .. Len(lo) /\ lo[j].block = d
          /\ i \in SplitEdges[b] => lo[j] = EdgeBlock(func, b, i)
          /\ i \notin SplitEdges[b] => lo[j] = orig(d)
      BY <2>1, <3>1, <3>3, SuccessorFacts DEF succs, d, R
    <3>5. lo[leads_to(k, i)] = orig(d)
      <4>1. CASE i \in SplitEdges[b]
        <5>1. lo[j].pred # None
          <6>1. lo[j].pred = b
            BY <3>4, <4>1, LoweredKinds
          <6> QED  BY <3>2, <6>1 DEF Block, None
        <5>2. /\ succs(j) = <<orig(d)>>
              /\ lo[IndexOf(lo, orig(d))] = orig(d)
          BY <2>1, <3>4, <4>1, EdgeLeadsOn DEF succs, d, R
        <5>3. table[j][1] = IndexOf(lo, orig(d))
          BY <2>5, <3>4, <5>2
        <5> QED  BY <5>1, <5>2, <5>3 DEF leads_to, j
      <4>2. CASE i \notin SplitEdges[b]
        <5>1. lo[j] = orig(d) /\ lo[j].pred = None
          BY <3>4, <4>2, LoweredKinds
        <5> QED  BY <5>1 DEF leads_to, j
      <4> QED  BY <4>1, <4>2
    <3>6. ASSUME Len(dests(func, b)) > 1 \/ func.term[b].op = "br_table"
          PROVE  Cardinality(entries(j)) = 1
      <4>1. ASSUME NEW l \in 1 .. Len(lo), NEW x \in DOMAIN table[l], table[l][x] = j
            PROVE  l = k /\ x = i
        <5>1. x \in DOMAIN succs(l) /\ table[l][x] = IndexOf(lo, succs(l)[x])
          BY <2>5, <4>1
        <5>2. IndexOf(lo, succs(l)[x]) = IndexOf(lo, succs(k)[i])
          BY <3>3, <4>1, <5>1
        <5>3. x \in DOMAIN SuccsOf(func, SplitEdges, lo[l])
          BY <5>1 DEF succs
        <5>4. IndexOf(lo, SuccsOf(func, SplitEdges, lo[l])[x])
                = IndexOf(lo, SuccsOf(func, SplitEdges, lo[k])[i])
          BY <5>2 DEF succs
        <5>5. b \in ReachedIn(func, {})
          BY DEF R
        <5> HIDE DEF succs, R, dests
        <5>6. Len(dests(func, b)) > 1 \/ func.term[b].op = "br_table"
          BY <3>6
        <5>7. OnlyEntryOf(lo, b, k, i)
          BY ONLY <2>1, <2>14, <3>1, <5>5, <5>6, OnlyEntry
        <5> QED  BY ONLY <4>1, <5>3, <5>4, <5>7 DEF OnlyEntryOf
      <4>2. i \in DOMAIN table[k] /\ table[k][i] = j /\ k \in DOMAIN table
        BY <2>5, <3>1, <3>2 DEF j
      <4>3. entries(j) = {<<k, i>>}
        BY <2>5, <4>1, <4>2 DEF entries
      <4> QED  BY <4>3, FS_Singleton
    <3>7. ASSUME from_table(func, b, i) PROVE j \in indirect_branch_targets
      BY <2>2, <2>4, <3>2, <3>4, <3>7 DEF TableTargets, d
    <3> QED  BY <3>5, <3>6, <3>7 DEF k, d, j
  <2> QED  BY <2>3, <2>8, <2>10, <2>11, <2>12, <2>13, <2>14
<1> QED  BY <1>1, GraphInvariant, OrderInvariant, PTL

=============================================================================
