------------------------ MODULE DominatorTree_proofs ------------------------
(***************************************************************************)
(* Semi-NCA computes the dominators: for any function, after any edits, on *)
(* the graph and on the reversed graph, one block is an ancestor of another*)
(* in the finished tree, and its preorder interval holds the other's       *)
(* number, exactly if every path to the other goes through it.             *)
(*                                                                         *)
(* The first part is about graphs: a depth-first tree with nodes numbered  *)
(* in preorder (DfsTree), semidominators (SemiFrom) and the ancestors that *)
(* dominate.  Then each phase of DominatorTree has what it computes:       *)
(* Searching the tree, Linked and Evaluated the compressed paths,          *)
(* Candidate the semidominators, ClosestDominator the immediate ones,      *)
(* LinkedTree, PreorderOf and MaxUpTo the numbers dominates() compares.    *)
(* DomInv says which of them holds at which point of the program.          *)
(***************************************************************************)
EXTENDS FlowGraph_proofs

(***************************************************************************)
(* Dominance in a graph with a depth-first spanning tree.  Nodes are the   *)
(* numbers 0 .. n in preorder, E is a set of edges, par the tree, and the  *)
(* descendants of u are the nodes from u to fin[u].                        *)
(***************************************************************************)

\* A depth-first search of E makes the tree par; an edge to a later node leads
\* to a descendant.
DfsTree(n, E, par, fin) ==
    /\ n \in Nat /\ par \in [1 .. n -> 0 .. n] /\ fin \in [0 .. n -> 0 .. n]
    /\ E \subseteq (0 .. n) \X (1 .. n)
    /\ fin[0] = n
    /\ \A u \in 0 .. n : u <= fin[u]
    /\ \A w \in 1 .. n : par[w] < w /\ <<par[w], w>> \in E /\ fin[w] <= fin[par[w]]
    /\ \A u \in 0 .. n : \A w \in 1 .. n : u < w /\ w <= fin[u] => u <= par[w]
    /\ \A e \in E : e[1] < e[2] => e[2] <= fin[e[1]]

\* u is w or an ancestor of w in the spanning tree.
Over(fin, u, w) == u <= w /\ w <= fin[u]

\* Q holds the nodes reached from 0 without d, and maybe more.
ClosedBut(E, d, Q) ==
    /\ d # 0 => 0 \in Q
    /\ \A e \in E : e[1] \in Q /\ e[2] # d => e[2] \in Q

\* Every path from 0 to w goes through d.
DominatesIn(n, E, d, w) == \E Q \in SUBSET (0 .. n) : ClosedBut(E, d, Q) /\ w \notin Q

\* The semidominators of the nodes from lo on, as the recursion of Semi-NCA has
\* them: the least of the predecessors before the node, and of the
\* semidominators of the nodes after it that are over a predecessor.
SemiFrom(n, E, par, fin, s, lo) ==
    \A w \in lo .. n :
        /\ s[w] \in 0 .. par[w]
        /\ \A e \in E : e[2] = w =>
              /\ e[1] < w => s[w] <= e[1]
              /\ \A x \in 1 .. n : w < x /\ Over(fin, x, e[1]) => s[w] <= s[x]
        /\ \E e \in E : e[2] = w /\
              \/ e[1] < w /\ s[w] = e[1]
              \/ \E x \in 1 .. n : w < x /\ Over(fin, x, e[1]) /\ s[w] = s[x]

\* What dominance comes down to: d is over w, and no semidominator on the tree
\* path from d to w is before d.
SemiDominates(n, fin, s, d, w) ==
    /\ Over(fin, d, w)
    /\ \A x \in 1 .. n : d < x /\ Over(fin, x, w) => d <= s[x]

\* The descendants of a descendant of u are descendants of u.
LEMMA OverNests ==
    ASSUME NEW n, NEW E, NEW par, NEW fin, DfsTree(n, E, par, fin),
           NEW u \in 0 .. n, NEW w \in 0 .. n, Over(fin, u, w)
    PROVE  fin[w] <= fin[u]
<1> DEFINE C == {v \in Nat : v \in 0 .. n /\ Over(fin, u, v) /\ ~(fin[v] <= fin[u])}
<1>1. C = {}
  <2> SUFFICES ASSUME C # {} PROVE FALSE
    OBVIOUS
  <2>1. PICK v \in C : \A m \in C : v <= m
    BY NatMin
  <2>2. v \in 0 .. n /\ u <= v /\ v <= fin[u] /\ ~(fin[v] <= fin[u])
    BY DEF Over
  <2>3. /\ n \in Nat /\ fin[u] \in 0 .. n /\ fin[v] \in 0 .. n /\ u <= fin[u]
    BY <2>2 DEF DfsTree
  <2>4. u # v /\ v \in 1 .. n
    BY <2>2, <2>3
  <2>5. /\ par[v] \in 0 .. n /\ par[v] < v /\ fin[v] <= fin[par[v]] /\ u <= par[v]
        /\ fin[par[v]] \in 0 .. n
    <3>1. u < v
      BY <2>2, <2>3, <2>4
    <3> QED  BY <2>2, <2>4, <3>1 DEF DfsTree
  <2>6. ~(fin[par[v]] <= fin[u])
    BY <2>2, <2>3, <2>5
  <2>7. par[v] \in C
    BY <2>2, <2>3, <2>5, <2>6 DEF Over
  <2> QED  BY <2>1, <2>2, <2>5, <2>7
<1>2. w \in Nat
  BY DEF DfsTree
<1> QED  BY <1>1, <1>2

\* A dominator of a node is over it.
LEMMA DominatorOver ==
    ASSUME NEW n, NEW E, NEW par, NEW fin, DfsTree(n, E, par, fin),
           NEW d \in 0 .. n, NEW Q, ClosedBut(E, d, Q), NEW w \in 0 .. n, w \notin Q
    PROVE  Over(fin, d, w)
<1> DEFINE C == {v \in Nat : v \in 0 .. n /\ v \notin Q /\ ~Over(fin, d, v)}
<1>1. C = {}
  <2> SUFFICES ASSUME C # {} PROVE FALSE
    OBVIOUS
  <2>1. PICK v \in C : \A m \in C : v <= m
    BY NatMin
  <2>2. v \in 0 .. n /\ v \notin Q /\ ~Over(fin, d, v)
    OBVIOUS
  <2>3. n \in Nat /\ fin[d] \in 0 .. n /\ d <= fin[d] /\ fin[0] = n
    BY DEF DfsTree
  <2>4. v # d /\ d # 0
    BY <2>2, <2>3 DEF Over
  <2>5. v # 0
    BY <2>2, <2>4 DEF ClosedBut
  <2>6. v \in 1 .. n
    BY <2>2, <2>3, <2>5
  <2>7. par[v] \in 0 .. n /\ par[v] < v /\ <<par[v], v>> \in E /\ v <= fin[v] /\ fin[v] <= fin[par[v]]
    BY <2>6, <2>2 DEF DfsTree
  <2>8. par[v] \notin Q
    BY <2>2, <2>4, <2>7 DEF ClosedBut
  <2>9. Over(fin, d, par[v])
    <3>1. par[v] \in Nat /\ ~(v <= par[v])
      BY <2>3, <2>6, <2>7
    <3>2. par[v] \notin C
      BY <2>1, <3>1
    <3> HIDE DEF Over
    <3> QED  BY <2>7, <2>8, <3>1, <3>2
  <2>10. fin[par[v]] <= fin[d] /\ fin[par[v]] \in 0 .. n /\ fin[v] \in 0 .. n
    BY <2>2, <2>7, <2>9, OverNests DEF DfsTree
  <2>11. d <= v /\ v <= fin[d]
    BY <2>2, <2>3, <2>7, <2>9, <2>10 DEF Over
  <2> QED  BY <2>2, <2>11 DEF Over
<1>2. w \in Nat
  BY DEF DfsTree
<1> QED  BY <1>1, <1>2

\* Over is transitive, and two nodes over a third are over one another.
LEMMA OverChain ==
    ASSUME NEW n, NEW E, NEW par, NEW fin, DfsTree(n, E, par, fin),
           NEW u \in 0 .. n, NEW v \in 0 .. n, NEW w \in 0 .. n
    PROVE  /\ Over(fin, u, u) /\ Over(fin, 0, u)
           /\ Over(fin, u, v) /\ Over(fin, v, w) => Over(fin, u, w)
           /\ Over(fin, u, w) /\ Over(fin, v, w) /\ u <= v => Over(fin, u, v)
           /\ Over(fin, u, w) /\ u <= v /\ v <= w => Over(fin, u, v)
           /\ v \in 1 .. n /\ Over(fin, u, v) /\ u # v => Over(fin, u, par[v])
           /\ v \in 1 .. n => Over(fin, par[v], v)
<1>1. /\ n \in Nat /\ fin[u] \in 0 .. n /\ fin[v] \in 0 .. n /\ fin[w] \in 0 .. n
      /\ u <= fin[u] /\ v <= fin[v] /\ w <= fin[w] /\ fin[0] = n
  BY DEF DfsTree
<1>2. Over(fin, u, v) => fin[v] <= fin[u]
  BY OverNests
<1>3. ASSUME v \in 1 .. n
      PROVE  /\ par[v] \in 0 .. n /\ par[v] < v /\ fin[v] <= fin[par[v]]
             /\ u < v /\ v <= fin[u] => u <= par[v]
  BY <1>3 DEF DfsTree
<1>4. v \in 1 .. n => fin[par[v]] \in 0 .. n
  BY <1>3 DEF DfsTree
<1> QED  BY <1>1, <1>2, <1>3, <1>4 DEF Over

\* No semidominator between a dominator and a node is before the dominator.
LEMMA SemiNeeded ==
    ASSUME NEW n, NEW E, NEW par, NEW fin, NEW s, DfsTree(n, E, par, fin),
           SemiFrom(n, E, par, fin, s, 1),
           NEW d \in 0 .. n, NEW Q, ClosedBut(E, d, Q), NEW w \in 1 .. n, w \notin Q, d # w
    PROVE  d <= s[w]
<1> DEFINE C == {k \in Nat : \E v \in 1 .. n : k = n - v /\ v \notin Q /\ d # v /\ ~(d <= s[v])}
<1>1. n \in Nat
  BY DEF DfsTree
<1>2. C = {}
  <2> SUFFICES ASSUME C # {} PROVE FALSE
    OBVIOUS
  <2>1. PICK k \in C : \A m \in C : k <= m
    BY NatMin
  <2>2. PICK v \in 1 .. n : k = n - v /\ v \notin Q /\ d # v /\ ~(d <= s[v])
    OBVIOUS
  <2>3. \A x \in 1 .. n : v < x /\ x \notin Q /\ d # x => d <= s[x]
    <3> TAKE x \in 1 .. n
    <3> HAVE v < x /\ x \notin Q /\ d # x
    <3>1. n - x \in Nat /\ ~(k <= n - x)
      BY <1>1, <2>2
    <3>2. n - x \notin C
      BY <2>1, <3>1
    <3> QED  BY <3>1, <3>2
  <2> HIDE DEF C
  <2>4. \A e \in E : e[2] = v => e[1] \in 0 .. n /\ e[1] \notin Q
    BY <2>2 DEF ClosedBut, DfsTree
  <2>5. \A u \in 0 .. n : u \notin Q => Over(fin, d, u)
    BY DominatorOver
  <2>6. Over(fin, d, v) /\ d < v
    BY <1>1, <2>2, <2>5 DEF Over
  <2>7. PICK e \in E : e[2] = v /\
              \/ e[1] < v /\ s[v] = e[1]
              \/ \E x \in 1 .. n : v < x /\ Over(fin, x, e[1]) /\ s[v] = s[x]
    BY DEF SemiFrom
  <2>8. e[1] \in 0 .. n /\ e[1] \notin Q /\ Over(fin, d, e[1])
    BY <2>4, <2>5, <2>7
  <2>9. CASE s[v] = e[1]
    BY <2>2, <2>8, <2>9 DEF Over
  <2>10. CASE \E x \in 1 .. n : v < x /\ Over(fin, x, e[1]) /\ s[v] = s[x]
    <3>1. PICK x \in 1 .. n : v < x /\ Over(fin, x, e[1]) /\ s[v] = s[x]
      BY <2>10
    \* The nodes from e[1] up to d are dominated as e[1] is.
    <3> DEFINE D == {j \in Nat : j \in 0 .. n /\ x <= j /\ Over(fin, j, e[1]) /\ j \notin Q}
    <3>2. e[1] \in D
      <4>1. e[1] \in Nat /\ x <= e[1] /\ Over(fin, e[1], e[1])
        BY <1>1, <2>8, <3>1, OverChain DEF Over
      <4> QED  BY <2>8, <4>1
    <3>3. PICK j \in D : \A m \in D : j <= m
      BY <3>2, NatMin
    <3>4. j \in 0 .. n /\ x <= j /\ Over(fin, j, e[1]) /\ j \notin Q
      OBVIOUS
    <3> HIDE DEF D
    <3>5. CASE x = j
      <4>1. d # x
        BY <1>1, <2>6, <3>1
      <4> QED  BY <2>2, <2>3, <3>1, <3>4, <3>5, <4>1
    <3>6. CASE x # j
      <4>1. j \in 1 .. n /\ x < j /\ d # j
        BY <1>1, <2>6, <3>1, <3>4, <3>6
      <4>2. par[j] \in 0 .. n /\ par[j] < j /\ <<par[j], j>> \in E
        BY <4>1 DEF DfsTree
      <4>3. par[j] \notin Q
        BY <3>4, <4>1, <4>2 DEF ClosedBut
      <4>4. Over(fin, x, j)
        BY <2>8, <3>1, <3>4, OverChain
      <4>5. Over(fin, x, par[j]) /\ Over(fin, par[j], j)
        BY <3>1, <4>1, <4>4, OverChain
      <4>6. Over(fin, par[j], e[1])
        BY <2>8, <3>4, <4>2, <4>5, OverChain
      <4>7. x <= par[j]
        BY <4>5 DEF Over
      <4>8. par[j] \in D
        BY <4>2, <4>3, <4>6, <4>7 DEF D
      <4> QED  BY <1>1, <3>3, <3>4, <4>2, <4>8
    <3> QED  BY <3>5, <3>6
  <2> QED  BY <2>7, <2>9, <2>10
<1>3. n - w \in Nat /\ n - w \notin C
  <2> HIDE DEF C
  <2> QED  BY <1>1, <1>2
<1> QED  BY <1>1, <1>3

\* The nodes d does not dominate by their semidominators are closed.
LEMMA SemiSuffices ==
    ASSUME NEW n, NEW E, NEW par, NEW fin, NEW s, DfsTree(n, E, par, fin),
           SemiFrom(n, E, par, fin, s, 1), NEW d \in 0 .. n
    PROVE  ClosedBut(E, d, {v \in 0 .. n : ~SemiDominates(n, fin, s, d, v)})
<1> DEFINE Q == {v \in 0 .. n : ~SemiDominates(n, fin, s, d, v)}
<1>1. n \in Nat
  BY DEF DfsTree
<1>2. d # 0 => 0 \in Q
  BY <1>1 DEF SemiDominates, Over
<1>3. ASSUME NEW e \in E, e[1] \in Q, e[2] # d PROVE e[2] \in Q
  <2> DEFINE u == e[1]
             v == e[2]
  <2> SUFFICES ASSUME v \notin Q PROVE FALSE
    OBVIOUS
  <2>1. u \in 0 .. n /\ v \in 1 .. n /\ v # d /\ ~SemiDominates(n, fin, s, d, u)
    BY <1>3 DEF DfsTree
  <2>2. SemiDominates(n, fin, s, d, v)
    BY <2>1
  <2>3. /\ s[v] \in 0 .. par[v] /\ par[v] \in 0 .. n /\ par[v] < v
        /\ u < v => s[v] <= u
        /\ \A x \in 1 .. n : v < x /\ Over(fin, x, u) => s[v] <= s[x]
    BY <1>3, <2>1 DEF SemiFrom, DfsTree
  <2>4. u < v => Over(fin, u, v)
    BY <1>1, <1>3, <2>1 DEF DfsTree, Over
  <2> HIDE DEF u, v, Q
  <2>5. Over(fin, d, v) /\ d < v
    BY <1>1, <2>1, <2>2 DEF SemiDominates, Over
  <2>6. d <= s[v]
    BY <2>1, <2>2, <2>5, OverChain DEF SemiDominates
  <2>7. CASE u < v
    <3>1. d <= u /\ Over(fin, d, u)
      BY <1>1, <2>1, <2>3, <2>4, <2>5, <2>6, <2>7, OverChain
    <3>2. PICK x \in 1 .. n : d < x /\ Over(fin, x, u) /\ ~(d <= s[x])
      BY <2>1, <3>1 DEF SemiDominates
    <3>3. Over(fin, x, v)
      BY <2>1, <2>4, <2>7, <3>2, OverChain
    <3> QED  BY <2>2, <3>2, <3>3 DEF SemiDominates
  <2>8. CASE u = v
    BY <2>1, <2>2, <2>8
  <2>9. CASE v < u
    \* The first node after v that is over u: its parent is over v.
    <3> DEFINE D == {x \in Nat : x \in 0 .. n /\ v < x /\ Over(fin, x, u)}
    <3>1. u \in D
      BY <1>1, <2>1, <2>9, OverChain
    <3>2. PICK x \in D : \A m \in D : x <= m
      BY <3>1, NatMin
    <3>3. x \in 1 .. n /\ v < x /\ Over(fin, x, u)
      BY <1>1, <2>1
    <3>4. /\ par[x] \in 0 .. n /\ par[x] < x /\ Over(fin, par[x], x) /\ s[x] \in 0 .. par[x]
      <4>1. par[x] \in 0 .. n /\ par[x] < x /\ s[x] \in 0 .. par[x]
        BY <3>3 DEF DfsTree, SemiFrom
      <4>2. Over(fin, par[x], x)
        BY <2>1, <3>3, OverChain
      <4> QED  BY <4>1, <4>2
    <3>5. Over(fin, par[x], u)
      BY <2>1, <3>3, <3>4, OverChain
    <3>6. par[x] <= v
      <4>1. par[x] \notin D
        BY <1>1, <3>2, <3>3, <3>4
      <4> QED  BY <1>1, <2>1, <3>4, <3>5, <4>1
    <3> HIDE DEF D
    <3>7. Over(fin, par[x], v)
      BY <1>1, <2>1, <2>9, <3>4, <3>5, <3>6, OverChain
    <3>8. s[v] <= s[x]
      BY <2>3, <3>3
    <3>9. d <= par[x]
      BY <1>1, <2>3, <2>6, <3>4, <3>8
    <3>10. Over(fin, d, par[x])
      BY <2>1, <2>5, <3>4, <3>7, <3>9, OverChain
    <3>11. Over(fin, d, u)
      BY <2>1, <3>4, <3>5, <3>10, OverChain
    <3>12. PICK y \in 1 .. n : d < y /\ Over(fin, y, u) /\ ~(d <= s[y])
      BY <2>1, <3>11 DEF SemiDominates
    <3>13. CASE v < y
      <4>1. s[v] <= s[y] /\ s[y] \in 0 .. par[y] /\ par[y] \in 0 .. n
        BY <2>3, <3>12, <3>13 DEF SemiFrom, DfsTree
      <4> QED  BY <1>1, <2>3, <2>6, <3>12, <4>1
    <3>14. CASE y <= v
      <4>1. Over(fin, y, v)
        BY <2>1, <2>9, <3>12, <3>14, OverChain
      <4> QED  BY <2>2, <3>12, <4>1 DEF SemiDominates
    <3> QED  BY <1>1, <2>1, <3>13, <3>14
  <2> QED  BY <1>1, <2>1, <2>7, <2>8, <2>9
<1> QED  BY <1>2, <1>3 DEF ClosedBut

\* Dominance, by semidominators.
LEMMA SemiDominance ==
    ASSUME NEW n, NEW E, NEW par, NEW fin, NEW s, DfsTree(n, E, par, fin),
           SemiFrom(n, E, par, fin, s, 1), NEW d \in 0 .. n, NEW w \in 0 .. n
    PROVE  DominatesIn(n, E, d, w) <=> SemiDominates(n, fin, s, d, w)
<1>1. n \in Nat
  BY DEF DfsTree
<1>2. ASSUME SemiDominates(n, fin, s, d, w) PROVE DominatesIn(n, E, d, w)
  <2> DEFINE Q == {v \in 0 .. n : ~SemiDominates(n, fin, s, d, v)}
  <2>1. ClosedBut(E, d, Q)
    BY SemiSuffices
  <2>2. Q \in SUBSET (0 .. n) /\ w \notin Q
    BY <1>2
  <2> HIDE DEF Q
  <2> QED  BY <2>1, <2>2 DEF DominatesIn
<1>3. ASSUME DominatesIn(n, E, d, w) PROVE SemiDominates(n, fin, s, d, w)
  <2>1. PICK Q \in SUBSET (0 .. n) : ClosedBut(E, d, Q) /\ w \notin Q
    BY <1>3 DEF DominatesIn
  <2>2. Over(fin, d, w)
    BY <2>1, DominatorOver
  <2>3. ASSUME NEW x \in 1 .. n, d < x, Over(fin, x, w) PROVE d <= s[x]
    <3> DEFINE D == {j \in Nat : j \in 0 .. n /\ x <= j /\ Over(fin, j, w) /\ j \notin Q}
    <3>1. w \in D
      <4>1. w \in Nat /\ x <= w /\ Over(fin, w, w)
        BY <1>1, <2>3, OverChain DEF Over
      <4> QED  BY <2>1, <4>1
    <3>2. PICK j \in D : \A m \in D : j <= m
      BY <3>1, NatMin
    <3>3. j \in 0 .. n /\ x <= j /\ Over(fin, j, w) /\ j \notin Q
      OBVIOUS
    <3> HIDE DEF D
    <3>4. CASE x = j
      <4>1. d # x
        BY <1>1, <2>3
      <4> QED  BY <2>1, <3>3, <3>4, <4>1, SemiNeeded
    <3>5. CASE x # j
      <4>1. j \in 1 .. n /\ x < j /\ d # j
        BY <1>1, <2>3, <3>3, <3>5
      <4>2. par[j] \in 0 .. n /\ par[j] < j /\ <<par[j], j>> \in E
        BY <4>1 DEF DfsTree
      <4>3. par[j] \notin Q
        BY <2>1, <3>3, <4>1, <4>2 DEF ClosedBut
      <4>4. Over(fin, x, j)
        BY <2>3, <3>3, OverChain
      <4>5. Over(fin, x, par[j]) /\ Over(fin, par[j], j)
        BY <4>1, <4>4, OverChain
      <4>6. Over(fin, par[j], w)
        BY <3>3, <4>2, <4>5, OverChain
      <4>7. x <= par[j]
        BY <4>5 DEF Over
      <4>8. par[j] \in D
        BY <4>2, <4>3, <4>6, <4>7 DEF D
      <4> QED  BY <1>1, <3>2, <3>3, <4>2, <4>8
    <3> QED  BY <3>4, <3>5
  <2> QED  BY <2>2, <2>3 DEF SemiDominates
<1> QED  BY <1>2, <1>3

\* Dominance by semidominators is a partial order, the dominators of a node are
\* a chain, and those of a node other than itself are those of its parent that
\* are not after its semidominator.
LEMMA SemiOrder ==
    ASSUME NEW n, NEW E, NEW par, NEW fin, NEW s, DfsTree(n, E, par, fin),
           SemiFrom(n, E, par, fin, s, 1),
           NEW d \in 0 .. n, NEW e \in 0 .. n, NEW w \in 0 .. n
    PROVE  /\ SemiDominates(n, fin, s, w, w) /\ SemiDominates(n, fin, s, 0, w)
           /\ SemiDominates(n, fin, s, d, w) => d <= w
           /\ SemiDominates(n, fin, s, d, e) /\ SemiDominates(n, fin, s, e, w)
                 => SemiDominates(n, fin, s, d, w)
           /\ SemiDominates(n, fin, s, d, w) /\ SemiDominates(n, fin, s, e, w) /\ d <= e
                 => SemiDominates(n, fin, s, d, e)
           /\ w \in 1 .. n /\ d < w =>
                 (SemiDominates(n, fin, s, d, w) <=>
                     SemiDominates(n, fin, s, d, par[w]) /\ d <= s[w])
<1> DEFINE SD(a, b) == SemiDominates(n, fin, s, a, b)
<1>1. /\ n \in Nat /\ fin[w] \in 0 .. n /\ \A x \in 1 .. n : s[x] \in 0 .. par[x] /\ par[x] \in 0 .. n
  BY DEF DfsTree, SemiFrom
<1>2. SD(w, w)
  <2>1. \A x \in 1 .. n : w < x => ~Over(fin, x, w)
    BY <1>1 DEF Over
  <2> QED  BY <2>1, OverChain DEF SemiDominates
<1>3. SD(0, w)
  <2>1. Over(fin, 0, w)
    BY OverChain
  <2>2. \A x \in 1 .. n : 0 <= s[x]
    BY <1>1
  <2> QED  BY <2>1, <2>2 DEF SemiDominates
<1>4. SD(d, w) => d <= w
  BY DEF SemiDominates, Over
<1>5. ASSUME SD(d, e), SD(e, w) PROVE SD(d, w)
  <2>1. Over(fin, d, w) /\ Over(fin, e, w) /\ d <= e
    BY <1>5, OverChain DEF SemiDominates, Over
  <2>2. ASSUME NEW x \in 1 .. n, d < x, Over(fin, x, w) PROVE d <= s[x]
    <3>1. CASE x <= e
      <4>1. Over(fin, x, e)
        BY <1>1, <2>1, <2>2, <3>1, OverChain
      <4> QED  BY <1>5, <2>2, <4>1 DEF SemiDominates
    <3>2. CASE e < x
      <4>1. e <= s[x]
        BY <1>5, <2>2, <3>2 DEF SemiDominates
      <4> QED  BY <1>1, <2>1, <4>1
    <3> QED  BY <1>1, <3>1, <3>2
  <2> QED  BY <2>1, <2>2 DEF SemiDominates
<1>6. ASSUME SD(d, w), SD(e, w), d <= e PROVE SD(d, e)
  <2>1. Over(fin, d, w) /\ Over(fin, e, w)
    BY <1>6 DEF SemiDominates
  <2>2. Over(fin, d, e)
    BY <1>6, <2>1, OverChain
  <2>3. \A x \in 1 .. n : Over(fin, x, e) => Over(fin, x, w)
    <3> TAKE x \in 1 .. n
    <3> QED  BY <1>1, <2>1, OverChain
  <2> QED  BY <1>6, <2>2, <2>3 DEF SemiDominates
<1>7. ASSUME w \in 1 .. n, d < w PROVE SD(d, w) <=> SD(d, par[w]) /\ d <= s[w]
  <2>1. par[w] \in 0 .. n /\ par[w] < w /\ Over(fin, par[w], w) /\ Over(fin, w, w)
    <3>1. par[w] \in 0 .. n /\ par[w] < w
      BY <1>7 DEF DfsTree
    <3> QED  BY <1>7, <3>1, OverChain
  <2>2. Over(fin, d, w) <=> Over(fin, d, par[w])
    BY <1>1, <1>7, <2>1, OverChain
  <2>3. \A x \in 1 .. n : Over(fin, x, w) <=> x = w \/ Over(fin, x, par[w])
    <3> TAKE x \in 1 .. n
    <3> QED  BY <1>1, <1>7, <2>1, OverChain
  <2> QED  BY <1>7, <2>1, <2>2, <2>3 DEF SemiDominates
<1> QED  BY <1>2, <1>3, <1>4, <1>5, <1>6, <1>7

\* i is the last of the dominators of w before it.
ClosestDominator(n, fin, s, w, i) ==
    /\ i \in 0 .. n /\ i < w /\ SemiDominates(n, fin, s, i, w)
    /\ \A d \in 0 .. n : d < w /\ SemiDominates(n, fin, s, d, w) => d <= i

\* up solves the recursion of ComputeIdom: it climbs by g as far as lim.
ClimbsTo(up, n, g, lim) == up = [i \in 0 .. n |-> IF i <= lim THEN i ELSE up[g[i]]]

\* There is a solution.
LEMMA ClimbExists ==
    ASSUME NEW n \in Nat, NEW g, NEW lim \in Nat, \A i \in 1 .. n : g[i] \in 0 .. n /\ g[i] < i
    PROVE  \E up : ClimbsTo(up, n, g, lim)
<1> DEFINE P(m, h) == h = [i \in 0 .. m |-> IF i <= lim THEN i ELSE h[g[i]]]
           C == {m \in Nat : m <= n /\ \A h : ~P(m, h)}
<1>1. C = {}
  <2> SUFFICES ASSUME C # {} PROVE FALSE
    OBVIOUS
  <2>1. PICK m \in C : \A k \in C : m <= k
    <3> HIDE DEF P
    <3> QED  BY NatMin
  <2>2. m \in Nat /\ m <= n /\ \A h : ~P(m, h)
    <3> HIDE DEF P
    <3> QED  OBVIOUS
  <2>3. CASE m = 0
    <3>1. P(0, [i \in 0 .. 0 |-> 0])
      OBVIOUS
    <3> QED  BY <2>2, <2>3, <3>1
  <2>4. CASE m # 0
    <3>1. m - 1 \in Nat /\ m - 1 <= n /\ m - 1 \notin C
      <4> HIDE DEF C
      <4> QED  BY <2>1, <2>2, <2>4
    <3>2. PICK h : P(m - 1, h)
      <4> HIDE DEF P
      <4> QED  BY <3>1
    <3> DEFINE top == IF m <= lim THEN m ELSE h[g[m]]
               H == [i \in 0 .. m |-> IF i = m THEN top ELSE h[i]]
    <3> HIDE DEF top
    <3>3. ASSUME NEW i \in 0 .. m PROVE H[i] = IF i <= lim THEN i ELSE H[g[i]]
      <4>1. i > lim => g[i] \in 0 .. n /\ g[i] < i
        BY <2>2
      <4>2. i > lim => g[i] \in 0 .. (m - 1) /\ H[g[i]] = h[g[i]]
        BY <2>2, <4>1
      <4>3. CASE i = m
        <5>1. H[i] = top
          BY <4>3
        <5> HIDE DEF H
        <5> QED  BY <2>2, <4>2, <4>3, <5>1 DEF top
      <4>4. CASE i # m
        <5>1. i \in 0 .. (m - 1) /\ H[i] = h[i]
          BY <2>2, <4>4
        <5>2. h[i] = IF i <= lim THEN i ELSE h[g[i]]
          BY <3>2, <5>1
        <5> HIDE DEF H
        <5> QED  BY <4>2, <5>1, <5>2
      <4> QED  BY <4>3, <4>4
    <3>4. H = [i \in 0 .. m |-> H[i]]
      OBVIOUS
    <3>5. P(m, H)
      <4> HIDE DEF H
      <4> QED  BY <3>3, <3>4
    <3> QED  BY <2>2, <3>5
  <2> QED  BY <2>3, <2>4
<1>2. n \notin C
  <2> HIDE DEF C
  <2> QED  BY <1>1
<1>3. PICK h : P(n, h)
  <2> HIDE DEF P
  <2> QED  BY <1>2
<1> QED  BY <1>3 DEF ClimbsTo

\* ComputeIdom climbs from the parent of v to its closest dominator.
LEMMA ClimbFinds ==
    ASSUME NEW n, NEW E, NEW par, NEW fin, NEW s, DfsTree(n, E, par, fin),
           SemiFrom(n, E, par, fin, s, 1), NEW v \in 1 .. n, NEW g,
           \A w \in 1 .. (v - 1) : ClosestDominator(n, fin, s, w, g[w]),
           NEW up, ClimbsTo(up, n, g, s[v])
    PROVE  ClosestDominator(n, fin, s, v, up[par[v]])
<1> DEFINE SD(a, b) == SemiDominates(n, fin, s, a, b)
           Good(i) == /\ up[i] \in 0 .. n /\ up[i] <= s[v] /\ SD(up[i], i)
                      /\ \A d \in 0 .. n : d <= s[v] /\ SD(d, i) => d <= up[i]
           C == {i \in Nat : i < v /\ ~Good(i)}
<1>1. /\ n \in Nat /\ par[v] \in 0 .. n /\ par[v] < v /\ s[v] \in 0 .. par[v]
  BY DEF DfsTree, SemiFrom
<1>2. C = {}
  <2> SUFFICES ASSUME C # {} PROVE FALSE
    OBVIOUS
  <2>1. PICK i \in C : \A k \in C : i <= k
    <3> HIDE DEF Good
    <3> QED  BY NatMin
  <2>2. i \in Nat /\ i < v /\ ~Good(i)
    <3> HIDE DEF Good
    <3> QED  OBVIOUS
  <2>3. i \in 0 .. n /\ up[i] = IF i <= s[v] THEN i ELSE up[g[i]]
    BY <1>1, <2>2 DEF ClimbsTo
  <2>4. CASE i <= s[v]
    <3>1. up[i] = i /\ SD(i, i) /\ \A d \in 0 .. n : SD(d, i) => d <= i
      BY <2>3, <2>4, SemiOrder
    <3> QED  BY <2>2, <2>3, <2>4, <3>1
  <2>5. CASE ~(i <= s[v])
    <3> DEFINE j == g[i]
    <3>1. i \in 1 .. (v - 1) /\ up[i] = up[j]
      BY <1>1, <2>2, <2>3, <2>5
    <3>2. /\ j \in 0 .. n /\ j < i /\ SD(j, i)
          /\ \A d \in 0 .. n : d < i /\ SD(d, i) => d <= j
      BY <3>1 DEF ClosestDominator
    <3> HIDE DEF j
    <3>3. j \in Nat /\ j < v /\ j \notin C
      <4> HIDE DEF C
      <4> QED  BY <1>1, <2>1, <2>2, <3>2
    <3>4. Good(j)
      <4> HIDE DEF Good
      <4> QED  BY <3>3
    <3>5. SD(up[i], i)
      BY <2>3, <3>1, <3>2, <3>4, SemiOrder
    <3>6. ASSUME NEW d \in 0 .. n, d <= s[v], SD(d, i) PROVE d <= up[i]
      <4>1. d < i
        BY <1>1, <2>2, <2>5, <3>6
      <4>2. SD(d, j)
        BY <2>3, <3>2, <3>6, <4>1, SemiOrder
      <4> QED  BY <3>1, <3>4, <3>6, <4>2
    <3> QED  BY <2>2, <3>1, <3>4, <3>5, <3>6
  <2> QED  BY <2>4, <2>5
<1>3. Good(par[v])
  <2>1. par[v] \in Nat /\ par[v] \notin C
    <3> HIDE DEF C
    <3> QED  BY <1>1, <1>2
  <2> HIDE DEF Good
  <2> QED  BY <1>1, <2>1
<1>4. SD(up[par[v]], v) /\ up[par[v]] < v
  BY <1>1, <1>3, SemiOrder
<1>5. \A d \in 0 .. n : d < v /\ SD(d, v) => d <= up[par[v]]
  BY <1>1, <1>3, SemiOrder
<1> QED  BY <1>3, <1>4, <1>5 DEF ClosestDominator

(***************************************************************************)
(* The search, in either direction.                                        *)
(***************************************************************************)

\* An edge of the graph the search goes through, and the blocks it starts at.
Flow(f, dir, p, b) == IF dir = "forward" THEN b \in Targets(f, p) ELSE p \in Targets(f, b)
RootOf(f, dir, b) == IF dir = "forward" THEN b = 0 ELSE Targets(f, b) = {}

\* The same for numbers: 0 is the virtual root.
EdgeTo(f, dir, blk, u, b) == IF u = 0 THEN RootOf(f, dir, b) ELSE Flow(f, dir, blk[u], b)
Edges(f, dir, n, blk) == {e \in (0 .. n) \X (1 .. n) : EdgeTo(f, dir, blk, e[1], blk[e[2]])}

\* blk and num number the blocks that were visited from 1 to n.
Numbering(n, blk, num) ==
    /\ n \in Nat /\ blk \in [1 .. n -> Block] /\ num \in [Block -> 0 .. n]
    /\ \A b \in Block : num[b] # 0 => blk[num[b]] = b
    /\ \A i \in 1 .. n : num[blk[i]] = i

Enters(wl, p, b) == wl[p].event = "enter" /\ wl[p].block = b

\* The search is in the subtree of u.
IsOpen(wl, num, u) == u = 0 \/ \E q \in 1 .. Len(wl) : wl[q].event = "exit" /\ num[wl[q].block] = u

\* The nodes the search is in are a path of the tree and end with the last
\* number; a block to enter comes from the innermost of them that is left after.
StackOf(f, dir, n, blk, fin, num, wl) ==
    /\ wl \in Seq(WorkItem)
    /\ \A w \in 0 .. n : IsOpen(wl, num, w) =>
          fin[w] = n /\ \A u \in 0 .. n : Over(fin, u, w) => IsOpen(wl, num, u)
    /\ \A q \in 1 .. Len(wl) : wl[q].event = "exit" =>
          /\ num[wl[q].block] # 0
          /\ \A p \in 1 .. (q - 1) : wl[p].event = "exit" => num[wl[q].block] < num[wl[p].block]
    /\ \A p \in 1 .. Len(wl) : wl[p].event = "enter" =>
          /\ wl[p].parent \in 0 .. n /\ EdgeTo(f, dir, blk, wl[p].parent, wl[p].block)
          /\ wl[p].parent = 0 \/ \E q \in (p + 1) .. Len(wl) :
                wl[q].event = "exit" /\ num[wl[q].block] = wl[p].parent
          /\ \A q \in (p + 1) .. Len(wl) : wl[q].event = "exit" => num[wl[q].block] <= wl[p].parent

\* A root and the successors of a block that was visited are visited, or will be
\* before the block is left.
AllFollowed(f, dir, n, blk, num, wl) ==
    /\ \A b \in Block : RootOf(f, dir, b) => num[b] # 0 \/ \E p \in 1 .. Len(wl) : Enters(wl, p, b)
    /\ \A u \in 1 .. n : \A b \in Block : Flow(f, dir, blk[u], b) => num[b] # 0
          \/ \E p \in 1 .. Len(wl) : Enters(wl, p, b)
                /\ \E q \in (p + 1) .. Len(wl) : LeavesAt(wl, q, blk[u])

\* Blocks are left in postorder: a node after its descendants.
LeftInOrder(fin, num, po) ==
    /\ po \in Seq(Block)
    /\ \A i, j \in 1 .. Len(po) : po[i] = po[j] => i = j
    /\ \A i, j \in 1 .. Len(po) : i # j /\ Over(fin, num[po[i]], num[po[j]]) => j < i

Searching(f, dir, n, blk, par, fin, num, po, wl) ==
    /\ Numbering(n, blk, num)
    /\ DfsTree(n, Edges(f, dir, n, blk), par, fin)
    /\ StackOf(f, dir, n, blk, fin, num, wl)
    /\ AllFollowed(f, dir, n, blk, num, wl)
    /\ LeftInOrder(fin, num, po)
    /\ \A b \in Block : HasLeft(po, b) <=> num[b] # 0 /\ ~IsOpen(wl, num, num[b])

\* An item is dropped whose block was visited.
LEMMA SearchSkips ==
    ASSUME NEW f, NEW dir, NEW n, NEW blk, NEW par, NEW fin, NEW num, NEW po, NEW wl,
           Searching(f, dir, n, blk, par, fin, num, po, wl), wl # <<>>,
           wl[1].event = "enter", num[wl[1].block] # 0
    PROVE  Searching(f, dir, n, blk, par, fin, num, po, Tail(wl))
<1> DEFINE w == Tail(wl)
<1>1. /\ wl \in Seq(WorkItem) /\ w \in Seq(WorkItem)
      /\ Len(wl) \in Nat /\ Len(w) = Len(wl) - 1 /\ Len(w) \in Nat
      /\ \A i \in 1 .. Len(w) : i + 1 \in 1 .. Len(wl) /\ w[i] = wl[i + 1]
      /\ \A i \in 2 .. Len(wl) : i - 1 \in 1 .. Len(w) /\ w[i - 1] = wl[i]
  BY DEF Searching, StackOf
<1> HIDE DEF w
<1>2. n \in Nat /\ num \in [Block -> 0 .. n]
  BY DEF Searching, Numbering
<1>3. \A u : IsOpen(w, num, u) <=> IsOpen(wl, num, u)
  <2> SUFFICES ASSUME NEW u PROVE IsOpen(w, num, u) <=> IsOpen(wl, num, u)
    OBVIOUS
  <2>1. ASSUME NEW q \in 1 .. Len(w), w[q].event = "exit", num[w[q].block] = u
        PROVE  IsOpen(wl, num, u)
    BY <1>1, <2>1 DEF IsOpen
  <2>2. ASSUME NEW q \in 1 .. Len(wl), wl[q].event = "exit", num[wl[q].block] = u
        PROVE  IsOpen(w, num, u)
    <3>1. q \in 2 .. Len(wl)
      BY <1>1, <2>2
    <3> QED  BY <1>1, <2>2, <3>1 DEF IsOpen
  <2> QED  BY <2>1, <2>2 DEF IsOpen
<1>4. StackOf(f, dir, n, blk, fin, num, w)
  <2>1. StackOf(f, dir, n, blk, fin, num, wl)
    BY DEF Searching
  <2>2. \A v \in 0 .. n : IsOpen(w, num, v) =>
          fin[v] = n /\ \A u \in 0 .. n : Over(fin, u, v) => IsOpen(w, num, u)
    BY <1>3, <2>1 DEF StackOf
  <2>3. ASSUME NEW q \in 1 .. Len(w), w[q].event = "exit"
        PROVE  /\ num[w[q].block] # 0
               /\ \A p \in 1 .. (q - 1) : w[p].event = "exit" => num[w[q].block] < num[w[p].block]
    <3>1. /\ num[wl[q + 1].block] # 0
          /\ \A p \in 1 .. q : wl[p].event = "exit" => num[wl[q + 1].block] < num[wl[p].block]
      BY <1>1, <2>1, <2>3 DEF StackOf
    <3>2. ASSUME NEW p \in 1 .. (q - 1) PROVE w[p] = wl[p + 1] /\ p + 1 \in 1 .. q
      <4>1. Len(w) \in Nat /\ \A i \in 1 .. Len(w) : w[i] = wl[i + 1]
        BY <1>1, Zenon
      <4>2. p \in 1 .. Len(w) /\ p + 1 \in 1 .. q
        BY <4>1
      <4> QED  BY <4>1, <4>2
    <3>3. w[q] = wl[q + 1]
      BY <1>1
    <3>4. ASSUME NEW p \in 1 .. (q - 1), w[p].event = "exit"
          PROVE  num[w[q].block] < num[w[p].block]
      BY <3>1, <3>2, <3>3, <3>4
    <3> QED  BY <3>1, <3>3, <3>4
  <2>4. ASSUME NEW p \in 1 .. Len(w), w[p].event = "enter"
        PROVE  /\ w[p].parent \in 0 .. n /\ EdgeTo(f, dir, blk, w[p].parent, w[p].block)
               /\ w[p].parent = 0 \/ \E q \in (p + 1) .. Len(w) :
                     w[q].event = "exit" /\ num[w[q].block] = w[p].parent
               /\ \A q \in (p + 1) .. Len(w) : w[q].event = "exit" => num[w[q].block] <= w[p].parent
    <3>1. w[p] = wl[p + 1] /\ p + 1 \in 1 .. Len(wl)
      BY <1>1
    <3>2. /\ w[p].parent \in 0 .. n /\ EdgeTo(f, dir, blk, w[p].parent, w[p].block)
          /\ w[p].parent = 0 \/ \E q \in (p + 2) .. Len(wl) :
                wl[q].event = "exit" /\ num[wl[q].block] = w[p].parent
          /\ \A q \in (p + 2) .. Len(wl) : wl[q].event = "exit" => num[wl[q].block] <= w[p].parent
      <4>1. (p + 1) + 1 = p + 2
        OBVIOUS
      <4> QED  BY <2>1, <2>4, <3>1, <4>1 DEF StackOf
    <3>3. ASSUME NEW q \in (p + 1) .. Len(w) PROVE w[q] = wl[q + 1] /\ q + 1 \in (p + 2) .. Len(wl)
      BY <1>1
    <3>4. ASSUME NEW q \in (p + 2) .. Len(wl) PROVE wl[q] = w[q - 1] /\ q - 1 \in (p + 1) .. Len(w)
      BY <1>1
    <3> QED  BY ZenonT(60), <3>2, <3>3, <3>4
  <2> QED  BY <1>1, <2>2, <2>3, <2>4 DEF StackOf
<1>5. AllFollowed(f, dir, n, blk, num, w)
  <2>1. AllFollowed(f, dir, n, blk, num, wl)
    BY DEF Searching
  <2>2. ASSUME NEW p \in 1 .. Len(wl), NEW b, Enters(wl, p, b), num[b] = 0
        PROVE  p - 1 \in 1 .. Len(w) /\ Enters(w, p - 1, b)
    <3>1. p \in 2 .. Len(wl)
      BY <1>1, <2>2 DEF Enters
    <3> QED  BY <1>1, <2>2, <3>1 DEF Enters
  <2>3. ASSUME NEW b \in Block, RootOf(f, dir, b)
        PROVE  num[b] # 0 \/ \E p \in 1 .. Len(w) : Enters(w, p, b)
    BY <2>1, <2>2, <2>3 DEF AllFollowed
  <2>4. ASSUME NEW u \in 1 .. n, NEW b \in Block, Flow(f, dir, blk[u], b), num[b] = 0
        PROVE  \E p \in 1 .. Len(w) : Enters(w, p, b)
                  /\ \E q \in (p + 1) .. Len(w) : LeavesAt(w, q, blk[u])
    <3>1. PICK p \in 1 .. Len(wl) : Enters(wl, p, b)
                  /\ \E q \in (p + 1) .. Len(wl) : LeavesAt(wl, q, blk[u])
      BY <2>1, <2>4 DEF AllFollowed
    <3>2. PICK q \in (p + 1) .. Len(wl) : LeavesAt(wl, q, blk[u])
      BY <3>1
    <3>3. p - 1 \in 1 .. Len(w) /\ Enters(w, p - 1, b)
      BY <2>2, <2>4, <3>1
    <3>4. q - 1 \in ((p - 1) + 1) .. Len(w) /\ LeavesAt(w, q - 1, blk[u])
      BY <1>1, <3>2 DEF LeavesAt
    <3> QED  BY <3>3, <3>4
  <2> QED  BY <2>3, <2>4 DEF AllFollowed
<1> QED  BY <1>3, <1>4, <1>5 DEF Searching, w

\* The block of the exit on top is left.
LEMMA SearchReturns ==
    ASSUME NEW f, NEW dir, NEW n, NEW blk, NEW par, NEW fin, NEW num, NEW po, NEW wl,
           Searching(f, dir, n, blk, par, fin, num, po, wl), wl # <<>>, wl[1].event = "exit"
    PROVE  Searching(f, dir, n, blk, par, fin, num, Append(po, wl[1].block), Tail(wl))
<1> DEFINE w == Tail(wl)
           b == wl[1].block
           k == num[b]
           po2 == Append(po, b)
<1>1. /\ wl \in Seq(WorkItem) /\ w \in Seq(WorkItem)
      /\ Len(wl) \in Nat /\ Len(w) = Len(wl) - 1 /\ wl[1] \in WorkItem /\ 1 \in 1 .. Len(wl)
      /\ \A i \in 1 .. Len(w) : i + 1 \in 1 .. Len(wl) /\ w[i] = wl[i + 1]
      /\ \A i \in 2 .. Len(wl) : i - 1 \in 1 .. Len(w) /\ w[i - 1] = wl[i]
  BY DEF Searching, StackOf
<1>2. n \in Nat /\ num \in [Block -> 0 .. n] /\ b \in Block
  BY <1>1 DEF Searching, Numbering, WorkItem
<1>3. \A c, d \in Block : num[c] # 0 /\ num[c] = num[d] => c = d
  BY DEF Searching, Numbering
<1>4. StackOf(f, dir, n, blk, fin, num, wl)
  BY DEF Searching
<1>5. k \in 1 .. n /\ IsOpen(wl, num, k)
  BY <1>1, <1>2, <1>4 DEF StackOf, IsOpen
<1> HIDE DEF w, b, k
<1>6. \A q \in 2 .. Len(wl) : wl[q].event = "exit" => num[wl[q].block] < k
  BY <1>1, <1>4 DEF StackOf, k, b
<1>7. \A u : IsOpen(w, num, u) <=> IsOpen(wl, num, u) /\ u # k
  <2> SUFFICES ASSUME NEW u PROVE IsOpen(w, num, u) <=> IsOpen(wl, num, u) /\ u # k
    OBVIOUS
  <2>1. ASSUME NEW q \in 1 .. Len(w), w[q].event = "exit", num[w[q].block] = u
        PROVE  IsOpen(wl, num, u) /\ u # k
    <3>1. q + 1 \in 2 .. Len(wl) /\ w[q] = wl[q + 1]
      BY <1>1
    <3>2. u < k
      BY <1>6, <2>1, <3>1
    <3> QED  BY <1>5, <2>1, <3>1, <3>2 DEF IsOpen
  <2>2. ASSUME NEW q \in 1 .. Len(wl), wl[q].event = "exit", num[wl[q].block] = u, u # k
        PROVE  IsOpen(w, num, u)
    <3>1. q \in 2 .. Len(wl)
      BY <1>1, <2>2 DEF k, b
    <3> QED  BY <1>1, <2>2, <3>1 DEF IsOpen
  <2>3. 0 # k
    BY <1>5
  <2> QED  BY <2>1, <2>2, <2>3 DEF IsOpen
<1>8. \A u : IsOpen(w, num, u) => u < k
  <2> SUFFICES ASSUME NEW u, IsOpen(w, num, u) PROVE u < k
    OBVIOUS
  <2>1. CASE u = 0
    BY <1>5, <2>1
  <2>2. CASE \E q \in 1 .. Len(w) : w[q].event = "exit" /\ num[w[q].block] = u
    <3>1. PICK q \in 1 .. Len(w) : w[q].event = "exit" /\ num[w[q].block] = u
      BY <2>2
    <3>2. q + 1 \in 2 .. Len(wl) /\ w[q] = wl[q + 1]
      BY <1>1
    <3> QED  BY <1>6, <3>1, <3>2
  <2> QED  BY <2>1, <2>2 DEF IsOpen
<1>9. StackOf(f, dir, n, blk, fin, num, w)
  <2>1. ASSUME NEW v \in 0 .. n, IsOpen(w, num, v), NEW u \in 0 .. n, Over(fin, u, v)
        PROVE  IsOpen(w, num, u)
    <3>1. IsOpen(wl, num, u)
      BY <1>4, <1>7, <2>1 DEF StackOf
    <3>2. u <= v /\ v < k
      BY <1>8, <2>1 DEF Over
    <3>3. u # k
      BY <1>5, <3>2
    <3> QED  BY <1>7, <3>1, <3>3
  <2>2. \A v \in 0 .. n : IsOpen(w, num, v) => fin[v] = n
    BY <1>4, <1>7 DEF StackOf
  <2>3. ASSUME NEW q \in 1 .. Len(w), w[q].event = "exit"
        PROVE  /\ num[w[q].block] # 0
               /\ \A p \in 1 .. (q - 1) : w[p].event = "exit" => num[w[q].block] < num[w[p].block]
    <3>1. /\ num[wl[q + 1].block] # 0
          /\ \A p \in 1 .. q : wl[p].event = "exit" => num[wl[q + 1].block] < num[wl[p].block]
      BY <1>1, <1>4, <2>3 DEF StackOf
    <3>2. ASSUME NEW p \in 1 .. (q - 1) PROVE w[p] = wl[p + 1] /\ p + 1 \in 1 .. q
      BY <1>1
    <3> QED  BY ZenonT(60), <1>1, <3>1, <3>2
  <2>4. ASSUME NEW p \in 1 .. Len(w), w[p].event = "enter"
        PROVE  /\ w[p].parent \in 0 .. n /\ EdgeTo(f, dir, blk, w[p].parent, w[p].block)
               /\ w[p].parent = 0 \/ \E q \in (p + 1) .. Len(w) :
                     w[q].event = "exit" /\ num[w[q].block] = w[p].parent
               /\ \A q \in (p + 1) .. Len(w) : w[q].event = "exit" => num[w[q].block] <= w[p].parent
    <3>1. w[p] = wl[p + 1] /\ p + 1 \in 1 .. Len(wl)
      BY <1>1
    <3>2. /\ w[p].parent \in 0 .. n /\ EdgeTo(f, dir, blk, w[p].parent, w[p].block)
          /\ w[p].parent = 0 \/ \E q \in (p + 2) .. Len(wl) :
                wl[q].event = "exit" /\ num[wl[q].block] = w[p].parent
          /\ \A q \in (p + 2) .. Len(wl) : wl[q].event = "exit" => num[wl[q].block] <= w[p].parent
      <4>1. (p + 1) + 1 = p + 2
        OBVIOUS
      <4> QED  BY <1>4, <2>4, <3>1, <4>1 DEF StackOf
    <3>3. ASSUME NEW q \in (p + 1) .. Len(w) PROVE w[q] = wl[q + 1] /\ q + 1 \in (p + 2) .. Len(wl)
      BY <1>1
    <3>4. ASSUME NEW q \in (p + 2) .. Len(wl) PROVE wl[q] = w[q - 1] /\ q - 1 \in (p + 1) .. Len(w)
      BY <1>1
    <3> QED  BY ZenonT(60), <3>2, <3>3, <3>4
  <2> QED  BY <1>1, <2>1, <2>2, <2>3, <2>4 DEF StackOf
<1>10. AllFollowed(f, dir, n, blk, num, w)
  <2>1. AllFollowed(f, dir, n, blk, num, wl)
    BY DEF Searching
  <2>2. ASSUME NEW p \in 1 .. Len(wl), NEW c, Enters(wl, p, c)
        PROVE  p - 1 \in 1 .. Len(w) /\ Enters(w, p - 1, c)
    <3>1. p \in 2 .. Len(wl)
      BY <1>1, <2>2 DEF Enters
    <3> QED  BY <1>1, <2>2, <3>1 DEF Enters
  <2>3. ASSUME NEW c \in Block, RootOf(f, dir, c)
        PROVE  num[c] # 0 \/ \E p \in 1 .. Len(w) : Enters(w, p, c)
    BY <2>1, <2>2, <2>3 DEF AllFollowed
  <2>4. ASSUME NEW u \in 1 .. n, NEW c \in Block, Flow(f, dir, blk[u], c), num[c] = 0
        PROVE  \E p \in 1 .. Len(w) : Enters(w, p, c)
                  /\ \E q \in (p + 1) .. Len(w) : LeavesAt(w, q, blk[u])
    <3>1. PICK p \in 1 .. Len(wl) : Enters(wl, p, c)
                  /\ \E q \in (p + 1) .. Len(wl) : LeavesAt(wl, q, blk[u])
      BY <2>1, <2>4 DEF AllFollowed
    <3>2. PICK q \in (p + 1) .. Len(wl) : LeavesAt(wl, q, blk[u])
      BY <3>1
    <3>3. p - 1 \in 1 .. Len(w) /\ Enters(w, p - 1, c)
      BY <2>2, <2>4, <3>1
    <3>4. q - 1 \in ((p - 1) + 1) .. Len(w) /\ LeavesAt(w, q - 1, blk[u])
      BY <1>1, <3>2 DEF LeavesAt
    <3> QED  BY <3>3, <3>4
  <2> QED  BY <2>3, <2>4 DEF AllFollowed
<1>11. /\ LeftInOrder(fin, num, po)
       /\ \A c \in Block : HasLeft(po, c) <=> num[c] # 0 /\ ~IsOpen(wl, num, num[c])
  BY DEF Searching
<1>12. /\ po \in Seq(Block) /\ Len(po) \in Nat /\ po2 \in Seq(Block) /\ Len(po2) = Len(po) + 1
       /\ po2[Len(po) + 1] = b /\ \A i \in 1 .. Len(po) : po2[i] = po[i] /\ i \in 1 .. Len(po2)
  BY <1>2, <1>11 DEF LeftInOrder
<1> HIDE DEF po2
<1>13. \A i \in 1 .. Len(po2) : i \in 1 .. Len(po) \/ i = Len(po) + 1
  BY <1>12
<1>14. \A i \in 1 .. Len(po) : po[i] # b
  BY <1>2, <1>5, <1>11 DEF HasLeft, k
<1>15. LeftInOrder(fin, num, po2)
  <2>1. \A i, j \in 1 .. Len(po2) : po2[i] = po2[j] => i = j
    BY <1>11, <1>12, <1>13, <1>14 DEF LeftInOrder
  <2>2. ASSUME NEW i \in 1 .. Len(po2), NEW j \in 1 .. Len(po2), i # j,
               Over(fin, num[po2[i]], num[po2[j]])
        PROVE  j < i
    <3>1. CASE i \in 1 .. Len(po) /\ j \in 1 .. Len(po)
      BY <1>11, <1>12, <2>2, <3>1 DEF LeftInOrder
    <3>2. CASE i = Len(po) + 1
      BY <1>12, <1>13, <2>2, <3>2
    <3>3. CASE i \in 1 .. Len(po) /\ j = Len(po) + 1
      <4>1. po[i] \in Block /\ num[po[i]] \in 0 .. n /\ ~IsOpen(wl, num, num[po[i]])
        BY <1>2, <1>11, <1>12, <3>3 DEF HasLeft
      <4>2. Over(fin, num[po[i]], k)
        BY <1>12, <2>2, <3>3 DEF k
      <4>3. IsOpen(wl, num, num[po[i]])
        BY <1>4, <1>5, <4>1, <4>2 DEF StackOf
      <4> QED  BY <4>1, <4>3
    <3> QED  BY <1>13, <3>1, <3>2, <3>3
  <2> QED  BY <1>12, <2>1, <2>2 DEF LeftInOrder
<1>16. ASSUME NEW c \in Block
       PROVE  HasLeft(po2, c) <=> num[c] # 0 /\ ~IsOpen(w, num, num[c])
  <2>1. HasLeft(po2, c) <=> c = b \/ HasLeft(po, c)
    BY <1>12, <1>13 DEF HasLeft
  <2>2. num[c] = k /\ num[c] # 0 => c = b
    BY <1>2, <1>3 DEF k
  <2>3. c = b => num[c] = k /\ num[c] # 0 /\ ~IsOpen(w, num, num[c])
    BY <1>5, <1>7 DEF k
  <2> QED  BY <1>7, <1>11, <2>1, <2>2, <2>3
<1> QED  BY <1>9, <1>10, <1>15, <1>16 DEF Searching, w, po2, b

\* What entering a block adds to the numbering and the tree.
MoreBlocks(n, blk, b) == [i \in 1 .. (n + 1) |-> IF i = n + 1 THEN b ELSE blk[i]]
MoreTree(n, par, parent) == [i \in 1 .. (n + 1) |-> IF i = n + 1 THEN parent ELSE par[i]]
MoreUnder(n, fin, num, wl) ==
    [u \in 0 .. (n + 1) |-> IF u = n + 1 \/ IsOpen(wl, num, u) THEN n + 1 ELSE fin[u]]
MoreNumbers(n, num, b) == [c \in Block |-> IF c = b THEN n + 1 ELSE num[c]]

\* The stack more is wl after its first item, an enter, made way for the blocks
\* next to enter and the exit of its block.
StackGrows(n, wl, m, next, more) ==
    /\ more \in Seq(WorkItem) /\ Len(more) = m + Len(wl)
    /\ \A i \in 1 .. m : more[i] = enter(n + 1, next[i])
    /\ more[m + 1] = exit(wl[1].block)
    /\ \A i \in 2 .. Len(wl) : more[m + i] = wl[i]

\* The numbering and the tree after a block was entered.
LEMMA GrownTree ==
    ASSUME NEW f, NEW dir, NEW n, NEW blk, NEW par, NEW fin, NEW num, NEW po, NEW wl,
           Searching(f, dir, n, blk, par, fin, num, po, wl), wl # <<>>,
           wl[1].event = "enter", num[wl[1].block] = 0
    PROVE  LET b == wl[1].block
               blk2 == MoreBlocks(n, blk, b)
           IN  /\ Numbering(n + 1, blk2, MoreNumbers(n, num, b))
               /\ DfsTree(n + 1, Edges(f, dir, n + 1, blk2), MoreTree(n, par, wl[1].parent),
                          MoreUnder(n, fin, num, wl))
               /\ \A u \in 0 .. n : \A c : EdgeTo(f, dir, blk2, u, c) <=> EdgeTo(f, dir, blk, u, c)
<1> DEFINE b == wl[1].block
           N == n + 1
           parent == wl[1].parent
           blk2 == MoreBlocks(n, blk, b)
           par2 == MoreTree(n, par, parent)
           fin2 == MoreUnder(n, fin, num, wl)
           num2 == MoreNumbers(n, num, b)
           E == Edges(f, dir, n, blk)
           E2 == Edges(f, dir, N, blk2)
<1>1. /\ wl \in Seq(WorkItem) /\ Len(wl) \in Nat \ {0} /\ wl[1] \in WorkItem /\ 1 \in 1 .. Len(wl)
  BY DEF Searching, StackOf
<1>2. /\ n \in Nat /\ blk \in [1 .. n -> Block] /\ num \in [Block -> 0 .. n] /\ b \in Block
      /\ \A c \in Block : num[c] # 0 => blk[num[c]] = c
      /\ \A i \in 1 .. n : num[blk[i]] = i
  BY <1>1 DEF Searching, Numbering, WorkItem
<1>3. StackOf(f, dir, n, blk, fin, num, wl) /\ AllFollowed(f, dir, n, blk, num, wl)
      /\ DfsTree(n, E, par, fin)
  BY DEF Searching
<1>4. /\ parent \in 0 .. n /\ EdgeTo(f, dir, blk, parent, b)
      /\ parent = 0 \/ \E q \in 2 .. Len(wl) : wl[q].event = "exit" /\ num[wl[q].block] = parent
      /\ \A q \in 2 .. Len(wl) : wl[q].event = "exit" => num[wl[q].block] <= parent
  <2>1. 1 + 1 = 2
    OBVIOUS
  <2> QED  BY <1>1, <1>3, <2>1 DEF StackOf
<1>5. num[b] = 0
  OBVIOUS
<1> HIDE DEF b, parent
<1>6. IsOpen(wl, num, parent)
  BY <1>1, <1>4 DEF IsOpen
<1>7. \A u : IsOpen(wl, num, u) => u \in 0 .. n /\ u <= parent
  <2> SUFFICES ASSUME NEW u, IsOpen(wl, num, u) PROVE u \in 0 .. n /\ u <= parent
    OBVIOUS
  <2>1. CASE u = 0
    BY <1>2, <1>4, <2>1
  <2>2. CASE \E q \in 1 .. Len(wl) : wl[q].event = "exit" /\ num[wl[q].block] = u
    <3>1. PICK q \in 1 .. Len(wl) : wl[q].event = "exit" /\ num[wl[q].block] = u
      BY <2>2
    <3>2. q \in 2 .. Len(wl) /\ wl[q].block \in Block
      BY <1>1, <3>1 DEF WorkItem
    <3> QED  BY <1>2, <1>4, <3>1, <3>2
  <2> QED  BY <2>1, <2>2 DEF IsOpen
<1>8. /\ blk2 \in [1 .. N -> Block] /\ blk2[N] = b /\ \A i \in 1 .. n : blk2[i] = blk[i]
      /\ \A i \in 1 .. N : i \in 1 .. n \/ i = N
      /\ N \in Nat /\ N \in 1 .. N
  BY <1>2 DEF MoreBlocks
<1>9. /\ num2 \in [Block -> 0 .. N] /\ num2[b] = N /\ \A c \in Block \ {b} : num2[c] = num[c]
  BY <1>2 DEF MoreNumbers
<1>10. par2 \in [1 .. N -> 0 .. N] /\ par2[N] = parent /\ \A i \in 1 .. n : par2[i] = par[i]
  <2>1. par \in [1 .. n -> 0 .. n]
    BY <1>3 DEF DfsTree
  <2> QED  BY <1>2, <1>4, <2>1 DEF MoreTree
<1>11. /\ fin2 \in [0 .. N -> 0 .. N] /\ fin2[N] = N
       /\ \A u \in 0 .. n : fin2[u] = IF IsOpen(wl, num, u) THEN N ELSE fin[u]
  <2>1. fin \in [0 .. n -> 0 .. n]
    BY <1>3 DEF DfsTree
  <2>2. N \in Nat /\ N = n + 1 /\ n \in Nat
    BY <1>2
  <2>3. fin2 = [u \in 0 .. N |-> IF u = N \/ IsOpen(wl, num, u) THEN N ELSE fin[u]]
    BY DEF MoreUnder
  <2> HIDE DEF N, fin2
  <2>4. \A u \in 0 .. N : fin2[u] \in 0 .. N
    BY <2>1, <2>2, <2>3
  <2> QED  BY <2>2, <2>3, <2>4
<1> HIDE DEF blk2, par2, fin2, num2
<1>12. Numbering(N, blk2, num2)
  <2>1. ASSUME NEW c \in Block, num2[c] # 0 PROVE blk2[num2[c]] = c
    <3>1. CASE c = b
      BY <1>8, <1>9, <3>1
    <3>2. CASE c # b
      BY <1>2, <1>8, <1>9, <2>1, <3>2
    <3> QED  BY <3>1, <3>2
  <2>2. ASSUME NEW i \in 1 .. N PROVE num2[blk2[i]] = i
    <3>1. CASE i = N
      BY <1>8, <1>9, <3>1
    <3>2. CASE i \in 1 .. n
      <4>1. blk[i] \in Block /\ num[blk[i]] = i /\ i # 0
        BY <1>2, <3>2
      <4>2. blk[i] # b
        BY <1>5, <4>1
      <4> QED  BY <1>8, <1>9, <3>2, <4>1, <4>2
    <3> QED  BY <1>8, <3>1, <3>2
  <2> QED  BY <1>8, <1>9, <2>1, <2>2 DEF Numbering
<1>13. \A u \in 0 .. n : \A c : EdgeTo(f, dir, blk2, u, c) <=> EdgeTo(f, dir, blk, u, c)
  BY <1>2, <1>8 DEF EdgeTo
<1>14. DfsTree(N, E2, par2, fin2)
  <2>1. E2 \subseteq (0 .. N) \X (1 .. N)
    BY DEF Edges
  <2>2. fin2[0] = N
    BY <1>2, <1>11 DEF IsOpen
  <2>3. \A u \in 0 .. N : u <= fin2[u]
    <3> TAKE u \in 0 .. N
    <3>1. CASE u = N
      BY <1>8, <1>11, <3>1
    <3>2. CASE u \in 0 .. n
      <4>1. u <= fin[u] /\ fin[u] \in 0 .. n
        BY <1>3, <3>2 DEF DfsTree
      <4>2. fin2[u] = N \/ fin2[u] = fin[u]
        BY <1>11, <3>2
      <4> QED  BY <1>2, <3>2, <4>1, <4>2
    <3> QED  BY <1>2, <3>1, <3>2
  <2>4. ASSUME NEW w \in 1 .. N
        PROVE  par2[w] < w /\ <<par2[w], w>> \in E2 /\ fin2[w] <= fin2[par2[w]]
    <3>1. CASE w = N
      <4>1. par2[w] = parent /\ parent < w
        BY <1>2, <1>4, <1>10, <3>1
      <4>2. EdgeTo(f, dir, blk2, parent, blk2[w])
        BY <1>4, <1>8, <1>13, <3>1
      <4>3. fin2[parent] = N /\ fin2[w] = N
        BY <1>4, <1>6, <1>11, <3>1
      <4>4. <<parent, w>> \in (0 .. N) \X (1 .. N)
        BY <1>2, <1>4
      <4> QED  BY <1>8, <4>1, <4>2, <4>3, <4>4 DEF Edges
    <3>2. CASE w \in 1 .. n
      <4>1. /\ par2[w] = par[w] /\ par[w] \in 0 .. n /\ par[w] < w /\ <<par[w], w>> \in E
            /\ fin[w] <= fin[par[w]] /\ w <= fin[w] /\ fin[w] \in 0 .. n /\ fin[par[w]] \in 0 .. n
        <5>1. par[w] \in 0 .. n
          BY <1>3, <3>2 DEF DfsTree
        <5> QED  BY <1>3, <1>10, <3>2, <5>1 DEF DfsTree
      <4>2. EdgeTo(f, dir, blk2, par[w], blk2[w])
        BY <1>8, <1>13, <3>2, <4>1 DEF Edges
      <4>3. <<par[w], w>> \in (0 .. N) \X (1 .. N)
        BY <1>2, <4>1
      <4>4. Over(fin, par[w], w)
        BY <1>2, <4>1 DEF Over
      <4>5. IsOpen(wl, num, w) => IsOpen(wl, num, par[w])
        BY <1>3, <3>2, <4>1, <4>4 DEF StackOf
      <4>6. fin2[w] <= fin2[par[w]]
        <5>1. /\ fin2[w] = IF IsOpen(wl, num, w) THEN N ELSE fin[w]
              /\ fin2[par[w]] = IF IsOpen(wl, num, par[w]) THEN N ELSE fin[par[w]]
          BY <1>2, <1>11, <3>2, <4>1
        <5>2. /\ fin[w] <= fin[par[w]] /\ fin[w] \in Nat /\ fin[par[w]] \in Nat
              /\ N \in Nat /\ fin[w] <= N
          BY <1>2, <4>1
        <5> QED  BY <4>5, <5>1, <5>2
      <4> QED  BY <4>1, <4>2, <4>3, <4>6 DEF Edges
    <3> QED  BY <1>8, <3>1, <3>2
  <2>5. ASSUME NEW u \in 0 .. N, NEW w \in 1 .. N, u < w, w <= fin2[u] PROVE u <= par2[w]
    <3>1. u \in 0 .. n
      BY <1>2, <2>5
    <3>2. CASE w = N
      <4>1. IsOpen(wl, num, u)
        BY <1>2, <1>3, <1>11, <2>5, <3>1, <3>2 DEF DfsTree
      <4> QED  BY <1>7, <1>10, <3>2, <4>1
    <3>3. CASE w \in 1 .. n
      <4>1. w <= fin[u]
        <5>1. IsOpen(wl, num, u) => fin[u] = n
          BY <1>3, <3>1 DEF StackOf
        <5>2. w <= n
          BY <1>2, <3>3
        <5> QED  BY <1>11, <2>5, <3>1, <5>1, <5>2
      <4> QED  BY <1>3, <1>10, <2>5, <3>1, <3>3, <4>1 DEF DfsTree
    <3> QED  BY <1>8, <3>2, <3>3
  <2>6. ASSUME NEW e \in E2, e[1] < e[2] PROVE e[2] <= fin2[e[1]]
    <3>1. /\ e[1] \in 0 .. N /\ e[2] \in 1 .. N /\ e = <<e[1], e[2]>>
          /\ EdgeTo(f, dir, blk2, e[1], blk2[e[2]])
      BY DEF Edges
    <3>2. e[1] \in 0 .. n
      BY <1>2, <2>6, <3>1
    <3>3. EdgeTo(f, dir, blk, e[1], blk2[e[2]])
      BY <1>13, <3>1, <3>2
    <3>4. CASE e[2] = N
      <4>1. CASE e[1] = 0
        BY <1>2, <2>2, <3>4, <4>1
      <4>2. CASE e[1] # 0
        <5>1. e[1] \in 1 .. n /\ Flow(f, dir, blk[e[1]], b)
          BY <1>2, <1>8, <3>2, <3>3, <3>4, <4>2 DEF EdgeTo
        <5>2. PICK p \in 1 .. Len(wl) : Enters(wl, p, b)
                  /\ \E q \in (p + 1) .. Len(wl) : LeavesAt(wl, q, blk[e[1]])
          BY <1>2, <1>3, <1>5, <5>1 DEF AllFollowed
        <5>3. PICK q \in (p + 1) .. Len(wl) : LeavesAt(wl, q, blk[e[1]])
          BY <5>2
        <5>4. IsOpen(wl, num, e[1])
          BY <1>2, <5>1, <5>3 DEF LeavesAt, IsOpen
        <5> QED  BY <1>8, <1>11, <3>2, <3>4, <5>4
      <4> QED  BY <4>1, <4>2
    <3>5. CASE e[2] \in 1 .. n
      <4>1. <<e[1], e[2]>> \in (0 .. n) \X (1 .. n) /\ EdgeTo(f, dir, blk, e[1], blk[e[2]])
        BY <1>8, <3>2, <3>3, <3>5
      <4>2. e \in E
        BY <3>1, <4>1 DEF Edges
      <4>3. e[2] <= fin[e[1]] /\ fin[e[1]] \in 0 .. n
        BY <1>3, <2>6, <3>2, <4>2 DEF DfsTree
      <4>4. fin2[e[1]] = N \/ fin2[e[1]] = fin[e[1]]
        BY <1>11, <3>2
      <4>5. e[2] <= N
        BY <1>2, <3>5
      <4> QED  BY <4>3, <4>4, <4>5
    <3> QED  BY <1>8, <3>1, <3>4, <3>5
  <2> HIDE DEF E2
  <2> QED  BY <1>8, <1>10, <1>11, <2>1, <2>2, <2>3, <2>4, <2>5, <2>6 DEF DfsTree
<1> QED  BY <1>12, <1>13, <1>14 DEF b, parent, blk2, par2, fin2, num2

\* A block is entered.
LEMMA SearchGrows ==
    ASSUME NEW f, NEW dir, NEW n, NEW blk, NEW par, NEW fin, NEW num, NEW po, NEW wl,
           Searching(f, dir, n, blk, par, fin, num, po, wl), wl # <<>>,
           wl[1].event = "enter", num[wl[1].block] = 0,
           NEW m \in Nat, NEW next, NEW more, StackGrows(n, wl, m, next, more),
           \A i \in 1 .. m : next[i] \in Block /\ Flow(f, dir, wl[1].block, next[i]),
           \A c \in Block : Flow(f, dir, wl[1].block, c) /\ num[c] = 0 /\ c # wl[1].block =>
              \E i \in 1 .. m : next[i] = c
    PROVE  LET b == wl[1].block
           IN  Searching(f, dir, n + 1, MoreBlocks(n, blk, b), MoreTree(n, par, wl[1].parent),
                         MoreUnder(n, fin, num, wl), MoreNumbers(n, num, b), po, more)
<1> DEFINE b == wl[1].block
           N == n + 1
           parent == wl[1].parent
           blk2 == MoreBlocks(n, blk, b)
           par2 == MoreTree(n, par, parent)
           fin2 == MoreUnder(n, fin, num, wl)
           num2 == MoreNumbers(n, num, b)
<1>1. /\ wl \in Seq(WorkItem) /\ Len(wl) \in Nat \ {0} /\ wl[1] \in WorkItem /\ 1 \in 1 .. Len(wl)
      /\ \A i \in 1 .. Len(wl) : wl[i].block \in Block
  BY DEF Searching, StackOf, WorkItem
<1>2. /\ n \in Nat /\ blk \in [1 .. n -> Block] /\ num \in [Block -> 0 .. n] /\ b \in Block
      /\ \A c \in Block : num[c] # 0 => blk[num[c]] = c
      /\ \A i \in 1 .. n : num[blk[i]] = i
      /\ num[b] = 0
  BY <1>1 DEF Searching, Numbering, WorkItem
<1>3. StackOf(f, dir, n, blk, fin, num, wl) /\ AllFollowed(f, dir, n, blk, num, wl)
      /\ DfsTree(n, Edges(f, dir, n, blk), par, fin)
  BY DEF Searching
<1>4. /\ Numbering(N, blk2, num2)
      /\ DfsTree(N, Edges(f, dir, N, blk2), par2, fin2)
      /\ \A u \in 0 .. n : \A c : EdgeTo(f, dir, blk2, u, c) <=> EdgeTo(f, dir, blk, u, c)
  BY GrownTree
<1>5. /\ num2[b] = N /\ \A c \in Block \ {b} : num2[c] = num[c]
      /\ blk2[N] = b /\ \A i \in 1 .. n : blk2[i] = blk[i]
      /\ fin2[N] = N /\ \A u \in 0 .. n : fin2[u] = IF IsOpen(wl, num, u) THEN N ELSE fin[u]
      /\ N \in Nat /\ N \in 1 .. N
      /\ \A i \in 1 .. N : i \in 1 .. n \/ i = N
  BY <1>2 DEF MoreBlocks, MoreNumbers, MoreUnder
<1> HIDE DEF blk2, par2, fin2, num2
<1>6. /\ more \in Seq(WorkItem) /\ Len(more) \in Nat /\ Len(more) = m + Len(wl)
      /\ \A i \in 1 .. m : i \in 1 .. Len(more) /\ more[i].event = "enter"
            /\ more[i].parent = N /\ more[i].block = next[i]
      /\ m + 1 \in 1 .. Len(more) /\ more[m + 1].event = "exit" /\ more[m + 1].block = b
      /\ \A i \in 2 .. Len(wl) : more[m + i] = wl[i] /\ m + i \in 1 .. Len(more)
  <2>1. /\ more \in Seq(WorkItem) /\ Len(more) = m + Len(wl)
        /\ \A i \in 1 .. m : more[i] = enter(N, next[i])
        /\ more[m + 1] = exit(b)
        /\ \A i \in 2 .. Len(wl) : more[m + i] = wl[i]
    BY DEF StackGrows
  <2>2. \A x, y : /\ enter(x, y).event = "enter" /\ enter(x, y).parent = x /\ enter(x, y).block = y
                  /\ exit(y).event = "exit" /\ exit(y).block = y
    BY DEF enter, exit
  <2>3. /\ \A i \in 1 .. m : i \in 1 .. (m + Len(wl))
        /\ m + 1 \in 1 .. (m + Len(wl))
        /\ \A i \in 2 .. Len(wl) : m + i \in 1 .. (m + Len(wl))
        /\ m + Len(wl) \in Nat
    BY <1>1
  <2> QED  BY <2>1, <2>2, <2>3
<1>7. \A i \in 1 .. Len(more) :
         \/ i \in 1 .. m
         \/ i = m + 1
         \/ i - m \in 2 .. Len(wl) /\ more[i] = wl[i - m]
  <2> TAKE i \in 1 .. Len(more)
  <2>1. ASSUME i \notin 1 .. m, i # m + 1 PROVE i - m \in 2 .. Len(wl) /\ m + (i - m) = i
    BY <1>1, <1>6, <2>1
  <2>2. i - m \in 2 .. Len(wl) => more[m + (i - m)] = wl[i - m]
    BY <1>6
  <2> QED  BY <2>1, <2>2
<1>8. \A q \in 1 .. Len(more) : more[q].event = "exit" =>
         \/ q = m + 1 /\ num2[more[q].block] = N
         \/ /\ q - m \in 2 .. Len(wl) /\ more[q] = wl[q - m] /\ wl[q - m].event = "exit"
            /\ num2[more[q].block] = num[wl[q - m].block] /\ num[wl[q - m].block] \in 1 .. n
  <2> TAKE q \in 1 .. Len(more)
  <2> HAVE more[q].event = "exit"
  <2>1. CASE q \in 1 .. m
    BY <1>6, <2>1
  <2>2. CASE q = m + 1
    BY <1>5, <1>6, <2>2
  <2>3. CASE q - m \in 2 .. Len(wl) /\ more[q] = wl[q - m]
    <3>1. num[wl[q - m].block] # 0 /\ wl[q - m].block \in Block
      BY <1>1, <1>3, <2>3 DEF StackOf
    <3>2. wl[q - m].block # b
      BY <1>2, <3>1
    <3> QED  BY <1>2, <1>5, <2>3, <3>1, <3>2
  <2> QED  BY <1>7, <2>1, <2>2, <2>3
<1>9. \A u : IsOpen(more, num2, u) <=> u = N \/ IsOpen(wl, num, u)
  <2> SUFFICES ASSUME NEW u PROVE IsOpen(more, num2, u) <=> u = N \/ IsOpen(wl, num, u)
    OBVIOUS
  <2>1. ASSUME NEW q \in 1 .. Len(more), more[q].event = "exit", num2[more[q].block] = u
        PROVE  u = N \/ IsOpen(wl, num, u)
    <3>1. q - m \in 2 .. Len(wl) => q - m \in 1 .. Len(wl)
      BY <1>1
    <3> QED  BY <1>8, <2>1, <3>1 DEF IsOpen
  <2>2. ASSUME NEW q \in 1 .. Len(wl), wl[q].event = "exit", num[wl[q].block] = u
        PROVE  IsOpen(more, num2, u)
    <3>1. q \in 2 .. Len(wl)
      BY <1>1, <2>2
    <3>2. num[wl[q].block] # 0 /\ wl[q].block \in Block
      BY <1>1, <1>3, <2>2 DEF StackOf
    <3>3. wl[q].block # b
      BY <1>2, <3>2
    <3>4. num2[more[m + q].block] = u /\ more[m + q].event = "exit" /\ m + q \in 1 .. Len(more)
      BY <1>5, <1>6, <2>2, <3>1, <3>2, <3>3
    <3> QED  BY <3>4 DEF IsOpen
  <2>3. IsOpen(more, num2, N)
    BY <1>5, <1>6 DEF IsOpen
  <2> QED  BY <2>1, <2>2, <2>3 DEF IsOpen
<1>10. StackOf(f, dir, N, blk2, fin2, num2, more)
  <2>1. ASSUME NEW v \in 0 .. N, IsOpen(more, num2, v)
        PROVE  fin2[v] = N /\ \A u \in 0 .. N : Over(fin2, u, v) => IsOpen(more, num2, u)
    <3>1. fin2[v] = N
      BY <1>2, <1>5, <1>9, <2>1
    <3>2. ASSUME NEW u \in 0 .. N, Over(fin2, u, v) PROVE IsOpen(more, num2, u)
      <4>1. CASE u = N
        BY <1>9, <4>1
      <4>2. CASE u # N
        <5>1. u \in 0 .. n
          BY <1>2, <4>2
        <5>2. CASE v = N
          <6>1. IsOpen(wl, num, u)
            BY <1>2, <1>3, <1>5, <3>2, <5>1, <5>2 DEF DfsTree, Over
          <6> QED  BY <1>9, <6>1
        <5>3. CASE v # N
          <6>1. v \in 0 .. n /\ IsOpen(wl, num, v)
            BY <1>2, <1>9, <2>1, <5>3
          <6>2. IsOpen(wl, num, u) \/ Over(fin, u, v)
            BY <1>5, <3>2, <5>1 DEF Over
          <6>3. IsOpen(wl, num, u)
            BY <1>3, <5>1, <6>1, <6>2 DEF StackOf
          <6> QED  BY <1>9, <6>3
        <5> QED  BY <5>2, <5>3
      <4> QED  BY <4>1, <4>2
    <3> QED  BY <3>1, <3>2
  <2>2. ASSUME NEW q \in 1 .. Len(more), more[q].event = "exit"
        PROVE  /\ num2[more[q].block] # 0
               /\ \A p \in 1 .. (q - 1) : more[p].event = "exit" =>
                     num2[more[q].block] < num2[more[p].block]
    <3>1. num2[more[q].block] # 0
      BY <1>2, <1>8, <2>2
    <3>2. ASSUME NEW p \in 1 .. (q - 1), more[p].event = "exit"
          PROVE  num2[more[q].block] < num2[more[p].block]
      <4>1. p \in 1 .. Len(more) /\ p < q
        BY <1>6
      <4>2. p \notin 1 .. m
        BY <1>6, <3>2
      <4>3. /\ q - m \in 2 .. Len(wl) /\ wl[q - m].event = "exit"
            /\ num2[more[q].block] = num[wl[q - m].block] /\ num[wl[q - m].block] \in 1 .. n
        BY <1>6, <1>8, <2>2, <4>1, <4>2
      <4>4. CASE num2[more[p].block] = N
        BY <1>2, <4>3, <4>4
      <4>5. CASE /\ p - m \in 2 .. Len(wl) /\ wl[p - m].event = "exit"
                 /\ num2[more[p].block] = num[wl[p - m].block]
        <5>1. p - m \in 1 .. ((q - m) - 1) /\ q - m \in 1 .. Len(wl)
          BY SMTT(60), <1>1, <4>1, <4>3, <4>5
        <5> QED  BY <1>3, <4>3, <4>5, <5>1 DEF StackOf
      <4> QED  BY <1>8, <3>2, <4>1, <4>4, <4>5
    <3> QED  BY <3>1, <3>2
  <2>3. ASSUME NEW p \in 1 .. Len(more), more[p].event = "enter"
        PROVE  /\ more[p].parent \in 0 .. N /\ EdgeTo(f, dir, blk2, more[p].parent, more[p].block)
               /\ more[p].parent = 0 \/ \E q \in (p + 1) .. Len(more) :
                     more[q].event = "exit" /\ num2[more[q].block] = more[p].parent
               /\ \A q \in (p + 1) .. Len(more) : more[q].event = "exit" =>
                     num2[more[q].block] <= more[p].parent
    <3>1. CASE p \in 1 .. m
      <4>1. more[p].parent = N /\ more[p].block = next[p] /\ Flow(f, dir, b, next[p])
        BY <1>6, <3>1
      <4>2. EdgeTo(f, dir, blk2, N, next[p])
        BY <1>2, <1>5, <4>1 DEF EdgeTo
      <4>3. m + 1 \in (p + 1) .. Len(more) /\ num2[more[m + 1].block] = N
        BY <1>1, <1>5, <1>6, <3>1
      <4>4. \A q \in (p + 1) .. Len(more) : more[q].event = "exit" => num2[more[q].block] <= N
        <5> TAKE q \in (p + 1) .. Len(more)
        <5>1. q \in 1 .. Len(more)
          BY <1>6, <3>1
        <5> HAVE more[q].event = "exit"
        <5>2. num2[more[q].block] \in 1 .. n \/ num2[more[q].block] = N
          BY <1>8, <5>1
        <5> QED  BY <1>2, <1>5, <5>2
      <4> QED  BY <1>5, <1>6, <4>1, <4>2, <4>3, <4>4
    <3>2. CASE p - m \in 2 .. Len(wl) /\ more[p] = wl[p - m]
      <4> DEFINE k == p - m
      <4>1. k \in 1 .. Len(wl) /\ wl[k].event = "enter" /\ k \in 2 .. Len(wl) /\ p = m + k
        BY <1>1, <2>3, <3>2
      <4> HIDE DEF k
      <4>2. /\ wl[k].parent \in 0 .. n /\ EdgeTo(f, dir, blk, wl[k].parent, wl[k].block)
            /\ wl[k].parent = 0 \/ \E q \in (k + 1) .. Len(wl) :
                  wl[q].event = "exit" /\ num[wl[q].block] = wl[k].parent
            /\ \A q \in (k + 1) .. Len(wl) : wl[q].event = "exit" => num[wl[q].block] <= wl[k].parent
        BY <1>3, <4>1 DEF StackOf
      <4>3. more[p] = wl[k]
        BY <3>2 DEF k
      <4>4. wl[k].parent \in 0 .. N /\ EdgeTo(f, dir, blk2, wl[k].parent, wl[k].block)
        BY <1>2, <1>4, <4>2
      <4>5. ASSUME NEW q \in (k + 1) .. Len(wl), wl[q].event = "exit"
            PROVE  /\ m + q \in (p + 1) .. Len(more) /\ more[m + q] = wl[q]
                   /\ num2[more[m + q].block] = num[wl[q].block]
        <5>1. q \in 2 .. Len(wl) /\ q \in 1 .. Len(wl) /\ m + q \in (p + 1) .. Len(more)
          BY <1>1, <1>6, <4>1
        <5>2. more[m + q] = wl[q] /\ num[wl[q].block] # 0 /\ wl[q].block \in Block
          BY <1>1, <1>3, <1>6, <4>5, <5>1 DEF StackOf
        <5>3. wl[q].block # b
          BY <1>2, <5>2
        <5> QED  BY <1>5, <5>1, <5>2, <5>3
      <4>6. ASSUME NEW q \in (p + 1) .. Len(more), more[q].event = "exit"
            PROVE  num2[more[q].block] <= wl[k].parent
        <5>1. q \in 1 .. Len(more) /\ q # m + 1 /\ q > m + k
          BY <1>6, <4>1
        <5>2. /\ q - m \in 2 .. Len(wl) /\ wl[q - m].event = "exit"
              /\ num2[more[q].block] = num[wl[q - m].block]
          BY <1>8, <4>6, <5>1
        <5>3. q - m \in (k + 1) .. Len(wl)
          BY <4>1, <5>1, <5>2
        <5> QED  BY <4>2, <5>2, <5>3
      <4> QED  BY <4>2, <4>3, <4>4, <4>5, <4>6
    <3> QED  BY <1>6, <1>7, <2>3, <3>1, <3>2
  <2> QED  BY <1>6, <2>1, <2>2, <2>3 DEF StackOf
<1>11. AllFollowed(f, dir, N, blk2, num2, more)
  <2>1. \A c \in Block : num[c] # 0 => num2[c] # 0
    BY <1>2, <1>5
  <2>2. num2[b] # 0
    BY <1>2, <1>5
  <2>3. ASSUME NEW p \in 1 .. Len(wl), NEW c, Enters(wl, p, c), c # b
        PROVE  m + p \in 1 .. Len(more) /\ Enters(more, m + p, c)
    <3>1. p \in 2 .. Len(wl)
      BY <1>1, <2>3 DEF Enters
    <3> QED  BY <1>6, <2>3, <3>1 DEF Enters
  <2>4. ASSUME NEW c \in Block, RootOf(f, dir, c)
        PROVE  num2[c] # 0 \/ \E p \in 1 .. Len(more) : Enters(more, p, c)
    BY <1>3, <2>1, <2>2, <2>3, <2>4 DEF AllFollowed
  <2>5. ASSUME NEW u \in 1 .. N, NEW c \in Block, Flow(f, dir, blk2[u], c), num2[c] = 0
        PROVE  \E p \in 1 .. Len(more) : Enters(more, p, c)
                  /\ \E q \in (p + 1) .. Len(more) : LeavesAt(more, q, blk2[u])
    <3>1. c # b /\ num[c] = 0
      BY <2>1, <2>2, <2>5
    <3>2. CASE u = N
      <4>1. PICK i \in 1 .. m : next[i] = c
        BY <1>5, <2>5, <3>1, <3>2
      <4>2. Enters(more, i, c) /\ i \in 1 .. Len(more) /\ m + 1 \in (i + 1) .. Len(more)
        BY <1>1, <1>6, <4>1 DEF Enters
      <4>3. LeavesAt(more, m + 1, blk2[u])
        BY <1>5, <1>6, <3>2 DEF LeavesAt
      <4> QED  BY <4>2, <4>3
    <3>3. CASE u \in 1 .. n
      <4>1. PICK p \in 1 .. Len(wl) : Enters(wl, p, c)
                  /\ \E q \in (p + 1) .. Len(wl) : LeavesAt(wl, q, blk[u])
        BY <1>3, <1>5, <2>5, <3>1, <3>3 DEF AllFollowed
      <4>2. PICK q \in (p + 1) .. Len(wl) : LeavesAt(wl, q, blk[u])
        BY <4>1
      <4>3. m + p \in 1 .. Len(more) /\ Enters(more, m + p, c)
        BY <2>3, <3>1, <4>1
      <4>4. q \in 2 .. Len(wl) /\ m + q \in ((m + p) + 1) .. Len(more)
        BY <1>1, <1>6
      <4>5. LeavesAt(more, m + q, blk2[u])
        BY <1>5, <1>6, <3>3, <4>2, <4>4 DEF LeavesAt
      <4> QED  BY <4>3, <4>4, <4>5
    <3> QED  BY <1>5, <3>2, <3>3
  <2> QED  BY <2>4, <2>5 DEF AllFollowed
<1>12. /\ LeftInOrder(fin, num, po)
       /\ \A c \in Block : HasLeft(po, c) <=> num[c] # 0 /\ ~IsOpen(wl, num, num[c])
  BY DEF Searching
<1>13. \A i \in 1 .. Len(po) : /\ po[i] \in Block /\ num2[po[i]] = num[po[i]]
                               /\ num[po[i]] \in 0 .. n /\ ~IsOpen(wl, num, num[po[i]])
  <2> TAKE i \in 1 .. Len(po)
  <2>1. po[i] \in Block /\ HasLeft(po, po[i])
    BY <1>12 DEF LeftInOrder, HasLeft
  <2>2. num[po[i]] # 0 /\ ~IsOpen(wl, num, num[po[i]])
    BY <1>12, <2>1
  <2>3. po[i] # b
    BY <1>2, <2>2
  <2> QED  BY <1>2, <1>5, <2>1, <2>2, <2>3
<1>14. LeftInOrder(fin2, num2, po)
  <2>1. \A i, j \in 1 .. Len(po) : Over(fin2, num2[po[i]], num2[po[j]]) =>
            Over(fin, num[po[i]], num[po[j]])
    BY <1>5, <1>13 DEF Over
  <2> QED  BY <1>12, <2>1 DEF LeftInOrder
<1>15. ASSUME NEW c \in Block
       PROVE  HasLeft(po, c) <=> num2[c] # 0 /\ ~IsOpen(more, num2, num2[c])
  <2>1. CASE c = b
    <3>1. IsOpen(more, num2, num2[c])
      BY <1>5, <1>9, <2>1
    <3>2. ~HasLeft(po, c)
      BY <1>2, <1>12, <2>1
    <3> QED  BY <3>1, <3>2
  <2>2. CASE c # b
    <3>1. num2[c] = num[c] /\ num2[c] # N
      BY <1>2, <1>5, <2>2
    <3> QED  BY <1>9, <1>12, <3>1
  <2> QED  BY <2>1, <2>2
<1> QED  BY <1>4, <1>10, <1>11, <1>14, <1>15 DEF Searching, b, parent, blk2, par2, fin2, num2

(***************************************************************************)
(* What the iterators go through.                                          *)
(***************************************************************************)

\* kept has only elements of T, none twice if s has none twice.
LEMMA KeptPicks ==
    ASSUME NEW U, NEW s \in Seq(U), NEW T
    PROVE  /\ kept(s, T) \in Seq(U)
           /\ \A m \in 1 .. Len(kept(s, T)) :
                 kept(s, T)[m] \in T /\ \E j \in 1 .. Len(s) : kept(s, T)[m] = s[j]
           /\ (\A i, j \in 1 .. Len(s) : s[i] = s[j] => i = j) =>
                 \A i, j \in 1 .. Len(kept(s, T)) : kept(s, T)[i] = kept(s, T)[j] => i = j
<1> DEFINE Eq(f) == KeptUpTo(f, s, T)
           u == CHOOSE f : Eq(f)
           Once == \A i, j \in 1 .. Len(s) : s[i] = s[j] => i = j
           Fine(k, n) == /\ k \in Seq(U)
                         /\ \A m \in 1 .. Len(k) : k[m] \in T /\ \E j \in 1 .. n : k[m] = s[j]
                         /\ Once => \A i, j \in 1 .. Len(k) : k[i] = k[j] => i = j
           C == {i \in Nat : i <= Len(s) /\ ~Fine(u[i], i)}
<1>1. kept(s, T) = u[Len(s)]
  BY Zenon DEF kept, KeptUpTo
<1>2. Eq(u)
  <2>1. \E f : Eq(f)
    BY KeptExists
  <2> HIDE DEF Eq
  <2> QED  BY <2>1
<1> HIDE DEF u
<1>3. Len(s) \in Nat
  OBVIOUS
<1>4. u[0] = <<>>
  BY <1>2, <1>3 DEF KeptUpTo
<1>5. C = {}
  <2> SUFFICES ASSUME C # {} PROVE FALSE
    OBVIOUS
  <2>1. PICK n \in C : \A m \in C : n <= m
    <3> HIDE DEF Fine
    <3> QED  BY NatMin
  <2>2. n \in Nat /\ n <= Len(s) /\ ~Fine(u[n], n)
    <3> HIDE DEF Fine
    <3> QED  OBVIOUS
  <2>3. n # 0
    <3>1. Fine(<<>>, 0)
      OBVIOUS
    <3> HIDE DEF Fine
    <3> QED  BY <1>4, <2>2, <3>1
  <2>4. n - 1 \in Nat /\ n - 1 <= Len(s) /\ Fine(u[n - 1], n - 1)
    <3> HIDE DEF Fine
    <3> QED  BY <1>3, <2>1, <2>2, <2>3
  <2>5. n \in 0 .. Len(s) /\ n \in 1 .. Len(s)
    BY <1>3, <2>2, <2>3
  <2>6. u[n] = IF s[n] \in T THEN Append(u[n - 1], s[n]) ELSE u[n - 1]
    BY <1>2, <2>3, <2>5 DEF KeptUpTo
  <2> DEFINE v == u[n - 1]
  <2>7. /\ v \in Seq(U)
        /\ \A m \in 1 .. Len(v) : v[m] \in T /\ \E j \in 1 .. (n - 1) : v[m] = s[j]
        /\ Once => \A i, j \in 1 .. Len(v) : v[i] = v[j] => i = j
    BY <2>4
  <2> HIDE DEF v, Once
  <2>8. CASE s[n] \notin T
    <3>1. u[n] = v
      BY <2>6, <2>8 DEF v
    <3>2. \A m \in 1 .. Len(v) : v[m] \in T /\ \E j \in 1 .. n : v[m] = s[j]
      BY <2>2, <2>7
    <3>3. Fine(v, n)
      BY <2>7, <3>2
    <3> HIDE DEF Fine
    <3> QED  BY <2>2, <3>1, <3>3
  <2>9. CASE s[n] \in T
    <3> DEFINE w == Append(v, s[n])
    <3>1. u[n] = w
      BY <2>6, <2>9 DEF v
    <3>2. /\ w \in Seq(U) /\ Len(w) = Len(v) + 1 /\ Len(v) \in Nat /\ w[Len(v) + 1] = s[n]
          /\ \A i \in 1 .. Len(v) : w[i] = v[i]
          /\ \A i \in 1 .. Len(w) : i \in 1 .. Len(v) \/ i = Len(v) + 1
      BY <2>5, <2>7
    <3> HIDE DEF w
    <3>3. \A m \in 1 .. Len(w) : w[m] \in T /\ \E j \in 1 .. n : w[m] = s[j]
      <4> TAKE m \in 1 .. Len(w)
      <4>1. CASE m = Len(v) + 1
        BY <2>5, <2>9, <3>2, <4>1
      <4>2. CASE m \in 1 .. Len(v)
        <5>1. w[m] = v[m] /\ v[m] \in T /\ \E j \in 1 .. (n - 1) : v[m] = s[j]
          BY <2>7, <3>2, <4>2
        <5>2. \A j \in 1 .. (n - 1) : j \in 1 .. n
          BY <2>2
        <5> QED  BY <5>1, <5>2
      <4> QED  BY <3>2, <4>1, <4>2
    <3>4. ASSUME Once, NEW i \in 1 .. Len(w), NEW j \in 1 .. Len(w), w[i] = w[j] PROVE i = j
      <4>1. \A m \in 1 .. Len(v) : v[m] # s[n]
        <5> TAKE m \in 1 .. Len(v)
        <5>1. PICK l \in 1 .. (n - 1) : v[m] = s[l]
          BY <2>7
        <5>2. l \in 1 .. Len(s) /\ l # n
          BY <2>5
        <5> QED  BY <2>5, <3>4, <5>1, <5>2 DEF Once
      <4>2. \A m \in 1 .. Len(v) : w[m] # s[n]
        BY <3>2, <4>1
      <4>3. CASE i \in 1 .. Len(v) /\ j \in 1 .. Len(v)
        <5>1. v[i] = v[j]
          BY <3>2, <3>4, <4>3
        <5> QED  BY <2>7, <3>4, <4>3, <5>1
      <4>4. CASE i = Len(v) + 1
        <5>1. w[j] = s[n]
          BY <3>2, <3>4, <4>4
        <5> QED  BY <3>2, <4>2, <4>4, <5>1
      <4>5. CASE j = Len(v) + 1
        <5>1. w[i] = s[n]
          BY <3>2, <3>4, <4>5
        <5> QED  BY <3>2, <4>2, <4>5, <5>1
      <4> QED  BY <3>2, <4>3, <4>4, <4>5
    <3>5. Fine(w, n)
      BY <3>2, <3>3, <3>4
    <3> HIDE DEF Fine
    <3> QED  BY <2>2, <3>1, <3>5
  <2> QED  BY <2>8, <2>9
<1>6. Fine(u[Len(s)], Len(s))
  <2> HIDE DEF Fine
  <2> QED  BY <1>3, <1>5
<1> QED  BY <1>1, <1>6

\* In a finite set of edges with different keys each has a rank of its own, and
\* every rank below their number is taken.
LEMMA KeyRanks ==
    ASSUME NEW S, IsFiniteSet(S), \A e \in S : e.inst \in Nat,
           \A d, e \in S : d.inst = e.inst => d = e
    PROVE  LET rank(e) == Cardinality({d \in S : d.inst < e.inst})
           IN  /\ \A d, e \in S : rank(d) = rank(e) => d = e
               /\ \A e \in S : rank(e) \in 0 .. (Cardinality(S) - 1)
               /\ \A i \in 0 .. (Cardinality(S) - 1) : \E e \in S : rank(e) = i
<1> DEFINE below(e) == {d \in S : d.inst < e.inst}
           rank(e) == Cardinality(below(e))
           c == Cardinality(S)
<1>1. c \in Nat
  BY FS_CardinalityType
<1>2. \A e \in S : IsFiniteSet(below(e)) /\ rank(e) \in Nat /\ rank(e) <= c - 1
  <2> TAKE e \in S
  <2>1. IsFiniteSet(S \ {e}) /\ Cardinality(S \ {e}) = c - 1
    BY FS_RemoveElement
  <2>2. below(e) \in SUBSET (S \ {e})
    OBVIOUS
  <2>3. IsFiniteSet(below(e)) /\ rank(e) <= c - 1
    <3> HIDE DEF below
    <3> QED  BY <2>1, <2>2, FS_Subset
  <2> HIDE DEF below
  <2> QED  BY <2>3, FS_CardinalityType
<1>3. ASSUME NEW d \in S, NEW e \in S, d.inst < e.inst PROVE rank(d) < rank(e)
  <2>1. below(d) \cup {d} \in SUBSET below(e) /\ d \notin below(d)
    BY <1>3
  <2> HIDE DEF below
  <2>2. IsFiniteSet(below(d)) /\ IsFiniteSet(below(e)) /\ rank(d) \in Nat /\ rank(e) \in Nat
    BY <1>2
  <2>3. Cardinality(below(d) \cup {d}) = rank(d) + 1
    BY <2>1, <2>2, FS_AddElement
  <2>4. Cardinality(below(d) \cup {d}) <= rank(e)
    BY <2>1, <2>2, FS_Subset
  <2> QED  BY <2>2, <2>3, <2>4
<1> HIDE DEF below
<1>4. ASSUME NEW d \in S, NEW e \in S, rank(d) = rank(e) PROVE d = e
  <2>1. rank(d) \in Nat /\ rank(e) \in Nat
    BY <1>2
  <2>2. ~(d.inst < e.inst) /\ ~(e.inst < d.inst)
    BY <1>3, <1>4, <2>1
  <2>3. d.inst = e.inst
    BY <2>2
  <2> QED  BY <2>3
<1> DEFINE f == [e \in S |-> rank(e)]
           R == 0 .. (c - 1)
<1>5. \A e \in S : rank(e) \in R
  BY <1>1, <1>2
<1>6. IsFiniteSet(R) /\ Cardinality(R) = c
  BY <1>1, FS_Interval
<1>7. f \in Injection(S, R)
  BY <1>4, <1>5 DEF Injection, IsInjective
<1>8. f \in Surjection(S, R)
  <2> HIDE DEF f, R
  <2> QED  BY <1>6, <1>7, FS_Injection
<1>9. \A i \in R : \E e \in S : rank(e) = i
  <2> TAKE i \in R
  <2>1. \E e \in S : f[e] = i
    <3> HIDE DEF f, R
    <3> QED  BY <1>8 DEF Surjection
  <2> QED  BY <2>1
<1> QED  BY <1>4, <1>5, <1>9 DEF below

\* The layout has every block once.
LEMMA LayoutRange ==
    /\ layout \in Seq(Block) /\ Len(layout) = NumBlocks /\ NumBlocks \in Nat
    /\ \A d \in Block : d + 1 \in 1 .. NumBlocks /\ layout[d + 1] = d
<1>1. \A i \in 1 .. NumBlocks : i - 1 \in Block
  BY FlowAssumption DEF Block
<1>2. layout \in [1 .. NumBlocks -> Block]
  BY <1>1 DEF layout
<1>3. \A d \in Block : d + 1 \in 1 .. NumBlocks /\ layout[d + 1] = d
  BY FlowAssumption DEF layout, Block
<1> QED  BY <1>2, <1>3, FlowAssumption

\* kept, of the layout, has the blocks of T.
LEMMA LayoutKept ==
    ASSUME NEW T, T \subseteq Block
    PROVE  /\ kept(layout, T) \in Seq(Block)
           /\ \A b : b \in T <=> \E m \in 1 .. Len(kept(layout, T)) : kept(layout, T)[m] = b
<1>1. layout \in Seq(Block) /\ \A b \in Block : \E j \in 1 .. Len(layout) : layout[j] = b
  BY LayoutRange
<1>2. \A j \in 1 .. Len(layout) : layout[j] \in T =>
         \E m \in 1 .. Len(kept(layout, T)) : kept(layout, T)[m] = layout[j]
  BY <1>1, KeptKeeps
<1>3. kept(layout, T) \in Seq(Block) /\ \A m \in 1 .. Len(kept(layout, T)) : kept(layout, T)[m] \in T
  BY <1>1, KeptPicks
<1> QED  BY <1>1, <1>2, <1>3

\* No two blocks have the same instruction for terminator.
InstsDistinct(f) ==
    /\ \A b \in Block : f.inst[b] < f.made
    /\ \A b, c \in Block : f.inst[b] = f.inst[c] => b = c

\* pred_iter and succ_iter go through the predecessors and successors.
LEMMA IteratorRanges ==
    ASSUME FuncOK(func), GraphOf(cfg, func, Block), InstsDistinct(func), NEW b \in Block
    PROVE  /\ pred_iter(b) \in Seq(Block)
           /\ \A p \in Block :
                 b \in Targets(func, p) <=> \E i \in 1 .. Len(pred_iter(b)) : pred_iter(b)[i] = p
           /\ succ_iter(b) \in Seq(Block)
           /\ \A d \in Block :
                 d \in Targets(func, b) <=> \E i \in 1 .. Len(succ_iter(b)) : succ_iter(b)[i] = d
<1> DEFINE S == cfg.predecessors[b]
           rank(e) == Cardinality({d \in S : d.inst < e.inst})
           c == Cardinality(S)
           nth(i) == CHOOSE e \in S : rank(e) = i - 1
<1>1. S = {EdgeFrom(func, p) : p \in {q \in Block : b \in Targets(func, q)}}
  BY DEF GraphOf
<1>2. \A p \in Block : EdgeFrom(func, p).inst = func.inst[p] /\ EdgeFrom(func, p).block = p
                       /\ func.inst[p] \in Nat
  BY DEF EdgeFrom, FuncOK
<1> HIDE DEF S
<1>3. IsFiniteSet(S)
  <2> DEFINE P == {q \in Block : b \in Targets(func, q)}
             g == [p \in P |-> EdgeFrom(func, p)]
  <2>1. IsFiniteSet(Block)
    BY FS_Interval, FlowAssumption DEF Block
  <2>2. IsFiniteSet(P)
    BY <2>1, FS_Subset
  <2>3. g \in Surjection(P, S)
    BY <1>1 DEF Surjection
  <2> HIDE DEF P, g
  <2> QED  BY <2>2, <2>3, FS_Surjection
<1>4. \A e \in S : e.inst \in Nat /\ e.block \in Block /\ e = EdgeFrom(func, e.block)
                   /\ b \in Targets(func, e.block)
  BY <1>1, <1>2
<1>5. \A d, e \in S : d.inst = e.inst => d = e
  BY <1>2, <1>4 DEF InstsDistinct
<1>6. /\ \A d, e \in S : rank(d) = rank(e) => d = e
      /\ \A e \in S : rank(e) \in 0 .. (c - 1)
      /\ \A i \in 0 .. (c - 1) : \E e \in S : rank(e) = i
  <2>1. \A e \in S : e.inst \in Nat
    BY <1>4
  <2> QED  BY <1>3, <1>5, <2>1, KeyRanks
<1>7. c \in Nat
  BY <1>3, FS_CardinalityType
<1>8. pred_iter(b) = [i \in 1 .. c |-> nth(i).block]
  BY Zenon DEF pred_iter, S
<1> HIDE DEF rank, c
<1>9. \A i \in 1 .. c : nth(i) \in S /\ rank(nth(i)) = i - 1
  <2> TAKE i \in 1 .. c
  <2>1. i - 1 \in 0 .. (c - 1)
    BY <1>7
  <2>2. \E e \in S : rank(e) = i - 1
    BY <1>6, <2>1
  <2> QED  BY <2>2
<1>10. \A e \in S : \E i \in 1 .. c : nth(i) = e
  <2> TAKE e \in S
  <2>1. rank(e) + 1 \in 1 .. c /\ rank(e) = (rank(e) + 1) - 1
    BY <1>6, <1>7
  <2>2. nth(rank(e) + 1) \in S /\ rank(nth(rank(e) + 1)) = rank(e)
    BY <1>9, <2>1
  <2>3. nth(rank(e) + 1) = e
    <3> HIDE DEF nth
    <3> QED  BY <1>6, <2>2
  <2> QED  BY <2>1, <2>3
<1> HIDE DEF nth
<1>11. pred_iter(b) \in Seq(Block) /\ Len(pred_iter(b)) = c
  <2>1. \A i \in 1 .. c : nth(i).block \in Block
    BY <1>4, <1>9
  <2>2. [i \in 1 .. c |-> nth(i).block] \in [1 .. c -> Block]
    BY <2>1
  <2>3. pred_iter(b) \in [1 .. c -> Block]
    BY <1>8, <2>2
  <2> QED  BY <1>7, <2>3
<1>12. ASSUME NEW p \in Block
       PROVE  b \in Targets(func, p) <=> \E i \in 1 .. Len(pred_iter(b)) : pred_iter(b)[i] = p
  <2>1. ASSUME b \in Targets(func, p)
        PROVE  \E i \in 1 .. Len(pred_iter(b)) : pred_iter(b)[i] = p
    <3>1. EdgeFrom(func, p) \in S
      BY <1>1, <2>1
    <3>2. PICK i \in 1 .. c : nth(i) = EdgeFrom(func, p)
      BY <1>10, <3>1
    <3>3. pred_iter(b)[i] = p
      BY <1>2, <1>8, <3>2
    <3> QED  BY <1>11, <3>3
  <2>2. ASSUME NEW i \in 1 .. Len(pred_iter(b)), pred_iter(b)[i] = p PROVE b \in Targets(func, p)
    <3>1. i \in 1 .. c /\ nth(i) \in S
      BY <1>9, <1>11
    <3>2. nth(i).block = p
      BY <1>8, <2>2, <3>1
    <3> QED  BY <1>4, <3>1, <3>2
  <2> QED  BY <2>1, <2>2
<1>13. cfg.successors[b] = Targets(func, b) /\ Targets(func, b) \subseteq Block
  BY TargetsType DEF GraphOf
<1>14. /\ succ_iter(b) \in Seq(Block)
       /\ \A d : d \in Targets(func, b) <=> \E i \in 1 .. Len(succ_iter(b)) : succ_iter(b)[i] = d
  BY <1>13, LayoutKept DEF succ_iter
<1> QED  BY <1>11, <1>12, <1>14

\* A sequence reversed has the same elements.
LEMMA ReverseRange ==
    ASSUME NEW U, NEW s \in Seq(U)
    PROVE  /\ Reverse(s) \in Seq(U) /\ Len(Reverse(s)) = Len(s)
           /\ \A i \in 1 .. Len(s) : Len(s) - i + 1 \in 1 .. Len(s)
                                     /\ Reverse(s)[i] = s[Len(s) - i + 1]
           /\ \A x : (\E i \in 1 .. Len(s) : s[i] = x) <=>
                     (\E i \in 1 .. Len(Reverse(s)) : Reverse(s)[i] = x)
<1> DEFINE n == Len(s)
           r == [i \in 1 .. n |-> s[(n - i) + 1]]
<1>1. Reverse(s) = r
  BY DEF Reverse
<1>2. n \in Nat /\ \A i \in 1 .. n : n - i + 1 \in 1 .. n /\ n - (n - i + 1) + 1 = i /\ s[i] \in U
  OBVIOUS
<1> HIDE DEF n
<1>3. r \in [1 .. n -> U]
  BY <1>2
<1>4. r \in Seq(U) /\ Len(r) = n /\ \A i \in 1 .. n : r[i] = s[n - i + 1]
  BY <1>2, <1>3
<1> HIDE DEF r
<1>5. ASSUME NEW i \in 1 .. n PROVE \E j \in 1 .. n : r[j] = s[i]
  <2>1. r[n - i + 1] = s[i]
    BY <1>2, <1>4
  <2> QED  BY <1>2, <2>1
<1>6. ASSUME NEW i \in 1 .. n PROVE \E j \in 1 .. n : s[j] = r[i]
  BY <1>2, <1>4
<1>7. \A x : (\E i \in 1 .. n : s[i] = x) <=> (\E i \in 1 .. n : r[i] = x)
  BY <1>5, <1>6
<1> QED  BY <1>1, <1>2, <1>4, <1>7 DEF n

\* What the search asks the graph, in either direction.
LEMMA GraphRanges ==
    ASSUME FuncOK(func), GraphOf(cfg, func, Block), InstsDistinct(func)
    PROVE  /\ \A b \in Block :
                 /\ graph_successors(b) \in Seq(Block)
                 /\ \A c \in Block : Flow(func, direction, b, c) <=>
                       \E i \in 1 .. Len(graph_successors(b)) : graph_successors(b)[i] = c
                 /\ graph_predecessors(b) \in Seq(Block)
                 /\ \A p \in Block : Flow(func, direction, p, b) <=>
                       \E i \in 1 .. Len(graph_predecessors(b)) : graph_predecessors(b)[i] = p
           /\ \A dir :
                 /\ roots(dir) \in Seq(Block)
                 /\ \A b \in Block : RootOf(func, dir, b) <=>
                       \E i \in 1 .. Len(roots(dir)) : roots(dir)[i] = b
<1>1. ASSUME NEW b \in Block
      PROVE  /\ graph_successors(b) \in Seq(Block)
             /\ \A c \in Block : Flow(func, direction, b, c) <=>
                   \E i \in 1 .. Len(graph_successors(b)) : graph_successors(b)[i] = c
             /\ graph_predecessors(b) \in Seq(Block)
             /\ \A p \in Block : Flow(func, direction, p, b) <=>
                   \E i \in 1 .. Len(graph_predecessors(b)) : graph_predecessors(b)[i] = p
  <2>1. /\ pred_iter(b) \in Seq(Block)
        /\ \A p \in Block :
              b \in Targets(func, p) <=> \E i \in 1 .. Len(pred_iter(b)) : pred_iter(b)[i] = p
        /\ succ_iter(b) \in Seq(Block)
        /\ \A d \in Block :
              d \in Targets(func, b) <=> \E i \in 1 .. Len(succ_iter(b)) : succ_iter(b)[i] = d
    BY IteratorRanges
  <2>2. CASE direction = "forward"
    <3>1. /\ dests(func, b) \in Seq(Block \ {0})
          /\ Targets(func, b) = {dests(func, b)[i] : i \in 1 .. Len(dests(func, b))}
      BY TargetsType
    <3>2. dests(func, b) \in Seq(Block)
      BY <3>1
    <3>3. graph_successors(b) = dests(func, b) /\ graph_predecessors(b) = pred_iter(b)
      BY <2>2 DEF graph_successors, graph_predecessors
    <3>4. \A c \in Block : Flow(func, direction, b, c) <=>
             \E i \in 1 .. Len(dests(func, b)) : dests(func, b)[i] = c
      BY <2>2, <3>1 DEF Flow
    <3>5. \A p \in Block : Flow(func, direction, p, b) <=> b \in Targets(func, p)
      BY <2>2 DEF Flow
    <3> QED  BY <2>1, <3>2, <3>3, <3>4, <3>5
  <2>3. CASE direction # "forward"
    <3>1. graph_successors(b) = Reverse(pred_iter(b)) /\ graph_predecessors(b) = succ_iter(b)
      BY <2>3 DEF graph_successors, graph_predecessors
    <3>2. \A p \in Block : /\ Flow(func, direction, b, p) <=> b \in Targets(func, p)
                           /\ Flow(func, direction, p, b) <=> p \in Targets(func, b)
      BY <2>3 DEF Flow
    <3>3. /\ Reverse(pred_iter(b)) \in Seq(Block)
          /\ \A x : (\E i \in 1 .. Len(pred_iter(b)) : pred_iter(b)[i] = x) <=>
                    (\E i \in 1 .. Len(Reverse(pred_iter(b))) : Reverse(pred_iter(b))[i] = x)
      <4> DEFINE s == pred_iter(b)
      <4>1. s \in Seq(Block)
        BY <2>1
      <4> HIDE DEF s
      <4>2. /\ Reverse(s) \in Seq(Block)
            /\ \A x : (\E i \in 1 .. Len(s) : s[i] = x) <=>
                      (\E i \in 1 .. Len(Reverse(s)) : Reverse(s)[i] = x)
        BY <4>1, ReverseRange
      <4> QED  BY <4>2 DEF s
    <3> QED  BY <2>1, <3>1, <3>2, <3>3
  <2> QED  BY <2>2, <2>3
<1>2. ASSUME NEW dir
      PROVE  /\ roots(dir) \in Seq(Block)
             /\ \A b \in Block : RootOf(func, dir, b) <=>
                   \E i \in 1 .. Len(roots(dir)) : roots(dir)[i] = b
  <2>1. CASE dir = "forward"
    <3>1. roots(dir) = <<0>> /\ 0 \in Block
      BY <2>1, FlowAssumption DEF roots, Block
    <3>2. <<0>> \in Seq(Block) /\ Len(<<0>>) = 1 /\ <<0>>[1] = 0 /\ 1 \in 1 .. 1
          /\ \A i \in 1 .. 1 : i = 1
      BY <3>1
    <3> QED  BY <2>1, <3>1, <3>2 DEF RootOf
  <2>2. CASE dir # "forward"
    <3> DEFINE T == {b \in Block : cfg.successors[b] = {}}
    <3>1. roots(dir) = kept(layout, T)
      BY <2>2 DEF roots
    <3>2. \A b \in Block : cfg.successors[b] = Targets(func, b)
      BY DEF GraphOf
    <3>3. \A b \in Block : RootOf(func, dir, b) <=> b \in T
      BY <2>2, <3>2 DEF RootOf
    <3>4. T \subseteq Block
      OBVIOUS
    <3> HIDE DEF T
    <3>5. /\ kept(layout, T) \in Seq(Block)
          /\ \A b : b \in T <=> \E m \in 1 .. Len(kept(layout, T)) : kept(layout, T)[m] = b
      BY <3>4, LayoutKept
    <3> QED  BY <3>1, <3>3, <3>5
  <2> QED  BY <2>1, <2>2
<1> QED  BY <1>1, <1>2

(***************************************************************************)
(* Path compression.                                                       *)
(***************************************************************************)

\* paths solves the recursion of eval_path.
PathsOf(paths, st, last_linked) ==
    paths = [u \in DOMAIN st |-> IF st[u].ancestor < last_linked THEN {u}
                                 ELSE {u} \cup paths[st[u].ancestor]]

\* There is a solution.
LEMMA PathExists ==
    ASSUME NEW st \in Seq(TreeNode), \A u \in 1 .. Len(st) : st[u].ancestor < u,
           NEW last_linked \in Nat \ {0}
    PROVE  \E paths : PathsOf(paths, st, last_linked)
<1> DEFINE n == Len(st)
           P(m, h) == h = [u \in 1 .. m |-> IF st[u].ancestor < last_linked THEN {u}
                                            ELSE {u} \cup h[st[u].ancestor]]
           C == {m \in Nat : m <= n /\ \A h : ~P(m, h)}
<1>1. n \in Nat /\ \A u \in 1 .. n : st[u].ancestor \in Nat /\ st[u].ancestor < u
  <2>1. n \in Nat /\ \A u \in 1 .. n : st[u] \in TreeNode
    OBVIOUS
  <2>2. \A u \in 1 .. n : st[u].ancestor \in Nat
    BY <2>1 DEF TreeNode
  <2> QED  BY <2>1, <2>2
<1>2. C = {}
  <2> SUFFICES ASSUME C # {} PROVE FALSE
    OBVIOUS
  <2>1. PICK m \in C : \A k \in C : m <= k
    <3> HIDE DEF P
    <3> QED  BY NatMin
  <2>2. m \in Nat /\ m <= n /\ \A h : ~P(m, h)
    <3> HIDE DEF P
    <3> QED  OBVIOUS
  <2>3. CASE m = 0
    <3> DEFINE H == [u \in 1 .. 0 |-> {u}]
    <3>1. P(0, H)
      <4>1. 1 .. 0 = {}
        OBVIOUS
      <4> QED  BY <4>1
    <3> QED  BY <2>2, <2>3, <3>1
  <2>4. CASE m # 0
    <3>1. m - 1 \in Nat /\ m - 1 <= n /\ m - 1 \notin C
      <4> HIDE DEF C
      <4> QED  BY <1>1, <2>1, <2>2, <2>4
    <3>2. PICK h : P(m - 1, h)
      <4> HIDE DEF P
      <4> QED  BY <3>1
    <3> DEFINE top == IF st[m].ancestor < last_linked THEN {m} ELSE {m} \cup h[st[m].ancestor]
               H == [u \in 1 .. m |-> IF u = m THEN top ELSE h[u]]
    <3> HIDE DEF top
    <3>3. ASSUME NEW u \in 1 .. m
          PROVE  H[u] = IF st[u].ancestor < last_linked THEN {u} ELSE {u} \cup H[st[u].ancestor]
      <4>1. ~(st[u].ancestor < last_linked) => st[u].ancestor \in 1 .. (m - 1)
        BY <1>1, <2>2
      <4>2. ~(st[u].ancestor < last_linked) => H[st[u].ancestor] = h[st[u].ancestor]
        BY <2>2, <4>1
      <4>3. CASE u = m
        <5>1. H[u] = top
          BY <4>3
        <5> HIDE DEF H
        <5> QED  BY <4>2, <4>3, <5>1 DEF top
      <4>4. CASE u # m
        <5>1. u \in 1 .. (m - 1) /\ H[u] = h[u]
          BY <2>2, <4>4
        <5>2. h[u] = IF st[u].ancestor < last_linked THEN {u} ELSE {u} \cup h[st[u].ancestor]
          BY <3>2, <5>1
        <5> HIDE DEF H
        <5> QED  BY <4>2, <5>1, <5>2
      <4> QED  BY <4>3, <4>4
    <3>4. H = [u \in 1 .. m |-> H[u]]
      OBVIOUS
    <3>5. P(m, H)
      <4> HIDE DEF H
      <4> QED  BY <3>3, <3>4
    <3> QED  BY <2>2, <3>5
  <2> QED  BY <2>3, <2>4
<1>3. n \notin C
  <2> HIDE DEF C
  <2> QED  BY <1>2
<1>4. PICK h : P(n, h)
  <2> HIDE DEF P
  <2> QED  BY <1>1, <1>3
<1>5. DOMAIN st = 1 .. n
  OBVIOUS
<1> QED  BY <1>4, <1>5 DEF PathsOf

\* The path from v follows the ancestors to its least node, the root, whose
\* ancestor is not linked.
LEMMA PathFacts ==
    ASSUME NEW st \in Seq(TreeNode), \A u \in 1 .. Len(st) : st[u].ancestor < u,
           NEW last_linked \in Nat \ {0}, NEW v \in 1 .. Len(st)
    PROVE  LET path == eval_path(st, v, last_linked)
           IN  /\ path \subseteq 1 .. v /\ v \in path /\ Min(path) \in path
               /\ \A y \in path : Min(path) <= y
               /\ st[Min(path)].ancestor < last_linked
               /\ \A y \in path \ {Min(path)} : st[y].ancestor \in path /\ last_linked <= st[y].ancestor
               /\ st[v].ancestor < last_linked => path = {v}
               /\ \A Q : v \in Q /\ (\A y \in Q : last_linked <= st[y].ancestor => st[y].ancestor \in Q)
                       => path \subseteq Q
<1> DEFINE n == Len(st)
           Closed(Q) == \A y \in Q : last_linked <= st[y].ancestor => st[y].ancestor \in Q
           Eq(h) == PathsOf(h, st, last_linked)
           p == CHOOSE h : Eq(h)
           Good(u) == /\ p[u] \subseteq 1 .. u /\ u \in p[u]
                      /\ \A Q : u \in Q /\ Closed(Q) => p[u] \subseteq Q
                      /\ \E r \in p[u] : /\ \A y \in p[u] : r <= y
                                         /\ st[r].ancestor < last_linked
                                         /\ \A y \in p[u] \ {r} : st[y].ancestor \in p[u]
                                                                  /\ last_linked <= st[y].ancestor
           C == {u \in Nat : u \in 1 .. n /\ ~Good(u)}
<1>1. eval_path(st, v, last_linked) = p[v]
  BY Zenon DEF eval_path, PathsOf
<1>2. Eq(p)
  <2>1. \E h : Eq(h)
    BY PathExists
  <2> HIDE DEF Eq
  <2> QED  BY <2>1
<1> HIDE DEF p
<1>3. n \in Nat /\ \A u \in 1 .. n : st[u].ancestor \in Nat /\ st[u].ancestor < u
  <2>1. n \in Nat /\ \A u \in 1 .. n : st[u] \in TreeNode
    OBVIOUS
  <2>2. \A u \in 1 .. n : st[u].ancestor \in Nat
    BY <2>1 DEF TreeNode
  <2> QED  BY <2>1, <2>2
<1>4. \A u \in 1 .. n : p[u] = IF st[u].ancestor < last_linked THEN {u}
                               ELSE {u} \cup p[st[u].ancestor]
  <2>1. DOMAIN st = 1 .. n
    OBVIOUS
  <2> HIDE DEF n
  <2> QED  BY <1>2, <2>1 DEF PathsOf
<1>5. C = {}
  <2> SUFFICES ASSUME C # {} PROVE FALSE
    OBVIOUS
  <2>1. PICK u \in C : \A m \in C : u <= m
    <3> HIDE DEF Good
    <3> QED  BY NatMin
  <2>2. u \in 1 .. n /\ ~Good(u)
    <3> HIDE DEF Good
    <3> QED  OBVIOUS
  <2>3. CASE st[u].ancestor < last_linked
    <3>1. p[u] = {u}
      BY <1>4, <2>2, <2>3
    <3>2. Good(u)
      BY <1>3, <2>2, <2>3, <3>1
    <3> QED  BY <2>2, <3>2
  <2>4. CASE ~(st[u].ancestor < last_linked)
    <3> DEFINE a == st[u].ancestor
    <3>1. a \in 1 .. n /\ a < u /\ last_linked <= a
      BY <1>3, <2>2, <2>4
    <3>2. p[u] = {u} \cup p[a]
      BY <1>4, <2>2, <2>4
    <3>3. Good(a)
      <4>1. a \notin C
        <5> HIDE DEF C
        <5> QED  BY <1>3, <2>1, <2>2, <3>1
      <4> HIDE DEF Good
      <4> QED  BY <1>3, <3>1, <4>1
    <3> DEFINE q == p[a]
               s == p[u]
    <3>4. q \subseteq 1 .. a /\ a \in q /\ \A Q : a \in Q /\ Closed(Q) => q \subseteq Q
      BY <3>3
    <3>5. PICK r \in q : /\ \A y \in q : r <= y
                         /\ st[r].ancestor < last_linked
                         /\ \A y \in q \ {r} : st[y].ancestor \in q /\ last_linked <= st[y].ancestor
      BY <3>3
    <3>6. s = {u} \cup q
      BY <3>2
    <3>7. Good(u) <=> /\ s \subseteq 1 .. u /\ u \in s
                      /\ \A Q : u \in Q /\ Closed(Q) => s \subseteq Q
                      /\ \E z \in s : /\ \A y \in s : z <= y
                                      /\ st[z].ancestor < last_linked
                                      /\ \A y \in s \ {z} : st[y].ancestor \in s
                                                            /\ last_linked <= st[y].ancestor
      OBVIOUS
    <3> HIDE DEF q, s, Good
    <3> HIDE DEF a
    <3>8. s \subseteq 1 .. u /\ u \in s
      <4>1. \A y \in q : y \in 1 .. u
        BY <1>3, <2>2, <3>1, <3>4
      <4> QED  BY <1>3, <2>2, <3>6, <4>1
    <3>9. \A y \in s : r <= y
      <4>1. r <= u
        BY <1>3, <2>2, <3>1, <3>4
      <4> QED  BY <3>5, <3>6, <4>1
    <3>10. \A y \in s \ {r} : st[y].ancestor \in s /\ last_linked <= st[y].ancestor
      BY <3>1, <3>4, <3>5, <3>6 DEF a
    <3>11. \A Q : u \in Q /\ Closed(Q) => s \subseteq Q
      <4> TAKE Q
      <4> HAVE u \in Q /\ Closed(Q)
      <4>1. a \in Q
        BY <3>1 DEF a
      <4> HIDE DEF Closed
      <4> QED  BY <3>4, <3>6, <4>1
    <3> QED  BY <2>2, <3>5, <3>6, <3>7, <3>8, <3>9, <3>10, <3>11
  <2> QED  BY <2>3, <2>4
<1>6. Good(v)
  <2> HIDE DEF Good
  <2> QED  BY <1>3, <1>5
<1> DEFINE path == p[v]
<1>7. path \subseteq 1 .. v /\ v \in path /\ \A Q : v \in Q /\ Closed(Q) => path \subseteq Q
  BY <1>6
<1>8. PICK r \in path : /\ \A y \in path : r <= y
                        /\ st[r].ancestor < last_linked
                        /\ \A y \in path \ {r} : st[y].ancestor \in path
                                                 /\ last_linked <= st[y].ancestor
  BY <1>6
<1>9. st[v].ancestor < last_linked => path = {v}
  BY <1>4
<1> HIDE DEF path
<1>10. Min(path) = r
  <2>1. Min(path) \in path /\ \A y \in path : Min(path) <= y
    BY <1>8 DEF Min
  <2>2. \A y \in path : y \in Nat
    BY <1>7
  <2> QED  BY <1>8, <2>1, <2>2
<1> QED  BY <1>1, <1>7, <1>8, <1>9, <1>10 DEF path

\* The spanning tree with the nodes from n down to w + 1 linked: each has an
\* ancestor, up to which the path has linked nodes only, and as its label the
\* least semidominator on that path. The other nodes are as the search left them.
Linked(n, par, fin, blk, st, w) ==
    /\ st \in Seq(TreeNode) /\ Len(st) = n /\ w \in 0 .. n
    /\ \A u \in 1 .. n : st[u].block = blk[u] /\ st[u].idom = par[u]
    /\ \A u \in 1 .. w : st[u].ancestor = par[u] /\ st[u].label = u
    /\ \A u \in (w + 1) .. n :
          /\ st[u].ancestor < u /\ Over(fin, st[u].ancestor, u)
          /\ \A x \in 1 .. n : st[u].ancestor < x /\ Over(fin, x, u) =>
                w < x /\ st[u].label <= st[x].semi
          /\ \E x \in 1 .. n : st[u].ancestor < x /\ Over(fin, x, u) /\ st[u].label = st[x].semi

\* What eval, of the node v, makes of the tree st: the label of v becomes the
\* least semidominator of the linked nodes over it.
Evaluated(n, fin, st, w, v, r) ==
    /\ \A x \in 1 .. n : r[x].semi = st[x].semi
    /\ v <= w => r[v].label = v
    /\ w < v => /\ \A x \in 1 .. n : w < x /\ Over(fin, x, v) => r[v].label <= st[x].semi
                /\ \E x \in 1 .. n : w < x /\ Over(fin, x, v) /\ r[v].label = st[x].semi

\* It keeps the nodes linked as they are.
LEMMA EvalKeeps ==
    ASSUME NEW n, NEW E, NEW par, NEW fin, NEW blk, NEW st, NEW w,
           DfsTree(n, E, par, fin), Linked(n, par, fin, blk, st, w), NEW v \in 1 .. n
    PROVE  /\ Linked(n, par, fin, blk, eval(st, v, w + 1), w)
           /\ Evaluated(n, fin, st, w, v, eval(st, v, w + 1))
<1> DEFINE last == w + 1
           path == eval_path(st, v, last)
           top == Min(path)
           a == st[top].ancestor
           low(u) == Min({st[x].label : x \in {y \in path : y <= u}})
           r == eval(st, v, last)
<1>1. /\ n \in Nat /\ w \in 0 .. n /\ last \in Nat \ {0} /\ st \in Seq(TreeNode) /\ Len(st) = n
      /\ DOMAIN st = 1 .. n
  BY DEF DfsTree, Linked
<1>2. \A u \in 1 .. n : /\ st[u] \in TreeNode /\ st[u].ancestor \in Nat /\ st[u].label \in Nat
                        /\ st[u].semi \in Nat
  <2>1. \A u \in 1 .. n : st[u] \in TreeNode
    BY <1>1
  <2> QED  BY <2>1 DEF TreeNode
<1>3. \A u \in 1 .. n : st[u].ancestor < u /\ st[u].ancestor \in 0 .. n
  <2> TAKE u \in 1 .. n
  <2>1. CASE u \in 1 .. w
    <3>1. st[u].ancestor = par[u] /\ par[u] < u
      BY <2>1 DEF Linked, DfsTree
    <3> QED  BY <1>1, <1>2, <3>1
  <2>2. CASE u \in (w + 1) .. n
    <3>1. st[u].ancestor < u
      BY <2>2 DEF Linked
    <3> QED  BY <1>1, <1>2, <3>1
  <2> QED  BY <1>1, <2>1, <2>2
<1>4. /\ path \subseteq 1 .. v /\ v \in path /\ top \in path
      /\ \A y \in path : top <= y
      /\ a < last
      /\ \A y \in path \ {top} : st[y].ancestor \in path /\ last <= st[y].ancestor
      /\ st[v].ancestor < last => path = {v}
      /\ \A Q : v \in Q /\ (\A y \in Q : last <= st[y].ancestor => st[y].ancestor \in Q)
              => path \subseteq Q
  BY <1>1, <1>3, PathFacts
<1>5. path \subseteq 1 .. n /\ \A y \in path : y <= v
  BY <1>1, <1>4
<1>6. r = [u \in 1 .. n |-> IF u \in path \ {top}
                            THEN [st[u] EXCEPT !.ancestor = a, !.label = low(u)] ELSE st[u]]
  BY <1>1 DEF eval
<1> DEFINE moved(u) == [st[u] EXCEPT !.ancestor = a, !.label = low(u)]
<1>20. /\ DOMAIN r = 1 .. n
       /\ \A u \in 1 .. n : r[u] = IF u \in path \ {top} THEN moved(u) ELSE st[u]
       /\ r = [u \in 1 .. n |-> r[u]]
  <2> HIDE DEF path, top, low, a, moved
  <2>1. r = [u \in 1 .. n |-> IF u \in path \ {top} THEN moved(u) ELSE st[u]]
    BY <1>6, Zenon DEF moved
  <2> HIDE DEF r
  <2> QED  BY <2>1
<1> HIDE DEF moved
<1>7. a \in 0 .. n
  BY <1>3, <1>4, <1>5
<1> HIDE DEF last, path, top, a, r
<1>8. \A u \in path : /\ low(u) \in Nat /\ (\A y \in path : y <= u => low(u) <= st[y].label)
                      /\ \E y \in path : y <= u /\ low(u) = st[y].label
  <2> TAKE u \in path
  <2> DEFINE S == {st[x].label : x \in {y \in path : y <= u}}
  <2>1. S \subseteq Nat /\ st[u].label \in S
    BY <1>2, <1>5
  <2>2. PICK x \in S : \A y \in S : x <= y
    <3> HIDE DEF S
    <3> QED  BY <2>1, NatMin
  <2>3. Min(S) \in S /\ \A y \in S : Min(S) <= y
    <3> HIDE DEF S
    <3> QED  BY <2>2 DEF Min
  <2>4. low(u) = Min(S)
    OBVIOUS
  <2> HIDE DEF low
  <2> QED  BY <2>1, <2>3, <2>4
<1> HIDE DEF low
<1>9. ASSUME NEW u \in 1 .. n
      PROVE  /\ r[u] \in TreeNode /\ r[u].block = st[u].block /\ r[u].semi = st[u].semi
             /\ r[u].idom = st[u].idom
             /\ u \in path \ {top} => r[u].ancestor = a /\ r[u].label = low(u)
             /\ u \notin path \ {top} => r[u] = st[u]
  <2>1. CASE u \in path \ {top}
    <3>1. r[u] = [st[u] EXCEPT !.ancestor = a, !.label = low(u)]
      BY <1>20, <2>1, Zenon DEF moved
    <3>2. a \in Nat /\ low(u) \in Nat
      BY <1>1, <1>7, <1>8, <2>1
    <3>3. r[u] = [block |-> st[u].block, ancestor |-> a, label |-> low(u), semi |-> st[u].semi,
                  idom |-> st[u].idom]
      <4>1. st[u] = [block |-> st[u].block, ancestor |-> st[u].ancestor, label |-> st[u].label,
                     semi |-> st[u].semi, idom |-> st[u].idom]
        BY <1>2 DEF TreeNode
      <4> QED  BY <3>1, <4>1
    <3>4. st[u].block \in Block /\ st[u].semi \in Nat /\ st[u].idom \in Nat
      BY <1>2 DEF TreeNode
    <3> QED  BY <2>1, <3>2, <3>3, <3>4 DEF TreeNode
  <2>2. CASE u \notin path \ {top}
    <3>1. r[u] = st[u]
      BY <1>20, <2>2
    <3> QED  BY <1>2, <2>2, <3>1
  <2> QED  BY <2>1, <2>2
<1>10. r \in Seq(TreeNode) /\ Len(r) = n
  <2>1. r \in [1 .. n -> TreeNode]
    BY <1>9, <1>20
  <2> QED  BY <1>1, <2>1
\* The nodes of a path of more than one node are linked.
<1>11. v <= w => path = {v}
  <2> HAVE v <= w
  <2>1. st[v].ancestor < last
    BY <1>1, <1>3 DEF last
  <2> QED  BY <1>4, <2>1
<1>12. ASSUME w < v
       PROVE  \A y \in path : y \in (w + 1) .. n /\ y \in 1 .. n /\ Over(fin, y, v)
  <2> DEFINE Q == {y \in (w + 1) .. n : Over(fin, y, v)}
  <2>1. v \in Q
    BY <1>1, <1>12, OverChain
  <2>2. ASSUME NEW y \in Q, last <= st[y].ancestor PROVE st[y].ancestor \in Q
    <3>1. y \in 1 .. n /\ y \in (w + 1) .. n /\ Over(fin, y, v)
      BY <1>1
    <3>2. st[y].ancestor \in 0 .. n /\ Over(fin, st[y].ancestor, y)
      BY <1>3, <3>1 DEF Linked
    <3>3. Over(fin, st[y].ancestor, v)
      BY <1>1, <3>1, <3>2, OverChain
    <3> QED  BY <1>1, <2>2, <3>2, <3>3 DEF last
  <2>3. path \subseteq Q
    <3> HIDE DEF Q
    <3> QED  BY <1>4, <2>1, <2>2
  <2> QED  BY <1>1, <2>3
\* Every node between the end of the path and u is on the way of a node of it.
<1>13. ASSUME w < v, NEW u \in path
       PROVE  /\ Over(fin, a, u) /\ a < u
              /\ \A y \in path : y <= u => Over(fin, y, u) /\ a <= st[y].ancestor
              /\ \A x \in 1 .. n : a < x /\ Over(fin, x, u) =>
                    \E y \in path : y <= u /\ Over(fin, x, y) /\ st[y].ancestor < x
  <2>1. /\ u \in 1 .. n /\ top \in 1 .. n /\ v \in 0 .. n /\ top <= u /\ a < top
        /\ Over(fin, top, v) /\ Over(fin, u, v) /\ Over(fin, a, top)
    BY <1>1, <1>3, <1>4, <1>12, <1>13 DEF Linked, a
  <2>2. ASSUME NEW y \in path, y <= u PROVE Over(fin, y, u) /\ a <= st[y].ancestor
    <3>1. Over(fin, y, u)
      BY <1>1, <1>12, <1>13, <2>1, <2>2, OverChain
    <3>2. a <= st[y].ancestor
      <4>1. CASE y = top
        BY <1>1, <1>7, <4>1 DEF a
      <4>2. CASE y # top
        <5>1. last <= st[y].ancestor /\ a < last
          BY <1>4, <2>2, <4>2
        <5>2. a \in Nat /\ last \in Nat /\ st[y].ancestor \in Nat
          BY <1>1, <1>2, <1>5, <1>7, <2>2
        <5> QED  BY <5>1, <5>2
      <4> QED  BY <4>1, <4>2
    <3> QED  BY <3>1, <3>2
  <2>3. Over(fin, a, u) /\ a < u
    <3>1. Over(fin, top, u)
      BY <1>4, <2>1, <2>2
    <3> QED  BY <1>1, <1>7, <2>1, <3>1, OverChain
  <2>4. ASSUME NEW x \in 1 .. n, a < x, Over(fin, x, u)
        PROVE  \E y \in path : y <= u /\ Over(fin, x, y) /\ st[y].ancestor < x
    <3> DEFINE D == {y \in Nat : y \in path /\ x <= y}
    <3>1. u \in D
      BY <1>1, <1>13, <2>1, <2>4 DEF Over
    <3>2. PICK y \in D : \A m \in D : y <= m
      BY <3>1, NatMin
    <3>3. y \in path /\ x <= y /\ y <= u
      BY <3>1, <3>2
    <3>4. Over(fin, x, y)
      <4>1. Over(fin, y, u) /\ y \in 0 .. n /\ u \in 0 .. n /\ x \in 0 .. n
        BY <1>1, <1>5, <2>1, <2>2, <3>3
      <4> QED  BY <1>1, <2>4, <3>3, <4>1, OverChain
    <3>5. st[y].ancestor < x
      <4>1. CASE y = top
        BY <2>4, <4>1 DEF a
      <4>2. CASE y # top
        <5>1. st[y].ancestor \in path /\ st[y].ancestor < y /\ st[y].ancestor \in 0 .. n /\ y \in 1 .. n
          BY <1>3, <1>4, <1>5, <3>3, <4>2
        <5>2. st[y].ancestor \notin D
          <6> HIDE DEF D
          <6>1. y \in Nat
            BY <5>1
          <6> QED  BY <1>1, <3>2, <5>1, <6>1
        <5> QED  BY <1>1, <5>1, <5>2
      <4> QED  BY <4>1, <4>2
    <3> QED  BY <3>3, <3>4, <3>5
  <2> QED  BY <2>2, <2>3, <2>4
\* The label and ancestor of the nodes of the path.
<1>14. ASSUME w < v, NEW u \in path
       PROVE  /\ \A x \in 1 .. n : a < x /\ Over(fin, x, u) => w < x /\ low(u) <= st[x].semi
              /\ \E x \in 1 .. n : a < x /\ Over(fin, x, u) /\ low(u) = st[x].semi
  <2>1. ASSUME NEW x \in 1 .. n, a < x, Over(fin, x, u) PROVE w < x /\ low(u) <= st[x].semi
    <3>1. PICK y \in path : y <= u /\ Over(fin, x, y) /\ st[y].ancestor < x
      BY <1>13, <1>14, <2>1
    <3>2. y \in (w + 1) .. n /\ y \in 1 .. n
      BY <1>12, <1>14
    <3>3. w < x /\ st[y].label <= st[x].semi
      BY <3>1, <3>2 DEF Linked
    <3>4. low(u) <= st[y].label /\ low(u) \in Nat /\ st[y].label \in Nat /\ st[x].semi \in Nat
      BY <1>2, <1>8, <1>14, <3>1, <3>2
    <3> QED  BY <3>3, <3>4
  <2>2. \E x \in 1 .. n : a < x /\ Over(fin, x, u) /\ low(u) = st[x].semi
    <3>1. PICK y \in path : y <= u /\ low(u) = st[y].label
      BY <1>8, <1>14
    <3>2. y \in (w + 1) .. n /\ y \in 1 .. n /\ u \in 1 .. n
      BY <1>12, <1>14
    <3>3. PICK x \in 1 .. n : st[y].ancestor < x /\ Over(fin, x, y) /\ st[y].label = st[x].semi
      BY <3>2 DEF Linked
    <3>4. Over(fin, y, u) /\ a <= st[y].ancestor
      BY <1>13, <1>14, <3>1
    <3>5. Over(fin, x, u)
      BY <1>1, <3>2, <3>3, <3>4, OverChain
    <3>6. a < x
      BY <1>1, <1>3, <1>7, <3>2, <3>3, <3>4
    <3> QED  BY <3>1, <3>3, <3>5, <3>6
  <2> QED  BY <2>1, <2>2
<1>15. ASSUME NEW u \in path \ {top} PROVE w < v /\ u \in (w + 1) .. n
  <2>1. path # {v}
    BY <1>4
  <2>2. w < v
    BY <1>1, <1>11, <2>1
  <2> QED  BY <1>12, <2>2
<1>16. Linked(n, par, fin, blk, r, w)
  <2>1. \A u \in 1 .. n : r[u].block = blk[u] /\ r[u].idom = par[u]
    BY <1>9 DEF Linked
  <2>2. ASSUME NEW u \in 1 .. w PROVE r[u].ancestor = par[u] /\ r[u].label = u
    <3>1. u \in 1 .. n /\ u \notin path \ {top}
      BY <1>1, <1>15
    <3> QED  BY <1>9, <3>1 DEF Linked
  <2>3. ASSUME NEW u \in (w + 1) .. n
        PROVE  /\ r[u].ancestor < u /\ Over(fin, r[u].ancestor, u)
               /\ \A x \in 1 .. n : r[u].ancestor < x /\ Over(fin, x, u) =>
                     w < x /\ r[u].label <= r[x].semi
               /\ \E x \in 1 .. n : r[u].ancestor < x /\ Over(fin, x, u) /\ r[u].label = r[x].semi
    <3>1. u \in 1 .. n /\ \A x \in 1 .. n : r[x].semi = st[x].semi
      BY <1>1, <1>9
    <3>2. CASE u \in path \ {top}
      <4>1. r[u].ancestor = a /\ r[u].label = low(u)
        BY <1>9, <3>1, <3>2
      <4> QED  BY <1>13, <1>14, <1>15, <3>1, <3>2, <4>1
    <3>3. CASE u \notin path \ {top}
      <4>1. r[u] = st[u]
        BY <1>9, <3>1, <3>3
      <4>2. /\ st[u].ancestor < u /\ Over(fin, st[u].ancestor, u)
            /\ \A x \in 1 .. n : st[u].ancestor < x /\ Over(fin, x, u) =>
                  w < x /\ st[u].label <= st[x].semi
            /\ \E x \in 1 .. n : st[u].ancestor < x /\ Over(fin, x, u) /\ st[u].label = st[x].semi
        BY DEF Linked
      <4> QED  BY <3>1, <4>1, <4>2
    <3> QED  BY <3>2, <3>3
  <2> QED  BY <1>1, <1>10, <2>1, <2>2, <2>3 DEF Linked
<1>17. \A x \in 1 .. n : r[x].semi = st[x].semi
  BY <1>9
<1>18. ASSUME v <= w PROVE r[v].label = v
  <2>1. v \in 1 .. w /\ v \notin path \ {top}
    BY <1>1, <1>4, <1>11, <1>18
  <2> QED  BY <1>9, <2>1 DEF Linked
<1>19. ASSUME w < v
       PROVE  /\ \A x \in 1 .. n : w < x /\ Over(fin, x, v) => r[v].label <= st[x].semi
              /\ \E x \in 1 .. n : w < x /\ Over(fin, x, v) /\ r[v].label = st[x].semi
  <2>1. r[v].label = low(v)
    <3>1. CASE v = top
      <4>1. path = {v}
        <5>1. \A y \in path : y = v
          BY <1>4, <1>5, <3>1
        <5> QED  BY <1>4, <5>1
      <4>2. low(v) = st[v].label
        BY <1>8, <4>1
      <4> QED  BY <1>9, <3>1, <4>2
    <3>2. CASE v # top
      BY <1>4, <1>9, <3>2
    <3> QED  BY <3>1, <3>2
  <2>2. /\ \A x \in 1 .. n : a < x /\ Over(fin, x, v) => w < x /\ low(v) <= st[x].semi
        /\ \E x \in 1 .. n : a < x /\ Over(fin, x, v) /\ low(v) = st[x].semi
    BY <1>4, <1>14, <1>19
  <2>3. \A x \in 1 .. n : w < x => a < x
    BY <1>1, <1>4, <1>7 DEF last
  <2> QED  BY <2>1, <2>2, <2>3
<1> QED  BY <1>16, <1>17, <1>18, <1>19 DEF r, last, Evaluated

(***************************************************************************)
(* Semidominators.                                                         *)
(***************************************************************************)

\* h solves the recursion of ComputeSemi for the node w.
CandidatesOf(h, preds, w) ==
    h = [i \in 0 .. Len(preds) |->
            IF i = 0 THEN [stree |-> stree, semi |-> stree[w].ancestor]
            ELSE semi_candidate(h[i - 1], preds[i], w)]

\* There is a solution.
LEMMA CandidatesExist ==
    ASSUME NEW preds, Len(preds) \in Nat, NEW w
    PROVE  \E h : CandidatesOf(h, preds, w)
<1> DEFINE n == Len(preds)
           zero == [stree |-> stree, semi |-> stree[w].ancestor]
           next(acc, i) == semi_candidate(acc, preds[i], w)
           P(m, h) == h = [i \in 0 .. m |-> IF i = 0 THEN zero ELSE next(h[i - 1], i)]
           C == {m \in Nat : m <= n /\ \A h : ~P(m, h)}
<1>0. \A h : CandidatesOf(h, preds, w) <=> P(n, h)
  BY DEF CandidatesOf
<1> HIDE DEF n, zero, next
<1>1. C = {}
  <2> SUFFICES ASSUME C # {} PROVE FALSE
    OBVIOUS
  <2>1. PICK m \in C : \A k \in C : m <= k
    <3> HIDE DEF P
    <3> QED  BY NatMin
  <2>2. m \in Nat /\ m <= n /\ \A h : ~P(m, h)
    <3> HIDE DEF P
    <3> QED  OBVIOUS
  <2>3. CASE m = 0
    <3>1. P(0, [i \in 0 .. 0 |-> zero])
      OBVIOUS
    <3> QED  BY <2>2, <2>3, <3>1
  <2>4. CASE m # 0
    <3>1. m - 1 \in Nat /\ m - 1 <= n /\ m - 1 \notin C
      <4>1. n \in Nat
        BY DEF n
      <4> HIDE DEF C
      <4> QED  BY <2>1, <2>2, <2>4, <4>1
    <3>2. PICK h : P(m - 1, h)
      <4> HIDE DEF P
      <4> QED  BY <3>1
    <3> DEFINE top == next(h[m - 1], m)
               H == [i \in 0 .. m |-> IF i = m THEN top ELSE h[i]]
    <3> HIDE DEF top
    <3>3. ASSUME NEW i \in 0 .. m PROVE H[i] = IF i = 0 THEN zero ELSE next(H[i - 1], i)
      <4>1. CASE i = m
        <5>1. H[i] = top /\ H[i - 1] = h[m - 1]
          BY <2>2, <2>4, <4>1
        <5> HIDE DEF H
        <5> QED  BY <2>4, <4>1, <5>1 DEF top
      <4>2. CASE i # m
        <5>1. i \in 0 .. (m - 1)
          BY <2>2, <4>2
        <5>2. H[i] = h[i] /\ (i # 0 => H[i - 1] = h[i - 1])
          BY <2>2, <5>1
        <5>3. h[i] = IF i = 0 THEN zero ELSE next(h[i - 1], i)
          BY <3>2, <5>1
        <5> HIDE DEF H
        <5> QED  BY <5>2, <5>3
      <4> QED  BY <4>1, <4>2
    <3>4. H = [i \in 0 .. m |-> H[i]]
      OBVIOUS
    <3>5. P(m, H)
      <4> HIDE DEF H
      <4> QED  BY <3>3, <3>4
    <3> QED  BY <2>2, <3>5
  <2> QED  BY <2>3, <2>4
<1>2. n \in Nat
  BY DEF n
<1>3. n \notin C
  <2> HIDE DEF C
  <2> QED  BY <1>1
<1>4. PICK h : P(n, h)
  <2> HIDE DEF P
  <2> QED  BY <1>2, <1>3
<1> QED  BY <1>0, <1>4

\* The least of two numbers.
LEMMA MinOfTwo ==
    ASSUME NEW i \in Nat, NEW j \in Nat
    PROVE  Min({i, j}) \in {i, j} /\ Min({i, j}) <= i /\ Min({i, j}) <= j
<1> DEFINE S == {i, j}
<1>1. \E x \in S : \A y \in S : x <= y
  <2>1. i <= j \/ j <= i
    OBVIOUS
  <2> QED  BY <2>1
<1>2. Min(S) \in S /\ \A y \in S : Min(S) <= y
  BY <1>1 DEF Min
<1> QED  BY <1>2

\* k is, of the first i predecessors of w, the least candidate for its
\* semidominator, or its parent.
Candidate(n, par, fin, s, num, w, preds, i, k) ==
    /\ k \in 0 .. par[w]
    /\ \A j \in 1 .. i : num[preds[j]] # 0 =>
          /\ num[preds[j]] < w => k <= num[preds[j]]
          /\ \A x \in 1 .. n : w < x /\ Over(fin, x, num[preds[j]]) => k <= s[x]
    /\ \/ k = par[w]
       \/ \E j \in 1 .. i : num[preds[j]] # 0 /\
             \/ num[preds[j]] < w /\ k = num[preds[j]]
             \/ \E x \in 1 .. n : w < x /\ Over(fin, x, num[preds[j]]) /\ k = s[x]

\* Every predecessor adds its candidate.
LEMMA CandidateGrows ==
    ASSUME NEW n, NEW E, NEW par, NEW fin, NEW blk, NEW s, NEW num, NEW w \in 1 .. n,
           DfsTree(n, E, par, fin), num \in [Block -> 0 .. n],
           \A b \in Block : nodes[b].pre_number = num[b],
           NEW preds \in Seq(Block), NEW i \in 1 .. Len(preds), NEW acc,
           Linked(n, par, fin, blk, acc.stree, w), \A x \in 1 .. n : acc.stree[x].semi = s[x],
           Candidate(n, par, fin, s, num, w, preds, i - 1, acc.semi)
    PROVE  LET r == semi_candidate(acc, preds[i], w)
           IN  /\ Linked(n, par, fin, blk, r.stree, w) /\ \A x \in 1 .. n : r.stree[x].semi = s[x]
               /\ Candidate(n, par, fin, s, num, w, preds, i, r.semi)
<1> DEFINE b == preds[i]
           v == num[b]
           st == eval(acc.stree, v, w + 1)
           k == acc.semi
           l == st[v].label
           r == semi_candidate(acc, b, w)
<1>1. b \in Block /\ v \in 0 .. n /\ nodes[b].pre_number = v /\ Len(preds) \in Nat
  OBVIOUS
<1>2. n \in Nat /\ par[w] \in 0 .. n /\ par[w] < w
  BY DEF DfsTree
<1>3. \A j \in 1 .. i : j \in 1 .. (i - 1) \/ j = i
  BY <1>1
<1>4. /\ k \in 0 .. par[w]
      /\ \A j \in 1 .. (i - 1) : num[preds[j]] # 0 =>
            /\ num[preds[j]] < w => k <= num[preds[j]]
            /\ \A x \in 1 .. n : w < x /\ Over(fin, x, num[preds[j]]) => k <= s[x]
      /\ \/ k = par[w]
         \/ \E j \in 1 .. (i - 1) : num[preds[j]] # 0 /\
               \/ num[preds[j]] < w /\ k = num[preds[j]]
               \/ \E x \in 1 .. n : w < x /\ Over(fin, x, num[preds[j]]) /\ k = s[x]
  BY DEF Candidate
<1>5. CASE v = 0
  <2>1. r = acc
    BY <1>1, <1>5 DEF semi_candidate, NOT_VISITED
  <2>2. \A j \in 1 .. (i - 1) : j \in 1 .. i
    BY <1>1
  <2>3. Candidate(n, par, fin, s, num, w, preds, i, k)
    <3> HIDE DEF k
    <3> QED  BY <1>3, <1>4, <1>5, <2>2 DEF Candidate
  <2> QED  BY <2>1, <2>3
<1>6. CASE v # 0
  <2>1. v \in 1 .. n
    BY <1>1, <1>6
  <2>2. r = [stree |-> st, semi |-> Min({k, l})]
    BY <1>1, <1>6 DEF semi_candidate, NOT_VISITED
  <2>3. /\ Linked(n, par, fin, blk, st, w)
        /\ \A x \in 1 .. n : st[x].semi = acc.stree[x].semi
        /\ v <= w => l = v
        /\ w < v => /\ \A x \in 1 .. n : w < x /\ Over(fin, x, v) => l <= acc.stree[x].semi
                    /\ \E x \in 1 .. n : w < x /\ Over(fin, x, v) /\ l = acc.stree[x].semi
    <3> DEFINE old == acc.stree
    <3>1. Linked(n, par, fin, blk, old, w)
      OBVIOUS
    <3> HIDE DEF v, old
    <3>2. /\ Linked(n, par, fin, blk, eval(old, v, w + 1), w)
          /\ Evaluated(n, fin, old, w, v, eval(old, v, w + 1))
      BY <2>1, <3>1, EvalKeeps
    <3> QED  BY <3>2 DEF old, Evaluated
  <2>4. \A x \in 1 .. n : st[x].semi = s[x] /\ s[x] \in Nat
    <3>1. \A x \in 1 .. n : st[x] \in TreeNode
      BY <2>3 DEF Linked
    <3> HIDE DEF st
    <3> QED  BY SMTT(60), <2>3, <3>1 DEF TreeNode
  <2>5. l \in Nat
    <3>1. st[v] \in TreeNode
      BY <2>1, <2>3 DEF Linked
    <3> HIDE DEF st
    <3> QED  BY <3>1 DEF TreeNode
  <2> DEFINE m == Min({k, l})
  <2>6. m \in {k, l} /\ m <= k /\ m <= l /\ m \in Nat
    <3>1. k \in Nat
      BY <1>2, <1>4
    <3> HIDE DEF k, l
    <3> QED  BY <2>5, <3>1, MinOfTwo
  <2> HIDE DEF st, k, l, m, v, b
  <2>7. m \in 0 .. par[w] /\ k \in Nat
    BY <1>2, <1>4, <2>6
  <2>8. ASSUME NEW j \in 1 .. i, num[preds[j]] # 0
        PROVE  /\ num[preds[j]] < w => m <= num[preds[j]]
               /\ \A x \in 1 .. n : w < x /\ Over(fin, x, num[preds[j]]) => m <= s[x]
    <3>1. CASE j \in 1 .. (i - 1)
      <4>1. num[preds[j]] \in 0 .. n
        BY <1>1, <3>1
      <4> QED  BY SMTT(60), <1>2, <1>4, <2>4, <2>6, <2>7, <2>8, <3>1, <4>1
    <3>2. CASE j = i
      <4>1. num[preds[j]] = v
        BY <3>2 DEF v, b
      <4>2. v < w => m <= v
        BY <1>2, <2>1, <2>3, <2>5, <2>6
      <4>3. ASSUME NEW x \in 1 .. n, w < x, Over(fin, x, v) PROVE m <= s[x]
        <5>1. w < v
          BY <1>2, <2>1, <4>3 DEF Over
        <5>2. l <= s[x] /\ s[x] \in Nat
          BY <2>3, <2>4, <4>3, <5>1
        <5> QED  BY <2>5, <2>6, <5>2
      <4> QED  BY <4>1, <4>2, <4>3
    <3> QED  BY <1>3, <3>1, <3>2
  <2>9. \/ m = par[w]
        \/ \E j \in 1 .. i : num[preds[j]] # 0 /\
              \/ num[preds[j]] < w /\ m = num[preds[j]]
              \/ \E x \in 1 .. n : w < x /\ Over(fin, x, num[preds[j]]) /\ m = s[x]
    <3>1. CASE m = k
      <4>1. \A j \in 1 .. (i - 1) : j \in 1 .. i
        BY <1>1
      <4> QED  BY <1>4, <3>1, <4>1
    <3>2. CASE m # k
      <4>1. m = l /\ l < k
        BY <2>5, <2>6, <2>7, <3>2
      <4>2. num[preds[i]] = v /\ v # 0 /\ i \in 1 .. i
        BY <1>1, <1>6 DEF v, b
      <4>3. CASE v < w
        <5>1. m = v
          BY <1>2, <2>1, <2>3, <4>1, <4>3
        <5> QED  BY <4>2, <4>3, <5>1
      <4>4. CASE v = w
        BY SMTT(60), <1>2, <1>4, <2>1, <2>3, <4>1, <4>4
      <4>5. CASE w < v
        <5>1. PICK x \in 1 .. n : w < x /\ Over(fin, x, v) /\ l = acc.stree[x].semi
          BY <2>3, <4>5
        <5>2. m = s[x]
          BY <4>1, <5>1
        <5> QED  BY <4>2, <5>1, <5>2
      <4> QED  BY <1>2, <2>1, <4>3, <4>4, <4>5
    <3> QED  BY <3>1, <3>2
  <2>10. Candidate(n, par, fin, s, num, w, preds, i, m)
    BY <2>7, <2>8, <2>9 DEF Candidate
  <2>11. r.stree = st /\ r.semi = m
    BY <2>2 DEF m
  <2>12. \A x \in 1 .. n : r.stree[x].semi = s[x]
    BY <2>4, <2>11
  <2> HIDE DEF r
  <2>13. /\ Linked(n, par, fin, blk, r.stree, w) /\ \A x \in 1 .. n : r.stree[x].semi = s[x]
         /\ Candidate(n, par, fin, s, num, w, preds, i, r.semi)
    BY <2>3, <2>10, <2>11, <2>12
  <2> QED  BY <2>13 DEF r, b
<1> QED  BY <1>5, <1>6

\* Over all predecessors.
LEMMA CandidateFound ==
    ASSUME NEW n, NEW E, NEW par, NEW fin, NEW blk, NEW s, NEW num, NEW w \in 1 .. n,
           DfsTree(n, E, par, fin), num \in [Block -> 0 .. n],
           \A b \in Block : nodes[b].pre_number = num[b],
           NEW preds \in Seq(Block), Linked(n, par, fin, blk, stree, w),
           \A x \in 1 .. n : stree[x].semi = s[x],
           NEW h, CandidatesOf(h, preds, w)
    PROVE  LET r == h[Len(preds)]
           IN  /\ Linked(n, par, fin, blk, r.stree, w) /\ \A x \in 1 .. n : r.stree[x].semi = s[x]
               /\ Candidate(n, par, fin, s, num, w, preds, Len(preds), r.semi)
<1> DEFINE m == Len(preds)
           Good(i) == /\ Linked(n, par, fin, blk, h[i].stree, w)
                      /\ \A x \in 1 .. n : h[i].stree[x].semi = s[x]
                      /\ Candidate(n, par, fin, s, num, w, preds, i, h[i].semi)
           C == {i \in Nat : i <= m /\ ~Good(i)}
<1>1. m \in Nat
  OBVIOUS
<1>2. /\ h[0] = [stree |-> stree, semi |-> stree[w].ancestor]
      /\ \A i \in 1 .. m : h[i] = semi_candidate(h[i - 1], preds[i], w)
  <2>1. \A i \in 0 .. m : h[i] = IF i = 0 THEN [stree |-> stree, semi |-> stree[w].ancestor]
                                 ELSE semi_candidate(h[i - 1], preds[i], w)
    BY DEF CandidatesOf
  <2> HIDE DEF m
  <2> QED  BY <1>1, <2>1
<1>3. Good(0)
  <2>1. h[0].stree = stree /\ h[0].semi = stree[w].ancestor
    BY <1>2
  <2>2. stree[w].ancestor = par[w] /\ par[w] \in Nat
    <3>1. n \in Nat /\ w \in 1 .. w
      BY DEF DfsTree
    <3>2. stree[w].ancestor = par[w]
      BY <3>1 DEF Linked
    <3>3. par[w] \in 0 .. n
      BY DEF DfsTree
    <3> QED  BY <3>1, <3>2, <3>3
  <2>3. Candidate(n, par, fin, s, num, w, preds, 0, par[w])
    <3>1. 1 .. 0 = {} /\ par[w] \in 0 .. par[w]
      BY <2>2
    <3> QED  BY <3>1 DEF Candidate
  <2> QED  BY <2>1, <2>2, <2>3
<1>4. C = {}
  <2> SUFFICES ASSUME C # {} PROVE FALSE
    OBVIOUS
  <2>1. PICK i \in C : \A j \in C : i <= j
    <3> HIDE DEF Good
    <3> QED  BY NatMin
  <2>2. i \in Nat /\ i <= m /\ ~Good(i)
    <3> HIDE DEF Good
    <3> QED  OBVIOUS
  <2>3. i # 0
    BY <1>3, <2>2
  <2>4. i \in 1 .. Len(preds) /\ Good(i - 1)
    <3> HIDE DEF Good
    <3> QED  BY <1>1, <2>1, <2>2, <2>3
  <2>5. Linked(n, par, fin, blk, h[i - 1].stree, w) /\ (\A x \in 1 .. n : h[i - 1].stree[x].semi = s[x])
        /\ Candidate(n, par, fin, s, num, w, preds, i - 1, h[i - 1].semi)
    BY <2>4
  <2> DEFINE acc == h[i - 1]
             r == semi_candidate(acc, preds[i], w)
  <2>6. h[i] = r
    BY <1>2, <2>4
  <2>9. i \in 1 .. Len(preds) /\ Linked(n, par, fin, blk, acc.stree, w)
        /\ (\A x \in 1 .. n : acc.stree[x].semi = s[x])
        /\ Candidate(n, par, fin, s, num, w, preds, i - 1, acc.semi)
    BY <2>4, <2>5
  <2> HIDE DEF acc
  <2>7. /\ Linked(n, par, fin, blk, r.stree, w) /\ \A x \in 1 .. n : r.stree[x].semi = s[x]
        /\ Candidate(n, par, fin, s, num, w, preds, i, r.semi)
    BY <2>9, CandidateGrows
  <2> HIDE DEF r
  <2>8. Good(i)
    BY <2>6, <2>7
  <2> QED  BY <2>2, <2>8
<1>5. Good(m)
  <2> HIDE DEF Good
  <2> QED  BY <1>1, <1>4
<1> QED  BY <1>5

\* A root has no edge but the one from the virtual root.
LEMMA RootAlone ==
    ASSUME NEW f, FuncOK(f), NEW dir, NEW b \in Block, RootOf(f, dir, b)
    PROVE  \A p \in Block : ~Flow(f, dir, p, b)
BY TargetsType DEF RootOf, Flow

\* The least candidate is the semidominator.
LEMMA SemiFound ==
    ASSUME NEW n, NEW par, NEW fin, NEW blk, NEW s, NEW num, NEW w \in 1 .. n,
           FuncOK(func), Numbering(n, blk, num),
           DfsTree(n, Edges(func, direction, n, blk), par, fin),
           SemiFrom(n, Edges(func, direction, n, blk), par, fin, s, w + 1),
           NEW preds \in Seq(Block),
           \A p \in Block : Flow(func, direction, p, blk[w]) <=>
                            \E i \in 1 .. Len(preds) : preds[i] = p,
           NEW k, Candidate(n, par, fin, s, num, w, preds, Len(preds), k),
           NEW t, t[w] = k, \A x \in 1 .. n : w < x => t[x] = s[x]
    PROVE  SemiFrom(n, Edges(func, direction, n, blk), par, fin, t, w)
<1> DEFINE E == Edges(func, direction, n, blk)
           m == Len(preds)
<1>1. /\ n \in Nat /\ blk \in [1 .. n -> Block] /\ num \in [Block -> 0 .. n]
      /\ \A b \in Block : num[b] # 0 => blk[num[b]] = b
      /\ \A i \in 1 .. n : num[blk[i]] = i
  BY DEF Numbering
<1>2. /\ par[w] \in 0 .. n /\ par[w] < w /\ <<par[w], w>> \in E
  BY DEF DfsTree
<1>3. /\ k \in 0 .. par[w]
      /\ \A j \in 1 .. m : num[preds[j]] # 0 =>
            /\ num[preds[j]] < w => k <= num[preds[j]]
            /\ \A x \in 1 .. n : w < x /\ Over(fin, x, num[preds[j]]) => k <= s[x]
      /\ \/ k = par[w]
         \/ \E j \in 1 .. m : num[preds[j]] # 0 /\
               \/ num[preds[j]] < w /\ k = num[preds[j]]
               \/ \E x \in 1 .. n : w < x /\ Over(fin, x, num[preds[j]]) /\ k = s[x]
  BY DEF Candidate
<1>4. /\ \A j \in 1 .. m : preds[j] \in Block
      /\ \A p \in Block : Flow(func, direction, p, blk[w]) <=> \E i \in 1 .. m : preds[i] = p
  OBVIOUS
<1>5. \A e \in E : e = <<e[1], e[2]>> /\ e[1] \in 0 .. n /\ EdgeTo(func, direction, blk, e[1], blk[e[2]])
  BY DEF Edges
<1>6. \A u \in 0 .. n : EdgeTo(func, direction, blk, u, blk[w]) => <<u, w>> \in E
  BY DEF Edges
<1>7. SemiFrom(n, E, par, fin, s, w + 1)
  OBVIOUS
<1> HIDE DEF E, m
<1>8. ASSUME NEW e \in E, e[2] = w
      PROVE  /\ e[1] < w => k <= e[1]
             /\ \A x \in 1 .. n : w < x /\ Over(fin, x, e[1]) => k <= s[x]
  <2>1. CASE e[1] = 0
    <3>1. RootOf(func, direction, blk[w])
      BY <1>5, <1>8, <2>1 DEF EdgeTo
    <3>2. par[w] = 0
      <4> SUFFICES ASSUME par[w] # 0 PROVE FALSE
        OBVIOUS
      <4>1. EdgeTo(func, direction, blk, par[w], blk[w])
        <5>1. <<par[w], w>>[1] = par[w] /\ <<par[w], w>>[2] = w
          OBVIOUS
        <5> QED  BY <1>2, <1>5, <5>1
      <4>2. Flow(func, direction, blk[par[w]], blk[w]) /\ blk[par[w]] \in Block /\ blk[w] \in Block
        BY <1>1, <1>2, <4>1 DEF EdgeTo
      <4> QED  BY <3>1, <4>2, RootAlone
    <3>3. \A x \in 1 .. n : ~Over(fin, x, 0)
      BY <1>1 DEF Over
    <3> QED  BY <1>3, <2>1, <3>2, <3>3
  <2>2. CASE e[1] # 0
    <3>1. e[1] \in 1 .. n
      BY <1>1, <1>5, <2>2
    <3>2. Flow(func, direction, blk[e[1]], blk[w]) /\ blk[e[1]] \in Block
      BY <1>1, <1>5, <1>8, <2>2, <3>1 DEF EdgeTo
    <3>3. PICK j \in 1 .. m : preds[j] = blk[e[1]]
      BY <1>4, <3>2
    <3>4. num[preds[j]] = e[1]
      BY <1>1, <3>1, <3>3
    <3> QED  BY <1>3, <2>2, <3>4
  <2> QED  BY <2>1, <2>2
<1>9. \E e \in E : e[2] = w /\
              \/ e[1] < w /\ k = e[1]
              \/ \E x \in 1 .. n : w < x /\ Over(fin, x, e[1]) /\ k = s[x]
  <2>1. CASE k = par[w]
    <3>1. <<par[w], w>>[1] = par[w] /\ <<par[w], w>>[2] = w
      OBVIOUS
    <3> QED  BY <1>2, <2>1, <3>1
  <2>2. CASE k # par[w]
    <3>1. PICK j \in 1 .. m : num[preds[j]] # 0 /\
               \/ num[preds[j]] < w /\ k = num[preds[j]]
               \/ \E x \in 1 .. n : w < x /\ Over(fin, x, num[preds[j]]) /\ k = s[x]
      BY <1>3, <2>2
    <3> DEFINE u == num[preds[j]]
    <3>2. preds[j] \in Block /\ u \in 1 .. n /\ blk[u] = preds[j]
      BY <1>1, <1>4, <3>1
    <3>3. Flow(func, direction, blk[u], blk[w])
      BY <1>4, <3>2
    <3>4. <<u, w>> \in E
      <4>1. EdgeTo(func, direction, blk, u, blk[w]) /\ u \in 0 .. n
        BY <3>2, <3>3 DEF EdgeTo
      <4> HIDE DEF u
      <4> QED  BY <1>6, <4>1
    <3>5. <<u, w>>[1] = u /\ <<u, w>>[2] = w
      OBVIOUS
    <3>6. \/ u < w /\ k = u
          \/ \E x \in 1 .. n : w < x /\ Over(fin, x, u) /\ k = s[x]
      BY <3>1
    <3> HIDE DEF u
    <3> QED  BY <3>4, <3>5, <3>6
  <2> QED  BY <2>1, <2>2
<1>10. ASSUME NEW v \in w .. n
       PROVE  /\ t[v] \in 0 .. par[v]
              /\ \A e \in E : e[2] = v =>
                    /\ e[1] < v => t[v] <= e[1]
                    /\ \A x \in 1 .. n : v < x /\ Over(fin, x, e[1]) => t[v] <= t[x]
              /\ \E e \in E : e[2] = v /\
                    \/ e[1] < v /\ t[v] = e[1]
                    \/ \E x \in 1 .. n : v < x /\ Over(fin, x, e[1]) /\ t[v] = t[x]
  <2>1. CASE v = w
    BY <1>3, <1>8, <1>9, <2>1
  <2>2. CASE v # w
    <3>1. v \in (w + 1) .. n /\ v \in 1 .. n /\ w < v
      BY <1>1, <2>2
    <3>2. t[v] = s[v] /\ \A x \in 1 .. n : v < x => t[x] = s[x]
      BY <1>1, <3>1
    <3>3. /\ s[v] \in 0 .. par[v]
          /\ \A e \in E : e[2] = v =>
                /\ e[1] < v => s[v] <= e[1]
                /\ \A x \in 1 .. n : v < x /\ Over(fin, x, e[1]) => s[v] <= s[x]
          /\ \E e \in E : e[2] = v /\
                \/ e[1] < v /\ s[v] = e[1]
                \/ \E x \in 1 .. n : v < x /\ Over(fin, x, e[1]) /\ s[v] = s[x]
      BY <1>7, <3>1 DEF SemiFrom
    <3> QED  BY <3>2, <3>3
  <2> QED  BY <2>1, <2>2
<1> QED  BY <1>10 DEF SemiFrom, E

\* The node w gets k as its semidominator.
Relabelled(st, w, k) == [st EXCEPT ![w].label = k, ![w].semi = k]

\* The node w is linked.
LEMMA LinkedGrows ==
    ASSUME NEW n, NEW E, NEW par, NEW fin, NEW blk, NEW st, NEW w \in 1 .. n,
           DfsTree(n, E, par, fin), Linked(n, par, fin, blk, st, w), NEW k \in Nat
    PROVE  LET r == Relabelled(st, w, k)
           IN  /\ Linked(n, par, fin, blk, r, w - 1)
               /\ r[w].semi = k /\ \A x \in 1 .. n : x # w => r[x].semi = st[x].semi
<1> DEFINE r == [st EXCEPT ![w].label = k, ![w].semi = k]
           a == [st EXCEPT ![w].label = k]
           t == [block |-> st[w].block, ancestor |-> st[w].ancestor, label |-> k, semi |-> k,
                 idom |-> st[w].idom]
<1>1. /\ n \in Nat /\ st \in Seq(TreeNode) /\ Len(st) = n /\ st[w] \in TreeNode
      /\ DOMAIN st = 1 .. n
  BY DEF DfsTree, Linked
<1>2. r = [u \in 1 .. n |-> IF u = w THEN t ELSE st[u]]
  <2>1. st[w] = [block |-> st[w].block, ancestor |-> st[w].ancestor, label |-> st[w].label,
                 semi |-> st[w].semi, idom |-> st[w].idom]
    BY <1>1 DEF TreeNode
  <2>2. r = [a EXCEPT ![w].semi = k]
    BY Zenon
  <2> HIDE DEF r
  <2>3. a = [u \in 1 .. n |-> IF u = w THEN [st[w] EXCEPT !.label = k] ELSE st[u]]
    BY <1>1
  <2>4. a[w] = [st[w] EXCEPT !.label = k]
    BY <2>3
  <2>5. [st[w] EXCEPT !.label = k] = [block |-> st[w].block, ancestor |-> st[w].ancestor,
                 label |-> k, semi |-> st[w].semi, idom |-> st[w].idom]
    BY <2>1
  <2>6. DOMAIN a = 1 .. n /\ \A u \in 1 .. n : u # w => a[u] = st[u]
    BY <2>3
  <2> HIDE DEF a
  <2>7. r = [u \in 1 .. n |-> IF u = w THEN [a[w] EXCEPT !.semi = k] ELSE a[u]]
    BY <2>2, <2>3, <2>6
  <2> DEFINE q == [block |-> st[w].block, ancestor |-> st[w].ancestor, label |-> k,
                   semi |-> st[w].semi, idom |-> st[w].idom]
  <2>9. a[w] = q
    BY <2>4, <2>5, Zenon
  <2>10. [q EXCEPT !.semi = k] = t
    OBVIOUS
  <2> HIDE DEF q
  <2>8. [a[w] EXCEPT !.semi = k] = t
    BY <2>9, <2>10, Zenon
  <2> HIDE DEF t
  <2> QED  BY <2>6, <2>7, <2>8
<1>3. t \in TreeNode
  BY <1>1 DEF TreeNode
<1>4. /\ t.block = st[w].block /\ t.idom = st[w].idom /\ t.ancestor = st[w].ancestor
      /\ t.label = k /\ t.semi = k
  OBVIOUS
<1> HIDE DEF r, t
<1>5. r[w] = t /\ \A u \in 1 .. n : u # w => r[u] = st[u]
  BY <1>2
<1>6. r \in Seq(TreeNode) /\ Len(r) = n
  <2>1. \A u \in 1 .. n : st[u] \in TreeNode
    BY <1>1
  <2>2. r \in [1 .. n -> TreeNode]
    BY <1>2, <1>3, <2>1
  <2> QED  BY <1>1, <2>2
<1>7. /\ w \in 0 .. n /\ w \in 1 .. w /\ w - 1 \in 0 .. n /\ (w - 1) + 1 = w
      /\ \A u \in 1 .. (w - 1) : u \in 1 .. w /\ u \in 1 .. n /\ u # w
      /\ \A u \in w .. n : u = w \/ (u \in (w + 1) .. n /\ u \in 1 .. n /\ u # w)
  BY <1>1
<1>8. par[w] \in 0 .. n /\ par[w] < w /\ Over(fin, par[w], w) /\ Over(fin, w, w)
  <2>1. par[w] \in 0 .. n /\ par[w] < w
    BY DEF DfsTree
  <2> QED  BY <1>7, <2>1, OverChain
<1>9. \A u \in 1 .. n : r[u].block = blk[u] /\ r[u].idom = par[u]
  BY <1>4, <1>5 DEF Linked
<1>10. \A u \in 1 .. (w - 1) : r[u].ancestor = par[u] /\ r[u].label = u
  BY <1>5, <1>7 DEF Linked
<1>11. ASSUME NEW u \in w .. n
       PROVE  /\ r[u].ancestor < u /\ Over(fin, r[u].ancestor, u)
              /\ \A x \in 1 .. n : r[u].ancestor < x /\ Over(fin, x, u) =>
                    w - 1 < x /\ r[u].label <= r[x].semi
              /\ \E x \in 1 .. n : r[u].ancestor < x /\ Over(fin, x, u) /\ r[u].label = r[x].semi
  <2>1. CASE u = w
    <3>1. r[w].ancestor = par[w] /\ r[w].label = k /\ r[w].semi = k
      BY <1>4, <1>5, <1>7 DEF Linked
    <3>2. ASSUME NEW x \in 1 .. n, par[w] < x, Over(fin, x, w) PROVE x = w
      <4>1. x # w => Over(fin, x, par[w])
        <5>1. x \in 0 .. n /\ w \in 0 .. n /\ w \in 1 .. n
          BY <1>1
        <5> QED  BY <3>2, <5>1, OverChain
      <4>2. Over(fin, x, par[w]) => x <= par[w]
        BY DEF Over
      <4> QED  BY <1>1, <1>8, <3>2, <4>1, <4>2
    <3>3. w - 1 < w /\ k <= k
      OBVIOUS
    <3> QED  BY <1>8, <2>1, <3>1, <3>2, <3>3
  <2>2. CASE u \in (w + 1) .. n /\ u \in 1 .. n /\ u # w
    <3>1. r[u] = st[u]
      BY <1>5, <2>2
    <3>2. /\ st[u].ancestor < u /\ Over(fin, st[u].ancestor, u)
          /\ \A x \in 1 .. n : st[u].ancestor < x /\ Over(fin, x, u) =>
                w < x /\ st[u].label <= st[x].semi
          /\ \E x \in 1 .. n : st[u].ancestor < x /\ Over(fin, x, u) /\ st[u].label = st[x].semi
      BY <2>2 DEF Linked
    <3>3. \A x \in 1 .. n : w < x => w - 1 < x /\ r[x] = st[x]
      BY <1>1, <1>5
    <3> QED  BY <3>1, <3>2, <3>3
  <2> QED  BY <1>7, <2>1, <2>2
<1>12. Linked(n, par, fin, blk, r, w - 1)
  BY <1>6, <1>7, <1>9, <1>10, <1>11 DEF Linked
<1>13. r[w].semi = k /\ \A x \in 1 .. n : x # w => r[x].semi = st[x].semi
  BY <1>4, <1>5
<1>14. r = Relabelled(st, w, k)
  BY Zenon DEF r, Relabelled
<1> HIDE DEF r
<1> QED  BY <1>12, <1>13, <1>14

(***************************************************************************)
(* What is reached in the graph, and from where an exit is.                *)
(***************************************************************************)

\* One more step of the relation R from the blocks of q.
Grown(q, R) == q \cup {c \in Block : \E p \in q : <<p, c>> \in R}

\* u solves the recursion that goes along R from B, up to n.
GrowsFrom(u, B, R, n) == u = [k \in 0 .. n |-> IF k = 0 THEN B ELSE Grown(u[k - 1], R)]

\* There is a solution.
LEMMA GrowsExist ==
    ASSUME NEW B, NEW R, NEW n \in Nat
    PROVE  \E u : GrowsFrom(u, B, R, n)
<1> DEFINE C == {m \in Nat : ~\E u : GrowsFrom(u, B, R, m)}
<1>1. C = {}
  <2> SUFFICES ASSUME C # {} PROVE FALSE
    OBVIOUS
  <2>1. PICK m \in C : \A k \in C : m <= k
    BY NatMin
  <2>2. m \in Nat
    OBVIOUS
  <2>3. CASE m = 0
    <3>1. GrowsFrom([k \in 0 .. 0 |-> B], B, R, 0)
      BY DEF GrowsFrom
    <3> QED  BY <2>3, <3>1
  <2>4. CASE m # 0
    <3>1. m - 1 \in Nat /\ m - 1 \notin C
      <4> HIDE DEF C
      <4> QED  BY <2>1, <2>2, <2>4
    <3>2. PICK g : GrowsFrom(g, B, R, m - 1)
      BY <3>1
    <3> DEFINE top == Grown(g[m - 1], R)
               G == [k \in 0 .. m |-> IF k = m THEN top ELSE g[k]]
    <3> HIDE DEF top
    <3>3. ASSUME NEW k \in 0 .. m
          PROVE  G[k] = IF k = 0 THEN B ELSE Grown(G[k - 1], R)
      <4>1. CASE k = m
        <5>1. G[k] = top /\ G[k - 1] = g[m - 1]
          BY <2>2, <2>4, <4>1
        <5> QED  BY <2>4, <4>1, <5>1 DEF top
      <4>2. CASE k # m
        <5>1. k \in 0 .. (m - 1)
          BY <2>2, <4>2
        <5>2. G[k] = g[k] /\ (k # 0 => G[k - 1] = g[k - 1])
          BY <2>2, <5>1
        <5>3. g[k] = IF k = 0 THEN B ELSE Grown(g[k - 1], R)
          BY <3>2, <5>1 DEF GrowsFrom
        <5> HIDE DEF G
        <5> QED  BY <5>2, <5>3
      <4> QED  BY <4>1, <4>2
    <3>4. G = [k \in 0 .. m |-> G[k]]
      OBVIOUS
    <3>5. GrowsFrom(G, B, R, m)
      <4> HIDE DEF G
      <4> QED  BY <3>3, <3>4 DEF GrowsFrom
    <3> QED  BY <3>5
  <2> QED  BY <2>3, <2>4
<1> QED  BY <1>1

\* With as many steps as there are blocks it ends with the least set that holds
\* B and is closed under R.
LEMMA GrowsFacts ==
    ASSUME NEW B \in SUBSET Block, NEW R, NEW u, GrowsFrom(u, B, R, NumBlocks)
    PROVE  /\ u[NumBlocks] \subseteq Block /\ B \subseteq u[NumBlocks]
           /\ \A p \in u[NumBlocks] : \A c \in Block : <<p, c>> \in R => c \in u[NumBlocks]
           /\ \A S : B \subseteq S /\ (\A p \in S : \A c \in Block : <<p, c>> \in R => c \in S)
                 => u[NumBlocks] \subseteq S
<1>0. NumBlocks \in Nat \ {0}
  BY FlowAssumption
<1>3. u[0] = B /\ \A k \in 1 .. NumBlocks : u[k] = Grown(u[k - 1], R)
  <2>1. \A k \in 0 .. NumBlocks : u[k] = IF k = 0 THEN B ELSE Grown(u[k - 1], R)
    BY DEF GrowsFrom
  <2> QED  BY <1>0, <2>1
<1>5. ASSUME NEW S, B \subseteq S, \A p \in S : \A c \in Block : <<p, c>> \in R => c \in S,
             NEW k \in 0 .. NumBlocks
      PROVE  u[k] \subseteq S
  <2> DEFINE C == {m \in Nat : m <= NumBlocks /\ ~(u[m] \subseteq S)}
  <2>1. C = {}
    <3> SUFFICES ASSUME C # {} PROVE FALSE
      OBVIOUS
    <3>1. PICK m \in C : \A j \in C : m <= j
      BY NatMin
    <3>2. m \in Nat /\ m <= NumBlocks /\ ~(u[m] \subseteq S)
      OBVIOUS
    <3>3. m # 0
      BY <1>3, <1>5, <3>2
    <3>4. m - 1 \in Nat /\ m - 1 <= NumBlocks /\ m - 1 \notin C
      <4> HIDE DEF C
      <4> QED  BY <1>0, <3>1, <3>2, <3>3
    <3>5. u[m - 1] \subseteq S
      BY <3>4
    <3>6. u[m] = Grown(u[m - 1], R)
      BY <1>0, <1>3, <3>2, <3>3
    <3> QED  BY <1>5, <3>2, <3>5, <3>6 DEF Grown
  <2> QED  BY <1>0, <2>1
<1>6. ASSUME NEW k \in 0 .. NumBlocks PROVE u[k] \subseteq Block
  <2> DEFINE S == Block
  <2>1. B \subseteq S /\ \A p \in S : \A c \in Block : <<p, c>> \in R => c \in S
    OBVIOUS
  <2> HIDE DEF S
  <2> QED  BY <1>5, <2>1 DEF S
<1>7. ASSUME NEW i \in 0 .. NumBlocks, NEW k \in 0 .. NumBlocks, i <= k PROVE u[i] \subseteq u[k]
  <2> DEFINE C == {m \in Nat : i <= m /\ m <= NumBlocks /\ ~(u[i] \subseteq u[m])}
  <2>1. C = {}
    <3> SUFFICES ASSUME C # {} PROVE FALSE
      OBVIOUS
    <3>1. PICK m \in C : \A j \in C : m <= j
      BY NatMin
    <3>2. m \in Nat /\ i <= m /\ m <= NumBlocks /\ ~(u[i] \subseteq u[m]) /\ m # i
      OBVIOUS
    <3>3. m - 1 \in Nat /\ i <= m - 1 /\ m - 1 <= NumBlocks /\ m - 1 \notin C
      <4> HIDE DEF C
      <4> QED  BY <1>0, <3>1, <3>2
    <3>4. u[i] \subseteq u[m - 1]
      BY <3>3
    <3>5. u[m] = Grown(u[m - 1], R)
      BY <1>0, <1>3, <3>2, <3>3
    <3> QED  BY <3>2, <3>4, <3>5 DEF Grown
  <2> QED  BY <1>0, <1>7, <2>1
\* As long as the sets grow there are more blocks than steps.
<1>8. \E k \in 1 .. NumBlocks : u[k] = u[k - 1]
  <2> SUFFICES ASSUME \A k \in 1 .. NumBlocks : u[k] # u[k - 1] PROVE FALSE
    OBVIOUS
  <2>1. CASE u[0] = {}
    <3>2. 1 \in 1 .. NumBlocks /\ 1 - 1 = 0
      BY <1>0
    <3>4. u[1] = Grown(u[0], R)
      BY <1>3, <3>2
    <3>1. u[1] = {}
      BY <2>1, <3>4 DEF Grown
    <3>3. u[1] # u[1 - 1]
      BY <3>2
    <3> QED  BY <2>1, <3>1, <3>2, <3>3
  <2>2. CASE u[0] # {}
    <3>1. IsFiniteSet(Block) /\ Cardinality(Block) = NumBlocks
      BY <1>0, FS_Interval DEF Block
    <3>2. \A k \in 0 .. NumBlocks : IsFiniteSet(u[k]) /\ Cardinality(u[k]) <= NumBlocks
      <4> SUFFICES ASSUME NEW k \in 0 .. NumBlocks
                   PROVE  IsFiniteSet(u[k]) /\ Cardinality(u[k]) <= NumBlocks
        OBVIOUS
      <4>1. u[k] \subseteq Block
        BY <1>6
      <4> QED  BY <3>1, <4>1, FS_Subset
    <3> DEFINE C == {m \in Nat : m <= NumBlocks /\ ~(m + 1 <= Cardinality(u[m]))}
    <3>3. C = {}
      <4> SUFFICES ASSUME C # {} PROVE FALSE
        OBVIOUS
      <4>1. PICK m \in C : \A j \in C : m <= j
        BY NatMin
      <4>2. m \in Nat /\ m <= NumBlocks /\ ~(m + 1 <= Cardinality(u[m]))
        OBVIOUS
      <4>3. Cardinality(u[m]) \in Nat
        BY <1>0, <3>2, <4>2, FS_CardinalityType
      <4>4. m # 0
        <5>1. Cardinality(u[0]) # 0
          BY <1>0, <2>2, <3>2, FS_EmptySet
        <5> QED  BY <4>2, <4>3, <5>1
      <4>5. m - 1 \in Nat /\ m - 1 <= NumBlocks /\ m - 1 \notin C
        <5> HIDE DEF C
        <5> QED  BY <1>0, <4>1, <4>2, <4>4
      <4>6. m <= Cardinality(u[m - 1])
        BY <4>5
      <4>7. u[m - 1] \subseteq u[m] /\ u[m - 1] # u[m]
        <5>1. m \in 1 .. NumBlocks /\ m - 1 \in 0 .. NumBlocks /\ m \in 0 .. NumBlocks
          BY <1>0, <4>2, <4>4
        <5> QED  BY <1>7, <5>1
      <4>8. Cardinality(u[m - 1]) < Cardinality(u[m])
        <5>1. IsFiniteSet(u[m])
          BY <1>0, <3>2, <4>2
        <5>2. u[m - 1] \in SUBSET u[m]
          BY <4>7
        <5>3. /\ Cardinality(u[m - 1]) <= Cardinality(u[m])
              /\ Cardinality(u[m]) = Cardinality(u[m - 1]) => u[m] = u[m - 1]
          BY <5>1, <5>2, FS_Subset
        <5>4. Cardinality(u[m - 1]) \in Nat
          BY <1>0, <3>2, <4>5, FS_CardinalityType
        <5> QED  BY <4>3, <4>7, <5>3, <5>4
      <4>9. Cardinality(u[m - 1]) \in Nat
        BY <1>0, <3>2, <4>5, FS_CardinalityType
      <4> QED  BY <4>2, <4>3, <4>6, <4>8, <4>9
    <3>4. NumBlocks + 1 <= Cardinality(u[NumBlocks])
      BY <1>0, <3>3
    <3>5. Cardinality(u[NumBlocks]) \in Nat /\ Cardinality(u[NumBlocks]) <= NumBlocks
      BY <1>0, <3>2, FS_CardinalityType
    <3> QED  BY <1>0, <3>4, <3>5
  <2> QED  BY <2>1, <2>2
<1>9. \A p \in u[NumBlocks] : \A c \in Block : <<p, c>> \in R => c \in u[NumBlocks]
  <2>1. PICK k \in 1 .. NumBlocks : u[k] = u[k - 1]
    BY <1>8
  <2>2. k \in 0 .. NumBlocks /\ k - 1 \in 0 .. NumBlocks /\ k <= NumBlocks /\ 0 <= k
        /\ NumBlocks \in 0 .. NumBlocks /\ 0 \in 0 .. NumBlocks
    BY <1>0
  <2>3. u[k] \subseteq u[NumBlocks] /\ u[0] \subseteq u[k]
    BY <1>7, <2>2
  <2>4. \A p \in u[k] : \A c \in Block : <<p, c>> \in R => c \in u[k]
    <3>1. u[k] = Grown(u[k], R)
      BY <1>3, <2>1
    <3> QED  BY <3>1 DEF Grown
  <2>5. B \subseteq u[k]
    BY <1>3, <2>3
  <2>6. u[NumBlocks] \subseteq u[k]
    <3> DEFINE S == u[k]
    <3>2. B \subseteq S /\ \A p \in S : \A c \in Block : <<p, c>> \in R => c \in S
      BY <2>4, <2>5
    <3> HIDE DEF S
    <3> QED  BY <1>5, <2>2, <3>2 DEF S
  <2> QED  BY <2>3, <2>4, <2>6
<1>10. NumBlocks \in 0 .. NumBlocks /\ 0 \in 0 .. NumBlocks /\ 0 <= NumBlocks
  BY <1>0
<1>11. B \subseteq u[NumBlocks] /\ u[NumBlocks] \subseteq Block
  BY <1>3, <1>6, <1>7, <1>10
<1>12. ASSUME NEW S, B \subseteq S, \A p \in S : \A c \in Block : <<p, c>> \in R => c \in S
       PROVE  u[NumBlocks] \subseteq S
  BY <1>5, <1>10, <1>12
<1> QED  BY <1>9, <1>11, <1>12
\* exits, for the function f.
ExitsIn(f, avoid) ==
    LET r[k \in 0 .. NumBlocks] ==
            IF k = 0 THEN {b \in Block \ avoid : dests(f, b) = <<>>}
            ELSE LET q == r[k - 1]
                 IN  q \cup {b \in Block \ avoid : ToSet(dests(f, b)) \cap q # {}}
    IN  r[NumBlocks]

\* The blocks a path from the entry reaches, or from which one reaches an exit,
\* without those in avoid.
Through(f, dir, avoid) == IF dir = "forward" THEN ReachedIn(f, avoid) ELSE ExitsIn(f, avoid)

\* exits is ExitsIn the function as it is.
LEMMA ExitsNow == \A avoid : exits(avoid) = ExitsIn(func, avoid)
BY Zenon DEF exits, ExitsIn, dests

\* The least set with the exits and what leads to it.
LEMMA ExitsFacts ==
    ASSUME NEW f, FuncOK(f), NEW avoid
    PROVE  /\ ExitsIn(f, avoid) \subseteq Block \ avoid
           /\ \A b \in Block \ avoid : Targets(f, b) = {} => b \in ExitsIn(f, avoid)
           /\ \A b \in ExitsIn(f, avoid) : \A c \in Block \ avoid :
                 b \in Targets(f, c) => c \in ExitsIn(f, avoid)
           /\ \A S : (\A b \in Block \ avoid : Targets(f, b) = {} => b \in S)
                     /\ (\A b \in S : \A c \in Block \ avoid : b \in Targets(f, c) => c \in S)
                 => ExitsIn(f, avoid) \subseteq S
<1> DEFINE B == {b \in Block \ avoid : dests(f, b) = <<>>}
           R == {e \in Block \X (Block \ avoid) : e[1] \in Targets(f, e[2])}
           Step(q) == q \cup {b \in Block \ avoid : Targets(f, b) \cap q # {}}
           Eq(r) == r = [k \in 0 .. NumBlocks |-> IF k = 0 THEN B ELSE Step(r[k - 1])]
           u == CHOOSE r : Eq(r)
<1>0. NumBlocks \in Nat \ {0} /\ NumBlocks \in 0 .. NumBlocks
  BY FlowAssumption
<1>1. ExitsIn(f, avoid) = u[NumBlocks]
  BY Zenon DEF ExitsIn, Targets
<1>2. \A q \in SUBSET Block : Step(q) = Grown(q, R)
  <2> SUFFICES ASSUME NEW q \in SUBSET Block PROVE Step(q) = Grown(q, R)
    OBVIOUS
  <2>1. ASSUME NEW c \in Block
        PROVE  c \in Step(q) <=> c \in Grown(q, R)
    <3>1. \A p \in q : <<p, c>> \in R <=> c \notin avoid /\ p \in Targets(f, c)
      OBVIOUS
    <3> HIDE DEF R
    <3> QED  BY <3>1 DEF Grown
  <2>2. Step(q) \subseteq Block /\ Grown(q, R) \subseteq Block
    BY DEF Grown
  <2> HIDE DEF Step, R
  <2> QED  BY <2>1, <2>2
<1>3. PICK g : GrowsFrom(g, B, R, NumBlocks)
  <2> HIDE DEF B, R
  <2> QED  BY <1>0, GrowsExist
<1>4. \A k \in 0 .. NumBlocks : g[k] = IF k = 0 THEN B ELSE Grown(g[k - 1], R)
  <2> HIDE DEF B, R
  <2> QED  BY <1>3 DEF GrowsFrom
\* Whatever solves the recursion is g.
<1>5. ASSUME NEW r, Eq(r) PROVE r[NumBlocks] = g[NumBlocks]
  <2>1. \A k \in 0 .. NumBlocks : r[k] = IF k = 0 THEN B ELSE Step(r[k - 1])
    <3> HIDE DEF B, Step
    <3> QED  BY <1>5
  <2>2. B \subseteq Block
    OBVIOUS
  <2>6. \A q \in SUBSET Block : Grown(q, R) \in SUBSET Block
    BY DEF Grown
  <2> HIDE DEF B, Step, R, Eq
  <2> DEFINE C == {m \in Nat : m <= NumBlocks /\ ~(r[m] = g[m] /\ g[m] \in SUBSET Block)}
  <2>3. C = {}
    <3> SUFFICES ASSUME C # {} PROVE FALSE
      OBVIOUS
    <3>1. PICK m \in C : \A j \in C : m <= j
      BY NatMin
    <3>2. m \in Nat /\ m <= NumBlocks /\ ~(r[m] = g[m] /\ g[m] \in SUBSET Block)
      OBVIOUS
    <3>3. m \in 0 .. NumBlocks
      BY <1>0, <3>2
    <3>4. m # 0
      BY <1>4, <2>1, <2>2, <3>2, <3>3
    <3>5. m - 1 \in Nat /\ m - 1 <= NumBlocks /\ m - 1 \notin C
      <4> HIDE DEF C
      <4> QED  BY <1>0, <3>1, <3>2, <3>4
    <3>6. r[m - 1] = g[m - 1] /\ g[m - 1] \in SUBSET Block
      BY <3>5
    <3>7. r[m] = Step(r[m - 1]) /\ g[m] = Grown(g[m - 1], R)
      BY <1>4, <2>1, <3>3, <3>4
    <3>8. Step(g[m - 1]) = Grown(g[m - 1], R)
      BY <1>2, <3>6
    <3>9. r[m] = g[m]
      BY <3>6, <3>7, <3>8
    <3> QED  BY <2>6, <3>2, <3>6, <3>7, <3>9
  <2> QED  BY <1>0, <2>3
<1>6. Eq(u)
  <2>1. Eq([k \in 0 .. NumBlocks |-> g[k]])
    <3> DEFINE G == [k \in 0 .. NumBlocks |-> g[k]]
    <3>1. \A k \in 0 .. NumBlocks : G[k] = g[k]
      OBVIOUS
    <3>2. B \in SUBSET Block
      OBVIOUS
    <3>3. \A q \in SUBSET Block : Grown(q, R) \in SUBSET Block
      BY DEF Grown
    <3> HIDE DEF G
    <3> DEFINE C == {m \in Nat : m <= NumBlocks /\ ~(g[m] \in SUBSET Block)}
    <3>4. C = {}
      <4> HIDE DEF B, R, Step
      <4> SUFFICES ASSUME C # {} PROVE FALSE
        OBVIOUS
      <4>1. PICK m \in C : \A j \in C : m <= j
        BY NatMin
      <4>2. m \in Nat /\ m <= NumBlocks /\ ~(g[m] \in SUBSET Block) /\ m \in 0 .. NumBlocks
        BY <1>0
      <4>3. m # 0
        BY <1>4, <3>2, <4>2
      <4>4. m - 1 \in Nat /\ m - 1 <= NumBlocks /\ m - 1 \notin C
        <5> HIDE DEF C
        <5> QED  BY <1>0, <4>1, <4>2, <4>3
      <4> QED  BY <1>4, <3>3, <4>2, <4>3, <4>4
    <3>5. ASSUME NEW k \in 0 .. NumBlocks
          PROVE  G[k] = IF k = 0 THEN B ELSE Step(G[k - 1])
      <4> HIDE DEF B, R, Step, C
      <4>1. CASE k = 0
        BY <1>4, <3>1, <4>1
      <4>2. CASE k # 0
        <5>1. k - 1 \in 0 .. NumBlocks /\ k - 1 \in Nat /\ k - 1 <= NumBlocks
          BY <1>0, <4>2
        <5>2. g[k - 1] \in SUBSET Block
          BY <3>4, <5>1 DEF C
        <5> QED  BY <1>2, <1>4, <3>1, <4>2, <5>1, <5>2
      <4> QED  BY <4>1, <4>2
    <3>6. G = [k \in 0 .. NumBlocks |-> G[k]]
      BY DEF G
    <3> HIDE DEF B, R, Step
    <3> QED  BY <3>5, <3>6 DEF G
  <2> HIDE DEF Eq
  <2> QED  BY <2>1
<1>7. u[NumBlocks] = g[NumBlocks]
  <2> HIDE DEF u, Eq
  <2> QED  BY <1>5, <1>6
<1> DEFINE X == g[NumBlocks]
<1>8. /\ X \subseteq Block /\ B \subseteq X
      /\ \A p \in X : \A c \in Block : <<p, c>> \in R => c \in X
      /\ \A S : B \subseteq S /\ (\A p \in S : \A c \in Block : <<p, c>> \in R => c \in S)
            => X \subseteq S
  <2>1. B \in SUBSET Block
    OBVIOUS
  <2> HIDE DEF B, R
  <2> QED  BY <1>3, <2>1, GrowsFacts
<1>9. ExitsIn(f, avoid) = X
  BY <1>1, <1>7
<1>10. \A b \in Block : dests(f, b) = <<>> <=> Targets(f, b) = {}
  <2> SUFFICES ASSUME NEW b \in Block PROVE dests(f, b) = <<>> <=> Targets(f, b) = {}
    OBVIOUS
  <2>1. dests(f, b) \in Seq(Block \ {0})
        /\ Targets(f, b) = {dests(f, b)[i] : i \in 1 .. Len(dests(f, b))}
    BY TargetsType
  <2> DEFINE s == dests(f, b)
  <2> HIDE DEF s
  <2>2. s \in Seq(Block \ {0}) /\ Targets(f, b) = {s[i] : i \in 1 .. Len(s)}
    BY <2>1 DEF s
  <2>3. s = <<>> <=> Len(s) = 0
    BY <2>2
  <2>4. Len(s) \in Nat
    BY <2>2
  <2>5. Len(s) = 0 <=> Targets(f, b) = {}
    <3>1. ASSUME Len(s) # 0 PROVE s[1] \in Targets(f, b)
      <4>1. 1 \in 1 .. Len(s)
        BY <2>4, <3>1
      <4> QED  BY <2>2, <4>1
    <3>2. ASSUME Len(s) = 0 PROVE Targets(f, b) = {}
      BY <2>2, <3>2
    <3> QED  BY <3>1, <3>2
  <2> QED  BY <2>3, <2>5 DEF s
<1> HIDE DEF X, u
<1>11. X \subseteq Block \ avoid
  <2> DEFINE S == Block \ avoid
  <2>1. B \subseteq S /\ \A p \in S : \A c \in Block : <<p, c>> \in R => c \in S
    OBVIOUS
  <2> HIDE DEF S, B, R
  <2> QED  BY <1>8, <2>1 DEF S
<1>12. \A b \in Block \ avoid : Targets(f, b) = {} => b \in X
  BY <1>8, <1>10
<1>13. ASSUME NEW b \in X, NEW c \in Block \ avoid, b \in Targets(f, c) PROVE c \in X
  <2>1. b \in Block
    BY <1>11
  <2>2. <<b, c>> \in R
    BY <1>13, <2>1
  <2> HIDE DEF R
  <2> QED  BY <1>8, <2>2
<1>14. ASSUME NEW S, \A b \in Block \ avoid : Targets(f, b) = {} => b \in S,
              \A b \in S : \A c \in Block \ avoid : b \in Targets(f, c) => c \in S
       PROVE  X \subseteq S
  <2>1. B \subseteq S
    BY <1>10, <1>14
  <2>2. \A p \in S : \A c \in Block : <<p, c>> \in R => c \in S
    BY <1>14
  <2> HIDE DEF B, R
  <2> QED  BY <1>8, <2>1, <2>2
<1> QED  BY <1>9, <1>11, <1>12, <1>13, <1>14

\* In either direction: the least set of blocks other than those in avoid that
\* holds the roots and goes along the edges.
LEMMA ThroughFacts ==
    ASSUME NEW f, FuncOK(f), NEW dir, NEW avoid
    PROVE  /\ Through(f, dir, avoid) \subseteq Block \ avoid
           /\ \A b \in Block \ avoid : RootOf(f, dir, b) => b \in Through(f, dir, avoid)
           /\ \A b \in Through(f, dir, avoid) : \A c \in Block \ avoid :
                 Flow(f, dir, b, c) => c \in Through(f, dir, avoid)
           /\ \A S : (\A b \in Block \ avoid : RootOf(f, dir, b) => b \in S)
                     /\ (\A b \in S \cap Block : \A c \in Block \ avoid : Flow(f, dir, b, c) => c \in S)
                 => Through(f, dir, avoid) \subseteq S
<1>1. CASE dir = "forward"
  <2>1. /\ ReachedIn(f, avoid) \subseteq Block \ avoid
        /\ 0 \notin avoid => 0 \in ReachedIn(f, avoid)
        /\ \A b \in ReachedIn(f, avoid) : \A d \in Targets(f, b) :
              d \notin avoid => d \in ReachedIn(f, avoid)
        /\ \A S : {0} \ avoid \subseteq S /\ (\A b \in S : Targets(f, b) \ avoid \subseteq S)
              => ReachedIn(f, avoid) \subseteq S
    BY ReachedFacts
  <2>2. 0 \in Block
    BY FlowAssumption DEF Block
  <2>3. ASSUME NEW S, \A b \in Block \ avoid : RootOf(f, dir, b) => b \in S,
               \A b \in S \cap Block : \A c \in Block \ avoid : Flow(f, dir, b, c) => c \in S
        PROVE  ReachedIn(f, avoid) \subseteq S
    <3> DEFINE T == S \cap Block
    <3>1. {0} \ avoid \subseteq T
      BY <1>1, <2>2, <2>3 DEF RootOf
    <3>2. ASSUME NEW b \in T PROVE Targets(f, b) \ avoid \subseteq T
      <4>1. b \in Block /\ Targets(f, b) \subseteq Block
        BY TargetsType
      <4> QED  BY <1>1, <2>3, <4>1 DEF Flow
    <3>3. ReachedIn(f, avoid) \subseteq T
      <4> HIDE DEF T
      <4> QED  BY <2>1, <3>1, <3>2
    <3> QED  BY <3>3
  <2>4. \A b \in Block \ avoid : RootOf(f, dir, b) => b \in ReachedIn(f, avoid)
    BY <1>1, <2>1 DEF RootOf
  <2>5. \A b \in ReachedIn(f, avoid) : \A c \in Block \ avoid :
            Flow(f, dir, b, c) => c \in ReachedIn(f, avoid)
    BY <1>1, <2>1 DEF Flow
  <2> QED  BY <1>1, <2>1, <2>3, <2>4, <2>5 DEF Through
<1>2. CASE dir # "forward"
  <2>1. /\ ExitsIn(f, avoid) \subseteq Block \ avoid
        /\ \A b \in Block \ avoid : Targets(f, b) = {} => b \in ExitsIn(f, avoid)
        /\ \A b \in ExitsIn(f, avoid) : \A c \in Block \ avoid :
              b \in Targets(f, c) => c \in ExitsIn(f, avoid)
        /\ \A S : (\A b \in Block \ avoid : Targets(f, b) = {} => b \in S)
                  /\ (\A b \in S : \A c \in Block \ avoid : b \in Targets(f, c) => c \in S)
              => ExitsIn(f, avoid) \subseteq S
    BY ExitsFacts
  <2>2. ASSUME NEW S, \A b \in Block \ avoid : RootOf(f, dir, b) => b \in S,
               \A b \in S \cap Block : \A c \in Block \ avoid : Flow(f, dir, b, c) => c \in S
        PROVE  ExitsIn(f, avoid) \subseteq S
    <3> DEFINE T == S \cap Block
    <3>1. \A b \in Block \ avoid : Targets(f, b) = {} => b \in T
      BY <1>2, <2>2 DEF RootOf
    <3>2. \A b \in T : \A c \in Block \ avoid : b \in Targets(f, c) => c \in T
      BY <1>2, <2>2 DEF Flow
    <3>3. ExitsIn(f, avoid) \subseteq T
      <4> HIDE DEF T
      <4> QED  BY <2>1, <3>1, <3>2
    <3> QED  BY <3>3
  <2>3. \A b \in Block \ avoid : RootOf(f, dir, b) => b \in ExitsIn(f, avoid)
    BY <1>2, <2>1 DEF RootOf
  <2>4. \A b \in ExitsIn(f, avoid) : \A c \in Block \ avoid :
            Flow(f, dir, b, c) => c \in ExitsIn(f, avoid)
    BY <1>2, <2>1 DEF Flow
  <2> QED  BY <1>2, <2>1, <2>2, <2>3, <2>4 DEF Through
<1> QED  BY <1>1, <1>2

\* The dominators by paths are those by numbers: a search that is over visited
\* what is reached, and d dominates in the graph of the numbers what is reached
\* through its block only.
LEMMA ThroughDominance ==
    ASSUME NEW f, FuncOK(f), NEW dir, NEW n, NEW blk, NEW par, NEW fin, NEW num, NEW po,
           Searching(f, dir, n, blk, par, fin, num, po, <<>>)
    PROVE  /\ Through(f, dir, {}) = {b \in Block : num[b] # 0}
           /\ \A a, b \in Block : num[b] # 0 =>
                 (b \notin Through(f, dir, {a}) <=>
                    num[a] # 0 /\ DominatesIn(n, Edges(f, dir, n, blk), num[a], num[b]))
<1> DEFINE V == {b \in Block : num[b] # 0}
           E == Edges(f, dir, n, blk)
<1>1. /\ n \in Nat /\ blk \in [1 .. n -> Block] /\ num \in [Block -> 0 .. n]
      /\ \A b \in Block : num[b] # 0 => blk[num[b]] = b
      /\ \A i \in 1 .. n : num[blk[i]] = i
  BY DEF Searching, Numbering
<1>2. \A w \in 1 .. n : par[w] \in 0 .. n /\ par[w] < w /\ <<par[w], w>> \in E
  BY DEF Searching, DfsTree
<1>3. \A b \in Block : RootOf(f, dir, b) => b \in V
  BY DEF Searching, AllFollowed
<1>4. ASSUME NEW b \in V, NEW c \in Block, Flow(f, dir, b, c) PROVE c \in V
  <2>1. num[b] \in 1 .. n /\ blk[num[b]] = b
    BY <1>1
  <2> QED  BY <1>4, <2>1 DEF Searching, AllFollowed
<1>5. \A e \in E : e[1] \in 0 .. n /\ e[2] \in 1 .. n
                   /\ (e[1] = 0 => RootOf(f, dir, blk[e[2]]))
                   /\ (e[1] # 0 => Flow(f, dir, blk[e[1]], blk[e[2]]))
  BY DEF Edges, EdgeTo
<1>6. ASSUME NEW u \in 0 .. n, NEW w \in 1 .. n, EdgeTo(f, dir, blk, u, blk[w])
      PROVE  <<u, w>> \in E
  BY <1>6 DEF Edges
<1> HIDE DEF E
<1>7. ASSUME NEW avoid, avoid \cap V = {} PROVE V \subseteq Through(f, dir, avoid)
  <2> DEFINE X == Through(f, dir, avoid)
  <2>1. /\ \A b \in Block \ avoid : RootOf(f, dir, b) => b \in X
        /\ \A b \in X : \A c \in Block \ avoid : Flow(f, dir, b, c) => c \in X
    BY ThroughFacts
  <2> HIDE DEF X
  <2> DEFINE C == {w \in Nat : w \in 1 .. n /\ blk[w] \notin X}
  <2>2. C = {}
    <3> SUFFICES ASSUME C # {} PROVE FALSE
      OBVIOUS
    <3>1. PICK w \in C : \A v \in C : w <= v
      BY NatMin
    <3>2. w \in 1 .. n /\ blk[w] \notin X
      OBVIOUS
    <3>3. blk[w] \in Block /\ blk[w] \notin avoid
      BY <1>1, <1>7, <3>2
    <3>4. par[w] \in 0 .. n /\ par[w] < w /\ <<par[w], w>> \in E
      BY <1>2, <3>2
    <3>5. CASE par[w] = 0
      BY <1>5, <2>1, <3>2, <3>3, <3>4, <3>5
    <3>6. CASE par[w] # 0
      <4>1. par[w] \in 1 .. n /\ par[w] \notin C
        <5> HIDE DEF C
        <5> QED  BY <3>1, <3>2, <3>4, <3>6, <1>1
      <4>2. blk[par[w]] \in X
        BY <4>1
      <4>3. Flow(f, dir, blk[par[w]], blk[w])
        BY <1>5, <3>4, <3>6
      <4> QED  BY <2>1, <3>2, <3>3, <4>2, <4>3
    <3> QED  BY <3>5, <3>6
  <2>3. ASSUME NEW b \in V PROVE b \in X
    <3>1. num[b] \in 1 .. n /\ blk[num[b]] = b
      BY <1>1
    <3> QED  BY <2>2, <3>1
  <2> QED  BY <2>3 DEF X
<1>8. Through(f, dir, {}) = V
  <2>1. Through(f, dir, {}) \subseteq V
    <3>1. \A S : (\A b \in Block \ {} : RootOf(f, dir, b) => b \in S)
                 /\ (\A b \in S \cap Block : \A c \in Block \ {} : Flow(f, dir, b, c) => c \in S)
             => Through(f, dir, {}) \subseteq S
      BY ThroughFacts
    <3>2. \A b \in Block \ {} : RootOf(f, dir, b) => b \in V
      BY <1>3
    <3>3. \A b \in V \cap Block : \A c \in Block \ {} : Flow(f, dir, b, c) => c \in V
      BY <1>4
    <3> HIDE DEF V
    <3> QED  BY <3>1, <3>2, <3>3
  <2>2. V \subseteq Through(f, dir, {})
    BY <1>7
  <2> QED  BY <2>1, <2>2
<1>9. ASSUME NEW a \in Block, NEW b \in Block, num[b] # 0, b \notin Through(f, dir, {a})
      PROVE  num[a] # 0 /\ DominatesIn(n, E, num[a], num[b])
  <2>1. num[a] # 0
    <3> SUFFICES ASSUME num[a] = 0 PROVE FALSE
      OBVIOUS
    <3>1. {a} \cap V = {}
      OBVIOUS
    <3>2. b \in V
      BY <1>9
    <3> HIDE DEF V
    <3> QED  BY <1>7, <1>9, <3>1, <3>2
  <2> DEFINE X == Through(f, dir, {a})
             Q == {w \in 0 .. n : w = 0 \/ blk[w] \in X}
  <2>2. /\ \A c \in Block \ {a} : RootOf(f, dir, c) => c \in X
        /\ \A p \in X : \A c \in Block \ {a} : Flow(f, dir, p, c) => c \in X
    BY ThroughFacts
  <2> HIDE DEF X
  <2>3. ASSUME NEW e \in E, e[1] \in Q, e[2] # num[a] PROVE e[2] \in Q
    <3>1. e[1] \in 0 .. n /\ e[2] \in 1 .. n /\ blk[e[2]] \in Block \ {a}
      BY <1>1, <1>5, <2>3
    <3>2. blk[e[2]] \in X
      <4>1. CASE e[1] = 0
        BY <1>5, <2>2, <3>1, <4>1
      <4>2. CASE e[1] # 0
        BY <1>5, <2>2, <2>3, <3>1, <4>2
      <4> QED  BY <4>1, <4>2
    <3> QED  BY <3>1, <3>2
  <2>4. num[b] \notin Q
    BY <1>1, <1>9 DEF X
  <2>5. Q \in SUBSET (0 .. n) /\ 0 \in Q
    BY <1>1
  <2> HIDE DEF Q
  <2>6. ClosedBut(E, num[a], Q)
    BY <2>3, <2>5 DEF ClosedBut
  <2> QED  BY <2>1, <2>4, <2>5, <2>6 DEF DominatesIn
<1>10. ASSUME NEW a \in Block, NEW b \in Block, num[b] # 0, num[a] # 0,
              DominatesIn(n, E, num[a], num[b])
       PROVE  b \notin Through(f, dir, {a})
  <2>1. PICK Q \in SUBSET (0 .. n) : ClosedBut(E, num[a], Q) /\ num[b] \notin Q
    BY <1>10 DEF DominatesIn
  <2>2. 0 \in Q /\ \A e \in E : e[1] \in Q /\ e[2] # num[a] => e[2] \in Q
    BY <1>10, <2>1 DEF ClosedBut
  <2> DEFINE S == {c \in V : num[c] \in Q}
  <2>3. ASSUME NEW c \in Block \ {a}, RootOf(f, dir, c) PROVE c \in S
    <3>1. c \in V /\ num[c] \in 1 .. n /\ blk[num[c]] = c /\ blk[num[a]] = a
      BY <1>1, <1>3, <1>10, <2>3
    <3>2. EdgeTo(f, dir, blk, 0, blk[num[c]])
      BY <2>3, <3>1 DEF EdgeTo
    <3>3. <<0, num[c]>> \in E
      BY <1>1, <1>6, <3>1, <3>2
    <3>4. num[c] # num[a]
      BY <3>1
    <3>5. num[c] \in Q
      BY <2>2, <3>3, <3>4
    <3> QED  BY <3>1, <3>5
  <2>4. ASSUME NEW p \in S \cap Block, NEW c \in Block \ {a}, Flow(f, dir, p, c) PROVE c \in S
    <3>1. c \in V
      BY <1>4, <2>4
    <3>2. num[c] \in 1 .. n /\ blk[num[c]] = c /\ blk[num[a]] = a
      BY <1>1, <1>10, <3>1
    <3>3. num[p] \in 1 .. n /\ blk[num[p]] = p
      BY <1>1
    <3>4. EdgeTo(f, dir, blk, num[p], blk[num[c]])
      BY <2>4, <3>2, <3>3 DEF EdgeTo
    <3>5. <<num[p], num[c]>> \in E
      BY <1>1, <1>6, <3>2, <3>3, <3>4
    <3>6. num[c] # num[a]
      BY <3>2
    <3>7. num[c] \in Q
      BY <2>2, <3>5, <3>6
    <3> QED  BY <3>1, <3>7
  <2>5. Through(f, dir, {a}) \subseteq S
    <3>1. \A T : (\A c \in Block \ {a} : RootOf(f, dir, c) => c \in T)
                 /\ (\A p \in T \cap Block : \A c \in Block \ {a} : Flow(f, dir, p, c) => c \in T)
             => Through(f, dir, {a}) \subseteq T
      BY ThroughFacts
    <3> HIDE DEF S
    <3> QED  BY <2>3, <2>4, <3>1
  <2> QED  BY <2>1, <2>5
<1> QED  BY <1>8, <1>9, <1>10 DEF E

(***************************************************************************)
(* A dominator tree: its order, its links and its preorder.                *)
(***************************************************************************)

\* up makes V a forest, with rk growing towards its roots, and D relates a node
\* to itself and to what is below it.
DomTree(V, up, rk, D) ==
    /\ None \notin V
    /\ \E m \in Nat : rk \in [V -> 1 .. m]
    /\ \A a, b \in V : rk[a] = rk[b] => a = b
    /\ \A b \in V : up[b] = None \/ (up[b] \in V /\ rk[b] < rk[up[b]])
    /\ \A a, b \in V : <<a, b>> \in D <=> a = b \/ (up[b] # None /\ <<a, up[b]>> \in D)

\* Induction from the roots down.
LEMMA TreeInduction ==
    ASSUME NEW V, NEW up, NEW rk, NEW D, DomTree(V, up, rk, D), NEW S,
           \A b \in V : up[b] = None \/ up[b] \in S => b \in S
    PROVE  V \subseteq S
<1>1. PICK m \in Nat : rk \in [V -> 1 .. m]
  BY DEF DomTree
<1> DEFINE C == {k \in Nat : \E b \in V \ S : k = m - rk[b]}
<1>2. C = {}
  <2> SUFFICES ASSUME C # {} PROVE FALSE
    OBVIOUS
  <2>1. PICK k \in C : \A j \in C : k <= j
    BY NatMin
  <2>2. PICK b \in V \ S : k = m - rk[b]
    OBVIOUS
  <2>3. up[b] \in V /\ rk[b] < rk[up[b]] /\ up[b] \notin S
    BY <2>2 DEF DomTree
  <2>4. rk[b] \in 1 .. m /\ rk[up[b]] \in 1 .. m
    BY <1>1, <2>2, <2>3
  <2>5. m - rk[up[b]] \in Nat /\ m - rk[up[b]] < k
    BY <2>2, <2>3, <2>4
  <2>6. m - rk[up[b]] \in C
    BY <2>3, <2>5
  <2> HIDE DEF C
  <2> QED  BY <2>1, <2>2, <2>4, <2>5, <2>6
<1>3. ASSUME NEW b \in V, b \notin S PROVE FALSE
  <2>1. rk[b] \in 1 .. m
    BY <1>1
  <2>2. m - rk[b] \in Nat
    BY <2>1
  <2> QED  BY <1>2, <1>3, <2>2
<1> QED  BY <1>3

\* D is a partial order that ends at the roots; what is above one node is a
\* chain.
TreeOrdered(V, up, rk, D) ==
    \A a, b, c \in V :
        /\ <<a, a>> \in D
        /\ <<a, b>> \in D => a = b \/ rk[b] < rk[a]
        /\ <<a, b>> \in D /\ <<b, c>> \in D => <<a, c>> \in D
        /\ <<a, c>> \in D /\ <<b, c>> \in D => <<a, b>> \in D \/ <<b, a>> \in D
        /\ up[b] # None => <<up[b], b>> \in D
        /\ up[b] = None /\ <<a, b>> \in D => a = b

\* A tree has this order.
LEMMA TreeOrder ==
    ASSUME NEW V, NEW up, NEW rk, NEW D, DomTree(V, up, rk, D)
    PROVE  TreeOrdered(V, up, rk, D)
<1> SUFFICES ASSUME NEW a \in V, NEW b \in V, NEW c \in V
             PROVE  /\ <<a, a>> \in D
                    /\ <<a, b>> \in D => a = b \/ rk[b] < rk[a]
                    /\ <<a, b>> \in D /\ <<b, c>> \in D => <<a, c>> \in D
                    /\ <<a, c>> \in D /\ <<b, c>> \in D => <<a, b>> \in D \/ <<b, a>> \in D
                    /\ up[b] # None => <<up[b], b>> \in D
                    /\ up[b] = None /\ <<a, b>> \in D => a = b
  BY DEF TreeOrdered
<1>1. /\ \A x \in V : up[x] = None \/ (up[x] \in V /\ rk[x] < rk[up[x]])
      /\ \A x, y \in V : <<x, y>> \in D <=> x = y \/ (up[y] # None /\ <<x, up[y]>> \in D)
  BY DEF DomTree
<1>2. \A x \in V : rk[x] \in Int
  BY DEF DomTree
<1>3. \A x \in V : <<x, x>> \in D
  BY <1>1
<1>4. <<a, b>> \in D => a = b \/ rk[b] < rk[a]
  <2> DEFINE S == {y \in V : <<a, y>> \in D => a = y \/ rk[y] < rk[a]}
  <2>1. ASSUME NEW y \in V, up[y] = None \/ up[y] \in S PROVE y \in S
    <3> SUFFICES ASSUME <<a, y>> \in D, a # y PROVE rk[y] < rk[a]
      OBVIOUS
    <3>1. up[y] # None /\ <<a, up[y]>> \in D
      BY <1>1
    <3>2. up[y] \in V /\ rk[y] < rk[up[y]] /\ (a = up[y] \/ rk[up[y]] < rk[a])
      BY <1>1, <2>1, <3>1
    <3> QED  BY <1>2, <3>2
  <2>2. V \subseteq S
    <3> HIDE DEF S
    <3> QED  BY <2>1, TreeInduction
  <2> QED  BY <2>2
<1>5. <<a, b>> \in D /\ <<b, c>> \in D => <<a, c>> \in D
  <2> DEFINE S == {y \in V : <<a, b>> \in D /\ <<b, y>> \in D => <<a, y>> \in D}
  <2>1. ASSUME NEW y \in V, up[y] = None \/ up[y] \in S PROVE y \in S
    BY <1>1, <2>1
  <2>2. V \subseteq S
    <3> HIDE DEF S
    <3> QED  BY <2>1, TreeInduction
  <2> QED  BY <2>2
<1>6. <<a, c>> \in D /\ <<b, c>> \in D => <<a, b>> \in D \/ <<b, a>> \in D
  <2> DEFINE S == {y \in V : <<a, y>> \in D /\ <<b, y>> \in D => <<a, b>> \in D \/ <<b, a>> \in D}
  <2>1. ASSUME NEW y \in V, up[y] = None \/ up[y] \in S PROVE y \in S
    BY <1>1, <2>1
  <2>2. V \subseteq S
    <3> HIDE DEF S
    <3> QED  BY <2>1, TreeInduction
  <2> QED  BY <2>2
<1>7. up[b] # None => <<up[b], b>> \in D
  BY <1>1, <1>3
<1>8. up[b] = None /\ <<a, b>> \in D => a = b
  BY <1>1
<1> QED  BY <1>3, <1>4, <1>5, <1>6, <1>7, <1>8

\* Two children of a node are not over one another.
LEMMA SiblingsApart ==
    ASSUME NEW V, NEW up, NEW rk, NEW D, DomTree(V, up, rk, D), NEW a \in V, NEW b \in V,
           a # b, up[a] = up[b]
    PROVE  <<a, b>> \notin D
<1> SUFFICES ASSUME <<a, b>> \in D PROVE FALSE
  OBVIOUS
<1>0. TreeOrdered(V, up, rk, D)
  BY TreeOrder
<1>1. up[b] # None /\ <<a, up[b]>> \in D
  BY DEF DomTree
<1>2. up[b] \in V /\ rk[a] < rk[up[b]]
  BY <1>1 DEF DomTree
<1>3. a = up[b] \/ rk[up[b]] < rk[a]
  BY <1>0, <1>1, <1>2 DEF TreeOrdered
<1>4. rk[a] \in Int /\ rk[up[b]] \in Int
  BY <1>2 DEF DomTree
<1> QED  BY <1>2, <1>3, <1>4

\* Below a node is what is below its children; every node is below a root.
LEMMA TreeDown ==
    ASSUME NEW V, NEW up, NEW rk, NEW D, DomTree(V, up, rk, D), NEW b \in V, NEW x \in V
    PROVE  /\ <<b, x>> \in D /\ x # b => \E c \in V : up[c] = b /\ <<c, x>> \in D
           /\ \E t \in V : up[t] = None /\ <<t, x>> \in D
<1>1. /\ \A y \in V : up[y] = None \/ (up[y] \in V /\ rk[y] < rk[up[y]])
      /\ \A y, z \in V : <<y, z>> \in D <=> y = z \/ (up[z] # None /\ <<y, up[z]>> \in D)
  BY DEF DomTree
<1>2. <<b, x>> \in D /\ x # b => \E c \in V : up[c] = b /\ <<c, x>> \in D
  <2> DEFINE S == {y \in V : <<b, y>> \in D /\ y # b => \E c \in V : up[c] = b /\ <<c, y>> \in D}
  <2>1. ASSUME NEW y \in V, up[y] = None \/ up[y] \in S PROVE y \in S
    <3> SUFFICES ASSUME <<b, y>> \in D, y # b PROVE \E c \in V : up[c] = b /\ <<c, y>> \in D
      OBVIOUS
    <3>1. up[y] # None /\ <<b, up[y]>> \in D /\ up[y] \in V
      BY <1>1
    <3>2. CASE up[y] = b
      BY <1>1, <3>2
    <3>3. CASE up[y] # b
      <4>1. PICK c \in V : up[c] = b /\ <<c, up[y]>> \in D
        BY <2>1, <3>1, <3>3
      <4>2. <<c, y>> \in D
        BY <1>1, <3>1, <4>1
      <4> QED  BY <4>1, <4>2
    <3> QED  BY <3>2, <3>3
  <2>2. V \subseteq S
    <3> HIDE DEF S
    <3> QED  BY <2>1, TreeInduction
  <2> QED  BY <2>2
<1>3. \E t \in V : up[t] = None /\ <<t, x>> \in D
  <2> DEFINE S == {y \in V : \E t \in V : up[t] = None /\ <<t, y>> \in D}
  <2>1. ASSUME NEW y \in V, up[y] = None \/ up[y] \in S PROVE y \in S
    <3>1. CASE up[y] = None
      BY <1>1, <3>1
    <3>2. CASE up[y] # None
      <4>1. PICK t \in V : up[t] = None /\ <<t, up[y]>> \in D
        BY <2>1, <3>2
      <4>2. <<t, y>> \in D
        BY <1>1, <3>2, <4>1
      <4> QED  BY <4>1, <4>2
    <3> QED  BY <3>1, <3>2
  <2>2. V \subseteq S
    <3> HIDE DEF S
    <3> QED  BY <2>1, TreeInduction
  <2> QED  BY <2>2
<1> QED  BY <1>2, <1>3

\* The links of the children of a node: the last in rank first, then down.
LinkedTree(V, up, rk, child, sib) ==
    /\ \A p \in V :
          /\ child[p] = None => \A c \in V : up[c] # p
          /\ child[p] # None => child[p] \in V /\ up[child[p]] = p
                                /\ \A c \in V : up[c] = p => rk[c] <= rk[child[p]]
    /\ \A b \in V :
          /\ sib[b] = None => up[b] = None \/ \A c \in V : up[c] = up[b] => rk[b] <= rk[c]
          /\ sib[b] # None => /\ sib[b] \in V /\ up[b] # None /\ up[sib[b]] = up[b]
                              /\ rk[sib[b]] < rk[b]
                              /\ \A c \in V : up[c] = up[b] /\ rk[c] < rk[b] => rk[c] <= rk[sib[b]]

\* What a block on the stack stands for: what is below it and the siblings
\* linked from it.
Siblings(V, up, rk, b) == {c \in V : c = b \/ (up[b] # None /\ up[c] = up[b] /\ rk[c] < rk[b])}
Pending(V, up, rk, D, b) == {x \in V : \E c \in Siblings(V, up, rk, b) : <<c, x>> \in D}

\* The block is taken from the stack for its child and its sibling.
LEMMA PendingSplits ==
    ASSUME NEW V, NEW up, NEW rk, NEW D, DomTree(V, up, rk, D), NEW child, NEW sib,
           LinkedTree(V, up, rk, child, sib), NEW b \in V
    PROVE  LET P(y) == Pending(V, up, rk, D, y)
               C == IF child[b] = None THEN {} ELSE P(child[b])
               S == IF sib[b] = None THEN {} ELSE P(sib[b])
           IN  /\ P(b) = {b} \cup C \cup S
               /\ b \notin C /\ b \notin S /\ C \cap S = {}
               /\ \A x \in V : <<b, x>> \in D => x = b \/ x \in C
               /\ \A x \in C : <<b, x>> \in D
<1> DEFINE P(y) == Pending(V, up, rk, D, y)
           C == IF child[b] = None THEN {} ELSE P(child[b])
           S == IF sib[b] = None THEN {} ELSE P(sib[b])
<1>0. TreeOrdered(V, up, rk, D)
  BY TreeOrder
<1>1. /\ \A y \in V : up[y] = None \/ (up[y] \in V /\ rk[y] < rk[up[y]])
      /\ \A y \in V : rk[y] \in Int
      /\ None \notin V
  BY DEF DomTree
<1>2. \A x \in C : \E c \in V : up[c] = b /\ <<c, x>> \in D /\ x \in V
  BY <1>1 DEF Pending, Siblings, LinkedTree
<1>3. ASSUME NEW c \in V, up[c] = b, NEW x \in V, <<c, x>> \in D PROVE x \in C
  <2>1. child[b] # None /\ child[b] \in V /\ up[child[b]] = b /\ rk[c] <= rk[child[b]]
    BY <1>3 DEF LinkedTree
  <2>2. c = child[b] \/ rk[c] < rk[child[b]]
    <3>1. rk[c] \in Int /\ rk[child[b]] \in Int
      BY <1>1, <2>1
    <3>2. rk[c] = rk[child[b]] => c = child[b]
      BY <2>1 DEF DomTree
    <3> QED  BY <2>1, <3>1, <3>2
  <2>3. c \in Siblings(V, up, rk, child[b])
    BY <1>1, <1>3, <2>1, <2>2 DEF Siblings
  <2> QED  BY <1>3, <2>1, <2>3 DEF Pending
<1>4. ASSUME NEW x \in S PROVE \E c \in V : up[c] = up[b] /\ up[b] # None /\ rk[c] < rk[b]
                                            /\ <<c, x>> \in D /\ x \in V
  <2>1. /\ sib[b] \in V /\ up[b] # None /\ up[sib[b]] = up[b] /\ rk[sib[b]] < rk[b]
        /\ x \in P(sib[b])
    BY DEF LinkedTree
  <2>2. PICK c \in Siblings(V, up, rk, sib[b]) : <<c, x>> \in D /\ x \in V
    BY <2>1 DEF Pending
  <2>3. c \in V /\ up[c] = up[b] /\ (c = sib[b] \/ rk[c] < rk[sib[b]])
    BY <2>1, <2>2 DEF Siblings
  <2>4. rk[c] < rk[b]
    <3>1. rk[c] \in Int /\ rk[sib[b]] \in Int /\ rk[b] \in Int
      BY <1>1, <2>1, <2>3
    <3> QED  BY <2>1, <2>3, <3>1
  <2> QED  BY <2>1, <2>2, <2>3, <2>4
<1>5. ASSUME NEW c \in V, up[b] # None, up[c] = up[b], rk[c] < rk[b], NEW x \in V, <<c, x>> \in D
      PROVE  x \in S
  <2>0. rk[c] \in Int /\ rk[b] \in Int
    BY <1>1
  <2>1. /\ sib[b] # None /\ sib[b] \in V /\ up[sib[b]] = up[b] /\ rk[c] <= rk[sib[b]]
    BY <1>5, <2>0 DEF LinkedTree
  <2>2. c = sib[b] \/ rk[c] < rk[sib[b]]
    <3>1. rk[c] \in Int /\ rk[sib[b]] \in Int
      BY <1>1, <2>1
    <3>2. rk[c] = rk[sib[b]] => c = sib[b]
      BY <2>1 DEF DomTree
    <3> QED  BY <2>1, <3>1, <3>2
  <2>3. c \in Siblings(V, up, rk, sib[b])
    BY <1>5, <2>1, <2>2 DEF Siblings
  <2> QED  BY <1>5, <2>1, <2>3 DEF Pending
<1> HIDE DEF C, S
<1>6. \A x \in C : <<b, x>> \in D
  <2> SUFFICES ASSUME NEW x \in C PROVE <<b, x>> \in D
    OBVIOUS
  <2>1. PICK c \in V : up[c] = b /\ <<c, x>> \in D /\ x \in V
    BY <1>2
  <2>2. <<b, c>> \in D
    BY <1>0, <1>1, <2>1 DEF TreeOrdered
  <2> QED  BY <1>0, <2>1, <2>2 DEF TreeOrdered
<1>7. \A x \in V : <<b, x>> \in D => x = b \/ x \in C
  <2>1. \A x \in V : <<b, x>> \in D /\ x # b => \E c \in V : up[c] = b /\ <<c, x>> \in D
    BY TreeDown
  <2> QED  BY <1>3, <2>1
<1>8. b \notin C
  <2> SUFFICES ASSUME b \in C PROVE FALSE
    OBVIOUS
  <2>1. PICK c \in V : up[c] = b /\ <<c, b>> \in D
    BY <1>2
  <2>2. rk[c] < rk[b]
    BY <1>1, <2>1
  <2>3. c = b \/ rk[b] < rk[c]
    BY <1>0, <2>1 DEF TreeOrdered
  <2>4. rk[c] \in Int /\ rk[b] \in Int
    BY <1>1
  <2> QED  BY <2>2, <2>3, <2>4
<1>9. ASSUME NEW x \in V, x \in S, <<b, x>> \in D PROVE FALSE
  <2>1. PICK c \in V : up[c] = up[b] /\ up[b] # None /\ rk[c] < rk[b] /\ <<c, x>> \in D
    BY <1>4, <1>9
  <2>2. c # b
    BY <1>1, <2>1
  <2>3. <<b, c>> \notin D /\ <<c, b>> \notin D
    BY <2>1, <2>2, SiblingsApart
  <2> QED  BY <1>0, <1>9, <2>1, <2>3 DEF TreeOrdered
<1>10. b \notin S
  BY <1>0, <1>9 DEF TreeOrdered
<1>11. C \cap S = {}
  <2>1. \A x \in C : x \in V
    BY <1>2
  <2> QED  BY <1>6, <1>9, <2>1
<1>12. ASSUME NEW x PROVE x \in P(b) <=> x \in {b} \cup C \cup S
  <2>1. x \in P(b) <=> x \in V /\ \E c \in V : (c = b \/ (up[b] # None /\ up[c] = up[b] /\ rk[c] < rk[b]))
                                              /\ <<c, x>> \in D
    BY DEF Pending, Siblings
  <2>2. ASSUME x \in P(b) PROVE x \in {b} \cup C \cup S
    BY <1>5, <1>7, <2>1, <2>2
  <2>3. ASSUME x \in {b} \cup C \cup S PROVE x \in P(b)
    <3>1. CASE x = b
      <4>1. <<b, b>> \in D
        BY <1>0 DEF TreeOrdered
      <4> QED  BY <2>1, <3>1, <4>1
    <3>2. CASE x \in C
      <4>1. <<b, x>> \in D /\ x \in V
        BY <1>2, <1>6, <3>2
      <4> QED  BY <2>1, <4>1
    <3>3. CASE x \in S
      BY <1>4, <2>1, <3>3
    <3> QED  BY <2>3, <3>1, <3>2, <3>3
  <2> QED  BY <2>2, <2>3
<1>13. P(b) = {b} \cup C \cup S
  <2> HIDE DEF P
  <2> QED  BY <1>12
<1> QED  BY <1>6, <1>7, <1>8, <1>10, <1>11, <1>13 DEF C, S

\* What is over one block that b stands for, and is none of them, is over all.
LEMMA PendingUnder ==
    ASSUME NEW V, NEW up, NEW rk, NEW D, DomTree(V, up, rk, D), NEW b \in V, NEW a \in V,
           NEW z \in Pending(V, up, rk, D, b), a \notin Pending(V, up, rk, D, b), <<a, z>> \in D
    PROVE  \A x \in Pending(V, up, rk, D, b) : <<a, x>> \in D
<1>0. TreeOrdered(V, up, rk, D)
  BY TreeOrder
<1>1. \A x, y \in V : <<x, y>> \in D <=> x = y \/ (up[y] # None /\ <<x, up[y]>> \in D)
  BY DEF DomTree
<1>2. PICK c \in V : (c = b \/ (up[b] # None /\ up[c] = up[b] /\ rk[c] < rk[b])) /\ <<c, z>> \in D
                     /\ z \in V
  BY DEF Pending, Siblings
<1>3. <<c, a>> \notin D
  BY <1>2 DEF Pending, Siblings
<1>4. <<a, c>> \in D /\ a # c
  <2>1. <<a, c>> \in D
    BY <1>0, <1>2, <1>3 DEF TreeOrdered
  <2>2. <<c, c>> \in D
    BY <1>0 DEF TreeOrdered
  <2> QED  BY <1>3, <2>1, <2>2
<1>5. up[b] # None /\ <<a, up[b]>> \in D
  BY <1>1, <1>2, <1>4
<1> SUFFICES ASSUME NEW x \in Pending(V, up, rk, D, b) PROVE <<a, x>> \in D
  OBVIOUS
<1>6. PICK d \in V : (d = b \/ (up[b] # None /\ up[d] = up[b] /\ rk[d] < rk[b])) /\ <<d, x>> \in D
                     /\ x \in V
  BY DEF Pending, Siblings
<1>7. <<a, d>> \in D
  BY <1>1, <1>5, <1>6
<1> QED  BY <1>0, <1>6, <1>7 DEF TreeOrdered

\* The preorder is at number k, with the blocks T on the stack. What waits is
\* what the stack stands for, once; a numbered block over something that waits
\* is over all that was numbered since and all that comes before; the numbers
\* that lie between those of a block and one below it are below it.
PreorderOf(V, up, rk, D, pre, k, T) ==
    /\ k \in Nat /\ T \in Seq(V)
    /\ \A b \in V : pre[b] \in 0 .. k
    /\ \A x \in V : pre[x] = 0 => \E i \in 1 .. Len(T) : x \in Pending(V, up, rk, D, T[i])
    /\ \A i \in 1 .. Len(T) :
          /\ \A x \in Pending(V, up, rk, D, T[i]) : pre[x] = 0
          /\ up[T[i]] # None => pre[up[T[i]]] # 0
    /\ \A i, j \in 1 .. Len(T) : i # j =>
          Pending(V, up, rk, D, T[i]) \cap Pending(V, up, rk, D, T[j]) = {}
    /\ \A a \in V : pre[a] # 0 => \A j \in 1 .. Len(T) :
          (\E z \in Pending(V, up, rk, D, T[j]) : <<a, z>> \in D) =>
             /\ \A c \in V : pre[a] <= pre[c] => <<a, c>> \in D
             /\ \A i \in 1 .. (j - 1) : \A y \in Pending(V, up, rk, D, T[i]) : <<a, y>> \in D
    /\ \A a, b \in V : pre[b] # 0 /\ <<a, b>> \in D => pre[a] # 0 /\ pre[a] <= pre[b]
    /\ \A a, b, c \in V : pre[a] # 0 /\ <<a, c>> \in D /\ pre[a] <= pre[b] /\ pre[b] <= pre[c]
          => <<a, b>> \in D

\* R is the stack T with c and s, unless they are None, in the place of the top;
\* o says where each item comes from.
PoppedBy(o, T, R, c, s) ==
    /\ o \in [1 .. Len(R) -> {-1, 0} \cup 2 .. Len(T)]
    /\ \A i, j \in 1 .. Len(R) : i < j => o[i] < o[j]
    /\ \A i \in 1 .. Len(R) :
          /\ o[i] = -1 => c # None /\ R[i] = c
          /\ o[i] = 0 => s # None /\ R[i] = s
          /\ o[i] \in 2 .. Len(T) => R[i] = T[o[i]]
    /\ c # None => \E i \in 1 .. Len(R) : o[i] = -1
    /\ s # None => \E i \in 1 .. Len(R) : o[i] = 0
    /\ \A q \in 2 .. Len(T) : \E i \in 1 .. Len(R) : o[i] = q

\* The top of the stack gets the next number.
LEMMA PreorderGrows ==
    ASSUME NEW V, NEW up, NEW rk, NEW D, DomTree(V, up, rk, D), NEW child, NEW sib,
           LinkedTree(V, up, rk, child, sib), NEW pre, NEW k, NEW T,
           PreorderOf(V, up, rk, D, pre, k, T), T # <<>>,
           NEW R \in Seq(V), NEW o, PoppedBy(o, T, R, child[T[1]], sib[T[1]]),
           NEW pre2, pre2[T[1]] = k + 1, \A x \in V : x # T[1] => pre2[x] = pre[x]
    PROVE  PreorderOf(V, up, rk, D, pre2, k + 1, R)
<1> DEFINE b == T[1]
           P(y) == Pending(V, up, rk, D, y)
           C == IF child[b] = None THEN {} ELSE P(child[b])
           S == IF sib[b] = None THEN {} ELSE P(sib[b])
<1>1. /\ k \in Nat /\ T \in Seq(V) /\ Len(T) \in Nat /\ 1 \in 1 .. Len(T) /\ b \in V
      /\ \A i \in 1 .. Len(T) : T[i] \in V
      /\ Len(R) \in Nat /\ \A i \in 1 .. Len(R) : R[i] \in V
  BY DEF PreorderOf
<1>2. /\ P(b) = {b} \cup C \cup S
      /\ b \notin C /\ b \notin S /\ C \cap S = {}
      /\ \A x \in V : <<b, x>> \in D => x = b \/ x \in C
      /\ \A x \in C : <<b, x>> \in D
  BY <1>1, PendingSplits
<1>3. \A x \in V : pre[x] \in 0 .. k
  BY DEF PreorderOf
<1>4. \A x \in V : pre[x] = 0 => \E i \in 1 .. Len(T) : x \in P(T[i])
  BY DEF PreorderOf
<1>5. \A i \in 1 .. Len(T) : \A x \in P(T[i]) : pre[x] = 0
  BY DEF PreorderOf
<1>6. \A i \in 1 .. Len(T) : up[T[i]] # None => pre[up[T[i]]] # 0
  BY DEF PreorderOf
<1>7. \A i, j \in 1 .. Len(T) : i # j => P(T[i]) \cap P(T[j]) = {}
  BY DEF PreorderOf
<1>8. ASSUME NEW a \in V, pre[a] # 0, NEW j \in 1 .. Len(T), NEW z \in P(T[j]), <<a, z>> \in D
      PROVE  /\ \A c \in V : pre[a] <= pre[c] => <<a, c>> \in D
             /\ \A i \in 1 .. (j - 1) : \A y \in P(T[i]) : <<a, y>> \in D
  BY <1>8 DEF PreorderOf
<1>9. \A x, y \in V : pre[y] # 0 /\ <<x, y>> \in D => pre[x] # 0 /\ pre[x] <= pre[y]
  BY DEF PreorderOf
<1>10. \A x, y, z \in V : pre[x] # 0 /\ <<x, z>> \in D /\ pre[x] <= pre[y] /\ pre[y] <= pre[z]
          => <<x, y>> \in D
  BY DEF PreorderOf
<1>11. /\ \A y \in V : up[y] = None \/ (up[y] \in V /\ rk[y] < rk[up[y]])
       /\ \A x, y \in V : <<x, y>> \in D <=> x = y \/ (up[y] # None /\ <<x, up[y]>> \in D)
       /\ \A y \in V : rk[y] \in Int
  BY DEF DomTree
<1>12. \A y : P(y) \subseteq V
  BY DEF Pending
<1>13. pre2[b] = k + 1 /\ \A x \in V : x # b => pre2[x] = pre[x]
  OBVIOUS
<1>14. \A x \in P(b) : pre[x] = 0
  BY <1>1, <1>5
<1>15. pre[b] = 0
  BY <1>2, <1>14
\* Where the items come from.
<1>16. ASSUME NEW i \in 1 .. Len(R)
       PROVE  \/ o[i] = -1 /\ P(R[i]) = C /\ child[b] # None /\ R[i] = child[b]
              \/ o[i] = 0 /\ P(R[i]) = S /\ sib[b] # None /\ R[i] = sib[b]
              \/ o[i] \in 2 .. Len(T) /\ R[i] = T[o[i]]
  BY DEF PoppedBy
<1>17. /\ \A i, j \in 1 .. Len(R) : i < j => o[i] < o[j]
       /\ \A i \in 1 .. Len(R) : o[i] \in {-1, 0} \cup 2 .. Len(T)
       /\ child[b] # None => \E i \in 1 .. Len(R) : o[i] = -1
       /\ sib[b] # None => \E i \in 1 .. Len(R) : o[i] = 0
       /\ \A q \in 2 .. Len(T) : \E i \in 1 .. Len(R) : o[i] = q
  BY DEF PoppedBy
<1>18. \A x \in C : child[b] # None /\ x \in P(child[b])
  OBVIOUS
<1>19. \A x \in S : sib[b] # None /\ x \in P(sib[b])
  OBVIOUS
<1>20. /\ child[b] # None => child[b] \in V /\ up[child[b]] = b
       /\ sib[b] # None => sib[b] \in V /\ up[b] # None /\ up[sib[b]] = up[b]
  BY <1>1 DEF LinkedTree
<1> HIDE DEF b, P, C, S
\* The conjuncts.
<1>21. \A x \in V : pre2[x] \in 0 .. (k + 1)
  BY <1>1, <1>3, <1>13
<1>22. ASSUME NEW x \in V, pre2[x] = 0 PROVE \E i \in 1 .. Len(R) : x \in P(R[i])
  <2>1. x # b
    BY <1>1, <1>13, <1>22
  <2>2. PICK i \in 1 .. Len(T) : x \in P(T[i])
    BY <1>4, <1>13, <1>22, <2>1
  <2>3. CASE i = 1
    <3>1. x \in C \/ x \in S
      BY <1>2, <2>1, <2>2, <2>3 DEF b
    <3>2. CASE x \in C
      <4>1. PICK j \in 1 .. Len(R) : o[j] = -1
        BY <1>17, <1>18, <3>2
      <4>2. P(R[j]) = C
        BY <1>16, <4>1
      <4> QED  BY <3>2, <4>2
    <3>3. CASE x \in S
      <4>1. PICK j \in 1 .. Len(R) : o[j] = 0
        BY <1>17, <1>19, <3>3
      <4>2. P(R[j]) = S
        BY <1>16, <4>1
      <4> QED  BY <3>3, <4>2
    <3> QED  BY <3>1, <3>2, <3>3
  <2>4. CASE i # 1
    <3>1. i \in 2 .. Len(T)
      BY <2>4
    <3>2. PICK j \in 1 .. Len(R) : o[j] = i
      BY <1>17, <3>1
    <3>3. R[j] = T[i]
      BY <1>16, <3>1, <3>2
    <3> QED  BY <2>2, <3>3
  <2> QED  BY <2>3, <2>4
<1>23. ASSUME NEW i \in 1 .. Len(R), NEW x \in P(R[i]) PROVE x # b /\ pre[x] = 0
  <2>1. CASE P(R[i]) = C
    BY <1>2, <1>14, <1>23, <2>1
  <2>2. CASE P(R[i]) = S
    BY <1>2, <1>14, <1>23, <2>2
  <2>3. CASE o[i] \in 2 .. Len(T) /\ R[i] = T[o[i]]
    <3>1. o[i] \in 1 .. Len(T) /\ o[i] # 1
      BY <1>1, <2>3
    <3>2. P(T[o[i]]) \cap P(T[1]) = {}
      BY <1>1, <1>7, <3>1
    <3>3. b \in P(T[1])
      BY <1>2 DEF b
    <3> QED  BY <1>5, <1>23, <2>3, <3>1, <3>2, <3>3
  <2> QED  BY <1>16, <2>1, <2>2, <2>3
<1>24. \A i \in 1 .. Len(R) : \A x \in P(R[i]) : pre2[x] = 0
  BY <1>12, <1>13, <1>23
<1>25. ASSUME NEW i \in 1 .. Len(R), up[R[i]] # None PROVE pre2[up[R[i]]] # 0
  <2>1. CASE o[i] = -1 /\ child[b] # None /\ R[i] = child[b]
    BY <1>1, <1>13, <1>20, <2>1
  <2>2. CASE o[i] = 0 /\ sib[b] # None /\ R[i] = sib[b]
    <3>1. up[R[i]] = up[b] /\ up[b] # None /\ up[b] \in V
      BY <1>1, <1>11, <1>20, <2>2
    <3>2. pre[up[b]] # 0
      BY <1>1, <1>6, <3>1 DEF b
    <3>3. up[b] # b
      BY <1>15, <3>2
    <3> QED  BY <1>13, <3>1, <3>2, <3>3
  <2>3. CASE o[i] \in 2 .. Len(T) /\ R[i] = T[o[i]]
    <3>1. o[i] \in 1 .. Len(T)
      BY <1>1, <2>3
    <3>2. pre[up[R[i]]] # 0 /\ up[R[i]] \in V
      BY <1>1, <1>6, <1>11, <1>25, <2>3, <3>1
    <3>3. up[R[i]] # b
      BY <1>15, <3>2
    <3> QED  BY <1>13, <3>2, <3>3
  <2> QED  BY <1>16, <2>1, <2>2, <2>3
<1>26. ASSUME NEW i \in 1 .. Len(R), NEW j \in 1 .. Len(R), i < j
       PROVE  P(R[i]) \cap P(R[j]) = {}
  <2>1. o[i] < o[j]
    BY <1>17, <1>26
  <2>2. ASSUME NEW q \in 1 .. Len(R), o[q] \in {-1, 0} PROVE P(R[q]) \subseteq P(T[1])
    <3>1. o[q] \notin 2 .. Len(T)
      BY <2>2
    <3> QED  BY <1>2, <1>16, <3>1 DEF b
  <2>3. CASE o[j] \in 2 .. Len(T)
    <3>1. o[j] \in 1 .. Len(T) /\ o[j] # 1 /\ R[j] = T[o[j]]
      BY SMTT(60), <1>1, <1>16, <2>3
    <3>2. CASE o[i] \in {-1, 0}
      BY <1>1, <1>7, <2>2, <3>1, <3>2
    <3>3. CASE o[i] \in 2 .. Len(T)
      <4>1. o[i] \in 1 .. Len(T) /\ R[i] = T[o[i]] /\ o[i] # o[j]
        BY <1>1, <1>16, <2>1, <3>3
      <4> QED  BY <1>7, <3>1, <4>1
    <3> QED  BY <1>17, <3>2, <3>3
  <2>4. CASE o[j] \in {-1, 0}
    <3>1. o[i] = -1 /\ o[j] = 0
      BY <1>17, <2>1, <2>4
    <3>2. P(R[i]) = C /\ P(R[j]) = S
      BY <1>16, <3>1
    <3> QED  BY <1>2, <3>2
  <2> QED  BY <1>17, <2>3, <2>4
<1>27. ASSUME NEW a \in V, pre2[a] # 0, NEW j \in 1 .. Len(R), NEW z \in P(R[j]), <<a, z>> \in D
       PROVE  /\ \A c \in V : pre2[a] <= pre2[c] => <<a, c>> \in D
              /\ \A i \in 1 .. (j - 1) : \A y \in P(R[i]) : <<a, y>> \in D
  <2>0. z \in V /\ z # b /\ pre[z] = 0
    BY <1>12, <1>23, <1>27
  <2>1. CASE a = b
    <3>1. z \in C
      BY <1>2, <1>27, <2>0, <2>1
    <3>2. o[j] = -1
      <4>1. CASE P(R[j]) = S
        BY <1>2, <1>27, <3>1, <4>1
      <4>2. CASE o[j] \in 2 .. Len(T) /\ R[j] = T[o[j]]
        <5>1. o[j] \in 1 .. Len(T) /\ o[j] # 1
          BY <1>1, <4>2
        <5>2. z \in P(T[1])
          BY <1>2, <3>1 DEF b
        <5> QED  BY <1>1, <1>7, <1>27, <4>2, <5>1, <5>2
      <4> QED  BY <1>16, <4>1, <4>2
    <3>3. \A i \in 1 .. (j - 1) : FALSE
      <4> SUFFICES ASSUME NEW i \in 1 .. (j - 1) PROVE FALSE
        OBVIOUS
      <4>1. i \in 1 .. Len(R) /\ i < j
        BY <1>1
      <4>2. o[i] < -1
        BY <1>17, <3>2, <4>1
      <4> QED  BY <1>17, <4>1, <4>2
    <3>4. ASSUME NEW c \in V, pre2[a] <= pre2[c] PROVE <<a, c>> \in D
      <4>1. c = b
        BY <1>1, <1>3, <1>13, <2>1, <3>4
      <4> QED  BY <1>11, <2>1, <4>1
    <3> QED  BY <3>3, <3>4
  <2>2. CASE a # b
    <3>1. pre[a] # 0 /\ pre2[a] = pre[a]
      BY <1>13, <1>27, <2>2
    <3>2. CASE o[j] \in {-1, 0}
      <4>0. o[j] \notin 2 .. Len(T)
        BY <3>2
      <4>1. z \in P(T[1]) /\ z \in P(b)
        BY <1>2, <1>16, <1>27, <4>0 DEF b
      <4>2. \A c \in V : pre[a] <= pre[c] => <<a, c>> \in D
        BY <1>1, <1>8, <1>27, <3>1, <4>1
      <4>3. a \notin P(b)
        BY <1>14, <3>1
      <4>4. \A x \in P(b) : <<a, x>> \in D
        BY <1>1, <1>27, <4>1, <4>3, PendingUnder DEF P
      <4>5. \A c \in V : pre2[a] <= pre2[c] => <<a, c>> \in D
        BY <1>2, <1>13, <3>1, <4>2, <4>4
      <4>6. ASSUME NEW i \in 1 .. (j - 1) PROVE P(R[i]) \subseteq P(b)
        <5>1. i \in 1 .. Len(R) /\ i < j
          BY <1>1
        <5>2. o[i] < o[j] /\ o[j] <= 0
          BY <1>17, <3>2, <5>1
        <5>3. o[i] \notin 2 .. Len(T)
          BY SMTT(60), <1>17, <5>1, <5>2
        <5> QED  BY <1>2, <1>16, <5>1, <5>3
      <4> QED  BY <4>4, <4>5, <4>6
    <3>3. CASE o[j] \in 2 .. Len(T)
      <4>1. o[j] \in 1 .. Len(T) /\ 1 \in 1 .. (o[j] - 1) /\ R[j] = T[o[j]]
        BY <1>1, <1>16, <3>3
      <4>2. /\ \A c \in V : pre[a] <= pre[c] => <<a, c>> \in D
            /\ \A i \in 1 .. (o[j] - 1) : \A y \in P(T[i]) : <<a, y>> \in D
        BY <1>8, <1>27, <3>1, <4>1
      <4>3. \A x \in P(b) : <<a, x>> \in D
        BY <4>1, <4>2 DEF b
      <4>4. \A c \in V : pre2[a] <= pre2[c] => <<a, c>> \in D
        BY <1>2, <1>13, <3>1, <4>2, <4>3
      <4>5. ASSUME NEW i \in 1 .. (j - 1), NEW y \in P(R[i]) PROVE <<a, y>> \in D
        <5>1. i \in 1 .. Len(R) /\ i < j
          BY <1>1
        <5>2. o[i] < o[j]
          BY <1>17, <5>1
        <5>3. CASE o[i] \in 2 .. Len(T) /\ R[i] = T[o[i]]
          <6>1. o[i] \in 1 .. (o[j] - 1)
            BY <1>1, <3>3, <5>2, <5>3
          <6> QED  BY <4>2, <4>5, <5>3, <6>1
        <5>4. CASE P(R[i]) = C \/ P(R[i]) = S
          BY <1>2, <4>3, <4>5, <5>4
        <5> QED  BY <1>16, <5>1, <5>3, <5>4
      <4> QED  BY <4>4, <4>5
    <3> QED  BY <1>17, <3>2, <3>3
  <2> QED  BY <2>1, <2>2
<1>28. ASSUME NEW a \in V, NEW c \in V, pre2[c] # 0, <<a, c>> \in D
       PROVE  pre2[a] # 0 /\ pre2[a] <= pre2[c]
  <2>1. CASE c = b
    <3>1. CASE a = b
      BY <1>1, <1>13, <2>1, <3>1
    <3>2. CASE a # b
      <4>1. up[b] # None /\ <<a, up[b]>> \in D /\ up[b] \in V
        BY <1>11, <1>28, <2>1, <3>2
      <4>2. pre[up[b]] # 0
        BY <1>1, <1>6, <4>1 DEF b
      <4>3. pre[a] # 0
        BY <1>9, <4>1, <4>2
      <4> QED  BY <1>1, <1>3, <1>13, <2>1, <3>2, <4>3
    <3> QED  BY <3>1, <3>2
  <2>2. CASE c # b
    <3>1. pre[a] # 0 /\ pre[a] <= pre[c]
      BY <1>9, <1>13, <1>28, <2>2
    <3>2. a # b
      BY <1>15, <3>1
    <3> QED  BY <1>13, <2>2, <3>1, <3>2
  <2> QED  BY <2>1, <2>2
<1>29. ASSUME NEW a \in V, NEW y \in V, NEW c \in V, pre2[a] # 0, <<a, c>> \in D,
              pre2[a] <= pre2[y], pre2[y] <= pre2[c]
       PROVE  <<a, y>> \in D
  <2>0. \A x \in V : x # b => pre2[x] <= k
    BY <1>1, <1>3, <1>13
  <2>1. CASE a = b
    <3>1. y = b
      BY <1>1, <1>3, <1>13, <1>29, <2>0, <2>1
    <3> QED  BY <1>11, <2>1, <3>1
  <2>2. CASE a # b /\ c = b
    <3>1. CASE y = b
      BY <1>29, <2>2, <3>1
    <3>2. CASE y # b
      <4>1. pre[a] # 0 /\ pre[a] <= pre[y]
        BY <1>13, <1>29, <2>2, <3>2
      <4>2. b \in P(T[1])
        BY <1>2 DEF b
      <4> QED  BY <1>1, <1>8, <1>29, <2>2, <4>1, <4>2
    <3> QED  BY <3>1, <3>2
  <2>3. CASE a # b /\ c # b
    <3>1. y # b
      BY <1>1, <1>3, <1>13, <1>29, <2>0, <2>3
    <3> QED  BY <1>10, <1>13, <1>29, <2>3, <3>1
  <2> QED  BY <2>1, <2>2, <2>3
<1>30. \A i, j \in 1 .. Len(R) : i # j => P(R[i]) \cap P(R[j]) = {}
  <2> SUFFICES ASSUME NEW i \in 1 .. Len(R), NEW j \in 1 .. Len(R), i # j
               PROVE  P(R[i]) \cap P(R[j]) = {}
    OBVIOUS
  <2>1. i < j \/ j < i
    BY <1>1
  <2> QED  BY <1>26, <2>1
<1>31. \A a \in V : pre2[a] # 0 => \A j \in 1 .. Len(R) : (\E z \in P(R[j]) : <<a, z>> \in D) =>
          /\ \A c \in V : pre2[a] <= pre2[c] => <<a, c>> \in D
          /\ \A i \in 1 .. (j - 1) : \A y \in P(R[i]) : <<a, y>> \in D
  BY <1>27
<1>32. k + 1 \in Nat
  BY <1>1
<1>33. \A i \in 1 .. Len(R) :
          /\ \A x \in P(R[i]) : pre2[x] = 0
          /\ up[R[i]] # None => pre2[up[R[i]]] # 0
  BY <1>24, <1>25
<1>34. \A x \in V : pre2[x] = 0 => \E i \in 1 .. Len(R) : x \in P(R[i])
  BY <1>22
<1>35. \A a, c \in V : pre2[c] # 0 /\ <<a, c>> \in D => pre2[a] # 0 /\ pre2[a] <= pre2[c]
  BY <1>28
<1>36. \A a, y, c \in V : pre2[a] # 0 /\ <<a, c>> \in D /\ pre2[a] <= pre2[y] /\ pre2[y] <= pre2[c]
          => <<a, y>> \in D
  BY <1>29
<1> QED  BY <1>21, <1>30, <1>31, <1>32, <1>33, <1>34, <1>35, <1>36 DEF PreorderOf, P

\* The roots of the tree are on the stack.
LEMMA PreorderStarts ==
    ASSUME NEW V, NEW up, NEW rk, NEW D, DomTree(V, up, rk, D), NEW pre, \A b \in V : pre[b] = 0,
           NEW T \in Seq(V), \A i \in 1 .. Len(T) : up[T[i]] = None,
           \A i, j \in 1 .. Len(T) : T[i] = T[j] => i = j,
           \A b \in V : up[b] = None => \E i \in 1 .. Len(T) : T[i] = b
    PROVE  PreorderOf(V, up, rk, D, pre, 0, T)
<1> DEFINE P(y) == Pending(V, up, rk, D, y)
<1>0. TreeOrdered(V, up, rk, D)
  BY TreeOrder
<1>1. \A i \in 1 .. Len(T) : T[i] \in V /\ P(T[i]) = {x \in V : <<T[i], x>> \in D}
  <2> SUFFICES ASSUME NEW i \in 1 .. Len(T)
               PROVE  T[i] \in V /\ P(T[i]) = {x \in V : <<T[i], x>> \in D}
    OBVIOUS
  <2>1. T[i] \in V /\ up[T[i]] = None
    OBVIOUS
  <2>2. Siblings(V, up, rk, T[i]) = {T[i]}
    BY <2>1 DEF Siblings
  <2> QED  BY <2>1, <2>2 DEF Pending
<1>2. ASSUME NEW x \in V PROVE \E i \in 1 .. Len(T) : x \in P(T[i])
  <2>1. \E t \in V : up[t] = None /\ <<t, x>> \in D
    BY TreeDown
  <2> HIDE DEF P
  <2> QED  BY <1>1, <2>1
<1>3. ASSUME NEW i \in 1 .. Len(T), NEW j \in 1 .. Len(T), i # j PROVE P(T[i]) \cap P(T[j]) = {}
  <2> SUFFICES ASSUME NEW x \in P(T[i]), x \in P(T[j]) PROVE FALSE
    OBVIOUS
  <2> HIDE DEF P
  <2>1. x \in V /\ <<T[i], x>> \in D /\ <<T[j], x>> \in D /\ T[i] \in V /\ T[j] \in V
    BY <1>1
  <2>2. <<T[i], T[j]>> \in D \/ <<T[j], T[i]>> \in D
    BY <1>0, <2>1 DEF TreeOrdered
  <2>3. up[T[i]] = None /\ up[T[j]] = None
    OBVIOUS
  <2>4. T[i] = T[j]
    <3>1. \A y, z \in V : up[z] = None /\ <<y, z>> \in D => y = z
      BY <1>0 DEF TreeOrdered
    <3> QED  BY <2>1, <2>2, <2>3, <3>1
  <2> QED  BY <1>3, <2>4
<1>4. \A y : P(y) \subseteq V
  BY DEF Pending
<1> HIDE DEF P
<1>5. \A i \in 1 .. Len(T) : (\A x \in P(T[i]) : pre[x] = 0) /\ (up[T[i]] # None => pre[up[T[i]]] # 0)
  BY <1>4
<1>6. \A b \in V : pre[b] \in 0 .. 0
  OBVIOUS
<1> QED  BY <1>2, <1>3, <1>5, <1>6 DEF PreorderOf, P

\* M holds for every block the last number below it, as far as that is known from
\* the blocks of rank up to i.
MaxUpTo(V, up, rk, D, pre, M, i) ==
    /\ \A b \in V : pre[b] <= M[b] /\ \E y \in V : <<b, y>> \in D /\ M[b] = pre[y]
    /\ \A c \in V : rk[c] <= i /\ up[c] # None => M[c] <= M[up[c]]

\* The next block passes its maximum on.
LEMMA MaxGrows ==
    ASSUME NEW V, NEW up, NEW rk, NEW D, DomTree(V, up, rk, D), NEW pre, \A x \in V : pre[x] \in Nat,
           NEW M, NEW b \in V, MaxUpTo(V, up, rk, D, pre, M, rk[b] - 1), NEW M2,
           \A x \in V : x # up[b] => M2[x] = M[x],
           up[b] # None => M2[up[b]] \in {M[up[b]], M[b]} /\ M[up[b]] <= M2[up[b]] /\ M[b] <= M2[up[b]]
    PROVE  MaxUpTo(V, up, rk, D, pre, M2, rk[b])
<1>0. TreeOrdered(V, up, rk, D)
  BY TreeOrder
<1>1. /\ \A x \in V : up[x] = None \/ (up[x] \in V /\ rk[x] < rk[up[x]])
      /\ \A x \in V : rk[x] \in Int
      /\ \A x, y \in V : rk[x] = rk[y] => x = y
      /\ None \notin V
  BY DEF DomTree
<1>2. \A x \in V : pre[x] <= M[x] /\ \E y \in V : <<x, y>> \in D /\ M[x] = pre[y]
  BY DEF MaxUpTo
<1>3. \A x \in V : M[x] \in Nat
  BY <1>2
<1>4. \A c \in V : rk[c] <= rk[b] - 1 /\ up[c] # None => M[c] <= M[up[c]]
  BY DEF MaxUpTo
<1>5. ASSUME NEW x \in V PROVE pre[x] <= M2[x] /\ \E y \in V : <<x, y>> \in D /\ M2[x] = pre[y]
  <2>1. CASE x # up[b]
    BY <1>2, <2>1
  <2>2. CASE x = up[b]
    <3>1. up[b] # None
      BY <1>1, <2>2
    <3>2. pre[x] <= M2[x]
      <4>1. M2[x] \in Nat
        BY <1>3, <2>2, <3>1
      <4> QED  BY <1>2, <1>3, <2>2, <3>1, <4>1
    <3>3. CASE M2[x] = M[x]
      BY <1>2, <3>2, <3>3
    <3>4. CASE M2[x] = M[b]
      <4>1. PICK y \in V : <<b, y>> \in D /\ M[b] = pre[y]
        BY <1>2
      <4>2. <<x, y>> \in D
        BY <1>0, <2>2, <3>1, <4>1 DEF TreeOrdered
      <4> QED  BY <3>2, <3>4, <4>1, <4>2
    <3> QED  BY <2>2, <3>1, <3>3, <3>4
  <2> QED  BY <2>1, <2>2
<1>6. ASSUME NEW c \in V, rk[c] <= rk[b], up[c] # None PROVE M2[c] <= M2[up[c]]
  <2>0. up[c] \in V
    BY <1>1, <1>6
  <2>1. c # up[b] /\ M2[c] = M[c]
    <3>1. ASSUME c = up[b] PROVE FALSE
      <4>1. rk[b] < rk[c]
        BY <1>1, <3>1
      <4> QED  BY <1>1, <1>6, <4>1
    <3> QED  BY <3>1
  <2>2. CASE c = b
    BY <1>6, <2>1, <2>2
  <2>3. CASE c # b
    <3>1. rk[c] # rk[b]
      BY <1>1, <2>3
    <3>2. rk[c] <= rk[b] - 1
      BY <1>1, <1>6, <3>1
    <3>3. M[c] <= M[up[c]]
      BY <1>4, <1>6, <3>2
    <3>4. CASE up[c] # up[b]
      BY <2>0, <2>1, <3>3, <3>4
    <3>5. CASE up[c] = up[b]
      <4>1. M2[up[c]] \in Nat /\ M[up[c]] <= M2[up[c]]
        BY <1>3, <1>6, <2>0, <3>5
      <4> QED  BY <1>3, <2>0, <2>1, <3>3, <4>1
    <3> QED  BY <3>4, <3>5
  <2> QED  BY <2>2, <2>3
<1> QED  BY <1>5, <1>6 DEF MaxUpTo

\* A comparison of numbers decides dominance.
LEMMA NumbersDecide ==
    ASSUME NEW V, NEW up, NEW rk, NEW D, DomTree(V, up, rk, D), NEW pre, NEW k,
           PreorderOf(V, up, rk, D, pre, k, <<>>), NEW M, NEW m,
           \A b \in V : rk[b] <= m, MaxUpTo(V, up, rk, D, pre, M, m)
    PROVE  /\ \A b \in V : pre[b] \in Nat \ {0} /\ M[b] \in Nat \ {0}
           /\ \A a, b \in V : pre[a] <= pre[b] /\ M[b] <= M[a] <=> <<a, b>> \in D
<1>1. \A b \in V : pre[b] \in 0 .. k /\ k \in Nat
  BY DEF PreorderOf
<1>2. \A b \in V : pre[b] # 0
  <2>1. \A x \in V : pre[x] = 0 => \E i \in 1 .. Len(<<>>) : x \in Pending(V, up, rk, D, <<>>[i])
    BY DEF PreorderOf
  <2>2. Len(<<>>) = 0
    OBVIOUS
  <2> QED  BY <2>1, <2>2
<1>3. \A b \in V : pre[b] <= M[b] /\ \E y \in V : <<b, y>> \in D /\ M[b] = pre[y]
  BY DEF MaxUpTo
<1>4. \A b \in V : pre[b] \in Nat \ {0} /\ M[b] \in Nat \ {0}
  <2>1. \A b \in V : pre[b] \in Nat \ {0}
    BY <1>1, <1>2
  <2>2. \A b \in V : \E y \in V : M[b] = pre[y]
    BY <1>3
  <2> QED  BY <2>1, <2>2
<1>5. /\ \A x \in V : up[x] = None \/ (up[x] \in V /\ rk[x] < rk[up[x]])
      /\ \A x, y \in V : <<x, y>> \in D <=> x = y \/ (up[y] # None /\ <<x, up[y]>> \in D)
  BY DEF DomTree
<1>6. ASSUME NEW a \in V, NEW b \in V, <<a, b>> \in D PROVE pre[a] <= pre[b] /\ M[b] <= M[a]
  <2>1. pre[a] <= pre[b]
    BY <1>2, <1>6 DEF PreorderOf
  <2> DEFINE S == {y \in V : <<a, y>> \in D => M[y] <= M[a]}
  <2>2. ASSUME NEW y \in V, up[y] = None \/ up[y] \in S PROVE y \in S
    <3> SUFFICES ASSUME <<a, y>> \in D PROVE M[y] <= M[a]
      OBVIOUS
    <3>1. CASE a = y
      BY <1>4, <3>1
    <3>2. CASE a # y
      <4>1. up[y] # None /\ <<a, up[y]>> \in D /\ up[y] \in V
        BY <1>5, <3>2
      <4>2. M[up[y]] <= M[a]
        BY <2>2, <4>1
      <4>3. M[y] <= M[up[y]]
        BY <4>1 DEF MaxUpTo
      <4> QED  BY <1>4, <4>1, <4>2, <4>3
    <3> QED  BY <3>1, <3>2
  <2>3. V \subseteq S
    <3> HIDE DEF S
    <3> QED  BY <2>2, TreeInduction
  <2> QED  BY <1>6, <2>1, <2>3
<1>7. ASSUME NEW a \in V, NEW b \in V, pre[a] <= pre[b], M[b] <= M[a] PROVE <<a, b>> \in D
  <2>1. PICK y \in V : <<a, y>> \in D /\ M[a] = pre[y]
    BY <1>3
  <2>2. pre[b] <= pre[y]
    BY <1>3, <1>4, <1>7, <2>1
  <2>3. pre[a] # 0
    BY <1>4
  <2> QED  BY <1>7, <2>1, <2>2, <2>3 DEF PreorderOf
<1> QED  BY <1>4, <1>6, <1>7

\* The links of the blocks of rank up to i.
LinkedUpTo(V, up, rk, child, sib, i) ==
    /\ \A p \in V :
          /\ child[p] = None => \A c \in V : rk[c] <= i => up[c] # p
          /\ child[p] # None => /\ child[p] \in V /\ up[child[p]] = p /\ rk[child[p]] <= i
                                /\ \A c \in V : up[c] = p /\ rk[c] <= i => rk[c] <= rk[child[p]]
    /\ \A b \in V : i < rk[b] => sib[b] = None
    /\ \A b \in V : rk[b] <= i =>
          /\ sib[b] = None => up[b] = None \/ \A c \in V : up[c] = up[b] => rk[b] <= rk[c]
          /\ sib[b] # None => /\ sib[b] \in V /\ up[b] # None /\ up[sib[b]] = up[b]
                              /\ rk[sib[b]] < rk[b]
                              /\ \A c \in V : up[c] = up[b] /\ rk[c] < rk[b] => rk[c] <= rk[sib[b]]

\* The next block is linked.
LEMMA LinksGrow ==
    ASSUME NEW V, NEW up, NEW rk, NEW D, DomTree(V, up, rk, D), NEW child, NEW sib, NEW b \in V,
           LinkedUpTo(V, up, rk, child, sib, rk[b] - 1), NEW child2, NEW sib2,
           \A x \in V : x # up[b] => child2[x] = child[x],
           \A x \in V : x # b => sib2[x] = sib[x],
           up[b] = None => sib2[b] = sib[b],
           up[b] # None => child2[up[b]] = b /\ sib2[b] = child[up[b]]
    PROVE  LinkedUpTo(V, up, rk, child2, sib2, rk[b])
<1>1. /\ \A x \in V : up[x] = None \/ (up[x] \in V /\ rk[x] < rk[up[x]])
      /\ \A x \in V : rk[x] \in Int
      /\ \A x, y \in V : rk[x] = rk[y] => x = y
      /\ None \notin V
  BY DEF DomTree
<1>2. \A x \in V : rk[x] <= rk[b] <=> x = b \/ rk[x] <= rk[b] - 1
  <2> SUFFICES ASSUME NEW x \in V PROVE rk[x] <= rk[b] <=> x = b \/ rk[x] <= rk[b] - 1
    OBVIOUS
  <2>1. rk[x] = rk[b] => x = b
    BY <1>1
  <2>2. rk[x] \in Int /\ rk[b] \in Int
    BY <1>1
  <2> QED  BY <2>1, <2>2
<1>3. \A p \in V :
          /\ child[p] = None => \A c \in V : rk[c] <= rk[b] - 1 => up[c] # p
          /\ child[p] # None => /\ child[p] \in V /\ up[child[p]] = p /\ rk[child[p]] <= rk[b] - 1
                                /\ \A c \in V : up[c] = p /\ rk[c] <= rk[b] - 1 => rk[c] <= rk[child[p]]
  BY DEF LinkedUpTo
<1>4. ASSUME NEW p \in V
      PROVE /\ child2[p] = None => \A c \in V : rk[c] <= rk[b] => up[c] # p
            /\ child2[p] # None => /\ child2[p] \in V /\ up[child2[p]] = p /\ rk[child2[p]] <= rk[b]
                                   /\ \A c \in V : up[c] = p /\ rk[c] <= rk[b] => rk[c] <= rk[child2[p]]
  <2>1. CASE p = up[b]
    BY <1>1, <2>1
  <2>2. CASE p # up[b]
    <3>1. child2[p] = child[p]
      BY <2>2
    <3>2. child[p] = None => \A c \in V : rk[c] <= rk[b] => up[c] # p
      BY <1>2, <1>3, <2>2
    <3>3. child[p] # None => rk[child[p]] <= rk[b]
      BY <1>2, <1>3
    <3>4. child[p] # None => \A c \in V : up[c] = p /\ rk[c] <= rk[b] => rk[c] <= rk[child[p]]
      BY <1>2, <1>3, <2>2
    <3> QED  BY <1>3, <3>1, <3>2, <3>3, <3>4
  <2> QED  BY <2>1, <2>2
<1>5. \A x \in V : rk[b] < rk[x] => sib2[x] = None
  <2>1. \A x \in V : rk[b] < rk[x] => x # b /\ rk[b] - 1 < rk[x]
    BY <1>1
  <2> QED  BY <2>1 DEF LinkedUpTo
<1>6. ASSUME NEW x \in V, rk[x] <= rk[b]
      PROVE  /\ sib2[x] = None => up[x] = None \/ \A c \in V : up[c] = up[x] => rk[x] <= rk[c]
             /\ sib2[x] # None => /\ sib2[x] \in V /\ up[x] # None /\ up[sib2[x]] = up[x]
                                  /\ rk[sib2[x]] < rk[x]
                                  /\ \A c \in V : up[c] = up[x] /\ rk[c] < rk[x] => rk[c] <= rk[sib2[x]]
  <2>1. CASE x # b
    <3>1. rk[x] <= rk[b] - 1 /\ sib2[x] = sib[x]
      BY <1>2, <1>6, <2>1
    <3> QED  BY <3>1 DEF LinkedUpTo
  <2>2. CASE x = b /\ up[b] = None
    <3>1. rk[b] - 1 < rk[b]
      BY <1>1
    <3>2. sib2[b] = None
      BY <2>2, <3>1 DEF LinkedUpTo
    <3> QED  BY <2>2, <3>2
  <2>3. CASE x = b /\ up[b] # None
    <3>1. up[b] \in V /\ sib2[b] = child[up[b]]
      BY <1>1, <2>3
    <3>2. \A c \in V : rk[c] < rk[b] <=> rk[c] <= rk[b] - 1
      BY <1>1
    <3>3. ASSUME child[up[b]] = None, NEW c \in V, up[c] = up[b] PROVE rk[b] <= rk[c]
      <4>1. ~(rk[c] < rk[b])
        BY <1>3, <3>1, <3>2, <3>3
      <4> QED  BY <1>1, <4>1
    <3>4. ASSUME child[up[b]] # None
          PROVE  LET s == child[up[b]]
                 IN  s \in V /\ up[s] = up[b] /\ rk[s] < rk[b]
                     /\ \A c \in V : up[c] = up[b] /\ rk[c] < rk[b] => rk[c] <= rk[s]
      BY <1>3, <3>1, <3>2, <3>4
    <3> QED  BY <2>3, <3>1, <3>3, <3>4
  <2> QED  BY <2>1, <2>2, <2>3
<1> QED  BY <1>4, <1>5, <1>6 DEF LinkedUpTo

\* All blocks are linked.
LEMMA LinksDone ==
    ASSUME NEW V, NEW up, NEW rk, NEW child, NEW sib, NEW m,
           \A b \in V : rk[b] <= m, LinkedUpTo(V, up, rk, child, sib, m)
    PROVE  LinkedTree(V, up, rk, child, sib)
BY DEF LinkedUpTo, LinkedTree

(***************************************************************************)
(* The search and the semidominators, step by step.                        *)
(***************************************************************************)

\* The blocks by their numbers, the numbers of the blocks, the semidominators.
BlocksOf(st) == [i \in 1 .. Len(st) |-> st[i].block]
NumbersOf(ns) == [b \in Block |-> ns[b].pre_number]
SemisOf(st) == [i \in 1 .. Len(st) |-> st[i].semi]

\* The tree has no links and no preorder yet.
Unlinked(ns) ==
    /\ NodesOK(ns)
    /\ \A b \in Block : /\ ns[b].child = None /\ ns[b].sibling = None
                        /\ ns[b].dom_pre_number = 0 /\ ns[b].dom_pre_max = 0

\* The search goes on, or is over.
SpanningOf(f, dir, st, ns, po, wl) ==
    \E par, fin :
        /\ Searching(f, dir, Len(st), BlocksOf(st), par, fin, NumbersOf(ns), po, wl)
        /\ Linked(Len(st), par, fin, BlocksOf(st), st, Len(st))

\* The nodes after w have their semidominators.
SemisFoundOf(f, dir, st, ns, po, w) ==
    \E par, fin :
        /\ Searching(f, dir, Len(st), BlocksOf(st), par, fin, NumbersOf(ns), po, <<>>)
        /\ Linked(Len(st), par, fin, BlocksOf(st), st, w)
        /\ SemiFrom(Len(st), Edges(f, dir, Len(st), BlocksOf(st)), par, fin, SemisOf(st), w + 1)

\* The search starts with the roots on the stack.
LEMMA SearchStarts ==
    ASSUME NEW f, NEW dir, NEW blk \in [1 .. 0 -> Block], NEW num, num = [b \in Block |-> 0],
           NEW wl \in Seq(WorkItem),
           \A i \in 1 .. Len(wl) : wl[i].event = "enter" /\ wl[i].parent = 0 /\ RootOf(f, dir, wl[i].block),
           \A b \in Block : RootOf(f, dir, b) => \E i \in 1 .. Len(wl) : wl[i].block = b
    PROVE  Searching(f, dir, 0, blk, [i \in 1 .. 0 |-> 0], [u \in 0 .. 0 |-> 0], num, <<>>, wl)
<1> DEFINE par == [i \in 1 .. 0 |-> 0]
           fin == [u \in 0 .. 0 |-> 0]
<1>1. Numbering(0, blk, num)
  BY DEF Numbering
<1>2. DfsTree(0, Edges(f, dir, 0, blk), par, fin)
  <2>1. Edges(f, dir, 0, blk) = {}
    BY DEF Edges
  <2>2. par \in [1 .. 0 -> 0 .. 0] /\ fin \in [0 .. 0 -> 0 .. 0] /\ fin[0] = 0
    OBVIOUS
  <2>3. \A u \in 0 .. 0 : u = 0
    OBVIOUS
  <2>4. \A w \in 1 .. 0 : FALSE
    OBVIOUS
  <2> HIDE DEF par, fin
  <2> QED  BY <2>1, <2>2, <2>3, <2>4 DEF DfsTree
<1>3. StackOf(f, dir, 0, blk, fin, num, wl)
  <2>1. \A w \in 0 .. 0 : w = 0 /\ fin[w] = 0
    OBVIOUS
  <2>2. \A w : IsOpen(wl, num, 0)
    BY DEF IsOpen
  <2>3. \A i \in 1 .. Len(wl) : wl[i].event # "exit"
    OBVIOUS
  <2>4. \A p \in 1 .. Len(wl) : wl[p].parent \in 0 .. 0 /\ EdgeTo(f, dir, blk, wl[p].parent, wl[p].block)
    BY DEF EdgeTo
  <2>5. \A p \in 1 .. Len(wl) : \A q \in (p + 1) .. Len(wl) : q \in 1 .. Len(wl)
    OBVIOUS
  <2> HIDE DEF fin
  <2> QED  BY <2>1, <2>2, <2>3, <2>4, <2>5 DEF StackOf
<1>4. AllFollowed(f, dir, 0, blk, num, wl)
  <2>1. \A u \in 1 .. 0 : FALSE
    OBVIOUS
  <2>2. \A b \in Block : RootOf(f, dir, b) => \E p \in 1 .. Len(wl) : Enters(wl, p, b)
    BY DEF Enters
  <2> QED  BY <2>1, <2>2 DEF AllFollowed
<1>5. LeftInOrder(fin, num, <<>>)
  BY DEF LeftInOrder
<1>6. \A b \in Block : ~HasLeft(<<>>, b) /\ num[b] = 0
  BY DEF HasLeft
<1> HIDE DEF par, fin
<1> QED  BY <1>1, <1>2, <1>3, <1>4, <1>5, <1>6 DEF Searching, par, fin

\* ComputeBegin puts the roots on the stack.
LEMMA BeginSearches ==
    ASSUME GInv, InstsDistinct(func), ComputeBegin
    PROVE  /\ pc' = "spanning_tree" /\ func' = func /\ direction' \in {"forward", "reverse"}
           /\ Unlinked(nodes') /\ \A b \in Block : nodes'[b].idom = None
           /\ SpanningOf(func, direction', stree', nodes', postorder', worklist')
<1>1. /\ pc = "compute" /\ pc' = "spanning_tree" /\ func' = func /\ stree' = <<>>
      /\ postorder' = <<>> /\ nodes' = [b \in Block |-> blank_node]
      /\ direction' \in {"forward", "reverse"}
  BY DEF ComputeBegin, flowVars
<1>2. \A b \in Block : nodes'[b] = blank_node
  BY <1>1
<1>3. Unlinked(nodes') /\ \A b \in Block : nodes'[b].idom = None
  BY <1>1 DEF Unlinked, NodesOK, blank_node, NOT_VISITED
<1> DEFINE rs == Reverse(roots(direction'))
<1>4. worklist' = [i \in DOMAIN rs |-> enter(0, rs[i])]
  BY DEF ComputeBegin
<1>5. FuncOK(func) /\ GraphOf(cfg, func, Block)
  BY <1>1 DEF GInv, FlowInv
<1>6. /\ roots(direction') \in Seq(Block)
      /\ \A b \in Block : RootOf(func, direction', b) <=>
            \E i \in 1 .. Len(roots(direction')) : roots(direction')[i] = b
  <2>1. \A dir :
            /\ roots(dir) \in Seq(Block)
            /\ \A b \in Block : RootOf(func, dir, b) <=>
                  \E i \in 1 .. Len(roots(dir)) : roots(dir)[i] = b
    BY <1>5, GraphRanges
  <2> QED  BY <2>1
<1>7. /\ rs \in Seq(Block)
      /\ \A b : (\E i \in 1 .. Len(roots(direction')) : roots(direction')[i] = b) <=>
                (\E i \in 1 .. Len(rs) : rs[i] = b)
  BY <1>6, ReverseRange
<1> HIDE DEF rs
<1>8. /\ worklist' = [i \in 1 .. Len(rs) |-> enter(0, rs[i])]
      /\ \A i \in 1 .. Len(rs) : rs[i] \in Block
  BY <1>4, <1>7
<1>9. /\ worklist' \in Seq(WorkItem) /\ Len(worklist') = Len(rs)
      /\ \A i \in 1 .. Len(rs) : worklist'[i] = enter(0, rs[i])
  <2>1. \A i \in 1 .. Len(rs) : enter(0, rs[i]) \in WorkItem
    BY <1>8 DEF enter, WorkItem
  <2> QED  BY <1>7, <1>8, <2>1
<1>10. \A i \in 1 .. Len(worklist') : worklist'[i].event = "enter" /\ worklist'[i].parent = 0
                                     /\ RootOf(func, direction', worklist'[i].block)
  BY <1>6, <1>7, <1>8, <1>9 DEF enter
<1>11. \A b \in Block : RootOf(func, direction', b) => \E i \in 1 .. Len(worklist') : worklist'[i].block = b
  <2>1. ASSUME NEW i \in 1 .. Len(rs) PROVE worklist'[i].block = rs[i]
    <3>1. worklist'[i] = enter(0, rs[i])
      BY <1>9
    <3> QED  BY <3>1 DEF enter
  <2>2. \A b \in Block : RootOf(func, direction', b) => \E i \in 1 .. Len(rs) : rs[i] = b
    BY <1>6, <1>7
  <2> QED  BY <1>9, <2>1, <2>2
<1>12. /\ NumbersOf(nodes') = [b \in Block |-> 0]
       /\ BlocksOf(stree') \in [1 .. 0 -> Block] /\ Len(stree') = 0
  BY <1>1, <1>2 DEF NumbersOf, BlocksOf, blank_node, NOT_VISITED
<1> DEFINE par == [i \in 1 .. 0 |-> 0]
           fin == [u \in 0 .. 0 |-> 0]
           blk == BlocksOf(stree')
           num == NumbersOf(nodes')
<1>13. Searching(func, direction', 0, blk, par, fin, num, <<>>, worklist')
  <2> HIDE DEF blk, num
  <2> QED  BY <1>9, <1>10, <1>11, <1>12, SearchStarts DEF blk, num
<1>14. Linked(0, par, fin, blk, stree', 0)
  <2>1. \A u \in 1 .. 0 : FALSE
    OBVIOUS
  <2>2. stree' \in Seq(TreeNode)
    BY <1>1
  <2>3. \A u \in (0 + 1) .. 0 : FALSE
    OBVIOUS
  <2> HIDE DEF blk, par, fin
  <2> QED  BY <1>12, <2>1, <2>2, <2>3 DEF Linked
<1>15. SpanningOf(func, direction', stree', nodes', postorder', worklist')
  <2>1. Searching(func, direction', Len(stree'), BlocksOf(stree'), par, fin, NumbersOf(nodes'), postorder',
                  worklist')
    BY <1>1, <1>12, <1>13
  <2>2. Linked(Len(stree'), par, fin, BlocksOf(stree'), stree', Len(stree'))
    BY <1>12, <1>14
  <2> HIDE DEF par, fin
  <2> QED  BY <2>1, <2>2 DEF SpanningOf
<1> QED  BY <1>1, <1>3, <1>15

\* The node of a block that is entered is as yet linked to nothing.
LEMMA EnteredLinked ==
    ASSUME NEW n, NEW E, NEW par, NEW fin, NEW blk, NEW st, DfsTree(n, E, par, fin),
           Linked(n, par, fin, blk, st, n), NEW b \in Block, NEW parent \in Nat, NEW fin2
    PROVE  Linked(n + 1, MoreTree(n, par, parent), fin2, MoreBlocks(n, blk, b),
                  Append(st, [block |-> b, ancestor |-> parent, label |-> n + 1,
                              semi |-> n + 1, idom |-> parent]), n + 1)
<1> DEFINE new == [block |-> b, ancestor |-> parent, label |-> n + 1, semi |-> n + 1, idom |-> parent]
           st2 == Append(st, new)
           par2 == MoreTree(n, par, parent)
           blk2 == MoreBlocks(n, blk, b)
<1>1. n \in Nat /\ st \in Seq(TreeNode) /\ Len(st) = n
  BY DEF DfsTree, Linked
<1>2. new \in TreeNode
  BY <1>1 DEF TreeNode
<1> HIDE DEF new
<1>3. /\ st2 \in Seq(TreeNode) /\ Len(st2) = n + 1 /\ st2[n + 1] = new
      /\ \A u \in 1 .. n : st2[u] = st[u]
  BY <1>1, <1>2
<1>4. \A u \in 1 .. (n + 1) : par2[u] = IF u = n + 1 THEN parent ELSE par[u]
  BY DEF MoreTree
<1>5. \A u \in 1 .. (n + 1) : blk2[u] = IF u = n + 1 THEN b ELSE blk[u]
  BY DEF MoreBlocks
<1>6. \A u \in 1 .. n : st[u].block = blk[u] /\ st[u].idom = par[u] /\ st[u].ancestor = par[u]
                        /\ st[u].label = u
  BY DEF Linked
<1>7. new.block = b /\ new.ancestor = parent /\ new.label = n + 1 /\ new.idom = parent
  BY DEF new
<1>8. \A u \in 1 .. (n + 1) : u = n + 1 \/ (u \in 1 .. n /\ u # n + 1)
  BY <1>1
<1>9. \A u \in (n + 1 + 1) .. (n + 1) : FALSE
  BY <1>1
<1>10. n + 1 \in 0 .. (n + 1)
  BY <1>1
<1> HIDE DEF st2, par2, blk2
<1>11. \A u \in 1 .. (n + 1) : /\ st2[u].block = blk2[u] /\ st2[u].idom = par2[u]
                               /\ st2[u].ancestor = par2[u] /\ st2[u].label = u
  BY <1>3, <1>4, <1>5, <1>6, <1>7, <1>8
<1> QED  BY <1>3, <1>9, <1>10, <1>11 DEF Linked, st2, par2, blk2, new
\* A block is entered, or was before.
LEMMA EnterSearches ==
    ASSUME GInv, InstsDistinct(func), Enter, Unlinked(nodes), \A b \in Block : nodes[b].idom = None,
           SpanningOf(func, direction, stree, nodes, postorder, worklist)
    PROVE  /\ pc' = "spanning_tree" /\ func' = func /\ direction' = direction
           /\ Unlinked(nodes') /\ \A b \in Block : nodes'[b].idom = None
           /\ SpanningOf(func, direction, stree', nodes', postorder', worklist')
<1> DEFINE b == Head(worklist).block
           parent == Head(worklist).parent
           n == Len(stree)
           unvisited == {s \in Block \ {b} : nodes[s].pre_number = NOT_VISITED}
           next == kept(graph_successors(b), unvisited)
           entered == [i \in DOMAIN next |-> enter(n + 1, next[i])]
           blk == BlocksOf(stree)
           num == NumbersOf(nodes)
<1>1. /\ pc = "spanning_tree" /\ worklist # <<>> /\ Head(worklist).event = "enter"
      /\ UNCHANGED <<func, cfg, computed, pc, direction, postorder>>
  BY DEF Enter, flowVars
<1>2. PICK par, fin : /\ Searching(func, direction, n, blk, par, fin, num, postorder, worklist)
                      /\ Linked(n, par, fin, blk, stree, n)
  BY DEF SpanningOf
<1>3. /\ worklist \in Seq(WorkItem) /\ worklist[1] = Head(worklist) /\ 1 \in 1 .. Len(worklist)
      /\ Head(worklist) \in WorkItem /\ Tail(worklist) \in Seq(WorkItem)
      /\ Len(worklist) \in Nat /\ Len(Tail(worklist)) = Len(worklist) - 1
      /\ \A i \in 1 .. Len(Tail(worklist)) : Tail(worklist)[i] = worklist[i + 1]
  BY <1>1, <1>2 DEF Searching, StackOf
<1>4. b \in Block /\ parent \in Nat
  BY <1>1, <1>3 DEF WorkItem
<1>5. NodesOK(nodes)
  BY DEF Unlinked
<1>6. num[b] = nodes[b].pre_number /\ \A c \in Block : num[c] = nodes[c].pre_number
  BY <1>4 DEF NumbersOf
<1>7. CASE nodes[b].pre_number # NOT_VISITED
  <2>1. worklist' = Tail(worklist) /\ stree' = stree /\ nodes' = nodes
    BY <1>7 DEF Enter
  <2>2. num[worklist[1].block] # 0 /\ worklist[1].event = "enter"
    BY <1>1, <1>3, <1>6, <1>7 DEF NOT_VISITED
  <2>3. Searching(func, direction, n, blk, par, fin, num, postorder, Tail(worklist))
    <3> HIDE DEF blk, num
    <3> QED  BY <1>1, <1>2, <2>2, SearchSkips
  <2>4. SpanningOf(func, direction, stree', nodes', postorder', worklist')
    BY <1>1, <1>2, <2>1, <2>3 DEF SpanningOf
  <2> QED  BY <1>1, <2>1, <2>4
<1>8. CASE nodes[b].pre_number = NOT_VISITED
  <2> DEFINE new == [block |-> b, ancestor |-> parent, label |-> n + 1, semi |-> n + 1, idom |-> parent]
  <2>1. /\ stree' = Append(stree, new)
        /\ nodes' = [nodes EXCEPT ![b].pre_number = n + 1]
        /\ worklist' = entered \o <<exit(b)>> \o Tail(worklist)
    BY <1>8 DEF Enter
  <2>2. num[worklist[1].block] = 0 /\ worklist[1].event = "enter"
    BY <1>1, <1>3, <1>6, <1>8 DEF NOT_VISITED
  <2>3. n \in Nat /\ stree \in Seq(TreeNode)
    BY <1>2 DEF Linked
  <2>4. FuncOK(func) /\ GraphOf(cfg, func, Block)
    BY <1>1 DEF GInv, FlowInv
  <2>5. /\ graph_successors(b) \in Seq(Block)
        /\ \A c \in Block : Flow(func, direction, b, c) <=>
              \E i \in 1 .. Len(graph_successors(b)) : graph_successors(b)[i] = c
    <3> HIDE DEF b
    <3> QED  BY <1>4, <2>4, GraphRanges
  <2>6. /\ next \in Seq(Block)
        /\ \A i \in 1 .. Len(next) : next[i] \in Block /\ Flow(func, direction, b, next[i])
        /\ \A c \in Block : Flow(func, direction, b, c) /\ num[c] = 0 /\ c # b =>
              \E i \in 1 .. Len(next) : next[i] = c
    <3> DEFINE s == graph_successors(b)
    <3>1. /\ next \in Seq(Block)
          /\ \A m \in 1 .. Len(next) : \E j \in 1 .. Len(s) : next[m] = s[j]
      <4> HIDE DEF s, unvisited
      <4> QED  BY <2>5, KeptPicks DEF s
    <3>2. \A j \in 1 .. Len(s) : s[j] \in unvisited => \E m \in 1 .. Len(next) : next[m] = s[j]
      <4> HIDE DEF s, unvisited
      <4> QED  BY <2>5, KeptKeeps DEF s
    <3>3. \A c \in Block : num[c] = 0 /\ c # b => c \in unvisited
      BY <1>6 DEF NOT_VISITED
    <3> HIDE DEF next, unvisited, b
    <3>4. \A i \in 1 .. Len(next) : next[i] \in Block
      BY <3>1
    <3> QED  BY SMTT(60), <2>5, <3>1, <3>2, <3>3, <3>4
  <2>7. /\ entered \in Seq(WorkItem) /\ Len(entered) = Len(next) /\ Len(next) \in Nat
        /\ \A m \in 1 .. Len(next) : entered[m] = enter(n + 1, next[m])
    <3> HIDE DEF next, n
    <3>1. \A m \in 1 .. Len(next) : enter(n + 1, next[m]) \in WorkItem
      BY <2>3, <2>6 DEF enter, WorkItem
    <3>2. entered = [m \in 1 .. Len(next) |-> enter(n + 1, next[m])]
      BY <2>6
    <3> HIDE DEF entered
    <3> QED  BY <2>6, <3>1, <3>2
  <2>8. exit(b) \in WorkItem
    BY <1>4 DEF exit, WorkItem
  <2>9. StackGrows(n, worklist, Len(next), next, worklist')
    <3> HIDE DEF next, entered, b, n
    <3>0. entered \o <<exit(b)>> \in Seq(WorkItem) /\ Len(entered \o <<exit(b)>>) = Len(next) + 1
      BY <2>7, <2>8
    <3>1. worklist' \in Seq(WorkItem) /\ Len(worklist') = Len(next) + Len(worklist)
      <4> DEFINE front == entered \o <<exit(b)>>
      <4>1. worklist' = front \o Tail(worklist)
        BY <2>1
      <4> HIDE DEF front
      <4>2. worklist' \in Seq(WorkItem) /\ Len(worklist') = Len(front) + Len(Tail(worklist))
        BY <1>3, <3>0, <4>1 DEF front
      <4> QED  BY SMTT(60), <1>3, <2>7, <3>0, <4>2 DEF front
    <3>2. \A i \in 1 .. Len(next) : worklist'[i] = enter(n + 1, next[i])
      BY <1>3, <2>1, <2>7, <2>8
    <3>3. worklist'[Len(next) + 1] = exit(worklist[1].block)
      <4>1. worklist'[Len(next) + 1] = exit(b)
        BY <1>3, <2>1, <2>7, <2>8
      <4> QED  BY <1>3, <4>1 DEF b
    <3>4. ASSUME NEW i \in 2 .. Len(worklist) PROVE worklist'[Len(next) + i] = worklist[i]
      <4>1. i - 1 \in 1 .. Len(Tail(worklist)) /\ Tail(worklist)[i - 1] = worklist[i]
        BY <1>3
      <4>2. worklist'[Len(next) + 1 + (i - 1)] = Tail(worklist)[i - 1]
        BY <1>3, <2>1, <2>7, <2>8, <4>1
      <4>3. Len(next) + 1 + (i - 1) = Len(next) + i
        BY <2>7
      <4> QED  BY <4>1, <4>2, <4>3
    <3> QED  BY <3>1, <3>2, <3>3, <3>4 DEF StackGrows
  <2> DEFINE blk2 == MoreBlocks(n, blk, b)
             par2 == MoreTree(n, par, parent)
             fin2 == MoreUnder(n, fin, num, worklist)
             num2 == MoreNumbers(n, num, b)
  <2>10. Searching(func, direction, n + 1, blk2, par2, fin2, num2, postorder, worklist')
    <3>1. b = worklist[1].block /\ parent = worklist[1].parent
      BY <1>3
    <3>2. LET c == worklist[1].block
          IN  Searching(func, direction, n + 1, MoreBlocks(n, blk, c), MoreTree(n, par, worklist[1].parent),
                        MoreUnder(n, fin, num, worklist), MoreNumbers(n, num, c), postorder, worklist')
      <4> HIDE DEF blk, num, next, n, b, parent
      <4> DEFINE m == Len(next)
      <4>1. m \in Nat /\ StackGrows(n, worklist, m, next, worklist')
        BY <2>7, <2>9
      <4>2. /\ \A i \in 1 .. m : next[i] \in Block /\ Flow(func, direction, worklist[1].block, next[i])
            /\ \A c \in Block : Flow(func, direction, worklist[1].block, c) /\ num[c] = 0
                                /\ c # worklist[1].block => \E i \in 1 .. m : next[i] = c
        BY <2>6, <3>1
      <4> HIDE DEF m
      <4> QED  BY <1>1, <1>2, <2>2, <4>1, <4>2, SearchGrows
    <3> HIDE DEF blk, num, n, b, parent
    <3> QED  BY <3>1, <3>2
  <2>11. Linked(n + 1, par2, fin2, blk2, stree', n + 1)
    <3>1. DfsTree(n, Edges(func, direction, n, blk), par, fin)
      BY <1>2 DEF Searching
    <3> HIDE DEF blk, num, n, b, parent, fin2
    <3> QED  BY <1>2, <1>4, <2>1, <3>1, EnteredLinked
  <2>12. Len(stree') = n + 1 /\ BlocksOf(stree') = blk2
    <3>0. new \in TreeNode
      BY SMTT(60), <1>4, <2>3 DEF TreeNode
    <3>1. /\ Len(stree') = n + 1 /\ stree'[n + 1] = new
          /\ \A i \in 1 .. n : stree'[i] = stree[i]
      <4> HIDE DEF new
      <4> QED  BY <2>1, <2>3, <3>0
    <3>2. \A i \in 1 .. (n + 1) : stree'[i].block = IF i = n + 1 THEN b ELSE blk[i]
      BY <2>3, <3>1 DEF BlocksOf
    <3> HIDE DEF n, b, blk
    <3> QED  BY <3>1, <3>2 DEF BlocksOf, MoreBlocks
  <2>13. /\ NodesOK(nodes') /\ nodes'[b] = [nodes[b] EXCEPT !.pre_number = n + 1]
         /\ \A c \in Block \ {b} : nodes'[c] = nodes[c]
    <3> HIDE DEF b
    <3>1. nodes' = [c \in Block |-> IF c = b THEN [nodes[b] EXCEPT !.pre_number = n + 1] ELSE nodes[c]]
      BY <1>4, <1>5, <2>1 DEF NodesOK
    <3>2. [nodes[b] EXCEPT !.pre_number = n + 1]
            = [idom |-> nodes[b].idom, pre_number |-> n + 1,
               child |-> nodes[b].child, sibling |-> nodes[b].sibling,
               dom_pre_number |-> nodes[b].dom_pre_number, dom_pre_max |-> nodes[b].dom_pre_max]
      BY <1>4, <1>5 DEF NodesOK
    <3>3. n + 1 \in Nat
      BY <2>3
    <3> HIDE DEF n
    <3> QED  BY SMTT(60), <1>4, <1>5, <3>1, <3>2, <3>3 DEF NodesOK
  <2>14. nodes'[b] = [idom |-> nodes[b].idom, pre_number |-> n + 1,
                      child |-> nodes[b].child, sibling |-> nodes[b].sibling,
                      dom_pre_number |-> nodes[b].dom_pre_number, dom_pre_max |-> nodes[b].dom_pre_max]
    <3> HIDE DEF b, n
    <3> QED  BY <1>4, <1>5, <2>13 DEF NodesOK
  <2>15. NumbersOf(nodes') = num2
    <3> HIDE DEF b, n
    <3>1. \A c \in Block : nodes'[c].pre_number = IF c = b THEN n + 1 ELSE num[c]
      BY <1>6, <2>13, <2>14
    <3> HIDE DEF num
    <3> QED  BY <3>1 DEF NumbersOf, MoreNumbers
  <2>16. Unlinked(nodes') /\ \A c \in Block : nodes'[c].idom = None
    <3> HIDE DEF b, n
    <3>1. \A c \in Block : /\ nodes'[c].child = nodes[c].child /\ nodes'[c].sibling = nodes[c].sibling
                           /\ nodes'[c].dom_pre_number = nodes[c].dom_pre_number
                           /\ nodes'[c].dom_pre_max = nodes[c].dom_pre_max
                           /\ nodes'[c].idom = nodes[c].idom
      BY <2>13, <2>14
    <3> QED  BY <2>13, <3>1 DEF Unlinked
  <2>17. SpanningOf(func, direction, stree', nodes', postorder', worklist')
    <3> HIDE DEF blk2, par2, fin2, num2, n
    <3> QED  BY <1>1, <2>10, <2>11, <2>12, <2>15 DEF SpanningOf
  <2> QED  BY SMTT(60), <1>1, <2>16, <2>17
<1> QED  BY <1>7, <1>8

\* A block is left.
LEMMA ExitSearches ==
    ASSUME Exit, SpanningOf(func, direction, stree, nodes, postorder, worklist)
    PROVE  /\ pc' = "spanning_tree" /\ func' = func /\ direction' = direction /\ nodes' = nodes
           /\ SpanningOf(func, direction, stree', nodes', postorder', worklist')
<1>1. /\ pc = "spanning_tree" /\ worklist # <<>> /\ Head(worklist).event = "exit"
      /\ postorder' = Append(postorder, Head(worklist).block) /\ worklist' = Tail(worklist)
      /\ UNCHANGED <<func, pc, direction, stree, nodes>>
  BY DEF Exit, flowVars
<1> DEFINE n == Len(stree)
           blk == BlocksOf(stree)
           num == NumbersOf(nodes)
<1>2. PICK par, fin : /\ Searching(func, direction, n, blk, par, fin, num, postorder, worklist)
                      /\ Linked(n, par, fin, blk, stree, n)
  BY DEF SpanningOf
<1>3. worklist \in Seq(WorkItem)
  BY <1>2 DEF Searching, StackOf
<1>4. worklist[1] = Head(worklist)
  BY <1>1, <1>3
<1>5. Searching(func, direction, n, blk, par, fin, num, Append(postorder, worklist[1].block), Tail(worklist))
  <2> HIDE DEF blk, num, n
  <2> QED  BY <1>1, <1>2, <1>4, SearchReturns
<1>6. SpanningOf(func, direction, stree', nodes', postorder', worklist')
  BY <1>1, <1>2, <1>4, <1>5 DEF SpanningOf
<1> QED  BY <1>1, <1>6

\* The search is over.
LEMMA SearchIsDone ==
    ASSUME SpanningTreeDone, SpanningOf(func, direction, stree, nodes, postorder, worklist)
    PROVE  /\ pc' = "semi" /\ func' = func /\ direction' = direction /\ nodes' = nodes
           /\ SemisFoundOf(func, direction, stree', nodes', postorder', cursor')
<1>1. /\ pc' = "semi" /\ worklist = <<>> /\ cursor' = Len(stree)
      /\ UNCHANGED <<func, direction, stree, postorder, nodes, worklist>>
  BY DEF SpanningTreeDone, flowVars
<1> DEFINE n == Len(stree)
           blk == BlocksOf(stree)
           num == NumbersOf(nodes)
<1>2. PICK par, fin : /\ Searching(func, direction, n, blk, par, fin, num, postorder, worklist)
                      /\ Linked(n, par, fin, blk, stree, n)
  BY DEF SpanningOf
<1>3. n \in Nat
  BY <1>2 DEF Linked
<1>4. SemiFrom(n, Edges(func, direction, n, blk), par, fin, SemisOf(stree), n + 1)
  <2>1. \A w \in (n + 1) .. n : FALSE
    BY <1>3
  <2> HIDE DEF n, blk
  <2> QED  BY <2>1 DEF SemiFrom
<1>5. SemisFoundOf(func, direction, stree, nodes, postorder, Len(stree))
  BY <1>1, <1>2, <1>4 DEF SemisFoundOf
<1> QED  BY <1>1, <1>5

\* The semidominator of one more node is found.
LEMMA SemiIsFound ==
    ASSUME GInv, InstsDistinct(func), ComputeSemi,
           SemisFoundOf(func, direction, stree, nodes, postorder, cursor)
    PROVE  /\ pc' = "semi" /\ func' = func /\ direction' = direction /\ nodes' = nodes
           /\ SemisFoundOf(func, direction, stree', nodes', postorder', cursor')
<1> DEFINE w == cursor
           n == Len(stree)
           blk == BlocksOf(stree)
           num == NumbersOf(nodes)
           s == SemisOf(stree)
           E == Edges(func, direction, n, blk)
           preds == graph_predecessors(stree[w].block)
           h == CHOOSE g : CandidatesOf(g, preds, w)
           found == h[Len(preds)]
<1>1. /\ pc = "semi" /\ pc' = pc /\ w > 0 /\ cursor' = w - 1
      /\ UNCHANGED <<func, cfg, direction, postorder, nodes, worklist>>
      /\ stree' = [found.stree EXCEPT ![w].label = found.semi, ![w].semi = found.semi]
  BY Zenon DEF ComputeSemi, flowVars, CandidatesOf
<1>2. PICK par, fin : /\ Searching(func, direction, n, blk, par, fin, num, postorder, <<>>)
                      /\ Linked(n, par, fin, blk, stree, w)
                      /\ SemiFrom(n, E, par, fin, s, w + 1)
  BY DEF SemisFoundOf
<1>3. /\ n \in Nat /\ w \in 1 .. n /\ stree \in Seq(TreeNode) /\ stree[w].block = blk[w]
  <2>1. Len(stree) = n /\ w \in 0 .. n /\ stree \in Seq(TreeNode)
    BY SMTT(60), <1>2 DEF Linked
  <2>2. w \in 1 .. n
    BY <1>1, <2>1
  <2> QED  BY <2>1, <2>2 DEF BlocksOf
<1>4. /\ Numbering(n, blk, num) /\ DfsTree(n, E, par, fin)
  BY <1>2 DEF Searching
<1>5. /\ num \in [Block -> 0 .. n] /\ blk[w] \in Block
      /\ \A b \in Block : nodes[b].pre_number = num[b]
  BY SMTT(60), <1>3, <1>4 DEF Numbering, NumbersOf
<1>6. FuncOK(func) /\ GraphOf(cfg, func, Block)
  BY <1>1 DEF GInv, FlowInv
<1>7. /\ preds \in Seq(Block) /\ Len(preds) \in Nat
      /\ \A p \in Block : Flow(func, direction, p, blk[w]) <=> \E i \in 1 .. Len(preds) : preds[i] = p
  <2>1. LET ps == graph_predecessors(blk[w])
        IN  /\ ps \in Seq(Block)
            /\ \A p \in Block : Flow(func, direction, p, blk[w]) <=> \E i \in 1 .. Len(ps) : ps[i] = p
    <3> HIDE DEF blk
    <3> QED  BY <1>5, <1>6, GraphRanges
  <2> QED  BY <1>3, <2>1
<1>8. CandidatesOf(h, preds, w)
  <2>1. \E g : CandidatesOf(g, preds, w)
    <3> HIDE DEF preds, w
    <3> QED  BY <1>7, CandidatesExist
  <2> HIDE DEF preds, w
  <2> QED  BY <2>1
<1>9. \A x \in 1 .. n : stree[x].semi = s[x]
  BY DEF SemisOf
<1> HIDE DEF h, preds, num, blk, s, E
<1>10. /\ Linked(n, par, fin, blk, found.stree, w) /\ \A x \in 1 .. n : found.stree[x].semi = s[x]
       /\ Candidate(n, par, fin, s, num, w, preds, Len(preds), found.semi)
  BY <1>2, <1>3, <1>4, <1>5, <1>7, <1>8, <1>9, CandidateFound
<1>11. found.semi \in Nat
  <2>1. found.semi \in 0 .. par[w] /\ par[w] \in 0 .. n
    BY <1>3, <1>4, <1>10 DEF Candidate, DfsTree
  <2> QED  BY <2>1
<1> DEFINE k == found.semi
           st == found.stree
<1>12. /\ Linked(n, par, fin, blk, stree', w - 1)
       /\ stree'[w].semi = k /\ \A x \in 1 .. n : x # w => stree'[x].semi = st[x].semi
  <2> HIDE DEF found
  <2> HIDE DEF k, st, n, w
  <2>0. Linked(n, par, fin, blk, st, w) /\ k \in Nat
    BY <1>10, <1>11 DEF k, st
  <2>1. LET r == Relabelled(st, w, k)
        IN  /\ Linked(n, par, fin, blk, r, w - 1)
            /\ r[w].semi = k /\ \A x \in 1 .. n : x # w => r[x].semi = st[x].semi
    BY <1>3, <1>4, <2>0, LinkedGrows
  <2>2. stree' = Relabelled(st, w, k)
    BY <1>1, Zenon DEF k, st, Relabelled
  <2> QED  BY <2>1, <2>2
<1>13. Len(stree') = n /\ BlocksOf(stree') = blk
  <2>1. Len(stree') = n /\ \A u \in 1 .. n : stree'[u].block = blk[u]
    BY <1>12 DEF Linked
  <2>2. blk = [i \in 1 .. n |-> blk[i]]
    BY DEF blk, BlocksOf
  <2> HIDE DEF n
  <2> QED  BY <2>1, <2>2 DEF BlocksOf
<1>14. /\ SemisOf(stree')[w] = k /\ \A x \in 1 .. n : w < x => SemisOf(stree')[x] = s[x]
  <2>1. \A x \in 1 .. n : SemisOf(stree')[x] = stree'[x].semi
    BY <1>13 DEF SemisOf
  <2> QED  BY <1>3, <1>10, <1>12, <2>1
<1>15. SemiFrom(n, Edges(func, direction, n, blk), par, fin, SemisOf(stree'), w)
  <2>1. /\ DfsTree(n, Edges(func, direction, n, blk), par, fin)
        /\ SemiFrom(n, Edges(func, direction, n, blk), par, fin, s, w + 1)
    BY <1>2, <1>4 DEF E
  <2> HIDE DEF found
  <2> HIDE DEF k
  <2>2. Candidate(n, par, fin, s, num, w, preds, Len(preds), k)
    BY <1>10 DEF k
  <2> DEFINE t == SemisOf(stree')
  <2> HIDE DEF t, n, w
  <2>3. t[w] = k /\ \A x \in 1 .. n : w < x => t[x] = s[x]
    BY <1>14 DEF t
  <2> QED  BY <1>3, <1>4, <1>6, <1>7, <2>1, <2>2, <2>3, SemiFound DEF t
<1>16. SemisFoundOf(func, direction, stree', nodes, postorder, w - 1)
  <2>1. Searching(func, direction, Len(stree'), BlocksOf(stree'), par, fin, NumbersOf(nodes), postorder, <<>>)
    BY <1>2, <1>13 DEF num
  <2>2. Linked(Len(stree'), par, fin, BlocksOf(stree'), stree', w - 1)
    BY <1>12, <1>13
  <2>3. SemiFrom(Len(stree'), Edges(func, direction, Len(stree'), BlocksOf(stree')), par, fin,
                 SemisOf(stree'), (w - 1) + 1)
    <3>1. (w - 1) + 1 = w
      BY <1>3
    <3> QED  BY <1>13, <1>15, <3>1
  <2> QED  BY <2>1, <2>2, <2>3 DEF SemisFoundOf
<1> QED  BY <1>1, <1>16

(***************************************************************************)
(* The immediate dominators, step by step.                                 *)
(***************************************************************************)

\* The nodes before v have their immediate dominators.
IdomsFoundOf(f, dir, st, ns, po, v) ==
    \E par, fin :
        /\ Searching(f, dir, Len(st), BlocksOf(st), par, fin, NumbersOf(ns), po, <<>>)
        /\ st \in Seq(TreeNode) /\ v \in 1 .. (Len(st) + 1)
        /\ SemiFrom(Len(st), Edges(f, dir, Len(st), BlocksOf(st)), par, fin, SemisOf(st), 1)
        /\ \A w \in 1 .. (v - 1) :
              /\ ClosestDominator(Len(st), fin, SemisOf(st), w, st[w].idom)
              /\ ns[st[w].block].idom = IF st[w].idom = 0 THEN None ELSE st[st[w].idom].block
        /\ \A w \in v .. Len(st) : st[w].idom = par[w]
        /\ \A b \in Block : ns[b].pre_number = 0 => ns[b].idom = None

\* All semidominators are found.
LEMMA SemisAreDone ==
    ASSUME SemiDone, \A b \in Block : nodes[b].idom = None,
           SemisFoundOf(func, direction, stree, nodes, postorder, cursor)
    PROVE  /\ pc' = "idom" /\ func' = func /\ direction' = direction /\ nodes' = nodes
           /\ IdomsFoundOf(func, direction, stree', nodes', postorder', cursor')
<1>1. /\ pc' = "idom" /\ cursor = 0 /\ cursor' = 1
      /\ UNCHANGED <<func, direction, stree, postorder, nodes>>
  BY DEF SemiDone, flowVars
<1>2. PICK par, fin :
        /\ Searching(func, direction, Len(stree), BlocksOf(stree), par, fin, NumbersOf(nodes), postorder, <<>>)
        /\ Linked(Len(stree), par, fin, BlocksOf(stree), stree, cursor)
        /\ SemiFrom(Len(stree), Edges(func, direction, Len(stree), BlocksOf(stree)), par, fin,
                    SemisOf(stree), cursor + 1)
  BY DEF SemisFoundOf
<1>3. /\ stree \in Seq(TreeNode) /\ Len(stree) \in Nat
      /\ \A w \in 1 .. Len(stree) : stree[w].idom = par[w]
  BY <1>2 DEF Linked
<1>4. cursor + 1 = 1 /\ 1 \in 1 .. (Len(stree) + 1) /\ \A w \in 1 .. (1 - 1) : FALSE
  BY <1>1, <1>3
<1>5. IdomsFoundOf(func, direction, stree, nodes, postorder, 1)
  BY <1>2, <1>3, <1>4 DEF IdomsFoundOf
<1> QED  BY <1>1, <1>5

\* The immediate dominator of one more node is found.
LEMMA IdomIsFound ==
    ASSUME ComputeIdom, Unlinked(nodes),
           IdomsFoundOf(func, direction, stree, nodes, postorder, cursor)
    PROVE  /\ pc' = "idom" /\ func' = func /\ direction' = direction /\ Unlinked(nodes')
           /\ IdomsFoundOf(func, direction, stree', nodes', postorder', cursor')
<1> DEFINE v == cursor
           n == Len(stree)
           blk == BlocksOf(stree)
           num == NumbersOf(nodes)
           s == SemisOf(stree)
           E == Edges(func, direction, n, blk)
           Solves(u) == u = [i \in 0 .. n |-> IF i <= stree[v].semi THEN i ELSE u[stree[i].idom]]
           up == CHOOSE u : Solves(u)
           idom == up[stree[v].idom]
           b == stree[v].block
           above == IF idom = 0 THEN None ELSE stree[idom].block
           g == [i \in 1 .. n |-> stree[i].idom]
<1>1. /\ pc = "idom" /\ pc' = pc /\ v <= n /\ cursor' = v + 1
      /\ UNCHANGED <<func, cfg, direction, postorder, worklist>>
      /\ stree' = [stree EXCEPT ![v].idom = idom]
      /\ nodes' = [nodes EXCEPT ![b].idom = above]
  BY Zenon DEF ComputeIdom, flowVars
<1>2. PICK par, fin :
        /\ Searching(func, direction, n, blk, par, fin, num, postorder, <<>>)
        /\ stree \in Seq(TreeNode) /\ v \in 1 .. (n + 1)
        /\ SemiFrom(n, E, par, fin, s, 1)
        /\ \A w \in 1 .. (v - 1) :
              /\ ClosestDominator(n, fin, s, w, stree[w].idom)
              /\ nodes[stree[w].block].idom = IF stree[w].idom = 0 THEN None ELSE stree[stree[w].idom].block
        /\ \A w \in v .. n : stree[w].idom = par[w]
        /\ \A c \in Block : nodes[c].pre_number = 0 => nodes[c].idom = None
  BY DEF IdomsFoundOf
<1>3. n \in Nat /\ v \in 1 .. n /\ v \in v .. n /\ stree[v].idom = par[v]
  <2>1. v <= n
    BY <1>1
  <2>2. stree \in Seq(TreeNode) /\ v \in 1 .. (n + 1) /\ \A w \in v .. n : stree[w].idom = par[w]
    BY <1>2
  <2>3. n \in Nat
    BY <2>2
  <2> HIDE DEF n, v
  <2>4. v \in 1 .. n /\ v \in v .. n
    BY <2>1, <2>2, <2>3
  <2>5. stree[v].idom = par[v]
    BY <2>2, <2>4
  <2> QED  BY SMTT(60), <2>3, <2>4, <2>5
<1>4. Numbering(n, blk, num) /\ DfsTree(n, E, par, fin)
  BY <1>2 DEF Searching
<1>5. \A w \in 1 .. n : par[w] \in 0 .. n /\ par[w] < w
  BY <1>4 DEF DfsTree
<1>6. \A i \in 1 .. n : g[i] \in 0 .. n /\ g[i] < i
  <2>1. \A i \in 1 .. n : i \in 1 .. (v - 1) \/ i \in v .. n
    BY <1>3
  <2>2. \A i \in 1 .. (v - 1) : stree[i].idom \in 0 .. n /\ stree[i].idom < i
    BY <1>2 DEF ClosestDominator
  <2> QED  BY <1>2, <1>5, <2>1, <2>2
<1>7. s[v] = stree[v].semi /\ s[v] \in Nat
  <2>1. stree[v] \in TreeNode
    BY <1>2, <1>3
  <2> QED  BY <1>3, <2>1 DEF SemisOf, TreeNode
<1>8. \A u : ClimbsTo(u, n, g, s[v]) <=> Solves(u)
  <2>1. ASSUME NEW u, NEW i \in 0 .. n
        PROVE (IF i <= s[v] THEN i ELSE u[g[i]]) = (IF i <= stree[v].semi THEN i ELSE u[stree[i].idom])
    <3>1. i <= s[v] \/ g[i] = stree[i].idom
      BY <1>7
    <3> QED  BY <1>7, <3>1
  <2> HIDE DEF s, g, n
  <2>2. \A u : [i \in 0 .. n |-> IF i <= s[v] THEN i ELSE u[g[i]]]
             = [i \in 0 .. n |-> IF i <= stree[v].semi THEN i ELSE u[stree[i].idom]]
    BY <2>1
  <2> QED  BY <2>2 DEF ClimbsTo
<1>9. Solves(up)
  <2>1. \E u : ClimbsTo(u, n, g, s[v])
    <3> HIDE DEF g, n, s
    <3> QED  BY <1>3, <1>6, <1>7, ClimbExists
  <2>2. \E u : Solves(u)
    <3> HIDE DEF Solves, g, n, s
    <3> QED  BY <1>8, <2>1
  <2> HIDE DEF Solves
  <2> QED  BY <2>2
<1> HIDE DEF up
<1>10. ClimbsTo(up, n, g, s[v])
  <2> HIDE DEF Solves, g, n, s
  <2> QED  BY <1>8, <1>9
<1>11. ClosestDominator(n, fin, s, v, idom)
  <2>1. \A w \in 1 .. (v - 1) : ClosestDominator(n, fin, s, w, g[w])
    <3>1. \A w \in 1 .. (v - 1) : g[w] = stree[w].idom
      BY <1>3
    <3> QED  BY <1>2, <3>1
  <2>2. idom = up[par[v]]
    BY <1>3
  <2> HIDE DEF idom, g, n, s, E, v
  <2> QED  BY <1>2, <1>3, <1>4, <1>10, <2>1, <2>2, ClimbFinds
<1>12. idom \in 0 .. n /\ idom < v
  BY <1>11 DEF ClosestDominator
<1> HIDE DEF idom
<1>13. /\ stree' \in Seq(TreeNode) /\ Len(stree') = n /\ stree'[v].idom = idom
       /\ \A w \in 1 .. n : stree'[w].block = stree[w].block /\ stree'[w].semi = stree[w].semi
       /\ \A w \in 1 .. n : w # v => stree'[w] = stree[w]
  <2>1. \A w \in 1 .. n : stree[w] \in TreeNode
    BY <1>2
  <2>2. stree[v] = [block |-> stree[v].block, ancestor |-> stree[v].ancestor, label |-> stree[v].label,
                    semi |-> stree[v].semi, idom |-> stree[v].idom]
    BY <1>3, <2>1 DEF TreeNode
  <2> DEFINE t == [stree[v] EXCEPT !.idom = idom]
  <2>3. t = [block |-> stree[v].block, ancestor |-> stree[v].ancestor, label |-> stree[v].label,
             semi |-> stree[v].semi, idom |-> idom]
    BY <2>2
  <2>4. stree' = [w \in 1 .. n |-> IF w = v THEN t ELSE stree[w]]
    <3>1. stree' = [stree EXCEPT ![v] = [@ EXCEPT !.idom = idom]]
      BY <1>1
    <3>2. stree \in Seq(TreeNode)
      BY <1>2
    <3>3. stree = [w \in 1 .. n |-> stree[w]]
      BY <3>2
    <3> QED  BY <1>3, <3>1, <3>3
  <2> HIDE DEF t
  <2>5. t \in TreeNode
    <3>1. stree[v] \in TreeNode /\ idom \in Nat
      BY <1>3, <1>12, <2>1
    <3> QED  BY <2>3, <3>1 DEF TreeNode
  <2>6. stree'[v] = t /\ \A w \in 1 .. n : w # v => stree'[w] = stree[w]
    BY <1>3, <2>4
  <2>7. stree' \in Seq(TreeNode) /\ Len(stree') = n
    <3>1. stree' \in [1 .. n -> TreeNode]
      BY <2>1, <2>4, <2>5
    <3> HIDE DEF n
    <3> QED  BY <1>3, <3>1
  <2>8. t.block = stree[v].block /\ t.semi = stree[v].semi /\ t.idom = idom
    BY <2>3
  <2> QED  BY <2>6, <2>7, <2>8
<1>14. Len(stree') = n /\ BlocksOf(stree') = blk /\ SemisOf(stree') = s
  BY <1>13 DEF BlocksOf, SemisOf
<1>15. b \in Block /\ b = blk[v] /\ num[b] = v /\ num[b] # 0
  <2>1. blk[v] \in Block /\ num[blk[v]] = v
    BY <1>3, <1>4 DEF Numbering
  <2>2. b = blk[v]
    BY <1>3 DEF BlocksOf
  <2> QED  BY <1>3, <2>1, <2>2
<1>16. NodesOK(nodes)
  BY DEF Unlinked
<1> HIDE DEF above
<1>17. /\ NodesOK(nodes') /\ nodes'[b].idom = above
       /\ \A c \in Block : c # b => nodes'[c] = nodes[c]
       /\ \A c \in Block : /\ nodes'[c].pre_number = nodes[c].pre_number
                           /\ nodes'[c].child = nodes[c].child /\ nodes'[c].sibling = nodes[c].sibling
                           /\ nodes'[c].dom_pre_number = nodes[c].dom_pre_number
                           /\ nodes'[c].dom_pre_max = nodes[c].dom_pre_max
  <2> DEFINE t == [nodes[b] EXCEPT !.idom = above]
  <2> HIDE DEF b
  <2>1. nodes' = [c \in Block |-> IF c = b THEN t ELSE nodes[c]]
    BY <1>1, <1>15, <1>16 DEF NodesOK
  <2>2. t = [idom |-> above, pre_number |-> nodes[b].pre_number,
             child |-> nodes[b].child, sibling |-> nodes[b].sibling,
             dom_pre_number |-> nodes[b].dom_pre_number, dom_pre_max |-> nodes[b].dom_pre_max]
    BY <1>15, <1>16 DEF NodesOK
  <2> HIDE DEF t
  <2>3. /\ t.idom = above /\ t.pre_number = nodes[b].pre_number
        /\ t.child = nodes[b].child /\ t.sibling = nodes[b].sibling
        /\ t.dom_pre_number = nodes[b].dom_pre_number /\ t.dom_pre_max = nodes[b].dom_pre_max
    BY <2>2
  <2>4. t = [idom |-> t.idom, pre_number |-> t.pre_number, child |-> t.child, sibling |-> t.sibling,
             dom_pre_number |-> t.dom_pre_number, dom_pre_max |-> t.dom_pre_max]
    BY <2>2, <2>3, Zenon
  <2>5. \A c \in Block : nodes'[c] = IF c = b THEN t ELSE nodes[c]
    BY <2>1
  <2>6. nodes' = [c \in Block |-> nodes'[c]]
    BY <2>1
  <2>7. nodes[b].pre_number \in Nat
    BY <1>15, <1>16 DEF NodesOK
  <2>8. NodesOK(nodes')
    BY <1>16, <2>3, <2>4, <2>5, <2>6, <2>7 DEF NodesOK
  <2> QED  BY <1>15, <2>3, <2>5, <2>8
<1>18. NumbersOf(nodes') = num /\ Unlinked(nodes')
  BY <1>17 DEF NumbersOf, Unlinked
<1>19. ASSUME NEW w \in 1 .. ((v + 1) - 1)
       PROVE  /\ ClosestDominator(n, fin, s, w, stree'[w].idom)
              /\ nodes'[stree'[w].block].idom
                    = IF stree'[w].idom = 0 THEN None ELSE stree'[stree'[w].idom].block
  <2>1. CASE w = v
    <3>1. stree'[w].block = b /\ stree'[w].idom = idom
      BY <1>3, <1>13, <2>1
    <3>2. idom # 0 => stree'[idom].block = stree[idom].block
      BY <1>12, <1>13
    <3> QED  BY <1>11, <1>17, <2>1, <3>1, <3>2 DEF above
  <2>2. CASE w # v
    <3>1. w \in 1 .. (v - 1) /\ w \in 1 .. n
      BY <1>3, <2>2
    <3>2. stree'[w] = stree[w]
      BY <1>13, <2>2, <3>1
    <3>3. /\ ClosestDominator(n, fin, s, w, stree[w].idom)
          /\ nodes[stree[w].block].idom = IF stree[w].idom = 0 THEN None ELSE stree[stree[w].idom].block
      BY <1>2, <3>1
    <3>4. stree[w].block \in Block /\ stree[w].block # b
      <4>1. blk[w] \in Block /\ num[blk[w]] = w /\ stree[w].block = blk[w]
        BY <1>4, <3>1 DEF Numbering, BlocksOf
      <4> QED  BY <1>15, <2>2, <4>1
    <3>5. stree[w].idom \in 0 .. n
      BY <3>3 DEF ClosestDominator
    <3>6. stree[w].idom # 0 => stree'[stree[w].idom].block = stree[stree[w].idom].block
      BY <1>13, <3>5
    <3> QED  BY <1>17, <3>2, <3>3, <3>4, <3>6
  <2> QED  BY <2>1, <2>2
<1>20. \A w \in (v + 1) .. n : stree'[w].idom = par[w]
  <2>1. \A w \in (v + 1) .. n : w \in 1 .. n /\ w \in v .. n /\ w # v
    BY SMTT(60), <1>3
  <2> QED  BY <1>2, <1>13, <2>1
<1>21. \A c \in Block : nodes'[c].pre_number = 0 => nodes'[c].idom = None
  <2>1. num[b] = nodes[b].pre_number
    BY <1>15 DEF NumbersOf
  <2> QED  BY <1>2, <1>15, <1>17, <2>1
<1>22. v + 1 \in 1 .. (n + 1)
  BY <1>3
<1>23. IdomsFoundOf(func, direction, stree', nodes', postorder, v + 1)
  <2>1. Searching(func, direction, Len(stree'), BlocksOf(stree'), par, fin, NumbersOf(nodes'), postorder, <<>>)
    BY <1>2, <1>14, <1>18
  <2>2. SemiFrom(Len(stree'), Edges(func, direction, Len(stree'), BlocksOf(stree')), par, fin, SemisOf(stree'), 1)
    BY <1>2, <1>14
  <2>3. \A w \in 1 .. ((v + 1) - 1) : ClosestDominator(Len(stree'), fin, SemisOf(stree'), w, stree'[w].idom)
    BY <1>14, <1>19
  <2>4. stree' \in Seq(TreeNode) /\ v + 1 \in 1 .. (Len(stree') + 1)
        /\ \A w \in (v + 1) .. Len(stree') : stree'[w].idom = par[w]
    BY <1>13, <1>14, <1>20, <1>22
  <2> HIDE DEF v, n
  <2> QED  BY <1>19, <1>21, <2>1, <2>2, <2>3, <2>4 DEF IdomsFoundOf
<1> QED  BY <1>1, <1>18, <1>23

(***************************************************************************)
(* The dominator tree that the search and the immediate dominators make.   *)
(***************************************************************************)

\* The postorder of the blocks that were visited, the immediate dominators of
\* the blocks, and dominance as paths have it.
Rank(po) == [b \in {po[i] : i \in 1 .. Len(po)} |-> CHOOSE i \in 1 .. Len(po) : po[i] = b]
IdomsOf(ns) == [b \in Block |-> ns[b].idom]
DomPairs(f, dir) ==
    {e \in Block \X Block : e[2] \in Through(f, dir, {}) /\ e[2] \notin Through(f, dir, {e[1]})}

\* The blocks that were visited are those the edges lead to, and their
\* immediate dominators are a tree of the dominance of paths.
TreeFound(f, dir, ns, po) ==
    /\ NodesOK(ns)
    /\ po \in Seq(Block) /\ \A i, j \in 1 .. Len(po) : po[i] = po[j] => i = j
    /\ \A b \in Block : /\ b \in Through(f, dir, {}) <=> ns[b].pre_number # 0
                        /\ b \in Through(f, dir, {}) <=> HasLeft(po, b)
                        /\ b \notin Through(f, dir, {}) => ns[b].idom = None
    /\ DomTree(Through(f, dir, {}), IdomsOf(ns), Rank(po), DomPairs(f, dir))

\* What is over a node is the node, or is over its closest dominator.
LEMMA ClosestOrder ==
    ASSUME NEW n, NEW E, NEW par, NEW fin, NEW s, DfsTree(n, E, par, fin),
           SemiFrom(n, E, par, fin, s, 1), NEW w \in 1 .. n, NEW i,
           ClosestDominator(n, fin, s, w, i), NEW x \in 1 .. n
    PROVE  /\ i \in 0 .. n /\ i < w /\ Over(fin, i, w)
           /\ SemiDominates(n, fin, s, x, w) <=>
                 x = w \/ (i # 0 /\ SemiDominates(n, fin, s, x, i))
<1>1. n \in Nat
  BY DEF DfsTree
<1>2. /\ i \in 0 .. n /\ i < w /\ SemiDominates(n, fin, s, i, w)
      /\ \A d \in 0 .. n : d < w /\ SemiDominates(n, fin, s, d, w) => d <= i
  BY DEF ClosestDominator
<1>3. x \in 0 .. n /\ w \in 0 .. n /\ w # 0
  BY <1>1
<1>4. Over(fin, i, w)
  BY <1>2 DEF SemiDominates
<1>5. ASSUME SemiDominates(n, fin, s, x, w), x # w PROVE i # 0 /\ SemiDominates(n, fin, s, x, i)
  <2>1. x <= w
    BY <1>3, <1>5, SemiOrder
  <2>2. x < w
    BY <1>1, <1>5, <2>1
  <2>3. x <= i
    BY <1>2, <1>3, <1>5, <2>2
  <2>4. SemiDominates(n, fin, s, x, i)
    BY <1>2, <1>3, <1>5, <2>3, SemiOrder
  <2> QED  BY <1>1, <1>2, <2>3, <2>4
<1>6. SemiDominates(n, fin, s, w, w)
  BY <1>3, SemiOrder
<1>7. SemiDominates(n, fin, s, x, i) => SemiDominates(n, fin, s, x, w)
  BY <1>2, <1>3, SemiOrder
<1> QED  BY <1>2, <1>4, <1>5, <1>6, <1>7

\* All immediate dominators are found.
LEMMA TreeIsFound ==
    ASSUME NEW f, FuncOK(f), NEW dir, NEW st, NEW ns, NodesOK(ns), NEW po, NEW v,
           IdomsFoundOf(f, dir, st, ns, po, v), v > Len(st)
    PROVE  TreeFound(f, dir, ns, po)
<1> DEFINE n == Len(st)
           blk == BlocksOf(st)
           num == NumbersOf(ns)
           s == SemisOf(st)
           E == Edges(f, dir, n, blk)
           V == Through(f, dir, {})
           up == IdomsOf(ns)
           rk == Rank(po)
           D == DomPairs(f, dir)
<1>1. PICK par, fin :
        /\ Searching(f, dir, n, blk, par, fin, num, po, <<>>)
        /\ st \in Seq(TreeNode) /\ v \in 1 .. (n + 1)
        /\ SemiFrom(n, E, par, fin, s, 1)
        /\ \A w \in 1 .. (v - 1) :
              /\ ClosestDominator(n, fin, s, w, st[w].idom)
              /\ ns[st[w].block].idom = IF st[w].idom = 0 THEN None ELSE st[st[w].idom].block
        /\ \A b \in Block : ns[b].pre_number = 0 => ns[b].idom = None
  BY DEF IdomsFoundOf
<1>2. n \in Nat /\ v = n + 1
  <2>1. st \in Seq(TreeNode) /\ v \in 1 .. (n + 1)
    BY <1>1
  <2>2. n \in Nat
    BY <2>1
  <2> QED  BY <2>1, <2>2
<1>3. \A w \in 1 .. n : ClosestDominator(n, fin, s, w, st[w].idom)
  BY <1>1, <1>2
<1>4. \A w \in 1 .. n : ns[blk[w]].idom = IF st[w].idom = 0 THEN None ELSE st[st[w].idom].block
  <2>1. \A w \in 1 .. n : blk[w] = st[w].block
    BY DEF BlocksOf
  <2> QED  BY <1>1, <1>2, <2>1
<1>5. \A w \in 1 .. n : st[w].block = blk[w]
  BY DEF BlocksOf
<1>6. Numbering(n, blk, num) /\ DfsTree(n, E, par, fin) /\ LeftInOrder(fin, num, po)
  BY <1>1 DEF Searching
<1>7. \A b \in Block : num[b] = ns[b].pre_number
  BY DEF NumbersOf
<1>8. \A b \in Block : HasLeft(po, b) <=> num[b] # 0
  <2>1. \A b \in Block : HasLeft(po, b) <=> num[b] # 0 /\ ~IsOpen(<<>>, num, num[b])
    <3> HIDE DEF num, blk, n
    <3> QED  BY <1>1 DEF Searching
  <2>2. \A u : IsOpen(<<>>, num, u) => u = 0
    BY DEF IsOpen
  <2> HIDE DEF num
  <2> QED  BY <2>1, <2>2
<1>9. V = {b \in Block : num[b] # 0}
      /\ \A a, b \in Block : num[b] # 0 =>
            (b \notin Through(f, dir, {a}) <=> num[a] # 0 /\ DominatesIn(n, E, num[a], num[b]))
  <2> HIDE DEF num, blk, n
  <2> QED  BY <1>1, ThroughDominance
<1> HIDE DEF num, blk, n, s, E, V
<1>10. \A b \in V : b \in Block /\ num[b] \in 1 .. n /\ blk[num[b]] = b
  BY <1>2, <1>6, <1>9 DEF Numbering
<1>11. \A w \in 1 .. n : blk[w] \in V /\ num[blk[w]] = w
  <2>1. \A w \in 1 .. n : blk[w] \in Block /\ num[blk[w]] = w
    BY <1>6 DEF Numbering
  <2> QED  BY <1>2, <1>9, <2>1
<1>12. \A a, b \in V : <<a, b>> \in D <=> SemiDominates(n, fin, s, num[a], num[b])
  <2>1. ASSUME NEW a \in V, NEW b \in V
        PROVE <<a, b>> \in D <=> SemiDominates(n, fin, s, num[a], num[b])
    <3>1. a \in Block /\ b \in Block /\ num[a] \in 0 .. n /\ num[b] \in 0 .. n /\ num[a] # 0 /\ num[b] # 0
      BY <1>2, <1>9, <1>10
    <3>2. <<a, b>> \in D <=> b \notin Through(f, dir, {a})
      BY <3>1 DEF DomPairs, V
    <3>3. b \notin Through(f, dir, {a}) <=> DominatesIn(n, E, num[a], num[b])
      BY <1>9, <3>1
    <3>4. DominatesIn(n, E, num[a], num[b]) <=> SemiDominates(n, fin, s, num[a], num[b])
      BY <1>1, <1>6, <3>1, SemiDominance
    <3> QED  BY <3>2, <3>3, <3>4
  <2> HIDE DEF D
  <2> QED  BY <2>1
<1>13. ASSUME NEW b \in V
       PROVE  LET i == st[num[b]].idom
              IN  /\ i \in 0 .. n /\ i # num[b] /\ Over(fin, i, num[b])
                  /\ up[b] = IF i = 0 THEN None ELSE blk[i]
                  /\ \A x \in 1 .. n : SemiDominates(n, fin, s, x, num[b]) <=>
                        x = num[b] \/ (i # 0 /\ SemiDominates(n, fin, s, x, i))
  <2> DEFINE w == num[b]
             i == st[w].idom
  <2>1. w \in 1 .. n /\ blk[w] = b /\ b \in Block
    BY <1>10
  <2>2. ClosestDominator(n, fin, s, w, i)
    BY <1>3, <2>1
  <2>3. up[b] = IF i = 0 THEN None ELSE st[i].block
    BY <1>4, <2>1 DEF IdomsOf
  <2> HIDE DEF i, w
  <2>4. \A x \in 1 .. n :
           /\ i \in 0 .. n /\ i < w /\ Over(fin, i, w)
           /\ SemiDominates(n, fin, s, x, w) <=> x = w \/ (i # 0 /\ SemiDominates(n, fin, s, x, i))
    BY <1>1, <1>6, <2>1, <2>2, ClosestOrder
  <2>5. i \in 0 .. n /\ i < w /\ Over(fin, i, w)
    BY <2>1, <2>4
  <2>6. i # 0 => st[i].block = blk[i]
    BY <1>5, <2>5
  <2> QED  BY <1>2, <2>1, <2>3, <2>4, <2>5, <2>6 DEF i, w
<1>14. po \in Seq(Block) /\ Len(po) \in Nat /\ \A i, j \in 1 .. Len(po) : po[i] = po[j] => i = j
  BY <1>6 DEF LeftInOrder
<1>15. V \subseteq Block /\ V = {po[i] : i \in 1 .. Len(po)}
  <2>1. \A b \in Block : b \in V <=> HasLeft(po, b)
    BY <1>8, <1>9
  <2>2. V \subseteq Block
    BY <1>9
  <2>3. \A b : b \in {po[i] : i \in 1 .. Len(po)} <=> b \in Block /\ HasLeft(po, b)
    BY <1>14 DEF HasLeft
  <2> QED  BY <2>1, <2>2, <2>3
<1>16. \A b \in V : rk[b] \in 1 .. Len(po) /\ po[rk[b]] = b
  BY <1>15 DEF Rank
<1>17. rk \in [V -> 1 .. Len(po)]
  BY <1>15, <1>16 DEF Rank
<1> HIDE DEF rk, up, D
<1>18. None \notin V
  <2>1. None \notin Block
    BY FlowAssumption DEF Block, None
  <2>2. V \subseteq Block
    BY <1>15
  <2> HIDE DEF V
  <2> QED  BY <2>1, <2>2
<1>19. \A a, b \in V : rk[a] = rk[b] => a = b
  BY <1>16
<1>20. ASSUME NEW b \in V PROVE up[b] = None \/ (up[b] \in V /\ rk[b] < rk[up[b]])
  <2> DEFINE i == st[num[b]].idom
  <2>1. /\ i \in 0 .. n /\ i # num[b] /\ Over(fin, i, num[b])
        /\ up[b] = IF i = 0 THEN None ELSE blk[i]
    BY <1>13
  <2> HIDE DEF i
  <2>2. CASE i = 0
    BY <2>1, <2>2
  <2>3. CASE i # 0
    <3>1. up[b] = blk[i] /\ blk[i] \in V /\ num[blk[i]] = i
      BY <1>2, <1>11, <2>1, <2>3
    <3>2. rk[b] \in 1 .. Len(po) /\ po[rk[b]] = b /\ rk[blk[i]] \in 1 .. Len(po) /\ po[rk[blk[i]]] = blk[i]
      BY <1>16, <3>1
    <3>3. rk[blk[i]] # rk[b] /\ Over(fin, num[po[rk[blk[i]]]], num[po[rk[b]]])
      BY <2>1, <3>1, <3>2
    <3>4. rk[b] < rk[blk[i]]
      BY <1>6, <3>2, <3>3 DEF LeftInOrder
    <3> QED  BY <3>1, <3>4
  <2> QED  BY <2>2, <2>3
<1>21. ASSUME NEW a \in V, NEW b \in V
       PROVE  <<a, b>> \in D <=> a = b \/ (up[b] # None /\ <<a, up[b]>> \in D)
  <2> DEFINE i == st[num[b]].idom
             x == num[a]
  <2>1. /\ i \in 0 .. n /\ up[b] = IF i = 0 THEN None ELSE blk[i]
        /\ \A y \in 1 .. n : SemiDominates(n, fin, s, y, num[b]) <=>
              y = num[b] \/ (i # 0 /\ SemiDominates(n, fin, s, y, i))
    BY <1>13
  <2> HIDE DEF i
  <2>2. x \in 1 .. n /\ (x = num[b] <=> a = b)
    BY <1>10
  <2>3. <<a, b>> \in D <=> x = num[b] \/ (i # 0 /\ SemiDominates(n, fin, s, x, i))
    BY <1>12, <2>1, <2>2
  <2>4. CASE i = 0
    BY <2>1, <2>2, <2>3, <2>4
  <2>5. CASE i # 0
    <3>1. up[b] = blk[i] /\ blk[i] \in V /\ num[blk[i]] = i
      BY <1>2, <1>11, <2>1, <2>5
    <3>2. up[b] # None
      BY <1>18, <3>1
    <3>3. <<a, up[b]>> \in D <=> SemiDominates(n, fin, s, x, i)
      BY <1>12, <3>1
    <3> QED  BY <2>2, <2>3, <2>5, <3>2, <3>3
  <2> QED  BY <2>4, <2>5
<1>22. DomTree(V, up, rk, D)
  <2>1. \E m \in Nat : rk \in [V -> 1 .. m]
    BY <1>14, <1>17
  <2> QED  BY <1>18, <1>19, <1>20, <1>21, <2>1 DEF DomTree
<1>23. \A b \in Block : /\ b \in V <=> ns[b].pre_number # 0
                        /\ b \in V <=> HasLeft(po, b)
                        /\ b \notin V => ns[b].idom = None
  <2>1. \A b \in Block : ns[b].pre_number = 0 => ns[b].idom = None
    BY <1>1
  <2> QED  BY <1>7, <1>8, <1>9, <2>1
<1> QED  BY <1>14, <1>22, <1>23 DEF TreeFound, V, up, rk, D

(***************************************************************************)
(* The links of the tree.                                                  *)
(***************************************************************************)

ChildrenOf(ns) == [b \in Block |-> ns[b].child]
SiblingsOf(ns) == [b \in Block |-> ns[b].sibling]
PreOf(ns) == [b \in Block |-> ns[b].dom_pre_number]
ItemBlocks(wl) == [i \in 1 .. Len(wl) |-> wl[i].block]

\* The tree has its links, k blocks have their preorder numbers, and the stack
\* stands for the others.
PreorderAt(f, dir, ns, po, wl, k) ==
    /\ TreeFound(f, dir, ns, po)
    /\ LinkedTree(Through(f, dir, {}), IdomsOf(ns), Rank(po), ChildrenOf(ns), SiblingsOf(ns))
    /\ wl \in Seq(WorkItem)
    /\ PreorderOf(Through(f, dir, {}), IdomsOf(ns), Rank(po), DomPairs(f, dir), PreOf(ns), k, ItemBlocks(wl))
    /\ \A b \in Block : /\ ns[b].dom_pre_max = ns[b].dom_pre_number
                        /\ b \notin Through(f, dir, {}) => ns[b].dom_pre_number = 0

\* h solves the recursion of ComputeLinks.
LinksOf(h) == h = [i \in 0 .. Len(postorder) |-> IF i = 0 THEN nodes ELSE link(h[i - 1], postorder[i])]

\* There is a solution.
LEMMA LinksExist ==
    ASSUME Len(postorder) \in Nat
    PROVE  \E h : LinksOf(h)
<1> DEFINE n == Len(postorder)
           zero == nodes
           next(acc, i) == link(acc, postorder[i])
           P(m, h) == h = [i \in 0 .. m |-> IF i = 0 THEN zero ELSE next(h[i - 1], i)]
           C == {m \in Nat : m <= n /\ \A h : ~P(m, h)}
<1>0. \A h : LinksOf(h) <=> P(n, h)
  BY DEF LinksOf
<1> HIDE DEF n, zero, next
<1>1. C = {}
  <2> SUFFICES ASSUME C # {} PROVE FALSE
    OBVIOUS
  <2>1. PICK m \in C : \A k \in C : m <= k
    <3> HIDE DEF P
    <3> QED  BY NatMin
  <2>2. m \in Nat /\ m <= n /\ \A h : ~P(m, h)
    <3> HIDE DEF P
    <3> QED  OBVIOUS
  <2>3. CASE m = 0
    <3>1. P(0, [i \in 0 .. 0 |-> zero])
      OBVIOUS
    <3> QED  BY <2>2, <2>3, <3>1
  <2>4. CASE m # 0
    <3>1. m - 1 \in Nat /\ m - 1 <= n /\ m - 1 \notin C
      <4>1. n \in Nat
        BY DEF n
      <4> HIDE DEF C
      <4> QED  BY <2>1, <2>2, <2>4, <4>1
    <3>2. PICK h : P(m - 1, h)
      <4> HIDE DEF P
      <4> QED  BY <3>1
    <3> DEFINE top == next(h[m - 1], m)
               H == [i \in 0 .. m |-> IF i = m THEN top ELSE h[i]]
    <3> HIDE DEF top
    <3>3. ASSUME NEW i \in 0 .. m PROVE H[i] = IF i = 0 THEN zero ELSE next(H[i - 1], i)
      <4>1. CASE i = m
        <5>1. H[i] = top /\ H[i - 1] = h[m - 1]
          BY <2>2, <2>4, <4>1
        <5> HIDE DEF H
        <5> QED  BY <2>4, <4>1, <5>1 DEF top
      <4>2. CASE i # m
        <5>1. i \in 0 .. (m - 1)
          BY <2>2, <4>2
        <5>2. H[i] = h[i] /\ (i # 0 => H[i - 1] = h[i - 1])
          BY <2>2, <5>1
        <5>3. h[i] = IF i = 0 THEN zero ELSE next(h[i - 1], i)
          BY <3>2, <5>1
        <5> HIDE DEF H
        <5> QED  BY <5>2, <5>3
      <4> QED  BY <4>1, <4>2
    <3>4. H = [i \in 0 .. m |-> H[i]]
      OBVIOUS
    <3>5. P(m, H)
      <4> HIDE DEF H
      <4> QED  BY <3>3, <3>4
    <3> QED  BY <2>2, <3>5
  <2> QED  BY <2>3, <2>4
<1>2. n \in Nat
  BY DEF n
<1>3. n \notin C
  <2> HIDE DEF C
  <2> QED  BY <1>1
<1>4. PICK h : P(n, h)
  <2> HIDE DEF P
  <2> QED  BY <1>2, <1>3
<1> QED  BY <1>0, <1>4

\* One link of a node is set.
LEMMA LinkFields ==
    ASSUME NEW r, NEW x,
           r = [idom |-> r.idom, pre_number |-> r.pre_number, child |-> r.child,
                sibling |-> r.sibling, dom_pre_number |-> r.dom_pre_number,
                dom_pre_max |-> r.dom_pre_max]
    PROVE  /\ [r EXCEPT !.child = x]
                = [idom |-> r.idom, pre_number |-> r.pre_number, child |-> x, sibling |-> r.sibling,
                   dom_pre_number |-> r.dom_pre_number, dom_pre_max |-> r.dom_pre_max]
           /\ [r EXCEPT !.sibling = x]
                = [idom |-> r.idom, pre_number |-> r.pre_number, child |-> r.child, sibling |-> x,
                   dom_pre_number |-> r.dom_pre_number, dom_pre_max |-> r.dom_pre_max]
  OBVIOUS

\* A block is linked to its immediate dominator, before the child that has.
LEMMA LinkSets ==
    ASSUME NEW ns, NodesOK(ns), NEW b \in Block, NEW p \in Block, p = ns[b].idom, p # b, p # None
    PROVE  LET r == link(ns, b)
           IN  /\ NodesOK(r)
               /\ \A c \in Block : /\ r[c].idom = ns[c].idom
                                   /\ r[c].child = IF c = p THEN b ELSE ns[c].child
                                   /\ r[c].sibling = IF c = b THEN ns[p].child ELSE ns[c].sibling
<1> DEFINE x == ns[p].child
           s == [ns EXCEPT ![p].child = b]
           tp == [ns[p] EXCEPT !.child = b]
           tb == [ns[b] EXCEPT !.sibling = x]
           r == link(ns, b)
<1> HIDE DEF x
<1>1. r = [s EXCEPT ![b].sibling = x]
  <2>1. r = [ns EXCEPT ![p].child = b, ![b].sibling = x]
    BY Zenon DEF link, x
  <2>2. [ns EXCEPT ![p].child = b, ![b].sibling = x] = [s EXCEPT ![b].sibling = x]
    BY Zenon
  <2> QED  BY <2>1, <2>2, Zenon
<1>2. \A c \in Block : ns[c] = [idom |-> ns[c].idom, pre_number |-> ns[c].pre_number,
                 child |-> ns[c].child, sibling |-> ns[c].sibling,
                 dom_pre_number |-> ns[c].dom_pre_number, dom_pre_max |-> ns[c].dom_pre_max]
  BY DEF NodesOK
<1>3. ns = [c \in Block |-> ns[c]] /\ \A c \in Block : ns[c].pre_number \in Nat
  BY DEF NodesOK
<1>4. s = [c \in Block |-> IF c = p THEN tp ELSE ns[c]]
  <2>1. [[c \in Block |-> ns[c]] EXCEPT ![p].child = b]
          = [c \in Block |-> IF c = p THEN tp ELSE ns[c]]
    OBVIOUS
  <2> QED  BY <1>3, <2>1
<1>5. tp = [idom |-> ns[p].idom, pre_number |-> ns[p].pre_number,
            child |-> b, sibling |-> ns[p].sibling,
            dom_pre_number |-> ns[p].dom_pre_number, dom_pre_max |-> ns[p].dom_pre_max]
  BY <1>2, LinkFields
<1>6. tb = [idom |-> ns[b].idom, pre_number |-> ns[b].pre_number,
            child |-> ns[b].child, sibling |-> x,
            dom_pre_number |-> ns[b].dom_pre_number, dom_pre_max |-> ns[b].dom_pre_max]
  BY <1>2, LinkFields
<1> HIDE DEF s, tp
<1>7. s[b] = ns[b]
  BY <1>4
<1>8. r = [c \in Block |-> IF c = b THEN tb ELSE s[c]]
  <2>1. [[c \in Block |-> IF c = p THEN tp ELSE ns[c]] EXCEPT ![b].sibling = x]
          = [c \in Block |-> IF c = b THEN [s[b] EXCEPT !.sibling = x] ELSE s[c]]
    BY <1>4
  <2> QED  BY <1>1, <1>4, <1>7, <2>1
<1> HIDE DEF r, tb
<1>9. r = [c \in Block |-> r[c]] /\ r[b] = tb /\ r[p] = tp
      /\ \A c \in Block : c # b /\ c # p => r[c] = ns[c]
  BY <1>4, <1>8
<1>10. /\ tp.idom = ns[p].idom /\ tp.pre_number = ns[p].pre_number
       /\ tp.child = b /\ tp.sibling = ns[p].sibling
       /\ tp.dom_pre_number = ns[p].dom_pre_number /\ tp.dom_pre_max = ns[p].dom_pre_max
  BY <1>5
<1>11. /\ tb.idom = ns[b].idom /\ tb.pre_number = ns[b].pre_number
       /\ tb.child = ns[b].child /\ tb.sibling = x
       /\ tb.dom_pre_number = ns[b].dom_pre_number /\ tb.dom_pre_max = ns[b].dom_pre_max
  BY <1>6
<1>12. tp = [idom |-> tp.idom, pre_number |-> tp.pre_number, child |-> tp.child, sibling |-> tp.sibling,
             dom_pre_number |-> tp.dom_pre_number, dom_pre_max |-> tp.dom_pre_max]
  BY <1>5, <1>10, Zenon
<1>13. tb = [idom |-> tb.idom, pre_number |-> tb.pre_number, child |-> tb.child, sibling |-> tb.sibling,
             dom_pre_number |-> tb.dom_pre_number, dom_pre_max |-> tb.dom_pre_max]
  BY <1>6, <1>11, Zenon
<1>14. ASSUME NEW c \in Block
       PROVE  /\ r[c] = [idom |-> r[c].idom, pre_number |-> r[c].pre_number,
                         child |-> r[c].child, sibling |-> r[c].sibling,
                         dom_pre_number |-> r[c].dom_pre_number, dom_pre_max |-> r[c].dom_pre_max]
              /\ r[c].pre_number \in Nat /\ r[c].idom = ns[c].idom
              /\ r[c].child = IF c = p THEN b ELSE ns[c].child
              /\ r[c].sibling = IF c = b THEN x ELSE ns[c].sibling
  <2>1. CASE c = b
    <3>1. r[c] = tb
      BY <1>9, <2>1
    <3> QED  BY <1>3, <1>11, <1>13, <2>1, <3>1
  <2>2. CASE c = p
    <3>1. r[c] = tp
      BY <1>9, <2>2
    <3> QED  BY <1>3, <1>10, <1>12, <2>2, <3>1
  <2>3. CASE c # b /\ c # p
    <3>1. r[c] = ns[c]
      BY <1>9, <2>3
    <3> QED  BY <1>2, <1>3, <2>3, <3>1
  <2> QED  BY <2>1, <2>2, <2>3
<1> QED  BY <1>9, <1>14 DEF NodesOK, r, x

\* Every block of the postorder is linked.
LEMMA LinksAreSet ==
    ASSUME NEW f, NEW dir, TreeFound(f, dir, nodes, postorder), Unlinked(nodes), NEW h, LinksOf(h)
    PROVE  LET r == h[Len(postorder)]
           IN  LinkedTree(Through(f, dir, {}), IdomsOf(nodes), Rank(postorder),
                          ChildrenOf(r), SiblingsOf(r))
<1> DEFINE m == Len(postorder)
           V == Through(f, dir, {})
           up == IdomsOf(nodes)
           rk == Rank(postorder)
           D == DomPairs(f, dir)
           A(i) == /\ NodesOK(h[i]) /\ \A c \in Block : h[i][c].idom = nodes[c].idom
                   /\ LinkedUpTo(V, up, rk, ChildrenOf(h[i]), SiblingsOf(h[i]), i)
<1>1. /\ NodesOK(nodes) /\ postorder \in Seq(Block) /\ m \in Nat
      /\ \A i, j \in 1 .. m : postorder[i] = postorder[j] => i = j
      /\ \A b \in Block : /\ b \in V <=> HasLeft(postorder, b)
                          /\ b \notin V => nodes[b].idom = None
      /\ DomTree(V, up, rk, D)
  BY DEF TreeFound
<1>2. V \subseteq Block
  <2>1. V \subseteq DOMAIN rk /\ DOMAIN rk \subseteq Block
    <3>1. rk \in [V -> Nat]
      <4> HIDE DEF V, up, rk, D
      <4>1. \E k \in Nat : rk \in [V -> 1 .. k]
        BY <1>1 DEF DomTree
      <4>2. PICK k \in Nat : rk \in [V -> 1 .. k]
        BY <4>1
      <4> QED  BY <4>2
    <3>2. DOMAIN rk = {postorder[i] : i \in 1 .. Len(postorder)}
      BY DEF Rank
    <3> QED  BY <1>1, <3>1, <3>2
  <2> QED  BY <2>1
<1>3. \A b \in V : rk[b] \in 1 .. m /\ postorder[rk[b]] = b
  <2>1. \A b \in V : \E i \in 1 .. Len(postorder) : postorder[i] = b
    BY <1>1, <1>2 DEF HasLeft
  <2> QED  BY <2>1 DEF Rank
<1>4. \A i \in 1 .. m : postorder[i] \in V /\ rk[postorder[i]] = i
  <2>1. \A i \in 1 .. m : postorder[i] \in V
    BY <1>1 DEF HasLeft
  <2> QED  BY <1>1, <1>3, <2>1
<1>5. \A i \in 0 .. m : h[i] = IF i = 0 THEN nodes ELSE link(h[i - 1], postorder[i])
  BY DEF LinksOf
<1> HIDE DEF V, up, rk, D
<1>6. A(0)
  <2>1. h[0] = nodes
    BY <1>1, <1>5
  <2>2. LinkedUpTo(V, up, rk, ChildrenOf(nodes), SiblingsOf(nodes), 0)
    <3>1. \A b \in V : ChildrenOf(nodes)[b] = None /\ SiblingsOf(nodes)[b] = None
      BY <1>2 DEF Unlinked, ChildrenOf, SiblingsOf
    <3>2. \A b \in V : ~(rk[b] <= 0) /\ 0 < rk[b]
      BY <1>1, <1>3
    <3> QED  BY <3>1, <3>2 DEF LinkedUpTo
  <2> QED  BY <1>1, <2>1, <2>2
<1>7. ASSUME NEW i \in 1 .. m, A(i - 1) PROVE A(i)
  <2> DEFINE b == postorder[i]
             ns == h[i - 1]
             p == ns[b].idom
             r == link(ns, b)
  <2>1. b \in V /\ b \in Block /\ rk[b] = i /\ h[i] = r
    <3>1. i \in 0 .. m /\ i # 0
      BY <1>1
    <3> QED  BY <1>2, <1>4, <1>5, <3>1
  <2> HIDE DEF b, ns
  <2>2. /\ NodesOK(ns) /\ \A c \in Block : ns[c].idom = nodes[c].idom
        /\ LinkedUpTo(V, up, rk, ChildrenOf(ns), SiblingsOf(ns), rk[b] - 1)
    BY <1>7, <2>1 DEF ns
  <2>3. p = up[b]
    BY <2>1, <2>2 DEF up, IdomsOf
  <2>4. CASE p = None
    <3>1. r = ns
      BY <2>4 DEF link
    <3>2. LinkedUpTo(V, up, rk, ChildrenOf(ns), SiblingsOf(ns), rk[b])
      <4> DEFINE ch == ChildrenOf(ns)
                 sb == SiblingsOf(ns)
      <4> HIDE DEF ch, sb, p
      <4> SUFFICES LinkedUpTo(V, up, rk, ch, sb, rk[b])
        BY DEF ch, sb
      <4>1. LinkedUpTo(V, up, rk, ch, sb, rk[b] - 1)
        BY <2>2 DEF ch, sb
      <4> QED  BY <1>1, <2>1, <2>3, <2>4, <4>1, LinksGrow
    <3> QED  BY <2>1, <2>2, <3>1, <3>2
  <2>5. CASE p # None
    <3>1. p \in V /\ p \in Block /\ p # b
      <4>1. up[b] \in V /\ rk[b] < rk[up[b]]
        BY <1>1, <2>1, <2>3, <2>5 DEF DomTree
      <4> QED  BY <1>2, <1>3, <2>1, <2>3, <4>1
    <3>2. /\ NodesOK(r)
          /\ \A c \in Block : /\ r[c].idom = ns[c].idom
                              /\ r[c].child = IF c = p THEN b ELSE ns[c].child
                              /\ r[c].sibling = IF c = b THEN ns[p].child ELSE ns[c].sibling
      <4> HIDE DEF p, r
      <4>1. p = ns[b].idom /\ r = link(ns, b)
        BY DEF p, r
      <4> QED  BY <2>1, <2>2, <2>5, <3>1, <4>1, LinkSets
    <3> HIDE DEF r
    <3>3. LinkedUpTo(V, up, rk, ChildrenOf(r), SiblingsOf(r), rk[b])
      <4> DEFINE ch == ChildrenOf(ns)
                 sb == SiblingsOf(ns)
                 ch2 == ChildrenOf(r)
                 sb2 == SiblingsOf(r)
      <4>1. LinkedUpTo(V, up, rk, ch, sb, rk[b] - 1)
        BY <2>2
      <4>2. /\ \A x \in V : x # up[b] => ch2[x] = ch[x]
            /\ \A x \in V : x # b => sb2[x] = sb[x]
            /\ ch2[up[b]] = b /\ sb2[b] = ch[up[b]]
        BY <1>2, <2>1, <2>3, <3>1, <3>2 DEF ChildrenOf, SiblingsOf
      <4> HIDE DEF ch, sb, ch2, sb2, p
      <4>0. DomTree(V, up, rk, D) /\ up[b] # None
        BY <1>1, <2>3, <2>5
      <4>3. LinkedUpTo(V, up, rk, ch2, sb2, rk[b])
        BY <2>1, <4>0, <4>1, <4>2, LinksGrow
      <4> QED  BY <4>3 DEF ch2, sb2
    <3> QED  BY <2>1, <2>2, <3>2, <3>3
  <2> QED  BY <2>4, <2>5
<1>8. A(m)
  <2> DEFINE B == {i \in Nat : i <= m /\ ~A(i)}
  <2> HIDE DEF A
  <2>1. B = {}
    <3> SUFFICES ASSUME B # {} PROVE FALSE
      OBVIOUS
    <3>1. PICK i \in B : \A k \in B : i <= k
      BY NatMin
    <3>2. i # 0
      BY <1>6, <3>1
    <3>3. i \in 1 .. m /\ i - 1 \in Nat /\ i - 1 <= m /\ i - 1 \notin B
      BY <1>1, <3>1, <3>2
    <3> QED  BY <1>7, <3>1, <3>3
  <2> QED  BY <1>1, <2>1
<1>9. LinkedUpTo(V, up, rk, ChildrenOf(h[m]), SiblingsOf(h[m]), m)
  BY <1>8
<1>10. \A b \in V : rk[b] <= m
  BY <1>1, <1>3
<1>11. LinkedTree(V, up, rk, ChildrenOf(h[m]), SiblingsOf(h[m]))
  BY <1>9, <1>10, LinksDone
<1> QED  BY <1>11 DEF V, up, rk

\* ComputeLinks links the blocks and puts the roots of the tree on the stack.
LEMMA LinksAreMade ==
    ASSUME ComputeLinks, TreeFound(func, direction, nodes, postorder), Unlinked(nodes)
    PROVE  /\ pc' = "preorder" /\ func' = func /\ direction' = direction
           /\ PreorderAt(func, direction, nodes', postorder', worklist', cursor')
<1> DEFINE m == Len(postorder)
           V == Through(func, direction, {})
           up == IdomsOf(nodes)
           rk == Rank(postorder)
           D == DomPairs(func, direction)
           Roots == {b \in Block : nodes[b].idom = None}
           tops == kept(cfg_rpo, Roots)
           h == CHOOSE g : LinksOf(g)
           r == h[m]
<1>1. /\ pc' = "preorder" /\ cursor' = 0 /\ UNCHANGED <<func, direction, stree, postorder>>
      /\ nodes' = [b \in Block |-> [nodes[b] EXCEPT !.child = r[b].child, !.sibling = r[b].sibling]]
      /\ worklist' = [i \in DOMAIN tops |-> enter(0, tops[i])]
  BY Zenon DEF ComputeLinks, flowVars, LinksOf
<1>2. /\ NodesOK(nodes) /\ postorder \in Seq(Block) /\ m \in Nat
      /\ \A i, j \in 1 .. m : postorder[i] = postorder[j] => i = j
      /\ \A b \in Block : /\ b \in V <=> nodes[b].pre_number # 0
                          /\ b \in V <=> HasLeft(postorder, b)
                          /\ b \notin V => nodes[b].idom = None
      /\ DomTree(V, up, rk, D)
  BY DEF TreeFound
<1>3. LinkedTree(V, up, rk, ChildrenOf(r), SiblingsOf(r))
  <2>1. LinksOf(h)
    <3>1. \E g : LinksOf(g)
      BY <1>2, LinksExist
    <3> QED  BY <3>1
  <2> HIDE DEF h
  <2> QED  BY <2>1, LinksAreSet
<1> HIDE DEF h, r
<1>4. ASSUME NEW c \in Block
      PROVE  nodes'[c]
              = [idom |-> nodes[c].idom, pre_number |-> nodes[c].pre_number,
                 child |-> r[c].child, sibling |-> r[c].sibling,
                 dom_pre_number |-> nodes[c].dom_pre_number, dom_pre_max |-> nodes[c].dom_pre_max]
  <2>1. nodes'[c] = [nodes[c] EXCEPT !.child = r[c].child, !.sibling = r[c].sibling]
    BY <1>1
  <2>2. nodes[c] = [idom |-> nodes[c].idom, pre_number |-> nodes[c].pre_number,
             child |-> nodes[c].child, sibling |-> nodes[c].sibling,
             dom_pre_number |-> nodes[c].dom_pre_number, dom_pre_max |-> nodes[c].dom_pre_max]
    BY <1>2 DEF NodesOK
  <2> QED  BY <2>1, <2>2, NodeUpdates
<1>5. nodes' = [c \in Block |-> nodes'[c]]
  BY <1>1, Zenon
<1>6. \A c \in Block : /\ nodes'[c].idom = nodes[c].idom /\ nodes'[c].pre_number = nodes[c].pre_number
                       /\ nodes'[c].child = r[c].child /\ nodes'[c].sibling = r[c].sibling
                       /\ nodes'[c].dom_pre_number = nodes[c].dom_pre_number
                       /\ nodes'[c].dom_pre_max = nodes[c].dom_pre_max
  <2> DEFINE ns == nodes'
  <2>1. ASSUME NEW c \in Block
        PROVE  /\ ns[c].idom = nodes[c].idom /\ ns[c].pre_number = nodes[c].pre_number
               /\ ns[c].child = r[c].child /\ ns[c].sibling = r[c].sibling
               /\ ns[c].dom_pre_number = nodes[c].dom_pre_number
               /\ ns[c].dom_pre_max = nodes[c].dom_pre_max
    <3>1. ns[c] = [idom |-> nodes[c].idom, pre_number |-> nodes[c].pre_number,
                   child |-> r[c].child, sibling |-> r[c].sibling,
                   dom_pre_number |-> nodes[c].dom_pre_number, dom_pre_max |-> nodes[c].dom_pre_max]
      BY <1>4
    <3> HIDE DEF ns
    <3> QED  BY <3>1
  <2> QED  BY <2>1
<1>7. NodesOK(nodes')
  BY <1>2, <1>4, <1>5, <1>6 DEF NodesOK
<1>8. /\ IdomsOf(nodes') = up /\ ChildrenOf(nodes') = ChildrenOf(r) /\ SiblingsOf(nodes') = SiblingsOf(r)
      /\ \A b \in Block : PreOf(nodes')[b] = 0 /\ nodes'[b].dom_pre_number = 0 /\ nodes'[b].dom_pre_max = 0
  BY <1>6 DEF IdomsOf, ChildrenOf, SiblingsOf, PreOf, Unlinked
<1>9. TreeFound(func, direction, nodes', postorder)
  BY <1>2, <1>6, <1>7, <1>8 DEF TreeFound
<1>10. V \subseteq Block
  <2>1. V \subseteq DOMAIN rk /\ DOMAIN rk \subseteq Block
    <3>1. rk \in [V -> Nat]
      <4> HIDE DEF V, up, rk, D
      <4>1. \E k \in Nat : rk \in [V -> 1 .. k]
        BY <1>2 DEF DomTree
      <4>2. PICK k \in Nat : rk \in [V -> 1 .. k]
        BY <4>1
      <4> QED  BY <4>2
    <3>2. DOMAIN rk = {postorder[i] : i \in 1 .. Len(postorder)}
      BY DEF Rank
    <3> QED  BY <1>2, <3>1, <3>2
  <2> QED  BY <2>1
<1>11. /\ cfg_rpo \in Seq(Block) /\ Len(cfg_rpo) = m
       /\ \A i \in 1 .. m : m - i + 1 \in 1 .. m /\ cfg_rpo[i] = postorder[m - i + 1]
       /\ \A x : (\E i \in 1 .. m : postorder[i] = x) <=> (\E i \in 1 .. m : cfg_rpo[i] = x)
  <2>1. /\ Reverse(postorder) \in Seq(Block) /\ Len(Reverse(postorder)) = Len(postorder)
        /\ \A i \in 1 .. Len(postorder) : Len(postorder) - i + 1 \in 1 .. Len(postorder)
                                     /\ Reverse(postorder)[i] = postorder[Len(postorder) - i + 1]
        /\ \A x : (\E i \in 1 .. Len(postorder) : postorder[i] = x) <=>
                  (\E i \in 1 .. Len(Reverse(postorder)) : Reverse(postorder)[i] = x)
    BY <1>2, ReverseRange
  <2> QED  BY <2>1 DEF cfg_rpo
<1>12. \A b \in V : \E i \in 1 .. m : cfg_rpo[i] = b
  BY <1>2, <1>10, <1>11 DEF HasLeft
<1>13. \A i \in 1 .. m : cfg_rpo[i] \in V
  BY <1>2, <1>11 DEF HasLeft
<1>14. \A i, j \in 1 .. m : cfg_rpo[i] = cfg_rpo[j] => i = j
  <2>1. ASSUME NEW i \in 1 .. m, NEW j \in 1 .. m, cfg_rpo[i] = cfg_rpo[j] PROVE i = j
    <3>0. /\ m - i + 1 \in 1 .. m /\ m - j + 1 \in 1 .. m
          /\ postorder[m - i + 1] = postorder[m - j + 1]
      BY <1>11, <2>1
    <3>1. m - i + 1 = m - j + 1
      BY <1>2, <3>0
    <3> QED  BY <1>2, <3>1
  <2> QED  BY <2>1
<1> HIDE DEF V, up, rk, D, Roots
<1>15. /\ tops \in Seq(Block)
       /\ \A i \in 1 .. Len(tops) : tops[i] \in Roots /\ tops[i] \in V
       /\ \A i, j \in 1 .. Len(tops) : tops[i] = tops[j] => i = j
       /\ \A b \in V : b \in Roots => \E i \in 1 .. Len(tops) : tops[i] = b
  <2> DEFINE s == cfg_rpo
  <2>1. s \in Seq(Block) /\ Len(s) = m
    BY <1>11
  <2>2. /\ kept(s, Roots) \in Seq(Block)
        /\ \A i \in 1 .. Len(kept(s, Roots)) :
              kept(s, Roots)[i] \in Roots /\ \E j \in 1 .. Len(s) : kept(s, Roots)[i] = s[j]
        /\ (\A i, j \in 1 .. Len(s) : s[i] = s[j] => i = j) =>
              \A i, j \in 1 .. Len(kept(s, Roots)) : kept(s, Roots)[i] = kept(s, Roots)[j] => i = j
    <3> HIDE DEF s
    <3> QED  BY <2>1, KeptPicks
  <2>3. \A j \in 1 .. Len(s) : s[j] \in Roots =>
           \E i \in 1 .. Len(kept(s, Roots)) : kept(s, Roots)[i] = s[j]
    <3> HIDE DEF s
    <3> QED  BY <2>1, KeptKeeps
  <2>4. \A i \in 1 .. Len(tops) : tops[i] \in V
    BY <1>13, <2>1, <2>2
  <2>5. \A i, j \in 1 .. Len(tops) : tops[i] = tops[j] => i = j
    BY <1>14, <2>1, <2>2
  <2>6. \A b \in V : b \in Roots => \E i \in 1 .. Len(tops) : tops[i] = b
    BY <1>12, <2>1, <2>3
  <2> QED  BY <2>2, <2>4, <2>5, <2>6
<1> HIDE DEF tops
<1>16. worklist' \in Seq(WorkItem) /\ ItemBlocks(worklist') = [i \in 1 .. Len(tops) |-> tops[i]]
  <2>0. DOMAIN tops = 1 .. Len(tops) /\ Len(tops) \in Nat
    BY <1>15
  <2>1. worklist' = [i \in 1 .. Len(tops) |-> enter(0, tops[i])] /\ Len(tops) \in Nat
    <3>1. worklist' = [i \in DOMAIN tops |-> enter(0, tops[i])]
      BY <1>1
    <3> QED  BY <2>0, <3>1, Zenon
  <2>2. \A i \in 1 .. Len(tops) : enter(0, tops[i]) \in WorkItem /\ enter(0, tops[i]).block = tops[i]
    BY <1>15 DEF enter, WorkItem
  <2>3. worklist' \in Seq(WorkItem) /\ Len(worklist') = Len(tops)
    BY <2>1, <2>2
  <2>4. \A i \in 1 .. Len(tops) : worklist'[i].block = tops[i]
    BY <2>1, <2>2
  <2> QED  BY <2>3, <2>4 DEF ItemBlocks
<1> DEFINE T == ItemBlocks(worklist')
<1>17. T \in Seq(V) /\ Len(T) = Len(tops) /\ \A i \in 1 .. Len(T) : T[i] = tops[i]
  BY <1>15, <1>16
<1>18. \A b \in V : b \in Roots <=> up[b] = None
  BY <1>10 DEF Roots, up, IdomsOf
<1>19. PreorderOf(V, up, rk, D, PreOf(nodes'), 0, T)
  <2>1. \A b \in V : PreOf(nodes')[b] = 0
    BY <1>8, <1>10
  <2>2. \A i \in 1 .. Len(T) : up[T[i]] = None
    BY <1>15, <1>17, <1>18
  <2>3. \A i, j \in 1 .. Len(T) : T[i] = T[j] => i = j
    BY <1>15, <1>17
  <2>4. \A b \in V : up[b] = None => \E i \in 1 .. Len(T) : T[i] = b
    BY <1>15, <1>17, <1>18
  <2> DEFINE pre == PreOf(nodes')
  <2> HIDE DEF T, pre
  <2>5. \A b \in V : pre[b] = 0
    BY <2>1 DEF pre
  <2> QED  BY <1>2, <1>17, <2>2, <2>3, <2>4, <2>5, PreorderStarts DEF pre
<1>20. PreorderAt(func, direction, nodes', postorder, worklist', 0)
  BY <1>3, <1>8, <1>9, <1>16, <1>19 DEF PreorderAt, V, up, rk, D
<1> QED  BY <1>1, <1>20

(***************************************************************************)
(* The preorder of the tree.                                               *)
(***************************************************************************)

\* The postorder has the blocks of the tree, by their ranks.
LEMMA TreeRanks ==
    ASSUME NEW f, NEW dir, NEW ns, NEW po, TreeFound(f, dir, ns, po)
    PROVE  /\ Through(f, dir, {}) \subseteq Block /\ Len(po) \in Nat
           /\ \A b \in Through(f, dir, {}) : Rank(po)[b] \in 1 .. Len(po) /\ po[Rank(po)[b]] = b
           /\ \A i \in 1 .. Len(po) : po[i] \in Through(f, dir, {}) /\ Rank(po)[po[i]] = i
<1> DEFINE V == Through(f, dir, {})
           rk == Rank(po)
<1>1. /\ po \in Seq(Block)
      /\ \A i, j \in 1 .. Len(po) : po[i] = po[j] => i = j
      /\ \A b \in Block : b \in V <=> HasLeft(po, b)
      /\ DomTree(V, IdomsOf(ns), rk, DomPairs(f, dir))
  BY DEF TreeFound
<1>2. V \subseteq Block
  <2>1. V \subseteq DOMAIN rk /\ DOMAIN rk \subseteq Block
    <3>1. rk \in [V -> Nat]
      <4> HIDE DEF V, rk
      <4>1. \E k \in Nat : rk \in [V -> 1 .. k]
        BY <1>1 DEF DomTree
      <4>2. PICK k \in Nat : rk \in [V -> 1 .. k]
        BY <4>1
      <4> QED  BY <4>2
    <3>2. DOMAIN rk = {po[i] : i \in 1 .. Len(po)}
      BY DEF Rank
    <3> QED  BY <1>1, <3>1, <3>2
  <2> QED  BY <2>1
<1>3. \A b \in V : rk[b] \in 1 .. Len(po) /\ po[rk[b]] = b
  <2>1. \A b \in V : \E i \in 1 .. Len(po) : po[i] = b
    BY <1>1, <1>2 DEF HasLeft
  <2> QED  BY <2>1 DEF Rank
<1>4. \A i \in 1 .. Len(po) : po[i] \in V /\ rk[po[i]] = i
  <2>1. \A i \in 1 .. Len(po) : po[i] \in V
    BY <1>1 DEF HasLeft
  <2> QED  BY <1>1, <1>3, <2>1
<1> QED  BY <1>1, <1>2, <1>3, <1>4

\* What a link pushes on the stack.
LEMMA PushedItems ==
    ASSUME NEW x, x = None \/ x \in Block
    PROVE  /\ pushed(x) \in Seq(WorkItem)
           /\ Len(pushed(x)) = IF x = None THEN 0 ELSE 1
           /\ x # None => pushed(x)[1].block = x
<1>1. CASE x = None
  BY <1>1 DEF pushed
<1>2. CASE x # None
  <2>1. enter(0, x) \in WorkItem /\ enter(0, x).block = x
    BY <1>2 DEF enter, WorkItem
  <2> HIDE DEF enter
  <2>2. pushed(x) = <<enter(0, x)>>
    BY <1>2 DEF pushed
  <2> QED  BY <1>2, <2>1, <2>2
<1> QED  BY <1>1, <1>2

\* The two parts of a sequence put together of two.
LEMMA ConcatParts ==
    ASSUME NEW S, NEW u \in Seq(S), NEW e \in Seq(S), NEW w, w = u \o e
    PROVE  /\ w \in Seq(S) /\ Len(w) = Len(u) + Len(e)
           /\ \A i \in 1 .. Len(u) : w[i] = u[i]
           /\ \A i \in 1 .. Len(e) : w[Len(u) + i] = e[i]
<1>1. /\ w \in Seq(S) /\ Len(w) = Len(u) + Len(e)
      /\ \A i \in 1 .. Len(u) + Len(e) : w[i] = IF i <= Len(u) THEN u[i] ELSE e[i - Len(u)]
  BY ConcatAt
<1>2. Len(u) \in Nat /\ Len(e) \in Nat
  OBVIOUS
<1>3. ASSUME NEW i \in 1 .. Len(u) PROVE w[i] = u[i]
  <2>1. i \in 1 .. Len(u) + Len(e) /\ i <= Len(u)
    BY <1>2
  <2> QED  BY <1>1, <2>1
<1>4. ASSUME NEW i \in 1 .. Len(e) PROVE w[Len(u) + i] = e[i]
  <2>1. Len(u) + i \in 1 .. Len(u) + Len(e) /\ ~(Len(u) + i <= Len(u)) /\ Len(u) + i - Len(u) = i
    BY <1>2
  <2> QED  BY <1>1, <2>1
<1> QED  BY <1>1, <1>3, <1>4

\* The stack after a block was taken from it.
LEMMA StackSplits ==
    ASSUME NEW V, V \subseteq Block, NEW wl \in Seq(WorkItem), wl # <<>>,
           \A i \in 1 .. Len(wl) : wl[i].block \in V,
           NEW c, c = None \/ c \in V, NEW s, s = None \/ s \in V
    PROVE  LET w2 == pushed(c) \o pushed(s) \o Tail(wl)
           IN  /\ w2 \in Seq(WorkItem) /\ ItemBlocks(w2) \in Seq(V)
               /\ \E o : PoppedBy(o, ItemBlocks(wl), ItemBlocks(w2), c, s)
<1> DEFINE P == pushed(c)
           Q == pushed(s)
           R == Tail(wl)
           lc == Len(P)
           ls == Len(Q)
           w2 == P \o Q \o R
           T == ItemBlocks(wl)
           T2 == ItemBlocks(w2)
           o == [i \in 1 .. Len(w2) |-> IF i <= lc THEN -1 ELSE IF i <= lc + ls THEN 0
                                        ELSE i - lc - ls + 1]
<1>1. /\ P \in Seq(WorkItem) /\ lc = (IF c = None THEN 0 ELSE 1) /\ (c # None => P[1].block = c)
  BY PushedItems
<1>2. /\ Q \in Seq(WorkItem) /\ ls = (IF s = None THEN 0 ELSE 1) /\ (s # None => Q[1].block = s)
  BY PushedItems
<1>3. /\ R \in Seq(WorkItem) /\ Len(R) = Len(wl) - 1 /\ Len(wl) \in Nat \ {0}
      /\ \A i \in 1 .. Len(R) : R[i] = wl[i + 1]
  OBVIOUS
<1> HIDE DEF P, Q, R
<1>4. /\ w2 \in Seq(WorkItem) /\ Len(w2) = lc + ls + Len(R)
      /\ \A i \in 1 .. lc : w2[i] = P[i]
      /\ \A i \in 1 .. ls : w2[lc + i] = Q[i]
      /\ \A i \in 1 .. Len(R) : w2[lc + ls + i] = R[i]
  <2> DEFINE PQ == P \o Q
  <2>1. /\ PQ \in Seq(WorkItem) /\ Len(PQ) = lc + ls
        /\ \A i \in 1 .. lc : PQ[i] = P[i]
        /\ \A i \in 1 .. ls : PQ[lc + i] = Q[i]
    <3>1. /\ PQ \in Seq(WorkItem) /\ Len(PQ) = Len(P) + Len(Q)
          /\ \A i \in 1 .. Len(P) : PQ[i] = P[i]
          /\ \A i \in 1 .. Len(Q) : PQ[Len(P) + i] = Q[i]
      <4>1. PQ = P \o Q
        OBVIOUS
      <4> HIDE DEF PQ, lc, ls
      <4>2. P \in Seq(WorkItem) /\ Q \in Seq(WorkItem)
        BY <1>1, <1>2
      <4> QED  BY <4>1, <4>2, ConcatParts
    <3> QED  BY <3>1
  <2> HIDE DEF PQ
  <2>2. /\ PQ \o R \in Seq(WorkItem) /\ Len(PQ \o R) = Len(PQ) + Len(R)
        /\ \A i \in 1 .. Len(PQ) : (PQ \o R)[i] = PQ[i]
        /\ \A i \in 1 .. Len(R) : (PQ \o R)[Len(PQ) + i] = R[i]
    <3> DEFINE W == PQ \o R
    <3>1. W = PQ \o R
      OBVIOUS
    <3>2. PQ \in Seq(WorkItem) /\ R \in Seq(WorkItem)
      BY <1>3, <2>1
    <3> HIDE DEF W, lc, ls
    <3>3. /\ W \in Seq(WorkItem) /\ Len(W) = Len(PQ) + Len(R)
          /\ \A i \in 1 .. Len(PQ) : W[i] = PQ[i]
          /\ \A i \in 1 .. Len(R) : W[Len(PQ) + i] = R[i]
      BY <3>1, <3>2, ConcatParts
    <3> QED  BY <3>1, <3>3
  <2>3. w2 = PQ \o R
    BY DEF PQ
  <2> HIDE DEF w2
  <2>4. /\ w2 \in Seq(WorkItem) /\ Len(w2) = lc + ls + Len(R)
        /\ \A i \in 1 .. Len(R) : w2[lc + ls + i] = R[i]
    BY <2>1, <2>2, <2>3
  <2>5. \A i \in 1 .. lc : w2[i] = P[i]
    <3>1. \A i \in 1 .. lc : i \in 1 .. Len(PQ)
      BY <1>1, <1>2, <2>1
    <3> QED  BY <2>1, <2>2, <2>3, <3>1
  <2>6. \A i \in 1 .. ls : w2[lc + i] = Q[i]
    <3>1. \A i \in 1 .. ls : lc + i \in 1 .. Len(PQ)
      BY <1>1, <1>2, <2>1
    <3> QED  BY <2>1, <2>2, <2>3, <3>1
  <2> QED  BY <2>4, <2>5, <2>6
<1> HIDE DEF w2
<1>5. lc \in 0 .. 1 /\ ls \in 0 .. 1 /\ Len(R) \in Nat /\ Len(w2) \in Nat
  BY <1>1, <1>2, <1>3, <1>4
<1>6. Len(T) = Len(wl) /\ \A i \in 1 .. Len(wl) : T[i] = wl[i].block
  BY <1>3 DEF ItemBlocks
<1>7. Len(T2) = Len(w2) /\ \A i \in 1 .. Len(w2) : T2[i] = w2[i].block
  BY <1>5 DEF ItemBlocks
<1>8. /\ c # None => T2[1] = c
      /\ s # None => T2[lc + 1] = s
      /\ \A i \in 1 .. Len(R) : T2[lc + ls + i] = T[i + 1]
  <2>1. c # None => T2[1] = c
    <3>1. c # None => 1 \in 1 .. lc /\ 1 \in 1 .. Len(w2)
      BY <1>1, <1>2, <1>4, <1>5
    <3> QED  BY <1>1, <1>4, <1>7, <3>1
  <2>2. s # None => T2[lc + 1] = s
    <3>1. s # None => 1 \in 1 .. ls /\ lc + 1 \in 1 .. Len(w2)
      BY <1>1, <1>2, <1>4, <1>5
    <3> QED  BY <1>2, <1>4, <1>7, <3>1
  <2>3. \A i \in 1 .. Len(R) : T2[lc + ls + i] = T[i + 1]
    <3>1. ASSUME NEW i \in 1 .. Len(R) PROVE T2[lc + ls + i] = T[i + 1]
      <4>1. lc + ls + i \in 1 .. Len(w2) /\ i + 1 \in 1 .. Len(wl)
        BY <1>3, <1>4, <1>5
      <4>2. T2[lc + ls + i] = w2[lc + ls + i].block
        BY <1>7, <4>1
      <4>3. T[i + 1] = wl[i + 1].block
        BY <1>6, <4>1
      <4>4. w2[lc + ls + i] = R[i] /\ R[i] = wl[i + 1]
        BY <1>3, <1>4
      <4> QED  BY <4>2, <4>3, <4>4
    <3> QED  BY <3>1
  <2> QED  BY <2>1, <2>2, <2>3
<1> HIDE DEF T, T2, lc, ls
<1>9. ASSUME NEW i \in 1 .. Len(w2)
      PROVE  \/ i <= lc /\ c # None /\ T2[i] = c
             \/ ~(i <= lc) /\ i <= lc + ls /\ s # None /\ T2[i] = s
             \/ /\ ~(i <= lc) /\ ~(i <= lc + ls)
                /\ i - lc - ls + 1 \in 2 .. Len(T) /\ T2[i] = T[i - lc - ls + 1]
  <2>1. CASE i <= lc
    <3>1. i = 1 /\ c # None
      BY <1>1, <1>5, <2>1
    <3> QED  BY <1>8, <2>1, <3>1
  <2>2. CASE ~(i <= lc) /\ i <= lc + ls
    <3>1. i = lc + 1 /\ s # None
      BY <1>2, <1>5, <2>2
    <3> QED  BY <1>8, <2>2, <3>1
  <2>3. CASE ~(i <= lc) /\ ~(i <= lc + ls)
    <3>1. i - lc - ls \in 1 .. Len(R) /\ lc + ls + (i - lc - ls) = i
      BY <1>4, <1>5, <2>3
    <3>2. T2[i] = T[i - lc - ls + 1]
      BY <1>8, <3>1
    <3>3. i - lc - ls + 1 \in 2 .. Len(T)
      BY <1>3, <1>5, <1>6, <3>1
    <3> QED  BY <2>3, <3>2, <3>3
  <2> QED  BY <1>5, <2>1, <2>2, <2>3
<1>10. \A i \in 1 .. Len(T) : T[i] \in V
  BY <1>6
<1>11. T2 \in Seq(V)
  <2>1. \A i \in 1 .. Len(w2) : T2[i] \in V
    <3>1. \A i \in 2 .. Len(T) : i \in 1 .. Len(T)
      OBVIOUS
    <3> QED  BY <1>9, <1>10, <3>1
  <2>2. T2 = [i \in 1 .. Len(w2) |-> T2[i]]
    BY <1>5, <1>7 DEF T2, ItemBlocks
  <2> QED  BY <1>5, <2>1, <2>2
<1>12. /\ \A i \in 1 .. Len(w2) : o[i] = IF i <= lc THEN -1 ELSE IF i <= lc + ls THEN 0
                                        ELSE i - lc - ls + 1
       /\ o = [i \in 1 .. Len(w2) |-> o[i]]
  OBVIOUS
<1> HIDE DEF o
<1>13. \A i \in 1 .. Len(w2) : o[i] \in {-1, 0} \cup 2 .. Len(T)
  BY <1>9, <1>12
<1>14. o \in [1 .. Len(T2) -> {-1, 0} \cup 2 .. Len(T)]
  BY <1>7, <1>12, <1>13
<1>15. \A i, j \in 1 .. Len(T2) : i < j => o[i] < o[j]
  <2>1. ASSUME NEW i \in 1 .. Len(w2), NEW j \in 1 .. Len(w2), i < j PROVE o[i] < o[j]
    <3>1. /\ o[i] = IF i <= lc THEN -1 ELSE IF i <= lc + ls THEN 0 ELSE i - lc - ls + 1
          /\ o[j] = IF j <= lc THEN -1 ELSE IF j <= lc + ls THEN 0 ELSE j - lc - ls + 1
      BY <1>12
    <3> QED  BY <1>5, <2>1, <3>1
  <2> QED  BY <1>7, <2>1
<1>16. \A i \in 1 .. Len(T2) :
          /\ o[i] = -1 => c # None /\ T2[i] = c
          /\ o[i] = 0 => s # None /\ T2[i] = s
          /\ o[i] \in 2 .. Len(T) => T2[i] = T[o[i]]
  <2>1. ASSUME NEW i \in 1 .. Len(w2)
        PROVE  /\ o[i] = -1 => c # None /\ T2[i] = c
               /\ o[i] = 0 => s # None /\ T2[i] = s
               /\ o[i] \in 2 .. Len(T) => T2[i] = T[o[i]]
    <3>1. o[i] = IF i <= lc THEN -1 ELSE IF i <= lc + ls THEN 0 ELSE i - lc - ls + 1
      BY <1>12
    <3>2. CASE i <= lc
      BY <1>9, <3>1, <3>2
    <3>3. CASE ~(i <= lc) /\ i <= lc + ls
      BY <1>9, <3>1, <3>3
    <3>4. CASE ~(i <= lc) /\ ~(i <= lc + ls)
      <4>1. o[i] = i - lc - ls + 1 /\ o[i] \in 2 .. Len(T) /\ T2[i] = T[o[i]]
        BY <1>9, <3>1, <3>4
      <4> QED  BY <4>1
    <3> QED  BY <3>2, <3>3, <3>4
  <2> QED  BY <1>7, <2>1
<1>17. c # None => \E i \in 1 .. Len(T2) : o[i] = -1
  <2>1. ASSUME c # None PROVE 1 \in 1 .. Len(w2) /\ o[1] = -1
    BY <1>1, <1>4, <1>5, <1>12, <2>1
  <2> QED  BY <1>7, <2>1
<1>18. s # None => \E i \in 1 .. Len(T2) : o[i] = 0
  <2>1. ASSUME s # None PROVE lc + 1 \in 1 .. Len(w2) /\ o[lc + 1] = 0
    <3>1. ls = 1 /\ lc + 1 \in 1 .. Len(w2)
      BY <1>2, <1>4, <1>5, <2>1
    <3> QED  BY <1>5, <1>12, <3>1
  <2> QED  BY <1>7, <2>1
<1>19. \A q \in 2 .. Len(T) : \E i \in 1 .. Len(T2) : o[i] = q
  <2>1. ASSUME NEW q \in 2 .. Len(T) PROVE \E i \in 1 .. Len(T2) : o[i] = q
    <3> DEFINE i == q + lc + ls - 1
    <3>1. i \in 1 .. Len(w2) /\ ~(i <= lc) /\ ~(i <= lc + ls) /\ i - lc - ls + 1 = q
      BY <1>3, <1>4, <1>5, <1>6
    <3>2. o[i] = q
      <4> HIDE DEF i
      <4> QED  BY <1>12, <3>1
    <3> HIDE DEF i
    <3> QED  BY <1>7, <3>1, <3>2
  <2> QED  BY <2>1
<1>20. PoppedBy(o, T, T2, c, s)
  BY <1>14, <1>15, <1>16, <1>17, <1>18, <1>19 DEF PoppedBy
<1> QED  BY <1>4, <1>11, <1>20 DEF w2, T, T2, P, Q, R

\* The block on top of the stack T is numbered, and R is the stack after it.
Numbered(V, child, sib, pre, k, T, R, pre2) ==
    /\ T # <<>> /\ R \in Seq(V)
    /\ \E o : PoppedBy(o, T, R, child[T[1]], sib[T[1]])
    /\ pre2[T[1]] = k + 1 /\ \A x \in V : x # T[1] => pre2[x] = pre[x]

\* PreorderGrows, for all that changes.
LEMMA PreorderStep ==
    ASSUME NEW V, NEW up, NEW rk, NEW D, DomTree(V, up, rk, D), NEW child, NEW sib,
           LinkedTree(V, up, rk, child, sib), NEW pre, NEW k, NEW T,
           PreorderOf(V, up, rk, D, pre, k, T),
           NEW R, NEW pre2, Numbered(V, child, sib, pre, k, T, R, pre2)
    PROVE  PreorderOf(V, up, rk, D, pre2, k + 1, R)
<1>1. T # <<>>
  BY DEF Numbered
<1>2. R \in Seq(V)
  BY DEF Numbered
<1>3. PICK o : PoppedBy(o, T, R, child[T[1]], sib[T[1]])
  BY DEF Numbered
<1>4. pre2[T[1]] = k + 1
  BY DEF Numbered
<1>5. \A x \in V : x # T[1] => pre2[x] = pre[x]
  BY DEF Numbered
<1> QED  BY ONLY DomTree(V, up, rk, D), LinkedTree(V, up, rk, child, sib), PreorderOf(V, up, rk, D, pre, k, T),
              <1>1, <1>2, <1>3, <1>4, <1>5, PreorderGrows

\* AssignPreorder numbers the block on top of the stack.
LEMMA PreorderAssigned ==
    ASSUME AssignPreorder, PreorderAt(func, direction, nodes, postorder, worklist, cursor)
    PROVE  /\ pc' = "preorder" /\ func' = func /\ direction' = direction
           /\ PreorderAt(func, direction, nodes', postorder', worklist', cursor')
<1> DEFINE V == Through(func, direction, {})
           up == IdomsOf(nodes)
           rk == Rank(postorder)
           D == DomPairs(func, direction)
           ch == ChildrenOf(nodes)
           sb == SiblingsOf(nodes)
           T == ItemBlocks(worklist)
           T2 == ItemBlocks(worklist')
           b == Head(worklist).block
           k == cursor + 1
<1>1. /\ pc' = "preorder" /\ worklist # <<>> /\ cursor' = k
      /\ UNCHANGED <<func, direction, stree, postorder>>
      /\ nodes' = [nodes EXCEPT ![b].dom_pre_number = k, ![b].dom_pre_max = k]
      /\ worklist' = pushed(nodes[b].child) \o pushed(nodes[b].sibling) \o Tail(worklist)
  BY Zenon DEF AssignPreorder, flowVars
<1>2. /\ TreeFound(func, direction, nodes, postorder)
      /\ LinkedTree(V, up, rk, ch, sb)
      /\ worklist \in Seq(WorkItem)
      /\ PreorderOf(V, up, rk, D, PreOf(nodes), cursor, T)
      /\ \A c \in Block : /\ nodes[c].dom_pre_max = nodes[c].dom_pre_number
                          /\ c \notin V => nodes[c].dom_pre_number = 0
  BY DEF PreorderAt
<1>3. NodesOK(nodes) /\ DomTree(V, up, rk, D)
  BY <1>2 DEF TreeFound
<1>4. V \subseteq Block
  BY <1>2, TreeRanks
<1>5. cursor \in Nat /\ T \in Seq(V)
  <2> HIDE DEF V, up, rk, D, T
  <2> QED  BY <1>2 DEF PreorderOf
<1>6. Len(T) = Len(worklist) /\ Len(worklist) \in Nat \ {0}
      /\ \A i \in 1 .. Len(worklist) : T[i] = worklist[i].block
  <2>1. worklist \in Seq(WorkItem) /\ worklist # <<>>
    BY <1>1, <1>2
  <2> QED  BY SMTT(60), <2>1 DEF ItemBlocks
<1>7. b = T[1] /\ b \in V /\ b \in Block
  <2>1. 1 \in 1 .. Len(worklist) /\ Head(worklist) = worklist[1]
    <3>1. worklist \in Seq(WorkItem) /\ worklist # <<>>
      BY <1>1, <1>2
    <3> HIDE DEF T
    <3> QED  BY <3>1, <1>6
  <2>2. T[1] \in V
    BY <1>5, <1>6
  <2> QED  BY <1>4, <1>6, <2>1, <2>2
<1> HIDE DEF V, up, rk, D, T, b, k
<1>8. ch[b] = nodes[b].child /\ sb[b] = nodes[b].sibling
  BY <1>7 DEF ChildrenOf, SiblingsOf
<1>9. (ch[b] = None \/ ch[b] \in V) /\ (sb[b] = None \/ sb[b] \in V)
  <2> HIDE DEF ch, sb
  <2> QED  BY <1>2, <1>7 DEF LinkedTree
<1>10. /\ worklist' \in Seq(WorkItem) /\ T2 \in Seq(V)
       /\ \E o : PoppedBy(o, T, T2, ch[b], sb[b])
  <2>1. \A i \in 1 .. Len(worklist) : worklist[i].block \in V
    <3>1. \A i \in 1 .. Len(T) : T[i] \in V
      BY <1>5
    <3> QED  BY <1>6, <3>1
  <2>2. ASSUME NEW c, NEW s, c = None \/ c \in V, s = None \/ s \in V
        PROVE  LET w2 == pushed(c) \o pushed(s) \o Tail(worklist)
               IN  /\ w2 \in Seq(WorkItem) /\ ItemBlocks(w2) \in Seq(V)
                   /\ \E o : PoppedBy(o, ItemBlocks(worklist), ItemBlocks(w2), c, s)
    BY <1>1, <1>2, <1>4, <2>1, <2>2, StackSplits
  <2>3. LET w2 == pushed(ch[b]) \o pushed(sb[b]) \o Tail(worklist)
        IN  /\ w2 \in Seq(WorkItem) /\ ItemBlocks(w2) \in Seq(V)
            /\ \E o : PoppedBy(o, ItemBlocks(worklist), ItemBlocks(w2), ch[b], sb[b])
    <3> HIDE DEF ch, sb
    <3> QED  BY <1>9, <2>2
  <2>4. worklist' = pushed(ch[b]) \o pushed(sb[b]) \o Tail(worklist)
    BY <1>1, <1>8
  <2> HIDE DEF ch, sb
  <2> QED  BY <2>3, <2>4 DEF T
<1>11. ASSUME NEW c \in Block
       PROVE  /\ c # b => nodes'[c] = nodes[c]
              /\ c = b => nodes'[c] = [idom |-> nodes[c].idom, pre_number |-> nodes[c].pre_number,
                            child |-> nodes[c].child, sibling |-> nodes[c].sibling,
                            dom_pre_number |-> k, dom_pre_max |-> k]
  <2>1. nodes' = [d \in Block |-> IF d = b
                    THEN [nodes[d] EXCEPT !.dom_pre_number = k, !.dom_pre_max = k] ELSE nodes[d]]
    BY <1>1, <1>3 DEF NodesOK
  <2>2. nodes[c] = [idom |-> nodes[c].idom, pre_number |-> nodes[c].pre_number,
             child |-> nodes[c].child, sibling |-> nodes[c].sibling,
             dom_pre_number |-> nodes[c].dom_pre_number, dom_pre_max |-> nodes[c].dom_pre_max]
    BY <1>3 DEF NodesOK
  <2>3. [nodes[c] EXCEPT !.dom_pre_number = k, !.dom_pre_max = k]
          = [idom |-> nodes[c].idom, pre_number |-> nodes[c].pre_number,
             child |-> nodes[c].child, sibling |-> nodes[c].sibling,
             dom_pre_number |-> k, dom_pre_max |-> k]
    BY <2>2, NodeUpdates
  <2> QED  BY <2>1, <2>3, Zenon
<1>12. nodes' = [c \in Block |-> nodes'[c]]
  BY <1>1, <1>3 DEF NodesOK
<1> DEFINE ns == nodes'
<1> HIDE DEF ns
<1>13. ASSUME NEW c \in Block
       PROVE  /\ ns[c].idom = nodes[c].idom /\ ns[c].pre_number = nodes[c].pre_number
              /\ ns[c].child = nodes[c].child /\ ns[c].sibling = nodes[c].sibling
              /\ ns[c].dom_pre_number = IF c = b THEN k ELSE nodes[c].dom_pre_number
              /\ ns[c].dom_pre_max = IF c = b THEN k ELSE nodes[c].dom_pre_max
              /\ ns[c] = [idom |-> ns[c].idom, pre_number |-> ns[c].pre_number,
                          child |-> ns[c].child, sibling |-> ns[c].sibling,
                          dom_pre_number |-> ns[c].dom_pre_number, dom_pre_max |-> ns[c].dom_pre_max]
  <2>1. CASE c # b
    <3>1. ns[c] = nodes[c]
      BY <1>11, <2>1 DEF ns
    <3> QED  BY <1>3, <2>1, <3>1 DEF NodesOK
  <2>2. CASE c = b
    <3>1. ns[c] = [idom |-> nodes[c].idom, pre_number |-> nodes[c].pre_number,
                   child |-> nodes[c].child, sibling |-> nodes[c].sibling,
                   dom_pre_number |-> k, dom_pre_max |-> k]
      BY <1>11, <2>2 DEF ns
    <3>2. /\ ns[c].idom = nodes[c].idom /\ ns[c].pre_number = nodes[c].pre_number
          /\ ns[c].child = nodes[c].child /\ ns[c].sibling = nodes[c].sibling
          /\ ns[c].dom_pre_number = k /\ ns[c].dom_pre_max = k
      BY <3>1
    <3> QED  BY <2>2, <3>1, <3>2, Zenon
  <2> QED  BY <2>1, <2>2
<1>14. ns = [c \in Block |-> ns[c]]
  BY <1>12 DEF ns
<1>15. NodesOK(ns)
  <2>1. \A c \in Block : ns[c].pre_number \in Nat
    BY <1>3, <1>13 DEF NodesOK
  <2> QED  BY <1>13, <1>14, <2>1 DEF NodesOK
<1>16. IdomsOf(ns) = up /\ ChildrenOf(ns) = ch /\ SiblingsOf(ns) = sb
  BY <1>13 DEF IdomsOf, ChildrenOf, SiblingsOf, up
<1>17. TreeFound(func, direction, ns, postorder)
  <2>1. /\ postorder \in Seq(Block) /\ \A i, j \in 1 .. Len(postorder) : postorder[i] = postorder[j] => i = j
        /\ \A c \in Block : /\ c \in V <=> nodes[c].pre_number # 0
                            /\ c \in V <=> HasLeft(postorder, c)
                            /\ c \notin V => nodes[c].idom = None
    BY <1>2 DEF TreeFound, V
  <2>2. \A c \in Block : /\ c \in V <=> ns[c].pre_number # 0
                         /\ c \in V <=> HasLeft(postorder, c)
                         /\ c \notin V => ns[c].idom = None
    BY <1>13, <2>1
  <2>3. DomTree(V, IdomsOf(ns), rk, D)
    BY <1>3, <1>16
  <2> QED  BY <1>15, <2>1, <2>2, <2>3 DEF TreeFound, V, rk, D
<1>18. PreorderOf(V, up, rk, D, PreOf(ns), k, T2)
  <2> DEFINE pre == PreOf(nodes)
             pre2 == PreOf(ns)
  <2>1. pre2[b] = k /\ \A x \in V : x # b => pre2[x] = pre[x]
    BY <1>4, <1>7, <1>13 DEF PreOf
  <2> HIDE DEF pre2, ch, sb
  <2>2. PICK o : PoppedBy(o, T, T2, ch[b], sb[b])
    BY <1>10
  <2>3. T # <<>>
    BY <1>6
  <2>4. /\ DomTree(V, up, rk, D) /\ LinkedTree(V, up, rk, ch, sb) /\ PreorderOf(V, up, rk, D, pre, cursor, T)
    BY <1>2, <1>3 DEF pre
  <2> HIDE DEF T2, pre
  <2>5. Numbered(V, ch, sb, pre, cursor, T, T2, pre2)
    <3>1. T2 \in Seq(V)
      BY <1>10
    <3>2. PoppedBy(o, T, T2, ch[T[1]], sb[T[1]]) /\ pre2[T[1]] = cursor + 1
          /\ \A x \in V : x # T[1] => pre2[x] = pre[x]
      BY <1>7, <2>1, <2>2 DEF k, pre
    <3> HIDE DEF pre
    <3> QED  BY <2>3, <3>1, <3>2 DEF Numbered
  <2>6. PreorderOf(V, up, rk, D, pre2, cursor + 1, T2)
    BY <2>4, <2>5, PreorderStep
  <2> QED  BY <2>6 DEF pre2, k
<1>19. \A c \in Block : /\ ns[c].dom_pre_max = ns[c].dom_pre_number
                        /\ c \notin V => ns[c].dom_pre_number = 0
  BY ZenonT(60), <1>2, <1>7, <1>13
<1>20. PreorderAt(func, direction, ns, postorder, worklist', k)
  <2>1. LinkedTree(V, IdomsOf(ns), rk, ChildrenOf(ns), SiblingsOf(ns))
        /\ PreorderOf(V, IdomsOf(ns), rk, D, PreOf(ns), k, T2)
    BY <1>2, <1>16, <1>18
  <2> QED  BY <1>10, <1>17, <1>19, <2>1 DEF PreorderAt, V, rk, D
<1> QED  BY <1>1, <1>20 DEF ns, k

(***************************************************************************)
(* The maxima of the preorder numbers, and the finished tree.              *)
(***************************************************************************)

\* Nothing dominates a block that was visited but blocks that were.
LEMMA NoneOver ==
    ASSUME NEW f, FuncOK(f), NEW dir, NEW a \in Block \ Through(f, dir, {})
    PROVE  Through(f, dir, {}) \subseteq Through(f, dir, {a})
<1> DEFINE V == Through(f, dir, {})
           A == Through(f, dir, {a})
           S == V \cap A
<1>1. /\ V \subseteq Block
      /\ \A b \in Block : RootOf(f, dir, b) => b \in V
      /\ \A b \in V : \A c \in Block : Flow(f, dir, b, c) => c \in V
      /\ \A Q : (\A b \in Block : RootOf(f, dir, b) => b \in Q)
                /\ (\A b \in Q \cap Block : \A c \in Block : Flow(f, dir, b, c) => c \in Q)
            => V \subseteq Q
  <2>1. Block \ {} = Block
    OBVIOUS
  <2>2. /\ V \subseteq Block \ {}
        /\ \A b \in Block \ {} : RootOf(f, dir, b) => b \in V
        /\ \A b \in V : \A c \in Block \ {} : Flow(f, dir, b, c) => c \in V
        /\ \A Q : (\A b \in Block \ {} : RootOf(f, dir, b) => b \in Q)
                  /\ (\A b \in Q \cap Block : \A c \in Block \ {} : Flow(f, dir, b, c) => c \in Q)
              => V \subseteq Q
    BY ThroughFacts
  <2> HIDE DEF V
  <2> QED  BY <2>1, <2>2
<1>2. /\ \A b \in Block \ {a} : RootOf(f, dir, b) => b \in A
      /\ \A b \in A : \A c \in Block \ {a} : Flow(f, dir, b, c) => c \in A
  BY ThroughFacts
<1>3. \A b \in V : b \in Block \ {a}
  BY <1>1
<1> HIDE DEF V, A
<1>4. \A b \in Block : RootOf(f, dir, b) => b \in S
  BY <1>1, <1>2, <1>3
<1>5. \A b \in S \cap Block : \A c \in Block : Flow(f, dir, b, c) => c \in S
  BY <1>1, <1>2, <1>3
<1>6. V \subseteq S
  <2> HIDE DEF S
  <2> QED  BY <1>1, <1>4, <1>5
<1> QED  BY <1>6 DEF V, A

\* The numbers and the immediate dominators are those of dominance by paths.
ExactTree(f, dir, ns) ==
    LET D == DomPairs(f, dir)
    IN  /\ \A b \in Block : ns[b].pre_number # 0 <=> b \in Through(f, dir, {})
        /\ \A a, b \in Block : a \in Through(f, dir, {}) \/ b \in Through(f, dir, {}) =>
              ((/\ ns[a].dom_pre_number <= ns[b].dom_pre_number
                /\ ns[a].dom_pre_max >= ns[b].dom_pre_max) <=> <<a, b>> \in D)
        /\ \A b \in Block :
              LET strict == {a \in Block \ {b} : <<a, b>> \in D}
              IN  IF strict = {} THEN ns[b].idom = None
                  ELSE ns[b].idom \in strict /\ \A a \in strict : <<a, ns[b].idom>> \in D

\* The immediate dominators of a tree are the closest strict dominators.
LEMMA ClosestInTree ==
    ASSUME NEW f, FuncOK(f), NEW dir, NEW ns, NEW po, TreeFound(f, dir, ns, po), NEW b \in Block
    PROVE  LET D == DomPairs(f, dir)
               strict == {a \in Block \ {b} : <<a, b>> \in D}
           IN  IF strict = {} THEN ns[b].idom = None
               ELSE ns[b].idom \in strict /\ \A a \in strict : <<a, ns[b].idom>> \in D
<1> DEFINE V == Through(f, dir, {})
           D == DomPairs(f, dir)
           up == IdomsOf(ns)
           rk == Rank(po)
           strict == {a \in Block \ {b} : <<a, b>> \in D}
<1>1. DomTree(V, up, rk, D) /\ (b \notin V => ns[b].idom = None)
  BY DEF TreeFound
<1>2. up[b] = ns[b].idom
  BY DEF IdomsOf
<1>3. V \subseteq Block
  BY TreeRanks
<1>4. \A a, c : <<a, c>> \in D => c \in V /\ a \in Block /\ c \notin Through(f, dir, {a})
  BY DEF DomPairs
<1>5. \A a, c : <<a, c>> \in D => a \in V
  BY <1>4, NoneOver
<1> HIDE DEF V, D, up, rk
<1>6. CASE b \notin V
  <2>1. strict = {}
    BY <1>4, <1>6
  <2> QED  BY <1>1, <1>6, <2>1 DEF D
<1>7. CASE b \in V
  <2>1. TreeOrdered(V, up, rk, D)
    BY <1>1, TreeOrder
  <2>2. \A a \in strict : a \in V /\ a # b /\ <<a, b>> \in D /\ a \in Block
    BY <1>5
  <2>3. CASE up[b] = None
    <3>1. strict = {}
      BY <1>7, <2>1, <2>2, <2>3 DEF TreeOrdered
    <3> QED  BY <1>2, <2>3, <3>1 DEF D
  <2>4. CASE up[b] # None
    <3>1. up[b] \in V /\ up[b] # b /\ <<up[b], b>> \in D
      <4>1. up[b] \in V /\ rk[b] < rk[up[b]]
        BY <1>1, <1>7, <2>4 DEF DomTree
      <4>2. rk[b] \in Nat
        <5>1. \E m \in Nat : rk \in [V -> 1 .. m]
          BY <1>1 DEF DomTree
        <5> QED  BY <1>7, <5>1
      <4>3. <<up[b], b>> \in D
        BY <1>7, <2>1, <2>4 DEF TreeOrdered
      <4> QED  BY <4>1, <4>2, <4>3
    <3>2. up[b] \in strict
      BY <1>3, <3>1
    <3>3. \A a \in strict : <<a, up[b]>> \in D
      BY <1>1, <1>7, <2>2, <2>4 DEF DomTree
    <3> HIDE DEF strict
    <3> QED  BY <1>2, <3>2, <3>3 DEF strict, D
  <2> QED  BY <2>3, <2>4
<1> QED  BY <1>6, <1>7

\* h solves the recursion of PropagateMax.
MaximaOf(h) ==
    h = [i \in 0 .. Len(postorder) |->
            IF i = 0 THEN [b \in Block |-> nodes[b].dom_pre_max]
            ELSE propagate_max(h[i - 1], postorder[i])]

\* There is a solution.
LEMMA MaximaExist ==
    ASSUME Len(postorder) \in Nat
    PROVE  \E h : MaximaOf(h)
<1> DEFINE n == Len(postorder)
           zero == [b \in Block |-> nodes[b].dom_pre_max]
           next(acc, i) == propagate_max(acc, postorder[i])
           P(m, h) == h = [i \in 0 .. m |-> IF i = 0 THEN zero ELSE next(h[i - 1], i)]
           C == {m \in Nat : m <= n /\ \A h : ~P(m, h)}
<1>0. \A h : MaximaOf(h) <=> P(n, h)
  BY DEF MaximaOf
<1> HIDE DEF n, zero, next
<1>1. C = {}
  <2> SUFFICES ASSUME C # {} PROVE FALSE
    OBVIOUS
  <2>1. PICK m \in C : \A k \in C : m <= k
    <3> HIDE DEF P
    <3> QED  BY NatMin
  <2>2. m \in Nat /\ m <= n /\ \A h : ~P(m, h)
    <3> HIDE DEF P
    <3> QED  OBVIOUS
  <2>3. CASE m = 0
    <3>1. P(0, [i \in 0 .. 0 |-> zero])
      OBVIOUS
    <3> QED  BY <2>2, <2>3, <3>1
  <2>4. CASE m # 0
    <3>1. m - 1 \in Nat /\ m - 1 <= n /\ m - 1 \notin C
      <4>1. n \in Nat
        BY DEF n
      <4> HIDE DEF C
      <4> QED  BY <2>1, <2>2, <2>4, <4>1
    <3>2. PICK h : P(m - 1, h)
      <4> HIDE DEF P
      <4> QED  BY <3>1
    <3> DEFINE top == next(h[m - 1], m)
               H == [i \in 0 .. m |-> IF i = m THEN top ELSE h[i]]
    <3> HIDE DEF top
    <3>3. ASSUME NEW i \in 0 .. m PROVE H[i] = IF i = 0 THEN zero ELSE next(H[i - 1], i)
      <4>1. CASE i = m
        <5>1. H[i] = top /\ H[i - 1] = h[m - 1]
          BY <2>2, <2>4, <4>1
        <5> HIDE DEF H
        <5> QED  BY <2>4, <4>1, <5>1 DEF top
      <4>2. CASE i # m
        <5>1. i \in 0 .. (m - 1)
          BY <2>2, <4>2
        <5>2. H[i] = h[i] /\ (i # 0 => H[i - 1] = h[i - 1])
          BY <2>2, <5>1
        <5>3. h[i] = IF i = 0 THEN zero ELSE next(h[i - 1], i)
          BY <3>2, <5>1
        <5> HIDE DEF H
        <5> QED  BY <5>2, <5>3
      <4> QED  BY <4>1, <4>2
    <3>4. H = [i \in 0 .. m |-> H[i]]
      OBVIOUS
    <3>5. P(m, H)
      <4> HIDE DEF H
      <4> QED  BY <3>3, <3>4
    <3> QED  BY <2>2, <3>5
  <2> QED  BY <2>3, <2>4
<1>2. n \in Nat
  BY DEF n
<1>3. n \notin C
  <2> HIDE DEF C
  <2> QED  BY <1>1
<1>4. PICK h : P(n, h)
  <2> HIDE DEF P
  <2> QED  BY <1>2, <1>3
<1> QED  BY <1>0, <1>4

\* The greater of two numbers.
LEMMA MaxOfTwo ==
    ASSUME NEW i \in Nat, NEW j \in Nat
    PROVE  Max({i, j}) \in {i, j} /\ i <= Max({i, j}) /\ j <= Max({i, j})
<1> DEFINE S == {i, j}
<1>1. \E x \in S : \A y \in S : x >= y
  <2>1. i <= j \/ j <= i
    OBVIOUS
  <2> QED  BY <2>1
<1>2. Max(S) \in S /\ \A y \in S : Max(S) >= y
  BY <1>1 DEF Max
<1> QED  BY <1>2

\* Every block of the postorder passes its maximum on.
LEMMA MaximaAreSet ==
    ASSUME NEW wl, PreorderAt(func, direction, nodes, postorder, wl, cursor), NEW h, MaximaOf(h)
    PROVE  LET M == h[Len(postorder)]
               V == Through(func, direction, {})
           IN  /\ MaxUpTo(V, IdomsOf(nodes), Rank(postorder), DomPairs(func, direction),
                          PreOf(nodes), M, Len(postorder))
               /\ \A c \in Block \ V : M[c] = 0
<1> DEFINE m == Len(postorder)
           V == Through(func, direction, {})
           up == IdomsOf(nodes)
           rk == Rank(postorder)
           D == DomPairs(func, direction)
           pre == PreOf(nodes)
           A(i) == /\ h[i] = [c \in Block |-> h[i][c]]
                   /\ MaxUpTo(V, up, rk, D, pre, h[i], i)
                   /\ \A c \in Block \ V : h[i][c] = 0
<1>1. /\ TreeFound(func, direction, nodes, postorder)
      /\ PreorderOf(V, up, rk, D, pre, cursor, ItemBlocks(wl))
      /\ \A c \in Block : /\ nodes[c].dom_pre_max = nodes[c].dom_pre_number
                          /\ c \notin V => nodes[c].dom_pre_number = 0
  BY DEF PreorderAt
<1>2. DomTree(V, up, rk, D)
  BY <1>1 DEF TreeFound
<1>3. /\ V \subseteq Block /\ m \in Nat
      /\ \A b \in V : rk[b] \in 1 .. m
      /\ \A i \in 1 .. m : postorder[i] \in V /\ rk[postorder[i]] = i
  BY <1>1, TreeRanks
<1>4. \A b \in V : pre[b] \in Nat
  <2> HIDE DEF V, up, rk, D, pre
  <2>1. cursor \in Nat /\ \A b \in V : pre[b] \in 0 .. cursor
    BY <1>1 DEF PreorderOf
  <2> QED  BY <2>1
<1>5. \A i \in 0 .. m : h[i] = IF i = 0 THEN [b \in Block |-> nodes[b].dom_pre_max]
                               ELSE propagate_max(h[i - 1], postorder[i])
  BY DEF MaximaOf
<1>6. \A b \in Block : pre[b] = nodes[b].dom_pre_number /\ up[b] = nodes[b].idom
  BY DEF PreOf, IdomsOf
<1> HIDE DEF V, up, rk, D, pre
<1>7. A(0)
  <2>1. h[0] = [b \in Block |-> nodes[b].dom_pre_max]
    BY <1>3, <1>5
  <2>2. \A b \in Block : h[0][b] = pre[b]
    BY <1>1, <1>6, <2>1
  <2>3. \A c \in Block \ V : h[0][c] = 0
    BY <1>1, <1>6, <2>2
  <2>4. MaxUpTo(V, up, rk, D, pre, h[0], 0)
    <3>1. TreeOrdered(V, up, rk, D)
      BY <1>2, TreeOrder
    <3>2. \A b \in V : <<b, b>> \in D
      BY <3>1 DEF TreeOrdered
    <3>3. \A b \in V : h[0][b] = pre[b] /\ pre[b] <= h[0][b]
      BY <1>3, <1>4, <2>2
    <3>4. \A c \in V : ~(rk[c] <= 0)
      BY <1>3
    <3> QED  BY <3>2, <3>3, <3>4 DEF MaxUpTo
  <2> QED  BY <2>1, <2>3, <2>4
<1>8. ASSUME NEW i \in 1 .. m, A(i - 1) PROVE A(i)
  <2> DEFINE b == postorder[i]
             M == h[i - 1]
             M2 == h[i]
             p == nodes[b].idom
  <2>1. b \in V /\ b \in Block /\ rk[b] = i /\ M2 = propagate_max(M, b)
    <3>1. i \in 0 .. m /\ i # 0
      BY <1>3
    <3> QED  BY <1>3, <1>5, <3>1
  <2>2. /\ M = [c \in Block |-> M[c]] /\ MaxUpTo(V, up, rk, D, pre, M, rk[b] - 1)
        /\ \A c \in Block \ V : M[c] = 0
    BY <1>8, <2>1
  <2>3. p = up[b]
    BY <1>6, <2>1
  <2> HIDE DEF b, M, M2, p
  <2>4. CASE p = None
    <3>1. M2 = M
      BY <2>1, <2>4 DEF propagate_max, p
    <3>2. MaxUpTo(V, up, rk, D, pre, M, rk[b])
      BY <1>2, <1>4, <2>1, <2>2, <2>3, <2>4, MaxGrows
    <3> QED  BY <2>1, <2>2, <3>1, <3>2 DEF M2
  <2>5. CASE p # None
    <3>1. p \in V /\ p \in Block
      BY <1>2, <1>3, <2>1, <2>3, <2>5 DEF DomTree
    <3>2. \A x \in V : M[x] \in Nat
      BY <1>4, <2>2 DEF MaxUpTo
    <3> DEFINE z == Max({M[p], M[b]})
    <3>3. z \in {M[p], M[b]} /\ M[p] <= z /\ M[b] <= z
      BY <2>1, <3>1, <3>2, MaxOfTwo
    <3> HIDE DEF z
    <3>4. M2 = [c \in Block |-> IF c = p THEN z ELSE M[c]]
      <4>1. M2 = [M EXCEPT ![p] = z]
        BY <2>1, <2>5 DEF propagate_max, p, z
      <4> QED  BY <2>2, <3>1, <4>1
    <3>5. M2[p] = z /\ (\A c \in Block : c # p => M2[c] = M[c]) /\ M2 = [c \in Block |-> M2[c]]
      BY <3>1, <3>4
    <3>6. MaxUpTo(V, up, rk, D, pre, M2, rk[b])
      <4>1. \A x \in V : x # up[b] => M2[x] = M[x]
        BY <1>3, <2>3, <3>5
      <4>2. M2[up[b]] \in {M[up[b]], M[b]} /\ M[up[b]] <= M2[up[b]] /\ M[b] <= M2[up[b]]
        BY <2>3, <3>3, <3>5
      <4> QED  BY <1>2, <1>4, <2>1, <2>2, <4>1, <4>2, MaxGrows
    <3>7. \A c \in Block \ V : M2[c] = 0
      BY <2>2, <3>1, <3>5
    <3> QED  BY <2>1, <3>5, <3>6, <3>7 DEF M2
  <2> QED  BY <2>4, <2>5
<1>9. A(m)
  <2> DEFINE B == {i \in Nat : i <= m /\ ~A(i)}
  <2> HIDE DEF A
  <2>1. B = {}
    <3> SUFFICES ASSUME B # {} PROVE FALSE
      OBVIOUS
    <3>1. PICK i \in B : \A k \in B : i <= k
      BY NatMin
    <3>2. i # 0
      BY <1>7, <3>1
    <3>3. i \in 1 .. m /\ i - 1 \in Nat /\ i - 1 <= m /\ i - 1 \notin B
      BY <1>3, <3>1, <3>2
    <3> QED  BY <1>8, <3>1, <3>3
  <2> QED  BY <1>3, <2>1
<1> QED  BY <1>9 DEF V, up, rk, D, pre

\* PropagateMax ends the computation of the tree.
LEMMA TreeIsExact ==
    ASSUME FuncOK(func), PropagateMax, PreorderAt(func, direction, nodes, postorder, worklist, cursor)
    PROVE  /\ func' = func /\ direction' = direction
           /\ pc' = IF direction = "forward" THEN "loops" ELSE "post_dominators"
           /\ ExactTree(func, direction, nodes')
<1> DEFINE m == Len(postorder)
           V == Through(func, direction, {})
           up == IdomsOf(nodes)
           rk == Rank(postorder)
           D == DomPairs(func, direction)
           pre == PreOf(nodes)
           h == CHOOSE g : MaximaOf(g)
           M == h[m]
           ns == nodes'
<1>1. /\ UNCHANGED <<func, direction>> /\ worklist = <<>>
      /\ pc' = IF direction = "forward" THEN "loops" ELSE "post_dominators"
      /\ nodes' = [b \in Block |-> [nodes[b] EXCEPT !.dom_pre_max = M[b]]]
  BY Zenon DEF PropagateMax, flowVars, MaximaOf
<1>2. /\ TreeFound(func, direction, nodes, postorder)
      /\ PreorderOf(V, up, rk, D, pre, cursor, ItemBlocks(worklist))
      /\ \A c \in Block : c \notin V => nodes[c].dom_pre_number = 0
  BY DEF PreorderAt
<1>3. /\ NodesOK(nodes) /\ DomTree(V, up, rk, D)
      /\ \A b \in Block : b \in V <=> nodes[b].pre_number # 0
  BY <1>2 DEF TreeFound
<1>4. /\ V \subseteq Block /\ m \in Nat /\ \A b \in V : rk[b] \in 1 .. m
  BY <1>2, TreeRanks
<1>5. MaximaOf(h)
  <2>1. \E g : MaximaOf(g)
    BY <1>4, MaximaExist
  <2> QED  BY <2>1
<1> HIDE DEF h
<1>6. MaxUpTo(V, up, rk, D, pre, M, m) /\ \A c \in Block \ V : M[c] = 0
  BY <1>5, MaximaAreSet
<1> HIDE DEF M
<1>7. \A b \in Block : pre[b] = nodes[b].dom_pre_number
  BY DEF PreOf
<1>8. PreorderOf(V, up, rk, D, pre, cursor, <<>>)
  <2>1. ItemBlocks(<<>>) = <<>>
    BY DEF ItemBlocks
  <2> QED  BY <1>1, <1>2, <2>1
<1>9. \A b \in Block : b \in V <=> nodes[b].pre_number # 0
  BY <1>3
<1>10. /\ \A b \in V : pre[b] \in Nat \ {0} /\ M[b] \in Nat \ {0}
       /\ \A a, b \in V : pre[a] <= pre[b] /\ M[b] <= M[a] <=> <<a, b>> \in D
  <2>1. \A b \in V : rk[b] <= m
    BY <1>4
  <2> HIDE DEF V, up, rk, D, pre, m
  <2> QED  BY <1>3, <1>6, <1>8, <2>1, NumbersDecide
<1>11. \A b \in Block : /\ ns[b].idom = nodes[b].idom /\ ns[b].pre_number = nodes[b].pre_number
                        /\ ns[b].dom_pre_number = pre[b] /\ ns[b].dom_pre_max = M[b]
  <2>1. ASSUME NEW b \in Block
        PROVE  /\ ns[b].idom = nodes[b].idom /\ ns[b].pre_number = nodes[b].pre_number
               /\ ns[b].dom_pre_number = nodes[b].dom_pre_number /\ ns[b].dom_pre_max = M[b]
    <3>1. ns[b] = [nodes[b] EXCEPT !.dom_pre_max = M[b]]
      BY <1>1
    <3>2. nodes[b] = [idom |-> nodes[b].idom, pre_number |-> nodes[b].pre_number,
               child |-> nodes[b].child, sibling |-> nodes[b].sibling,
               dom_pre_number |-> nodes[b].dom_pre_number, dom_pre_max |-> nodes[b].dom_pre_max]
      BY <1>3 DEF NodesOK
    <3> HIDE DEF ns
    <3> QED  BY <3>1, <3>2
  <2> HIDE DEF pre, ns
  <2> QED  BY <1>7, <2>1
<1> HIDE DEF ns, pre
<1>12. ASSUME NEW a \in Block, NEW b \in Block, a \in V \/ b \in V
       PROVE  (ns[a].dom_pre_number <= ns[b].dom_pre_number /\ ns[a].dom_pre_max >= ns[b].dom_pre_max)
                  <=> <<a, b>> \in D
  <2>1. /\ ns[a].dom_pre_number = pre[a] /\ ns[a].dom_pre_max = M[a]
        /\ ns[b].dom_pre_number = pre[b] /\ ns[b].dom_pre_max = M[b]
    BY <1>11
  <2>2. CASE a \in V /\ b \in V
    <3>1. pre[a] <= pre[b] /\ M[b] <= M[a] <=> <<a, b>> \in D
      BY <1>10, <2>2
    <3>2. M[b] \in Nat /\ M[a] \in Nat
      BY <1>10, <2>2
    <3>3. M[a] >= M[b] <=> M[b] <= M[a]
      BY <3>2
    <3> QED  BY <2>1, <3>1, <3>3
  <2>3. CASE a \in V /\ b \notin V
    <3>1. pre[b] = 0 /\ pre[a] \in Nat \ {0}
      BY <1>2, <1>7, <1>10, <2>3
    <3>2. ~(pre[a] <= pre[b])
      BY <3>1
    <3>3. <<a, b>> \notin D
      BY <2>3 DEF DomPairs
    <3> QED  BY <2>1, <3>2, <3>3
  <2>4. CASE a \notin V /\ b \in V
    <3>1. M[a] = 0 /\ M[b] \in Nat \ {0}
      BY <1>6, <1>10, <2>4
    <3>2. ~(M[a] >= M[b])
      BY <3>1
    <3>3. b \in Through(func, direction, {a})
      BY <2>4, NoneOver
    <3>4. <<a, b>> \notin D
      BY <3>3 DEF DomPairs
    <3> QED  BY <2>1, <3>2, <3>4
  <2> QED  BY <1>12, <2>2, <2>3, <2>4
<1>13. \A b \in Block : ns[b].pre_number # 0 <=> b \in V
  BY <1>9, <1>11
<1>14. ASSUME NEW b \in Block
       PROVE  LET strict == {a \in Block \ {b} : <<a, b>> \in D}
              IN  IF strict = {} THEN ns[b].idom = None
                  ELSE ns[b].idom \in strict /\ \A a \in strict : <<a, ns[b].idom>> \in D
  <2>1. ns[b].idom = nodes[b].idom
    BY <1>11
  <2>2. LET strict == {a \in Block \ {b} : <<a, b>> \in D}
        IN  IF strict = {} THEN nodes[b].idom = None
            ELSE nodes[b].idom \in strict /\ \A a \in strict : <<a, nodes[b].idom>> \in D
    BY <1>2, ClosestInTree
  <2> QED  BY <2>1, <2>2, Zenon
<1>15. ExactTree(func, direction, ns)
  BY <1>12, <1>13, <1>14 DEF ExactTree
<1> QED  BY <1>1, <1>15 DEF ns

(***************************************************************************)
(* The dominator tree through the steps of the program.                    *)
(***************************************************************************)

\* What is computed when, of the dominator tree.
DomInv ==
    /\ InstsDistinct(func) /\ direction \in {"forward", "reverse"}
    /\ pc = "spanning_tree" =>
          /\ Unlinked(nodes) /\ \A b \in Block : nodes[b].idom = None
          /\ SpanningOf(func, direction, stree, nodes, postorder, worklist)
    /\ pc = "semi" =>
          /\ Unlinked(nodes) /\ \A b \in Block : nodes[b].idom = None
          /\ SemisFoundOf(func, direction, stree, nodes, postorder, cursor)
    /\ pc = "idom" =>
          Unlinked(nodes) /\ IdomsFoundOf(func, direction, stree, nodes, postorder, cursor)
    /\ pc = "preorder" => PreorderAt(func, direction, nodes, postorder, worklist, cursor)
    /\ pc \in {"loops", "unreachable"} \cup Later => ExactTree(func, "forward", nodes)
    /\ pc = "post_dominators" => ExactTree(func, "reverse", nodes)

\* At the start every instruction is new.
LEMMA DomStart == Init => DomInv
<1> SUFFICES ASSUME Init PROVE DomInv
  OBVIOUS
<1>1. /\ pc = "cfg" /\ direction = "forward"
      /\ \E f \in Functions : func = [term |-> f.term, inst |-> [b \in Block |-> b], made |-> NumBlocks,
                                      edits |-> f.edits]
  BY DEF Init, DomInit, FlowInit
<1>2. InstsDistinct(func)
  <2>1. func.inst = [b \in Block |-> b] /\ func.made = NumBlocks
    BY <1>1
  <2>2. \A b \in Block : b < NumBlocks
    BY FlowAssumption DEF Block
  <2> QED  BY <2>1, <2>2 DEF InstsDistinct
<1> QED  BY <1>1, <1>2 DEF DomInv, Later

\* The tree stays true where the function and the tree stay.
LEMMA DomKept ==
    ASSUME DomInv, func' = func, direction' = direction, nodes' = nodes,
           pc \in {"loops", "unreachable"} \cup Later, pc' \in {"loops", "unreachable"} \cup Later
    PROVE  DomInv'
BY DEF DomInv, Later

\* A removed block is none of those that are reached, so the tree stays true.
LEMMA DomRemoves == ASSUME GInv, DomInv, EliminateUnreachable PROVE DomInv'
<1> DEFINE gone == {b \in Block : ~is_reachable(b) /\ func.term[b].op # "removed"}
<1>1. PICK b \in gone : removed(b) /\ pc' = IF gone = {b} THEN "loops" ELSE "unreachable"
  BY DEF EliminateUnreachable
<1>2. /\ pc \in {"loops", "unreachable"} /\ UNCHANGED <<direction, nodes>>
      /\ pc' \in {"loops", "unreachable"}
  BY <1>1 DEF EliminateUnreachable, domVars
<1>3. b \in Block /\ func' = [func EXCEPT !.term[b] = outside_layout]
  BY <1>1 DEF removed
<1>4. FuncOK(func) /\ FuncOK(func')
  <2>1. GInv'
    BY EliminateUnreachableKeeps
  <2> QED  BY <2>1 DEF GInv, FlowInv
<1>5. ExactTree(func, "forward", nodes) /\ InstsDistinct(func) /\ direction \in {"forward", "reverse"}
  BY <1>2 DEF DomInv
<1>6. b \notin ReachedIn(func, {})
  <2>1. nodes[b].pre_number = 0
    BY <1>1 DEF is_reachable, NOT_VISITED
  <2>2. b \notin Through(func, "forward", {})
    BY <1>3, <1>5, <2>1 DEF ExactTree
  <2> QED  BY <2>2 DEF Through
<1>7. \A c \in ReachedIn(func, {}) : Targets(func', c) = Targets(func, c)
  <2> SUFFICES ASSUME NEW c \in ReachedIn(func, {}) PROVE Targets(func', c) = Targets(func, c)
    OBVIOUS
  <2>1. c # b
    BY <1>6
  <2>2. func'.term[c] = func.term[c]
    BY <1>3, <1>4, <2>1 DEF FuncOK
  <2> QED  BY <2>2 DEF Targets, dests
<1>8. \A avoid : ReachedIn(func', avoid) = ReachedIn(func, avoid)
  BY <1>4, <1>7, ReachedSame
<1>9. \A avoid : Through(func', "forward", avoid) = Through(func, "forward", avoid)
  BY <1>8 DEF Through
<1>10. DomPairs(func', "forward") = DomPairs(func, "forward")
  BY <1>9 DEF DomPairs
<1>11. ExactTree(func', "forward", nodes')
  BY <1>2, <1>5, <1>9, <1>10 DEF ExactTree
<1>12. InstsDistinct(func')
  <2>1. func'.inst = func.inst /\ func'.made = func.made
    BY <1>3, <1>4 DEF FuncOK
  <2> QED  BY <1>5, <2>1 DEF InstsDistinct
<1> QED  BY <1>2, <1>5, <1>11, <1>12 DEF DomInv, Later

\* The new terminator is a new instruction.
LEMMA DomReplaces ==
    ASSUME GInv, DomInv, NEW b \in Block, NEW t \in Edits, ReplaceTerminator(b, t), UNCHANGED domVars
    PROVE  DomInv'
<1>1. /\ pc' = "compute"
      /\ func' = [term |-> [func.term EXCEPT ![b] = t],
                  inst |-> [func.inst EXCEPT ![b] = func.made],
                  made |-> func.made + 1, edits |-> func.edits - 1]
      /\ direction' = direction
  BY DEF ReplaceTerminator, domVars
<1>2. FuncOK(func) /\ InstsDistinct(func)
  BY DEF GInv, FlowInv, DomInv
<1>3. func'.made = func.made + 1 /\ \A c \in Block : func'.inst[c] = IF c = b THEN func.made ELSE func.inst[c]
  BY <1>1, <1>2 DEF FuncOK
<1>4. InstsDistinct(func')
  BY <1>2, <1>3 DEF InstsDistinct, FuncOK
<1> QED  BY <1>1, <1>4 DEF DomInv, Later

\* Every step of the program keeps the invariant.
LEMMA DomStep == ASSUME GInv, DomInv, [Next]_vars PROVE DomInv'
<1>0. InstsDistinct(func) /\ direction \in {"forward", "reverse"} /\ FuncOK(func)
  BY DEF DomInv, GInv, FlowInv
<1>1. CASE ComputeGraph /\ UNCHANGED domVars
  <2>1. func' = func /\ direction' = direction /\ pc' \in {"cfg", "compute"}
    BY <1>1 DEF ComputeGraph, domVars
  <2> QED  BY <1>0, <2>1 DEF DomInv, Later
<1>2. CASE ComputeBegin
  <2>1. /\ pc' = "spanning_tree" /\ func' = func /\ direction' \in {"forward", "reverse"}
        /\ Unlinked(nodes') /\ \A b \in Block : nodes'[b].idom = None
        /\ SpanningOf(func, direction', stree', nodes', postorder', worklist')
    BY <1>0, <1>2, BeginSearches
  <2> QED  BY <1>0, <2>1 DEF DomInv, Later
<1>3. CASE Enter
  <2>1. pc = "spanning_tree"
    BY <1>3 DEF Enter
  <2>2. /\ Unlinked(nodes) /\ \A b \in Block : nodes[b].idom = None
        /\ SpanningOf(func, direction, stree, nodes, postorder, worklist)
    BY <2>1 DEF DomInv
  <2>3. /\ pc' = "spanning_tree" /\ func' = func /\ direction' = direction
        /\ Unlinked(nodes') /\ \A b \in Block : nodes'[b].idom = None
        /\ SpanningOf(func, direction, stree', nodes', postorder', worklist')
    BY <1>0, <1>3, <2>2, EnterSearches
  <2> QED  BY <1>0, <2>3 DEF DomInv, Later
<1>4. CASE Exit
  <2>1. pc = "spanning_tree"
    BY <1>4 DEF Exit
  <2>2. /\ Unlinked(nodes) /\ \A b \in Block : nodes[b].idom = None
        /\ SpanningOf(func, direction, stree, nodes, postorder, worklist)
    BY <2>1 DEF DomInv
  <2>3. /\ pc' = "spanning_tree" /\ func' = func /\ direction' = direction /\ nodes' = nodes
        /\ SpanningOf(func, direction, stree', nodes', postorder', worklist')
    BY <1>4, <2>2, ExitSearches
  <2> QED  BY <1>0, <2>2, <2>3 DEF DomInv, Later
<1>5. CASE SpanningTreeDone
  <2>1. pc = "spanning_tree"
    BY <1>5 DEF SpanningTreeDone
  <2>2. /\ Unlinked(nodes) /\ \A b \in Block : nodes[b].idom = None
        /\ SpanningOf(func, direction, stree, nodes, postorder, worklist)
    BY <2>1 DEF DomInv
  <2>3. /\ pc' = "semi" /\ func' = func /\ direction' = direction /\ nodes' = nodes
        /\ SemisFoundOf(func, direction, stree', nodes', postorder', cursor')
    BY <1>5, <2>2, SearchIsDone
  <2> QED  BY <1>0, <2>2, <2>3 DEF DomInv, Later
<1>6. CASE ComputeSemi
  <2>1. pc = "semi"
    BY <1>6 DEF ComputeSemi
  <2>2. /\ Unlinked(nodes) /\ \A b \in Block : nodes[b].idom = None
        /\ SemisFoundOf(func, direction, stree, nodes, postorder, cursor)
    BY <2>1 DEF DomInv
  <2>3. /\ pc' = "semi" /\ func' = func /\ direction' = direction /\ nodes' = nodes
        /\ SemisFoundOf(func, direction, stree', nodes', postorder', cursor')
    BY <1>0, <1>6, <2>2, SemiIsFound
  <2> QED  BY SMTT(60), <1>0, <2>2, <2>3 DEF DomInv, Later
<1>7. CASE SemiDone
  <2>1. pc = "semi"
    BY <1>7 DEF SemiDone
  <2>2. /\ Unlinked(nodes) /\ \A b \in Block : nodes[b].idom = None
        /\ SemisFoundOf(func, direction, stree, nodes, postorder, cursor)
    BY <2>1 DEF DomInv
  <2>3. /\ pc' = "idom" /\ func' = func /\ direction' = direction /\ nodes' = nodes
        /\ IdomsFoundOf(func, direction, stree', nodes', postorder', cursor')
    BY <1>7, <2>2, SemisAreDone
  <2> QED  BY <1>0, <2>2, <2>3 DEF DomInv, Later
<1>8. CASE ComputeIdom
  <2>1. pc = "idom"
    BY <1>8 DEF ComputeIdom
  <2>2. Unlinked(nodes) /\ IdomsFoundOf(func, direction, stree, nodes, postorder, cursor)
    BY <2>1 DEF DomInv
  <2>3. /\ pc' = "idom" /\ func' = func /\ direction' = direction /\ Unlinked(nodes')
        /\ IdomsFoundOf(func, direction, stree', nodes', postorder', cursor')
    BY <1>8, <2>2, IdomIsFound
  <2> QED  BY SMTT(60), <1>0, <2>3 DEF DomInv, Later
<1>9. CASE ComputeLinks
  <2>1. pc = "idom" /\ cursor > Len(stree)
    BY <1>9 DEF ComputeLinks
  <2>2. Unlinked(nodes) /\ IdomsFoundOf(func, direction, stree, nodes, postorder, cursor)
    BY <2>1 DEF DomInv
  <2>3. TreeFound(func, direction, nodes, postorder)
    <3>1. NodesOK(nodes)
      BY <2>2 DEF Unlinked
    <3> QED  BY <1>0, <2>1, <2>2, <3>1, TreeIsFound
  <2>4. /\ pc' = "preorder" /\ func' = func /\ direction' = direction
        /\ PreorderAt(func, direction, nodes', postorder', worklist', cursor')
    BY SMTT(60), <1>9, <2>2, <2>3, LinksAreMade
  <2> QED  BY SMTT(60), <1>0, <2>4 DEF DomInv, Later
<1>10. CASE AssignPreorder
  <2>1. pc = "preorder"
    BY <1>10 DEF AssignPreorder
  <2>2. PreorderAt(func, direction, nodes, postorder, worklist, cursor)
    BY <2>1 DEF DomInv
  <2>3. /\ pc' = "preorder" /\ func' = func /\ direction' = direction
        /\ PreorderAt(func, direction, nodes', postorder', worklist', cursor')
    BY <1>10, <2>2, PreorderAssigned
  <2> QED  BY <1>0, <2>3 DEF DomInv, Later
<1>11. CASE PropagateMax
  <2>1. pc = "preorder"
    BY <1>11 DEF PropagateMax
  <2>2. PreorderAt(func, direction, nodes, postorder, worklist, cursor)
    BY <2>1 DEF DomInv
  <2>3. /\ func' = func /\ direction' = direction
        /\ pc' = IF direction = "forward" THEN "loops" ELSE "post_dominators"
        /\ ExactTree(func, direction, nodes')
    BY <1>0, <1>11, <2>2, TreeIsExact
  <2>4. CASE direction = "forward"
    BY <1>0, <2>3, <2>4 DEF DomInv, Later
  <2>5. CASE direction = "reverse"
    BY <1>0, <2>3, <2>5 DEF DomInv, Later
  <2> QED  BY <1>0, <2>4, <2>5
<1>12. CASE EliminateUnreachable
  BY <1>12, DomRemoves
<1>13. CASE LoopNext /\ UNCHANGED orderVars
  <2>1. /\ func' = func /\ direction' = direction /\ nodes' = nodes
        /\ pc \in {"loops", "loop_blocks"} /\ pc' \in {"loop_blocks", "order"}
    BY <1>13 DEF LoopNext, FindLoopHeaders, DiscoverNext, DiscoverBlock, AssignLoopLevels,
                 flowVars, domVars
  <2> QED  BY <2>1, DomKept DEF Later
<1>14. CASE OrderBegin \/ OrderBlock \/ OrderSuccessors
  <2>1. /\ func' = func /\ direction' = direction /\ nodes' = nodes
        /\ pc \in {"order", "lowering"} /\ pc' \in {"lowering", "done"}
    BY <1>14 DEF OrderBegin, OrderBlock, OrderSuccessors, flowVars, domVars
  <2> QED  BY <2>1, DomKept DEF Later
<1>15. ASSUME NEW b \in Block, NEW t \in Edits, ReplaceTerminator(b, t), UNCHANGED domVars
       PROVE  DomInv'
  BY <1>15, DomReplaces
<1>16. CASE UNCHANGED vars
  <2>1. /\ func' = func /\ direction' = direction /\ pc' = pc /\ stree' = stree /\ postorder' = postorder
        /\ nodes' = nodes /\ worklist' = worklist /\ cursor' = cursor
    BY <1>16 DEF vars, flowVars, domVars
  <2> QED  BY <2>1 DEF DomInv
<1> QED  BY <1>1, <1>2, <1>3, <1>4, <1>5, <1>6, <1>7, <1>8, <1>9, <1>10, <1>11, <1>12, <1>13, <1>14,
            <1>15, <1>16 DEF Next, DomNext

\* From the depth-first search to the preorder, in both directions: the numbers
\* of the search, the semidominators found so far, the immediate dominators, the
\* links and the preorder, each as far as its loop is, and then a tree that is
\* exact until the function is edited.
THEOREM DomInvariant == Spec => []DomInv
<1>1. Init => DomInv
  BY DomStart
<1>2. GInv /\ DomInv /\ [Next]_vars => DomInv'
  BY DomStep
<1> QED  BY <1>1, <1>2, GraphInvariant, PTL DEF Spec

\* DominatorTree::compute, Semi-NCA: for every function of the model, reducible
\* or not, and after every edit, block_dominates is true exactly if every path
\* from the entry goes through the first block, and idom is the closest.
THEOREM DominatorsAreExact == Spec => []DominatorsExact
<1>1. DomInv => DominatorsExact
  <2> SUFFICES ASSUME DomInv, pc = "done" PROVE
        /\ \A a, b \in Block :
              a \in reached({}) \/ b \in reached({}) => (block_dominates(a, b) <=> dominates(a, b))
        /\ \A b \in Block :
              LET strict == {a \in Block \ {b} : dominates(a, b)}
              IN  IF strict = {} THEN nodes[b].idom = None
                  ELSE nodes[b].idom \in strict /\ \A a \in strict : dominates(a, nodes[b].idom)
    BY DEF DominatorsExact
  <2> DEFINE D == DomPairs(func, "forward")
  <2>1. ExactTree(func, "forward", nodes)
    BY DEF DomInv, Later
  <2>2. \A avoid : reached(avoid) = Through(func, "forward", avoid)
    BY ReachedNow DEF Through
  <2>3. \A a, b \in Block : dominates(a, b) <=> <<a, b>> \in D
    BY <2>2 DEF dominates, DomPairs
  <2>4. /\ \A a, b \in Block : a \in Through(func, "forward", {}) \/ b \in Through(func, "forward", {}) =>
              (block_dominates(a, b) <=> <<a, b>> \in D)
        /\ \A b \in Block :
              LET strict == {a \in Block \ {b} : <<a, b>> \in D}
              IN  IF strict = {} THEN nodes[b].idom = None
                  ELSE nodes[b].idom \in strict /\ \A a \in strict : <<a, nodes[b].idom>> \in D
    BY <2>1 DEF ExactTree, block_dominates
  <2> HIDE DEF D
  <2>5. ASSUME NEW b \in Block
        PROVE  LET strict == {a \in Block \ {b} : dominates(a, b)}
               IN  IF strict = {} THEN nodes[b].idom = None
                   ELSE nodes[b].idom \in strict /\ \A a \in strict : dominates(a, nodes[b].idom)
    <3> DEFINE strict == {a \in Block \ {b} : <<a, b>> \in D}
    <3>1. {a \in Block \ {b} : dominates(a, b)} = strict
      BY <2>3
    <3>2. IF strict = {} THEN nodes[b].idom = None
          ELSE nodes[b].idom \in strict /\ \A a \in strict : <<a, nodes[b].idom>> \in D
      BY <2>4
    <3>3. \A a \in strict : nodes[b].idom \in Block => (dominates(a, nodes[b].idom) <=> <<a, nodes[b].idom>> \in D)
      BY <2>3
    <3>4. \A a \in strict : a \in Block
      OBVIOUS
    <3> HIDE DEF strict
    <3>5. IF strict = {} THEN nodes[b].idom = None
          ELSE nodes[b].idom \in strict /\ \A a \in strict : dominates(a, nodes[b].idom)
      BY <3>2, <3>3, <3>4
    <3> QED  BY <3>1, <3>5
  <2>6. \A a, b \in Block :
           a \in reached({}) \/ b \in reached({}) => (block_dominates(a, b) <=> dominates(a, b))
    BY <2>2, <2>3, <2>4
  <2> QED  BY <2>5, <2>6
<1> QED  BY <1>1, DomInvariant, PTL

\* PostDominatorTree::compute: on the reversed graph, whatever blocks diverge,
\* the tree is that of the paths to an exit.
THEOREM PostDominatorsAreExact == Spec => []PostDominatorsExact
<1>1. GInv /\ DomInv => PostDominatorsExact
  <2> SUFFICES ASSUME GInv, DomInv, pc = "post_dominators", NEW b \in Block PROVE
        /\ is_reachable(b) <=> b \in exits({})
        /\ b \in exits({}) =>
              LET strict == {a \in Block \ {b} : b \notin exits({a})}
              IN  /\ \A a \in Block : block_dominates(a, b) <=> a \in strict \cup {b}
                  /\ IF strict = {} THEN nodes[b].idom = None
                     ELSE /\ nodes[b].idom \in strict
                          /\ \A a \in strict \ {nodes[b].idom} : nodes[b].idom \notin exits({a})
    BY DEF PostDominatorsExact
  <2> DEFINE D == DomPairs(func, "reverse")
             strict == {a \in Block \ {b} : <<a, b>> \in D}
  <2>1. ExactTree(func, "reverse", nodes)
    BY DEF DomInv
  <2>2. \A avoid : exits(avoid) = Through(func, "reverse", avoid)
    BY ExitsNow DEF Through
  <2>3. is_reachable(b) <=> b \in exits({})
    BY <2>1, <2>2 DEF ExactTree, is_reachable, NOT_VISITED
  <2>4. ASSUME b \in exits({})
        PROVE  /\ {a \in Block \ {b} : b \notin exits({a})} = strict
               /\ \A a \in Block : block_dominates(a, b) <=> <<a, b>> \in D
               /\ <<b, b>> \in D
               /\ IF strict = {} THEN nodes[b].idom = None
                  ELSE nodes[b].idom \in strict /\ \A a \in strict : <<a, nodes[b].idom>> \in D
    <3>1. \A a \in Block : <<a, b>> \in D <=> b \notin exits({a})
      BY <2>2, <2>4 DEF DomPairs
    <3>2. b \notin exits({b})
      <4>1. FuncOK(func)
        BY DEF GInv, FlowInv
      <4>2. Through(func, "reverse", {b}) \subseteq Block \ {b}
        BY <4>1, ThroughFacts
      <4> QED  BY <2>2, <4>2
    <3>3. \A a \in Block : block_dominates(a, b) <=> <<a, b>> \in D
      BY <2>1, <2>2, <2>4 DEF ExactTree, block_dominates
    <3>4. IF strict = {} THEN nodes[b].idom = None
          ELSE nodes[b].idom \in strict /\ \A a \in strict : <<a, nodes[b].idom>> \in D
      BY <2>1 DEF ExactTree
    <3> HIDE DEF D
    <3> QED  BY <3>1, <3>2, <3>3, <3>4
  <2>5. \A a, c : <<a, c>> \in D => c \notin exits({a})
    BY <2>2 DEF DomPairs
  <2>6. \A a \in Block : a \in strict \cup {b} <=> a = b \/ <<a, b>> \in D
    OBVIOUS
  <2> HIDE DEF D, strict
  <2> QED  BY <2>3, <2>4, <2>5, <2>6
<1> QED  BY <1>1, DomInvariant, GraphInvariant, PTL

==============================================================================
