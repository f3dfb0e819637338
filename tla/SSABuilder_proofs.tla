------------------------- MODULE SSABuilder_proofs --------------------------
(***************************************************************************)
(* Proofs about SSABuilder, for any number of blocks and variables, any    *)
(* graphs, and any order in which blocks are built and sealed: a branch    *)
(* passes one argument per parameter, aliases end in a value that is none, *)
(* the stacks of run_state_machine balance, and stack maps are complete.   *)
(*                                                                         *)
(* While a lookup runs a block may have parameters its predecessors do not *)
(* yet pass: that of the lookup (there is at most one per block, because   *)
(* the block has a definition of the variable from then on), and those for *)
(* the placeholders that are not looked up yet.  Arity counts the others.  *)
(* Heights gives the height of the stack of results before each of the     *)
(* calls that wait, so that each finish finds a value per predecessor.     *)
(* Acyclic says of aliases that one can leave every set of values; with    *)
(* the pigeonhole principle resolve_aliases then ends at no alias.         *)
(***************************************************************************)
EXTENDS SSABuilder, TLAPS, SequenceTheorems, FiniteSetTheorems, WellFoundedInduction

USE SSAAssumption

Call == [op : {"use"}, block : Block] \cup [op : {"finish"}, sentinel : Nat, block : Block]
Statement == [op : {"use", "def", "copy"}, var : Nat, val : Nat]
Lookup == [var : Nat, start : Nat, block : Nat, visited : SUBSET Nat, val : Nat, from : Nat]

STypeOK ==
    /\ graph \in [Block -> Seq(Block)]
    /\ position \in Block
    /\ status \in [Block -> {"empty", "partial", "filled"}]
    /\ body \in [Block -> Seq(Statement)]
    /\ variables \in [Variable -> [Block -> Nat]]
    /\ sealed \in SUBSET Block
    /\ undef_variables \in [Block -> Seq(Variable)]
    /\ predecessors \in [Block -> Seq(Block)]
    /\ single_predecessor \in [Block -> SUBSET Block]
    /\ calls \in Seq(Call)
    /\ results \in Seq(Nat)
    /\ block_params \in [Block -> Seq(Nat)]
    /\ args \in [Block -> Seq(Seq(Nat))]
    /\ alias \in Seq(Nat)
    /\ zeros \in [Block -> SUBSET Nat]
    /\ pc \in {"idle", "find_var", "copy", "machine", "seal", "run"}
    /\ look \in Lookup
    /\ seal \in [todo : SUBSET Block, open : BOOLEAN, idx : Nat]

\* The lookup concerns a variable and blocks.
LookOK ==
    /\ pc \in {"find_var", "copy", "machine"} => look.var \in Variable
    /\ pc \in {"find_var", "copy"} => look.block \in Block /\ look.start \in Block
    /\ pc = "find_var" => variables[look.var][look.block] = None
    /\ pc = "copy" => look.val \in Value

\* Every value that is mentioned exists.
ValuesExist ==
    /\ \A b \in Block : \A i \in 1 .. Len(body[b]) : body[b][i].val \in Value
    /\ \A x \in Variable, b \in Block : variables[x][b] \in Value \cup {None}
    /\ \A i \in 1 .. Len(results) : results[i] \in Value
    /\ \A v \in Value : alias[v] \in Value \cup {None}

\* A value is one parameter of one block at most, and then no alias.
ParamsOK ==
    /\ \A b \in Block : \A i \in 1 .. Len(block_params[b]) :
          block_params[b][i] \in Value /\ alias[block_params[b][i]] = None
    /\ \A b, c \in Block : \A i \in 1 .. Len(block_params[b]), j \in 1 .. Len(block_params[c]) :
          block_params[b][i] = block_params[c][j] => b = c /\ i = j

\* Which blocks are sealed while seal_all_blocks runs.
SealOK ==
    /\ pc \in {"idle", "run"} => seal.todo = {}
    /\ pc = "seal" \/ seal.open => seal.todo # {}
    /\ seal.todo # {} /\ pc # "seal" => seal.open
    /\ seal.todo \cap sealed = IF seal.open THEN {sealing} ELSE {}
    /\ IF seal.open THEN seal.idx <= Len(undef_variables[sealing]) ELSE seal.idx = 0
    /\ \A b \in sealed : undef_variables[b] = <<>> \/ (seal.open /\ b = sealing)
    /\ \A b \in Block : \A i \in 1 .. Len(undef_variables[b]) :
          variables[undef_variables[b][i]][b] # None

\* A filled block is a predecessor of its successors, and has a list of
\* arguments for each; those that lead to a sealed block are filled.
PredecessorsOK ==
    /\ \A b, p \in Block : status[p] = "filled" /\ leads_to(p, b) =>
          \E j \in 1 .. Len(predecessors[b]) : predecessors[b][j] = p
    /\ \A b \in sealed \cup seal.todo, p \in Block : leads_to(p, b) => status[p] = "filled"
    /\ \A p \in Block : Len(args[p]) = IF status[p] = "filled" THEN Len(graph[p]) ELSE 0

IsFinish(c) == c.op = "finish"

\* A lookup is finished once per block, which is sealed, has a definition of
\* the variable, and has the parameter.
CallsOK ==
    /\ \A i \in 1 .. Len(calls) : IsFinish(calls[i]) =>
          /\ calls[i].block \in sealed
          /\ variables[look.var][calls[i].block] # None
          /\ \E k \in 1 .. Len(block_params[calls[i].block]) :
                block_params[calls[i].block][k] = calls[i].sentinel
    /\ \A i, j \in 1 .. Len(calls) :
          IsFinish(calls[i]) /\ IsFinish(calls[j]) /\ calls[i].block = calls[j].block => i = j

\* The parameters of b that branches to b pass a value for.
Waiting(b) == IF \E i \in 1 .. Len(calls) : IsFinish(calls[i]) /\ calls[i].block = b THEN 1 ELSE 0
Unsettled(b) == Len(undef_variables[b]) - (IF seal.open /\ b = sealing THEN seal.idx ELSE 0)
Arity(b) == Len(block_params[b]) - Waiting(b) - Unsettled(b)

ArityOK ==
    /\ \A b \in Block : Arity(b) \in Nat /\ (b \notin sealed => Arity(b) = 0)
    /\ \A p \in Block : \A i \in 1 .. Len(args[p]) : Len(args[p][i]) = Arity(graph[p][i])

\* h[i] is the height of the stack of results before the i-th of the calls cs.
Heights(h, cs, preds, n) ==
    /\ h \in [1 .. (Len(cs) + 1) -> Nat]
    /\ h[1] = n
    /\ h[Len(cs) + 1] = 1
    /\ \A i \in 1 .. Len(cs) :
          IF IsFinish(cs[i])
          THEN /\ h[i] >= Len(preds[cs[i].block])
               /\ h[i + 1] = h[i] - Len(preds[cs[i].block]) + 1
          ELSE h[i + 1] = h[i] + 1

\* The values that are on their way: find_var is about to push one.
Height == Len(results) + (IF pc = "find_var" THEN 1 ELSE 0)

StacksOK ==
    /\ pc \in {"idle", "seal", "run"} => calls = <<>> /\ results = <<>>
    /\ pc \in {"find_var", "copy", "machine"} => \E h : Heights(h, calls, predecessors, Height)

Acyclic(a) ==
    \A S \in SUBSET (1 .. Len(a)) : S # {} => \E v \in S : a[v] \notin S

StackMapped ==
    StackMapVars = Variable =>
        \A v \in Value : v \in stack_map_values \/ \E z \in Block : v \in zeros[z]

SInv ==
    /\ STypeOK /\ LookOK /\ ValuesExist /\ ParamsOK /\ SealOK
    /\ PredecessorsOK /\ CallsOK /\ ArityOK /\ StacksOK
    /\ Acyclic(alias) /\ StackMapped

(***************************************************************************)
(* Sequences and numbers.                                                  *)
(***************************************************************************)

\* A nonempty set of natural numbers has a least element.
LEMMA NatMin ==
    ASSUME NEW T, T \subseteq Nat, T # {}
    PROVE  \E x \in T : \A y \in T : x <= y
<1> DEFINE R == {ss \in Nat \X Nat : ss[1] < ss[2]}
<1>1. OpToRel(<, Nat) = R
  BY Zenon DEF OpToRel
<1>2. IsWellFoundedOn(R, Nat)
  BY <1>1, NatLessThanWellFounded
<1>3. \E x \in T : \A y \in T : ~(<<y, x>> \in R)
  <2> HIDE DEF R
  <2> QED  BY <1>2, WFMin
<1>4. PICK x \in T : \A y \in T : ~(<<y, x>> \in R)
  BY <1>3
<1>5. ASSUME NEW y \in T PROVE x <= y
  <2>1. ~(<<y, x>> \in R)
    BY <1>4
  <2>2. x \in Nat /\ y \in Nat
    OBVIOUS
  <2>3. ~(y < x)
    BY <2>1, <2>2
  <2> QED  BY <2>2, <2>3
<1> QED  BY <1>5

LEMMA NumbersOfBlocks == Block \subseteq Nat /\ Variable \subseteq Nat
BY DEF Block, Variable

\* A block is being sealed as long as some are to be.
LEMMA SealingIsNext ==
    ASSUME STypeOK, seal.todo # {}
    PROVE  sealing \in seal.todo /\ sealing \in Block
<1>1. seal.todo \subseteq Nat
  BY DEF STypeOK, Block
<1>2. \E b \in seal.todo : \A c \in seal.todo : b <= c
  BY <1>1, NatMin
<1>3. sealing \in seal.todo
  BY <1>2 DEF sealing
<1> QED  BY <1>3 DEF STypeOK

LEMMA SealingKept == ASSUME seal.todo' = seal.todo PROVE sealing' = sealing
BY DEF sealing

\* RemoveAt takes out one element.
LEMMA RemoveAtFacts ==
    ASSUME NEW s \in Seq(Nat), NEW k \in 1 .. Len(s)
    PROVE  LET t == RemoveAt(s, k)
           IN  /\ t \in Seq(Nat) /\ Len(t) = Len(s) - 1
               /\ \A j \in 1 .. (Len(s) - 1) : t[j] = IF j < k THEN s[j] ELSE s[j + 1]
<1> DEFINE a == SubSeq(s, 1, k - 1)
           c == SubSeq(s, k + 1, Len(s))
           t == RemoveAt(s, k)
<1>1. Len(s) \in Nat /\ k \in Nat
  OBVIOUS
<1>2. a \in Seq(Nat) /\ Len(a) = k - 1 /\ \A j \in 1 .. (k - 1) : a[j] = s[j]
  BY <1>1
<1>3. c \in Seq(Nat) /\ Len(c) = Len(s) - k /\ \A j \in 1 .. (Len(s) - k) : c[j] = s[k + j]
  BY <1>1
<1>4. t = a \o c
  BY DEF RemoveAt
<1> HIDE DEF a, c, t
<1>5. t \in Seq(Nat) /\ Len(t) = Len(s) - 1
  <2>1. t \in Seq(Nat) /\ Len(t) = Len(a) + Len(c)
    BY <1>2, <1>3, <1>4, ConcatProperties
  <2> QED  BY <1>1, <1>2, <1>3, <2>1
<1>6. ASSUME NEW j \in 1 .. (Len(s) - 1)
      PROVE  t[j] = IF j < k THEN s[j] ELSE s[j + 1]
  <2>1. CASE j < k
    <3>1. j \in 1 .. (k - 1) /\ t[j] = a[j]
      BY <1>1, <1>2, <1>3, <1>4, <2>1
    <3> QED  BY <1>1, <1>2, <2>1, <3>1
  <2>2. CASE j >= k
    <3> DEFINE m == j - k + 1
    <3>0. m \in 1 .. (Len(s) - k) /\ k + m = j + 1 /\ m = j - Len(a) /\ ~(j <= Len(a)) /\ j \in 1 .. (Len(a) + Len(c))
      BY <1>1, <1>2, <1>3, <2>2
    <3>1. t[j] = c[m] /\ m \in 1 .. (Len(s) - k) /\ k + m = j + 1
      <4> HIDE DEF m
      <4> QED  BY ZenonT(60), <1>2, <1>3, <1>4, <3>0, ConcatProperties
    <3>2. c[m] = s[k + m]
      <4> HIDE DEF m
      <4> QED  BY <1>3, <3>1
    <3> QED  BY <1>1, <2>2, <3>1, <3>2
  <2> QED  BY <1>1, <2>1, <2>2
<1> QED  BY <1>5, <1>6 DEF t

(***************************************************************************)
(* Aliases.                                                                *)
(***************************************************************************)

\* f[k] is what k applications of next make of first.
Iterates(f, T, first, next, n) ==
    /\ f \in [0 .. n -> T]
    /\ f[0] = first
    /\ \A k \in 1 .. n : f[k] = next[f[k - 1]]

\* A function can be iterated.
LEMMA IterateExists ==
    ASSUME NEW T, NEW first \in T, NEW next \in [T -> T], NEW n \in Nat
    PROVE  \E f : Iterates(f, T, first, next, n)
<1> DEFINE P(m) == \E f : Iterates(f, T, first, next, m)
           C == {m \in Nat : ~P(m)}
<1>1. C = {}
  <2> SUFFICES ASSUME C # {} PROVE FALSE
    OBVIOUS
  <2>1. PICK m \in C : \A k \in C : m <= k
    <3> HIDE DEF P
    <3> QED  BY NatMin
  <2>2. m \in Nat /\ ~P(m)
    OBVIOUS
  <2>3. CASE m = 0
    <3>1. P(0)
      <4> DEFINE g == [k \in 0 .. 0 |-> first]
      <4>1. g \in [0 .. 0 -> T] /\ g[0] = first
        OBVIOUS
      <4> HIDE DEF g
      <4>2. Iterates(g, T, first, next, 0)
        BY <4>1 DEF Iterates
      <4> QED  BY <4>2
    <3> HIDE DEF P
    <3> QED  BY <2>2, <2>3, <3>1
  <2>4. CASE m # 0
    <3>1. m - 1 \in Nat /\ P(m - 1)
      <4> HIDE DEF P
      <4> QED  BY <2>1, <2>2, <2>4
    <3>2. PICK f \in [0 .. (m - 1) -> T] : f[0] = first /\ \A k \in 1 .. (m - 1) : f[k] = next[f[k - 1]]
      BY <3>1 DEF Iterates
    <3> DEFINE g == [k \in 0 .. m |-> IF k = m THEN next[f[m - 1]] ELSE f[k]]
    <3>3. g \in [0 .. m -> T] /\ g[0] = first
      BY <2>2, <2>4, <3>2
    <3>4. ASSUME NEW k \in 1 .. m PROVE g[k] = next[g[k - 1]]
      <4>1. k \in 0 .. m /\ k - 1 \in 0 .. (m - 1) /\ k - 1 \in 0 .. m /\ k - 1 # m
        BY <2>2
      <4>2. g[k - 1] = f[k - 1]
        BY <4>1
      <4>3. g[k] = IF k = m THEN next[f[m - 1]] ELSE f[k]
        BY <4>1
      <4>4. k # m => k \in 1 .. (m - 1)
        BY <2>2
      <4> HIDE DEF g
      <4> QED  BY <3>2, <4>2, <4>3, <4>4
    <3>5. P(m)
      <4> HIDE DEF g
      <4>1. Iterates(g, T, first, next, m)
        BY <3>3, <3>4 DEF Iterates
      <4> QED  BY <4>1
    <3> HIDE DEF P
    <3> QED  BY <2>2, <3>5
  <2> QED  BY <2>3, <2>4
<1> QED  BY <1>1

\* f is what `nth' of resolve_aliases is defined by.
IsChain(f, a, v) ==
    f = [n \in 0 .. Len(a) |-> IF n = 0 THEN v
            ELSE LET w == f[n - 1] IN IF a[w] = None THEN w ELSE a[w]]

\* The aliases of a value, one after the other; the last is repeated.
LEMMA ChainExists ==
    ASSUME NEW a \in Seq(Nat), \A v \in 1 .. Len(a) : a[v] \in 1 .. Len(a) \cup {None},
           NEW v \in 1 .. Len(a)
    PROVE  \E f : IsChain(f, a, v)
<1> DEFINE T == 1 .. Len(a)
           next == [w \in T |-> IF a[w] = None THEN w ELSE a[w]]
<1>1. Len(a) \in Nat /\ next \in [T -> T]
  BY DEF None
<1>2. PICK f \in [0 .. Len(a) -> T] : f[0] = v /\ \A k \in 1 .. Len(a) : f[k] = next[f[k - 1]]
  <2> DEFINE l == Len(a)
  <2>1. v \in T /\ l \in Nat /\ next \in [T -> T]
    BY <1>1
  <2> HIDE DEF next, T, l
  <2>2. \E f : Iterates(f, T, v, next, l)
    BY <2>1, IterateExists
  <2> QED  BY <2>2 DEF l, Iterates
<1>3. ASSUME NEW n \in 0 .. Len(a)
      PROVE  f[n] = IF n = 0 THEN v
                    ELSE LET w == f[n - 1] IN IF a[w] = None THEN w ELSE a[w]
  <2>1. CASE n = 0
    BY <1>2, <2>1
  <2>2. CASE n # 0
    <3>1. n \in 1 .. Len(a) /\ n - 1 \in 0 .. Len(a)
      BY <1>1, <2>2
    <3>2. f[n] = next[f[n - 1]] /\ f[n - 1] \in T
      <4> HIDE DEF next, T
      <4> QED  BY <1>2, <3>1
    <3> QED  BY <2>2, <3>2
  <2> QED  BY <2>1, <2>2
<1>4. f = [n \in 0 .. Len(a) |-> f[n]]
  BY <1>2
<1>5. f = [n \in 0 .. Len(a) |-> IF n = 0 THEN v
              ELSE LET w == f[n - 1] IN IF a[w] = None THEN w ELSE a[w]]
  <2> HIDE DEF T
  <2> QED  BY <1>3, <1>4
<1>6. IsChain(f, a, v)
  BY <1>5 DEF IsChain
<1> QED  BY <1>6

\* Where one can leave every set of values, aliases end in a value that is none.
LEMMA ResolveEnds ==
    ASSUME alias \in Seq(Nat), \A v \in Value : alias[v] \in Value \cup {None}, Acyclic(alias),
           NEW v \in Value
    PROVE  resolve_aliases(v) \in Value /\ alias[resolve_aliases(v)] = None
<1> DEFINE Eq(f) == IsChain(f, alias, v)
           f == CHOOSE g : Eq(g)
           L == Len(alias)
<1>1. resolve_aliases(v) = f[L]
  BY Zenon DEF resolve_aliases, IsChain
<1>2. Eq(f)
  <2>1. \E g : Eq(g)
    BY ChainExists DEF Value
  <2> HIDE DEF Eq
  <2> QED  BY <2>1
<1> HIDE DEF f
<1>3. L \in Nat
  OBVIOUS
<1>4. /\ f = [n \in 0 .. L |-> f[n]] /\ f[0] = v
      /\ \A n \in 1 .. L : f[n] = IF alias[f[n - 1]] = None THEN f[n - 1] ELSE alias[f[n - 1]]
  <2>1. f = [n \in 0 .. L |-> IF n = 0 THEN v
               ELSE IF alias[f[n - 1]] = None THEN f[n - 1] ELSE alias[f[n - 1]]]
    BY <1>2 DEF IsChain
  <2>2. 0 \in 0 .. L
    BY <1>3
  <2>3. \A n \in 1 .. L : n \in 0 .. L /\ n # 0
    BY <1>3
  <2> HIDE DEF L
  <2>4. \A n \in 0 .. L : f[n] = IF n = 0 THEN v
               ELSE IF alias[f[n - 1]] = None THEN f[n - 1] ELSE alias[f[n - 1]]
    BY <2>1
  <2>5. f = [n \in 0 .. L |-> f[n]]
    BY <2>1
  <2> QED  BY <2>2, <2>3, <2>4, <2>5
<1> HIDE DEF L
\* All of it are values.
<1>5. \A n \in 0 .. L : f[n] \in Value
  <2> DEFINE C == {n \in Nat : n <= L /\ f[n] \notin Value}
  <2> SUFFICES ASSUME C # {} PROVE FALSE
    BY <1>3
  <2>1. PICK n \in C : \A m \in C : n <= m
    BY NatMin
  <2>2. n \in Nat /\ n <= L /\ f[n] \notin Value
    OBVIOUS
  <2>3. n # 0
    BY <1>4, <2>2
  <2>4. f[n - 1] \in Value
    BY <1>3, <2>1, <2>2, <2>3
  <2>5. n \in 1 .. L
    BY <1>3, <2>2, <2>3
  <2> HIDE DEF C
  <2> QED  BY <1>4, <2>2, <2>4, <2>5
\* If it ends at an alias it has more names than there are values, one twice,
\* and cannot leave the values between the two.
<1>6. alias[f[L]] = None
  <2> SUFFICES ASSUME alias[f[L]] # None PROVE FALSE
    OBVIOUS
  <2>1. \A n \in 0 .. L : alias[f[n]] # None
    <3> DEFINE C == {n \in Nat : n <= L /\ alias[f[L - n]] = None}
    <3>1. C = {}
      <4> SUFFICES ASSUME C # {} PROVE FALSE
        OBVIOUS
      <4>1. PICK n \in C : \A m \in C : n <= m
        BY NatMin
      <4>2. n \in Nat /\ n <= L /\ alias[f[L - n]] = None /\ n # 0
        BY <1>3
      <4>3. n - 1 \in Nat /\ n - 1 <= L /\ ~(n <= n - 1)
        BY <1>3, <4>2
      <4>4. alias[f[L - (n - 1)]] # None
        BY <4>1, <4>3
      <4>5. L - (n - 1) \in 1 .. L /\ (L - (n - 1)) - 1 = L - n
        BY SMTT(60), <1>3, <4>2
      <4> DEFINE k == L - (n - 1)
      <4>6. k \in 1 .. L /\ k - 1 = L - n /\ alias[f[k]] # None
        BY <4>4, <4>5
      <4> HIDE DEF k, C
      <4>7. f[k] = f[k - 1]
        BY <1>4, <4>2, <4>6
      <4> QED  BY <4>2, <4>6, <4>7
    <3>2. ASSUME NEW n \in 0 .. L PROVE alias[f[n]] # None
      <4>1. L - n \in Nat /\ L - n <= L /\ L - (L - n) = n
        BY <1>3
      <4>2. L - n \notin C
        BY <3>1
      <4> QED  BY <4>1, <4>2
    <3> QED  BY <3>2
  <2>2. f \in [0 .. L -> Value]
    BY <1>4, <1>5
  <2>3. PICK i, j \in 0 .. L : i < j /\ f[i] = f[j]
    <3>1. /\ IsFiniteSet(0 .. L) /\ Cardinality(0 .. L) = L + 1
          /\ IsFiniteSet(1 .. L) /\ Cardinality(1 .. L) = L
      BY <1>3, FS_Interval
    <3>2. Value = 1 .. L
      BY DEF Value, L
    <3>3. \E x, y \in 0 .. L : x # y /\ f[x] = f[y]
      <4>1. Cardinality(1 .. L) < Cardinality(0 .. L)
        BY <1>3, <3>1
      <4>2. f \in [0 .. L -> 1 .. L]
        BY <2>2, <3>2
      <4> DEFINE from == 0 .. L
                 to == 1 .. L
      <4>3. IsFiniteSet(from) /\ IsFiniteSet(to) /\ Cardinality(to) < Cardinality(from) /\ f \in [from -> to]
        BY <3>1, <4>1, <4>2
      <4> HIDE DEF from, to
      <4>4. \E x, y \in from : x # y /\ f[x] = f[y]
        BY <4>3, FS_PigeonHole
      <4> QED  BY <4>4 DEF from
    <3> QED  BY <1>3, <3>3
  <2> DEFINE S == {f[n] : n \in i .. (j - 1)}
  <2>4. S \subseteq Value /\ f[i] \in S
    BY <1>3, <1>5, <2>3
  <2>5. ASSUME NEW w \in S PROVE alias[w] \in S
    <3>1. PICK n \in i .. (j - 1) : w = f[n]
      OBVIOUS
    <3>2. n \in 0 .. L /\ n + 1 \in 1 .. L /\ (n + 1) - 1 = n
      BY <1>3, <2>3
    <3>3. f[n + 1] = alias[f[n]]
      <4> DEFINE m == n + 1
      <4>1. m \in 1 .. L /\ m - 1 = n
        BY <3>2
      <4> HIDE DEF m
      <4>2. f[m] = alias[f[n]]
        BY <1>4, <2>1, <3>2, <4>1
      <4> QED  BY <4>2 DEF m
    <3>4. CASE n + 1 = j
      <4>1. f[j] \in S
        BY <2>3, <2>4
      <4> QED  BY <3>1, <3>3, <3>4, <4>1
    <3>5. CASE n + 1 # j
      <4>1. n + 1 \in i .. (j - 1)
        BY <1>3, <2>3, <3>5
      <4>2. f[n + 1] \in S
        BY <4>1
      <4> QED  BY <3>1, <3>3, <4>2
    <3> QED  BY <3>4, <3>5
  <2>6. S \in SUBSET (1 .. Len(alias)) /\ S # {}
    BY <2>4 DEF Value
  <2> HIDE DEF S
  <2> QED  BY <2>5, <2>6 DEF Acyclic
<1>7. L \in 0 .. L
  BY <1>3
<1> QED  BY <1>1, <1>5, <1>6, <1>7

(***************************************************************************)
(* The stacks of run_state_machine.                                        *)
(***************************************************************************)

\* The calls of begin_predecessors_lookup, then those below.
IsLookup(new, s, b, cs) ==
    LET n == Len(predecessors[b])
    IN  /\ new \in Seq(Call)
        /\ Len(new) = n + 1 + Len(cs)
        /\ \A i \in 1 .. n : new[i] = [op |-> "use", block |-> predecessors[b][i]]
        /\ new[n + 1] = [op |-> "finish", sentinel |-> s, block |-> b]
        /\ \A i \in 1 .. Len(cs) : new[n + 1 + i] = cs[i]

LEMMA LookupCalls ==
    ASSUME STypeOK, NEW s \in Nat, NEW b \in Block, NEW cs \in Seq(Call)
    PROVE  IsLookup(begin_predecessors_lookup(s, b, cs), s, b, cs)
<1> DEFINE n == Len(predecessors[b])
           uses == [i \in 1 .. n |-> [op |-> "use", block |-> predecessors[b][i]]]
           last == [op |-> "finish", sentinel |-> s, block |-> b]
           finish == <<last>>
           both == uses \o finish
           new == both \o cs
<1>1. predecessors[b] \in Seq(Block) /\ n \in Nat /\ Len(cs) \in Nat
  BY SMTT(60) DEF STypeOK
<1>2. uses \in Seq(Call) /\ Len(uses) = n
        /\ \A i \in 1 .. n : uses[i] = [op |-> "use", block |-> predecessors[b][i]]
  <2>1. \A i \in 1 .. n : [op |-> "use", block |-> predecessors[b][i]] \in Call
    BY <1>1 DEF Call
  <2> HIDE DEF n
  <2> QED  BY <1>1, <2>1
<1>3. finish \in Seq(Call) /\ Len(finish) = 1 /\ finish[1] = last
  <2>1. last \in Call
    BY DEF Call
  <2> HIDE DEF last
  <2> QED  BY <2>1
<1>4. new = begin_predecessors_lookup(s, b, cs)
  BY DEF begin_predecessors_lookup
<1> HIDE DEF n, uses, finish, last
<1>5. /\ both \in Seq(Call) /\ Len(both) = n + 1
      /\ \A i \in 1 .. n : both[i] = uses[i]
      /\ both[n + 1] = last
  <2>0. uses \in Seq(Call) /\ Len(uses) = n /\ finish \in Seq(Call) /\ Len(finish) = 1
    BY <1>2, <1>3
  <2>1. both \in Seq(Call) /\ Len(both) = n + 1
    BY ZenonT(60), <2>0, ConcatProperties
  <2>2. \A i \in 1 .. n + 1 : both[i] = IF i <= n THEN uses[i] ELSE finish[i - n]
    BY ZenonT(60), <2>0, ConcatProperties
  <2>3. \A i \in 1 .. n : i \in 1 .. n + 1 /\ i <= n
    BY <1>1
  <2>4. n + 1 \in 1 .. n + 1 /\ ~(n + 1 <= n) /\ (n + 1) - n = 1
    BY <1>1
  <2> HIDE DEF both
  <2> QED  BY <1>3, <2>1, <2>2, <2>3, <2>4
<1> HIDE DEF both
<1>6. /\ new \in Seq(Call) /\ Len(new) = n + 1 + Len(cs)
      /\ \A i \in 1 .. (n + 1) : new[i] = both[i]
      /\ \A i \in 1 .. Len(cs) : new[n + 1 + i] = cs[i]
  <2>1. new \in Seq(Call) /\ Len(new) = Len(both) + Len(cs)
    BY <1>5
  <2>2. \A i \in 1 .. Len(both) + Len(cs) :
           new[i] = IF i <= Len(both) THEN both[i] ELSE cs[i - Len(both)]
    BY <1>5
  <2> HIDE DEF new
  <2>3. \A i \in 1 .. (n + 1) : new[i] = both[i]
    BY <1>1, <1>5, <2>2
  <2>4. ASSUME NEW i \in 1 .. Len(cs) PROVE new[n + 1 + i] = cs[i]
    <3> DEFINE j == n + 1 + i
    <3>1. j \in 1 .. Len(both) + Len(cs) /\ ~(j <= Len(both)) /\ j - Len(both) = i
      BY <1>1, <1>5
    <3> HIDE DEF j
    <3>2. new[j] = cs[i]
      BY <2>2, <3>1
    <3> QED  BY <3>2 DEF j
  <2> QED  BY <1>1, <1>5, <2>1, <2>3, <2>4
<1>7. \A i \in 1 .. n : i \in 1 .. (n + 1)
  BY <1>1
<1>8. n + 1 \in 1 .. (n + 1)
  BY <1>1
<1> HIDE DEF new
<1>9. IsLookup(new, s, b, cs)
  BY <1>2, <1>5, <1>6, <1>7, <1>8 DEF n, last, IsLookup
<1> QED  BY <1>4, <1>9

\* The same of calls', with the operations.
LEMMA CallsPushed ==
    ASSUME STypeOK, NEW s \in Nat, NEW b \in Block, calls' = begin_predecessors_lookup(s, b, calls)
    PROVE  LET n == Len(predecessors[b])
           IN  /\ calls' \in Seq(Call)
               /\ n \in Nat /\ Len(calls) \in Nat /\ Len(calls') = n + 1 + Len(calls)
               /\ \A i \in 1 .. n : ~IsFinish(calls'[i])
               /\ IsFinish(calls'[n + 1]) /\ calls'[n + 1].block = b /\ calls'[n + 1].sentinel = s
               /\ \A i \in (n + 2) .. Len(calls') :
                     /\ i - (n + 1) \in 1 .. Len(calls)
                     /\ calls'[i] = calls[i - (n + 1)]
                     /\ IsFinish(calls'[i]) <=> IsFinish(calls[i - (n + 1)])
<1> DEFINE n == Len(predecessors[b])
<1>0. calls \in Seq(Call)
  BY DEF STypeOK
<1>1. n \in Nat /\ Len(calls) \in Nat
  BY SMTT(60) DEF STypeOK
<1>2. /\ calls' \in Seq(Call)
      /\ Len(calls') = n + 1 + Len(calls)
      /\ \A i \in 1 .. n : calls'[i] = [op |-> "use", block |-> predecessors[b][i]]
      /\ calls'[n + 1] = [op |-> "finish", sentinel |-> s, block |-> b]
      /\ \A i \in 1 .. Len(calls) : calls'[n + 1 + i] = calls[i]
  <2>1. IsLookup(calls', s, b, calls)
    BY <1>0, LookupCalls
  <2> QED  BY <2>1 DEF IsLookup, n
<1> HIDE DEF n
<1>3. ASSUME NEW i \in 1 .. n PROVE ~IsFinish(calls'[i])
  <2>1. calls'[i] = [op |-> "use", block |-> predecessors[b][i]]
    BY <1>2
  <2>2. calls'[i].op = "use"
    BY <2>1
  <2> QED  BY <2>2 DEF IsFinish
<1>4. IsFinish(calls'[n + 1]) /\ calls'[n + 1].block = b /\ calls'[n + 1].sentinel = s
  BY <1>2 DEF IsFinish
<1>5. ASSUME NEW i \in (n + 2) .. Len(calls')
      PROVE  /\ i - (n + 1) \in 1 .. Len(calls)
             /\ calls'[i] = calls[i - (n + 1)]
             /\ IsFinish(calls'[i]) <=> IsFinish(calls[i - (n + 1)])
  <2> DEFINE j == i - (n + 1)
  <2>1. j \in 1 .. Len(calls) /\ n + 1 + j = i
    <3>1. Len(calls') = n + 1 + Len(calls)
      BY <1>2
    <3>2. i \in Int /\ n + 2 <= i /\ i <= n + 1 + Len(calls)
      BY <1>1, <3>1
    <3> QED  BY <1>1, <3>2
  <2> HIDE DEF j
  <2>2. calls'[i] = calls[j]
    BY <1>2, <2>1
  <2>3. IsFinish(calls'[i]) <=> IsFinish(calls[j])
    BY <2>2 DEF IsFinish
  <2> QED  BY <2>1, <2>2, <2>3 DEF j
<1> QED  BY <1>1, <1>2, <1>3, <1>4, <1>5 DEF n

\* Parameter s of block b waits rightly after a step.
WaitsRightly(s, b) ==
    /\ b \in sealed'
    /\ variables'[look'.var][b] # None
    /\ \E k \in 1 .. Len(block_params'[b]) : block_params'[b][k] = s

\* A step pushes a lookup.
Pushes(s, b) ==
    /\ calls' = begin_predecessors_lookup(s, b, calls)
    /\ WaitsRightly(s, b)
    /\ \A i \in 1 .. Len(calls) : IsFinish(calls[i]) =>
          calls[i].block # b /\ WaitsRightly(calls[i].sentinel, calls[i].block)

\* A lookup is pushed on top of others: it is the one that waits for b.
LEMMA PushKeepsCalls ==
    ASSUME STypeOK, CallsOK, NEW s \in Nat, NEW b \in Block, Pushes(s, b)
    PROVE  /\ CallsOK'
           /\ Waiting(b) = 0 /\ Waiting(b)' = 1
           /\ \A c \in Block : c # b => Waiting(c)' = Waiting(c)
<1> DEFINE n == Len(predecessors[b])
<1>1. /\ calls' \in Seq(Call)
      /\ n \in Nat /\ Len(calls) \in Nat /\ Len(calls') = n + 1 + Len(calls)
      /\ \A i \in 1 .. n : ~IsFinish(calls'[i])
      /\ IsFinish(calls'[n + 1]) /\ calls'[n + 1].block = b /\ calls'[n + 1].sentinel = s
      /\ \A i \in (n + 2) .. Len(calls') :
            /\ i - (n + 1) \in 1 .. Len(calls)
            /\ calls'[i] = calls[i - (n + 1)]
            /\ IsFinish(calls'[i]) <=> IsFinish(calls[i - (n + 1)])
  BY CallsPushed DEF Pushes
<1> HIDE DEF n
<1>2. ASSUME NEW i \in 1 .. Len(calls'), IsFinish(calls'[i])
      PROVE  \/ i = n + 1
             \/ /\ i \in (n + 2) .. Len(calls')
                /\ i - (n + 1) \in 1 .. Len(calls) /\ IsFinish(calls[i - (n + 1)])
                /\ calls'[i] = calls[i - (n + 1)]
  <2>1. i \in 1 .. n \/ i = n + 1 \/ i \in (n + 2) .. Len(calls')
    BY <1>1
  <2> QED  BY <1>1, <1>2, <2>1
<1>3. ASSUME NEW i \in 1 .. Len(calls'), IsFinish(calls'[i])
      PROVE  /\ calls'[i].block \in sealed'
             /\ variables'[look'.var][calls'[i].block] # None
             /\ \E k \in 1 .. Len(block_params'[calls'[i].block]) :
                   block_params'[calls'[i].block][k] = calls'[i].sentinel
  <2>1. CASE i = n + 1
    BY <1>1, <2>1 DEF Pushes, WaitsRightly
  <2>2. CASE i # n + 1
    <3> DEFINE j == i - (n + 1)
    <3>1. j \in 1 .. Len(calls) /\ IsFinish(calls[j]) /\ calls'[i] = calls[j]
      BY <1>2, <1>3, <2>2
    <3> HIDE DEF j
    <3> QED  BY <3>1 DEF Pushes, WaitsRightly
  <2> QED  BY <2>1, <2>2
<1>4. ASSUME NEW i \in 1 .. Len(calls'), NEW j \in 1 .. Len(calls'), IsFinish(calls'[i]), IsFinish(calls'[j]),
             calls'[i].block = calls'[j].block
      PROVE  i = j
  <2> DEFINE k == i - (n + 1)
             l == j - (n + 1)
  <2>1. i = n + 1 \/ (k \in 1 .. Len(calls) /\ IsFinish(calls[k]) /\ calls'[i] = calls[k])
    BY <1>2, <1>4
  <2>2. j = n + 1 \/ (l \in 1 .. Len(calls) /\ IsFinish(calls[l]) /\ calls'[j] = calls[l])
    BY <1>2, <1>4
  <2>3. i \in Int /\ j \in Int /\ (k = l => i = j)
    BY <1>1
  <2> HIDE DEF k, l
  <2>4. i = n + 1 => j = n + 1
    BY <1>1, <1>4, <2>2 DEF Pushes
  <2>5. j = n + 1 => i = n + 1
    BY <1>1, <1>4, <2>1 DEF Pushes
  <2> QED  BY <1>4, <2>1, <2>2, <2>3, <2>4, <2>5 DEF CallsOK
<1>5. Waiting(b) = 0
  BY DEF Waiting, Pushes
<1>6. Waiting(b)' = 1
  <2>1. n + 1 \in 1 .. Len(calls')
    BY <1>1
  <2> QED  BY <1>1, <2>1 DEF Waiting
<1>7. ASSUME NEW c \in Block, c # b PROVE Waiting(c)' = Waiting(c)
  <2>1. ASSUME NEW i \in 1 .. Len(calls'), IsFinish(calls'[i]), calls'[i].block = c
        PROVE  \E j \in 1 .. Len(calls) : IsFinish(calls[j]) /\ calls[j].block = c
    <3> DEFINE j == i - (n + 1)
    <3>1. j \in 1 .. Len(calls) /\ IsFinish(calls[j]) /\ calls'[i] = calls[j]
      BY <1>1, <1>2, <1>7, <2>1
    <3> HIDE DEF j
    <3> QED  BY <2>1, <3>1
  <2>2. ASSUME NEW j \in 1 .. Len(calls), IsFinish(calls[j]), calls[j].block = c
        PROVE  \E i \in 1 .. Len(calls') : IsFinish(calls'[i]) /\ calls'[i].block = c
    <3> DEFINE i == n + 1 + j
    <3>1. /\ i \in (n + 2) .. Len(calls') /\ i \in 1 .. Len(calls')
          /\ i - (n + 1) = j
      <4>1. Len(calls') = n + 1 + Len(calls) /\ n \in Nat /\ Len(calls) \in Nat /\ j \in Nat
        BY <1>1
      <4> QED  BY <4>1
    <3> HIDE DEF i
    <3>2. IsFinish(calls'[i]) /\ calls'[i] = calls[j]
      <4>1. calls'[i] = calls[i - (n + 1)]
        BY <1>1, <3>1
      <4> QED  BY <2>2, <3>1, <4>1
    <3> QED  BY <2>2, <3>1, <3>2
  <2> QED  BY <2>1, <2>2 DEF Waiting
<1> QED  BY <1>3, <1>4, <1>5, <1>6, <1>7 DEF CallsOK

\* The elements of the rest of a sequence.
LEMMA TailFacts ==
    ASSUME NEW cs \in Seq(Call), cs # <<>>
    PROVE  /\ Tail(cs) \in Seq(Call) /\ Len(cs) \in Nat \ {0} /\ Len(Tail(cs)) = Len(cs) - 1
           /\ \A i \in 1 .. (Len(cs) - 1) : Tail(cs)[i] = cs[i + 1]
           /\ Head(cs) = cs[1] /\ cs[1] \in Call
OBVIOUS

\* The uses of a lookup make the values its finish takes away.
LEMMA PushHeights ==
    ASSUME STypeOK, NEW s \in Nat, NEW b \in Block, calls' = begin_predecessors_lookup(s, b, calls),
           NEW h, NEW m \in Nat, Heights(h, calls, predecessors, m + 1)
    PROVE  \E g : Heights(g, calls', predecessors, m)
<1> DEFINE n == Len(predecessors[b])
           l == Len(calls)
           g == [i \in 1 .. (n + 1 + l + 1) |-> IF i <= n + 1 THEN m + i - 1 ELSE h[i - (n + 1)]]
<1>1. /\ n \in Nat /\ l \in Nat /\ Len(calls') = n + 1 + l
      /\ \A i \in 1 .. n : ~IsFinish(calls'[i])
      /\ IsFinish(calls'[n + 1]) /\ calls'[n + 1].block = b
      /\ \A i \in (n + 2) .. Len(calls') :
            /\ i - (n + 1) \in 1 .. l
            /\ calls'[i] = calls[i - (n + 1)]
  BY CallsPushed
<1> HIDE DEF n, l
<1>2. /\ h \in [1 .. (l + 1) -> Nat] /\ h[1] = m + 1 /\ h[l + 1] = 1
      /\ \A i \in 1 .. l :
            IF IsFinish(calls[i])
            THEN /\ h[i] >= Len(predecessors[calls[i].block])
                 /\ h[i + 1] = h[i] - Len(predecessors[calls[i].block]) + 1
            ELSE h[i + 1] = h[i] + 1
  BY DEF Heights, l
<1>3. g \in [1 .. (n + 1 + l + 1) -> Nat]
  <2>1. ASSUME NEW i \in 1 .. (n + 1 + l + 1)
        PROVE  (IF i <= n + 1 THEN m + i - 1 ELSE h[i - (n + 1)]) \in Nat
    <3>1. CASE i <= n + 1
      BY <3>1
    <3>2. CASE ~(i <= n + 1)
      <4>1. i - (n + 1) \in 1 .. (l + 1)
        BY <1>1, <3>2
      <4> QED  BY <1>2, <3>2, <4>1
    <3> QED  BY <3>1, <3>2
  <2> QED  BY <2>1
<1>4. \A i \in 1 .. (n + 1) : g[i] = m + i - 1
  BY <1>1
<1>5. ASSUME NEW i \in 1 .. (l + 1) PROVE g[n + 1 + i] = h[i]
  <2> DEFINE j == n + 1 + i
  <2>1. j \in 1 .. (n + 1 + l + 1) /\ ~(j <= n + 1) /\ j - (n + 1) = i
    BY <1>1
  <2> HIDE DEF j
  <2>2. g[j] = h[i]
    BY <2>1
  <2> QED  BY <2>2 DEF j
<1> HIDE DEF g
<1>6. g[1] = m
  <2>1. 1 \in 1 .. (n + 1)
    BY <1>1
  <2> QED  BY <1>4, <2>1
<1>7. g[Len(calls') + 1] = 1
  <2>1. l + 1 \in 1 .. (l + 1) /\ n + 1 + (l + 1) = Len(calls') + 1
    BY <1>1
  <2> QED  BY <1>2, <1>5, <2>1
<1>8. ASSUME NEW i \in 1 .. Len(calls')
      PROVE  IF IsFinish(calls'[i])
             THEN /\ g[i] >= Len(predecessors[calls'[i].block])
                  /\ g[i + 1] = g[i] - Len(predecessors[calls'[i].block]) + 1
             ELSE g[i + 1] = g[i] + 1
  <2>1. CASE i \in 1 .. n
    <3>1. i \in 1 .. (n + 1) /\ i + 1 \in 1 .. (n + 1)
      BY <1>1, <2>1
    <3>2. g[i] = m + i - 1 /\ g[i + 1] = m + (i + 1) - 1
      BY <1>4, <3>1
    <3>3. g[i + 1] = g[i] + 1
      BY <3>1, <3>2
    <3>4. ~IsFinish(calls'[i])
      BY <1>1, <2>1
    <3> QED  BY <3>3, <3>4
  <2>2. CASE i = n + 1
    <3>1. n + 1 \in 1 .. (n + 1) /\ 1 \in 1 .. (l + 1)
      BY <1>1
    <3>2. g[n + 1] = m + (n + 1) - 1
      BY <1>4, <3>1
    <3>3. g[n + 1 + 1] = m + 1
      BY <1>2, <1>5, <3>1
    <3>4. g[i] = m + n /\ g[i + 1] = m + n - n + 1
      BY <1>1, <2>2, <3>2, <3>3
    <3>5. m + n >= n
      BY <1>1
    <3>6. IsFinish(calls'[i]) /\ Len(predecessors[calls'[i].block]) = n
      BY <1>1, <2>2 DEF n
    <3> QED  BY <3>4, <3>5, <3>6
  <2>3. CASE i \in (n + 2) .. Len(calls')
    <3> DEFINE j == i - (n + 1)
    <3>1. j \in 1 .. l /\ j + 1 \in 1 .. (l + 1) /\ j \in 1 .. (l + 1)
          /\ n + 1 + j = i /\ n + 1 + (j + 1) = i + 1
      BY <1>1, <2>3
    <3>2. calls'[i] = calls[j]
      BY <1>1, <2>3
    <3> HIDE DEF j
    <3>3. g[i] = h[j] /\ g[i + 1] = h[j + 1]
      BY <1>5, <3>1
    <3> QED  BY <1>2, <3>1, <3>2, <3>3
  <2>4. i \in 1 .. n \/ i = n + 1 \/ i \in (n + 2) .. Len(calls')
    BY <1>1
  <2> QED  BY <2>1, <2>2, <2>3, <2>4
<1>9. g \in [1 .. (Len(calls') + 1) -> Nat]
  BY <1>1, <1>3
<1>10. Heights(g, calls', predecessors, m)
  BY <1>6, <1>7, <1>8, <1>9 DEF Heights
<1> QED  BY <1>10

\* What a call does to the height, and that a finish finds its values.
After(c, n) == IF IsFinish(c) THEN n - Len(predecessors[c.block]) + 1 ELSE n + 1

LEMMA PopHeights ==
    ASSUME STypeOK, calls # <<>>, NEW h, NEW n, Heights(h, calls, predecessors, n)
    PROVE  /\ IsFinish(Head(calls)) => n >= Len(predecessors[Head(calls).block])
           /\ \E g : Heights(g, Tail(calls), predecessors, After(Head(calls), n))
<1> DEFINE l == Len(calls)
           rest == Tail(calls)
           g == [i \in 1 .. l |-> h[i + 1]]
<1>1. /\ l \in Nat \ {0} /\ Len(rest) = l - 1 /\ Head(calls) = calls[1]
      /\ \A i \in 1 .. (l - 1) : rest[i] = calls[i + 1]
  <2>1. calls \in Seq(Call)
    BY DEF STypeOK
  <2> QED  BY <2>1, TailFacts
<1>2. /\ h \in [1 .. (l + 1) -> Nat] /\ h[1] = n /\ h[l + 1] = 1
      /\ \A i \in 1 .. l :
            IF IsFinish(calls[i])
            THEN /\ h[i] >= Len(predecessors[calls[i].block])
                 /\ h[i + 1] = h[i] - Len(predecessors[calls[i].block]) + 1
            ELSE h[i + 1] = h[i] + 1
  BY DEF Heights
<1> HIDE DEF l, rest
<1>3. 1 \in 1 .. l /\ l \in 1 .. l /\ Len(rest) + 1 = l
  BY <1>1
<1>4. IsFinish(Head(calls)) => n >= Len(predecessors[Head(calls).block])
  BY <1>1, <1>2, <1>3
<1>5. g \in [1 .. l -> Nat] /\ g[l] = 1
  <2>1. \A i \in 1 .. l : i + 1 \in 1 .. (l + 1)
    BY <1>1
  <2> QED  BY <1>2, <1>3, <2>1
<1>6. g[1] = After(Head(calls), n)
  <2>1. g[1] = h[1 + 1]
    BY <1>3
  <2> QED  BY <1>1, <1>2, <1>3, <2>1 DEF After
<1>7. ASSUME NEW i \in 1 .. Len(rest)
      PROVE  IF IsFinish(rest[i])
             THEN /\ g[i] >= Len(predecessors[rest[i].block])
                  /\ g[i + 1] = g[i] - Len(predecessors[rest[i].block]) + 1
             ELSE g[i + 1] = g[i] + 1
  <2> DEFINE j == i + 1
  <2>1. i \in 1 .. l /\ j \in 1 .. l /\ rest[i] = calls[j]
    BY <1>1
  <2>2. g[i] = h[j]
    BY <2>1
  <2> HIDE DEF j
  <2>3. g[j] = h[j + 1]
    BY <2>1
  <2> HIDE DEF g
  <2> QED  BY <1>2, <2>1, <2>2, <2>3 DEF j
<1> HIDE DEF g
<1>8. Heights(g, rest, predecessors, After(Head(calls), n))
  BY <1>3, <1>5, <1>6, <1>7 DEF Heights
<1> QED  BY <1>4, <1>8 DEF rest

\* A call is popped: the others go on waiting.
LEMMA PopKeepsCalls ==
    ASSUME STypeOK, CallsOK, calls # <<>>, calls' = Tail(calls),
           \A i \in 2 .. Len(calls) : IsFinish(calls[i]) =>
              WaitsRightly(calls[i].sentinel, calls[i].block)
    PROVE  /\ CallsOK' /\ calls' \in Seq(Call)
           /\ \A c \in Block : Waiting(c)' =
                 IF IsFinish(Head(calls)) /\ Head(calls).block = c THEN 0 ELSE Waiting(c)
           /\ IsFinish(Head(calls)) => Waiting(Head(calls).block) = 1
<1>1. /\ calls' \in Seq(Call) /\ Len(calls) \in Nat \ {0} /\ Len(calls') = Len(calls) - 1
      /\ \A i \in 1 .. (Len(calls) - 1) : calls'[i] = calls[i + 1]
      /\ Head(calls) = calls[1] /\ calls[1] \in Call
  <2>1. calls \in Seq(Call)
    BY DEF STypeOK
  <2> QED  BY <2>1, TailFacts
<1>2. \A i \in 1 .. Len(calls') : i + 1 \in 2 .. Len(calls) /\ i + 1 \in 1 .. Len(calls) /\ calls'[i] = calls[i + 1]
  BY <1>1
<1>3. ASSUME NEW i \in 1 .. Len(calls'), IsFinish(calls'[i])
      PROVE  /\ calls'[i].block \in sealed'
             /\ variables'[look'.var][calls'[i].block] # None
             /\ \E k \in 1 .. Len(block_params'[calls'[i].block]) :
                   block_params'[calls'[i].block][k] = calls'[i].sentinel
  <2> DEFINE j == i + 1
  <2>1. j \in 2 .. Len(calls) /\ calls'[i] = calls[j]
    BY <1>2
  <2> HIDE DEF j
  <2> QED  BY <1>3, <2>1 DEF WaitsRightly
<1>4. ASSUME NEW i \in 1 .. Len(calls'), NEW j \in 1 .. Len(calls'), IsFinish(calls'[i]), IsFinish(calls'[j]),
             calls'[i].block = calls'[j].block
      PROVE  i = j
  <2>1. i + 1 = j + 1
    BY <1>2, <1>4 DEF CallsOK
  <2> QED  BY <1>1, <2>1
<1>5. ASSUME NEW c \in Block
      PROVE  Waiting(c)' = IF IsFinish(Head(calls)) /\ Head(calls).block = c THEN 0 ELSE Waiting(c)
  <2>1. CASE IsFinish(Head(calls)) /\ Head(calls).block = c
    <3>1. ASSUME NEW i \in 1 .. Len(calls'), IsFinish(calls'[i]), calls'[i].block = c
          PROVE  FALSE
      <4>1. 1 \in 1 .. Len(calls) /\ i + 1 # 1
        BY <1>1
      <4> QED  BY <1>1, <1>2, <2>1, <3>1, <4>1 DEF CallsOK
    <3> QED  BY <2>1, <3>1 DEF Waiting
  <2>2. CASE ~(IsFinish(Head(calls)) /\ Head(calls).block = c)
    <3>1. ASSUME NEW i \in 1 .. Len(calls), IsFinish(calls[i]), calls[i].block = c
          PROVE  \E j \in 1 .. Len(calls') : IsFinish(calls'[j]) /\ calls'[j].block = c
      <4>1. i # 1
        BY <1>1, <2>2, <3>1
      <4> DEFINE j == i - 1
      <4>2. j \in 1 .. Len(calls') /\ j + 1 = i
        BY <1>1, <4>1
      <4> HIDE DEF j
      <4> QED  BY <1>2, <3>1, <4>2
    <3>2. ASSUME NEW j \in 1 .. Len(calls'), IsFinish(calls'[j]), calls'[j].block = c
          PROVE  \E i \in 1 .. Len(calls) : IsFinish(calls[i]) /\ calls[i].block = c
      BY <1>2, <3>2
    <3> QED  BY <2>2, <3>1, <3>2 DEF Waiting
  <2> QED  BY <2>1, <2>2
<1>6. IsFinish(Head(calls)) => Waiting(Head(calls).block) = 1
  <2>1. 1 \in 1 .. Len(calls)
    BY <1>1
  <2> QED  BY <1>1, <2>1 DEF Waiting
<1> QED  BY <1>1, <1>3, <1>4, <1>5, <1>6 DEF CallsOK

(***************************************************************************)
(* What a step leaves alone stays as it was.                               *)
(***************************************************************************)

LEMMA ValuesFrame ==
    ASSUME ValuesExist, UNCHANGED <<body, variables, results, alias>>
    PROVE  ValuesExist'
BY DEF ValuesExist, Value

LEMMA ParamsFrame ==
    ASSUME ParamsOK, UNCHANGED <<block_params, alias>>
    PROVE  ParamsOK'
BY DEF ParamsOK, Value

\* A definition of a variable never goes away.
DefinitionsStay ==
    \A x \in Variable, b \in Block : variables[x][b] # None => variables'[x][b] # None

LEMMA SealFrame ==
    ASSUME STypeOK, STypeOK', SealOK, UNCHANGED <<seal, sealed, undef_variables>>, DefinitionsStay,
           pc' \in {"idle", "run"} => seal.todo = {},
           pc' = "seal" => seal.todo # {},
           pc' \in {"find_var", "copy", "machine"} => seal.todo = {} \/ seal.open
    PROVE  SealOK'
<1>1. sealing' = sealing
  BY SealingKept
<1>2. \A b \in Block : undef_variables[b] \in Seq(Variable)
  BY DEF STypeOK
<1>3. ASSUME NEW b \in Block, NEW i \in 1 .. Len(undef_variables[b])
      PROVE  variables'[undef_variables[b][i]][b] # None
  <2>1. undef_variables[b][i] \in Variable
    BY <1>2
  <2>2. variables[undef_variables[b][i]][b] # None
    BY DEF SealOK
  <2> QED  BY <2>1, <2>2 DEF DefinitionsStay
<1>4. pc' \in {"idle", "run", "seal"} \/ pc' \in {"find_var", "copy", "machine"}
  BY DEF STypeOK
<1> QED  BY <1>1, <1>3, <1>4 DEF SealOK

LEMMA PredecessorsFrame ==
    ASSUME PredecessorsOK, UNCHANGED <<status, graph, predecessors, sealed, seal, args>>
    PROVE  PredecessorsOK'
BY DEF PredecessorsOK, leads_to

\* The same if the status of blocks changes but none becomes filled.
LEMMA FilledFrame ==
    ASSUME PredecessorsOK, UNCHANGED <<graph, predecessors, sealed, seal, args>>,
           \A q \in Block : status'[q] = "filled" <=> status[q] = "filled"
    PROVE  PredecessorsOK'
<1>1. \A q, b \in Block : leads_to(q, b)' <=> leads_to(q, b)
  BY DEF leads_to
<1>2. \A b, q \in Block : status'[q] = "filled" /\ leads_to(q, b)' =>
          \E j \in 1 .. Len(predecessors'[b]) : predecessors'[b][j] = q
  BY <1>1 DEF PredecessorsOK
<1>3. \A b \in sealed' \cup seal'.todo, q \in Block : leads_to(q, b)' => status'[q] = "filled"
  <2>1. \A b \in sealed \cup seal.todo, q \in Block : leads_to(q, b)' <=> leads_to(q, b)
    BY DEF leads_to
  <2> QED  BY <2>1 DEF PredecessorsOK
<1>4. \A q \in Block : Len(args'[q]) = IF status'[q] = "filled" THEN Len(graph'[q]) ELSE 0
  BY DEF PredecessorsOK
<1> QED  BY <1>2, <1>3, <1>4 DEF PredecessorsOK

\* Branches lead to blocks.
LEMMA DestinationIsBlock ==
    ASSUME STypeOK, PredecessorsOK, NEW q \in Block, NEW i \in 1 .. Len(args[q])
    PROVE  graph[q][i] \in Block
<1>1. graph[q] \in Seq(Block) /\ args[q] \in Seq(Seq(Nat))
  BY DEF STypeOK
<1>2. i \in 1 .. Len(graph[q])
  BY SMTT(60), <1>1 DEF PredecessorsOK
<1> QED  BY <1>1, <1>2

LEMMA ArityKept ==
    ASSUME STypeOK, PredecessorsOK, ArityOK, UNCHANGED <<graph, sealed, args>>,
           \A b \in Block : Arity(b)' = Arity(b)
    PROVE  ArityOK'
<1>1. \A q \in Block : \A i \in 1 .. Len(args[q]) : graph[q][i] \in Block
  BY DestinationIsBlock
<1> QED  BY <1>1 DEF ArityOK

LEMMA CountsAreNumbers ==
    ASSUME STypeOK, NEW b \in Block
    PROVE  /\ Len(block_params[b]) \in Nat /\ Len(undef_variables[b]) \in Nat /\ seal.idx \in Nat
           /\ Waiting(b) \in 0 .. 1 /\ Unsettled(b) \in Int
<1>1. Len(block_params[b]) \in Nat /\ Len(undef_variables[b]) \in Nat /\ seal.idx \in Nat
  BY SMTT(60) DEF STypeOK
<1> QED  BY <1>1 DEF Waiting, Unsettled

\* A step adds k parameters to b, and w and u to those that do not count.
Counted(b, k, w, u) ==
    /\ k \in Int /\ w \in Int /\ u \in Int
    /\ Waiting(b)' = Waiting(b) + w
    /\ Unsettled(b)' = Unsettled(b) + u
    /\ Len(block_params'[b]) = Len(block_params[b]) + k

LEMMA ArityBalance ==
    ASSUME STypeOK, NEW b \in Block, NEW k, NEW w, NEW u, Counted(b, k, w, u)
    PROVE  Arity(b) \in Int /\ Arity(b)' = Arity(b) + (k - w - u)
<1>1. /\ Arity(b) = Len(block_params[b]) - Waiting(b) - Unsettled(b)
      /\ Arity(b)' = Len(block_params'[b]) - Waiting(b)' - Unsettled(b)'
  BY DEF Arity
<1>2. Len(block_params[b]) \in Int /\ Waiting(b) \in Int /\ Unsettled(b) \in Int
  BY CountsAreNumbers
<1>3. k \in Int /\ w \in Int /\ u \in Int
  BY DEF Counted
<1>4. Arity(b)' = (Len(block_params[b]) + k) - (Waiting(b) + w) - (Unsettled(b) + u)
  BY <1>1 DEF Counted
<1> QED  BY SMTT(60), <1>1, <1>2, <1>3, <1>4

LEMMA ArityFrame ==
    ASSUME ArityOK, UNCHANGED <<block_params, calls, undef_variables, seal, sealed, args, graph>>
    PROVE  ArityOK'
<1>1. sealing' = sealing
  BY SealingKept
<1>2. ASSUME NEW b PROVE Arity(b)' = Arity(b)
  BY <1>1 DEF Arity, Waiting, Unsettled
<1> QED  BY <1>2 DEF ArityOK

\* Parameters are added at most.
ParamsStay ==
    \A b \in Block : \A i \in 1 .. Len(block_params[b]) :
        i \in 1 .. Len(block_params'[b]) /\ block_params'[b][i] = block_params[b][i]

LEMMA CallsStay ==
    ASSUME STypeOK, CallsOK, UNCHANGED sealed, ParamsStay, DefinitionsStay,
           look'.var = look.var, look.var \in Variable, NEW i \in 1 .. Len(calls), IsFinish(calls[i])
    PROVE  WaitsRightly(calls[i].sentinel, calls[i].block)
<1> DEFINE c == calls[i].block
<1>1. c \in Block
  <2>1. calls[i] \in Call
    BY DEF STypeOK
  <2> QED  BY <2>1 DEF Call
<1>2. c \in sealed /\ variables[look.var][c] # None
  BY DEF CallsOK
<1>3. PICK k \in 1 .. Len(block_params[c]) : block_params[c][k] = calls[i].sentinel
  BY DEF CallsOK
<1> HIDE DEF c
<1>4. c \in sealed' /\ variables'[look'.var][c] # None
  BY <1>1, <1>2 DEF DefinitionsStay
<1>5. k \in 1 .. Len(block_params'[c]) /\ block_params'[c][k] = calls[i].sentinel
  BY <1>1, <1>3 DEF ParamsStay
<1> QED  BY <1>4, <1>5 DEF c, WaitsRightly

LEMMA CallsFrame ==
    ASSUME STypeOK, CallsOK, UNCHANGED <<calls, sealed>>, ParamsStay, DefinitionsStay,
           look'.var = look.var, look.var \in Variable
    PROVE  CallsOK'
<1>1. \A i \in 1 .. Len(calls) : IsFinish(calls[i]) => WaitsRightly(calls[i].sentinel, calls[i].block)
  BY CallsStay
<1> QED  BY <1>1 DEF CallsOK, WaitsRightly

LEMMA NoCalls == ASSUME calls' = <<>> PROVE CallsOK' /\ \A b : Waiting(b)' = 0
<1>1. Len(calls') = 0
  OBVIOUS
<1>2. 1 .. Len(calls') = {}
  BY <1>1
<1> QED  BY <1>2 DEF CallsOK, Waiting

LEMMA NobodyWaits == ASSUME calls = <<>>, NEW b PROVE Waiting(b) = 0
<1>1. Len(calls) = 0
  OBVIOUS
<1>2. 1 .. Len(calls) = {}
  BY <1>1
<1> QED  BY <1>2 DEF Waiting

LEMMA StackMapFrame ==
    ASSUME StackMapped, UNCHANGED <<alias, zeros>>, stack_map_values \subseteq stack_map_values'
    PROVE  StackMapped'
BY DEF StackMapped, Value

\* One call is left to deliver a value.
LEMMA OneHeight ==
    ASSUME STypeOK, calls = <<>>
    PROVE  \E h : Heights(h, calls, predecessors, 1)
<1> DEFINE h == [i \in 1 .. (Len(calls) + 1) |-> 1]
<1>1. Len(calls) = 0
  OBVIOUS
<1>2. h \in [1 .. (Len(calls) + 1) -> Nat] /\ h[1] = 1 /\ h[Len(calls) + 1] = 1
  BY <1>1
<1>3. 1 .. Len(calls) = {}
  BY <1>1
<1> HIDE DEF h
<1>4. Heights(h, calls, predecessors, 1)
  BY <1>2, <1>3 DEF Heights
<1> QED  BY <1>4

(***************************************************************************)
(* Lookups.                                                                *)
(***************************************************************************)

LEMMA FindStepKeeps == ASSUME SInv, FindStep PROVE SInv'
<1>1. /\ STypeOK /\ LookOK /\ ValuesExist /\ ParamsOK /\ SealOK
      /\ PredecessorsOK /\ CallsOK /\ ArityOK /\ StacksOK
      /\ Acyclic(alias) /\ StackMapped
  BY DEF SInv
<1>2. /\ pc = "find_var"
      /\ UNCHANGED <<graph, position, status, body, variables, sealed, undef_variables,
                     predecessors, single_predecessor, calls, stack_map_values,
                     block_params, args, alias, zeros, seal>>
  BY DEF FindStep, clientVars, sealVars, funcVars
<1>3. look.var \in Variable /\ look.block \in Block /\ look.start \in Block /\ look \in Lookup
  BY <1>1, <1>2 DEF LookOK, STypeOK
<1>4. PICK pred \in single_predecessor[look.block] :
        IF variables[look.var][pred] # None
        THEN /\ results' = to_stack(variables[look.var][pred])
             /\ found(variables[look.var][pred], pred)
        ELSE /\ look' = [look EXCEPT !.block = pred, !.visited = @ \cup {look.block}]
             /\ UNCHANGED <<results, pc>>
  BY DEF FindStep
<1>5. pred \in Block /\ pred \in Nat /\ look.block \in Nat
  <2>1. single_predecessor[look.block] \subseteq Block
    BY <1>1, <1>3 DEF STypeOK
  <2> QED  BY <1>3, <2>1, NumbersOfBlocks
<1> DEFINE v == variables[look.var][pred]
<1>6. v \in Value \cup {None} /\ v \in Nat
  <2>1. v \in Value \cup {None}
    BY <1>1, <1>3, <1>5 DEF ValuesExist
  <2> QED  BY <2>1 DEF Value, None
<1> HIDE DEF v
<1>7. CASE v # None
  <2>1. results' = Append(results, v) /\ pc' \in {"machine", "copy"}
        /\ look' = [look EXCEPT !.val = v, !.from = pred, !.block = look.start]
    BY <1>4, <1>7 DEF v, to_stack, found
  <2>2. look' \in Lookup /\ look'.var = look.var /\ look'.block = look.start
        /\ look'.start = look.start /\ look'.val = v
    BY <1>3, <1>5, <1>6, <2>1 DEF Lookup, Block
  <2>3. results \in Seq(Nat) /\ results' \in Seq(Nat) /\ Len(results') = Len(results) + 1
        /\ \A i \in 1 .. Len(results') : results'[i] = IF i <= Len(results) THEN results[i] ELSE v
    <3>1. results \in Seq(Nat)
      BY <1>1 DEF STypeOK
    <3> QED  BY <1>6, <2>1, <3>1
  <2>4. STypeOK'
    BY <1>1, <1>2, <2>1, <2>2, <2>3 DEF STypeOK
  <2>5. LookOK'
    BY <1>2, <1>3, <1>6, <1>7, <2>1, <2>2 DEF LookOK, Value
  <2>6. ValuesExist'
    <3>1. ASSUME NEW i \in 1 .. Len(results') PROVE results'[i] \in Value
      <4>1. CASE i <= Len(results)
        <5>1. i \in 1 .. Len(results)
          BY <2>3, <4>1
        <5> QED  BY <1>1, <2>3, <4>1, <5>1 DEF ValuesExist
      <4>2. CASE ~(i <= Len(results))
        BY <1>6, <1>7, <2>3, <4>2
      <4> QED  BY <4>1, <4>2
    <3> QED  BY <1>1, <1>2, <3>1 DEF ValuesExist, Value
  <2>7. StacksOK'
    <3>1. Height' = Height
      BY <1>2, <2>1, <2>3 DEF Height
    <3> QED  BY <1>1, <1>2, <2>1, <3>1 DEF StacksOK
  <2>8. DefinitionsStay /\ ParamsStay
    BY <1>2 DEF DefinitionsStay, ParamsStay
  <2>9. SealOK'
    <3>1. seal.todo = {} \/ seal.open
      BY <1>1, <1>2 DEF SealOK
    <3> QED  BY <1>1, <1>2, <2>1, <2>4, <2>8, <3>1, SealFrame
  <2> QED  BY <1>1, <1>2, <1>3, <2>2, <2>4, <2>5, <2>6, <2>7, <2>8, <2>9, ParamsFrame, PredecessorsFrame,
              CallsFrame, ArityFrame, StackMapFrame DEF SInv
<1>8. CASE v = None
  <2>1. look' = [look EXCEPT !.block = pred, !.visited = @ \cup {look.block}]
        /\ UNCHANGED <<results, pc>>
    BY <1>4, <1>8 DEF v
  <2>2. look' \in Lookup /\ look'.var = look.var /\ look'.block = pred /\ look'.start = look.start
    BY <1>3, <1>5, <2>1 DEF Lookup
  <2>3. STypeOK'
    BY <1>1, <1>2, <2>1, <2>2 DEF STypeOK
  <2>4. LookOK'
    BY <1>2, <1>3, <1>5, <1>8, <2>1, <2>2 DEF LookOK, v
  <2>5. StacksOK'
    BY <1>1, <1>2, <2>1 DEF StacksOK, Height
  <2>6. DefinitionsStay /\ ParamsStay
    BY <1>2 DEF DefinitionsStay, ParamsStay
  <2>7. SealOK'
    <3>1. seal.todo = {} \/ seal.open
      BY <1>1, <1>2 DEF SealOK
    <3> QED  BY <1>1, <1>2, <2>1, <2>3, <2>6, <3>1, SealFrame
  <2> QED  BY <1>1, <1>2, <1>3, <2>1, <2>2, <2>3, <2>4, <2>5, <2>6, <2>7, ValuesFrame, ParamsFrame,
              PredecessorsFrame, CallsFrame, ArityFrame, StackMapFrame DEF SInv
<1> QED  BY <1>7, <1>8

LEMMA CopyStepKeeps == ASSUME SInv, CopyStep PROVE SInv'
<1>1. /\ STypeOK /\ LookOK /\ ValuesExist /\ ParamsOK /\ SealOK
      /\ PredecessorsOK /\ CallsOK /\ ArityOK /\ StacksOK
      /\ Acyclic(alias) /\ StackMapped
  BY DEF SInv
<1>2. /\ pc = "copy" /\ pc' \in {"copy", "machine"}
      /\ variables' = [variables EXCEPT ![look.var][look.block] = look.val]
      /\ UNCHANGED <<graph, position, status, body, sealed, undef_variables,
                     predecessors, single_predecessor, calls, results, stack_map_values,
                     block_params, args, alias, zeros, seal>>
  BY DEF CopyStep, clientVars, sealVars, funcVars
<1>3. /\ look.var \in Variable /\ look.block \in Block /\ look.start \in Block /\ look \in Lookup
      /\ look.val \in Value /\ look.val \in Nat /\ look.val # None
  <2>1. /\ look.var \in Variable /\ look.block \in Block /\ look.start \in Block
        /\ look.val \in Value
    BY <1>1, <1>2 DEF LookOK
  <2>2. look \in Lookup
    BY <1>1 DEF STypeOK
  <2>3. look.val \in Nat /\ look.val # None
    BY <2>1 DEF Value, None
  <2> QED  BY <2>1, <2>2, <2>3
<1>4. PICK pred \in single_predecessor[look.block] : look' = [look EXCEPT !.block = pred]
  BY DEF CopyStep
<1>5. pred \in Block /\ pred \in Nat
  <2>1. single_predecessor[look.block] \subseteq Block
    BY <1>1, <1>3 DEF STypeOK
  <2> QED  BY <2>1, NumbersOfBlocks
<1>6. look' \in Lookup /\ look'.var = look.var /\ look'.block = pred /\ look'.start = look.start
      /\ look'.val = look.val
  BY <1>3, <1>4, <1>5 DEF Lookup
<1>7. /\ variables' \in [Variable -> [Block -> Nat]]
      /\ \A y \in Variable, c \in Block : variables'[y][c] =
            IF y = look.var /\ c = look.block THEN look.val ELSE variables[y][c]
  <2> DEFINE x == look.var
             b == look.block
             v == look.val
  <2>1. x \in Variable /\ b \in Block /\ v \in Nat /\ variables' = [variables EXCEPT ![x][b] = v]
    BY <1>2, <1>3
  <2>2. variables \in [Variable -> [Block -> Nat]]
    BY <1>1 DEF STypeOK
  <2> HIDE DEF x, b, v
  <2>3. /\ variables' \in [Variable -> [Block -> Nat]]
        /\ \A y \in Variable, c \in Block :
              variables'[y][c] = IF y = x /\ c = b THEN v ELSE variables[y][c]
    BY ONLY <2>1, <2>2
  <2> QED  BY <2>3 DEF x, b, v
<1>8. STypeOK'
  BY <1>1, <1>2, <1>6, <1>7 DEF STypeOK
<1>9. LookOK'
  BY <1>2, <1>3, <1>5, <1>6 DEF LookOK, Value
<1>10. ValuesExist'
  BY <1>1, <1>2, <1>3, <1>7 DEF ValuesExist, Value
<1>11. StacksOK'
  BY <1>1, <1>2 DEF StacksOK, Height
<1>12. DefinitionsStay /\ ParamsStay
  BY <1>2, <1>3, <1>7 DEF DefinitionsStay, ParamsStay
<1>13. SealOK'
  <2>1. seal.todo = {} \/ seal.open
    BY <1>1, <1>2 DEF SealOK
  <2> QED  BY <1>1, <1>2, <1>8, <1>12, <2>1, SealFrame
<1> QED  BY <1>1, <1>2, <1>3, <1>6, <1>8, <1>9, <1>10, <1>11, <1>12, <1>13, ParamsFrame, PredecessorsFrame,
            CallsFrame, ArityFrame, StackMapFrame DEF SInv

\* What use_var_nonlocal does when it is entered.
LEMMA EnterUse ==
    ASSUME STypeOK, ValuesExist, NEW x \in Variable, NEW b \in Block, enter_use_var(x, b),
           UNCHANGED <<variables, alias>>
    PROVE  /\ look' \in Lookup /\ look'.var = x
           /\ results' \in Seq(Nat) /\ \A i \in 1 .. Len(results') : results'[i] \in Value
           /\ pc' \in {"find_var", "machine"}
           /\ LookOK'
           /\ Height' = Len(results) + 1
<1>1. b \in Nat /\ x \in Nat /\ look \in Lookup /\ results \in Seq(Nat) /\ Len(results) \in Nat
  BY NumbersOfBlocks DEF STypeOK
<1> DEFINE v == variables[x][b]
<1>2. v \in Value \cup {None}
  BY DEF ValuesExist
<1> HIDE DEF v
<1>3. CASE v # None
  <2>1. results' = Append(results, v) /\ pc' = "machine" /\ look' = [look EXCEPT !.var = x]
    BY <1>3 DEF enter_use_var, to_stack, v
  <2>2. look' \in Lookup /\ look'.var = x
    BY <1>1, <2>1 DEF Lookup
  <2>3. v \in Value /\ v \in Nat
    BY <1>2, <1>3 DEF Value
  <2>4. results' \in Seq(Nat) /\ Len(results') = Len(results) + 1
        /\ \A i \in 1 .. Len(results') : results'[i] = IF i <= Len(results) THEN results[i] ELSE v
    BY <1>1, <2>1, <2>3
  <2>5. ASSUME NEW i \in 1 .. Len(results') PROVE results'[i] \in Value
    <3>1. i <= Len(results) => i \in 1 .. Len(results)
      BY <1>1
    <3> QED  BY <2>3, <2>4, <3>1 DEF ValuesExist
  <2>6. LookOK'
    BY <2>1, <2>2 DEF LookOK
  <2>7. Height' = Len(results) + 1
    BY <1>1, <2>1, <2>4 DEF Height
  <2> QED  BY <2>1, <2>2, <2>4, <2>5, <2>6, <2>7
<1>4. CASE v = None
  <2>1. /\ results' = results /\ pc' = "find_var"
        /\ look' = [look EXCEPT !.var = x, !.start = b, !.block = b, !.visited = {}]
    BY <1>4 DEF enter_use_var, v
  <2>2. look' \in Lookup /\ look'.var = x /\ look'.block = b /\ look'.start = b
    BY <1>1, <2>1 DEF Lookup
  <2>3. LookOK'
    BY <1>4, <2>1, <2>2 DEF LookOK, v
  <2>4. Height' = Len(results) + 1
    BY <1>1, <2>1 DEF Height
  <2> QED  BY <1>1, <2>1, <2>2, <2>3, <2>4 DEF ValuesExist
<1> QED  BY <1>3, <1>4

LEMMA MachineUseKeeps == ASSUME SInv, MachineUse PROVE SInv'
<1>1. /\ STypeOK /\ LookOK /\ ValuesExist /\ ParamsOK /\ SealOK
      /\ PredecessorsOK /\ CallsOK /\ ArityOK /\ StacksOK
      /\ Acyclic(alias) /\ StackMapped
  BY DEF SInv
<1>2. /\ pc = "machine" /\ calls # <<>> /\ Head(calls).op = "use" /\ calls' = Tail(calls)
      /\ enter_use_var(look.var, Head(calls).block)
      /\ UNCHANGED <<graph, position, status, body, variables, sealed, undef_variables,
                     predecessors, single_predecessor, stack_map_values,
                     block_params, args, alias, zeros, seal>>
  BY DEF MachineUse, clientVars, sealVars, funcVars
<1>3. look.var \in Variable
  BY <1>1, <1>2 DEF LookOK
<1>4. Head(calls).block \in Block /\ ~IsFinish(Head(calls))
  <2>1. calls \in Seq(Call)
    BY <1>1 DEF STypeOK
  <2>2. Head(calls) \in Call
    BY <1>2, <2>1
  <2> QED  BY <1>2, <2>2 DEF Call, IsFinish
<1>5. /\ look' \in Lookup /\ look'.var = look.var
      /\ results' \in Seq(Nat) /\ \A i \in 1 .. Len(results') : results'[i] \in Value
      /\ pc' \in {"find_var", "machine"}
      /\ LookOK'
      /\ Height' = Len(results) + 1
  <2> DEFINE x == look.var
             b == Head(calls).block
  <2>1. x \in Variable /\ b \in Block /\ enter_use_var(x, b) /\ UNCHANGED <<variables, alias>>
    BY <1>2, <1>3, <1>4
  <2> HIDE DEF x, b
  <2>2. /\ look' \in Lookup /\ look'.var = x
        /\ results' \in Seq(Nat) /\ \A i \in 1 .. Len(results') : results'[i] \in Value
        /\ pc' \in {"find_var", "machine"}
        /\ LookOK'
        /\ Height' = Len(results) + 1
    BY <1>1, <2>1, EnterUse
  <2> QED  BY <2>2 DEF x
<1>6. DefinitionsStay
  BY <1>2 DEF DefinitionsStay
<1>7. /\ CallsOK' /\ calls' \in Seq(Call)
      /\ \A c \in Block : Waiting(c)' =
            IF IsFinish(Head(calls)) /\ Head(calls).block = c THEN 0 ELSE Waiting(c)
  <2>1. \A i \in 2 .. Len(calls) : IsFinish(calls[i]) => WaitsRightly(calls[i].sentinel, calls[i].block)
    <3>1. \A i \in 2 .. Len(calls) : i \in 1 .. Len(calls)
      BY <1>1 DEF STypeOK
    <3> QED  BY <1>1, <1>2, <1>5, <3>1 DEF CallsOK, WaitsRightly
  <2> QED  BY <1>1, <1>2, <2>1, PopKeepsCalls
<1>8. STypeOK'
  BY <1>1, <1>2, <1>5, <1>7 DEF STypeOK
<1>9. ValuesExist'
  BY <1>1, <1>2, <1>5 DEF ValuesExist, Value
<1>10. StacksOK'
  <2>1. PICK h : Heights(h, calls, predecessors, Height)
    BY <1>1, <1>2 DEF StacksOK
  <2>2. Height = Len(results)
    BY <1>1, <1>2 DEF STypeOK, Height
  <2>3. \E g : Heights(g, Tail(calls), predecessors, After(Head(calls), Height))
    BY <1>1, <1>2, <2>1, PopHeights
  <2>4. After(Head(calls), Height) = Height'
    BY <1>4, <1>5, <2>2 DEF After
  <2> QED  BY <1>2, <1>5, <2>3, <2>4 DEF StacksOK
<1>11. ArityOK'
  <2>1. sealing' = sealing
    BY <1>2, SealingKept
  <2>2. \A b \in Block : Arity(b)' = Arity(b)
    BY <1>2, <1>4, <1>7, <2>1 DEF Arity, Unsettled
  <2> QED  BY <1>1, <1>2, <2>2, ArityKept
<1>12. SealOK'
  <2>1. seal.todo = {} \/ seal.open
    BY <1>1, <1>2 DEF SealOK
  <2> QED  BY <1>1, <1>2, <1>5, <1>6, <1>8, <2>1, SealFrame
<1> QED  BY <1>1, <1>2, <1>5, <1>7, <1>8, <1>9, <1>10, <1>11, <1>12, ParamsFrame, PredecessorsFrame,
            StackMapFrame DEF SInv

\* The client adds a statement to the block it is in.
LEMMA BodyAppended ==
    ASSUME STypeOK, ValuesExist, NEW s \in Statement, s.val \in Value', Value \subseteq Value',
           body' = [body EXCEPT ![position] = Append(@, s)]
    PROVE  /\ body' \in [Block -> Seq(Statement)]
           /\ \A b \in Block : \A i \in 1 .. Len(body'[b]) : body'[b][i].val \in Value'
<1>1. position \in Block /\ body[position] \in Seq(Statement) /\ body \in [Block -> Seq(Statement)]
  BY DEF STypeOK
<1>2. /\ Append(body[position], s) \in Seq(Statement)
      /\ Len(Append(body[position], s)) = Len(body[position]) + 1 /\ Len(body[position]) \in Nat
      /\ \A i \in 1 .. Len(body[position]) + 1 :
            Append(body[position], s)[i] = IF i <= Len(body[position]) THEN body[position][i] ELSE s
  BY <1>1
<1>3. body' \in [Block -> Seq(Statement)]
  BY <1>1, <1>2
<1>4. ASSUME NEW b \in Block, NEW i \in 1 .. Len(body'[b]) PROVE body'[b][i].val \in Value'
  <2>1. CASE b # position
    BY <1>1, <2>1 DEF ValuesExist
  <2>2. CASE b = position
    <3>1. body'[b] = Append(body[position], s)
      BY <1>1, <2>2
    <3>2. i \in 1 .. Len(body[position]) + 1 /\ (i <= Len(body[position]) => i \in 1 .. Len(body[position]))
      BY <1>2, <3>1
    <3>3. body'[b][i] = IF i <= Len(body[position]) THEN body[position][i] ELSE s
      BY <1>2, <3>1, <3>2
    <3> QED  BY <1>1, <3>2, <3>3 DEF ValuesExist
  <2> QED  BY <2>1, <2>2
<1> QED  BY <1>3, <1>4

\* The value that is left is used by the client, or settled a placeholder.
LEMMA MachineReturnKeeps == ASSUME SInv, MachineReturn PROVE SInv'
<1>1. /\ STypeOK /\ LookOK /\ ValuesExist /\ ParamsOK /\ SealOK
      /\ PredecessorsOK /\ CallsOK /\ ArityOK /\ StacksOK
      /\ Acyclic(alias) /\ StackMapped
  BY DEF SInv
<1>2. /\ pc = "machine" /\ calls = <<>> /\ Len(results) = 1 /\ results' = <<>> /\ look' = no_lookup
      /\ pc' = IF seal.todo # {} THEN "seal" ELSE "idle"
      /\ UNCHANGED <<graph, position, status, variables, sealed, undef_variables,
                     predecessors, single_predecessor, calls, stack_map_values,
                     block_params, args, alias, zeros, seal>>
  BY DEF MachineReturn, sealVars, funcVars
<1>3. body' = body \/ body' = [body EXCEPT ![position] =
                                  Append(@, [op |-> "use", var |-> look.var, val |-> results[1]])]
  BY DEF MachineReturn
<1>4. /\ body' \in [Block -> Seq(Statement)]
      /\ \A b \in Block : \A i \in 1 .. Len(body'[b]) : body'[b][i].val \in Value
  <2>1. CASE body' = body
    BY <1>1, <2>1 DEF STypeOK, ValuesExist
  <2>2. CASE body' # body
    <3> DEFINE s == [op |-> "use", var |-> look.var, val |-> results[1]]
    <3>2. results[1] \in Value /\ look.var \in Nat
      <4>1. 1 \in 1 .. Len(results) /\ look.var \in Variable
      BY <1>1, <1>2 DEF LookOK
    <4> QED  BY <1>1, <4>1, NumbersOfBlocks DEF ValuesExist
    <3>3. s \in Statement /\ s.val \in Value
      BY <3>2 DEF Statement, Value
    <3>4. body' = [body EXCEPT ![position] = Append(@, s)] /\ Value' = Value
      BY <1>2, <1>3, <2>2 DEF Value
    <3> HIDE DEF s
    <3> QED  BY <1>1, <3>3, <3>4, BodyAppended
  <2> QED  BY <2>1, <2>2
<1>5. look' \in Lookup
  BY <1>2 DEF Lookup, no_lookup, None
<1>6. STypeOK'
  BY <1>1, <1>2, <1>4, <1>5 DEF STypeOK
<1>7. DefinitionsStay
  BY <1>2 DEF DefinitionsStay
<1>8. SealOK'
  <2>1. seal.todo # {} => seal.open
    BY <1>1, <1>2 DEF SealOK
  <2> QED  BY <1>1, <1>2, <1>6, <1>7, <2>1, SealFrame
<1>9. ValuesExist'
  BY <1>1, <1>2, <1>4 DEF ValuesExist, Value
<1>10. LookOK' /\ StacksOK'
  BY <1>2 DEF LookOK, StacksOK
<1>11. CallsOK'
  BY <1>2, NoCalls
<1> QED  BY <1>1, <1>2, <1>6, <1>8, <1>9, <1>10, <1>11, ParamsFrame, PredecessorsFrame, ArityFrame,
            StackMapFrame DEF SInv

(***************************************************************************)
(* New values and parameters.                                              *)
(***************************************************************************)

\* With one more value, which is no alias, one can still leave every set.
LEMMA AppendedAlias ==
    ASSUME STypeOK, ValuesExist, Acyclic(alias)
    PROVE  LET a == Append(alias, None)
           IN  /\ a \in Seq(Nat) /\ Len(a) = new_value /\ Len(alias) \in Nat
               /\ new_value \in Nat /\ new_value # None /\ new_value \notin Value
               /\ 1 .. Len(a) = Value \cup {new_value}
               /\ a[new_value] = None /\ \A v \in Value : a[v] = alias[v]
               /\ \A v \in 1 .. Len(a) : a[v] \in 1 .. Len(a) \cup {None}
               /\ Acyclic(a)
<1> DEFINE a == Append(alias, None)
<1>1. alias \in Seq(Nat) /\ Len(alias) \in Nat /\ None \in Nat
  BY DEF STypeOK, None
<1>2. /\ a \in Seq(Nat) /\ Len(a) = Len(alias) + 1
      /\ \A i \in 1 .. Len(alias) + 1 : a[i] = IF i <= Len(alias) THEN alias[i] ELSE None
  BY <1>1
<1> HIDE DEF a
<1>3. /\ new_value \in Nat /\ new_value # None /\ new_value \notin Value
      /\ 1 .. Len(a) = Value \cup {new_value} /\ Len(a) = new_value
  BY <1>1, <1>2 DEF new_value, Value, None
<1>4. a[new_value] = None /\ \A v \in Value : a[v] = alias[v]
  BY <1>1, <1>2 DEF new_value, Value
<1>5. \A v \in 1 .. Len(a) : a[v] \in 1 .. Len(a) \cup {None}
  BY <1>3, <1>4 DEF ValuesExist
<1>6. Acyclic(a)
  <2> SUFFICES ASSUME NEW S \in SUBSET (1 .. Len(a)), S # {} PROVE \E v \in S : a[v] \notin S
    BY DEF Acyclic
  <2>1. CASE new_value \in S
    <3>1. None \notin 1 .. Len(a)
      BY DEF None
    <3> QED  BY <1>4, <2>1, <3>1
  <2>2. CASE new_value \notin S
    <3>1. S \subseteq Value
      BY <1>3, <2>2
    <3>2. PICK v \in S : alias[v] \notin S
      BY <3>1 DEF Acyclic, Value
    <3> QED  BY <1>4, <3>1, <3>2
  <2> QED  BY <2>1, <2>2
<1> QED  BY <1>1, <1>2, <1>3, <1>4, <1>5, <1>6 DEF a

\* A value is made: it is no alias, and everything known is still there.
LEMMA NewValue ==
    ASSUME STypeOK, ValuesExist, Acyclic(alias), alias' = Append(alias, None)
    PROVE  /\ alias' \in Seq(Nat) /\ Len(alias') = Len(alias) + 1
           /\ new_value \in Nat /\ new_value # None /\ new_value \notin Value
           /\ Value' = Value \cup {new_value}
           /\ alias'[new_value] = None /\ \A v \in Value : alias'[v] = alias[v]
           /\ \A v \in Value' : alias'[v] \in Value' \cup {None}
           /\ Acyclic(alias')
<1> DEFINE a == Append(alias, None)
<1>1. /\ a \in Seq(Nat) /\ Len(a) = new_value /\ Len(alias) \in Nat
      /\ new_value \in Nat /\ new_value # None /\ new_value \notin Value
      /\ 1 .. Len(a) = Value \cup {new_value}
      /\ a[new_value] = None /\ \A v \in Value : a[v] = alias[v]
      /\ \A v \in 1 .. Len(a) : a[v] \in 1 .. Len(a) \cup {None}
      /\ Acyclic(a)
  BY AppendedAlias
<1>2. alias' = a
  OBVIOUS
<1> HIDE DEF a
<1>3. Value' = 1 .. Len(a)
  BY <1>2 DEF Value
<1> QED  BY <1>1, <1>2, <1>3 DEF new_value

\* The parameters and definitions there are are not affected.
LEMMA ParamsWithNewValue ==
    ASSUME ParamsOK, UNCHANGED block_params, Value \subseteq Value',
           \A v \in Value : alias'[v] = alias[v]
    PROVE  ParamsOK'
<1>1. ASSUME NEW b \in Block, NEW i \in 1 .. Len(block_params[b])
      PROVE  block_params[b][i] \in Value' /\ alias'[block_params[b][i]] = None
  BY DEF ParamsOK
<1> QED  BY <1>1 DEF ParamsOK

\* It becomes the last parameter of block b.
LEMMA ParamAppended ==
    ASSUME STypeOK, ParamsOK, NEW b \in Block, NEW n \in Nat, n \notin Value,
           Value' = Value \cup {n}, alias'[n] = None, \A v \in Value : alias'[v] = alias[v],
           block_params' = [block_params EXCEPT ![b] = Append(@, n)]
    PROVE  /\ block_params' \in [Block -> Seq(Nat)]
           /\ ParamsOK'
           /\ \A c \in Block : Len(block_params'[c]) = Len(block_params[c]) + (IF c = b THEN 1 ELSE 0)
           /\ \A c \in Block : \A i \in 1 .. Len(block_params[c]) :
                 i \in 1 .. Len(block_params'[c]) /\ block_params'[c][i] = block_params[c][i]
           /\ Len(block_params'[b]) \in 1 .. Len(block_params'[b])
           /\ block_params'[b][Len(block_params'[b])] = n
<1>1. \A c \in Block : block_params[c] \in Seq(Nat) /\ Len(block_params[c]) \in Nat
  BY DEF STypeOK
<1>2. block_params'[b] = Append(block_params[b], n) /\ \A c \in Block : c # b => block_params'[c] = block_params[c]
  BY DEF STypeOK
<1>3. /\ block_params'[b] \in Seq(Nat) /\ Len(block_params'[b]) = Len(block_params[b]) + 1
      /\ \A i \in 1 .. Len(block_params[b]) + 1 : block_params'[b][i] =
            IF i <= Len(block_params[b]) THEN block_params[b][i] ELSE n
  BY <1>1, <1>2
<1>4. block_params' \in [Block -> Seq(Nat)]
  <2>1. block_params' = [c \in Block |-> IF c = b THEN Append(block_params[b], n) ELSE block_params[c]]
    BY DEF STypeOK
  <2>2. Append(block_params[b], n) \in Seq(Nat)
    BY <1>1
  <2> QED  BY <1>1, <2>1, <2>2
<1>5. \A c \in Block : Len(block_params'[c]) = Len(block_params[c]) + (IF c = b THEN 1 ELSE 0)
  <2>1. \A c \in Block : c # b => Len(block_params'[c]) = Len(block_params[c]) + 0
    BY <1>1, <1>2
  <2> QED  BY <1>1, <1>3, <2>1
<1>6. \A c \in Block : \A i \in 1 .. Len(block_params[c]) :
         i \in 1 .. Len(block_params'[c]) /\ block_params'[c][i] = block_params[c][i]
  BY <1>1, <1>2, <1>3
<1>7. Len(block_params'[b]) \in 1 .. Len(block_params'[b]) /\ block_params'[b][Len(block_params'[b])] = n
  BY <1>1, <1>3
\* Every parameter is an old one at its old place, or the new one.
<1>8. ASSUME NEW c \in Block, NEW i \in 1 .. Len(block_params'[c])
      PROVE  \/ i \in 1 .. Len(block_params[c]) /\ block_params'[c][i] = block_params[c][i]
                  /\ block_params[c][i] \in Value /\ alias[block_params[c][i]] = None
             \/ c = b /\ i = Len(block_params'[b]) /\ block_params'[c][i] = n
  <2>1. i \in 1 .. Len(block_params[c]) \/ (c = b /\ i = Len(block_params'[b]))
    BY <1>1, <1>5
  <2> QED  BY <1>6, <1>7, <2>1 DEF ParamsOK
<1>9. \A c \in Block : \A i \in 1 .. Len(block_params'[c]) :
         block_params'[c][i] \in Value' /\ alias'[block_params'[c][i]] = None
  BY <1>8
<1>10. ASSUME NEW c \in Block, NEW d \in Block, NEW i \in 1 .. Len(block_params'[c]),
              NEW j \in 1 .. Len(block_params'[d]), block_params'[c][i] = block_params'[d][j]
       PROVE  c = d /\ i = j
  BY <1>8, <1>10 DEF ParamsOK
<1> QED  BY <1>4, <1>5, <1>6, <1>7, <1>9, <1>10 DEF ParamsOK

\* The block of the lookup gets a parameter: a lookup waits for it, or a
\* placeholder does.
LEMMA FindParamKeeps == ASSUME SInv, FindParam PROVE SInv'
<1>0. PICK b, x, n : b = look.block /\ x = look.var /\ n = new_value
  OBVIOUS
<1>1. /\ STypeOK /\ LookOK /\ ValuesExist /\ ParamsOK /\ SealOK
      /\ PredecessorsOK /\ CallsOK /\ ArityOK /\ StacksOK
      /\ Acyclic(alias) /\ StackMapped
  BY DEF SInv
<1>2. /\ pc = "find_var" /\ alias' = Append(alias, None)
      /\ block_params' = [block_params EXCEPT ![b] = Append(@, n)]
      /\ variables' = [variables EXCEPT ![x][b] = n]
      /\ stack_map_values' = stack_map_binding(x, n)
      /\ found(n, b)
      /\ UNCHANGED <<graph, position, status, body, sealed, predecessors, single_predecessor,
                     args, zeros, seal>>
  BY <1>0 DEF FindParam, clientVars
<1>3. IF b \in sealed
      THEN /\ calls' = begin_predecessors_lookup(n, b, calls)
           /\ UNCHANGED <<undef_variables, results>>
      ELSE /\ undef_variables' = [undef_variables EXCEPT ![b] = Append(@, x)]
           /\ results' = to_stack(n)
           /\ UNCHANGED calls
  BY <1>0 DEF FindParam
<1>4. /\ x \in Variable /\ b \in Block /\ look.start \in Block /\ look \in Lookup
      /\ variables[x][b] = None
  BY <1>0, <1>1, <1>2 DEF LookOK, STypeOK
<1>5. /\ alias' \in Seq(Nat) /\ Len(alias') = Len(alias) + 1
      /\ n \in Nat /\ n # None /\ n \notin Value
      /\ Value' = Value \cup {n}
      /\ alias'[n] = None /\ \A v \in Value : alias'[v] = alias[v]
      /\ \A v \in Value' : alias'[v] \in Value' \cup {None}
      /\ Acyclic(alias')
  BY <1>0, <1>1, <1>2, NewValue
<1>6. /\ pc' \in {"machine", "copy"} /\ look' \in Lookup /\ look'.var = x
      /\ look'.block = look.start /\ look'.start = look.start /\ look'.val = n
  <2>1. /\ pc' \in {"machine", "copy"}
        /\ look' = [look EXCEPT !.val = n, !.from = b, !.block = look.start]
    BY <1>2 DEF found
  <2>2. b \in Nat /\ look.start \in Nat
    BY <1>4, NumbersOfBlocks
  <2> QED  BY <1>0, <1>4, <1>5, <2>1, <2>2 DEF Lookup
<1>7. /\ variables' \in [Variable -> [Block -> Nat]]
      /\ \A y \in Variable, c \in Block :
            variables'[y][c] = IF y = x /\ c = b THEN n ELSE variables[y][c]
  <2>1. x \in Variable /\ b \in Block /\ n \in Nat /\ variables' = [variables EXCEPT ![x][b] = n]
    BY <1>2, <1>4, <1>5
  <2>2. variables \in [Variable -> [Block -> Nat]]
    BY <1>1 DEF STypeOK
  <2> QED  BY ONLY <2>1, <2>2
<1>8. /\ block_params' \in [Block -> Seq(Nat)]
      /\ ParamsOK'
      /\ \A c \in Block : Len(block_params'[c]) = Len(block_params[c]) + (IF c = b THEN 1 ELSE 0)
      /\ \A c \in Block : \A i \in 1 .. Len(block_params[c]) :
            i \in 1 .. Len(block_params'[c]) /\ block_params'[c][i] = block_params[c][i]
      /\ Len(block_params'[b]) \in 1 .. Len(block_params'[b])
      /\ block_params'[b][Len(block_params'[b])] = n
  BY <1>1, <1>2, <1>4, <1>5, ParamAppended
<1>81. ASSUME NEW c \in Block
       PROVE  Len(block_params'[c]) = IF c = b THEN Len(block_params[c]) + 1 ELSE Len(block_params[c]) + 0
  BY <1>8
<1>9. DefinitionsStay /\ ParamsStay
  BY SMTT(60), <1>5, <1>7, <1>8 DEF DefinitionsStay, ParamsStay
<1>10. LookOK'
  BY <1>4, <1>5, <1>6 DEF LookOK
<1>11. PredecessorsOK'
  BY <1>1, <1>2, PredecessorsFrame
<1>12. StackMapped'
  BY <1>1, <1>2, <1>4, <1>5 DEF StackMapped, stack_map_binding
<1>13. sealing' = sealing /\ (seal.todo = {} \/ seal.open)
  BY <1>1, <1>2, SealingKept DEF SealOK
<1>14. \A c \in Block : Len(block_params[c]) \in Nat /\ Len(undef_variables[c]) \in Nat
  BY SMTT(60), <1>1 DEF STypeOK
<1>15. (\A i \in 1 .. Len(results') : results'[i] \in Value') => ValuesExist'
  BY ZenonT(60), <1>1, <1>2, <1>5, <1>7 DEF ValuesExist
<1>16. CASE b \in sealed
  <2>1. calls' = begin_predecessors_lookup(n, b, calls) /\ UNCHANGED <<undef_variables, results>>
    BY <1>3, <1>16
  <2>2. STypeOK'
    <3>1. calls' \in Seq(Call)
      BY <1>1, <1>4, <1>5, <2>1, CallsPushed
    <3> QED  BY <1>1, <1>2, <1>5, <1>6, <1>7, <1>8, <2>1, <3>1 DEF STypeOK
  <2>3. CallsOK' /\ Waiting(b) = 0 /\ Waiting(b)' = 1
        /\ \A c \in Block : c # b => Waiting(c)' = Waiting(c)
    <3>1. ASSUME NEW i \in 1 .. Len(calls), IsFinish(calls[i])
          PROVE  calls[i].block # b
      BY <1>0, <1>1, <1>4, <3>1 DEF CallsOK
    <3>2. b \in sealed' /\ variables'[look'.var][b] # None
      BY <1>2, <1>4, <1>5, <1>6, <1>7, <1>16
    <3>3. \A i \in 1 .. Len(calls) : IsFinish(calls[i]) => WaitsRightly(calls[i].sentinel, calls[i].block)
      BY <1>1, <1>2, <1>4, <1>6, <1>9, <1>0, CallsStay
    <3>4. WaitsRightly(n, b)
      BY <1>8, <3>2 DEF WaitsRightly
    <3>5. Pushes(n, b)
      BY <2>1, <3>1, <3>3, <3>4 DEF Pushes
    <3> QED  BY <1>1, <1>4, <1>5, <3>5, PushKeepsCalls
  <2>4. StacksOK'
    <3> DEFINE m == Len(results)
    <3>1. m \in Nat /\ Height = m + 1 /\ Height' = m
      BY <1>1, <1>2, <1>6, <2>1 DEF STypeOK, Height
    <3>2. PICK h : Heights(h, calls, predecessors, m + 1)
      BY <1>1, <1>2, <3>1 DEF StacksOK
    <3> HIDE DEF m
    <3>3. \E g : Heights(g, calls', predecessors, m)
      BY <1>1, <1>4, <1>5, <2>1, <3>1, <3>2, PushHeights
    <3> QED  BY <1>2, <1>6, <3>1, <3>3 DEF StacksOK
  <2>5. ArityOK'
    <3>1. ASSUME NEW c \in Block PROVE Arity(c)' = Arity(c)
      <4>1. Unsettled(c)' = Unsettled(c) + 0
        BY <1>1, <1>2, <1>13, <2>1, CountsAreNumbers DEF Unsettled
      <4>2. CASE c = b
        <5>0. Waiting(c)' = Waiting(c) + 1 /\ Len(block_params'[c]) = Len(block_params[c]) + 1
          <6>1. Waiting(c)' = 1 /\ Waiting(c) = 0
            BY <2>3, <4>2
          <6>2. Len(block_params'[c]) = Len(block_params[c]) + 1
            BY <1>81, <4>2
          <6> QED  BY <6>1, <6>2
        <5>1. Counted(c, 1, 1, 0)
          BY <4>1, <5>0 DEF Counted
        <5> QED  BY <1>1, <5>1, ArityBalance
      <4>3. CASE c # b
        <5>1. Waiting(c)' = Waiting(c) + 0 /\ Len(block_params'[c]) = Len(block_params[c]) + 0
          <6>1. Waiting(c)' = Waiting(c) /\ Waiting(c) \in Int
            BY <1>1, <2>3, <4>3, CountsAreNumbers
          <6>2. Len(block_params'[c]) = Len(block_params[c]) + 0
            BY <1>81, <4>3
          <6> QED  BY <6>1, <6>2
        <5>2. Counted(c, 0, 0, 0)
          BY <4>1, <5>1 DEF Counted
        <5> QED  BY <1>1, <5>2, ArityBalance
      <4> QED  BY <4>2, <4>3
    <3> QED  BY <1>1, <1>2, <3>1, ArityKept
  <2>6. SealOK'
    BY <1>1, <1>2, <1>6, <1>9, <1>13, <2>1, <2>2, SealFrame
  <2>7. ValuesExist'
    BY <1>1, <1>5, <1>15, <2>1 DEF ValuesExist
  <2> QED  BY <1>5, <1>8, <1>10, <1>11, <1>12, <2>2, <2>3, <2>4, <2>5, <2>6, <2>7 DEF SInv
<1>17. CASE b \notin sealed
  <2>1. /\ undef_variables' = [undef_variables EXCEPT ![b] = Append(@, x)]
        /\ results' = Append(results, n)
        /\ UNCHANGED calls
    BY <1>3, <1>17 DEF to_stack
  <2>2. /\ undef_variables[b] \in Seq(Variable)
        /\ undef_variables' \in [Block -> Seq(Variable)]
        /\ \A c \in Block : c # b => undef_variables'[c] = undef_variables[c]
        /\ Len(undef_variables'[b]) = Len(undef_variables[b]) + 1
        /\ \A i \in 1 .. Len(undef_variables[b]) + 1 :
              undef_variables'[b][i] = IF i <= Len(undef_variables[b]) THEN undef_variables[b][i] ELSE x
    <3>1. undef_variables \in [Block -> Seq(Variable)]
      BY <1>1 DEF STypeOK
    <3>2. undef_variables'[b] = Append(undef_variables[b], x)
          /\ Append(undef_variables[b], x) \in Seq(Variable)
      BY <1>4, <2>1, <3>1
    <3> QED  BY <1>4, <2>1, <3>1, <3>2
  <2>3. /\ results' \in Seq(Nat) /\ Len(results') = Len(results) + 1 /\ Len(results) \in Nat
        /\ \A i \in 1 .. Len(results') : results'[i] = IF i <= Len(results) THEN results[i] ELSE n
    <3>1. results \in Seq(Nat)
      BY <1>1 DEF STypeOK
    <3> QED  BY <1>5, <2>1, <3>1
  <2>4. STypeOK'
    BY <1>1, <1>2, <1>5, <1>6, <1>7, <1>8, <2>1, <2>2, <2>3 DEF STypeOK
  <2>5. CallsOK'
    BY <1>1, <1>2, <1>4, <1>6, <1>9, <2>1, <1>0, CallsFrame
  <2>6. StacksOK'
    <3>1. Height' = Height
      BY <1>2, <1>6, <2>3 DEF Height
    <3> QED  BY <1>1, <1>2, <1>6, <2>1, <3>1 DEF StacksOK
  <2>7. seal.open => sealing # b
    BY <1>1, <1>17 DEF SealOK
  <2>8. ArityOK'
    <3>1. ASSUME NEW c \in Block PROVE Arity(c)' = Arity(c)
      <4>1. Waiting(c)' = Waiting(c) + 0
        BY <1>1, <2>1, CountsAreNumbers DEF Waiting
      <4>2. Unsettled(c)' = Unsettled(c) + (IF c = b THEN 1 ELSE 0)
        <5>1. CASE c = b
          BY <1>1, <1>2, <1>4, <1>13, <2>2, <2>7, <5>1, CountsAreNumbers DEF Unsettled
        <5>2. CASE c # b
          <6>1. undef_variables'[c] = undef_variables[c] /\ seal' = seal
            BY <1>2, <2>2, <5>2
          <6> QED  BY <1>1, <1>13, <5>2, <6>1, CountsAreNumbers DEF Unsettled
        <5> QED  BY <5>1, <5>2
      <4> DEFINE k == IF c = b THEN 1 ELSE 0
      <4>3. Counted(c, k, 0, k)
        <5>1. Len(block_params'[c]) = Len(block_params[c]) + k
          BY <1>81
        <5> QED  BY <4>1, <4>2, <5>1 DEF Counted
      <4>4. k \in Int
        OBVIOUS
      <4> HIDE DEF k
      <4> QED  BY <1>1, <4>3, <4>4, ArityBalance
    <3> QED  BY <1>1, <1>2, <3>1, ArityKept
  <2>9. SealOK'
    <3>1. seal.open => undef_variables'[sealing] = undef_variables[sealing]
      <4>1. seal.open => sealing \in Block
        BY <1>1, SealingIsNext DEF SealOK
      <4> QED  BY <2>2, <2>7, <4>1
    <3>2. \A c \in sealed : undef_variables'[c] = undef_variables[c]
      BY <1>1, <1>17, <2>2 DEF STypeOK
    <3>3. ASSUME NEW c \in Block, NEW i \in 1 .. Len(undef_variables'[c])
          PROVE  variables'[undef_variables'[c][i]][c] # None
      <4>1. CASE i \in 1 .. Len(undef_variables[c]) /\ undef_variables'[c][i] = undef_variables[c][i]
        <5>1. undef_variables[c] \in Seq(Variable)
          BY <1>1 DEF STypeOK
        <5>2. undef_variables[c][i] \in Variable
          BY <4>1, <5>1
        <5> QED  BY <1>1, <1>9, <4>1, <5>2 DEF SealOK, DefinitionsStay
      <4>2. CASE c = b /\ undef_variables'[c][i] = x
        BY <1>4, <1>5, <1>7, <4>2
      <4>3. CASE c = b /\ i \in 1 .. Len(undef_variables[b])
        BY <1>14, <2>2, <4>1, <4>3
      <4>4. CASE c = b /\ i \notin 1 .. Len(undef_variables[b])
        <5>1. i \in 1 .. Len(undef_variables[b]) + 1 /\ ~(i <= Len(undef_variables[b]))
          BY <1>4, <1>14, <2>2, <4>4
        <5> QED  BY <2>2, <4>2, <4>4, <5>1
      <4>5. CASE c # b
        BY <2>2, <4>1, <4>5
      <4> QED  BY <4>3, <4>4, <4>5
    <3> QED  BY <1>1, <1>2, <1>6, <1>13, <3>1, <3>2, <3>3 DEF SealOK
  <2>10. ValuesExist'
    <3>1. ASSUME NEW i \in 1 .. Len(results') PROVE results'[i] \in Value'
      <4>1. i <= Len(results) => i \in 1 .. Len(results)
        BY <2>3
      <4> QED  BY <1>1, <1>5, <2>3, <4>1 DEF ValuesExist
    <3> QED  BY <1>15, <3>1
  <2> QED  BY <1>5, <1>8, <1>10, <1>11, <1>12, <2>4, <2>5, <2>6, <2>8, <2>9, <2>10 DEF SInv
<1> QED  BY <1>16, <1>17

(***************************************************************************)
(* The end of a lookup.                                                    *)
(***************************************************************************)

\* A value that is none becomes an alias of another one that is none.
LEMMA AliasSet ==
    ASSUME NEW a \in Seq(Nat), \A v \in 1 .. Len(a) : a[v] \in 1 .. Len(a) \cup {None}, Acyclic(a),
           NEW s \in 1 .. Len(a), NEW t \in 1 .. Len(a), a[s] = None, a[t] = None, s # t
    PROVE  LET c == [a EXCEPT ![s] = t]
           IN  /\ c \in Seq(Nat) /\ Len(c) = Len(a)
               /\ c[s] = t /\ \A v \in 1 .. Len(a) : v # s => c[v] = a[v]
               /\ \A v \in 1 .. Len(c) : c[v] \in 1 .. Len(c) \cup {None}
               /\ Acyclic(c)
<1> DEFINE c == [a EXCEPT ![s] = t]
<1>1. Len(a) \in Nat /\ t \in Nat
  OBVIOUS
<1>2. c \in Seq(Nat) /\ Len(c) = Len(a) /\ c[s] = t /\ \A v \in 1 .. Len(a) : v # s => c[v] = a[v]
  BY <1>1
<1> HIDE DEF c
<1>3. \A v \in 1 .. Len(c) : c[v] \in 1 .. Len(c) \cup {None}
  BY <1>2
<1>4. Acyclic(c)
  <2> SUFFICES ASSUME NEW S \in SUBSET (1 .. Len(a)), S # {} PROVE \E v \in S : c[v] \notin S
    BY <1>2 DEF Acyclic
  <2>1. PICK v \in S : a[v] \notin S
    BY DEF Acyclic
  <2>2. CASE v # s
    BY <1>2, <2>1, <2>2
  <2>3. CASE v = s /\ t \notin S
    BY <1>2, <2>3
  <2>4. CASE v = s /\ t \in S
    <3>1. c[t] = None /\ None \notin S
      BY <1>2, <2>4 DEF None
    <3> QED  BY <2>4, <3>1
  <2> QED  BY <2>2, <2>3, <2>4
<1> QED  BY <1>2, <1>3, <1>4 DEF c

\* What a finish takes off the stack and what it leaves there.
LEMMA DrainedFacts ==
    ASSUME NEW s \in Seq(Nat), NEW n \in Nat, n <= Len(s), NEW r \in Nat
    PROVE  LET top == SubSeq(s, Len(s) - n + 1, Len(s))
               new == Append(SubSeq(s, 1, Len(s) - n), r)
           IN  /\ top \in Seq(Nat) /\ Len(top) = n
               /\ \A i \in 1 .. n : \E j \in 1 .. Len(s) : top[i] = s[j]
               /\ new \in Seq(Nat) /\ Len(new) = Len(s) - n + 1
               /\ \A i \in 1 .. Len(new) : new[i] = r \/ \E j \in 1 .. Len(s) : new[i] = s[j]
<1> DEFINE l == Len(s)
           top == SubSeq(s, l - n + 1, l)
           rest == SubSeq(s, 1, l - n)
           new == Append(rest, r)
<1>1. l \in Nat /\ n <= l
  OBVIOUS
<1>2. top \in Seq(Nat) /\ Len(top) = n /\ \A i \in 1 .. n : top[i] = s[l - n + i]
  BY <1>1
<1>3. \A i \in 1 .. n : l - n + i \in 1 .. l
  BY <1>1
<1>4. rest \in Seq(Nat) /\ Len(rest) = l - n /\ \A i \in 1 .. (l - n) : rest[i] = s[i]
  BY <1>1
<1> HIDE DEF rest
<1>5. new \in Seq(Nat) /\ Len(new) = l - n + 1
      /\ \A i \in 1 .. (l - n + 1) : new[i] = IF i <= l - n THEN rest[i] ELSE r
  <2> DEFINE m == l - n
  <2>1. m \in Nat /\ rest \in Seq(Nat) /\ Len(rest) = m
    BY <1>1, <1>4
  <2> HIDE DEF m
  <2>2. new \in Seq(Nat) /\ Len(new) = m + 1 /\ \A i \in 1 .. (m + 1) : new[i] = IF i <= m THEN rest[i] ELSE r
    BY <2>1
  <2> QED  BY <2>2 DEF m
<1> HIDE DEF new
<1>6. ASSUME NEW i \in 1 .. Len(new) PROVE new[i] = r \/ \E j \in 1 .. l : new[i] = s[j]
  <2>1. i \in 1 .. (l - n + 1) /\ (i <= l - n => i \in 1 .. (l - n) /\ i \in 1 .. l)
    BY <1>1, <1>5
  <2> QED  BY <1>4, <1>5, <2>1
<1> QED  BY <1>2, <1>3, <1>5, <1>6 DEF new, rest

\* A parameter is taken out of its block; it may have become an alias.
LEMMA ParamRemoved ==
    ASSUME STypeOK, ParamsOK, NEW b \in Block, NEW k \in 1 .. Len(block_params[b]),
           block_params' = [block_params EXCEPT ![b] = RemoveAt(@, k)],
           Value \subseteq Value', \A v \in Value : v # block_params[b][k] => alias'[v] = alias[v]
    PROVE  /\ block_params' \in [Block -> Seq(Nat)]
           /\ ParamsOK'
           /\ Len(block_params'[b]) = Len(block_params[b]) - 1
           /\ \A c \in Block : c # b => block_params'[c] = block_params[c]
<1> DEFINE old == block_params[b]
           new == RemoveAt(old, k)
<1>0. block_params \in [Block -> Seq(Nat)]
  BY DEF STypeOK
<1>1. old \in Seq(Nat) /\ block_params \in [Block -> Seq(Nat)] /\ Len(old) \in Nat
  BY <1>0
<1>2. /\ new \in Seq(Nat) /\ Len(new) = Len(old) - 1
      /\ \A j \in 1 .. (Len(old) - 1) : new[j] = IF j < k THEN old[j] ELSE old[j + 1]
  <2>1. k \in 1 .. Len(old)
    OBVIOUS
  <2> HIDE DEF old
  <2> QED  BY <1>1, <2>1, RemoveAtFacts
<1> HIDE DEF new
<1>3. block_params'[b] = new /\ \A c \in Block : c # b => block_params'[c] = block_params[c]
  BY <1>1 DEF new
<1>4. block_params' \in [Block -> Seq(Nat)]
  BY <1>1, <1>2 DEF new
\* Where the i-th parameter was.
<1> DEFINE place(c, i) == IF c = b /\ i >= k THEN i + 1 ELSE i
<1>5. ASSUME NEW c \in Block, NEW i \in 1 .. Len(block_params'[c])
      PROVE  /\ place(c, i) \in 1 .. Len(block_params[c])
             /\ block_params'[c][i] = block_params[c][place(c, i)]
             /\ block_params'[c][i] # old[k]
             /\ i \in Int
  <2>1. CASE c = b
    <3>1. i \in 1 .. (Len(old) - 1)
      BY <1>2, <1>3, <2>1
    <3>2. new[i] = IF i < k THEN old[i] ELSE old[i + 1]
      BY <1>2, <3>1
    <3>3. place(c, i) \in 1 .. Len(old) /\ place(c, i) # k /\ new[i] = old[place(c, i)]
      BY <1>1, <2>1, <3>1, <3>2
    <3> HIDE DEF place
    <3> QED  BY <1>3, <2>1, <3>3 DEF ParamsOK
  <2>2. CASE c # b
    <3>1. place(c, i) = i /\ block_params'[c] = block_params[c]
      BY <1>3, <2>2
    <3> HIDE DEF place
    <3> QED  BY <2>2, <3>1 DEF ParamsOK
  <2> QED  BY <2>1, <2>2
<1>6. ASSUME NEW c \in Block, NEW i \in 1 .. Len(block_params'[c])
      PROVE  block_params'[c][i] \in Value' /\ alias'[block_params'[c][i]] = None
  <2> DEFINE j == place(c, i)
  <2>1. /\ j \in 1 .. Len(block_params[c]) /\ block_params'[c][i] = block_params[c][j]
        /\ block_params'[c][i] # block_params[b][k]
    BY <1>5
  <2> HIDE DEF j
  <2> QED  BY <2>1 DEF ParamsOK
<1>7. ASSUME NEW c \in Block, NEW d \in Block, NEW i \in 1 .. Len(block_params'[c]),
             NEW j \in 1 .. Len(block_params'[d]), block_params'[c][i] = block_params'[d][j]
      PROVE  c = d /\ i = j
  <2>1. c = d /\ place(c, i) = place(d, j)
    <3> DEFINE v == place(c, i)
               w == place(d, j)
    <3>1. /\ v \in 1 .. Len(block_params[c]) /\ block_params'[c][i] = block_params[c][v]
          /\ w \in 1 .. Len(block_params[d]) /\ block_params'[d][j] = block_params[d][w]
      BY <1>5
    <3> HIDE DEF v, w
    <3>2. c = d /\ v = w
      BY <1>7, <3>1 DEF ParamsOK
    <3> QED  BY <3>2 DEF v, w
  <2> QED  BY <1>5, <2>1
<1> QED  BY <1>2, <1>3, <1>4, <1>6, <1>7 DEF ParamsOK

\* The values that reach block b through its predecessors are there, and
\* resolve to values that are none.
LEMMA FinishFacts ==
    ASSUME SInv, MachineFinish, NEW b, NEW s, b = Head(calls).block, s = Head(calls).sentinel
    PROVE  /\ pc = "machine" /\ calls # <<>> /\ calls' = Tail(calls) /\ IsFinish(Head(calls))
           /\ UNCHANGED <<graph, position, body, variables, sealed, undef_variables, predecessors,
                          single_predecessor, stack_map_values, pc, look, seal>>
           /\ b \in Block /\ b \in sealed /\ s \in Value /\ s \in Nat /\ alias[s] = None
           /\ \E k \in 1 .. Len(block_params[b]) : block_params[b][k] = s
           /\ Len(predecessors[b]) \in Nat /\ Len(predecessors[b]) <= Len(results)
           /\ results \in Seq(Nat) /\ Height = Len(results)
           /\ LET vals == drained(Len(predecessors[b]))
              IN  /\ vals \in Seq(Nat) /\ Len(vals) = Len(predecessors[b])
                  /\ distinct_values(vals, s) \subseteq Value \ {s}
                  /\ \A v \in distinct_values(vals, s) : alias[v] = None
<1>1. /\ STypeOK /\ LookOK /\ ValuesExist /\ ParamsOK /\ CallsOK /\ StacksOK /\ Acyclic(alias)
  BY DEF SInv
<1>2. /\ pc = "machine" /\ calls # <<>> /\ Head(calls).op = "finish" /\ calls' = Tail(calls)
      /\ UNCHANGED <<graph, position, body, variables, sealed, undef_variables, predecessors,
                     single_predecessor, stack_map_values, pc, look, seal>>
  BY DEF MachineFinish, sealVars
<1>3. IsFinish(Head(calls)) /\ Head(calls) = calls[1] /\ 1 \in 1 .. Len(calls) /\ b \in Block
  <2>1. calls \in Seq(Call)
    BY <1>1 DEF STypeOK
  <2>2. Head(calls) = calls[1] /\ 1 \in 1 .. Len(calls) /\ calls[1] \in Call
    BY <1>2, <2>1
  <2> QED  BY <1>2, <2>2 DEF IsFinish, Call
<1>4. b \in sealed /\ \E k \in 1 .. Len(block_params[b]) : block_params[b][k] = s
  BY <1>1, <1>3 DEF CallsOK
<1>5. s \in Value /\ s \in Nat /\ alias[s] = None
  <2>1. s \in Value /\ alias[s] = None
    BY <1>1, <1>3, <1>4 DEF ParamsOK
  <2> QED  BY <2>1 DEF Value
<1> DEFINE n == Len(predecessors[b])
           vals == drained(n)
<1>6. n \in Nat /\ results \in Seq(Nat) /\ Height = Len(results)
  BY <1>1, <1>2, <1>3 DEF STypeOK, Height
<1>7. n <= Len(results)
  <2>1. PICK h : Heights(h, calls, predecessors, Height)
    BY <1>1, <1>2 DEF StacksOK
  <2>2. Height >= Len(predecessors[Head(calls).block])
    BY <1>1, <1>2, <1>3, <2>1, PopHeights
  <2> QED  BY <1>6, <2>2
<1>8. /\ vals \in Seq(Nat) /\ Len(vals) = n
      /\ \A i \in 1 .. n : \E j \in 1 .. Len(results) : vals[i] = results[j]
  <2> HIDE DEF n
  <2> QED  BY <1>6, <1>7, DrainedFacts DEF drained
<1> HIDE DEF n, vals
<1>9. ASSUME NEW i \in DOMAIN vals
      PROVE  resolve_aliases(vals[i]) \in Value /\ alias[resolve_aliases(vals[i])] = None
  <2> DEFINE v == vals[i]
  <2>1. v \in Value
    BY SMTT(60), <1>1, <1>8 DEF ValuesExist
  <2> HIDE DEF v
  <2>2. resolve_aliases(v) \in Value /\ alias[resolve_aliases(v)] = None
    <3>1. alias \in Seq(Nat) /\ \A w \in Value : alias[w] \in Value \cup {None}
      BY <1>1 DEF STypeOK, ValuesExist
    <3> QED  BY <1>1, <2>1, <3>1, ResolveEnds
  <2> QED  BY <2>2 DEF v
<1>10. /\ distinct_values(vals, s) \subseteq Value \ {s}
       /\ \A v \in distinct_values(vals, s) : alias[v] = None
  BY <1>9 DEF distinct_values
<1> QED  BY <1>2, <1>3, <1>4, <1>5, <1>6, <1>7, <1>8, <1>10 DEF n, vals

\* The lookup of b is over, the others go on waiting.
LEMMA FinishPops ==
    ASSUME SInv, MachineFinish, NEW b, b = Head(calls).block,
           \A c \in Block : c # b => block_params'[c] = block_params[c]
    PROVE  /\ CallsOK' /\ calls' \in Seq(Call)
           /\ Waiting(b) = 1 /\ Waiting(b)' = 0
           /\ \A c \in Block : c # b => Waiting(c)' = Waiting(c)
<1>1. /\ STypeOK /\ CallsOK
      /\ calls # <<>> /\ calls' = Tail(calls) /\ IsFinish(Head(calls)) /\ b \in Block
      /\ UNCHANGED <<variables, sealed, look>>
  BY FinishFacts DEF SInv
<1>2. ASSUME NEW i \in 2 .. Len(calls), IsFinish(calls[i])
      PROVE  WaitsRightly(calls[i].sentinel, calls[i].block)
  <2>0. calls \in Seq(Call)
    BY <1>1 DEF STypeOK
  <2>1. /\ 1 \in 1 .. Len(calls) /\ i \in 1 .. Len(calls) /\ i # 1
        /\ Head(calls) = calls[1] /\ calls[i] \in Call
    <3>1. Len(calls) \in Nat \ {0} /\ Head(calls) = calls[1]
      BY <1>1, <2>0, TailFacts
    <3>2. 1 \in 1 .. Len(calls) /\ i \in 1 .. Len(calls) /\ i # 1
      BY <3>1
    <3> QED  BY <2>0, <3>1, <3>2, ElementOfSeq
  <2>2. calls[i].block # b /\ calls[i].block \in Block
    BY <1>1, <1>2, <2>1 DEF CallsOK, Call
  <2>3. block_params'[calls[i].block] = block_params[calls[i].block]
    BY <2>2
  <2> QED  BY <1>1, <1>2, <2>1, <2>3 DEF CallsOK, WaitsRightly
<1>3. /\ CallsOK' /\ calls' \in Seq(Call)
      /\ \A c \in Block : Waiting(c)' =
            IF IsFinish(Head(calls)) /\ Head(calls).block = c THEN 0 ELSE Waiting(c)
      /\ IsFinish(Head(calls)) => Waiting(Head(calls).block) = 1
  BY <1>1, <1>2, PopKeepsCalls
<1> QED  BY <1>1, <1>3

\* The parameter now counts, if it is still there.
LEMMA FinishArity ==
    ASSUME SInv, MachineFinish, NEW b, b = Head(calls).block, NEW k \in Int,
           Len(block_params'[b]) = Len(block_params[b]) + k,
           \A c \in Block : c # b => block_params'[c] = block_params[c]
    PROVE  \A c \in Block : Arity(c) \in Int /\ Arity(c)' = IF c = b THEN Arity(c) + k + 1 ELSE Arity(c)
<1>1. STypeOK /\ b \in Block /\ UNCHANGED <<undef_variables, seal>>
  BY FinishFacts DEF SInv
<1>2. sealing' = sealing
  BY <1>1, SealingKept
<1>3. /\ Waiting(b) = 1 /\ Waiting(b)' = 0
      /\ \A c \in Block : c # b => Waiting(c)' = Waiting(c)
  BY FinishPops
<1>4. ASSUME NEW c \in Block PROVE Unsettled(c)' = Unsettled(c) + 0
  BY <1>1, <1>2, CountsAreNumbers DEF Unsettled
<1>5. Arity(b) \in Int /\ Arity(b)' = Arity(b) + k + 1
  <2>1. Waiting(b)' = Waiting(b) + (-1)
    BY <1>3
  <2>2. Unsettled(b)' = Unsettled(b) + 0
    BY <1>1, <1>4
  <2>3. Counted(b, k, -1, 0)
    BY <2>1, <2>2 DEF Counted
  <2>4. Arity(b) \in Int /\ Arity(b)' = Arity(b) + (k - (-1) - 0)
    BY <1>1, <2>3, ArityBalance
  <2> QED  BY <2>4
<1>6. ASSUME NEW c \in Block, c # b PROVE Arity(c) \in Int /\ Arity(c)' = Arity(c)
  <2>1. Waiting(c)' = Waiting(c) + 0 /\ Len(block_params'[c]) = Len(block_params[c]) + 0
    BY <1>1, <1>3, <1>6, CountsAreNumbers
  <2>2. Counted(c, 0, 0, 0)
    BY <1>4, <2>1 DEF Counted
  <2>3. Arity(c) \in Int /\ Arity(c)' = Arity(c) + (0 - 0 - 0)
    BY <1>1, <2>2, ArityBalance
  <2> QED  BY <2>3
<1> QED  BY <1>5, <1>6

\* What all outcomes have in common.
Finished(b, s, r) ==
    /\ results' = Append(undrained(Len(predecessors[b])), r)
    /\ r \in Value'
    /\ Value \subseteq Value'
    /\ alias' \in Seq(Nat)
    /\ \A v \in Value' : alias'[v] \in Value' \cup {None}
    /\ Acyclic(alias')
    /\ status' \in [Block -> {"empty", "partial", "filled"}]
    /\ \A p \in Block : status'[p] = "filled" <=> status[p] = "filled"
    /\ block_params' \in [Block -> Seq(Nat)] /\ ParamsOK'
    /\ \A c \in Block : c # b => block_params'[c] = block_params[c]
    /\ args' \in [Block -> Seq(Seq(Nat))]
    /\ \A p \in Block : Len(args'[p]) = Len(args[p])
    /\ zeros' \in [Block -> SUBSET Nat]
    /\ ArityOK' /\ StackMapped'

LEMMA FinishedKeeps ==
    ASSUME SInv, MachineFinish, NEW b, NEW s, NEW r, b = Head(calls).block, s = Head(calls).sentinel,
           Finished(b, s, r)
    PROVE  SInv'
<1>1. /\ STypeOK /\ LookOK /\ ValuesExist /\ ParamsOK /\ SealOK
      /\ PredecessorsOK /\ CallsOK /\ ArityOK /\ StacksOK
      /\ Acyclic(alias) /\ StackMapped
  BY DEF SInv
<1>2. /\ pc = "machine" /\ calls # <<>> /\ calls' = Tail(calls) /\ IsFinish(Head(calls))
      /\ UNCHANGED <<graph, position, body, variables, sealed, undef_variables, predecessors,
                     single_predecessor, stack_map_values, pc, look, seal>>
      /\ b \in Block
      /\ Len(predecessors[b]) \in Nat /\ Len(predecessors[b]) <= Len(results)
      /\ results \in Seq(Nat) /\ Height = Len(results)
  BY FinishFacts
<1> DEFINE n == Len(predecessors[b])
<1>3. /\ results' \in Seq(Nat) /\ Len(results') = Len(results) - n + 1
      /\ \A i \in 1 .. Len(results') : results'[i] = r \/ \E j \in 1 .. Len(results) : results'[i] = results[j]
  <2>1. n \in Nat /\ n <= Len(results) /\ r \in Nat /\ results \in Seq(Nat)
        /\ results' = Append(SubSeq(results, 1, Len(results) - n), r)
    BY <1>2 DEF Finished, undrained, Value
  <2> DEFINE new == Append(SubSeq(results, 1, Len(results) - n), r)
  <2> HIDE DEF n
  <2>0. n \in Nat /\ n <= Len(results) /\ r \in Nat /\ results \in Seq(Nat)
    BY <2>1
  <2>2. /\ new \in Seq(Nat) /\ Len(new) = Len(results) - n + 1
        /\ \A i \in 1 .. Len(new) : new[i] = r \/ \E j \in 1 .. Len(results) : new[i] = results[j]
    BY ONLY <2>0, DrainedFacts
  <2>3. results' = new
    BY <2>1
  <2> HIDE DEF new
  <2> QED  BY <2>2, <2>3
<1>4. CallsOK' /\ calls' \in Seq(Call)
  <2>1. \A c \in Block : c # b => block_params'[c] = block_params[c]
    BY DEF Finished
  <2> QED  BY <2>1, FinishPops
<1>5. STypeOK'
  BY <1>1, <1>2, <1>3, <1>4 DEF STypeOK, Finished
<1>6. LookOK'
  BY <1>1, <1>2 DEF LookOK
<1>7. ValuesExist'
  <2>1. \A i \in 1 .. Len(results') : results'[i] \in Value'
    BY <1>1, <1>3 DEF ValuesExist, Finished
  <2> QED  BY <1>1, <1>2, <2>1 DEF ValuesExist, Finished
<1>8. DefinitionsStay
  BY <1>2 DEF DefinitionsStay
<1>9. SealOK'
  <2>1. seal.todo = {} \/ seal.open
    BY <1>1, <1>2 DEF SealOK
  <2> QED  BY <1>1, <1>2, <1>5, <1>8, <2>1, SealFrame
<1>10. PredecessorsOK'
  <2>1. \A p, c \in Block : leads_to(p, c)' <=> leads_to(p, c)
    BY <1>2 DEF leads_to
  <2>2. \A p \in Block : Len(args'[p]) = Len(args[p]) /\ (status'[p] = "filled" <=> status[p] = "filled")
    BY DEF Finished
  <2>3. sealed' \cup seal'.todo \subseteq Block
    BY <1>5 DEF STypeOK
  <2>4. ASSUME NEW c \in sealed' \cup seal'.todo, NEW p \in Block, leads_to(p, c)'
        PROVE  status'[p] = "filled"
    BY <1>1, <1>2, <2>1, <2>2, <2>3, <2>4 DEF PredecessorsOK
  <2>5. ASSUME NEW c \in Block, NEW p \in Block, status'[p] = "filled", leads_to(p, c)'
        PROVE  \E j \in 1 .. Len(predecessors'[c]) : predecessors'[c][j] = p
    BY <1>1, <1>2, <2>1, <2>2, <2>5 DEF PredecessorsOK
  <2>6. ASSUME NEW p \in Block
        PROVE  Len(args'[p]) = IF status'[p] = "filled" THEN Len(graph'[p]) ELSE 0
    BY <1>1, <1>2, <2>2 DEF PredecessorsOK
  <2> QED  BY <2>4, <2>5, <2>6 DEF PredecessorsOK
<1>11. StacksOK'
  <2>1. PICK h : Heights(h, calls, predecessors, Height)
    BY <1>1, <1>2 DEF StacksOK
  <2>2. \E g : Heights(g, Tail(calls), predecessors, After(Head(calls), Height))
    BY <1>1, <1>2, <2>1, PopHeights
  <2>3. Height' = After(Head(calls), Height)
    BY <1>2, <1>3 DEF After, Height
  <2> QED  BY <1>2, <2>2, <2>3 DEF StacksOK
<1> QED  BY <1>4, <1>5, <1>6, <1>7, <1>9, <1>10, <1>11 DEF SInv, Finished

\* The parameter became another name of a value.
LEMMA ReplacedFacts ==
    ASSUME SInv, MachineFinish, NEW b, NEW s, b = Head(calls).block, s = Head(calls).sentinel,
           NEW v, NEW a, replaced(s, b, v, a),
           a \in Seq(Nat), \A w \in 1 .. Len(a) : a[w] \in 1 .. Len(a) \cup {None}, Acyclic(a),
           Value \subseteq 1 .. Len(a), \A w \in Value : a[w] = alias[w],
           v \in 1 .. Len(a), a[v] = None, v # s
    PROVE  /\ Value' = 1 .. Len(a)
           /\ alias' \in Seq(Nat)
           /\ \A w \in Value' : alias'[w] \in Value' \cup {None}
           /\ Acyclic(alias')
           /\ block_params' \in [Block -> Seq(Nat)] /\ ParamsOK'
           /\ \A c \in Block : c # b => block_params'[c] = block_params[c]
           /\ UNCHANGED args
           /\ ArityOK'
<1>1. /\ STypeOK /\ ParamsOK /\ PredecessorsOK /\ ArityOK /\ UNCHANGED <<graph, sealed>>
      /\ b \in Block /\ s \in Value /\ alias[s] = None
  BY FinishFacts DEF SInv
<1>2. /\ alias' = [a EXCEPT ![s] = v] /\ UNCHANGED args
  BY DEF replaced
<1>3. PICK k \in DOMAIN block_params[b] :
         block_params[b][k] = s /\ block_params' = [block_params EXCEPT ![b] = RemoveAt(@, k)]
  BY DEF replaced
<1>4. k \in 1 .. Len(block_params[b]) /\ Len(block_params[b]) \in Nat
  <2>1. block_params[b] \in Seq(Nat)
    BY <1>1 DEF STypeOK
  <2>2. k \in DOMAIN block_params[b]
    BY <1>3
  <2> QED  BY ONLY <2>1, <2>2
<1>5. s \in 1 .. Len(a) /\ a[s] = None
  BY <1>1
<1>6. /\ alias' \in Seq(Nat) /\ Len(alias') = Len(a)
      /\ \A w \in 1 .. Len(a) : w # s => alias'[w] = a[w]
      /\ \A w \in 1 .. Len(alias') : alias'[w] \in 1 .. Len(alias') \cup {None}
      /\ Acyclic(alias')
  <2> DEFINE c == [a EXCEPT ![s] = v]
  <2>1. /\ c \in Seq(Nat) /\ Len(c) = Len(a)
        /\ \A w \in 1 .. Len(a) : w # s => c[w] = a[w]
        /\ \A w \in 1 .. Len(c) : c[w] \in 1 .. Len(c) \cup {None}
        /\ Acyclic(c)
    <3>1. /\ a \in Seq(Nat) /\ Acyclic(a) /\ v \in 1 .. Len(a) /\ a[v] = None /\ s # v
          /\ \A w \in 1 .. Len(a) : a[w] \in 1 .. Len(a) \cup {None}
      OBVIOUS
    <3> QED  BY ONLY <1>5, <3>1, AliasSet
  <2>2. alias' = c
    BY <1>2
  <2> HIDE DEF c
  <2> QED  BY <2>1, <2>2
<1>7. Value' = 1 .. Len(a)
  BY <1>6 DEF Value
<1>8. /\ block_params' \in [Block -> Seq(Nat)]
      /\ ParamsOK'
      /\ Len(block_params'[b]) = Len(block_params[b]) - 1
      /\ \A c \in Block : c # b => block_params'[c] = block_params[c]
  <2>1. Value \subseteq Value' /\ \A w \in Value : w # block_params[b][k] => alias'[w] = alias[w]
    BY <1>3, <1>6, <1>7
  <2> QED  BY <1>1, <1>3, <1>4, <2>1, ParamRemoved
<1>9. \A c \in Block : Arity(c)' = Arity(c)
  <2>1. Len(block_params'[b]) = Len(block_params[b]) + (-1) /\ -1 \in Int
    BY <1>4, <1>8
  <2>2. \A c \in Block : Arity(c) \in Int /\ Arity(c)' = IF c = b THEN Arity(c) + (-1) + 1 ELSE Arity(c)
    BY <1>8, <2>1, FinishArity
  <2> QED  BY <2>2
<1>10. ArityOK'
  BY <1>1, <1>2, <1>9, ArityKept
<1> QED  BY <1>2, <1>6, <1>7, <1>8, <1>10

LEMMA FinishWithValueKeeps ==
    ASSUME SInv, MachineFinish, NEW b, NEW s, b = Head(calls).block, s = Head(calls).sentinel,
           NEW v, v \in distinct_values(drained(Len(predecessors[b])), s), finish_with_value(s, b, v)
    PROVE  SInv'
<1>1. /\ STypeOK /\ ValuesExist /\ StackMapped /\ Acyclic(alias)
      /\ v \in Value /\ v # s /\ alias[v] = None /\ UNCHANGED stack_map_values
  BY FinishFacts DEF SInv
<1>2. /\ replaced(s, b, v, alias) /\ UNCHANGED <<zeros, status>>
      /\ results' = Append(undrained(Len(predecessors[b])), v)
  BY DEF finish_with_value
<1>3. /\ Value' = 1 .. Len(alias)
      /\ alias' \in Seq(Nat)
      /\ \A w \in Value' : alias'[w] \in Value' \cup {None}
      /\ Acyclic(alias')
      /\ block_params' \in [Block -> Seq(Nat)] /\ ParamsOK'
      /\ \A c \in Block : c # b => block_params'[c] = block_params[c]
      /\ UNCHANGED args
      /\ ArityOK'
  <2> DEFINE a == alias
  <2>1. /\ a \in Seq(Nat) /\ (\A w \in 1 .. Len(a) : a[w] \in 1 .. Len(a) \cup {None}) /\ Acyclic(a)
        /\ Value \subseteq 1 .. Len(a) /\ \A w \in Value : a[w] = alias[w]
        /\ v \in 1 .. Len(a) /\ a[v] = None /\ replaced(s, b, v, a)
    BY <1>1, <1>2 DEF STypeOK, ValuesExist, Value
  <2> QED  BY <1>1, <2>1, ReplacedFacts
<1>4. Value' = Value /\ v \in Value'
  BY <1>1, <1>3 DEF Value
<1>5. StackMapped'
  BY <1>1, <1>2, <1>4 DEF StackMapped
<1>6. Finished(b, s, v)
  BY <1>1, <1>2, <1>3, <1>4, <1>5 DEF Finished, STypeOK
<1> QED  BY <1>6, FinishedKeeps

\* The 0 is a new value at the start of the block.
LEMMA FinishWithZeroKeeps ==
    ASSUME SInv, MachineFinish, NEW b, NEW s, b = Head(calls).block, s = Head(calls).sentinel,
           finish_with_zero(s, b)
    PROVE  SInv'
<1>0. PICK n : n = new_value
  OBVIOUS
<1>1. /\ STypeOK /\ ValuesExist /\ StackMapped /\ Acyclic(alias)
      /\ b \in Block /\ s \in Value /\ UNCHANGED stack_map_values
  BY FinishFacts DEF SInv
<1>2. /\ replaced(s, b, n, Append(alias, None))
      /\ zeros' = [zeros EXCEPT ![b] = @ \cup {n}]
      /\ status' = [status EXCEPT ![b] = IF @ = "empty" THEN "partial" ELSE @]
      /\ results' = Append(undrained(Len(predecessors[b])), n)
  BY <1>0 DEF finish_with_zero
<1> DEFINE a == Append(alias, None)
<1>3. /\ a \in Seq(Nat) /\ Len(a) = n
      /\ (\A w \in 1 .. Len(a) : a[w] \in 1 .. Len(a) \cup {None}) /\ Acyclic(a)
      /\ \A w \in Value : a[w] = alias[w]
      /\ 1 .. Len(a) = Value \cup {n} /\ a[n] = None /\ n \notin Value /\ n \in Nat
  BY <1>0, <1>1, AppendedAlias
<1> HIDE DEF a
<1>4. /\ Value' = 1 .. Len(a)
      /\ alias' \in Seq(Nat)
      /\ \A w \in Value' : alias'[w] \in Value' \cup {None}
      /\ Acyclic(alias')
      /\ block_params' \in [Block -> Seq(Nat)] /\ ParamsOK'
      /\ \A c \in Block : c # b => block_params'[c] = block_params[c]
      /\ UNCHANGED args
      /\ ArityOK'
  <2>1. replaced(s, b, n, a)
    BY <1>2 DEF a
  <2>2. /\ Value \subseteq 1 .. Len(a) /\ n \in 1 .. Len(a) /\ n # s /\ a[n] = None
        /\ a \in Seq(Nat) /\ Acyclic(a)
    BY <1>1, <1>3
  <2>3. (\A w \in 1 .. Len(a) : a[w] \in 1 .. Len(a) \cup {None}) /\ \A w \in Value : a[w] = alias[w]
    BY <1>3
  <2> QED  BY SMTT(60), <2>1, <2>2, <2>3, ReplacedFacts
<1>5. Value' = Value \cup {n}
  BY <1>3, <1>4
<1>6. zeros' \in [Block -> SUBSET Nat] /\ n \in zeros'[b] /\ \A c \in Block : zeros[c] \subseteq zeros'[c]
  <2>1. zeros \in [Block -> SUBSET Nat]
    BY <1>1 DEF STypeOK
  <2> QED  BY <1>1, <1>2, <1>3, <2>1
<1>7. StackMapped'
  BY <1>1, <1>5, <1>6 DEF StackMapped
<1>8. /\ status' \in [Block -> {"empty", "partial", "filled"}]
      /\ \A p \in Block : status'[p] = "filled" <=> status[p] = "filled"
  <2>1. status \in [Block -> {"empty", "partial", "filled"}]
    BY <1>1 DEF STypeOK
  <2> QED  BY <1>1, <1>2, <2>1
<1>9. Finished(b, s, n)
  BY <1>1, <1>2, <1>4, <1>5, <1>6, <1>7, <1>8 DEF Finished, STypeOK
<1> QED  BY <1>9, FinishedKeeps

\* Every branch to b gets one more argument: its block is a predecessor of b,
\* for which there is a value.
LEMMA ArgumentsPassed ==
    ASSUME STypeOK, PredecessorsOK, NEW b \in Block, NEW s, NEW vals \in Seq(Nat),
           Len(vals) = Len(predecessors[b]), finish_with_param(s, b, vals)
    PROVE  /\ args' \in [Block -> Seq(Seq(Nat))]
           /\ \A p \in Block : Len(args'[p]) = Len(args[p])
           /\ \A p \in Block : \A d \in 1 .. Len(args[p]) :
                 Len(args'[p][d]) = IF graph[p][d] = b THEN Len(args[p][d]) + 1 ELSE Len(args[p][d])
<1> DEFINE from(p) == {j \in DOMAIN vals : predecessors[b][j] = p}
           more(p, d) == IF graph[p][d] = b /\ from(p) # {}
                         THEN Append(args[p][d], vals[CHOOSE j \in from(p) : TRUE]) ELSE args[p][d]
           new(p) == [d \in DOMAIN args[p] |-> more(p, d)]
<1>1. args' = [p \in Block |-> new(p)]
  BY DEF finish_with_param
<1>2. ASSUME NEW p \in Block, NEW d \in 1 .. Len(args[p])
      PROVE  /\ more(p, d) \in Seq(Nat)
             /\ Len(more(p, d)) = IF graph[p][d] = b THEN Len(args[p][d]) + 1 ELSE Len(args[p][d])
  <2>1. args[p] \in Seq(Seq(Nat)) /\ args[p][d] \in Seq(Nat)
    <3>1. args[p] \in Seq(Seq(Nat))
      BY DEF STypeOK
    <3> QED  BY <3>1
  <2>2. CASE graph[p][d] = b
    <3>1. status[p] = "filled" /\ leads_to(p, b)
      <4>1. graph[p] \in Seq(Block) /\ Len(args[p]) = Len(graph[p]) /\ status[p] = "filled"
        BY <2>1 DEF STypeOK, PredecessorsOK
      <4> QED  BY <2>2, <4>1 DEF leads_to
    <3>2. PICK j \in 1 .. Len(predecessors[b]) : predecessors[b][j] = p
      BY <3>1 DEF PredecessorsOK
    <3>3. j \in from(p)
      BY <3>2
    <3> HIDE DEF from
    <3>4. (CHOOSE k \in from(p) : TRUE) \in from(p) /\ from(p) # {}
      BY <3>3
    <3>5. PICK k \in DOMAIN vals : more(p, d) = Append(args[p][d], vals[k])
      BY <2>2, <3>4 DEF from
    <3> HIDE DEF more
    <3>6. vals[k] \in Nat
      BY <3>5
    <3> QED  BY <2>1, <2>2, <3>5, <3>6
  <2>3. CASE graph[p][d] # b
    BY <2>1, <2>3
  <2> QED  BY <2>2, <2>3
<1> HIDE DEF more
<1>3. ASSUME NEW p \in Block
      PROVE  new(p) \in Seq(Seq(Nat)) /\ Len(new(p)) = Len(args[p])
             /\ \A d \in 1 .. Len(args[p]) : new(p)[d] = more(p, d)
  <2>1. args[p] \in Seq(Seq(Nat)) /\ Len(args[p]) \in Nat /\ DOMAIN args[p] = 1 .. Len(args[p])
    BY DEF STypeOK
  <2> DEFINE l == Len(args[p])
  <2>2. new(p) = [d \in 1 .. l |-> more(p, d)]
    BY <2>1
  <2>3. l \in Nat /\ \A d \in 1 .. l : more(p, d) \in Seq(Nat)
    BY <1>2, <2>1
  <2> HIDE DEF new, l
  <2>4. new(p) \in Seq(Seq(Nat)) /\ Len(new(p)) = l /\ \A d \in 1 .. l : new(p)[d] = more(p, d)
    BY <2>2, <2>3
  <2> QED  BY <2>4 DEF l
<1> HIDE DEF new
<1>4. \A p \in Block : args'[p] = new(p)
  BY <1>1
<1>5. args' \in [Block -> Seq(Seq(Nat))]
  BY <1>1, <1>3
<1> QED  BY <1>2, <1>3, <1>4, <1>5

LEMMA FinishWithParamKeeps ==
    ASSUME SInv, MachineFinish, NEW b, NEW s, b = Head(calls).block, s = Head(calls).sentinel,
           finish_with_param(s, b, drained(Len(predecessors[b])))
    PROVE  SInv'
<1> DEFINE vals == drained(Len(predecessors[b]))
<1>1. /\ STypeOK /\ ValuesExist /\ ParamsOK /\ PredecessorsOK /\ ArityOK /\ StackMapped /\ Acyclic(alias)
      /\ b \in Block /\ b \in sealed /\ s \in Value /\ UNCHANGED <<stack_map_values, graph, sealed>>
      /\ vals \in Seq(Nat) /\ Len(vals) = Len(predecessors[b])
  BY FinishFacts DEF SInv
<1>2. /\ UNCHANGED <<block_params, alias, zeros, status>>
      /\ results' = Append(undrained(Len(predecessors[b])), s)
  BY <1>1 DEF finish_with_param
<1>3. /\ args' \in [Block -> Seq(Seq(Nat))]
      /\ \A p \in Block : Len(args'[p]) = Len(args[p])
      /\ \A p \in Block : \A d \in 1 .. Len(args[p]) :
            Len(args'[p][d]) = IF graph[p][d] = b THEN Len(args[p][d]) + 1 ELSE Len(args[p][d])
  <2>1. finish_with_param(s, b, vals)
    OBVIOUS
  <2> HIDE DEF vals
  <2> QED  BY <1>1, <2>1, ArgumentsPassed
<1> HIDE DEF vals
<1>4. \A c \in Block : Arity(c) \in Int /\ Arity(c)' = IF c = b THEN Arity(c) + 1 ELSE Arity(c)
  <2>1. Len(block_params'[b]) = Len(block_params[b]) + 0 /\ 0 \in Int
    BY <1>1, <1>2, CountsAreNumbers
  <2>2. \A c \in Block : Arity(c) \in Int /\ Arity(c)' = IF c = b THEN Arity(c) + 0 + 1 ELSE Arity(c)
    BY <1>2, <2>1, FinishArity
  <2> QED  BY <2>2
<1>5. ArityOK'
  <2>1. \A c \in Block : Arity(c)' \in Nat /\ (c \notin sealed' => Arity(c)' = 0)
    BY <1>1, <1>4 DEF ArityOK
  <2>2. ASSUME NEW p \in Block, NEW d \in 1 .. Len(args'[p])
        PROVE  /\ graph'[p][d] \in Block
               /\ Len(args'[p][d]) = IF graph'[p][d] = b THEN Arity(b) + 1 ELSE Arity(graph[p][d])
    <3>1. d \in 1 .. Len(args[p])
      BY <1>3
    <3>2. graph[p][d] \in Block /\ graph' = graph
      BY <1>1, <3>1, DestinationIsBlock
    <3>3. Len(args[p][d]) = Arity(graph[p][d])
      BY <1>1, <3>1 DEF ArityOK
    <3>4. Len(args'[p][d]) = IF graph[p][d] = b THEN Len(args[p][d]) + 1 ELSE Len(args[p][d])
      BY <1>3, <3>1
    <3> QED  BY <3>2, <3>3, <3>4
  <2>3. \A p \in Block : \A d \in 1 .. Len(args'[p]) : Len(args'[p][d]) = Arity(graph[p][d])'
    BY <1>1, <1>4, <2>2
  <2> QED  BY <2>1, <2>3 DEF ArityOK
<1>6. ParamsOK' /\ StackMapped'
  BY <1>1, <1>2, ParamsFrame, StackMapFrame
<1>7. Value' = Value
  BY <1>2 DEF Value
<1>8. Finished(b, s, s)
  BY <1>1, <1>2, <1>3, <1>5, <1>6, <1>7 DEF Finished, STypeOK, ValuesExist
<1> QED  BY <1>8, FinishedKeeps

LEMMA MachineFinishKeeps == ASSUME SInv, MachineFinish PROVE SInv'
<1>1. PICK b, s : b = Head(calls).block /\ s = Head(calls).sentinel
  OBVIOUS
<1> DEFINE vals == drained(Len(predecessors[b]))
<1>2. \/ finish_with_zero(s, b)
      \/ \E v \in distinct_values(vals, s) : finish_with_value(s, b, v)
      \/ finish_with_param(s, b, vals)
  BY <1>1 DEF MachineFinish
<1>3. CASE finish_with_zero(s, b)
  BY <1>1, <1>3, FinishWithZeroKeeps
<1>4. CASE \E v \in distinct_values(vals, s) : finish_with_value(s, b, v)
  <2>1. PICK v \in distinct_values(vals, s) : finish_with_value(s, b, v)
    BY <1>4
  <2> QED  BY <1>1, <2>1, FinishWithValueKeeps
<1>5. CASE finish_with_param(s, b, vals)
  BY <1>1, <1>5, FinishWithParamKeeps
<1> QED  BY <1>2, <1>3, <1>4, <1>5

(***************************************************************************)
(* Sealing.                                                                *)
(***************************************************************************)

\* While no lookup runs the arity of a block depends on its placeholders alone.
LEMMA ArityBetweenLookups ==
    ASSUME STypeOK, PredecessorsOK, ArityOK, calls = <<>>, calls' = <<>>,
           UNCHANGED <<graph, args, block_params>>, sealed \subseteq sealed',
           \A c \in Block : Unsettled(c)' = Unsettled(c)
    PROVE  ArityOK'
<1>1. ASSUME NEW c \in Block PROVE Arity(c)' = Arity(c)
  <2>1. Waiting(c) = 0 /\ Waiting(c)' = 0
    BY NoCalls, NobodyWaits
  <2> QED  BY <2>1 DEF Arity
<1>2. \A c \in Block : Arity(c)' \in Nat /\ (c \notin sealed' => Arity(c)' = 0)
  BY <1>1 DEF ArityOK
<1>3. ASSUME NEW q \in Block, NEW i \in 1 .. Len(args'[q])
      PROVE  Len(args'[q][i]) = Arity(graph[q][i])'
  <2>1. i \in 1 .. Len(args[q]) /\ graph[q][i] \in Block
    BY DestinationIsBlock
  <2>2. Len(args[q][i]) = Arity(graph[q][i])
    BY <2>1 DEF ArityOK
  <2> QED  BY <1>1, <2>1, <2>2
<1> QED  BY <1>2, <1>3 DEF ArityOK

\* What is the same after a step of the sealing that starts no lookup.
LEMMA SealingKeeps ==
    ASSUME SInv, pc \in {"seal", "idle"}, pc' \in {"seal", "idle"},
           UNCHANGED <<clientVars, variables, predecessors, calls, results, stack_map_values,
                       funcVars, look>>,
           sealed \subseteq sealed', sealed' \in SUBSET Block,
           \A c \in sealed' \cup seal'.todo, q \in Block : leads_to(q, c) => status[q] = "filled",
           undef_variables' \in [Block -> Seq(Variable)],
           single_predecessor' \in [Block -> SUBSET Block],
           seal' \in [todo : SUBSET Block, open : BOOLEAN, idx : Nat],
           \A c \in Block : Unsettled(c)' = Unsettled(c),
           SealOK'
    PROVE  SInv'
<1>1. /\ STypeOK /\ LookOK /\ ValuesExist /\ ParamsOK /\ SealOK
      /\ PredecessorsOK /\ CallsOK /\ ArityOK /\ StacksOK
      /\ Acyclic(alias) /\ StackMapped
  BY DEF SInv
<1>2. UNCHANGED <<graph, position, status, body, variables, predecessors, calls, results,
                  stack_map_values, block_params, args, alias, zeros, look>>
  BY DEF clientVars, funcVars
<1>3. calls = <<>> /\ results = <<>>
  BY <1>1 DEF StacksOK
<1>4. STypeOK'
  BY <1>1, <1>2 DEF STypeOK
<1>5. LookOK'
  BY DEF LookOK
<1>6. PredecessorsOK'
  <2>1. \A q, c \in Block : leads_to(q, c)' <=> leads_to(q, c)
    BY <1>2 DEF leads_to
  <2>2. sealed' \cup seal'.todo \subseteq Block
    BY <1>4 DEF STypeOK
  <2>3. \A c \in sealed' \cup seal'.todo, q \in Block : leads_to(q, c)' => status'[q] = "filled"
    BY <1>2, <2>1, <2>2
  <2>4. \A c, q \in Block : status'[q] = "filled" /\ leads_to(q, c)' =>
           \E j \in 1 .. Len(predecessors'[c]) : predecessors'[c][j] = q
    BY <1>1, <1>2, <2>1 DEF PredecessorsOK
  <2>5. \A q \in Block : Len(args'[q]) = IF status'[q] = "filled" THEN Len(graph'[q]) ELSE 0
    BY <1>1, <1>2 DEF PredecessorsOK
  <2> QED  BY <2>3, <2>4, <2>5 DEF PredecessorsOK
<1>7. CallsOK' /\ StacksOK'
  BY <1>2, <1>3, NoCalls DEF StacksOK
<1>8. ArityOK'
  BY <1>1, <1>2, <1>3, ArityBetweenLookups
<1> QED  BY <1>1, <1>2, <1>4, <1>5, <1>6, <1>7, <1>8, ValuesFrame, ParamsFrame, StackMapFrame DEF SInv

LEMMA SealBeginKeeps == ASSUME SInv, SealBegin PROVE SInv'
<1>0. PICK b : b = sealing
  OBVIOUS
<1>1. STypeOK /\ SealOK /\ seal \in [todo : SUBSET Block, open : BOOLEAN, idx : Nat]
  BY DEF SInv, STypeOK
<1>2. /\ pc = "seal" /\ ~seal.open /\ sealed' = sealed \cup {b}
      /\ single_predecessor' = [single_predecessor EXCEPT ![b] =
             IF Len(predecessors[b]) = 1 THEN {predecessors[b][1]} ELSE {}]
      /\ UNCHANGED <<clientVars, variables, undef_variables, predecessors, calls, results,
                     stack_map_values, funcVars, look>>
  BY <1>0 DEF SealBegin
<1>3. b \in seal.todo /\ b \in Block /\ seal.todo \cap sealed = {} /\ seal.idx = 0
      /\ \A c \in sealed : undef_variables[c] = <<>>
  <2>1. seal.todo # {}
    BY <1>1, <1>2 DEF SealOK
  <2>2. \A c \in sealed : undef_variables[c] = <<>>
    BY <1>1, <1>2 DEF SealOK
  <2>3. seal.todo \cap sealed = {} /\ seal.idx = 0
    BY <1>1, <1>2 DEF SealOK
  <2> QED  BY <1>0, <1>1, <2>1, <2>2, <2>3, SealingIsNext
<1>4. /\ sealed \subseteq sealed' /\ undef_variables' \in [Block -> Seq(Variable)]
      /\ single_predecessor' \in [Block -> SUBSET Block]
  <2>1. predecessors[b] \in Seq(Block)
    BY <1>1, <1>3 DEF STypeOK
  <2>2. Len(predecessors[b]) = 1 => predecessors[b][1] \in Block
    BY <2>1
  <2>3. single_predecessor \in [Block -> SUBSET Block] /\ undef_variables \in [Block -> Seq(Variable)]
    BY <1>1 DEF STypeOK
  <2> QED  BY <1>2, <1>3, <2>2, <2>3
<1>5. \A c \in Block : Unsettled(c) = Len(undef_variables[c]) /\ Len(undef_variables[c]) \in Nat
  BY <1>1, <1>2 DEF STypeOK, Unsettled
<1>6. \A c \in Block : \A i \in 1 .. Len(undef_variables'[c]) :
         variables'[undef_variables'[c][i]][c] # None
  BY <1>1, <1>2 DEF SealOK
<1>61. /\ sealed' \in SUBSET Block
       /\ \A c \in sealed' \cup seal.todo, q \in Block : leads_to(q, c) => status[q] = "filled"
  <2>1. PredecessorsOK
    BY DEF SInv
  <2> QED  BY ZenonT(60), <1>1, <1>2, <1>3, <2>1 DEF STypeOK, PredecessorsOK
<1>7. CASE undef_variables[b] = <<>>
  <2>1. /\ seal' = [todo |-> seal.todo \ {b}, open |-> FALSE, idx |-> 0]
        /\ pc' = IF seal.todo = {b} THEN "idle" ELSE "seal"
    BY <1>0, <1>7 DEF SealBegin, next_block
  <2>2. seal'.todo = seal.todo \ {b} /\ ~seal'.open /\ seal'.idx = 0
        /\ seal' \in [todo : SUBSET Block, open : BOOLEAN, idx : Nat]
    BY <1>1, <2>1
  <2>3. \A c \in Block : Unsettled(c)' = Unsettled(c)
    BY <1>2, <1>5, <2>2 DEF Unsettled
  <2>4. SealOK'
    <3>1. (pc' = "idle" => seal'.todo = {}) /\ (pc' = "seal" => seal'.todo # {}) /\ pc' \in {"idle", "seal"}
      BY <1>3, <2>1, <2>2
    <3>2. seal'.todo \cap sealed' = {}
      BY <1>2, <1>3, <2>2
    <3>3. \A c \in sealed' : undef_variables'[c] = <<>>
      BY <1>2, <1>3, <1>7
    <3> QED  BY <1>6, <2>2, <3>1, <3>2, <3>3 DEF SealOK
  <2> QED  BY <1>2, <1>4, <1>61, <2>1, <2>2, <2>3, <2>4, SealingKeeps
<1>8. CASE undef_variables[b] # <<>>
  <2>1. seal' = [seal EXCEPT !.open = TRUE] /\ pc' = pc
    BY <1>0, <1>8 DEF SealBegin
  <2>2. seal'.todo = seal.todo /\ seal'.open /\ seal'.idx = 0
        /\ seal' \in [todo : SUBSET Block, open : BOOLEAN, idx : Nat]
    BY <1>1, <1>3, <2>1
  <2>3. sealing' = b
    BY <1>0, <2>2, SealingKept
  <2>4. \A c \in Block : Unsettled(c)' = Unsettled(c)
    BY <1>2, <1>5, <2>2 DEF Unsettled
  <2>5. SealOK'
    <3>1. seal'.todo \cap sealed' = {b} /\ seal'.todo # {} /\ pc' = "seal"
      BY <1>2, <1>3, <2>1, <2>2
    <3>2. \A c \in sealed' : undef_variables'[c] = <<>> \/ c = b
      BY <1>2, <1>3
    <3>3. seal'.idx <= Len(undef_variables'[b])
      BY <1>2, <1>3, <1>5, <2>2
    <3> QED  BY <1>6, <2>2, <2>3, <3>1, <3>2, <3>3 DEF SealOK
  <2> QED  BY <1>2, <1>4, <1>61, <2>1, <2>2, <2>4, <2>5, SealingKeeps
<1> QED  BY <1>7, <1>8

LEMMA SealEndKeeps == ASSUME SInv, SealEnd PROVE SInv'
<1>0. PICK b : b = sealing
  OBVIOUS
<1>1. STypeOK /\ SealOK /\ seal \in [todo : SUBSET Block, open : BOOLEAN, idx : Nat]
  BY DEF SInv, STypeOK
<1>2. /\ pc = "seal" /\ seal.open /\ seal.idx = Len(undef_variables[b])
      /\ undef_variables' = [undef_variables EXCEPT ![b] = <<>>]
      /\ seal' = [todo |-> seal.todo \ {b}, open |-> FALSE, idx |-> 0]
      /\ pc' = IF seal.todo = {b} THEN "idle" ELSE "seal"
      /\ UNCHANGED <<clientVars, variables, sealed, predecessors, single_predecessor, calls,
                     results, stack_map_values, funcVars, look>>
  BY <1>0 DEF SealEnd, next_block
<1>3. b \in seal.todo /\ b \in Block /\ seal.todo \cap sealed = {b}
      /\ \A c \in sealed : undef_variables[c] = <<>> \/ c = b
  <2>1. seal.todo # {}
    BY <1>1, <1>2 DEF SealOK
  <2>2. seal.todo \cap sealed = {b}
    BY <1>0, <1>1, <1>2 DEF SealOK
  <2>3. \A c \in sealed : undef_variables[c] = <<>> \/ c = b
    BY <1>0, <1>1 DEF SealOK
  <2> QED  BY <1>0, <1>1, <2>1, <2>2, <2>3, SealingIsNext
<1>4. undef_variables' \in [Block -> Seq(Variable)]
      /\ undef_variables'[b] = <<>> /\ \A c \in Block : c # b => undef_variables'[c] = undef_variables[c]
  <2>1. undef_variables \in [Block -> Seq(Variable)]
    BY <1>1 DEF STypeOK
  <2> QED  BY <1>2, <1>3, <2>1
<1>5. seal'.todo = seal.todo \ {b} /\ ~seal'.open /\ seal'.idx = 0
      /\ seal' \in [todo : SUBSET Block, open : BOOLEAN, idx : Nat]
  BY <1>1, <1>2
<1>6. ASSUME NEW c \in Block PROVE Unsettled(c)' = Unsettled(c)
  <2>1. Len(undef_variables[c]) \in Nat
    BY <1>1 DEF STypeOK
  <2>2. CASE c = b
    BY <1>0, <1>2, <1>4, <1>5, <2>1, <2>2 DEF Unsettled
  <2>3. CASE c # b
    BY <1>0, <1>4, <1>5, <2>1, <2>3 DEF Unsettled
  <2> QED  BY <2>2, <2>3
<1>7. SealOK'
  <2>1. (pc' = "idle" => seal'.todo = {}) /\ (pc' = "seal" => seal'.todo # {}) /\ pc' \in {"idle", "seal"}
    BY <1>2, <1>3, <1>5
  <2>2. seal'.todo \cap sealed' = {}
    BY <1>2, <1>3, <1>5
  <2>3. \A c \in sealed' : undef_variables'[c] = <<>>
    <3>1. sealed \subseteq Block
      BY <1>1 DEF STypeOK
    <3> QED  BY <1>2, <1>3, <1>4, <3>1
  <2>4. \A c \in Block : \A i \in 1 .. Len(undef_variables'[c]) :
           variables'[undef_variables'[c][i]][c] # None
    <3>1. 1 .. Len(undef_variables'[b]) = {}
      BY <1>4
    <3> QED  BY <1>1, <1>2, <1>4, <3>1 DEF SealOK
  <2> QED  BY <1>5, <2>1, <2>2, <2>3, <2>4 DEF SealOK
<1>8. single_predecessor' \in [Block -> SUBSET Block] /\ pc' \in {"seal", "idle"}
      /\ sealed \subseteq sealed' /\ sealed' \in SUBSET Block
      /\ \A c \in sealed' \cup seal'.todo, q \in Block : leads_to(q, c) => status[q] = "filled"
  <2>1. PredecessorsOK
    BY DEF SInv
  <2> QED  BY <1>1, <1>2, <1>5, <2>1 DEF STypeOK, PredecessorsOK
<1> QED  BY <1>2, <1>4, <1>5, <1>6, <1>7, <1>8, SealingKeeps

\* The lookup of a placeholder starts: its parameter waits from now on.
LEMMA SealVariableKeeps == ASSUME SInv, SealVariable PROVE SInv'
<1>0. PICK b, s : b = sealing /\ s = placeholder(b)
  OBVIOUS
<1>1. /\ STypeOK /\ LookOK /\ ValuesExist /\ ParamsOK /\ SealOK
      /\ PredecessorsOK /\ CallsOK /\ ArityOK /\ StacksOK
      /\ Acyclic(alias) /\ StackMapped
  BY DEF SInv
<1>2. /\ pc = "seal" /\ seal.open /\ seal.idx < Len(undef_variables[b])
      /\ calls' = begin_predecessors_lookup(s, b, <<>>)
      /\ look' = [look EXCEPT !.var = undef_variables[b][seal.idx + 1]]
      /\ seal' = [seal EXCEPT !.idx = @ + 1]
      /\ pc' = "machine"
      /\ UNCHANGED <<graph, position, status, body, variables, sealed, undef_variables,
                     predecessors, single_predecessor, results, stack_map_values,
                     block_params, args, alias, zeros>>
  BY <1>0 DEF SealVariable, clientVars, sealVars, funcVars
<1>3. calls = <<>> /\ results = <<>> /\ Len(calls) = 0 /\ Len(results) = 0
  BY <1>1, <1>2 DEF StacksOK
<1>4. b \in seal.todo /\ b \in Block /\ b \in sealed
  <2>1. seal.todo # {} /\ seal.todo \cap sealed = {b}
    BY <1>0, <1>1, <1>2 DEF SealOK
  <2> QED  BY <1>0, <1>1, <2>1, SealingIsNext
<1>5. /\ seal \in [todo : SUBSET Block, open : BOOLEAN, idx : Nat]
      /\ undef_variables[b] \in Seq(Variable) /\ seal.idx \in Nat /\ Len(undef_variables[b]) \in Nat
      /\ block_params[b] \in Seq(Nat) /\ Len(block_params[b]) \in Nat /\ look \in Lookup
  BY SMTT(60), <1>1, <1>4 DEF STypeOK
<1>6. /\ seal'.todo = seal.todo /\ seal'.open /\ seal'.idx = seal.idx + 1 /\ sealing' = b
      /\ seal' \in [todo : SUBSET Block, open : BOOLEAN, idx : Nat]
  <2>1. /\ seal'.todo = seal.todo /\ seal'.open /\ seal'.idx = seal.idx + 1
        /\ seal' \in [todo : SUBSET Block, open : BOOLEAN, idx : Nat]
    <3>1. seal' = [seal EXCEPT !.idx = seal.idx + 1] /\ seal.idx + 1 \in Nat
      BY <1>2, <1>5
    <3> DEFINE m == seal.idx + 1
    <3>2. seal' = [seal EXCEPT !.idx = m] /\ m \in Nat
      BY <3>1
    <3> HIDE DEF m
    <3>3. seal'.todo = seal.todo /\ seal'.open = seal.open /\ seal'.idx = m
      BY <1>5, <3>2
    <3>4. seal' \in [todo : SUBSET Block, open : BOOLEAN, idx : Nat]
      BY <1>5, <3>2
    <3> QED  BY <1>2, <3>3, <3>4 DEF m
  <2> QED  BY <1>0, <2>1, SealingKept
<1> DEFINE x == undef_variables[b][seal.idx + 1]
<1>7. x \in Variable /\ variables[x][b] # None /\ look' \in Lookup /\ look'.var = x
  <2>1. seal.idx + 1 \in 1 .. Len(undef_variables[b])
    BY <1>2, <1>5
  <2>2. x \in Variable /\ variables[x][b] # None
    BY <1>1, <1>4, <1>5, <2>1 DEF SealOK
  <2> QED  BY <1>2, <1>5, <2>2, NumbersOfBlocks DEF Lookup
<1> HIDE DEF x
<1>8. Waiting(b) = 0 /\ Unsettled(b) = Len(undef_variables[b]) - seal.idx
  BY <1>0, <1>2, <1>3, NobodyWaits DEF Unsettled
<1> DEFINE k == Len(block_params[b]) - (Len(undef_variables[b]) - seal.idx) + 1
<1>9. k \in 1 .. Len(block_params[b]) /\ block_params[b][k] = s /\ s \in Nat
  <2>1. Arity(b) \in Nat
    BY <1>1, <1>4 DEF ArityOK
  <2>2. Len(block_params[b]) - 0 - (Len(undef_variables[b]) - seal.idx) \in Nat
    BY <1>8, <2>1 DEF Arity
  <2>3. k \in 1 .. Len(block_params[b])
    <3>1. PICK l, u, i : /\ l = Len(block_params[b]) /\ u = Len(undef_variables[b])
                         /\ i = seal.idx
      OBVIOUS
    <3>2. l \in Nat /\ u \in Nat /\ i \in Nat /\ i < u
      BY <1>2, <1>5, <3>1
    <3>3. l - (u - i) \in Nat
      BY <2>2, <3>1, <3>2
    <3>4. l - (u - i) + 1 \in 1 .. l
      BY <3>2, <3>3
    <3> QED  BY <3>1, <3>4
  <2>4. block_params[b][k] = s
    BY <1>0 DEF placeholder
  <2> HIDE DEF k
  <2> QED  BY <1>5, <2>3, <2>4
<1> HIDE DEF k
<1>10. calls' = begin_predecessors_lookup(s, b, calls)
  BY <1>2, <1>3
<1>11. STypeOK'
  <2>1. calls' \in Seq(Call)
    BY <1>1, <1>4, <1>9, <1>10, CallsPushed
  <2> QED  BY <1>1, <1>2, <1>6, <1>7, <2>1 DEF STypeOK
<1>12. LookOK'
  BY <1>2, <1>7 DEF LookOK
<1>13. /\ CallsOK' /\ Waiting(b)' = 1
       /\ \A c \in Block : c # b => Waiting(c)' = Waiting(c)
  <2>1. WaitsRightly(s, b)
    BY <1>2, <1>4, <1>7, <1>9 DEF WaitsRightly
  <2>2. Pushes(s, b)
    <3>1. 1 .. Len(calls) = {}
      BY <1>3
    <3> QED  BY <1>10, <2>1, <3>1 DEF Pushes
  <2> QED  BY <1>1, <1>4, <1>9, <2>2, PushKeepsCalls
<1>14. StacksOK'
  <2>1. PICK h : Heights(h, calls, predecessors, 0 + 1)
    BY <1>1, <1>3, OneHeight
  <2>2. \E g : Heights(g, calls', predecessors, 0)
    BY <1>1, <1>4, <1>9, <1>10, <2>1, PushHeights
  <2>3. Height' = 0
    BY <1>2, <1>3 DEF Height
  <2> QED  BY <1>2, <2>2, <2>3 DEF StacksOK
<1>15. ArityOK'
  <2>1. ASSUME NEW c \in Block PROVE Arity(c)' = Arity(c)
    <3>1. CASE c = b
      <4>1. Unsettled(b)' = Len(undef_variables[b]) - (seal.idx + 1)
        BY <1>2, <1>6 DEF Unsettled
      <4>2. /\ Waiting(b)' = Waiting(b) + 1 /\ Unsettled(b)' = Unsettled(b) + (-1)
            /\ Len(block_params'[b]) = Len(block_params[b]) + 0
        BY <1>2, <1>5, <1>8, <1>13, <4>1
      <4>3. Counted(b, 0, 1, -1)
        BY <4>2 DEF Counted
      <4>4. Arity(b) \in Int /\ Arity(b)' = Arity(b) + (0 - 1 - (-1))
        BY <1>1, <1>4, <4>3, ArityBalance
      <4> QED  BY <3>1, <4>4
    <3>2. CASE c # b
      <4>1. Unsettled(c)' = Unsettled(c)
        BY <1>0, <1>2, <1>6, <3>2 DEF Unsettled
      <4> QED  BY <1>2, <1>13, <3>2, <4>1 DEF Arity
    <3> QED  BY <3>1, <3>2
  <2> QED  BY <1>1, <1>2, <2>1, ArityKept
<1>16. SealOK'
  <2>1. seal'.todo \cap sealed' = {b} /\ seal'.todo # {}
    BY <1>0, <1>1, <1>2, <1>4, <1>6 DEF SealOK
  <2>2. seal'.idx <= Len(undef_variables'[b])
    BY <1>2, <1>5, <1>6
  <2>3. \A c \in sealed' : undef_variables'[c] = <<>> \/ c = b
    BY <1>0, <1>1, <1>2 DEF SealOK
  <2>4. \A c \in Block : \A i \in 1 .. Len(undef_variables'[c]) :
           variables'[undef_variables'[c][i]][c] # None
    BY <1>1, <1>2 DEF SealOK
  <2> QED  BY <1>2, <1>6, <2>1, <2>2, <2>3, <2>4 DEF SealOK
<1>17. PredecessorsOK'
  <2>1. \A q \in Block : status'[q] = "filled" <=> status[q] = "filled"
    BY <1>2
  <2>2. \A q, c \in Block : leads_to(q, c)' <=> leads_to(q, c)
    BY <1>2 DEF leads_to
  <2>3. sealed' \cup seal'.todo \subseteq Block /\ sealed' \cup seal'.todo = sealed \cup seal.todo
    BY <1>2, <1>6, <1>11 DEF STypeOK
  <2>4. \A c \in sealed' \cup seal'.todo, q \in Block : leads_to(q, c)' => status'[q] = "filled"
    BY <1>1, <1>2, <2>2, <2>3 DEF PredecessorsOK
  <2>5. \A c, q \in Block : status'[q] = "filled" /\ leads_to(q, c)' =>
           \E j \in 1 .. Len(predecessors'[c]) : predecessors'[c][j] = q
    BY <1>1, <1>2, <2>2 DEF PredecessorsOK
  <2>6. \A q \in Block : Len(args'[q]) = IF status'[q] = "filled" THEN Len(graph'[q]) ELSE 0
    BY <1>1, <1>2 DEF PredecessorsOK
  <2> QED  BY <2>4, <2>5, <2>6 DEF PredecessorsOK
<1> QED  BY <1>1, <1>2, <1>11, <1>12, <1>13, <1>14, <1>15, <1>16, <1>17, ValuesFrame, ParamsFrame,
            StackMapFrame DEF SInv

(***************************************************************************)
(* The client.                                                             *)
(***************************************************************************)

\* Between two calls no lookup runs and no block is being sealed.
LEMMA IdleFacts ==
    ASSUME SInv, pc = "idle"
    PROVE  /\ STypeOK /\ LookOK /\ ValuesExist /\ ParamsOK /\ SealOK
           /\ PredecessorsOK /\ CallsOK /\ ArityOK /\ StacksOK
           /\ Acyclic(alias) /\ StackMapped
           /\ calls = <<>> /\ results = <<>> /\ Len(results) = 0
           /\ seal.todo = {} /\ ~seal.open /\ seal.idx = 0
<1>1. SealOK /\ StacksOK
  BY DEF SInv
<1>2. seal.todo = {} /\ ~seal.open /\ seal.idx = 0
  BY <1>1 DEF SealOK
<1> QED  BY <1>1, <1>2 DEF SInv, StacksOK

LEMMA UseVarKeeps == ASSUME SInv, NEW x \in Variable, UseVar(x) PROVE SInv'
<1>1. pc = "idle" /\ status[position] # "filled" /\ partial /\ enter_use_var(x, position)
      /\ UNCHANGED <<graph, position, body, variables, sealed, undef_variables, predecessors,
                     single_predecessor, calls, stack_map_values, block_params, args, alias, zeros, seal>>
  BY DEF UseVar, building, sealVars, funcVars
<1>2. /\ STypeOK /\ LookOK /\ ValuesExist /\ ParamsOK /\ SealOK
      /\ PredecessorsOK /\ CallsOK /\ ArityOK /\ StacksOK
      /\ Acyclic(alias) /\ StackMapped
      /\ calls = <<>> /\ results = <<>> /\ Len(results) = 0
      /\ seal.todo = {} /\ ~seal.open
  BY <1>1, IdleFacts
<1>3. /\ status' \in [Block -> {"empty", "partial", "filled"}]
      /\ \A q \in Block : status'[q] = "filled" <=> status[q] = "filled"
  <2>1. status \in [Block -> {"empty", "partial", "filled"}] /\ position \in Block
    BY <1>2 DEF STypeOK
  <2> QED  BY <1>1, <2>1 DEF partial
<1>4. /\ look' \in Lookup
      /\ results' \in Seq(Nat) /\ \A i \in 1 .. Len(results') : results'[i] \in Value
      /\ pc' \in {"find_var", "machine"}
      /\ LookOK'
      /\ Height' = 1
  <2>1. PICK b \in Block : b = position
    BY <1>2 DEF STypeOK
  <2>2. /\ look' \in Lookup
        /\ results' \in Seq(Nat) /\ \A i \in 1 .. Len(results') : results'[i] \in Value
        /\ pc' \in {"find_var", "machine"}
        /\ LookOK'
        /\ Height' = Len(results) + 1
    BY <1>1, <1>2, <2>1, EnterUse
  <2> QED  BY <1>2, <2>2
<1>5. STypeOK'
  BY <1>1, <1>2, <1>3, <1>4 DEF STypeOK
<1>6. ValuesExist'
  BY <1>1, <1>2, <1>4 DEF ValuesExist, Value
<1>7. StacksOK'
  BY <1>1, <1>2, <1>4, OneHeight DEF StacksOK
<1>8. DefinitionsStay
  BY <1>1 DEF DefinitionsStay
<1>9. SealOK'
  BY <1>1, <1>2, <1>4, <1>5, <1>8, SealFrame
<1>10. CallsOK'
  BY <1>1, <1>2, NoCalls
<1> QED  BY <1>1, <1>2, <1>3, <1>4, <1>5, <1>6, <1>7, <1>9, <1>10, ParamsFrame, FilledFrame, ArityFrame,
            StackMapFrame DEF SInv

\* def_var gives the variable a value there is, an old or a new one.
LEMMA DefinitionKeeps ==
    ASSUME SInv, NEW x \in Variable, NEW v \in Nat, NEW op \in {"def", "copy"}, pc = "idle",
           defines(x, v, op), v # None, v \in Value',
           status' \in [Block -> {"empty", "partial", "filled"}],
           \A q \in Block : status'[q] = "filled" <=> status[q] = "filled",
           UNCHANGED <<graph, position, sealVars, calls, results, block_params, args, zeros, pc, look, seal>>,
           alias' \in Seq(Nat), Value \subseteq Value', Value' \subseteq Value \cup {v},
           \A w \in Value : alias'[w] = alias[w],
           \A w \in Value' : alias'[w] \in Value' \cup {None}, Acyclic(alias')
    PROVE  SInv'
<1>1. /\ STypeOK /\ LookOK /\ ValuesExist /\ ParamsOK /\ SealOK
      /\ PredecessorsOK /\ CallsOK /\ ArityOK /\ StacksOK
      /\ Acyclic(alias) /\ StackMapped
      /\ calls = <<>> /\ results = <<>> /\ Len(results) = 0
      /\ seal.todo = {} /\ ~seal.open
  BY IdleFacts
<1>2. UNCHANGED <<graph, position, sealed, undef_variables, predecessors, single_predecessor, calls,
                  results, block_params, args, zeros, pc, look, seal>>
  BY DEF sealVars
<1>3. /\ variables' = [variables EXCEPT ![x][position] = v]
      /\ stack_map_values' = stack_map_binding(x, v)
      /\ body' = [body EXCEPT ![position] = Append(@, [op |-> op, var |-> x, val |-> v])]
  BY DEF defines
<1>4. /\ body' \in [Block -> Seq(Statement)]
      /\ \A b \in Block : \A i \in 1 .. Len(body'[b]) : body'[b][i].val \in Value'
  <2> DEFINE s == [op |-> op, var |-> x, val |-> v]
  <2>1. s \in Statement /\ s.val \in Value'
    BY NumbersOfBlocks DEF Statement
  <2>2. body' = [body EXCEPT ![position] = Append(@, s)]
    BY <1>3
  <2> HIDE DEF s
  <2> QED  BY <1>1, <2>1, <2>2, BodyAppended
<1>5. /\ variables' \in [Variable -> [Block -> Nat]]
      /\ \A y \in Variable, c \in Block :
            variables'[y][c] = IF y = x /\ c = position THEN v ELSE variables[y][c]
  <2>1. PICK b \in Block : b = position
    BY <1>1 DEF STypeOK
  <2>2. variables' = [variables EXCEPT ![x][b] = v]
    BY <1>3, <2>1
  <2>3. /\ variables' \in [Variable -> [Block -> Nat]]
        /\ \A y \in Variable, c \in Block :
              variables'[y][c] = IF y = x /\ c = b THEN v ELSE variables[y][c]
    <3>1. variables \in [Variable -> [Block -> Nat]]
      BY <1>1 DEF STypeOK
    <3> QED  BY <2>2, <3>1
  <2> QED  BY <2>1, <2>3
<1>6. STypeOK'
  BY SMTT(60), <1>1, <1>2, <1>4, <1>5 DEF STypeOK
<1>7. LookOK' /\ StacksOK' /\ CallsOK'
  BY <1>1, <1>2, NoCalls DEF LookOK, StacksOK
<1>8. ValuesExist'
  <2>1. ASSUME NEW y \in Variable, NEW c \in Block
        PROVE  variables'[y][c] \in Value' \cup {None}
    <3>1. variables[y][c] \in Value \cup {None}
      BY <1>1 DEF ValuesExist
    <3>2. variables'[y][c] = IF y = x /\ c = position THEN v ELSE variables[y][c]
      BY <1>5
    <3> QED  BY <3>1, <3>2
  <2>2. 1 .. Len(results') = {}
    BY <1>1, <1>2
  <2> QED  BY <1>4, <2>1, <2>2 DEF ValuesExist
<1>9. DefinitionsStay
  BY <1>5 DEF DefinitionsStay
<1>10. SealOK'
  BY <1>1, <1>2, <1>6, <1>9, SealFrame
<1>11. ParamsOK'
  BY <1>1, <1>2, ParamsWithNewValue
<1>12. StackMapped'
  BY <1>1, <1>2, <1>3 DEF StackMapped, stack_map_binding
<1> QED  BY <1>1, <1>2, <1>6, <1>7, <1>8, <1>10, <1>11, <1>12, FilledFrame, ArityFrame DEF SInv

LEMMA DefVarKeeps == ASSUME SInv, NEW x \in Variable, DefVar(x) PROVE SInv'
<1>0. PICK n : n = new_value
  OBVIOUS
<1>1. /\ pc = "idle" /\ status[position] # "filled" /\ partial
      /\ alias' = Append(alias, None) /\ defines(x, n, "def")
      /\ UNCHANGED <<graph, position, sealVars, calls, results, block_params, args, zeros, pc, look, seal>>
  BY <1>0 DEF DefVar, building
<1>2. STypeOK /\ ValuesExist /\ Acyclic(alias)
  BY DEF SInv
<1>3. /\ status' \in [Block -> {"empty", "partial", "filled"}]
      /\ \A q \in Block : status'[q] = "filled" <=> status[q] = "filled"
  <2>1. status \in [Block -> {"empty", "partial", "filled"}] /\ position \in Block
    BY <1>2 DEF STypeOK
  <2> QED  BY <1>1, <2>1 DEF partial
<1>4. /\ alias' \in Seq(Nat) /\ n \in Nat /\ n # None
      /\ Value' = Value \cup {n}
      /\ \A v \in Value : alias'[v] = alias[v]
      /\ \A v \in Value' : alias'[v] \in Value' \cup {None}
      /\ Acyclic(alias')
  BY <1>0, <1>1, <1>2, NewValue
<1>5. "def" \in {"def", "copy"} /\ n \in Value' /\ Value \subseteq Value' /\ Value' \subseteq Value \cup {n}
  BY <1>4
<1> QED  BY <1>1, <1>3, <1>4, <1>5, DefinitionKeeps

LEMMA CopyVarKeeps == ASSUME SInv, NEW x \in Variable, CopyVar(x) PROVE SInv'
<1>1. PICK last : last = body[position][Len(body[position])]
  OBVIOUS
<1>2. /\ pc = "idle" /\ body[position] # <<>> /\ defines(x, last.val, "copy")
      /\ UNCHANGED <<graph, position, status, sealVars, calls, results, block_params, args, alias, zeros,
                     pc, look, seal>>
  BY <1>1 DEF CopyVar, building, funcVars
<1>3. STypeOK /\ ValuesExist /\ Acyclic(alias)
  BY DEF SInv
<1>4. PICK v : v = last.val
  OBVIOUS
<1>5. v \in Value /\ v \in Nat /\ v # None
  <2>1. body[position] \in Seq(Statement) /\ position \in Block
    BY <1>3 DEF STypeOK
  <2>2. Len(body[position]) \in 1 .. Len(body[position])
    BY <1>2, <2>1
  <2>3. v \in Value
    BY <1>1, <1>3, <1>4, <2>1, <2>2 DEF ValuesExist
  <2> QED  BY <2>3 DEF Value, None
<1>6. /\ alias' \in Seq(Nat) /\ Value' = Value
      /\ \A w \in Value : alias'[w] = alias[w]
      /\ \A w \in Value' : alias'[w] \in Value' \cup {None}
      /\ Acyclic(alias')
      /\ status' \in [Block -> {"empty", "partial", "filled"}]
      /\ \A q \in Block : status'[q] = "filled" <=> status[q] = "filled"
  <2>1. Value' = Value
    BY <1>2 DEF Value
  <2> QED  BY <1>2, <1>3, <2>1 DEF STypeOK, ValuesExist
<1>7. "copy" \in {"def", "copy"} /\ v \in Value' /\ Value \subseteq Value' /\ Value' \subseteq Value \cup {v}
      /\ defines(x, v, "copy")
  BY <1>2, <1>4, <1>5, <1>6
<1> QED  BY <1>2, <1>5, <1>6, <1>7, DefinitionKeeps

\* No destination of a new branch is sealed, so that none has a parameter yet.
LEMMA TerminateKeeps == ASSUME SInv, Terminate PROVE SInv'
<1>0. PICK p : p = position
  OBVIOUS
<1>1. /\ pc = "idle" /\ status[p] # "filled"
      /\ predecessors' = [b \in Block |->
             IF leads_to(p, b) THEN Append(predecessors[b], p) ELSE predecessors[b]]
      /\ args' = [args EXCEPT ![p] = [i \in DOMAIN graph[p] |-> <<>>]]
      /\ status' = [status EXCEPT ![p] = "filled"]
      /\ UNCHANGED <<graph, position, body, variables, sealed, undef_variables,
                     single_predecessor, calls, results, stack_map_values, block_params,
                     alias, zeros, pc, look, seal>>
  BY <1>0 DEF Terminate, building
<1>2. /\ STypeOK /\ LookOK /\ ValuesExist /\ ParamsOK /\ SealOK
      /\ PredecessorsOK /\ CallsOK /\ ArityOK /\ StacksOK
      /\ Acyclic(alias) /\ StackMapped
      /\ calls = <<>> /\ results = <<>> /\ Len(results) = 0
      /\ seal.todo = {} /\ ~seal.open
  BY <1>1, IdleFacts
<1>3. p \in Block /\ graph[p] \in Seq(Block) /\ DOMAIN graph[p] = 1 .. Len(graph[p]) /\ Len(graph[p]) \in Nat
  BY <1>0, <1>2 DEF STypeOK
<1>4. /\ status' \in [Block -> {"empty", "partial", "filled"}]
      /\ status'[p] = "filled" /\ \A q \in Block : q # p => status'[q] = status[q]
  <2>1. status \in [Block -> {"empty", "partial", "filled"}]
    BY <1>2 DEF STypeOK
  <2> QED  BY <1>1, <1>3, <2>1
<1>5. /\ args' \in [Block -> Seq(Seq(Nat))]
      /\ Len(args'[p]) = Len(graph[p]) /\ \A i \in 1 .. Len(graph[p]) : Len(args'[p][i]) = 0
      /\ \A q \in Block : q # p => args'[q] = args[q]
  <2> DEFINE l == Len(graph[p])
             new == [i \in 1 .. l |-> <<>>]
  <2>1. args \in [Block -> Seq(Seq(Nat))] /\ l \in Nat
    BY <1>2, <1>3 DEF STypeOK
  <2>2. args' = [args EXCEPT ![p] = new]
    BY <1>1, <1>3
  <2> HIDE DEF l
  <2>3. new \in Seq(Seq(Nat)) /\ Len(new) = l /\ \A i \in 1 .. l : new[i] = <<>>
    <3>1. <<>> \in Seq(Nat)
      OBVIOUS
    <3> QED  BY <2>1, <3>1
  <2> HIDE DEF new
  <2>4. args' \in [Block -> Seq(Seq(Nat))] /\ args'[p] = new /\ \A q \in Block : q # p => args'[q] = args[q]
    BY <1>3, <2>1, <2>2, <2>3
  <2> QED  BY <2>3, <2>4 DEF l
<1>6. /\ predecessors' \in [Block -> Seq(Block)]
      /\ \A b \in Block : \A j \in 1 .. Len(predecessors[b]) :
            j \in 1 .. Len(predecessors'[b]) /\ predecessors'[b][j] = predecessors[b][j]
      /\ \A b \in Block : leads_to(p, b) =>
            \E j \in 1 .. Len(predecessors'[b]) : predecessors'[b][j] = p
  <2>1. ASSUME NEW b \in Block
        PROVE  /\ predecessors'[b] \in Seq(Block)
               /\ \A j \in 1 .. Len(predecessors[b]) :
                     j \in 1 .. Len(predecessors'[b]) /\ predecessors'[b][j] = predecessors[b][j]
               /\ leads_to(p, b) => \E j \in 1 .. Len(predecessors'[b]) : predecessors'[b][j] = p
    <3>1. predecessors[b] \in Seq(Block)
      BY <1>2 DEF STypeOK
    <3>2. CASE leads_to(p, b)
      <4>1. predecessors'[b] = Append(predecessors[b], p)
        BY <1>1, <3>2
      <4> DEFINE s == predecessors[b]
      <4>2. s \in Seq(Block) /\ predecessors'[b] = Append(s, p)
        BY <3>1, <4>1
      <4> HIDE DEF s
      <4>3. /\ Append(s, p) \in Seq(Block) /\ Len(Append(s, p)) = Len(s) + 1 /\ Len(s) \in Nat
            /\ \A j \in 1 .. Len(s) : Append(s, p)[j] = s[j]
            /\ Append(s, p)[Len(s) + 1] = p
        BY <1>3, <4>2
      <4>4. \A j \in 1 .. Len(s) : j \in 1 .. Len(predecessors'[b]) /\ predecessors'[b][j] = s[j]
        BY <4>2, <4>3
      <4>5. Len(s) + 1 \in 1 .. Len(predecessors'[b]) /\ predecessors'[b][Len(s) + 1] = p
        BY <4>2, <4>3
      <4> QED  BY <4>2, <4>3, <4>4, <4>5 DEF s
    <3>3. CASE ~leads_to(p, b)
      BY <1>1, <3>1, <3>3
    <3> QED  BY <3>2, <3>3
  <2>2. predecessors' \in [Block -> Seq(Block)]
    <3>1. predecessors' = [b \in Block |-> predecessors'[b]]
      BY <1>1
    <3>2. \A b \in Block : predecessors'[b] \in Seq(Block)
      BY <2>1
    <3> QED  BY <3>1, <3>2
  <2> QED  BY <2>1, <2>2
<1>7. STypeOK'
  BY <1>1, <1>2, <1>4, <1>5, <1>6 DEF STypeOK
<1>8. LookOK' /\ StacksOK' /\ CallsOK'
  BY <1>1, <1>2, NoCalls DEF LookOK, StacksOK
<1>9. SealOK'
  <2>1. DefinitionsStay
    BY <1>1 DEF DefinitionsStay
  <2> QED  BY <1>1, <1>2, <1>7, <2>1, SealFrame
<1>10. PredecessorsOK'
  <2>1. \A q, b \in Block : leads_to(q, b)' <=> leads_to(q, b)
    BY <1>1 DEF leads_to
  <2>2. ASSUME NEW b \in Block, NEW q \in Block, status'[q] = "filled", leads_to(q, b)'
        PROVE  \E j \in 1 .. Len(predecessors'[b]) : predecessors'[b][j] = q
    <3>1. CASE q = p
      BY <1>6, <2>1, <2>2, <3>1
    <3>2. CASE q # p
      <4>1. PICK j \in 1 .. Len(predecessors[b]) : predecessors[b][j] = q
        BY <1>2, <1>4, <2>1, <2>2, <3>2 DEF PredecessorsOK
      <4> QED  BY <1>6, <4>1
    <3> QED  BY <3>1, <3>2
  <2>3. sealed' \cup seal'.todo \subseteq Block
    BY <1>7 DEF STypeOK
  <2>4. ASSUME NEW b \in sealed' \cup seal'.todo, NEW q \in Block, leads_to(q, b)'
        PROVE  status'[q] = "filled"
    <3>1. leads_to(q, b) /\ b \in sealed \cup seal.todo
      BY <1>1, <2>1, <2>3, <2>4
    <3>2. status[q] = "filled"
      BY <1>2, <3>1 DEF PredecessorsOK
    <3> QED  BY <1>4, <3>2
  <2>5. ASSUME NEW q \in Block
        PROVE  Len(args'[q]) = IF status'[q] = "filled" THEN Len(graph'[q]) ELSE 0
    <3>1. Len(args[q]) = IF status[q] = "filled" THEN Len(graph[q]) ELSE 0
      BY <1>2 DEF PredecessorsOK
    <3> QED  BY <1>1, <1>4, <1>5, <3>1
  <2> QED  BY <2>2, <2>4, <2>5 DEF PredecessorsOK
<1>11. ArityOK'
  <2>1. ASSUME NEW b PROVE Arity(b)' = Arity(b)
    <3>1. sealing' = sealing
      BY <1>1, SealingKept
    <3> QED  BY <1>1, <3>1 DEF Arity, Waiting, Unsettled
  <2>2. \A b \in Block : Arity(b)' \in Nat /\ (b \notin sealed' => Arity(b)' = 0)
    BY <1>1, <1>2, <2>1 DEF ArityOK
  <2>3. ASSUME NEW q \in Block, NEW i \in 1 .. Len(args'[q])
        PROVE  Len(args'[q][i]) = Arity(graph[q][i])
    <3>1. CASE q = p
      <4>1. i \in 1 .. Len(graph[p]) /\ Len(args'[q][i]) = 0
        BY <1>5, <3>1
      <4> DEFINE c == graph[p][i]
      <4>2. c \in Block /\ leads_to(p, c)
        BY <1>3, <4>1 DEF leads_to
      <4> HIDE DEF c
      <4>3. c \notin sealed
        BY <1>1, <1>2, <1>3, <4>2 DEF PredecessorsOK
      <4>4. Arity(c) = 0
        BY <1>2, <4>2, <4>3 DEF ArityOK
      <4> QED  BY <3>1, <4>1, <4>4 DEF c
    <3>2. CASE q # p
      BY <1>2, <1>5, <3>2 DEF ArityOK
    <3> QED  BY <3>1, <3>2
  <2>4. \A q \in Block : \A i \in 1 .. Len(args'[q]) : Len(args'[q][i]) = Arity(graph[q][i])'
    BY <1>1, <2>1, <2>3
  <2> QED  BY <2>2, <2>4 DEF ArityOK
<1> QED  BY <1>1, <1>2, <1>7, <1>8, <1>9, <1>10, <1>11, ValuesFrame, ParamsFrame, StackMapFrame DEF SInv

\* All branches to the blocks to seal are there.
LEMMA StartsSealingKeeps ==
    ASSUME SInv, NEW bs \in SUBSET Block, bs # {}, bs \cap sealed = {}, starts_sealing(bs),
           \A b \in bs, q \in Block : leads_to(q, b) => status[q] = "filled"
    PROVE  SInv'
<1>1. /\ pc = "idle" /\ pc' = "seal" /\ seal' = [todo |-> bs, open |-> FALSE, idx |-> 0]
      /\ UNCHANGED <<clientVars, variables, sealVars, calls, results, stack_map_values,
                     funcVars, look>>
      /\ UNCHANGED <<variables, sealed, undef_variables, predecessors, single_predecessor>>
  BY DEF starts_sealing, sealVars
<1>2. /\ STypeOK /\ SealOK /\ PredecessorsOK
      /\ seal.todo = {} /\ ~seal.open
  BY <1>1, IdleFacts
<1>3. seal'.todo = bs /\ ~seal'.open /\ seal'.idx = 0
      /\ seal' \in [todo : SUBSET Block, open : BOOLEAN, idx : Nat]
  BY <1>1
<1>4. \A c \in Block : Unsettled(c)' = Unsettled(c)
  BY <1>1, <1>2, <1>3 DEF Unsettled
<1>5. SealOK'
  <2>1. \A c \in sealed' : undef_variables'[c] = <<>>
    BY <1>1, <1>2 DEF SealOK
  <2>2. \A c \in Block : \A i \in 1 .. Len(undef_variables'[c]) :
           variables'[undef_variables'[c][i]][c] # None
    BY <1>1, <1>2 DEF SealOK
  <2>3. seal'.todo # {} /\ seal'.todo \cap sealed' = {} /\ pc' = "seal"
    BY <1>1, <1>3
  <2> QED  BY <1>3, <2>1, <2>2, <2>3 DEF SealOK
<1>6. \A c \in sealed' \cup seal'.todo, q \in Block : leads_to(q, c) => status[q] = "filled"
  BY <1>1, <1>2, <1>3 DEF PredecessorsOK
<1>7. /\ sealed \subseteq sealed' /\ sealed' \in SUBSET Block
      /\ undef_variables' \in [Block -> Seq(Variable)]
      /\ single_predecessor' \in [Block -> SUBSET Block]
  BY <1>1, <1>2 DEF STypeOK
<1>8. pc \in {"seal", "idle"} /\ pc' \in {"seal", "idle"}
  BY <1>1
<1> QED  BY <1>1, <1>3, <1>4, <1>5, <1>6, <1>7, <1>8, SealingKeeps

\* The client goes to the next block, or the function is executed.
LEMMA FunctionUntouched ==
    ASSUME SInv, position' \in Block, pc' = pc \/ (pc = "idle" /\ pc' = "run"),
           UNCHANGED <<graph, status, body, variables, sealVars, calls, results, stack_map_values,
                       funcVars, look, seal>>
    PROVE  SInv'
<1>1. /\ STypeOK /\ LookOK /\ ValuesExist /\ ParamsOK /\ SealOK
      /\ PredecessorsOK /\ CallsOK /\ ArityOK /\ StacksOK
      /\ Acyclic(alias) /\ StackMapped
  BY DEF SInv
<1>2. UNCHANGED <<graph, status, body, variables, sealed, undef_variables, predecessors,
                  single_predecessor, calls, results, stack_map_values, block_params, args, alias,
                  zeros, look, seal>>
  BY DEF sealVars, funcVars
<1>3. STypeOK'
  BY <1>1, <1>2 DEF STypeOK
<1>4. LookOK'
  BY <1>1, <1>2 DEF LookOK, Value
<1>5. StacksOK'
  BY <1>1, <1>2 DEF StacksOK, Height
<1>6. SealOK'
  <2>1. sealing' = sealing
    BY <1>2, SealingKept
  <2> QED  BY <1>1, <1>2, <2>1 DEF SealOK
<1>7. CallsOK'
  BY <1>1, <1>2 DEF CallsOK
<1> QED  BY <1>1, <1>2, <1>3, <1>4, <1>5, <1>6, <1>7, ValuesFrame, ParamsFrame, PredecessorsFrame,
            ArityFrame, StackMapFrame DEF SInv

(***************************************************************************)
(* Theorems.                                                               *)
(***************************************************************************)

LEMMA InitFacts == Init => SInv
<1> SUFFICES ASSUME Init PROVE SInv
  OBVIOUS
<1>1. /\ graph \in Graphs /\ position = 0
      /\ status = [b \in Block |-> "empty"]
      /\ body = [b \in Block |-> <<>>]
      /\ variables = [x \in Variable |-> [b \in Block |-> None]]
      /\ sealed = {} /\ undef_variables = [b \in Block |-> <<>>]
      /\ predecessors = [b \in Block |-> <<>>]
      /\ single_predecessor = [b \in Block |-> {}]
      /\ calls = <<>> /\ results = <<>>
      /\ block_params = [b \in Block |-> <<>>]
      /\ args = [b \in Block |-> <<>>]
      /\ alias = <<>> /\ zeros = [b \in Block |-> {}]
      /\ pc = "idle" /\ look = no_lookup
      /\ seal = [todo |-> {}, open |-> FALSE, idx |-> 0]
  BY DEF Init
<1>2. STypeOK
  <2>1. graph \in [Block -> Seq(Block)]
    BY <1>1, SSAAssumption
  <2>2. position \in Block
    BY <1>1, SSAAssumption DEF Block
  <2>3. <<>> \in Seq(Statement) /\ <<>> \in Seq(Variable) /\ <<>> \in Seq(Block) /\ <<>> \in Seq(Call)
        /\ <<>> \in Seq(Nat) /\ <<>> \in Seq(Seq(Nat))
    OBVIOUS
  <2>4. None \in Nat /\ look \in Lookup
    BY <1>1 DEF no_lookup, Lookup, None
  <2>5. seal \in [todo : SUBSET Block, open : BOOLEAN, idx : Nat]
    BY <1>1
  <2> QED  BY <1>1, <2>1, <2>2, <2>3, <2>4, <2>5 DEF STypeOK
<1>3. /\ Value = {} /\ 1 .. Len(results) = {} /\ 1 .. Len(calls) = {}
      /\ \A b \in Block : /\ 1 .. Len(block_params[b]) = {} /\ 1 .. Len(body[b]) = {}
                          /\ 1 .. Len(undef_variables[b]) = {} /\ 1 .. Len(args[b]) = {}
                          /\ Len(args[b]) = 0 /\ Len(block_params[b]) = 0 /\ Len(undef_variables[b]) = 0
  BY <1>1 DEF Value
<1>4. LookOK
  BY <1>1 DEF LookOK
<1>5. ValuesExist
  BY <1>1, <1>3 DEF ValuesExist
<1>6. ParamsOK
  BY <1>3 DEF ParamsOK
<1>7. seal.todo = {} /\ ~seal.open /\ seal.idx = 0
  BY <1>1
<1>8. SealOK
  BY <1>1, <1>3, <1>7 DEF SealOK
<1>9. PredecessorsOK
  <2>1. \A b \in Block : status[b] = "empty"
    BY <1>1
  <2>2. sealed \cup seal.todo = {}
    BY <1>1, <1>7
  <2> QED  BY <1>3, <2>1, <2>2 DEF PredecessorsOK
<1>10. CallsOK /\ StacksOK
  BY <1>1, <1>3 DEF CallsOK, StacksOK
<1>11. ArityOK
  <2>1. ASSUME NEW b \in Block PROVE Arity(b) = 0
    <3>1. Waiting(b) = 0
      BY <1>1, NobodyWaits
    <3>2. Unsettled(b) = 0
      BY <1>3, <1>7 DEF Unsettled
    <3> QED  BY <1>3, <3>1, <3>2 DEF Arity
  <2> QED  BY <1>3, <2>1 DEF ArityOK
<1>12. Acyclic(alias) /\ StackMapped
  BY <1>3 DEF Acyclic, StackMapped, Value
<1> QED  BY <1>2, <1>4, <1>5, <1>6, <1>8, <1>9, <1>10, <1>11, <1>12 DEF SInv

LEMMA StepKeeps == SInv /\ [Next]_vars => SInv'
<1> SUFFICES ASSUME SInv, [Next]_vars PROVE SInv'
  OBVIOUS
<1>1. position \in Block /\ sealed \subseteq Block /\ PredecessorsOK
  BY DEF SInv, STypeOK
<1>2. ASSUME NEW x \in Variable, UseVar(x) \/ DefVar(x) \/ CopyVar(x) PROVE SInv'
  BY <1>2, UseVarKeeps, DefVarKeeps, CopyVarKeeps
<1>3. ASSUME NEW b \in Block, SealBlock(b) PROVE SInv'
  <2>1. /\ starts_sealing({b}) /\ {b} \in SUBSET Block /\ {b} # {} /\ {b} \cap sealed = {}
        /\ \A c \in {b}, q \in Block : leads_to(q, c) => status[q] = "filled"
    BY <1>3 DEF SealBlock
  <2> DEFINE bs == {b}
  <2>2. /\ starts_sealing(bs) /\ bs \in SUBSET Block /\ bs # {} /\ bs \cap sealed = {}
        /\ \A c \in bs, q \in Block : leads_to(q, c) => status[q] = "filled"
    BY <2>1
  <2> HIDE DEF bs
  <2> QED  BY <2>2, StartsSealingKeeps
<1>4. CASE SealAllBlocks
  <2> DEFINE bs == Block \ sealed
  <2>1. /\ starts_sealing(bs) /\ bs \in SUBSET Block /\ bs # {} /\ bs \cap sealed = {}
        /\ \A c \in bs, q \in Block : leads_to(q, c) => status[q] = "filled"
    BY <1>1, <1>4 DEF SealAllBlocks
  <2> HIDE DEF bs
  <2> QED  BY <2>1, StartsSealingKeeps
<1>5. CASE SwitchToBlock
  <2>1. /\ position' \in Block
        /\ UNCHANGED <<graph, status, body, variables, sealVars, calls, results, stack_map_values,
                       funcVars, pc, look, seal>>
    BY <1>5 DEF SwitchToBlock
  <2> QED  BY <2>1, FunctionUntouched
<1>6. CASE Finalize
  <2>1. /\ position' \in Block /\ pc = "idle" /\ pc' = "run"
        /\ UNCHANGED <<graph, status, body, variables, sealVars, calls, results, stack_map_values,
                       funcVars, look, seal>>
    BY <1>1, <1>6 DEF Finalize, clientVars
  <2> QED  BY <2>1, FunctionUntouched
<1>7. ASSUME NEW i, Branch(i) PROVE SInv'
  <2>1. /\ position' \in Block
        /\ UNCHANGED <<graph, status, body, variables, sealVars, calls, results, stack_map_values,
                       funcVars, pc, look, seal>>
    BY <1>1, <1>7 DEF Branch, clientVars
  <2> QED  BY <2>1, FunctionUntouched
<1>8. CASE Return \/ UNCHANGED vars
  <2>1. /\ position' \in Block
        /\ UNCHANGED <<graph, status, body, variables, sealVars, calls, results, stack_map_values,
                       funcVars, pc, look, seal>>
    BY <1>1, <1>8 DEF Return, vars, clientVars
  <2> QED  BY <2>1, FunctionUntouched
<1>9. CASE Terminate
  BY <1>9, TerminateKeeps
<1>10. CASE Internal
  BY <1>10, FindStepKeeps, FindParamKeeps, CopyStepKeeps, MachineUseKeeps, MachineFinishKeeps,
     MachineReturnKeeps, SealBeginKeeps, SealVariableKeeps, SealEndKeeps DEF Internal
<1> QED  BY <1>2, <1>3, <1>4, <1>5, <1>6, <1>7, <1>8, <1>9, <1>10 DEF Next

\* The builder's maps and stacks fit together in every state, while lookups
\* and sealing run, too (ssa.rs: use_var, run_state_machine, seal_one_block).
THEOREM SSAInvariant == Spec => []SInv
<1>1. Init => SInv
  BY InitFacts
<1>2. SInv /\ [Next]_vars => SInv'
  BY StepKeeps
<1> QED  BY <1>1, <1>2, PTL DEF Spec

\* finish_predecessors_lookup and remove_block_param together leave every
\* branch with one argument per parameter, and no chain of aliases is a cycle
\* or ends in a value that was removed.
THEOREM AlwaysWellFormed == Spec => []WellFormed
<1>1. SInv => WellFormed
  <2> SUFFICES ASSUME SInv, pc \in {"idle", "run"}
               PROVE  /\ \A p \in Block : \A i \in DOMAIN args[p] :
                            Len(args[p][i]) = IF graph[p][i] \in sealed
                                              THEN Len(block_params[graph[p][i]]) ELSE 0
                      /\ \A v \in Value :
                            /\ alias[resolve_aliases(v)] = None
                            /\ alias[v] # None => \A b \in Block, i \in 1 .. Len(alias) :
                                  i \in DOMAIN block_params[b] => block_params[b][i] # v
    BY DEF WellFormed
  <2>1. /\ STypeOK /\ ValuesExist /\ ParamsOK /\ SealOK /\ PredecessorsOK /\ ArityOK /\ StacksOK
        /\ Acyclic(alias)
    BY DEF SInv
  <2>2. calls = <<>> /\ seal.todo = {} /\ ~seal.open
    BY <2>1 DEF StacksOK, SealOK
  <2>3. ASSUME NEW c \in sealed PROVE Arity(c) = Len(block_params[c])
    <3>1. c \in Block /\ Len(block_params[c]) \in Nat
      BY <2>1 DEF STypeOK
    <3>2. Waiting(c) = 0
      BY <2>2, NobodyWaits
    <3>3. Unsettled(c) = 0
      <4>1. undef_variables[c] = <<>>
        BY <2>1, <2>2 DEF SealOK
      <4> QED  BY <2>2, <4>1 DEF Unsettled
    <3> QED  BY <3>1, <3>2, <3>3 DEF Arity
  <2>4. ASSUME NEW p \in Block, NEW i \in DOMAIN args[p]
        PROVE  Len(args[p][i]) = IF graph[p][i] \in sealed THEN Len(block_params[graph[p][i]]) ELSE 0
    <3>1. i \in 1 .. Len(args[p])
      <4>1. args[p] \in Seq(Seq(Nat))
        BY <2>1 DEF STypeOK
      <4> QED  BY <4>1
    <3>2. graph[p][i] \in Block /\ Len(args[p][i]) = Arity(graph[p][i])
      BY <2>1, <3>1, DestinationIsBlock DEF ArityOK
    <3> QED  BY <2>1, <2>3, <3>2 DEF ArityOK
  <2>5. ASSUME NEW v \in Value PROVE alias[resolve_aliases(v)] = None
    <3>1. alias \in Seq(Nat) /\ \A w \in Value : alias[w] \in Value \cup {None}
      BY <2>1 DEF STypeOK, ValuesExist
    <3> QED  BY <2>1, <3>1, ResolveEnds
  <2>6. ASSUME NEW v \in Value, alias[v] # None, NEW b \in Block, NEW i \in DOMAIN block_params[b]
        PROVE  block_params[b][i] # v
    <3>1. i \in 1 .. Len(block_params[b])
      <4>1. block_params[b] \in Seq(Nat)
        BY <2>1 DEF STypeOK
      <4> QED  BY <4>1
    <3> QED  BY <2>1, <2>6, <3>1 DEF ParamsOK
  <2> QED  BY <2>4, <2>5, <2>6
<1> QED  BY <1>1, SSAInvariant, PTL

\* The debug assertions of run_state_machine (ssa.rs:655) and the drain of
\* finish_predecessors_lookup never fail.
THEOREM StacksStayBalanced == Spec => []StacksBalanced
<1>1. SInv => StacksBalanced
  <2> SUFFICES ASSUME SInv PROVE StacksBalanced
    OBVIOUS
  <2>1. STypeOK /\ StacksOK
    BY DEF SInv
  <2>2. CASE pc = "machine"
    <3>1. Height = Len(results) /\ Len(results) \in Nat
      BY <2>1, <2>2 DEF STypeOK, Height
    <3>2. PICK h : Heights(h, calls, predecessors, Height)
      BY <2>1, <2>2 DEF StacksOK
    <3>3. CASE calls = <<>>
      <4>1. Len(calls) = 0
        BY <3>3
      <4>2. h[1] = 1 /\ h[1] = Height
        BY <3>2, <4>1 DEF Heights
      <4> QED  BY <2>2, <3>1, <3>3, <4>2 DEF StacksBalanced
    <3>4. CASE calls # <<>>
      <4>1. Head(calls).op = "finish" => Height >= Len(predecessors[Head(calls).block])
        BY <2>1, <3>2, <3>4, PopHeights DEF IsFinish
      <4> QED  BY <2>2, <3>1, <3>4, <4>1 DEF StacksBalanced
    <3> QED  BY <3>3, <3>4
  <2>3. CASE pc # "machine"
    BY <2>1, <2>3 DEF StacksOK, StacksBalanced
  <2> QED  BY <2>2, <2>3
<1> QED  BY <1>1, SSAInvariant, PTL

\* When every variable needs stack maps, or none does, the values of
\* declare_var_needs_stack_map are complete.  With some variables that do and
\* others that do not, copying one to the other loses an entry.
THEOREM StackMapsCompleteForAllVariables ==
    ASSUME StackMapVars \in {{}, Variable}
    PROVE  Spec => []StackMapsComplete
<1>1. SInv => StackMapsComplete
  <2> SUFFICES ASSUME SInv, pc = "run", NEW b \in Block, NEW k \in DOMAIN body[b],
                      body[b][k].var \in StackMapVars
               PROVE  \/ resolve_aliases(body[b][k].val) \in stack_map_values
                      \/ \E z \in Block : resolve_aliases(body[b][k].val) \in zeros[z]
    BY DEF StackMapsComplete
  <2>1. /\ STypeOK /\ ValuesExist /\ Acyclic(alias) /\ StackMapped
    BY DEF SInv
  <2>2. StackMapVars = Variable
    OBVIOUS
  <2>3. PICK v : v = body[b][k].val
    OBVIOUS
  <2>4. v \in Value
    <3>1. body[b] \in Seq(Statement)
      BY <2>1 DEF STypeOK
    <3>2. k \in 1 .. Len(body[b])
      BY <3>1
    <3> QED  BY <2>1, <2>3, <3>2 DEF ValuesExist
  <2>5. resolve_aliases(v) \in Value
    <3>1. alias \in Seq(Nat) /\ \A w \in Value : alias[w] \in Value \cup {None}
      BY <2>1 DEF STypeOK, ValuesExist
    <3> QED  BY <2>1, <2>4, <3>1, ResolveEnds
  <2> QED  BY <2>1, <2>2, <2>3, <2>5 DEF StackMapped
<1> QED  BY <1>1, SSAInvariant, PTL

=============================================================================
