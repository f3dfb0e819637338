--------------------------- MODULE ListPool_proofs --------------------------
(***************************************************************************)
(* Proofs about ListPool: the lists of one pool never share a cell, hold   *)
(* what their own calls put there, and nothing of the pool is lost, for any*)
(* number of lists, any elements and any sizes.                            *)
(*                                                                         *)
(* Pool(p, U) says that there is a sequence of blocks for each free list,  *)
(* linked as the heads and the first cells say (Chain), such that these    *)
(* blocks and those in use, U, tile the vector (Tiles).  It is proved of   *)
(* alloc, free and realloc; List(p, U, idx, s) adds the one list a call is *)
(* made on, and Gives what the call leaves; GoodCall lifts that to all     *)
(* lists, since a call keeps every cell of the blocks it does not own      *)
(* (Keeps).  At the end the walk along a free list that BlocksTilePool     *)
(* makes is shown to visit the blocks of its chain: a chain in a finite    *)
(* vector is short (ChainShort).  Inductions choose a least counterexample.*)
(***************************************************************************)
EXTENDS ListPool, TLAPS, SequenceTheorems, FiniteSetTheorems, FunctionTheorems, WellFoundedInduction

(***************************************************************************)
(* Natural numbers: every induction below is the choice of a least         *)
(* counterexample.                                                         *)
(***************************************************************************)

\* A set of naturals that is not empty has a least member.
LEMMA NatMin ==
    ASSUME NEW T, T \subseteq Nat, T # {}
    PROVE  \E x \in T : \A y \in T : x <= y
<1> DEFINE R == {ss \in Nat \X Nat : ss[1] < ss[2]}
<1>1. OpToRel(<, Nat) = R
  BY Zenon DEF OpToRel
<1>2. IsWellFoundedOn(R, Nat)
  BY <1>1, NatLessThanWellFounded
<1>3. \E x \in T : \A y \in T : ~(<<y, x>> \in R)
  <2> HIDE DEF R
  <2> QED  BY <1>2, WFMin
<1>4. PICK x \in T : \A y \in T : ~(<<y, x>> \in R)
  BY <1>3
<1>5. ASSUME NEW y \in T PROVE x <= y
  <2>1. ~(<<y, x>> \in R)
    BY <1>4
  <2>2. x \in Nat /\ y \in Nat
    OBVIOUS
  <2>3. ~(y < x)
    BY <2>1, <2>2
  <2> QED  BY <2>2, <2>3
<1> QED  BY <1>5

(***************************************************************************)
(* Size classes.                                                           *)
(***************************************************************************)

\* The recursion of sclass_size defines a value for every class.
LEMMA SizeExists == \E f : f = [c \in Nat |-> IF c = 0 THEN 4 ELSE 2 * f[c - 1]]
<1> DEFINE P(n, g) == /\ g \in [0 .. n -> Nat] /\ g[0] = 4
                      /\ \A k \in 1 .. n : g[k] = 2 * g[k - 1]
           T == {n \in Nat : \A g : ~P(n, g)}
<1>1. T = {}
  <2> SUFFICES ASSUME T # {} PROVE FALSE
    OBVIOUS
  <2>1. PICK n \in T : \A m \in T : n <= m
    BY NatMin
  <2>2. n \in Nat
    OBVIOUS
  <2>3. CASE n = 0
    <3>1. P(0, [k \in 0 .. 0 |-> 4])
      OBVIOUS
    <3> QED  BY <2>3, <3>1
  <2>4. CASE n # 0
    <3>1. n - 1 \in Nat /\ n - 1 \notin T
      <4> HIDE DEF T
      <4> QED  BY <2>1, <2>2, <2>4
    <3>2. PICK g : P(n - 1, g)
      <4> HIDE DEF P
      <4> QED  BY <3>1
    <3> DEFINE G == [k \in 0 .. n |-> IF k = n THEN 2 * g[n - 1] ELSE g[k]]
    <3>3. G \in [0 .. n -> Nat] /\ G[0] = 4
      BY <2>2, <2>4, <3>1, <3>2
    <3>4. ASSUME NEW k \in 1 .. n PROVE G[k] = 2 * G[k - 1]
      <4>1. k \in 0 .. n /\ k - 1 \in 0 .. n /\ k - 1 # n
        BY <2>2
      <4>2. G[k - 1] = g[k - 1]
        BY <4>1
      <4>3. CASE k = n
        BY <4>1, <4>2, <4>3
      <4>4. CASE k # n
        <5>1. k \in 1 .. (n - 1)
          BY <2>2, <4>4
        <5> QED  BY <3>2, <4>1, <4>2, <4>4, <5>1
      <4> QED  BY <4>3, <4>4
    <3>5. P(n, G)
      BY <3>3, <3>4
    <3> QED  BY <3>5
  <2> QED  BY <2>3, <2>4
<1>2. ASSUME NEW n \in Nat, NEW m \in Nat, NEW g, NEW h, P(n, g), P(m, h),
             NEW k \in Nat, k <= n, k <= m
      PROVE  g[k] = h[k]
  <2> DEFINE D == {j \in Nat : j <= n /\ j <= m /\ g[j] # h[j]}
  <2> SUFFICES ASSUME D # {} PROVE FALSE
    BY <1>2
  <2>1. PICK j \in D : \A i \in D : j <= i
    BY NatMin
  <2>2. j \in Nat /\ j <= n /\ j <= m /\ g[j] # h[j]
    OBVIOUS
  <2>3. j # 0
    BY <1>2, <2>2
  <2>4. j - 1 \in Nat /\ j - 1 \notin D
    BY <2>1, <2>2, <2>3
  <2>5. g[j - 1] = h[j - 1]
    BY <2>2, <2>4
  <2>6. j \in 1 .. n /\ j \in 1 .. m
    BY <2>2, <2>3
  <2> QED  BY <1>2, <2>2, <2>5, <2>6
<1> DEFINE V(n) == CHOOSE g : P(n, g)
           f == [n \in Nat |-> V(n)[n]]
<1>3. \A n \in Nat : P(n, V(n))
  <2> SUFFICES ASSUME NEW n \in Nat PROVE \E g : P(n, g)
    OBVIOUS
  <2> HIDE DEF P
  <2> QED  BY <1>1
<1>4. ASSUME NEW n \in Nat PROVE f[n] = IF n = 0 THEN 4 ELSE 2 * f[n - 1]
  <2>1. P(n, V(n))
    BY <1>3
  <2>2. CASE n = 0
    <3> HIDE DEF V
    <3> QED  BY <2>1, <2>2
  <2>3. CASE n # 0
    <3>1. n - 1 \in Nat /\ P(n - 1, V(n - 1))
      <4>1. n - 1 \in Nat
        BY <2>3
      <4> HIDE DEF P, V
      <4> QED  BY <1>3, <4>1
    <3>2. V(n)[n - 1] = V(n - 1)[n - 1]
      <4> HIDE DEF P, V
      <4> QED  BY <1>2, <2>1, <3>1
    <3> HIDE DEF V
    <3>3. V(n)[n] = 2 * V(n)[n - 1]
      BY <2>1, <2>3
    <3> QED  BY <2>3, <3>1, <3>2, <3>3
  <2> QED  BY <2>2, <2>3
<1> HIDE DEF V
<1>5. f = [n \in Nat |-> IF n = 0 THEN 4 ELSE 2 * f[n - 1]]
  <2>1. \A n \in Nat : f[n] = IF n = 0 THEN 4 ELSE 2 * f[n - 1]
    BY <1>4
  <2>2. f = [n \in Nat |-> f[n]]
    OBVIOUS
  <2> HIDE DEF f
  <2> QED  BY <2>1, <2>2
<1> QED  BY <1>5

\* sclass_size doubles from class to class.
LEMMA SizeValue ==
    \A c \in Nat : sclass_size[c] = IF c = 0 THEN 4 ELSE 2 * sclass_size[c - 1]
<1> DEFINE Eq(f) == f = [c \in Nat |-> IF c = 0 THEN 4 ELSE 2 * f[c - 1]]
<1>1. \E f : Eq(f)
  BY SizeExists
<1>2. sclass_size = CHOOSE f : Eq(f)
  BY DEF sclass_size
<1> HIDE DEF Eq
<1>3. Eq(sclass_size)
  BY <1>1, <1>2
<1> QED  BY <1>3 DEF Eq

\* A block has room for a length and an element at least.
LEMMA SizeNat == \A c \in Nat : sclass_size[c] \in Nat /\ sclass_size[c] >= c + 4
<1> DEFINE T == {c \in Nat : ~(sclass_size[c] \in Nat /\ sclass_size[c] >= c + 4)}
<1> SUFFICES ASSUME T # {} PROVE FALSE
  OBVIOUS
<1>1. PICK c \in T : \A d \in T : c <= d
  BY NatMin
<1>2. c \in Nat /\ ~(sclass_size[c] \in Nat /\ sclass_size[c] >= c + 4)
  OBVIOUS
<1>3. c # 0
  BY <1>2, SizeValue
<1>4. c - 1 \in Nat /\ c - 1 \notin T
  BY <1>1, <1>2, <1>3
<1>5. sclass_size[c - 1] \in Nat /\ sclass_size[c - 1] >= c + 3
  BY <1>2, <1>4
<1>6. sclass_size[c] = 2 * sclass_size[c - 1]
  BY <1>2, <1>3, SizeValue
<1> QED  BY <1>2, <1>5, <1>6

\* Larger classes have larger blocks.
LEMMA SizeGrows ==
    ASSUME NEW c \in Nat, NEW d \in Nat, c <= d
    PROVE  sclass_size[c] <= sclass_size[d]
<1> DEFINE T == {e \in Nat : c <= e /\ ~(sclass_size[c] <= sclass_size[e])}
<1> SUFFICES ASSUME T # {} PROVE FALSE
  OBVIOUS
<1>1. PICK e \in T : \A i \in T : e <= i
  BY NatMin
<1>2. e \in Nat /\ c <= e /\ ~(sclass_size[c] <= sclass_size[e])
  OBVIOUS
<1>3. e # c
  BY <1>2, SizeNat
<1>4. e - 1 \in Nat /\ c <= e - 1 /\ e # 0
  BY <1>2, <1>3
<1>5. sclass_size[c] <= sclass_size[e - 1]
  BY <1>1, <1>4
<1>6. sclass_size[e] = 2 * sclass_size[e - 1]
  BY <1>2, <1>4, SizeValue
<1> QED  BY <1>2, <1>4, <1>5, <1>6, SizeNat

\* What sclass_for_length returns: the class of the smallest block that holds
\* the length and the elements.
LEMMA ClassOf ==
    ASSUME NEW n \in 0 .. MaxLen
    PROVE  /\ sclass_for_length(n) \in Class
           /\ n < sclass_size[sclass_for_length(n)]
           /\ \/ sclass_for_length(n) = 0
              \/ sclass_size[sclass_for_length(n) - 1] <= n
           /\ \A c \in Class :
                n < sclass_size[c] /\ (c = 0 \/ sclass_size[c - 1] <= n) => c = sclass_for_length(n)
<1>0. n \in Nat /\ MaxLen \in Nat /\ n <= MaxLen
  BY ListAssumption
<1> DEFINE Fits(c) == n < sclass_size[c] /\ (c = 0 \/ sclass_size[c] \div 2 <= n)
           T == {c \in Nat : n < sclass_size[c]}
<1>1. n \in T
  BY <1>0, SizeNat
<1>2. PICK c \in T : \A d \in T : c <= d
  BY <1>1, NatMin
<1>3. c \in Nat /\ n < sclass_size[c]
  OBVIOUS
<1>4. \A d \in Class : d \in Nat /\ (d # 0 => sclass_size[d] \div 2 = sclass_size[d - 1])
  <2> SUFFICES ASSUME NEW d \in Class PROVE d \in Nat /\ (d # 0 => sclass_size[d] \div 2 = sclass_size[d - 1])
    OBVIOUS
  <2>1. d \in Nat
    BY <1>0 DEF Class
  <2>2. d # 0 => d - 1 \in Nat /\ sclass_size[d] = 2 * sclass_size[d - 1] /\ sclass_size[d - 1] \in Nat
    BY <2>1, SizeValue, SizeNat
  <2> QED  BY <2>1, <2>2
<1>5. c # 0 => c - 1 \in Nat /\ sclass_size[c - 1] <= n /\ sclass_size[c] = 2 * sclass_size[c - 1]
  <2> SUFFICES ASSUME c # 0
               PROVE  c - 1 \in Nat /\ sclass_size[c - 1] <= n /\ sclass_size[c] = 2 * sclass_size[c - 1]
    OBVIOUS
  <2>1. c - 1 \in Nat /\ c - 1 \notin T
    BY <1>2, <1>3
  <2>2. sclass_size[c - 1] \in Nat
    BY <2>1, SizeNat
  <2> QED  BY <1>0, <1>3, <2>1, <2>2, SizeValue
<1>6. c \in Class
  <2>1. CASE c = 0
    BY <1>0, <2>1 DEF Class
  <2>2. CASE c # 0
    <3>1. sclass_size[c - 1] >= c + 3
      BY <1>5, <2>2, SizeNat
    <3>2. sclass_size[c - 1] \in Nat
      BY <1>5, <2>2, SizeNat
    <3>3. c <= MaxLen /\ sclass_size[c] <= 2 * MaxLen
      BY <1>0, <1>3, <1>5, <2>2, <3>1, <3>2
    <3> QED  BY <1>0, <1>3, <3>3 DEF Class
  <2> QED  BY <2>1, <2>2
<1>7. Fits(c)
  BY <1>3, <1>4, <1>5, <1>6
<1>8. sclass_for_length(n) \in Class /\ Fits(sclass_for_length(n))
  <2>1. sclass_for_length(n) = CHOOSE d \in Class : Fits(d)
    BY DEF sclass_for_length
  <2> HIDE DEF Fits
  <2> QED  BY <1>6, <1>7, <2>1
<1>9. ASSUME NEW d \in Class, NEW e \in Class, d < e, n < sclass_size[d], sclass_size[e - 1] <= n
      PROVE  FALSE
  <2>1. d \in Nat /\ e \in Nat /\ e - 1 \in Nat /\ d <= e - 1
    BY <1>4, <1>9
  <2>2. sclass_size[d] <= sclass_size[e - 1]
    BY <2>1, SizeGrows
  <2>3. sclass_size[d] \in Nat /\ sclass_size[e - 1] \in Nat
    BY <2>1, SizeNat
  <2> QED  BY <1>0, <1>9, <2>2, <2>3
<1>10. ASSUME NEW d \in Class, n < sclass_size[d], d = 0 \/ sclass_size[d - 1] <= n
       PROVE  d = sclass_for_length(n)
  <2> DEFINE e == sclass_for_length(n)
  <2>1. e \in Class /\ n < sclass_size[e] /\ (e = 0 \/ sclass_size[e - 1] <= n)
    BY <1>4, <1>8
  <2> HIDE DEF e
  <2>2. d \in Nat /\ e \in Nat
    BY <1>4, <2>1
  <2>3. ~(d < e) /\ ~(e < d)
    BY <1>9, <1>10, <2>1, <2>2
  <2>4. d = e
    BY <2>2, <2>3
  <2> QED  BY <2>4 DEF e
<1> QED  BY <1>4, <1>8, <1>10

\* A class is a number and its blocks hold four cells at least.
LEMMA ClassType == \A c \in Class : c \in Nat /\ sclass_size[c] \in Nat /\ sclass_size[c] >= 4
<1>1. \A c \in Class : c \in Nat
  BY ListAssumption DEF Class
<1> QED  BY <1>1, SizeNat

\* push and remove_last move a list to the next class, or back, exactly when
\* its class changes.
LEMMA ClassStep ==
    ASSUME NEW n \in 1 .. MaxLen, n < MaxLen
    PROVE  sclass_for_length(n + 1) = IF is_sclass_min_length(n + 1)
                                      THEN sclass_for_length(n) + 1 ELSE sclass_for_length(n)
<1>0. MaxLen \in Nat /\ n \in Nat /\ n \in 0 .. MaxLen /\ n + 1 \in 0 .. MaxLen /\ n + 1 \in Nat
  BY ListAssumption
<1>1. CASE is_sclass_min_length(n + 1)
  <2>1. n >= 3 /\ \E c \in Class : 2 * (n + 1) = sclass_size[c]
    BY <1>0, <1>1 DEF is_sclass_min_length
  <2>2. PICK c \in Class : 2 * (n + 1) = sclass_size[c]
    BY <2>1
  <2>3. c \in Nat
    BY ClassType
  <2>4. c # 0
    BY <1>0, <2>1, <2>2, SizeValue
  <2>5. c - 1 \in Nat /\ sclass_size[c] = 2 * sclass_size[c - 1] /\ sclass_size[c - 1] \in Nat
    BY <2>3, <2>4, SizeValue, SizeNat
  <2>6. sclass_size[c - 1] = n + 1
    BY <1>0, <2>2, <2>5
  <2>7. c = sclass_for_length(n + 1)
    BY <1>0, <2>2, <2>6, ClassOf
  <2>8. c - 1 \in Class
    <3>1. c \in 0 .. MaxLen
      BY DEF Class
    <3>2. sclass_size[c - 1] <= 2 * MaxLen
      BY <1>0, <2>6
    <3> QED  BY <1>0, <2>5, <3>1, <3>2 DEF Class
  <2>9. c - 1 = 0 \/ sclass_size[c - 1 - 1] <= n
    <3> SUFFICES ASSUME c - 1 # 0 PROVE sclass_size[c - 1 - 1] <= n
      OBVIOUS
    <3> DEFINE a == c - 1
    <3>0. a \in Nat /\ a # 0
      BY <2>5
    <3>1. a - 1 \in Nat /\ sclass_size[a] = 2 * sclass_size[a - 1] /\ sclass_size[a - 1] \in Nat
      <4> HIDE DEF a
      <4> QED  BY <3>0, SizeValue, SizeNat
    <3> QED  BY <1>0, <2>6, <3>1
  <2>10. n < sclass_size[c - 1]
    BY <1>0, <2>6
  <2>11. c - 1 = sclass_for_length(n)
    BY <1>0, <2>8, <2>9, <2>10, ClassOf
  <2> QED  BY <1>1, <2>3, <2>7, <2>11
<1>2. CASE ~is_sclass_min_length(n + 1)
  <2> DEFINE d == sclass_for_length(n)
  <2>1. d \in Class /\ n < sclass_size[d]
    BY <1>0, ClassOf
  <2>2. d = 0 \/ sclass_size[d - 1] <= n
    BY <1>0, ClassOf
  <2> HIDE DEF d
  <2>3. d \in Nat /\ sclass_size[d] \in Nat /\ sclass_size[d] >= d + 4
    BY <2>1, ClassType, SizeNat
  <2>4. d = 0 \/ sclass_size[d - 1] <= n + 1
    <3> SUFFICES ASSUME d # 0 PROVE sclass_size[d - 1] <= n + 1
      OBVIOUS
    <3>1. sclass_size[d - 1] \in Nat
      BY <2>3, SizeNat
    <3> QED  BY <1>0, <2>2, <3>1
  <2>5. n + 1 < sclass_size[d]
    <3> SUFFICES ASSUME n + 1 = sclass_size[d] PROVE FALSE
      BY <1>0, <2>1, <2>3
    <3>1. d + 1 \in Nat /\ sclass_size[d + 1] = 2 * sclass_size[d]
      BY <2>3, SizeValue
    <3>2. d + 1 <= MaxLen /\ sclass_size[d + 1] <= 2 * MaxLen
      BY <1>0, <2>3, <3>1
    <3>3. d + 1 \in Class
      BY <1>0, <3>1, <3>2 DEF Class
    <3>4. n + 1 > 3 /\ 2 * (n + 1) = sclass_size[d + 1]
      BY <1>0, <2>3, <3>1
    <3> QED  BY <1>2, <3>3, <3>4 DEF is_sclass_min_length
  <2>6. d = sclass_for_length(n + 1)
    BY <1>0, <2>1, <2>4, <2>5, ClassOf
  <2> QED  BY <1>2, <2>6 DEF d
<1> QED  BY <1>1, <1>2

(***************************************************************************)
(* The pool.  Pool(p, U) says that U is the set of the blocks in use, each *)
(* with its first cell and its class: with the blocks of the free lists    *)
(* they tile the vector.                                                   *)
(***************************************************************************)

Block == Nat \X Class
Pools == [data : UNION {[0 .. (n - 1) -> Nat] : n \in Nat}, free : [Class -> Nat]]
end(x) == x[1] + sclass_size[x[2]]

\* What the head of a free list, or the i-th block on it, refers to.
link(s, i) == IF i \in DOMAIN s THEN s[i] + 1 ELSE 0

\* The free list of class c runs through the blocks of s.
Chain(p, c, s) ==
    /\ p.free[c] = link(s, 1)
    /\ \A i \in DOMAIN s : p.data[s[i] + 1] = link(s, i + 1)
    /\ \A i, j \in DOMAIN s : s[i] = s[j] => i = j

FreeOf(fb) == {x \in Block : \E i \in DOMAIN fb[x[2]] : fb[x[2]][i] = x[1]}

Tiles(p, B) ==
    /\ B \subseteq Block
    /\ \A x \in B : end(x) <= size(p)
    /\ \A x, y \in B : x = y \/ end(x) <= y[1] \/ end(y) <= x[1]
    /\ \A i \in 0 .. (size(p) - 1) : \E x \in B : x[1] <= i /\ i < end(x)

PoolBy(p, U, fb) ==
    /\ p \in Pools /\ fb \in [Class -> Seq(Nat)]
    /\ \A c \in Class : Chain(p, c, fb[c])
    /\ U \cap FreeOf(fb) = {}
    /\ Tiles(p, U \cup FreeOf(fb))

Pool(p, U) == \E fb : PoolBy(p, U, fb)

\* The cells of the blocks of U are the same in q as in p.
Keeps(p, q, U) ==
    \A x \in U : \A i \in x[1] .. (end(x) - 1) : q.data[i] = p.data[i]

\* The parts of a pool.
LEMMA PoolType ==
    ASSUME NEW p \in Pools
    PROVE  /\ size(p) \in Nat /\ DOMAIN p.data = 0 .. (size(p) - 1)
           /\ p.data \in [0 .. (size(p) - 1) -> Nat] /\ p.free \in [Class -> Nat]
           /\ p = [data |-> p.data, free |-> p.free]
<1>1. PICK n \in Nat : p.data \in [0 .. (n - 1) -> Nat]
  BY DEF Pools
<1>2. Cardinality(0 .. (n - 1)) = n
  <2>1. 0 \in Int /\ n - 1 \in Int
    OBVIOUS
  <2>2. Cardinality(0 .. (n - 1)) = IF 0 > n - 1 THEN 0 ELSE n - 1 - 0 + 1
    BY <2>1, FS_Interval
  <2> QED  BY <2>2
<1>3. DOMAIN p.data = 0 .. (n - 1)
  BY <1>1
<1>4. size(p) = n
  BY <1>2, <1>3 DEF size
<1> QED  BY <1>1, <1>3, <1>4 DEF Pools

\* A sequence with one more element in front.
LEMMA ConsFacts ==
    ASSUME NEW x \in Nat, NEW s \in Seq(Nat)
    PROVE  /\ <<x>> \o s \in Seq(Nat) /\ DOMAIN (<<x>> \o s) = 1 .. (Len(s) + 1)
           /\ (<<x>> \o s)[1] = x
           /\ \A i \in DOMAIN s : i \in Nat \ {0} /\ (<<x>> \o s)[i + 1] = s[i]
           /\ Len(s) \in Nat /\ DOMAIN s = 1 .. Len(s)
<1>1. Len(s) \in Nat /\ DOMAIN s = 1 .. Len(s)
  OBVIOUS
<1>2. <<x>> \in Seq(Nat) /\ Len(<<x>>) = 1 /\ <<x>>[1] = x
  OBVIOUS
<1>3. <<x>> \o s \in Seq(Nat) /\ Len(<<x>> \o s) = Len(s) + 1
  BY <1>1, <1>2
<1>4. (<<x>> \o s)[1] = x
  BY <1>1, <1>2
<1>5. ASSUME NEW i \in DOMAIN s PROVE i \in Nat \ {0} /\ (<<x>> \o s)[i + 1] = s[i]
  BY <1>1, <1>2
<1>6. DOMAIN (<<x>> \o s) = 1 .. (Len(s) + 1)
  BY <1>1, <1>3
<1> QED  BY <1>1, <1>3, <1>4, <1>5, <1>6

\* A pool from its parts.
LEMMA PoolMake ==
    ASSUME NEW n \in Nat, NEW d \in [0 .. (n - 1) -> Nat], NEW f \in [Class -> Nat]
    PROVE  /\ [data |-> d, free |-> f] \in Pools
           /\ size([data |-> d, free |-> f]) = n
<1>1. [data |-> d, free |-> f] \in Pools
  BY DEF Pools
<1>2. DOMAIN d = 0 .. (n - 1) /\ DOMAIN d = 0 .. (size([data |-> d, free |-> f]) - 1)
      /\ size([data |-> d, free |-> f]) \in Nat
  BY <1>1, PoolType
<1>3. size([data |-> d, free |-> f]) = n
  BY <1>2
<1> QED  BY <1>1, <1>3

\* A pool with another vector.
LEMMA PoolExcept ==
    ASSUME NEW p \in Pools, NEW d
    PROVE  [p EXCEPT !.data = d] = [data |-> d, free |-> p.free]
BY DEF Pools

\* A pool with another head of a free list.
LEMMA PoolHead ==
    ASSUME NEW p \in Pools, NEW c \in Class, NEW v
    PROVE  [p EXCEPT !.free[c] = v] = [data |-> p.data, free |-> [p.free EXCEPT ![c] = v]]
<1> DEFINE f == [p.free EXCEPT ![c] = v]
<1>1. [p EXCEPT !.free[c] = v] = [p EXCEPT !.free = f]
  BY DEF Pools
<1> HIDE DEF f
<1>2. [p EXCEPT !.free = f] = [data |-> p.data, free |-> f]
  BY DEF Pools
<1> QED  BY <1>1, <1>2 DEF f

\* What written() changes.
LEMMA WrittenType ==
    ASSUME NEW p \in Pools, NEW at \in Nat, NEW s \in Seq(Nat)
    PROVE  /\ written(p, at, s) \in Pools
           /\ size(written(p, at, s)) = size(p)
           /\ written(p, at, s).free = p.free
           /\ \A i \in 0 .. (size(p) - 1) :
                written(p, at, s).data[i] =
                    IF i >= at /\ i < at + Len(s) THEN s[i - at + 1] ELSE p.data[i]
<1> DEFINE n == size(p)
           d == [i \in 0 .. (n - 1) |->
                    IF i >= at /\ i < at + Len(s) THEN s[i - at + 1] ELSE p.data[i]]
<1>0. /\ n \in Nat /\ DOMAIN p.data = 0 .. (n - 1) /\ p.data \in [0 .. (n - 1) -> Nat]
      /\ p.free \in [Class -> Nat] /\ p = [data |-> p.data, free |-> p.free]
  BY PoolType
<1> HIDE DEF n
<1>1. written(p, at, s) = [data |-> d, free |-> p.free]
  <2>1. written(p, at, s) = [p EXCEPT !.data = d]
    BY <1>0 DEF written
  <2> HIDE DEF d
  <2> QED  BY <2>1, PoolExcept
<1>2. d \in [0 .. (n - 1) -> Nat]
  <2>1. ASSUME NEW i \in 0 .. (n - 1), i >= at, i < at + Len(s) PROVE s[i - at + 1] \in Nat
    <3>1. i - at + 1 \in 1 .. Len(s)
      BY <1>0, <2>1
    <3> QED  BY <3>1
  <2> QED  BY <1>0, <2>1
<1>3. \A i \in 0 .. (n - 1) :
         d[i] = IF i >= at /\ i < at + Len(s) THEN s[i - at + 1] ELSE p.data[i]
  OBVIOUS
<1> HIDE DEF d
<1>4. [data |-> d, free |-> p.free] \in Pools /\ size([data |-> d, free |-> p.free]) = n
  BY <1>0, <1>2, PoolMake
<1> QED  BY <1>1, <1>3, <1>4 DEF n

\* The block of x lies in the vector.
LEMMA BlockType ==
    ASSUME NEW x \in Block
    PROVE  /\ x[1] \in Nat /\ x[2] \in Class /\ x = <<x[1], x[2]>>
           /\ end(x) \in Nat /\ end(x) >= x[1] + 4 /\ end(x) = x[1] + sclass_size[x[2]]
<1>1. x[1] \in Nat /\ x[2] \in Class /\ x = <<x[1], x[2]>>
  BY DEF Block
<1>2. sclass_size[x[2]] \in Nat /\ sclass_size[x[2]] >= 4
  BY <1>1, ClassType
<1> QED  BY <1>1, <1>2 DEF end

\* A block on a free list.
LEMMA FreeBlock ==
    ASSUME NEW fb \in [Class -> Seq(Nat)], NEW c \in Class, NEW i \in DOMAIN fb[c]
    PROVE  <<fb[c][i], c>> \in FreeOf(fb) /\ fb[c][i] \in Nat
<1>1. fb[c] \in Seq(Nat)
  OBVIOUS
<1>2. fb[c][i] \in Nat
  BY <1>1
<1> QED  BY <1>2 DEF FreeOf, Block

\* A write inside a block in use disturbs neither the free lists nor the cells
\* of the other blocks in use.
LEMMA WritePool ==
    ASSUME NEW p, NEW U, NEW x \in U, Pool(p, U), NEW at \in Nat, NEW s \in Seq(Nat),
           x[1] <= at, at + Len(s) <= end(x)
    PROVE  /\ Pool(written(p, at, s), U)
           /\ Keeps(p, written(p, at, s), U \ {x})
<1> DEFINE q == written(p, at, s)
<1>1. PICK fb : PoolBy(p, U, fb)
  BY DEF Pool
<1>2. p \in Pools /\ fb \in [Class -> Seq(Nat)] /\ Tiles(p, U \cup FreeOf(fb)) /\ U \cap FreeOf(fb) = {}
  BY <1>1 DEF PoolBy
<1>3. /\ q \in Pools /\ size(q) = size(p) /\ q.free = p.free
      /\ \A i \in 0 .. (size(p) - 1) : ~(i >= at /\ i < at + Len(s)) => q.data[i] = p.data[i]
  BY <1>2, WrittenType
<1> HIDE DEF q
<1>4. x \in Block /\ x[1] \in Nat /\ end(x) \in Nat /\ size(p) \in Nat
  BY <1>2, PoolType, BlockType DEF Tiles
<1>5. ASSUME NEW y \in (U \cup FreeOf(fb)) \ {x}, NEW i \in y[1] .. (end(y) - 1)
      PROVE  q.data[i] = p.data[i]
  <2>1. y[1] \in Nat /\ end(y) \in Nat /\ end(y) <= size(p)
    BY <1>2, BlockType DEF Tiles
  <2>2. end(x) <= y[1] \/ end(y) <= x[1]
    BY <1>2 DEF Tiles
  <2>3. Len(s) \in Nat
    OBVIOUS
  <2>4. i \in 0 .. (size(p) - 1) /\ ~(i >= at /\ i < at + Len(s))
    BY <1>4, <2>1, <2>2, <2>3
  <2> QED  BY <1>3, <2>4
<1>6. Keeps(p, q, U \ {x})
  BY <1>5 DEF Keeps
<1>7. ASSUME NEW c \in Class PROVE Chain(q, c, fb[c])
  <2>1. Chain(p, c, fb[c])
    BY <1>1 DEF PoolBy
  <2>2. ASSUME NEW i \in DOMAIN fb[c] PROVE q.data[fb[c][i] + 1] = p.data[fb[c][i] + 1]
    <3> DEFINE y == <<fb[c][i], c>>
    <3>1. y \in FreeOf(fb) /\ fb[c][i] \in Nat
      BY <1>2, FreeBlock
    <3>2. y \in (U \cup FreeOf(fb)) \ {x} /\ y \in Block
      BY <1>2, <3>1 DEF Tiles
    <3>3. end(y) \in Nat /\ end(y) >= y[1] + 4 /\ y[1] = fb[c][i]
      BY <3>2, BlockType
    <3> HIDE DEF y
    <3>4. fb[c][i] + 1 \in y[1] .. (end(y) - 1)
      BY <3>1, <3>3
    <3> QED  BY <1>5, <3>2, <3>4
  <2> QED  BY <1>3, <2>1, <2>2 DEF Chain
<1>8. Tiles(q, U \cup FreeOf(fb))
  BY <1>2, <1>3 DEF Tiles
<1>9. PoolBy(q, U, fb)
  BY <1>2, <1>3, <1>7, <1>8 DEF PoolBy
<1> QED  BY <1>6, <1>9 DEF Pool, q

\* alloc() from the head of a free list.
LEMMA AllocFree ==
    ASSUME NEW p, NEW U, Pool(p, U), NEW c \in Class, p.free[c] > 0
    PROVE  LET a == alloc(p, c) IN
           /\ Pool(a.pool, U \cup {<<a.block, c>>})
           /\ <<a.block, c>> \notin U
           /\ a.pool.data = p.data
<1>1. PICK fb : PoolBy(p, U, fb)
  BY DEF Pool
<1>2. /\ p \in Pools /\ fb \in [Class -> Seq(Nat)] /\ Tiles(p, U \cup FreeOf(fb))
      /\ U \cap FreeOf(fb) = {} /\ fb[c] \in Seq(Nat)
  BY <1>1 DEF PoolBy
<1>3. Chain(p, c, fb[c])
  BY <1>1 DEF PoolBy
<1> DEFINE h == p.free[c]
           b == fb[c][1]
           nx == p.data[h]
           q == [p EXCEPT !.free[c] = nx]
           f == [p.free EXCEPT ![c] = nx]
           gb == [fb EXCEPT ![c] = Tail(fb[c])]
           x == <<b, c>>
<1>4. 1 \in DOMAIN fb[c] /\ h = b + 1 /\ b \in Nat /\ fb[c] # <<>>
  BY <1>2, <1>3 DEF Chain, link
<1>5. alloc(p, c).pool = q /\ alloc(p, c).block = b
  BY <1>4 DEF alloc
<1>6. q = [data |-> p.data, free |-> f]
  <2> HIDE DEF nx
  <2> QED  BY <1>2, PoolHead, ZenonT(60)
<1>7. nx = link(fb[c], 2)
  BY <1>3, <1>4 DEF Chain
<1>8. /\ p.free \in [Class -> Nat] /\ size(p) \in Nat /\ p.data \in [0 .. (size(p) - 1) -> Nat]
  BY <1>2, PoolType
<1>9. link(fb[c], 2) \in Nat
  BY <1>2 DEF link
<1>10. q \in Pools /\ size(q) = size(p) /\ q.data = p.data /\ q.free = [p.free EXCEPT ![c] = link(fb[c], 2)]
  <2>1. f \in [Class -> Nat] /\ f = [p.free EXCEPT ![c] = link(fb[c], 2)]
    BY <1>7, <1>8, <1>9
  <2> HIDE DEF f, q
  <2>2. q \in Pools /\ size(q) = size(p)
    BY <1>6, <1>8, <2>1, PoolMake, ZenonT(60)
  <2> QED  BY <1>6, <2>1, <2>2
<1>11. /\ Tail(fb[c]) \in Seq(Nat)
       /\ \A i \in DOMAIN Tail(fb[c]) : i + 1 \in DOMAIN fb[c] /\ Tail(fb[c])[i] = fb[c][i + 1]
       /\ \A i \in Nat : i + 1 \in DOMAIN fb[c] /\ i # 0 => i \in DOMAIN Tail(fb[c])
       /\ DOMAIN Tail(fb[c]) \subseteq Nat \ {0}
  BY <1>2, <1>4
<1>12. gb \in [Class -> Seq(Nat)] /\ gb[c] = Tail(fb[c]) /\ \A d \in Class : d # c => gb[d] = fb[d]
  BY <1>2, <1>11
<1> HIDE DEF gb, q
<1>13. ASSUME NEW d \in Class PROVE Chain(q, d, gb[d])
  <2>1. CASE d # c
    <3>1. Chain(p, d, fb[d])
      BY <1>1 DEF PoolBy
    <3> QED  BY <1>8, <1>10, <1>12, <2>1, <3>1 DEF Chain
  <2>2. CASE d = c
    <3> DEFINE s == fb[c]
               t == Tail(fb[c])
    <3>1. \A i \in Nat \ {0} : link(t, i) = link(s, i + 1)
      BY <1>11 DEF link
    <3>2. q.free[c] = link(t, 1)
      BY <1>8, <1>10, <3>1
    <3>3. ASSUME NEW i \in DOMAIN t PROVE q.data[t[i] + 1] = link(t, i + 1)
      <4>1. i \in Nat /\ i + 1 \in DOMAIN s /\ t[i] = s[i + 1] /\ i + 1 \in Nat \ {0}
        BY <1>11
      <4>2. p.data[s[i + 1] + 1] = link(s, i + 1 + 1)
        BY <1>3, <4>1 DEF Chain
      <4>3. link(t, i + 1) = link(s, i + 1 + 1)
        BY <3>1, <4>1
      <4> QED  BY <1>10, <4>1, <4>2, <4>3
    <3>4. \A i, j \in DOMAIN t : t[i] = t[j] => i = j
      <4> SUFFICES ASSUME NEW i \in DOMAIN t, NEW j \in DOMAIN t, t[i] = t[j] PROVE i = j
        OBVIOUS
      <4>1. i \in Nat /\ j \in Nat /\ i + 1 \in DOMAIN s /\ j + 1 \in DOMAIN s /\ s[i + 1] = s[j + 1]
        BY <1>11
      <4>2. i + 1 = j + 1
        BY <1>3, <4>1 DEF Chain
      <4> QED  BY <4>1, <4>2
    <3> QED  BY <1>12, <2>2, <3>2, <3>3, <3>4, ZenonT(60) DEF Chain
  <2> QED  BY <2>1, <2>2
<1>14. x \in FreeOf(fb)
  BY <1>2, <1>4, FreeBlock
<1>15. FreeOf(gb) = FreeOf(fb) \ {x}
  <2>1. ASSUME NEW y \in FreeOf(gb) PROVE y \in FreeOf(fb) \ {x}
    <3>1. y \in Block /\ \E i \in DOMAIN gb[y[2]] : gb[y[2]][i] = y[1]
      BY DEF FreeOf
    <3>2. CASE y[2] # c
      <4>1. gb[y[2]] = fb[y[2]] /\ y # x
        BY <1>12, <3>1, <3>2, BlockType
      <4> QED  BY <3>1, <4>1 DEF FreeOf
    <3>3. CASE y[2] = c
      <4>1. PICK i \in DOMAIN Tail(fb[c]) : Tail(fb[c])[i] = y[1]
        BY <1>12, <3>1, <3>3
      <4>2. i + 1 \in DOMAIN fb[c] /\ fb[c][i + 1] = y[1] /\ i \in Nat \ {0}
        BY <1>11, <4>1
      <4>3. y[1] # b
        BY <1>3, <1>4, <4>2 DEF Chain
      <4> QED  BY <3>1, <3>3, <4>2, <4>3 DEF FreeOf
    <3> QED  BY <3>2, <3>3
  <2>2. ASSUME NEW y \in FreeOf(fb) \ {x} PROVE y \in FreeOf(gb)
    <3>1. y \in Block /\ \E i \in DOMAIN fb[y[2]] : fb[y[2]][i] = y[1]
      BY DEF FreeOf
    <3>2. CASE y[2] # c
      BY <1>12, <3>1, <3>2, BlockType DEF FreeOf
    <3>3. CASE y[2] = c
      <4>1. PICK i \in DOMAIN fb[c] : fb[c][i] = y[1]
        BY <3>1, <3>3
      <4>2. y[1] # b
        BY <3>1, <3>3, BlockType
      <4>3. i \in Nat \ {0} /\ i # 1
        BY <1>2, <4>1, <4>2
      <4>4. i - 1 \in Nat /\ i - 1 # 0 /\ (i - 1) + 1 = i
        BY <4>3
      <4>5. i - 1 \in DOMAIN Tail(fb[c]) /\ Tail(fb[c])[i - 1] = y[1]
        BY <1>11, <4>1, <4>4
      <4> QED  BY <1>12, <3>1, <3>3, <4>5 DEF FreeOf
    <3> QED  BY <3>2, <3>3
  <2> QED  BY <2>1, <2>2
<1>16. (U \cup {x}) \cup FreeOf(gb) = U \cup FreeOf(fb)
  BY <1>14, <1>15
<1>17. Tiles(q, (U \cup {x}) \cup FreeOf(gb))
  BY <1>2, <1>10, <1>16 DEF Tiles
<1>18. PoolBy(q, U \cup {x}, gb)
  BY <1>2, <1>10, <1>12, <1>13, <1>15, <1>17 DEF PoolBy
<1>19. x \notin U
  BY <1>2, <1>14
<1> QED  BY <1>5, <1>10, <1>18, <1>19 DEF Pool

\* alloc() at the end of the vector.
LEMMA AllocGrow ==
    ASSUME NEW p, NEW U, Pool(p, U), NEW c \in Class, ~(p.free[c] > 0)
    PROVE  LET a == alloc(p, c) IN
           /\ Pool(a.pool, U \cup {<<a.block, c>>})
           /\ <<a.block, c>> \notin U
           /\ \A i \in 0 .. (size(p) - 1) : a.pool.data[i] = p.data[i]
<1>1. PICK fb : PoolBy(p, U, fb)
  BY DEF Pool
<1>2. /\ p \in Pools /\ fb \in [Class -> Seq(Nat)] /\ Tiles(p, U \cup FreeOf(fb))
      /\ U \cap FreeOf(fb) = {}
  BY <1>1 DEF PoolBy
<1> DEFINE n == size(p)
           m == n + sclass_size[c]
           d == [i \in 0 .. (m - 1) |-> IF i < n THEN p.data[i] ELSE Reserved]
           q == resized(p, m)
           x == <<n, c>>
           B == U \cup FreeOf(fb)
<1>3. /\ n \in Nat /\ p.data \in [0 .. (n - 1) -> Nat] /\ p.free \in [Class -> Nat]
      /\ sclass_size[c] \in Nat /\ sclass_size[c] >= 4
  BY <1>2, PoolType, ClassType
<1>4. alloc(p, c).pool = q /\ alloc(p, c).block = n
  BY DEF alloc
<1> HIDE DEF n
<1>5. m \in Nat /\ m >= n + 4
  BY <1>3
<1>6. d \in [0 .. (m - 1) -> Nat] /\ \A i \in 0 .. (n - 1) : d[i] = p.data[i]
  BY <1>3, <1>5, ListAssumption, SMTT(60)
<1> HIDE DEF d, m
<1>7. q = [data |-> d, free |-> p.free]
  <2>1. q = [p EXCEPT !.data = d]
    BY DEF resized, n, d
  <2> QED  BY <1>2, <2>1, PoolExcept
<1> HIDE DEF q
<1>8. q \in Pools /\ size(q) = m /\ q.data = d /\ q.free = p.free
  BY <1>3, <1>5, <1>6, <1>7, PoolMake
<1>9. \A y \in B : y \in Block /\ y[1] \in Nat /\ end(y) \in Nat /\ end(y) >= y[1] + 4 /\ end(y) <= n
  BY <1>2, BlockType DEF Tiles, n
<1>10. x \in Block /\ x[1] = n /\ end(x) = m /\ x \notin B
  <2>1. x \in Block /\ x[1] = n /\ end(x) = m
    BY <1>3 DEF Block, end, m
  <2> QED  BY <1>3, <1>5, <1>9, <2>1
<1> HIDE DEF x
<1>11. ASSUME NEW e \in Class PROVE Chain(q, e, fb[e])
  <2>1. Chain(p, e, fb[e])
    BY <1>1 DEF PoolBy
  <2>2. ASSUME NEW i \in DOMAIN fb[e] PROVE q.data[fb[e][i] + 1] = p.data[fb[e][i] + 1]
    <3> DEFINE y == <<fb[e][i], e>>
    <3>1. y \in B /\ fb[e][i] \in Nat
      BY <1>2, FreeBlock
    <3>2. fb[e][i] + 1 \in 0 .. (n - 1)
      BY <1>3, <1>9, <3>1, SMTT(60)
    <3> QED  BY <1>6, <1>8, <3>2
  <2> QED  BY <1>8, <2>1, <2>2 DEF Chain
<1>12. Tiles(q, B \cup {x})
  <2>1. B \cup {x} \subseteq Block /\ \A y \in B \cup {x} : end(y) <= size(q)
    BY <1>3, <1>5, <1>8, <1>9, <1>10
  <2>2. \A y, z \in B \cup {x} : y = z \/ end(y) <= z[1] \/ end(z) <= y[1]
    BY <1>2, <1>9, <1>10 DEF Tiles
  <2>3. ASSUME NEW i \in 0 .. (size(q) - 1) PROVE \E y \in B \cup {x} : y[1] <= i /\ i < end(y)
    <3>1. CASE i < n
      <4>1. i \in 0 .. (size(p) - 1)
        BY <1>3, <1>5, <1>8, <3>1 DEF n
      <4> QED  BY <1>2, <4>1 DEF Tiles
    <3>2. CASE ~(i < n)
      <4>1. x[1] <= i /\ i < end(x)
        BY <1>3, <1>5, <1>8, <1>10, <3>2
      <4> QED  BY <4>1
    <3> QED  BY <3>1, <3>2
  <2> QED  BY <2>1, <2>2, <2>3 DEF Tiles
<1>13. (U \cup {x}) \cup FreeOf(fb) = B \cup {x} /\ (U \cup {x}) \cap FreeOf(fb) = {}
  BY <1>2, <1>10
<1>14. PoolBy(q, U \cup {x}, fb)
  BY <1>2, <1>8, <1>11, <1>12, <1>13 DEF PoolBy
<1>15. Pool(q, U \cup {x}) /\ x \notin U
  BY <1>10, <1>14 DEF Pool
<1>16. \A i \in 0 .. (size(p) - 1) : q.data[i] = p.data[i]
  BY <1>6, <1>8 DEF n
<1> QED  BY <1>4, <1>15, <1>16 DEF x

\* alloc(): a block of its own for the caller; no cell in use changes.
LEMMA AllocPool ==
    ASSUME NEW p, NEW U, Pool(p, U), NEW c \in Class
    PROVE  LET a == alloc(p, c) IN
           /\ Pool(a.pool, U \cup {<<a.block, c>>})
           /\ <<a.block, c>> \notin U
           /\ \A i \in 0 .. (size(p) - 1) : a.pool.data[i] = p.data[i]
BY AllocFree, AllocGrow

\* free() gives a block back; its first two cells become a link of a free list.
LEMMA FreePool ==
    ASSUME NEW p, NEW U, Pool(p, U), NEW x \in U
    PROVE  /\ Pool(free(p, x[1], x[2]), U \ {x})
           /\ Keeps(p, free(p, x[1], x[2]), U \ {x})
<1>1. PICK fb : PoolBy(p, U, fb)
  BY DEF Pool
<1>2. /\ p \in Pools /\ fb \in [Class -> Seq(Nat)] /\ Tiles(p, U \cup FreeOf(fb))
      /\ U \cap FreeOf(fb) = {}
  BY <1>1 DEF PoolBy
<1> DEFINE b == x[1]
           c == x[2]
           w == written(p, b, <<0, p.free[c]>>)
           q == free(p, b, c)
           gb == [fb EXCEPT ![c] = <<b>> \o fb[c]]
           B == U \cup FreeOf(fb)
<1>3. \A y \in B : /\ y \in Block /\ y[1] \in Nat /\ end(y) \in Nat /\ end(y) >= y[1] + 4
                   /\ end(y) <= size(p) /\ (y # x => end(x) <= y[1] \/ end(y) <= x[1])
  BY <1>2, BlockType DEF Tiles
<1>4. /\ b \in Nat /\ c \in Class /\ x = <<b, c>> /\ size(p) \in Nat
      /\ p.data \in [0 .. (size(p) - 1) -> Nat] /\ p.free \in [Class -> Nat] /\ fb[c] \in Seq(Nat)
  BY <1>2, <1>3, BlockType, PoolType
<1> HIDE DEF b, c
<1> DEFINE s == <<0, p.free[c]>>
<1>5. s \in Seq(Nat) /\ Len(s) = 2 /\ s[2] = p.free[c]
  BY <1>4
<1>6. /\ w \in Pools /\ size(w) = size(p) /\ w.free = p.free
      /\ \A i \in 0 .. (size(p) - 1) :
            w.data[i] = IF i >= b /\ i < b + 2 THEN s[i - b + 1] ELSE p.data[i]
  <2> HIDE DEF s
  <2>1. /\ written(p, b, s) \in Pools /\ size(written(p, b, s)) = size(p)
        /\ written(p, b, s).free = p.free
        /\ \A i \in 0 .. (size(p) - 1) :
              written(p, b, s).data[i] = IF i >= b /\ i < b + Len(s) THEN s[i - b + 1] ELSE p.data[i]
    BY <1>2, <1>4, <1>5, WrittenType
  <2>2. w = written(p, b, s)
    BY DEF s
  <2> HIDE DEF w
  <2> QED  BY <1>5, <2>1, <2>2
<1>7. b + 1 \in 0 .. (size(p) - 1) /\ w.data[b + 1] = p.free[c]
  <2>1. b + 1 \in 0 .. (size(p) - 1)
    BY <1>3, <1>4 DEF b
  <2>2. w.data[b + 1] = s[(b + 1) - b + 1]
    <3> DEFINE k == b + 1
    <3>1. k \in 0 .. (size(p) - 1) /\ k >= b /\ k < b + 2
      BY <1>4, <2>1
    <3> HIDE DEF k
    <3>2. w.data[k] = s[k - b + 1]
      BY <1>6, <3>1
    <3> QED  BY <3>2 DEF k
  <2>3. (b + 1) - b + 1 = 2
    BY <1>4
  <2> QED  BY <1>5, <2>1, <2>2, <2>3
<1> HIDE DEF s
<1>8. q = [data |-> w.data, free |-> [w.free EXCEPT ![c] = b + 1]]
  <2>1. q = [w EXCEPT !.free[c] = b + 1]
    BY DEF free
  <2> HIDE DEF w
  <2> QED  BY <1>4, <1>6, <2>1, PoolHead, ZenonT(60)
<1> HIDE DEF w, q
<1>9. /\ q \in Pools /\ size(q) = size(p) /\ q.data = w.data
      /\ q.free = [p.free EXCEPT ![c] = b + 1]
  <2> DEFINE f == [w.free EXCEPT ![c] = b + 1]
  <2>1. f \in [Class -> Nat] /\ w.data \in [0 .. (size(p) - 1) -> Nat]
    BY <1>4, <1>6, PoolType
  <2> HIDE DEF f
  <2>2. q \in Pools /\ size(q) = size(p)
    BY <1>4, <1>8, <2>1, PoolMake DEF f
  <2> QED  BY <1>6, <1>8, <2>2
<1>10. ASSUME NEW y \in B, y # x, NEW i \in y[1] .. (end(y) - 1) PROVE q.data[i] = p.data[i]
  <2>0. /\ y[1] \in Nat /\ end(y) \in Nat /\ end(y) <= size(p) /\ end(x) \in Nat
        /\ end(x) >= b + 4 /\ (end(x) <= y[1] \/ end(y) <= b)
    BY <1>3, <1>10 DEF b
  <2>1. i \in 0 .. (size(p) - 1) /\ ~(i >= b /\ i < b + 2)
    BY <1>4, <2>0
  <2> QED  BY <1>6, <1>9, <2>1
<1>11. Keeps(p, q, U \ {x})
  BY <1>10 DEF Keeps
<1>12. /\ <<b>> \o fb[c] \in Seq(Nat) /\ DOMAIN (<<b>> \o fb[c]) = 1 .. (Len(fb[c]) + 1)
       /\ (<<b>> \o fb[c])[1] = b
       /\ \A i \in DOMAIN fb[c] : i \in Nat \ {0} /\ (<<b>> \o fb[c])[i + 1] = fb[c][i]
       /\ Len(fb[c]) \in Nat /\ DOMAIN fb[c] = 1 .. Len(fb[c])
  <2>1. b \in Nat /\ fb[c] \in Seq(Nat)
    BY <1>4
  <2> QED  BY <2>1, ConsFacts
<1> DEFINE t == <<b>> \o fb[c]
<1>13. gb \in [Class -> Seq(Nat)] /\ gb[c] = t /\ \A d \in Class : d # c => gb[d] = fb[d]
  BY <1>2, <1>4, <1>12
<1> HIDE DEF gb, t
<1>14. /\ t \in Seq(Nat) /\ DOMAIN t = 1 .. (Len(fb[c]) + 1) /\ t[1] = b
       /\ \A i \in DOMAIN fb[c] : i \in Nat \ {0} /\ t[i + 1] = fb[c][i]
       /\ Len(fb[c]) \in Nat /\ DOMAIN fb[c] = 1 .. Len(fb[c])
  BY <1>12 DEF t
<1>15. \A i \in DOMAIN t : i = 1 \/ (i - 1 \in DOMAIN fb[c] /\ t[i] = fb[c][i - 1] /\ i \in Nat)
  <2> SUFFICES ASSUME NEW i \in DOMAIN t, i # 1
               PROVE  i - 1 \in DOMAIN fb[c] /\ t[i] = fb[c][i - 1] /\ i \in Nat
    OBVIOUS
  <2>1. i - 1 \in DOMAIN fb[c] /\ i \in Nat /\ (i - 1) + 1 = i
    BY <1>14
  <2> QED  BY <1>14, <2>1
<1>16. \A i \in DOMAIN fb[c] : fb[c][i] # b
  <2> SUFFICES ASSUME NEW i \in DOMAIN fb[c], fb[c][i] = b PROVE FALSE
    OBVIOUS
  <2>1. <<fb[c][i], c>> \in FreeOf(fb)
    BY <1>2, <1>4, FreeBlock
  <2> QED  BY <1>2, <1>4, <2>1
<1>17. ASSUME NEW d \in Class PROVE Chain(q, d, gb[d])
  <2>1. Chain(p, d, fb[d])
    BY <1>1 DEF PoolBy
  <2>2. ASSUME NEW i \in DOMAIN fb[d] PROVE q.data[fb[d][i] + 1] = p.data[fb[d][i] + 1]
    <3> DEFINE y == <<fb[d][i], d>>
    <3>1. y \in FreeOf(fb) /\ fb[d][i] \in Nat /\ y[1] = fb[d][i]
      BY <1>2, FreeBlock
    <3>2. y \in B /\ y # x
      BY <1>2, <3>1
    <3> HIDE DEF y
    <3>3. fb[d][i] + 1 \in y[1] .. (end(y) - 1)
      BY <1>3, <3>1, <3>2
    <3> QED  BY <1>10, <3>2, <3>3
  <2>3. CASE d # c
    BY <1>4, <1>9, <1>13, <2>1, <2>2, <2>3, ZenonT(60) DEF Chain
  <2>4. CASE d = c
    <3>1. q.free[c] = link(t, 1)
      BY <1>4, <1>9, <1>14 DEF link
    <3>2. ASSUME NEW i \in Nat \ {0} PROVE link(t, i + 1) = link(fb[c], i)
      <4>1. i + 1 \in DOMAIN t <=> i \in DOMAIN fb[c]
        BY <1>14
      <4>2. i \in DOMAIN fb[c] => t[i + 1] = fb[c][i]
        BY <1>14
      <4> QED  BY <4>1, <4>2 DEF link
    <3>3. ASSUME NEW i \in DOMAIN t PROVE q.data[t[i] + 1] = link(t, i + 1)
      <4>1. CASE i = 1
        <5>1. q.data[b + 1] = link(fb[c], 1)
          BY <1>7, <1>9, <2>1, <2>4 DEF Chain
        <5>2. link(t, 1 + 1) = link(fb[c], 1)
          BY <3>2
        <5> QED  BY <1>14, <4>1, <5>1, <5>2
      <4>2. CASE i # 1
        <5>1. i - 1 \in DOMAIN fb[c] /\ t[i] = fb[c][i - 1] /\ i \in Nat
          BY <1>15, <4>2
        <5>2. p.data[fb[c][i - 1] + 1] = link(fb[c], (i - 1) + 1)
          BY <2>1, <2>4, <5>1 DEF Chain
        <5>3. (i - 1) + 1 = i /\ i # 0
          BY <1>14, <5>1
        <5>4. link(t, i + 1) = link(fb[c], i)
          BY <3>2, <5>1, <5>3
        <5> QED  BY <2>2, <2>4, <5>1, <5>2, <5>3, <5>4
      <4> QED  BY <4>1, <4>2
    <3>4. ASSUME NEW i \in DOMAIN t, NEW j \in DOMAIN t, t[i] = t[j] PROVE i = j
      <4>1. \A k, l \in DOMAIN fb[c] : fb[c][k] = fb[c][l] => k = l
        BY <2>1, <2>4 DEF Chain
      <4>2. CASE i = 1
        BY <1>14, <1>15, <1>16, <3>4, <4>2
      <4>3. CASE j = 1
        BY <1>14, <1>15, <1>16, <3>4, <4>3
      <4>4. CASE i # 1 /\ j # 1
        <5>1. i - 1 = j - 1 /\ i \in Nat /\ j \in Nat
          BY <1>15, <3>4, <4>1, <4>4
        <5> QED  BY <5>1
      <4> QED  BY <4>2, <4>3, <4>4
    <3> QED  BY <1>13, <2>4, <3>1, <3>3, <3>4 DEF Chain
  <2> QED  BY <2>3, <2>4
<1>18. FreeOf(gb) = FreeOf(fb) \cup {x}
  <2>1. ASSUME NEW y \in FreeOf(gb), y # x PROVE y \in FreeOf(fb)
    <3>1. y \in Block /\ y = <<y[1], y[2]>> /\ y[2] \in Class
      BY BlockType DEF FreeOf
    <3>2. PICK i \in DOMAIN gb[y[2]] : gb[y[2]][i] = y[1]
      BY DEF FreeOf
    <3>3. CASE y[2] # c
      <4>1. gb[y[2]] = fb[y[2]]
        BY <1>13, <3>1, <3>3
      <4> QED  BY <3>1, <3>2, <4>1 DEF FreeOf
    <3>4. CASE y[2] = c
      <4>1. y[1] # b
        BY <1>4, <2>1, <3>1, <3>4
      <4>2. i # 1
        BY <1>13, <1>14, <3>2, <3>4, <4>1
      <4>3. i - 1 \in DOMAIN fb[c] /\ fb[c][i - 1] = y[1]
        BY <1>13, <1>15, <3>2, <3>4, <4>2
      <4> QED  BY <3>1, <3>4, <4>3 DEF FreeOf
    <3> QED  BY <3>3, <3>4
  <2>2. ASSUME NEW y \in FreeOf(fb) PROVE y \in FreeOf(gb)
    <3>1. y \in Block /\ y[2] \in Class
      BY BlockType DEF FreeOf
    <3>2. PICK i \in DOMAIN fb[y[2]] : fb[y[2]][i] = y[1]
      BY DEF FreeOf
    <3>3. CASE y[2] # c
      <4>1. gb[y[2]] = fb[y[2]]
        BY <1>13, <3>1, <3>3
      <4> QED  BY <3>1, <3>2, <4>1 DEF FreeOf
    <3>4. CASE y[2] = c
      <4>1. i + 1 \in DOMAIN t /\ t[i + 1] = y[1]
        BY <1>14, <3>2, <3>4, SMTT(60)
      <4> QED  BY <1>13, <3>1, <3>4, <4>1 DEF FreeOf
    <3> QED  BY <3>3, <3>4
  <2>3. x \in FreeOf(gb)
    <3>1. 1 \in DOMAIN gb[c] /\ gb[c][1] = b
      BY <1>13, <1>14
    <3> QED  BY <1>3, <3>1 DEF FreeOf, b, c
  <2> QED  BY <2>1, <2>2, <2>3
<1>19. (U \ {x}) \cup FreeOf(gb) = B /\ (U \ {x}) \cap FreeOf(gb) = {}
  BY <1>2, <1>18
<1>20. Tiles(q, (U \ {x}) \cup FreeOf(gb))
  BY <1>2, <1>9, <1>19 DEF Tiles
<1>21. PoolBy(q, U \ {x}, gb)
  BY <1>9, <1>13, <1>17, <1>19, <1>20 DEF PoolBy
<1>22. Pool(q, U \ {x})
  BY <1>21 DEF Pool
<1> QED  BY <1>11, <1>22 DEF q, b, c

(***************************************************************************)
(* One block in use, next to the other blocks U in use.                    *)
(***************************************************************************)

Has(p, U, b, c) == Pool(p, U \cup {<<b, c>>}) /\ <<b, c>> \notin U

\* Where the block and the others lie.
LEMMA HasType ==
    ASSUME NEW p, NEW U, NEW b, NEW c, Has(p, U, b, c)
    PROVE  /\ b \in Nat /\ c \in Class /\ p \in Pools /\ size(p) \in Nat
           /\ sclass_size[c] \in Nat /\ sclass_size[c] >= 4 /\ b + sclass_size[c] <= size(p)
           /\ end(<<b, c>>) = b + sclass_size[c] /\ <<b, c>>[1] = b /\ <<b, c>>[2] = c
           /\ \A x \in U : /\ x[1] \in Nat /\ end(x) \in Nat /\ end(x) <= size(p)
                           /\ end(x) <= b \/ b + sclass_size[c] <= x[1]
<1> DEFINE y == <<b, c>>
<1>1. PICK fb : PoolBy(p, U \cup {y}, fb)
  BY DEF Has, Pool
<1>2. p \in Pools /\ Tiles(p, (U \cup {y}) \cup FreeOf(fb)) /\ y \notin U
  BY <1>1 DEF PoolBy, Has
<1>3. y \in Block
  BY <1>2 DEF Tiles
<1>4. b \in Nat /\ c \in Class
  BY <1>3 DEF Block
<1>5. end(y) = b + sclass_size[c] /\ y[1] = b /\ y[2] = c
  BY DEF end
<1> HIDE DEF y
<1>6. \A x \in U \cup {y} : x[1] \in Nat /\ end(x) \in Nat /\ end(x) <= size(p)
  BY <1>2, BlockType DEF Tiles
<1>7. \A x \in U : end(x) <= y[1] \/ end(y) <= x[1]
  BY <1>2 DEF Tiles
<1>8. /\ size(p) \in Nat /\ sclass_size[c] \in Nat /\ sclass_size[c] >= 4
      /\ b + sclass_size[c] <= size(p)
  BY <1>2, <1>4, <1>5, <1>6, PoolType, ClassType
<1>9. \A x \in U : /\ x[1] \in Nat /\ end(x) \in Nat /\ end(x) <= size(p)
                   /\ end(x) <= b \/ b + sclass_size[c] <= x[1]
  BY <1>5, <1>6, <1>7
<1> QED  BY <1>2, <1>4, <1>5, <1>8, <1>9 DEF y

\* Keeping the cells of some blocks is transitive.
LEMMA KeepsTrans ==
    ASSUME NEW p, NEW q, NEW r, NEW U, Keeps(p, q, U), Keeps(q, r, U)
    PROVE  Keeps(p, r, U)
BY DEF Keeps

\* A cell of a block that is kept.
LEMMA KeepsCell ==
    ASSUME NEW p, NEW q, NEW W, Keeps(p, q, W), NEW b \in Nat, NEW c \in Class, <<b, c>> \in W,
           NEW i \in b .. (b + sclass_size[c] - 1)
    PROVE  q.data[i] = p.data[i]
<1> DEFINE x == <<b, c>>
<1>1. sclass_size[c] \in Nat /\ x \in W /\ x[1] = b /\ end(x) = b + sclass_size[c]
  BY ClassType DEF end
<1> HIDE DEF x
<1>2. i \in x[1] .. (end(x) - 1)
  BY <1>1
<1> QED  BY <1>1, <1>2 DEF Keeps

\* A write inside the block.
LEMMA HasWrite ==
    ASSUME NEW p, NEW U, NEW b, NEW c, Has(p, U, b, c), NEW at \in Nat, NEW s \in Seq(Nat),
           b <= at, at + Len(s) <= b + sclass_size[c]
    PROVE  /\ Has(written(p, at, s), U, b, c)
           /\ Keeps(p, written(p, at, s), U)
           /\ \A i \in b .. (b + sclass_size[c] - 1) :
                written(p, at, s).data[i] =
                    IF i >= at /\ i < at + Len(s) THEN s[i - at + 1] ELSE p.data[i]
<1> DEFINE x == <<b, c>>
           V == U \cup {x}
<1>1. x \in V /\ x \notin U /\ Pool(p, V) /\ V \ {x} = U
  BY DEF Has
<1>2. x[1] = b /\ end(x) = b + sclass_size[c] /\ p \in Pools /\ b \in Nat /\ size(p) \in Nat
      /\ b + sclass_size[c] <= size(p) /\ sclass_size[c] \in Nat
  BY HasType
<1> HIDE DEF x, V
<1>3. Pool(written(p, at, s), V) /\ Keeps(p, written(p, at, s), V \ {x})
  BY <1>1, <1>2, WritePool
<1>4. Has(written(p, at, s), U, b, c) /\ Keeps(p, written(p, at, s), U)
  BY <1>1, <1>3 DEF Has, V, x
<1>5. \A i \in b .. (b + sclass_size[c] - 1) : i \in 0 .. (size(p) - 1)
  BY <1>2
<1>6. \A i \in 0 .. (size(p) - 1) :
         written(p, at, s).data[i] =
             IF i >= at /\ i < at + Len(s) THEN s[i - at + 1] ELSE p.data[i]
  BY <1>2, WrittenType
<1> QED  BY <1>4, <1>5, <1>6

\* A new block.
LEMMA HasAlloc ==
    ASSUME NEW p, NEW U, Pool(p, U), NEW c \in Class
    PROVE  /\ Has(alloc(p, c).pool, U, alloc(p, c).block, c)
           /\ Keeps(p, alloc(p, c).pool, U)
<1> DEFINE a == alloc(p, c)
<1>1. /\ Pool(a.pool, U \cup {<<a.block, c>>}) /\ <<a.block, c>> \notin U
      /\ \A i \in 0 .. (size(p) - 1) : a.pool.data[i] = p.data[i]
  BY AllocPool
<1> HIDE DEF a
<1>2. PICK fb : PoolBy(p, U, fb)
  BY DEF Pool
<1>3. \A x \in U : x[1] \in Nat /\ end(x) \in Nat /\ end(x) <= size(p)
  BY <1>2, BlockType DEF PoolBy, Tiles
<1>4. size(p) \in Nat
  BY <1>2, PoolType DEF PoolBy
<1>5. Keeps(p, a.pool, U)
  BY <1>1, <1>3, <1>4 DEF Keeps
<1> QED  BY <1>1, <1>5 DEF Has, a

\* The block given back.
LEMMA HasFree ==
    ASSUME NEW p, NEW U, NEW b, NEW c, Has(p, U, b, c)
    PROVE  Pool(free(p, b, c), U) /\ Keeps(p, free(p, b, c), U)
<1> DEFINE x == <<b, c>>
           V == U \cup {x}
<1>1. x \in V /\ Pool(p, V) /\ V \ {x} = U /\ x[1] = b /\ x[2] = c
  BY DEF Has
<1> HIDE DEF x, V
<1>2. Pool(free(p, x[1], x[2]), V \ {x}) /\ Keeps(p, free(p, x[1], x[2]), V \ {x})
  BY <1>1, FreePool
<1> QED  BY <1>1, <1>2

\* Cells read from a block.
LEMMA CellsType ==
    ASSUME NEW p \in Pools, NEW at \in Nat, NEW n \in Nat, at + n <= size(p)
    PROVE  /\ cells(p, at, n) \in Seq(Nat) /\ Len(cells(p, at, n)) = n
           /\ \A i \in 1 .. n : cells(p, at, n)[i] = p.data[at + i - 1]
<1>1. p.data \in [0 .. (size(p) - 1) -> Nat] /\ size(p) \in Nat
  BY PoolType
<1>2. \A i \in 1 .. n : p.data[at + i - 1] \in Nat
  <2> SUFFICES ASSUME NEW i \in 1 .. n PROVE p.data[at + i - 1] \in Nat
    OBVIOUS
  <2>1. at + i - 1 \in 0 .. (size(p) - 1)
    BY <1>1
  <2> QED  BY <1>1, <2>1
<1>3. cells(p, at, n) \in [1 .. n -> Nat] /\ \A i \in 1 .. n : cells(p, at, n)[i] = p.data[at + i - 1]
  BY <1>2 DEF cells
<1>4. cells(p, at, n) \in Seq(Nat) /\ Len(cells(p, at, n)) = n
  <2> HIDE DEF cells
  <2>1. cells(p, at, n) \in Seq(Nat) /\ DOMAIN cells(p, at, n) = 1 .. n
    BY <1>3, SeqDef
  <2> QED  BY <2>1
<1> QED  BY <1>3, <1>4

\* realloc(): the first n cells move to a new block, the old one is given back.
LEMMA HasRealloc ==
    ASSUME NEW p, NEW U, NEW b, NEW from, Has(p, U, b, from), NEW to \in Class, NEW n \in Nat,
           n <= sclass_size[from], n <= sclass_size[to]
    PROVE  LET r == realloc(p, b, from, to, n) IN
           /\ Has(r.pool, U, r.block, to)
           /\ Keeps(p, r.pool, U)
           /\ \A j \in 0 .. (n - 1) : r.pool.data[r.block + j] = p.data[b + j]
<1> DEFINE x == <<b, from>>
           V == U \cup {x}
           a == alloc(p, to)
           y == <<a.block, to>>
           s == cells(p, b, n)
           w == written(a.pool, a.block, s)
           q == free(w, b, from)
           W == U \cup {y}
<1>1. Pool(p, V) /\ x \notin U /\ U \subseteq V
  BY DEF Has
<1>2. /\ b \in Nat /\ p \in Pools /\ size(p) \in Nat /\ b + sclass_size[from] <= size(p)
      /\ sclass_size[from] \in Nat /\ end(x) = b + sclass_size[from] /\ x[1] = b
  BY HasType
<1>3. s \in Seq(Nat) /\ Len(s) = n /\ \A i \in 1 .. n : s[i] = p.data[b + i - 1]
  <2>1. b + n <= size(p)
    BY <1>2
  <2> QED  BY <1>2, <2>1, CellsType
<1> HIDE DEF x, V, a, s
<1>4. Has(a.pool, V, a.block, to) /\ Keeps(p, a.pool, V)
  BY <1>1, HasAlloc DEF a
<1>5. a.block \in Nat /\ sclass_size[to] \in Nat
  BY <1>4, HasType
<1>6. /\ Has(w, V, a.block, to) /\ Keeps(a.pool, w, V)
      /\ \A i \in a.block .. (a.block + sclass_size[to] - 1) :
            w.data[i] = IF i >= a.block /\ i < a.block + Len(s) THEN s[i - a.block + 1]
                        ELSE a.pool.data[i]
  <2>1. a.block <= a.block /\ a.block + Len(s) <= a.block + sclass_size[to]
    BY <1>3, <1>5
  <2> QED  BY <1>3, <1>4, <1>5, <2>1, HasWrite, SMTT(60)
<1> HIDE DEF w
<1>7. Pool(w, V \cup {y}) /\ y \notin V
  BY <1>6 DEF Has
<1>8. Has(w, W, b, from)
  <2>1. V \cup {y} = W \cup {x} /\ x \notin W
    BY <1>1, <1>7 DEF V
  <2> QED  BY <1>7, <2>1 DEF Has, x
<1>9. Pool(q, W) /\ Keeps(w, q, W)
  BY <1>8, HasFree
<1> HIDE DEF q
<1>10. Has(q, U, a.block, to)
  BY <1>1, <1>7, <1>9 DEF Has
<1>11. Keeps(p, q, U)
  <2>1. Keeps(p, a.pool, U) /\ Keeps(a.pool, w, U) /\ Keeps(w, q, U)
    BY <1>1, <1>4, <1>6, <1>9 DEF Keeps
  <2> QED  BY <2>1, KeepsTrans
<1>12. ASSUME NEW j \in 0 .. (n - 1) PROVE q.data[a.block + j] = p.data[b + j]
  <2> DEFINE i == a.block + j
  <2>1. /\ i \in a.block .. (a.block + sclass_size[to] - 1) /\ i >= a.block /\ i < a.block + Len(s)
        /\ i - a.block + 1 = j + 1 /\ j + 1 \in 1 .. n /\ b + (j + 1) - 1 = b + j
    BY <1>2, <1>3, <1>5, SMTT(60)
  <2> HIDE DEF i, W, y
  <2>3. q.data[i] = w.data[i]
    <3>1. <<a.block, to>> \in W
      BY DEF W, y
    <3> QED  BY <1>5, <1>9, <2>1, <3>1, KeepsCell
  <2>4. w.data[i] = s[j + 1]
    BY <1>6, <2>1
  <2>5. s[j + 1] = p.data[b + j]
    BY <1>3, <2>1
  <2> QED  BY <2>3, <2>4, <2>5 DEF i
<1>13. realloc(p, b, from, to, n) = [pool |-> q, block |-> a.block]
  BY DEF realloc, q, w, s, a
<1> HIDE DEF realloc
<1> QED  BY <1>10, <1>11, <1>12, <1>13

(***************************************************************************)
(* One list, next to the other blocks U in use: what it holds, and what a  *)
(* call leaves.                                                            *)
(***************************************************************************)

List(p, U, idx, s) ==
    /\ s \in Seq(Nat) /\ Len(s) <= MaxLen /\ idx \in Nat
    /\ idx = 0 <=> s = <<>>
    /\ idx = 0 => Pool(p, U)
    /\ idx # 0 =>
         /\ Has(p, U, idx - 1, sclass_for_length(Len(s)))
         /\ p.data[idx - 1] = Len(s)
         /\ \A j \in 1 .. Len(s) : p.data[idx + j - 1] = s[j]

\* The call with result r leaves the list t and the other lists alone.
Gives(p, U, r, t) ==
    /\ r = [pool |-> r.pool, index |-> r.index]
    /\ List(r.pool, U, r.index, t)
    /\ Keeps(p, r.pool, U)

\* The length of a list and the size of its block.
LEMMA ListType ==
    ASSUME NEW p, NEW U, NEW idx, NEW s, List(p, U, idx, s)
    PROVE  /\ Len(s) \in 0 .. MaxLen /\ Len(s) \in Nat /\ s \in Seq(Nat) /\ idx \in Nat
           /\ MaxLen \in Nat /\ DOMAIN s = 1 .. Len(s) /\ \A j \in 1 .. Len(s) : s[j] \in Nat
           /\ idx = 0 => s = <<>> /\ Len(s) = 0
           /\ idx # 0 => s # <<>> /\ Len(s) \in 1 .. MaxLen
           /\ len_of(p, idx) = Len(s)
<1>1. s \in Seq(Nat) /\ Len(s) \in Nat /\ Len(s) <= MaxLen /\ idx \in Nat /\ (idx = 0 <=> s = <<>>)
  BY DEF List
<1>2. MaxLen \in Nat
  BY ListAssumption
<1>3. idx # 0 => Len(s) # 0
  BY <1>1
<1>4. len_of(p, idx) = Len(s)
  BY <1>1 DEF List, len_of
<1>5. DOMAIN s = 1 .. Len(s) /\ \A j \in 1 .. Len(s) : s[j] \in Nat
  BY <1>1
<1> QED  BY <1>1, <1>2, <1>3, <1>4, <1>5

\* The slice of a list is what it holds.
LEMMA ListSlice ==
    ASSUME NEW p, NEW U, NEW idx, NEW s, List(p, U, idx, s)
    PROVE  as_slice(p, idx) = s
<1>1. /\ s \in Seq(Nat) /\ len_of(p, idx) = Len(s) /\ Len(s) \in Nat /\ DOMAIN s = 1 .. Len(s)
      /\ idx \in Nat
  BY ListType
<1>2. as_slice(p, idx) = [i \in 1 .. Len(s) |-> p.data[idx + i - 1]]
  BY <1>1 DEF as_slice, cells
<1>3. \A i \in 1 .. Len(s) : p.data[idx + i - 1] = s[i]
  <2>1. CASE idx = 0
    <3>1. Len(s) = 0
      BY <2>1, ListType
    <3> QED  BY <3>1
  <2>2. CASE idx # 0
    BY <2>2 DEF List
  <2> QED  BY <2>1, <2>2
<1>4. s = [i \in 1 .. Len(s) |-> s[i]]
  BY <1>1
<1> QED  BY <1>2, <1>3, <1>4

\* holds(): the length and the elements after the first `kept' are written into
\* the block r.
LEMMA HoldsGives ==
    ASSUME NEW r, NEW U, NEW n \in 1 .. MaxLen, NEW kept \in Nat, NEW s \in Seq(Nat),
           Has(r.pool, U, r.block, sclass_for_length(n)), kept + Len(s) <= n,
           NEW t \in Seq(Nat), Len(t) = n,
           \A j \in 1 .. n : t[j] = IF j > kept /\ j <= kept + Len(s) THEN s[j - kept]
                                      ELSE r.pool.data[r.block + j]
    PROVE  Gives(r.pool, U, holds(r, n, kept, s), t)
<1> DEFINE c == sclass_for_length(n)
           b == r.block
           at == b + 1 + kept
           w == written(r.pool, at, s)
           q == written(w, b, <<n>>)
<1>1. MaxLen \in Nat /\ n \in Nat /\ n <= MaxLen /\ n \in 0 .. MaxLen /\ n > 0 /\ Len(s) \in Nat
  BY ListAssumption
<1>2. c \in Class /\ n < sclass_size[c] /\ b \in Nat /\ sclass_size[c] \in Nat
  BY <1>1, ClassOf, HasType
<1> HIDE DEF c, b
<1>3. at \in Nat /\ b <= at /\ at + Len(s) <= b + sclass_size[c]
  BY <1>1, <1>2, SMTT(60)
<1>4. /\ Has(w, U, b, c) /\ Keeps(r.pool, w, U)
      /\ \A i \in b .. (b + sclass_size[c] - 1) :
            w.data[i] = IF i >= at /\ i < at + Len(s) THEN s[i - at + 1] ELSE r.pool.data[i]
  <2>1. Has(r.pool, U, b, c)
    BY DEF b, c
  <2> HIDE DEF at
  <2> QED  BY <1>3, <2>1, HasWrite
<1> HIDE DEF w
<1> DEFINE u == <<n>>
<1>5. u \in Seq(Nat) /\ Len(u) = 1 /\ u[1] = n
  BY <1>1
<1> HIDE DEF u
<1>6. b <= b /\ b + Len(u) <= b + sclass_size[c]
  BY <1>1, <1>2, <1>5
<1>7. /\ Has(q, U, b, c) /\ Keeps(w, q, U)
      /\ \A i \in b .. (b + sclass_size[c] - 1) :
            q.data[i] = IF i >= b /\ i < b + Len(u) THEN u[i - b + 1] ELSE w.data[i]
  <2>1. q = written(w, b, u)
    BY DEF u
  <2> HIDE DEF q
  <2>2. Has(w, U, b, c)
    BY <1>4
  <2>3. /\ Has(written(w, b, u), U, b, c) /\ Keeps(w, written(w, b, u), U)
        /\ \A i \in b .. (b + sclass_size[c] - 1) :
              written(w, b, u).data[i] = IF i >= b /\ i < b + Len(u) THEN u[i - b + 1] ELSE w.data[i]
    <3> DEFINE z == b
    <3>1. z \in Nat /\ b <= z /\ z + Len(u) <= b + sclass_size[c] /\ u \in Seq(Nat)
      BY <1>2, <1>5, <1>6
    <3> HIDE DEF z
    <3>2. /\ Has(written(w, z, u), U, b, c) /\ Keeps(w, written(w, z, u), U)
          /\ \A i \in b .. (b + sclass_size[c] - 1) :
                written(w, z, u).data[i] = IF i >= z /\ i < z + Len(u) THEN u[i - z + 1] ELSE w.data[i]
      BY <2>2, <3>1, HasWrite
    <3> QED  BY <3>2 DEF z
  <2> QED  BY <2>1, <2>3
<1> HIDE DEF q
<1>8. q.data[b] = n
  <2>1. b \in b .. (b + sclass_size[c] - 1) /\ b >= b /\ b < b + Len(u) /\ b - b + 1 = 1
    BY <1>1, <1>2, <1>5
  <2>2. q.data[b] = u[b - b + 1]
    BY <1>7, <2>1
  <2> QED  BY <1>5, <2>1, <2>2
<1>9. ASSUME NEW j \in 1 .. n PROVE q.data[b + j] = t[j]
  <2> DEFINE i == b + j
  <2>1. i \in b .. (b + sclass_size[c] - 1) /\ ~(i < b + Len(u)) /\ j \in Nat
    BY <1>1, <1>2, <1>5
  <2>2. (i >= at /\ i < at + Len(s)) <=> (j > kept /\ j <= kept + Len(s))
    <3>1. i >= at <=> j > kept
      BY <1>1, <1>2, <2>1
    <3>2. i < at + Len(s) <=> j <= kept + Len(s)
      BY <1>1, <1>2, <2>1
    <3> QED  BY <3>1, <3>2
  <2>3. i - at + 1 = j - kept
    BY <1>1, <1>2, <2>1
  <2> HIDE DEF i, at
  <2>4. q.data[i] = w.data[i]
    BY <1>7, <2>1
  <2>5. w.data[i] = IF j > kept /\ j <= kept + Len(s) THEN s[j - kept] ELSE r.pool.data[i]
    BY <1>4, <2>1, <2>2, <2>3
  <2> QED  BY <2>4, <2>5 DEF i, b
<1> DEFINE h == holds(r, n, kept, s)
<1>10. h.pool = q /\ h.index = b + 1 /\ h = [pool |-> h.pool, index |-> h.index]
  BY DEF holds, q, w, b
<1> HIDE DEF h
<1>11. List(q, U, b + 1, t)
  <2> DEFINE k == b + 1
  <2>0. ASSUME NEW j \in 1 .. n PROVE k + j - 1 = b + j
    BY <1>1, <1>2
  <2>1. k \in Nat /\ k # 0 /\ k - 1 = b
    BY <1>1, <1>2
  <2> HIDE DEF k
  <2>2. t # <<>> /\ Len(t) <= MaxLen
    BY <1>1
  <2>3. Has(q, U, k - 1, sclass_for_length(Len(t))) /\ q.data[k - 1] = Len(t)
    BY <1>7, <1>8, <2>1 DEF c
  <2>4. \A j \in 1 .. Len(t) : q.data[k + j - 1] = t[j]
    BY <1>9, <2>0
  <2>5. List(q, U, k, t)
    BY <2>1, <2>2, <2>3, <2>4 DEF List
  <2> QED  BY <2>5 DEF k
<1>12. Keeps(r.pool, q, U)
  BY <1>4, <1>7, KeepsTrans
<1> QED  BY <1>10, <1>11, <1>12 DEF Gives, h

\* EntityList::from_slice.
LEMMA FromSliceGives ==
    ASSUME NEW p, NEW U, Pool(p, U), NEW s \in Seq(Nat), Len(s) <= MaxLen
    PROVE  Gives(p, U, from_slice(p, s), s)
<1>1. CASE s = <<>>
  <2>1. from_slice(p, s) = [pool |-> p, index |-> 0]
    BY <1>1 DEF from_slice, empty
  <2>2. Keeps(p, p, U) /\ List(p, U, 0, s)
    BY <1>1, ListAssumption DEF Keeps, List
  <2> HIDE DEF from_slice
  <2> QED  BY <2>1, <2>2 DEF Gives
<1>2. CASE s # <<>>
  <2> DEFINE c == sclass_for_length(Len(s))
             a == alloc(p, c)
  <2>1. Len(s) \in 1 .. MaxLen /\ Len(s) \in 0 .. MaxLen /\ Len(s) \in Nat
    BY <1>2, ListAssumption
  <2>2. c \in Class
    BY <2>1, ClassOf
  <2>3. Has(a.pool, U, a.block, c) /\ Keeps(p, a.pool, U)
    <3> HIDE DEF c
    <3> QED  BY <2>2, HasAlloc
  <2> HIDE DEF a
  <2>4. \A j \in 1 .. Len(s) : s[j] = IF j > 0 /\ j <= 0 + Len(s) THEN s[j - 0]
                                      ELSE a.pool.data[a.block + j]
    BY <2>1
  <2>5. Gives(a.pool, U, holds(a, Len(s), 0, s), s)
    <3>1. 0 \in Nat /\ 0 + Len(s) <= Len(s)
      BY <2>1
    <3> QED  BY <2>1, <2>3, <2>4, <3>1, HoldsGives
  <2>6. from_slice(p, s) = holds(a, Len(s), 0, s)
    BY <1>2 DEF from_slice, a
  <2> HIDE DEF from_slice
  <2> QED  BY <2>3, <2>5, <2>6, KeepsTrans DEF Gives
<1> QED  BY <1>1, <1>2

\* EntityList::clear.
LEMMA ClearGives ==
    ASSUME NEW p, NEW U, NEW idx, NEW s, List(p, U, idx, s)
    PROVE  Gives(p, U, clear(p, idx), <<>>)
<1>1. len_of(p, idx) = Len(s) /\ MaxLen \in Nat
  BY ListType
<1>2. ASSUME NEW q, Pool(q, U) PROVE List(q, U, 0, <<>>)
  BY <1>1, <1>2 DEF List
<1>3. CASE idx = 0
  <2>1. clear(p, idx) = [pool |-> p, index |-> 0] /\ Pool(p, U) /\ Keeps(p, p, U)
    BY <1>3 DEF clear, empty, List, Keeps
  <2> HIDE DEF clear
  <2> QED  BY <1>2, <2>1 DEF Gives
<1>4. CASE idx # 0
  <2> DEFINE q == free(p, idx - 1, sclass_for_length(Len(s)))
  <2>1. clear(p, idx) = [pool |-> q, index |-> 0]
    BY <1>1, <1>4 DEF clear, empty
  <2>2. Has(p, U, idx - 1, sclass_for_length(Len(s)))
    BY <1>4 DEF List
  <2>3. Pool(q, U) /\ Keeps(p, q, U)
    BY <2>2, HasFree
  <2> HIDE DEF clear, q
  <2> QED  BY <1>2, <2>1, <2>3 DEF Gives
<1> QED  BY <1>3, <1>4

\* A list that moves to a block for m elements, or stays in its block when that
\* has the right class: the length cell and the first n elements go with it.
LEMMA Resized ==
    ASSUME NEW p, NEW U, NEW idx, NEW s, List(p, U, idx, s), idx # 0,
           NEW m \in 1 .. MaxLen, NEW n \in Nat, n <= Len(s), n <= m,
           NEW r,
           \/ r = realloc(p, idx - 1, sclass_for_length(Len(s)), sclass_for_length(m), n + 1)
           \/ r = in_place(p, idx) /\ sclass_for_length(Len(s)) = sclass_for_length(m)
    PROVE  /\ Has(r.pool, U, r.block, sclass_for_length(m))
           /\ Keeps(p, r.pool, U)
           /\ \A j \in 1 .. n : r.pool.data[r.block + j] = s[j]
<1> DEFINE c == sclass_for_length(Len(s))
           d == sclass_for_length(m)
<1>1. /\ Len(s) \in 0 .. MaxLen /\ Len(s) \in Nat /\ idx \in Nat /\ MaxLen \in Nat
      /\ m \in 0 .. MaxLen /\ m \in Nat
  BY ListType
<1>2. /\ Has(p, U, idx - 1, c) /\ \A j \in 1 .. Len(s) : p.data[idx + j - 1] = s[j]
  BY DEF List
<1>3. /\ c \in Class /\ Len(s) < sclass_size[c] /\ d \in Class /\ m < sclass_size[d]
      /\ sclass_size[c] \in Nat /\ sclass_size[d] \in Nat
  BY <1>1, ClassOf, ClassType
<1> HIDE DEF c, d
<1>4. \A j \in 1 .. n : p.data[(idx - 1) + j] = s[j]
  <2> SUFFICES ASSUME NEW j \in 1 .. n PROVE p.data[(idx - 1) + j] = s[j]
    OBVIOUS
  <2>1. j \in 1 .. Len(s) /\ (idx - 1) + j = idx + j - 1
    BY <1>1
  <2> QED  BY <1>2, <2>1
<1>5. CASE r = realloc(p, idx - 1, c, d, n + 1)
  <2>1. n + 1 \in Nat /\ n + 1 <= sclass_size[c] /\ n + 1 <= sclass_size[d]
    BY <1>1, <1>3
  <2>2. /\ Has(r.pool, U, r.block, d) /\ Keeps(p, r.pool, U)
        /\ \A j \in 0 .. (n + 1 - 1) : r.pool.data[r.block + j] = p.data[(idx - 1) + j]
    BY <1>2, <1>3, <1>5, <2>1, HasRealloc
  <2>3. \A j \in 1 .. n : j \in 0 .. (n + 1 - 1)
    OBVIOUS
  <2> QED  BY <1>4, <2>2, <2>3 DEF d
<1>6. CASE r = in_place(p, idx) /\ c = d
  <2>1. r.pool = p /\ r.block = idx - 1
    BY <1>6 DEF in_place
  <2>2. Keeps(p, p, U)
    BY DEF Keeps
  <2> QED  BY <1>2, <1>4, <1>6, <2>1, <2>2 DEF d
<1> QED  BY <1>5, <1>6 DEF c, d

\* EntityList::push.
LEMMA PushGives ==
    ASSUME NEW p, NEW U, NEW idx, NEW s, List(p, U, idx, s), Len(s) < MaxLen, NEW e \in Nat
    PROVE  Gives(p, U, push(p, idx, e), s \o <<e>>)
<1> DEFINE n == Len(s)
           u == <<e>>
           t == s \o u
<1>1. /\ n \in Nat /\ MaxLen \in Nat /\ s \in Seq(Nat) /\ idx \in Nat /\ len_of(p, idx) = n
      /\ n \in 0 .. MaxLen /\ (idx # 0 => n \in 1 .. MaxLen)
      /\ (idx = 0 => s = <<>> /\ n = 0)
  BY ListType
<1>2. u \in Seq(Nat) /\ Len(u) = 1 /\ u[1] = e
  OBVIOUS
<1>3. t \in Seq(Nat) /\ Len(t) = n + 1 /\ t[n + 1] = e /\ \A j \in 1 .. n : t[j] = s[j]
  BY <1>1
<1> HIDE DEF n, u, t
<1>4. n + 1 \in 1 .. MaxLen /\ n + 1 \in 0 .. MaxLen /\ n + 1 \in Nat
  BY <1>1 DEF n
<1>5. ASSUME NEW r, Has(r.pool, U, r.block, sclass_for_length(n + 1)), Keeps(p, r.pool, U),
             \A j \in 1 .. n : r.pool.data[r.block + j] = s[j]
      PROVE  Gives(p, U, holds(r, n + 1, n, u), t)
  <2>1. n + Len(u) <= n + 1
    BY <1>1, <1>2
  <2>2. ASSUME NEW j \in 1 .. (n + 1)
        PROVE  t[j] = IF j > n /\ j <= n + Len(u) THEN u[j - n] ELSE r.pool.data[r.block + j]
    <3>1. CASE j = n + 1
      <4>1. j > n /\ j <= n + Len(u) /\ j - n = 1
        BY <1>1, <1>2, <3>1
      <4> QED  BY <1>2, <1>3, <3>1, <4>1
    <3>2. CASE j # n + 1
      <4>1. j \in 1 .. n /\ ~(j > n)
        BY <1>1, <3>2
      <4> QED  BY <1>3, <1>5, <4>1
    <3> QED  BY <3>1, <3>2
  <2>3. Gives(r.pool, U, holds(r, n + 1, n, u), t)
    BY <1>1, <1>2, <1>3, <1>4, <1>5, <2>1, <2>2, HoldsGives
  <2> QED  BY <1>5, <2>3, KeepsTrans DEF Gives
<1>6. CASE idx = 0
  <2> DEFINE a == alloc(p, sclass_for_length(1))
  <2>1. n = 0 /\ n + 1 = 1 /\ Pool(p, U)
    BY <1>1, <1>6 DEF List
  <2>2. sclass_for_length(1) \in Class
    BY <1>4, <2>1, ClassOf
  <2>3. Has(a.pool, U, a.block, sclass_for_length(1)) /\ Keeps(p, a.pool, U)
    BY <2>1, <2>2, HasAlloc
  <2>4. push(p, idx, e) = holds(a, 1, 0, u)
    BY <1>6 DEF push, u
  <2> HIDE DEF a, push
  <2>5. Gives(p, U, holds(a, n + 1, n, u), t)
    BY <1>5, <2>1, <2>3
  <2> QED  BY <2>1, <2>4, <2>5 DEF t, u
<1>7. CASE idx # 0
  <2> DEFINE c == sclass_for_length(n)
             r == IF is_sclass_min_length(n + 1) THEN realloc(p, idx - 1, c, c + 1, n + 1)
                  ELSE in_place(p, idx)
  <2>1. push(p, idx, e) = holds(r, n + 1, n, u)
    BY <1>1, <1>7 DEF push, u
  <2>2. sclass_for_length(n + 1) = IF is_sclass_min_length(n + 1) THEN c + 1 ELSE c
    BY <1>1, <1>7, ClassStep DEF n
  <2>3. \/ r = realloc(p, idx - 1, sclass_for_length(Len(s)), sclass_for_length(n + 1), n + 1)
        \/ r = in_place(p, idx) /\ sclass_for_length(Len(s)) = sclass_for_length(n + 1)
    BY <2>2 DEF n
  <2> HIDE DEF r, push
  <2>4. n <= Len(s) /\ n <= n + 1
    BY <1>1 DEF n
  <2>5. /\ Has(r.pool, U, r.block, sclass_for_length(n + 1)) /\ Keeps(p, r.pool, U)
        /\ \A j \in 1 .. n : r.pool.data[r.block + j] = s[j]
    BY <1>1, <1>4, <1>7, <2>3, <2>4, Resized, SMTT(60)
  <2> QED  BY <1>5, <2>1, <2>5 DEF t, u
<1> QED  BY <1>6, <1>7

\* EntityList::grow: new elements after the old ones.
LEMMA GrowGives ==
    ASSUME NEW p, NEW U, NEW idx, NEW s, List(p, U, idx, s), NEW n \in Nat, Len(s) + n <= MaxLen
    PROVE  \E t : /\ Gives(p, U, grow(p, idx, n), t) /\ Len(t) = Len(s) + n
                  /\ \A j \in 1 .. Len(s) : t[j] = s[j]
<1> DEFINE l == Len(s)
           m == l + n
<1>1. /\ l \in Nat /\ MaxLen \in Nat /\ s \in Seq(Nat) /\ idx \in Nat /\ len_of(p, idx) = l
      /\ (idx # 0 => l \in 1 .. MaxLen) /\ (idx = 0 => s = <<>> /\ l = 0)
  BY ListType
<1> HIDE DEF l
<1>2. m \in Nat /\ m <= MaxLen /\ m \in 0 .. MaxLen /\ l <= m
  BY <1>1 DEF l
<1> HIDE DEF m
<1>3. ASSUME NEW r, m # 0, Has(r.pool, U, r.block, sclass_for_length(m)), Keeps(p, r.pool, U),
             \A j \in 1 .. l : r.pool.data[r.block + j] = s[j]
      PROVE  \E t : Gives(p, U, holds(r, m, 0, <<>>), t) /\ Len(t) = m /\ \A j \in 1 .. l : t[j] = s[j]
  <2> DEFINE t == cells(r.pool, r.block + 1, m)
             u == <<>>
  <2>0. m \in 1 .. MaxLen
    BY <1>2, <1>3
  <2>1. /\ r.pool \in Pools /\ r.block \in Nat /\ r.block + 1 \in Nat /\ size(r.pool) \in Nat
        /\ r.block + sclass_size[sclass_for_length(m)] <= size(r.pool)
        /\ sclass_size[sclass_for_length(m)] \in Nat
    <3> DEFINE b == r.block
               q == r.pool
               c == sclass_for_length(m)
    <3>1. Has(q, U, b, c)
      BY <1>3
    <3> HIDE DEF b, q, c
    <3>2. /\ q \in Pools /\ b \in Nat /\ size(q) \in Nat /\ b + sclass_size[c] <= size(q)
          /\ sclass_size[c] \in Nat
      BY <3>1, HasType
    <3>3. b + 1 \in Nat
      BY <3>2
    <3> QED  BY <3>2, <3>3 DEF b, q, c
  <2>2. m < sclass_size[sclass_for_length(m)]
    BY <1>2, ClassOf
  <2>3. r.block + 1 + m <= size(r.pool)
    BY <1>2, <2>1, <2>2
  <2>4. t \in Seq(Nat) /\ Len(t) = m /\ \A j \in 1 .. m : t[j] = r.pool.data[(r.block + 1) + j - 1]
    BY <1>2, <2>1, <2>3, CellsType
  <2>5. ASSUME NEW j \in 1 .. m PROVE t[j] = r.pool.data[r.block + j]
    <3>1. (r.block + 1) + j - 1 = r.block + j
      BY <1>2, <2>1
    <3> QED  BY <2>4, <3>1
  <2> HIDE DEF t
  <2>6. u \in Seq(Nat) /\ Len(u) = 0
    OBVIOUS
  <2> HIDE DEF u
  <2>7. 0 \in Nat /\ 0 + Len(u) <= m
    BY <1>2, <2>6
  <2>8. ASSUME NEW j \in 1 .. m
        PROVE  t[j] = IF j > 0 /\ j <= 0 + Len(u) THEN u[j - 0] ELSE r.pool.data[r.block + j]
    <3>1. ~(j <= 0 + Len(u))
      BY <1>2, <2>6
    <3> QED  BY <2>5, <3>1
  <2>9. Gives(r.pool, U, holds(r, m, 0, u), t)
    BY <1>3, <2>0, <2>4, <2>6, <2>7, <2>8, HoldsGives
  <2>10. Gives(p, U, holds(r, m, 0, u), t)
    BY <1>3, <2>9, KeepsTrans DEF Gives
  <2>11. \A j \in 1 .. l : t[j] = s[j]
    <3> SUFFICES ASSUME NEW j \in 1 .. l PROVE t[j] = s[j]
      OBVIOUS
    <3>1. j \in 1 .. m
      BY <1>1, <1>2
    <3> QED  BY <1>3, <2>5, <3>1
  <2> QED  BY <2>4, <2>10, <2>11 DEF u
<1>4. CASE idx = 0 /\ n = 0
  <2>1. grow(p, idx, n) = [pool |-> p, index |-> 0]
    BY <1>4 DEF grow, empty
  <2>2. Keeps(p, p, U) /\ List(p, U, 0, s)
    BY <1>4 DEF Keeps
  <2> HIDE DEF grow
  <2>3. Gives(p, U, grow(p, idx, n), s)
    BY <2>1, <2>2 DEF Gives
  <2>4. Len(s) = Len(s) + n
    BY <1>1, <1>4 DEF l
  <2> QED  BY <2>3, <2>4
<1>5. CASE idx = 0 /\ n # 0
  <2> DEFINE a == alloc(p, sclass_for_length(m))
  <2>1. l = 0 /\ m = n /\ m # 0 /\ Pool(p, U) /\ 1 .. l = {}
    BY <1>1, <1>5 DEF List, m
  <2>2. Has(a.pool, U, a.block, sclass_for_length(m)) /\ Keeps(p, a.pool, U)
    BY <1>2, <2>1, HasAlloc, ClassOf
  <2>3. grow(p, idx, n) = holds(a, m, 0, <<>>)
    BY <1>1, <1>5, <2>1 DEF grow
  <2> HIDE DEF a, grow
  <2>4. \E t : Gives(p, U, holds(a, m, 0, <<>>), t) /\ Len(t) = m /\ \A j \in 1 .. l : t[j] = s[j]
    BY <1>3, <2>1, <2>2
  <2> QED  BY <2>3, <2>4 DEF m, l
<1>6. CASE idx # 0
  <2> DEFINE c == sclass_for_length(l)
             d == sclass_for_length(m)
             r == IF d # c THEN realloc(p, idx - 1, c, d, l + 1) ELSE in_place(p, idx)
  <2>1. grow(p, idx, n) = holds(r, m, 0, <<>>)
    BY <1>1, <1>6 DEF grow, m
  <2>2. \/ r = realloc(p, idx - 1, sclass_for_length(Len(s)), sclass_for_length(m), l + 1)
        \/ r = in_place(p, idx) /\ sclass_for_length(Len(s)) = sclass_for_length(m)
    BY DEF l
  <2> HIDE DEF r, grow
  <2>3. l \in Nat /\ l <= Len(s) /\ l <= m /\ m \in 1 .. MaxLen /\ m # 0
    BY <1>1, <1>2, <1>6 DEF l
  <2>4. /\ Has(r.pool, U, r.block, sclass_for_length(m)) /\ Keeps(p, r.pool, U)
        /\ \A j \in 1 .. l : r.pool.data[r.block + j] = s[j]
    BY <1>6, <2>2, <2>3, Resized
  <2>5. \E t : Gives(p, U, holds(r, m, 0, <<>>), t) /\ Len(t) = m /\ \A j \in 1 .. l : t[j] = s[j]
    BY <1>3, <2>3, <2>4
  <2> QED  BY <2>1, <2>5 DEF m, l
<1> QED  BY <1>4, <1>5, <1>6

\* A pool is its vector and its heads.
LEMMA PoolEqual ==
    ASSUME NEW p \in Pools, NEW q \in Pools, size(q) = size(p), q.free = p.free,
           \A i \in 0 .. (size(p) - 1) : q.data[i] = p.data[i]
    PROVE  q = p
<1>1. /\ p = [data |-> p.data, free |-> p.free] /\ p.data \in [0 .. (size(p) - 1) -> Nat]
      /\ q = [data |-> q.data, free |-> q.free] /\ q.data \in [0 .. (size(p) - 1) -> Nat]
  BY PoolType
<1> DEFINE D == 0 .. (size(p) - 1)
           d == p.data
           e == q.data
<1>2. d \in [D -> Nat] /\ e \in [D -> Nat] /\ \A i \in D : e[i] = d[i]
  BY <1>1
<1> HIDE DEF D, d, e
<1>3. e = d
  BY <1>2
<1> QED  BY <1>1, <1>3 DEF d, e

\* The block of a list lies in the vector.
LEMMA ListInPool ==
    ASSUME NEW p, NEW U, NEW idx, NEW s, List(p, U, idx, s)
    PROVE  p \in Pools /\ size(p) \in Nat /\ idx + Len(s) <= size(p)
<1>1. Len(s) \in Nat /\ idx \in Nat /\ (idx = 0 => Len(s) = 0) /\ Len(s) \in 0 .. MaxLen
  BY ListType
<1>2. CASE idx = 0
  <2>1. p \in Pools
    BY <1>2 DEF List, Pool, PoolBy
  <2> QED  BY <1>1, <1>2, <2>1, PoolType
<1>3. CASE idx # 0
  <2> DEFINE c == sclass_for_length(Len(s))
  <2>1. Len(s) < sclass_size[c]
    BY <1>1, ClassOf
  <2>2. Has(p, U, idx - 1, c)
    BY <1>3 DEF List
  <2> HIDE DEF c
  <2>3. p \in Pools /\ size(p) \in Nat /\ sclass_size[c] \in Nat /\ (idx - 1) + sclass_size[c] <= size(p)
    BY <2>2, HasType
  <2> QED  BY <1>1, <2>1, <2>3
<1> QED  BY <1>2, <1>3

\* Elements read from a list.
LEMMA ListCells ==
    ASSUME NEW p, NEW U, NEW idx, NEW s, List(p, U, idx, s),
           NEW i \in Nat, NEW m \in Nat, i + m <= Len(s)
    PROVE  /\ cells(p, idx + i, m) \in Seq(Nat) /\ Len(cells(p, idx + i, m)) = m
           /\ \A j \in 1 .. m : cells(p, idx + i, m)[j] = s[i + j]
<1>1. Len(s) \in Nat /\ idx \in Nat /\ (idx = 0 => Len(s) = 0)
  BY ListType
<1>2. p \in Pools /\ size(p) \in Nat /\ idx + Len(s) <= size(p)
  BY ListInPool
<1>3. idx + i \in Nat /\ (idx + i) + m <= size(p)
  BY <1>1, <1>2
<1>4. /\ cells(p, idx + i, m) \in Seq(Nat) /\ Len(cells(p, idx + i, m)) = m
      /\ \A j \in 1 .. m : cells(p, idx + i, m)[j] = p.data[(idx + i) + j - 1]
  BY <1>2, <1>3, CellsType
<1>5. ASSUME NEW j \in 1 .. m PROVE p.data[(idx + i) + j - 1] = s[i + j]
  <2>1. i + j \in 1 .. Len(s) /\ (idx + i) + j - 1 = idx + (i + j) - 1
    BY <1>1
  <2>2. idx # 0
    BY <1>1, <2>1
  <2>3. p.data[idx + (i + j) - 1] = s[i + j]
    BY <2>1, <2>2 DEF List
  <2> QED  BY <2>1, <2>3
<1> QED  BY <1>4, <1>5

\* A write to elements of a list: v replaces what follows the first i.
LEMMA WriteList ==
    ASSUME NEW p, NEW U, NEW idx, NEW s, List(p, U, idx, s),
           NEW i \in Nat, NEW v \in Seq(Nat), i + Len(v) <= Len(s),
           NEW t \in Seq(Nat), Len(t) = Len(s),
           \A j \in 1 .. Len(s) : t[j] = IF j > i /\ j <= i + Len(v) THEN v[j - i] ELSE s[j]
    PROVE  List(written(p, idx + i, v), U, idx, t) /\ Keeps(p, written(p, idx + i, v), U)
<1> DEFINE at == idx + i
           q == written(p, at, v)
<1>1. /\ Len(s) \in Nat /\ idx \in Nat /\ (idx = 0 => Len(s) = 0 /\ s = <<>>) /\ Len(s) \in 0 .. MaxLen
      /\ Len(v) \in Nat /\ at \in Nat /\ Len(s) <= MaxLen /\ (idx # 0 => Len(s) # 0)
  <2>1. /\ Len(s) \in Nat /\ idx \in Nat /\ (idx = 0 => Len(s) = 0 /\ s = <<>>)
        /\ Len(s) \in 0 .. MaxLen /\ Len(v) \in Nat /\ (idx # 0 => Len(s) \in 1 .. MaxLen)
        /\ MaxLen \in Nat
    BY ListType
  <2> QED  BY <2>1
<1>2. CASE idx = 0
  <2>1. at = 0 /\ Len(v) = 0 /\ Len(t) = 0
    BY <1>1, <1>2
  <2>2. p \in Pools /\ Pool(p, U)
    BY <1>2, ListInPool DEF List
  <2>3. /\ q \in Pools /\ size(q) = size(p) /\ q.free = p.free
        /\ \A k \in 0 .. (size(p) - 1) :
              q.data[k] = IF k >= at /\ k < at + Len(v) THEN v[k - at + 1] ELSE p.data[k]
    <3> HIDE DEF at
    <3> QED  BY <1>1, <2>2, WrittenType
  <2>4. \A k \in 0 .. (size(p) - 1) : q.data[k] = p.data[k]
    <3> SUFFICES ASSUME NEW k \in 0 .. (size(p) - 1) PROVE q.data[k] = p.data[k]
      OBVIOUS
    <3>1. ~(k >= at /\ k < at + Len(v))
      BY <2>1
    <3> HIDE DEF at, q
    <3> QED  BY <2>3, <3>1
  <2> HIDE DEF q
  <2>5. q = p
    BY <2>2, <2>3, <2>4, PoolEqual
  <2>6. t = <<>>
    BY <2>1
  <2>7. List(p, U, idx, t) /\ Keeps(p, p, U)
    BY <1>1, <1>2, <2>1, <2>2, <2>6 DEF List, Keeps
  <2> QED  BY <2>5, <2>7 DEF q
<1>3. CASE idx # 0
  <2> DEFINE c == sclass_for_length(Len(s))
             b == idx - 1
  <2>1. Has(p, U, b, c) /\ p.data[b] = Len(s) /\ \A j \in 1 .. Len(s) : p.data[idx + j - 1] = s[j]
    BY <1>3 DEF List
  <2>2. Len(s) < sclass_size[c] /\ sclass_size[c] \in Nat
    BY <1>1, ClassOf, ClassType
  <2> HIDE DEF c
  <2>3. b \in Nat /\ b <= at /\ at + Len(v) <= b + sclass_size[c]
    BY <1>1, <1>3, <2>2
  <2>4. /\ Has(q, U, b, c) /\ Keeps(p, q, U)
        /\ \A k \in b .. (b + sclass_size[c] - 1) :
              q.data[k] = IF k >= at /\ k < at + Len(v) THEN v[k - at + 1] ELSE p.data[k]
    <3> HIDE DEF at, b
    <3> QED  BY <1>1, <2>1, <2>3, HasWrite
  <2>5. q.data[b] = Len(t)
    <3>1. b \in b .. (b + sclass_size[c] - 1) /\ ~(b >= at)
      BY <1>1, <1>3, <2>2, <2>3, SMTT(60)
    <3> HIDE DEF q, at, b
    <3> QED  BY <2>1, <2>4, <3>1
  <2>6. ASSUME NEW j \in 1 .. Len(t) PROVE q.data[idx + j - 1] = t[j]
    <3> DEFINE k == idx + j - 1
    <3>1. k \in b .. (b + sclass_size[c] - 1) /\ k - at + 1 = j - i /\ j \in 1 .. Len(s)
      BY <1>1, <1>3, <2>2, <2>3, SMTT(60)
    <3>2. (k >= at <=> j > i) /\ (k < at + Len(v) <=> j <= i + Len(v))
      BY <1>1, <1>3
    <3>3. p.data[k] = s[j]
      BY <2>1, <3>1
    <3> HIDE DEF q, at, b, k
    <3>4. q.data[k] = IF j > i /\ j <= i + Len(v) THEN v[j - i] ELSE s[j]
      BY <2>4, <3>1, <3>2, <3>3
    <3> QED  BY <3>1, <3>4 DEF k
  <2> HIDE DEF q
  <2>7. List(q, U, idx, t)
    <3>1. t # <<>> /\ Len(t) <= MaxLen
      BY <1>1, <1>3
    <3> QED  BY <1>1, <1>3, <2>4, <2>5, <2>6, <3>1 DEF List, b, c
  <2> QED  BY <2>4, <2>7 DEF q
<1> QED  BY <1>2, <1>3

\* overwritten(): the same for the result of a call.
LEMMA OverwrittenGives ==
    ASSUME NEW p, NEW U, NEW r, NEW s, Gives(p, U, r, s),
           NEW i \in Nat, NEW v \in Seq(Nat), i + Len(v) <= Len(s),
           NEW t \in Seq(Nat), Len(t) = Len(s),
           \A j \in 1 .. Len(s) : t[j] = IF j > i /\ j <= i + Len(v) THEN v[j - i] ELSE s[j]
    PROVE  Gives(p, U, overwritten(r, i, v), t)
<1> DEFINE w == written(r.pool, r.index + i, v)
<1>1. r = [pool |-> r.pool, index |-> r.index] /\ List(r.pool, U, r.index, s) /\ Keeps(p, r.pool, U)
  BY DEF Gives
<1>2. List(w, U, r.index, t) /\ Keeps(r.pool, w, U)
  BY <1>1, WriteList
<1>3. overwritten(r, i, v) = [r EXCEPT !.pool = w]
  BY DEF overwritten
<1> HIDE DEF w, overwritten
<1>4. overwritten(r, i, v) = [pool |-> w, index |-> r.index]
  BY <1>1, <1>3
<1> QED  BY <1>1, <1>2, <1>4, KeepsTrans DEF Gives

\* t is s with v in place of what follows the first i elements.
Overwrites(s, i, v, t) ==
    \A j \in 1 .. Len(s) : t[j] = IF j > i /\ j <= i + Len(v) THEN v[j - i] ELSE s[j]

\* The same, with the list it leaves.
LEMMA OverwrittenSome ==
    ASSUME NEW p, NEW U, NEW r, NEW s, Gives(p, U, r, s),
           NEW i \in Nat, NEW v \in Seq(Nat), i + Len(v) <= Len(s)
    PROVE  \E t : /\ Len(t) = Len(s) /\ Gives(p, U, overwritten(r, i, v), t)
                  /\ Overwrites(s, i, v, t)
<1> DEFINE n == Len(s)
           t == [j \in 1 .. n |-> IF j > i /\ j <= i + Len(v) THEN v[j - i] ELSE s[j]]
<1>1. List(r.pool, U, r.index, s)
  BY DEF Gives
<1>2. n \in Nat /\ \A j \in 1 .. n : s[j] \in Nat
  BY <1>1, ListType
<1> HIDE DEF n
<1>3. t \in [1 .. n -> Nat]
  <2> SUFFICES ASSUME NEW j \in 1 .. n
               PROVE  (IF j > i /\ j <= i + Len(v) THEN v[j - i] ELSE s[j]) \in Nat
    OBVIOUS
  <2>1. CASE j > i /\ j <= i + Len(v)
    <3>1. j - i \in 1 .. Len(v)
      BY <1>2, <2>1
    <3> QED  BY <2>1, <3>1
  <2>2. CASE ~(j > i /\ j <= i + Len(v))
    BY <1>2, <2>2
  <2> QED  BY <2>1, <2>2
<1>4. \A j \in 1 .. n : t[j] = IF j > i /\ j <= i + Len(v) THEN v[j - i] ELSE s[j]
  OBVIOUS
<1> HIDE DEF t
<1>5. t \in Seq(Nat) /\ DOMAIN t = 1 .. n
  BY <1>2, <1>3, SeqDef
<1>6. Len(t) = n
  BY <1>2, <1>5
<1>7. Gives(p, U, overwritten(r, i, v), t)
  BY <1>4, <1>5, <1>6, OverwrittenGives DEF n
<1> QED  BY <1>4, <1>6, <1>7 DEF n, Overwrites

\* Two sequences with the same elements are the same.
LEMMA SameSeq ==
    ASSUME NEW s \in Seq(Nat), NEW t \in Seq(Nat), Len(s) = Len(t),
           \A j \in 1 .. Len(t) : s[j] = t[j]
    PROVE  s = t
BY SeqEqual

\* The elements of a part of a sequence.
LEMMA PartSeq ==
    ASSUME NEW s \in Seq(Nat), NEW lo \in Nat, NEW hi \in Nat, lo <= hi, hi <= Len(s)
    PROVE  /\ SubSeq(s, lo + 1, hi) \in Seq(Nat) /\ Len(SubSeq(s, lo + 1, hi)) = hi - lo
           /\ \A j \in 1 .. (hi - lo) : SubSeq(s, lo + 1, hi)[j] = s[lo + j]
<1> DEFINE m == lo + 1
<1>0. m \in Nat /\ m \in Int /\ hi \in Int /\ Len(s) \in Nat
  OBVIOUS
<1> HIDE DEF m
<1>1. CASE lo = hi
  <2>1. SubSeq(s, m, hi) = <<>>
    <3>1. m > hi
      BY <1>1 DEF m
    <3> QED  BY <1>0, <3>1, SubSeqEmpty
  <2> QED  BY <1>1, <2>1 DEF m
<1>2. CASE lo < hi
  <2>1. m \in 1 .. Len(s) + 1 /\ hi \in m - 1 .. Len(s)
    BY <1>0, <1>2 DEF m
  <2>2. /\ SubSeq(s, m, hi) \in Seq(Nat)
        /\ Len(SubSeq(s, m, hi)) = IF m <= hi THEN hi - m + 1 ELSE 0
        /\ \A j \in 1 .. hi - m + 1 : SubSeq(s, m, hi)[j] = s[m + j - 1]
    BY <2>1, SubSeqProperties
  <2>3. hi - m + 1 = hi - lo /\ m <= hi
    BY <1>2 DEF m
  <2>4. ASSUME NEW j \in 1 .. (hi - lo) PROVE SubSeq(s, m, hi)[j] = s[lo + j]
    <3>1. m + j - 1 = lo + j /\ j \in 1 .. hi - m + 1
      BY <2>3 DEF m
    <3> QED  BY <2>2, <3>1
  <2> QED  BY <2>2, <2>3, <2>4 DEF m
<1> QED  BY <1>1, <1>2

\* The elements of two sequences one after the other.
LEMMA JoinSeq ==
    ASSUME NEW s \in Seq(Nat), NEW v \in Seq(Nat)
    PROVE  /\ s \o v \in Seq(Nat) /\ Len(s \o v) = Len(s) + Len(v)
           /\ \A j \in 1 .. (Len(s) + Len(v)) :
                (s \o v)[j] = IF j <= Len(s) THEN s[j] ELSE v[j - Len(s)]
BY ConcatProperties

\* The elements of a sequence with another one put in after its first i.
LEMMA SpliceSeq ==
    ASSUME NEW s \in Seq(Nat), NEW v \in Seq(Nat), NEW i \in Nat, i <= Len(s)
    PROVE  LET t == SubSeq(s, 1, i) \o v \o SubSeq(s, i + 1, Len(s)) IN
           /\ t \in Seq(Nat) /\ Len(t) = Len(s) + Len(v)
           /\ \A j \in 1 .. Len(t) :
                t[j] = IF j <= i THEN s[j] ELSE IF j <= i + Len(v) THEN v[j - i] ELSE s[j - Len(v)]
<1> DEFINE n == Len(s)
           k == Len(v)
           a == SubSeq(s, 1, i)
           b == SubSeq(s, i + 1, n)
           u == a \o v
           t == u \o b
<1>0. n \in Nat /\ k \in Nat /\ i <= n
  OBVIOUS
<1> HIDE DEF n, k
<1>1. a \in Seq(Nat) /\ Len(a) = i /\ \A j \in 1 .. i : a[j] = s[j]
  <2> DEFINE z == 0
  <2>1. z \in Nat /\ z <= i /\ z + 1 = 1 /\ i - z = i
    OBVIOUS
  <2>2. \A j \in 1 .. i : z + j = j
    OBVIOUS
  <2> HIDE DEF z
  <2>3. /\ SubSeq(s, z + 1, i) \in Seq(Nat) /\ Len(SubSeq(s, z + 1, i)) = i - z
        /\ \A j \in 1 .. (i - z) : SubSeq(s, z + 1, i)[j] = s[z + j]
    BY <2>1, PartSeq
  <2> QED  BY <2>1, <2>2, <2>3
<1>2. b \in Seq(Nat) /\ Len(b) = n - i /\ \A j \in 1 .. (n - i) : b[j] = s[i + j]
  <2>1. n <= Len(s)
    BY <1>0 DEF n
  <2> QED  BY <1>0, <2>1, PartSeq
<1> HIDE DEF a, b
<1>3. /\ u \in Seq(Nat) /\ Len(u) = i + k
      /\ \A j \in 1 .. (i + k) : u[j] = IF j <= i THEN a[j] ELSE v[j - i]
  BY <1>1, JoinSeq DEF k
<1> HIDE DEF u
<1>4. /\ t \in Seq(Nat) /\ Len(t) = (i + k) + (n - i)
      /\ \A j \in 1 .. ((i + k) + (n - i)) : t[j] = IF j <= i + k THEN u[j] ELSE b[j - (i + k)]
  <2>1. /\ t \in Seq(Nat) /\ Len(t) = Len(u) + Len(b)
        /\ \A j \in 1 .. (Len(u) + Len(b)) : t[j] = IF j <= Len(u) THEN u[j] ELSE b[j - Len(u)]
    BY <1>2, <1>3, JoinSeq
  <2> HIDE DEF t
  <2> QED  BY <1>2, <1>3, <2>1
<1> HIDE DEF t
<1>5. (i + k) + (n - i) = n + k
  BY <1>0
<1>6. ASSUME NEW j \in 1 .. (n + k)
      PROVE  t[j] = IF j <= i THEN s[j] ELSE IF j <= i + k THEN v[j - i] ELSE s[j - k]
  <2>1. j \in Nat /\ j >= 1 /\ j <= n + k
    BY <1>0
  <2>2. CASE j <= i
    <3>1. j \in 1 .. i /\ j \in 1 .. (i + k) /\ j <= i + k
      BY <1>0, <2>1, <2>2
    <3> QED  BY <1>1, <1>3, <1>4, <1>5, <2>2, <3>1
  <2>3. CASE j > i /\ j <= i + k
    <3>1. j \in 1 .. (i + k) /\ ~(j <= i)
      BY <1>0, <2>1, <2>3
    <3> QED  BY <1>3, <1>4, <1>5, <2>3, <3>1
  <2>4. CASE j > i + k
    <3>1. ~(j <= i + k) /\ ~(j <= i) /\ j - (i + k) \in 1 .. (n - i) /\ i + (j - (i + k)) = j - k
      BY <1>0, <2>1, <2>4
    <3> QED  BY <1>2, <1>4, <1>5, <3>1
  <2> QED  BY <1>0, <2>1, <2>2, <2>3, <2>4
<1>7. t = SubSeq(s, 1, i) \o v \o SubSeq(s, i + 1, Len(s))
  BY DEF t, u, a, b, n
<1> QED  BY <1>4, <1>5, <1>6, <1>7 DEF n, k

\* EntityList::extend.
LEMMA ExtendGives ==
    ASSUME NEW p, NEW U, NEW idx, NEW s, List(p, U, idx, s),
           NEW v \in Seq(Nat), Len(s) + Len(v) <= MaxLen
    PROVE  Gives(p, U, extend(p, idx, v), s \o v)
<1> DEFINE n == Len(s)
           k == Len(v)
           r == grow(p, idx, k)
           u == s \o v
<1>1. n \in Nat /\ k \in Nat /\ s \in Seq(Nat) /\ len_of(p, idx) = n
  BY ListType
<1>2. PICK t : Gives(p, U, r, t) /\ Len(t) = n + k /\ \A j \in 1 .. n : t[j] = s[j]
  BY <1>1, GrowGives
<1>3. extend(p, idx, v) = overwritten(r, n, v)
  BY <1>1 DEF extend
<1> HIDE DEF r
<1>4. u \in Seq(Nat) /\ Len(u) = n + k /\ \A j \in 1 .. (n + k) : u[j] = IF j <= n THEN s[j] ELSE v[j - n]
  BY <1>1, JoinSeq
<1> HIDE DEF n, k, u
<1>5. ASSUME NEW j \in 1 .. Len(t)
      PROVE  u[j] = IF j > n /\ j <= n + Len(v) THEN v[j - n] ELSE t[j]
  <2>1. j \in 1 .. (n + k) /\ j \in Nat /\ j <= n + k
    BY <1>1, <1>2
  <2>2. CASE j <= n
    <3>1. j \in 1 .. n /\ ~(j > n)
      BY <1>1, <2>1, <2>2
    <3> QED  BY <1>2, <1>4, <2>1, <2>2, <3>1
  <2>3. CASE j > n
    <3>1. ~(j <= n)
      BY <1>1, <2>1, <2>3
    <3> QED  BY <1>4, <2>1, <2>3, <3>1 DEF k
  <2> QED  BY <1>1, <2>1, <2>2, <2>3
<1>6. n + Len(v) <= Len(t)
  BY <1>1, <1>2 DEF k
<1>7. Gives(p, U, overwritten(r, n, v), u)
  BY <1>1, <1>2, <1>4, <1>5, <1>6, OverwrittenGives
<1> QED  BY <1>3, <1>7 DEF u

\* EntityList::grow_at: room for n elements after the first i.
LEMMA GrowAtGives ==
    ASSUME NEW p, NEW U, NEW idx, NEW s, List(p, U, idx, s), NEW i \in Nat, i <= Len(s),
           NEW n \in Nat, Len(s) + n <= MaxLen
    PROVE  \E t : /\ Gives(p, U, grow_at(p, idx, i, n), t) /\ Len(t) = Len(s) + n
                  /\ \A j \in 1 .. i : t[j] = s[j]
                  /\ \A j \in (i + 1) .. Len(s) : t[j + n] = s[j]
<1> DEFINE l == Len(s)
           r == grow(p, idx, n)
           m == l - i
           v == cells(r.pool, r.index + i, m)
<1>1. l \in Nat /\ s \in Seq(Nat) /\ len_of(p, idx) = l /\ i <= l
  BY ListType
<1>2. PICK t : Gives(p, U, r, t) /\ Len(t) = l + n /\ \A j \in 1 .. l : t[j] = s[j]
  BY <1>1, GrowGives
<1>3. grow_at(p, idx, i, n) = overwritten(r, i + n, v)
  BY <1>1 DEF grow_at
<1> HIDE DEF r, l
<1>4. m \in Nat /\ i + m = l /\ i + m <= Len(t)
  BY <1>1, <1>2
<1>5. v \in Seq(Nat) /\ Len(v) = m /\ \A j \in 1 .. m : v[j] = t[i + j]
  <2>1. List(r.pool, U, r.index, t)
    BY <1>2 DEF Gives
  <2> HIDE DEF m
  <2> QED  BY <1>4, <2>1, ListCells
<1> HIDE DEF v
<1> DEFINE k == i + n
<1>6. k \in Nat /\ k + Len(v) <= Len(t) /\ k + m = l + n
  BY <1>1, <1>2, <1>4, <1>5
<1> HIDE DEF k, m
<1>6a. PICK u : Len(u) = Len(t) /\ Gives(p, U, overwritten(r, k, v), u) /\ Overwrites(t, k, v, u)
  <2>1. Gives(p, U, r, t) /\ k \in Nat /\ v \in Seq(Nat) /\ k + Len(v) <= Len(t)
    BY <1>2, <1>5, <1>6
  <2> QED  BY <2>1, OverwrittenSome
<1>7. /\ Len(u) = Len(t) /\ Gives(p, U, overwritten(r, k, v), u)
      /\ \A j \in 1 .. Len(t) : u[j] = IF j > k /\ j <= k + Len(v) THEN v[j - k] ELSE t[j]
  BY <1>6a DEF Overwrites
<1>8. ASSUME NEW j \in 1 .. i PROVE u[j] = s[j]
  <2>1. j \in 1 .. l /\ j \in 1 .. Len(t) /\ ~(j > k)
    BY <1>1, <1>2 DEF k
  <2> QED  BY <1>2, <1>7, <2>1
<1>9. ASSUME NEW j \in (i + 1) .. l PROVE u[j + n] = s[j]
  <2>1. /\ j + n \in 1 .. Len(t) /\ j + n > k /\ j + n <= k + Len(v) /\ (j + n) - k = j - i
        /\ j - i \in 1 .. m /\ i + (j - i) = j /\ j \in 1 .. l
    BY <1>1, <1>2, <1>4, <1>5, <1>6 DEF k
  <2>2. u[j + n] = v[j - i]
    BY <1>7, <2>1
  <2>3. v[j - i] = t[i + (j - i)]
    BY <1>5, <2>1
  <2> QED  BY <1>2, <2>1, <2>2, <2>3
<1> QED  BY <1>2, <1>3, <1>7, <1>8, <1>9 DEF k, l

\* Elements written into the room that grow_at made.
LEMMA SpliceGives ==
    ASSUME NEW p, NEW U, NEW idx, NEW s, List(p, U, idx, s), NEW i \in Nat, i <= Len(s),
           NEW v \in Seq(Nat), Len(s) + Len(v) <= MaxLen
    PROVE  Gives(p, U, overwritten(grow_at(p, idx, i, Len(v)), i, v),
                 SubSeq(s, 1, i) \o v \o SubSeq(s, i + 1, Len(s)))
<1> DEFINE l == Len(s)
           n == Len(v)
           r == grow_at(p, idx, i, n)
           u == SubSeq(s, 1, i) \o v \o SubSeq(s, i + 1, Len(s))
<1>1. l \in Nat /\ n \in Nat /\ s \in Seq(Nat) /\ i <= l
  BY ListType
<1>2. PICK t : /\ Gives(p, U, r, t) /\ Len(t) = l + n
               /\ \A j \in 1 .. i : t[j] = s[j]
               /\ \A j \in (i + 1) .. l : t[j + n] = s[j]
  BY <1>1, GrowAtGives, SMTT(60)
<1> HIDE DEF r
<1>3. /\ u \in Seq(Nat) /\ Len(u) = l + n
      /\ \A j \in 1 .. Len(u) :
            u[j] = IF j <= i THEN s[j] ELSE IF j <= i + n THEN v[j - i] ELSE s[j - n]
  BY <1>1, SpliceSeq, ZenonT(60)
<1> HIDE DEF u, n, l
<1>4. ASSUME NEW j \in 1 .. Len(t)
      PROVE  u[j] = IF j > i /\ j <= i + Len(v) THEN v[j - i] ELSE t[j]
  <2>1. j \in 1 .. Len(u) /\ j \in Nat /\ j >= 1 /\ j <= l + n /\ Len(v) = n
    BY <1>1, <1>2, <1>3 DEF n
  <2>2. CASE j <= i
    <3>1. j \in 1 .. i /\ ~(j > i)
      BY <2>1, <2>2
    <3> QED  BY <1>2, <1>3, <2>1, <2>2, <3>1
  <2>3. CASE j > i /\ j <= i + n
    <3>1. ~(j <= i)
      BY <2>1, <2>3
    <3> QED  BY <1>3, <2>1, <2>3, <3>1
  <2>4. CASE j > i + n
    <3>1. ~(j <= i + n) /\ ~(j <= i) /\ j - n \in (i + 1) .. l /\ (j - n) + n = j
      BY <1>1, <2>1, <2>4
    <3>2. t[j] = s[j - n]
      BY <1>2, <3>1
    <3> QED  BY <1>3, <2>1, <3>1, <3>2
  <2> QED  BY <1>1, <2>1, <2>2, <2>3, <2>4
<1>5. i + Len(v) <= Len(t)
  BY <1>1, <1>2 DEF n
<1>6. Gives(p, U, overwritten(r, i, v), u)
  BY <1>2, <1>3, <1>4, <1>5, OverwrittenGives
<1> QED  BY <1>6 DEF r, u, n

\* EntityList::insert.
LEMMA InsertGives ==
    ASSUME NEW p, NEW U, NEW idx, NEW s, List(p, U, idx, s), NEW i \in Nat, i <= Len(s),
           Len(s) < MaxLen, NEW e \in Nat
    PROVE  Gives(p, U, insert(p, idx, i, e), SubSeq(s, 1, i) \o <<e>> \o SubSeq(s, i + 1, Len(s)))
<1> DEFINE l == Len(s)
           o == <<e>>
           r == push(p, idx, e)
           t == s \o o
           m == l - i
           w == cells(r.pool, r.index + i, m)
           v == o \o w
           u == SubSeq(s, 1, i) \o o \o SubSeq(s, i + 1, Len(s))
<1>1. l \in Nat /\ s \in Seq(Nat) /\ i <= l /\ len_of(p, idx) = l
  BY ListType
<1>2. o \in Seq(Nat) /\ Len(o) = 1 /\ o[1] = e
  OBVIOUS
<1>3. Gives(p, U, r, t)
  BY PushGives
<1>4. insert(p, idx, i, e) = overwritten(r, i, v)
  BY <1>1 DEF insert
<1> HIDE DEF o, r
<1>5. t \in Seq(Nat) /\ Len(t) = l + 1 /\ \A j \in 1 .. l : t[j] = s[j]
  <2>1. t \in Seq(Nat) /\ Len(t) = l + Len(o)
        /\ \A j \in 1 .. (l + Len(o)) : t[j] = IF j <= l THEN s[j] ELSE o[j - l]
    BY <1>1, <1>2, JoinSeq
  <2> HIDE DEF t, l
  <2>2. \A j \in 1 .. l : j \in 1 .. (l + Len(o)) /\ j <= l
    BY <1>1, <1>2
  <2> QED  BY <1>2, <2>1, <2>2
<1>6. /\ u \in Seq(Nat) /\ Len(u) = l + 1
      /\ \A j \in 1 .. Len(u) :
            u[j] = IF j <= i THEN s[j] ELSE IF j <= i + 1 THEN o[j - i] ELSE s[j - 1]
  <2>1. /\ u \in Seq(Nat) /\ Len(u) = l + Len(o)
        /\ \A j \in 1 .. Len(u) :
              u[j] = IF j <= i THEN s[j] ELSE IF j <= i + Len(o) THEN o[j - i] ELSE s[j - Len(o)]
    <3> HIDE DEF m, w, v, t
    <3>1. i <= Len(s) /\ s \in Seq(Nat) /\ o \in Seq(Nat)
      BY <1>1, <1>2
    <3> QED  BY <3>1, SpliceSeq, ZenonT(60)
  <2> HIDE DEF t, u, l
  <2> QED  BY <1>2, <2>1
<1> HIDE DEF t, u, l
<1>7. m \in Nat /\ i + m = l /\ i + m <= Len(t)
  BY <1>1, <1>5
<1>8. w \in Seq(Nat) /\ Len(w) = m /\ \A j \in 1 .. m : w[j] = t[i + j]
  <2>1. List(r.pool, U, r.index, t)
    BY <1>3 DEF Gives
  <2> HIDE DEF m, v
  <2>2. m \in Nat /\ i + m <= Len(t)
    BY <1>7
  <2> QED  BY <2>1, <2>2, ListCells
<1> HIDE DEF w
<1>9. /\ v \in Seq(Nat) /\ Len(v) = 1 + m
      /\ \A j \in 1 .. (1 + m) : v[j] = IF j <= 1 THEN o[j] ELSE w[j - 1]
  <2>1. /\ v \in Seq(Nat) /\ Len(v) = Len(o) + Len(w)
        /\ \A j \in 1 .. (Len(o) + Len(w)) : v[j] = IF j <= Len(o) THEN o[j] ELSE w[j - Len(o)]
    BY <1>2, <1>8, JoinSeq
  <2> HIDE DEF v, m
  <2> QED  BY <1>2, <1>8, <2>1
<1> HIDE DEF v, m
<1>10. ASSUME NEW j \in 1 .. Len(t)
       PROVE  u[j] = IF j > i /\ j <= i + Len(v) THEN v[j - i] ELSE t[j]
  <2>1. j \in 1 .. Len(u) /\ j \in Nat /\ j >= 1 /\ j <= l + 1 /\ i + Len(v) = l + 1
    BY <1>1, <1>5, <1>6, <1>7, <1>9
  <2>2. CASE j <= i
    <3>1. j \in 1 .. l /\ ~(j > i)
      BY <1>1, <2>1, <2>2
    <3> QED  BY <1>5, <1>6, <2>1, <2>2, <3>1
  <2>3. CASE j = i + 1
    <3>1. ~(j <= i) /\ j > i /\ j <= i + 1 /\ j - i = 1 /\ 1 \in 1 .. (1 + m)
      BY <1>7, <2>1, <2>3
    <3>2. v[1] = o[1]
      BY <1>9, <3>1
    <3>3. u[j] = o[1]
      BY <1>6, <2>1, <3>1
    <3> QED  BY <2>1, <3>1, <3>2, <3>3
  <2>4. CASE j > i + 1
    <3>1. /\ ~(j <= i + 1) /\ ~(j <= i) /\ j > i /\ j - i \in 1 .. (1 + m) /\ ~(j - i <= 1)
          /\ (j - i) - 1 \in 1 .. m /\ i + ((j - i) - 1) = j - 1 /\ j - 1 \in 1 .. l
      BY <1>1, <1>7, <2>1, <2>4
    <3>2. v[j - i] = w[(j - i) - 1]
      BY <1>9, <3>1
    <3>3. w[(j - i) - 1] = t[j - 1]
      BY <1>8, <3>1
    <3> QED  BY <1>5, <1>6, <2>1, <3>1, <3>2, <3>3
  <2> QED  BY <2>1, <2>2, <2>3, <2>4
<1>11. i + Len(v) <= Len(t)
  BY <1>1, <1>5, <1>7, <1>9
<1>12. Gives(p, U, overwritten(r, i, v), u)
  BY <1>3, <1>5, <1>6, <1>9, <1>10, <1>11, OverwrittenGives
<1> QED  BY <1>4, <1>12 DEF u, o

\* The same for a list.
LEMMA WriteSome ==
    ASSUME NEW p, NEW U, NEW idx, NEW s, List(p, U, idx, s),
           NEW i \in Nat, NEW v \in Seq(Nat), i + Len(v) <= Len(s)
    PROVE  \E t : /\ Len(t) = Len(s) /\ List(written(p, idx + i, v), U, idx, t)
                  /\ Keeps(p, written(p, idx + i, v), U) /\ Overwrites(s, i, v, t)
<1> DEFINE r == [pool |-> p, index |-> idx]
           w == written(p, idx + i, v)
<1>1. Gives(p, U, r, s)
  BY DEF Gives, Keeps
<1>2. overwritten(r, i, v) = [pool |-> w, index |-> idx]
  BY DEF overwritten
<1> HIDE DEF r
<1>3. PICK t : Len(t) = Len(s) /\ Gives(p, U, overwritten(r, i, v), t) /\ Overwrites(s, i, v, t)
  BY <1>1, OverwrittenSome
<1> HIDE DEF w
<1>4. List(w, U, idx, t) /\ Keeps(p, w, U)
  BY <1>2, <1>3 DEF Gives
<1> QED  BY <1>3, <1>4 DEF w

\* The first m elements of a list, in a block for m elements.
LEMMA ShortenedGives ==
    ASSUME NEW p, NEW U, NEW idx, NEW s, List(p, U, idx, s), idx # 0,
           NEW m \in Nat, m # 0, m <= Len(s), NEW r,
           \/ r = realloc(p, idx - 1, sclass_for_length(Len(s)), sclass_for_length(m), m + 1)
           \/ r = in_place(p, idx) /\ sclass_for_length(Len(s)) = sclass_for_length(m),
           NEW t \in Seq(Nat), Len(t) = m, \A j \in 1 .. m : t[j] = s[j]
    PROVE  Gives(p, U, holds(r, m, 0, <<>>), t)
<1> DEFINE u == <<>>
           z == 0
<1>1. Len(s) \in Nat /\ MaxLen \in Nat /\ Len(s) \in 0 .. MaxLen
  BY ListType
<1>2. m \in 1 .. MaxLen /\ m <= m
  BY <1>1
<1>3. /\ Has(r.pool, U, r.block, sclass_for_length(m)) /\ Keeps(p, r.pool, U)
      /\ \A j \in 1 .. m : r.pool.data[r.block + j] = s[j]
  <2> DEFINE n == m
  <2>1. n \in Nat /\ n <= Len(s) /\ n <= m
    BY <1>2
  <2>2. \/ r = realloc(p, idx - 1, sclass_for_length(Len(s)), sclass_for_length(m), n + 1)
        \/ r = in_place(p, idx) /\ sclass_for_length(Len(s)) = sclass_for_length(m)
    OBVIOUS
  <2> HIDE DEF n
  <2>3. /\ Has(r.pool, U, r.block, sclass_for_length(m)) /\ Keeps(p, r.pool, U)
        /\ \A j \in 1 .. n : r.pool.data[r.block + j] = s[j]
    BY <1>2, <2>1, <2>2, Resized
  <2> QED  BY <2>3 DEF n
<1>4. u \in Seq(Nat) /\ Len(u) = 0 /\ z \in Nat /\ z = 0
  OBVIOUS
<1> HIDE DEF u, z
<1>5. z + Len(u) <= m
  BY <1>4
<1>6. \A j \in 1 .. m : t[j] = IF j > z /\ j <= z + Len(u) THEN u[j - z] ELSE r.pool.data[r.block + j]
  <2> SUFFICES ASSUME NEW j \in 1 .. m
               PROVE  t[j] = IF j > z /\ j <= z + Len(u) THEN u[j - z] ELSE r.pool.data[r.block + j]
    OBVIOUS
  <2>1. ~(j <= z + Len(u))
    BY <1>4
  <2> QED  BY <1>3, <2>1
<1>7. Gives(r.pool, U, holds(r, m, z, u), t)
  BY <1>2, <1>3, <1>4, <1>5, <1>6, HoldsGives
<1>8. Gives(p, U, holds(r, m, z, u), t)
  BY <1>3, <1>7, KeepsTrans DEF Gives
<1> QED  BY <1>8 DEF u, z

\* EntityList::remove_last.
LEMMA RemoveLastGives ==
    ASSUME NEW p, NEW U, NEW idx, NEW s, List(p, U, idx, s), idx # 0,
           NEW t \in Seq(Nat), Len(t) = Len(s) - 1, \A j \in 1 .. Len(t) : t[j] = s[j]
    PROVE  Gives(p, U, remove_last(p, idx, Len(s)), t)
<1> DEFINE n == Len(s)
           c == sclass_for_length(n)
           r == IF is_sclass_min_length(n) THEN realloc(p, idx - 1, c, c - 1, n) ELSE in_place(p, idx)
<1>1. n \in Nat /\ n \in 1 .. MaxLen /\ MaxLen \in Nat /\ n \in 0 .. MaxLen
  BY ListType
<1>2. CASE n = 1
  <2>1. remove_last(p, idx, n) = clear(p, idx)
    BY <1>2 DEF remove_last
  <2>2. t = <<>>
    BY <1>2
  <2> QED  BY <2>1, <2>2, ClearGives
<1>3. CASE n # 1
  <2> DEFINE m == n - 1
  <2>1. remove_last(p, idx, n) = holds(r, m, 0, <<>>)
    BY <1>3 DEF remove_last
  <2> HIDE DEF n
  <2>2. m \in 1 .. MaxLen /\ m < MaxLen /\ m \in Nat /\ m # 0 /\ m <= n /\ m + 1 = n /\ m \in 0 .. MaxLen
    BY <1>1, <1>3
  <2> HIDE DEF m
  <2>3. sclass_for_length(m + 1) = IF is_sclass_min_length(m + 1) THEN sclass_for_length(m) + 1
                                   ELSE sclass_for_length(m)
    BY <2>2, ClassStep
  <2>4. sclass_for_length(m) \in Nat
    BY <2>2, ClassOf, ClassType
  <2>5. \/ r = realloc(p, idx - 1, c, sclass_for_length(m), m + 1)
        \/ r = in_place(p, idx) /\ c = sclass_for_length(m)
    <3>1. CASE is_sclass_min_length(n)
      <4>1. c - 1 = sclass_for_length(m)
        BY <2>2, <2>3, <2>4, <3>1
      <4>2. r = realloc(p, idx - 1, c, c - 1, n)
        BY <3>1
      <4> HIDE DEF r, c
      <4> QED  BY <2>2, <4>1, <4>2
    <3>2. CASE ~is_sclass_min_length(n)
      BY <2>2, <2>3, <3>2
    <3> QED  BY <3>1, <3>2
  <2> HIDE DEF r
  <2>6. Len(t) = m /\ m <= Len(s) /\ \A j \in 1 .. m : t[j] = s[j]
    BY <2>2 DEF n, m
  <2>7. Gives(p, U, holds(r, m, 0, <<>>), t)
    BY <2>2, <2>5, <2>6, ShortenedGives DEF n
  <2> QED  BY <2>1, <2>7 DEF n
<1> QED  BY <1>2, <1>3

\* The elements of a sequence without the one after the first i.
LEMMA DeleteSeq ==
    ASSUME NEW s \in Seq(Nat), NEW i \in Nat, i < Len(s)
    PROVE  LET t == SubSeq(s, 1, i) \o SubSeq(s, i + 2, Len(s)) IN
           /\ t \in Seq(Nat) /\ Len(t) = Len(s) - 1
           /\ \A j \in 1 .. Len(t) : t[j] = IF j <= i THEN s[j] ELSE s[j + 1]
<1> DEFINE n == Len(s)
           k == i + 1
           a == SubSeq(s, 1, i)
           b == SubSeq(s, k + 1, n)
           t == a \o b
<1>0. n \in Nat /\ k \in Nat /\ k <= n /\ i + 2 = k + 1 /\ k = i + 1 /\ n <= n
  OBVIOUS
<1> HIDE DEF n, k
<1>1. a \in Seq(Nat) /\ Len(a) = i /\ \A j \in 1 .. i : a[j] = s[j]
  <2> DEFINE z == 0
  <2>1. z \in Nat /\ z <= i /\ z + 1 = 1 /\ i - z = i /\ i <= Len(s)
    OBVIOUS
  <2>2. \A j \in 1 .. i : z + j = j
    OBVIOUS
  <2> HIDE DEF z
  <2>3. /\ SubSeq(s, z + 1, i) \in Seq(Nat) /\ Len(SubSeq(s, z + 1, i)) = i - z
        /\ \A j \in 1 .. (i - z) : SubSeq(s, z + 1, i)[j] = s[z + j]
    BY <2>1, PartSeq
  <2> QED  BY <2>1, <2>2, <2>3
<1>2. b \in Seq(Nat) /\ Len(b) = n - k /\ \A j \in 1 .. (n - k) : b[j] = s[k + j]
  <2>1. n <= Len(s)
    BY <1>0 DEF n
  <2> QED  BY <1>0, <2>1, PartSeq
<1> HIDE DEF a, b
<1>3. /\ t \in Seq(Nat) /\ Len(t) = Len(a) + Len(b)
      /\ \A j \in 1 .. (Len(a) + Len(b)) : t[j] = IF j <= Len(a) THEN a[j] ELSE b[j - Len(a)]
  BY <1>1, <1>2, JoinSeq
<1> HIDE DEF t
<1>4. Len(t) = n - 1
  BY <1>0, <1>1, <1>2, <1>3
<1>5. ASSUME NEW j \in 1 .. (n - 1) PROVE t[j] = IF j <= i THEN s[j] ELSE s[j + 1]
  <2>1. j \in Nat /\ j \in 1 .. (Len(a) + Len(b))
    BY <1>0, <1>1, <1>2
  <2>2. CASE j <= i
    <3>1. j \in 1 .. i
      BY <2>1, <2>2
    <3> QED  BY <1>1, <1>3, <2>1, <2>2, <3>1
  <2>3. CASE j > i
    <3>1. j - i \in 1 .. (n - k) /\ k + (j - i) = j + 1 /\ ~(j <= i)
      BY <1>0, <2>1, <2>3
    <3> QED  BY <1>1, <1>2, <1>3, <2>1, <3>1
  <2> QED  BY <2>1, <2>2, <2>3
<1>6. t = SubSeq(s, 1, i) \o SubSeq(s, i + 2, Len(s))
  BY <1>0 DEF t, a, b, n
<1> QED  BY <1>3, <1>4, <1>5, <1>6 DEF n

\* EntityList::remove.
LEMMA RemoveGives ==
    ASSUME NEW p, NEW U, NEW idx, NEW s, List(p, U, idx, s), NEW i \in Nat, i < Len(s)
    PROVE  Gives(p, U, remove(p, idx, i), SubSeq(s, 1, i) \o SubSeq(s, i + 2, Len(s)))
<1> DEFINE n == Len(s)
           k == i + 1
           m == n - 1 - i
           v == cells(p, idx + k, m)
           q == written(p, idx + i, v)
           t == SubSeq(s, 1, i) \o SubSeq(s, i + 2, Len(s))
<1>1. n \in Nat /\ s \in Seq(Nat) /\ idx \in Nat /\ idx # 0 /\ len_of(p, idx) = n /\ i < n
  BY ListType
<1>2. t \in Seq(Nat) /\ Len(t) = n - 1 /\ \A j \in 1 .. Len(t) : t[j] = IF j <= i THEN s[j] ELSE s[j + 1]
  BY <1>1, DeleteSeq
<1>3. remove(p, idx, i) = remove_last(q, idx, n)
  <2>1. idx + i + 1 = idx + k
    BY <1>1
  <2> QED  BY <1>1, <2>1 DEF remove
<1> HIDE DEF t, n, q
<1>4. k \in Nat /\ m \in Nat /\ k + m = n /\ i + m = n - 1 /\ k + m <= n /\ k = i + 1
  BY <1>1
<1>5. v \in Seq(Nat) /\ Len(v) = m /\ \A j \in 1 .. m : v[j] = s[k + j]
  <2> HIDE DEF k, m
  <2> QED  BY <1>4, ListCells DEF n
<1> HIDE DEF v, k, m
<1>6. PICK u : Len(u) = n /\ List(q, U, idx, u) /\ Keeps(p, q, U) /\ Overwrites(s, i, v, u)
  <2>1. i + Len(v) <= Len(s)
    BY <1>1, <1>4, <1>5 DEF n
  <2> QED  BY <1>5, <2>1, WriteSome DEF n, q
<1>7. ASSUME NEW j \in 1 .. Len(t) PROVE t[j] = u[j]
  <2>1. j \in Nat /\ j \in 1 .. n /\ j <= n - 1
    BY <1>1, <1>2
  <2>2. u[j] = IF j > i /\ j <= i + Len(v) THEN v[j - i] ELSE s[j]
    BY <1>6, <2>1 DEF Overwrites, n
  <2>3. CASE j <= i
    <3>1. ~(j > i)
      BY <2>1, <2>3
    <3> QED  BY <1>2, <2>2, <2>3, <3>1
  <2>4. CASE j > i
    <3>1. ~(j <= i) /\ j <= i + Len(v) /\ j - i \in 1 .. m /\ k + (j - i) = j + 1
      BY <1>1, <1>4, <1>5, <2>1, <2>4
    <3>2. v[j - i] = s[j + 1]
      BY <1>5, <3>1
    <3> QED  BY <1>2, <2>2, <2>4, <3>1, <3>2
  <2> QED  BY <2>1, <2>3, <2>4
<1>8. Gives(q, U, remove_last(q, idx, Len(u)), t)
  <2>1. Len(t) = Len(u) - 1
    BY <1>2, <1>6
  <2> QED  BY <1>1, <1>2, <1>6, <1>7, <2>1, RemoveLastGives
<1>9. Gives(p, U, remove_last(q, idx, n), t)
  BY <1>6, <1>8, KeepsTrans DEF Gives
<1> QED  BY <1>3, <1>9 DEF t

\* EntityList::swap_remove.
LEMMA SwapRemoveGives ==
    ASSUME NEW p, NEW U, NEW idx, NEW s, List(p, U, idx, s), NEW i \in Nat, i < Len(s),
           NEW t \in Seq(Nat), Len(t) = Len(s) - 1,
           \A j \in 1 .. Len(t) : t[j] = IF j = i + 1 THEN s[Len(s)] ELSE s[j]
    PROVE  Gives(p, U, swap_remove(p, idx, i), t)
<1> DEFINE n == Len(s)
           m == n - 1
           one == 1
           v == cells(p, idx + m, one)
           w == cells(p, idx + i, one)
           p1 == written(p, idx + i, v)
           p2 == written(p1, idx + m, w)
<1>1. n \in Nat /\ s \in Seq(Nat) /\ idx \in Nat /\ idx # 0 /\ len_of(p, idx) = n /\ i < n
  BY ListType
<1>2. swap_remove(p, idx, i) = remove_last(p2, idx, n)
  <2>1. idx + n - 1 = idx + m
    BY <1>1
  <2> QED  BY <1>1, <2>1 DEF swap_remove
<1> HIDE DEF n, p1, p2
<1>3. m \in Nat /\ m + 1 = n /\ one \in Nat /\ one = 1 /\ m + one <= n /\ i + one <= n
  BY <1>1
<1> HIDE DEF m, one
<1>4. v \in Seq(Nat) /\ Len(v) = one /\ \A j \in 1 .. one : v[j] = s[m + j]
  <2>1. m \in Nat /\ one \in Nat /\ m + one <= Len(s) /\ List(p, U, idx, s)
    BY <1>3 DEF n
  <2> HIDE DEF w, v
  <2>2. /\ cells(p, idx + m, one) \in Seq(Nat) /\ Len(cells(p, idx + m, one)) = one
        /\ \A j \in 1 .. one : cells(p, idx + m, one)[j] = s[m + j]
    <3>1. ASSUME NEW j \in 1 .. one PROVE cells(p, idx + m, one)[j] = s[m + j]
      <4>1. j = 1 /\ 1 \in 1 .. one
        BY <1>3
      <4>2. cells(p, idx + m, one)[1] = p.data[(idx + m) + 1 - 1]
        BY <4>1 DEF cells
      <4>3. (idx + m) + 1 - 1 = idx + (m + 1) - 1 /\ m + 1 \in 1 .. Len(s)
        BY <1>1, <1>3 DEF n
      <4>4. p.data[idx + (m + 1) - 1] = s[m + 1]
        BY <1>1, <4>3 DEF List
      <4> QED  BY <4>1, <4>2, <4>3, <4>4
    <3> DEFINE k == idx + m
    <3>2. p \in Pools /\ size(p) \in Nat /\ idx + Len(s) <= size(p)
      BY <2>1, ListInPool
    <3>3. Len(s) \in Nat /\ idx \in Nat
      BY <2>1, ListType
    <3>4. k \in Nat /\ k + one <= size(p)
      BY <2>1, <3>2, <3>3
    <3> HIDE DEF k
    <3>5. cells(p, k, one) \in Seq(Nat) /\ Len(cells(p, k, one)) = one
      BY <2>1, <3>2, <3>4, CellsType
    <3> QED  BY <3>1, <3>5 DEF k
  <2> QED  BY <2>2 DEF v
<1>5. w \in Seq(Nat) /\ Len(w) = one
  <2> DEFINE k == idx + i
  <2>1. one \in Nat /\ i + one <= Len(s)
    BY <1>3 DEF n
  <2>2. p \in Pools /\ size(p) \in Nat /\ idx + Len(s) <= size(p) /\ Len(s) \in Nat /\ idx \in Nat
    BY ListInPool, ListType
  <2>3. k \in Nat /\ k + one <= size(p) /\ w = cells(p, k, one)
    BY <2>1, <2>2
  <2> HIDE DEF k, w
  <2> QED  BY <2>1, <2>2, <2>3, CellsType
<1> HIDE DEF v, w
<1>6. PICK s1 : Len(s1) = n /\ List(p1, U, idx, s1) /\ Keeps(p, p1, U) /\ Overwrites(s, i, v, s1)
  <2>1. i + Len(v) <= Len(s)
    BY <1>3, <1>4 DEF n
  <2> QED  BY <1>4, <2>1, WriteSome DEF n, p1
<1>7. PICK s2 : Len(s2) = n /\ List(p2, U, idx, s2) /\ Keeps(p1, p2, U) /\ Overwrites(s1, m, w, s2)
  <2>1. m + Len(w) <= Len(s1)
    BY <1>3, <1>5, <1>6
  <2> QED  BY <1>3, <1>5, <1>6, <2>1, WriteSome, ZenonT(60) DEF p2
<1>8. ASSUME NEW j \in 1 .. Len(t) PROVE t[j] = s2[j]
  <2>1. j \in Nat /\ j \in 1 .. n /\ ~(j > m) /\ j >= 1
    BY <1>1, <1>3 DEF n
  <2>2. s2[j] = s1[j]
    BY <1>6, <1>7, <2>1 DEF Overwrites
  <2>3. s1[j] = IF j > i /\ j <= i + Len(v) THEN v[j - i] ELSE s[j]
    BY <2>1, <1>6 DEF Overwrites, n
  <2>4. CASE j = i + 1
    <3>1. j > i /\ j <= i + Len(v) /\ j - i = 1 /\ 1 \in 1 .. one
      BY <1>3, <1>4, <2>1, <2>4
    <3>2. v[1] = s[m + 1]
      BY <1>4, <3>1
    <3> QED  BY <1>3, <2>2, <2>3, <2>4, <3>1, <3>2 DEF n
  <2>5. CASE j # i + 1
    <3>1. ~(j > i /\ j <= i + Len(v))
      BY <1>3, <1>4, <2>1, <2>5
    <3> QED  BY <2>2, <2>3, <2>5, <3>1
  <2> QED  BY <2>4, <2>5
<1>9. Gives(p2, U, remove_last(p2, idx, Len(s2)), t)
  <2>1. Len(t) = Len(s2) - 1
    BY <1>7 DEF n
  <2> QED  BY <1>1, <1>7, <1>8, <2>1, RemoveLastGives
<1>10. Gives(p, U, remove_last(p2, idx, n), t)
  BY <1>6, <1>7, <1>9, KeepsTrans DEF Gives
<1> QED  BY <1>2, <1>10

\* EntityList::truncate.
LEMMA TruncateGives ==
    ASSUME NEW p, NEW U, NEW idx, NEW s, List(p, U, idx, s), NEW n \in Nat, NEW t \in Seq(Nat),
           Len(t) = IF n < Len(s) THEN n ELSE Len(s), \A j \in 1 .. Len(t) : t[j] = s[j]
    PROVE  Gives(p, U, truncate(p, idx, n), t)
<1> DEFINE l == Len(s)
<1>1. /\ l \in Nat /\ s \in Seq(Nat) /\ idx \in Nat /\ len_of(p, idx) = l /\ (idx = 0 => l = 0)
      /\ MaxLen \in Nat /\ l \in 0 .. MaxLen
  BY ListType
<1>2. CASE n = 0
  <2>1. truncate(p, idx, n) = clear(p, idx)
    BY <1>2 DEF truncate
  <2>2. Len(t) = 0
    BY <1>1, <1>2
  <2>3. t = <<>>
    BY <2>2
  <2> QED  BY <2>1, <2>3, ClearGives
<1>3. CASE n # 0 /\ l <= n
  <2>1. truncate(p, idx, n) = [pool |-> p, index |-> idx]
    BY <1>1, <1>3 DEF truncate
  <2>2. Len(t) = Len(s)
    BY <1>1, <1>3
  <2>3. t = s
    BY <1>1, <2>2, SameSeq
  <2>4. Keeps(p, p, U)
    BY DEF Keeps
  <2> HIDE DEF truncate
  <2> QED  BY <2>1, <2>3, <2>4 DEF Gives
<1>4. CASE n # 0 /\ n < l
  <2> DEFINE r == IF sclass_for_length(l) # sclass_for_length(n)
                  THEN realloc(p, idx - 1, sclass_for_length(l), sclass_for_length(n), n + 1)
                  ELSE in_place(p, idx)
  <2>1. truncate(p, idx, n) = holds(r, n, 0, <<>>)
    <3>1. ~(l <= n) /\ n # 0
      BY <1>1, <1>4
    <3> QED  BY <1>1, <3>1 DEF truncate
  <2>2. \/ r = realloc(p, idx - 1, sclass_for_length(Len(s)), sclass_for_length(n), n + 1)
        \/ r = in_place(p, idx) /\ sclass_for_length(Len(s)) = sclass_for_length(n)
    OBVIOUS
  <2> HIDE DEF r
  <2>3. Len(t) = n /\ idx # 0 /\ n <= Len(s) /\ n # 0
    BY <1>1, <1>4
  <2>4. Gives(p, U, holds(r, n, 0, <<>>), t)
    BY <2>2, <2>3, ShortenedGives
  <2> QED  BY <2>1, <2>4
<1> QED  BY <1>1, <1>2, <1>3, <1>4

(***************************************************************************)
(* All lists of the pool: the blocks of the lists and of the free lists    *)
(* tile it, and every list holds its elements.                             *)
(***************************************************************************)

BlockOf(I, L, h) == <<I[h] - 1, sclass_for_length(Len(L[h]))>>
Blocks(I, L, H) == {BlockOf(I, L, h) : h \in {g \in H : I[g] # 0}}

Holds(p, idx, s) ==
    /\ s \in Seq(Nat) /\ Len(s) <= MaxLen /\ idx \in Nat
    /\ idx = 0 <=> s = <<>>
    /\ idx # 0 => p.data[idx - 1] = Len(s) /\ \A j \in 1 .. Len(s) : p.data[idx + j - 1] = s[j]

Good(p, I, L) ==
    /\ I \in [Handle -> Nat] /\ L \in [Handle -> Seq(Nat)]
    /\ Pool(p, Blocks(I, L, Handle))
    /\ \A h \in Handle : Holds(p, I[h], L[h])
    /\ \A g, h \in Handle : I[g] # 0 /\ I[g] = I[h] => g = h

\* One list among the others.
LEMMA GoodList ==
    ASSUME NEW p, NEW I, NEW L, Good(p, I, L), NEW h \in Handle
    PROVE  List(p, Blocks(I, L, Handle \ {h}), I[h], L[h])
<1> DEFINE U == Blocks(I, L, Handle \ {h})
           V == Blocks(I, L, Handle)
           b == BlockOf(I, L, h)
<1>1. Holds(p, I[h], L[h]) /\ Pool(p, V) /\ \A g \in Handle : I[g] \in Nat
  BY DEF Good
<1>2. CASE I[h] = 0
  <2>1. U = V
    BY <1>2 DEF Blocks
  <2> HIDE DEF U, V
  <2> QED  BY <1>1, <1>2, <2>1 DEF List, Holds, U
<1>3. CASE I[h] # 0
  <2>1. V = U \cup {b}
    BY <1>3 DEF Blocks
  <2>2. b \notin U
    <3> SUFFICES ASSUME b \in U PROVE FALSE
      OBVIOUS
    <3>1. PICK g \in Handle \ {h} : I[g] # 0 /\ b = BlockOf(I, L, g)
      BY DEF Blocks
    <3>2. I[g] - 1 = I[h] - 1
      BY <3>1 DEF BlockOf
    <3>3. I[g] = I[h]
      BY <1>1, <3>2
    <3> QED  BY <3>1, <3>3 DEF Good
  <2> HIDE DEF U, V
  <2>3. Has(p, U, I[h] - 1, sclass_for_length(Len(L[h])))
    BY <1>1, <2>1, <2>2 DEF Has, BlockOf
  <2> QED  BY <1>1, <1>3, <2>3 DEF List, Holds, U
<1> QED  BY <1>2, <1>3

\* A list whose block is kept.
LEMMA HoldsKept ==
    ASSUME NEW p, NEW q, NEW U, NEW idx, NEW s, Holds(p, idx, s), Keeps(p, q, U),
           idx # 0 => <<idx - 1, sclass_for_length(Len(s))>> \in U
    PROVE  Holds(q, idx, s)
<1>1. CASE idx = 0
  BY <1>1 DEF Holds
<1>2. CASE idx # 0
  <2> DEFINE c == sclass_for_length(Len(s))
             b == idx - 1
             n == Len(s)
  <2>1. idx \in Nat /\ n \in Nat /\ n \in 0 .. MaxLen /\ b \in Nat
    BY <1>2, ListAssumption DEF Holds
  <2>2. c \in Class /\ n < sclass_size[c] /\ sclass_size[c] \in Nat
    BY <2>1, ClassOf, ClassType
  <2>3. <<b, c>> \in U
    BY <1>2
  <2> HIDE DEF b, c, n
  <2>4. \A i \in b .. (b + sclass_size[c] - 1) : q.data[i] = p.data[i]
    BY <2>1, <2>2, <2>3, KeepsCell
  <2>5. b \in b .. (b + sclass_size[c] - 1) /\ \A j \in 1 .. n : idx + j - 1 \in b .. (b + sclass_size[c] - 1)
    BY <2>1, <2>2 DEF b
  <2>6. q.data[b] = p.data[b] /\ \A j \in 1 .. n : q.data[idx + j - 1] = p.data[idx + j - 1]
    BY <2>4, <2>5
  <2> QED  BY <1>2, <2>6 DEF Holds, b, n
<1> QED  BY <1>1, <1>2

\* A call on the list of h, in a pool in order.
LEMMA GoodCall ==
    ASSUME NEW p, NEW I, NEW L, Good(p, I, L), NEW h \in Handle, NEW r, NEW t,
           Gives(p, Blocks(I, L, Handle \ {h}), r, t)
    PROVE  Good(r.pool, [I EXCEPT ![h] = r.index], [L EXCEPT ![h] = t])
<1> DEFINE U == Blocks(I, L, Handle \ {h})
           J == [I EXCEPT ![h] = r.index]
           M == [L EXCEPT ![h] = t]
           q == r.pool
           k == r.index
<1>1. /\ I \in [Handle -> Nat] /\ L \in [Handle -> Seq(Nat)]
      /\ \A g \in Handle : Holds(p, I[g], L[g])
      /\ \A g, f \in Handle : I[g] # 0 /\ I[g] = I[f] => g = f
  BY DEF Good
<1>2. List(q, U, k, t) /\ Keeps(p, q, U)
  BY DEF Gives
<1> HIDE DEF q, k
<1>3. t \in Seq(Nat) /\ k \in Nat /\ Holds(q, k, t)
  BY <1>2 DEF List, Holds
<1>4. /\ J \in [Handle -> Nat] /\ M \in [Handle -> Seq(Nat)] /\ J[h] = k /\ M[h] = t
      /\ \A g \in Handle \ {h} : J[g] = I[g] /\ M[g] = L[g]
  BY <1>1, <1>3 DEF k
<1> HIDE DEF J, M
<1>5. U = Blocks(J, M, Handle \ {h})
  <2>1. {g \in Handle \ {h} : J[g] # 0} = {g \in Handle \ {h} : I[g] # 0}
    BY <1>4
  <2>2. \A g \in Handle \ {h} : BlockOf(J, M, g) = BlockOf(I, L, g)
    BY <1>4 DEF BlockOf
  <2> QED  BY <2>1, <2>2 DEF Blocks
<1>6. \A g \in Handle \ {h} : I[g] # 0 => <<I[g] - 1, sclass_for_length(Len(L[g]))>> \in U
  BY DEF Blocks, BlockOf
<1> HIDE DEF U
<1>7. \A g \in Handle : Holds(q, J[g], M[g])
  <2> SUFFICES ASSUME NEW g \in Handle PROVE Holds(q, J[g], M[g])
    OBVIOUS
  <2>1. CASE g = h
    BY <1>3, <1>4, <2>1
  <2>2. CASE g # h
    <3>1. Holds(p, I[g], L[g]) /\ (I[g] # 0 => <<I[g] - 1, sclass_for_length(Len(L[g]))>> \in U)
      BY <1>1, <1>6, <2>2
    <3>2. Holds(q, I[g], L[g])
      BY <1>2, <3>1, HoldsKept
    <3> QED  BY <1>4, <2>2, <3>2
  <2> QED  BY <2>1, <2>2
<1>8. Pool(q, Blocks(J, M, Handle))
  <2>1. CASE k = 0
    <3>1. Blocks(J, M, Handle) = U
      BY <1>4, <1>5, <2>1 DEF Blocks
    <3> QED  BY <1>2, <2>1, <3>1 DEF List
  <2>2. CASE k # 0
    <3>1. Blocks(J, M, Handle) = U \cup {BlockOf(J, M, h)}
      BY <1>4, <1>5, <2>2 DEF Blocks
    <3>2. BlockOf(J, M, h) = <<k - 1, sclass_for_length(Len(t))>>
      BY <1>4 DEF BlockOf
    <3> QED  BY <1>2, <2>2, <3>1, <3>2 DEF List, Has
  <2> QED  BY <2>1, <2>2
<1>9. ASSUME NEW g \in Handle \ {h}, I[g] # 0 PROVE I[g] # k
  <2> SUFFICES ASSUME I[g] = k PROVE FALSE
    OBVIOUS
  <2> DEFINE b == k - 1
             c == sclass_for_length(Len(t))
             x == <<I[g] - 1, sclass_for_length(Len(L[g]))>>
  <2>1. Has(q, U, b, c)
    BY <1>2, <1>9 DEF List
  <2>2. x \in U /\ x[1] = b
    BY <1>6, <1>9
  <2> HIDE DEF b, c, x
  <2>3. /\ b \in Nat /\ sclass_size[c] \in Nat /\ sclass_size[c] >= 4
        /\ x[1] \in Nat /\ end(x) \in Nat
        /\ end(x) <= b \/ b + sclass_size[c] <= x[1]
    BY <2>1, <2>2, HasType
  <2>4. x \in Block
    <3>1. PICK fb : PoolBy(q, U \cup {<<b, c>>}, fb)
      BY <2>1 DEF Has, Pool
    <3> QED  BY <2>2, <3>1 DEF PoolBy, Tiles
  <2>5. end(x) >= x[1] + 4
    BY <2>4, BlockType
  <2> QED  BY <2>2, <2>3, <2>5
<1>10. \A g, f \in Handle : J[g] # 0 /\ J[g] = J[f] => g = f
  <2> SUFFICES ASSUME NEW g \in Handle, NEW f \in Handle, J[g] # 0, J[g] = J[f], g # f PROVE FALSE
    OBVIOUS
  <2>1. CASE g = h
    <3>1. J[f] = I[f] /\ J[g] = k /\ f \in Handle \ {h}
      BY <1>4, <2>1
    <3> QED  BY <1>9, <3>1
  <2>2. CASE f = h
    <3>1. J[g] = I[g] /\ J[f] = k /\ g \in Handle \ {h}
      BY <1>4, <2>2
    <3> QED  BY <1>9, <3>1
  <2>3. CASE g # h /\ f # h
    BY <1>1, <1>4, <2>3
  <2> QED  BY <2>1, <2>2, <2>3
<1>11. Good(q, J, M)
  BY <1>4, <1>7, <1>8, <1>10 DEF Good
<1> QED  BY <1>11 DEF q, J, M

\* A new pool.
LEMMA GoodEmpty == Good(new_pool, [h \in Handle |-> 0], [h \in Handle |-> <<>>])
<1> DEFINE I == [h \in Handle |-> 0]
           L == [h \in Handle |-> <<>>]
           d == [i \in {} |-> 0]
           f == [c \in Class |-> 0]
           fb == [c \in Class |-> <<>>]
           n == 0
<1>1. I \in [Handle -> Nat] /\ L \in [Handle -> Seq(Nat)] /\ \A h \in Handle : I[h] = 0 /\ L[h] = <<>>
  OBVIOUS
<1>2. Blocks(I, L, Handle) = {}
  BY <1>1 DEF Blocks
<1>3. d \in [0 .. (n - 1) -> Nat] /\ f \in [Class -> Nat] /\ n \in Nat
  <2>1. 0 .. (n - 1) = {}
    OBVIOUS
  <2>2. d \in [{} -> Nat]
    OBVIOUS
  <2> QED  BY <2>1, <2>2
<1>4. new_pool = [data |-> d, free |-> f]
  BY DEF new_pool
<1>5. new_pool \in Pools /\ size(new_pool) = 0 /\ new_pool.free = f
  <2> HIDE DEF d, f, n
  <2>1. [data |-> d, free |-> f] \in Pools /\ size([data |-> d, free |-> f]) = n
    BY <1>3, PoolMake
  <2>2. new_pool.free = f
    BY <1>4
  <2> QED  BY <1>4, <2>1, <2>2 DEF n
<1>6. fb \in [Class -> Seq(Nat)] /\ \A c \in Class : fb[c] = <<>> /\ DOMAIN fb[c] = {}
  <2>1. DOMAIN <<>> = {}
    OBVIOUS
  <2> QED  BY <2>1
<1>7. FreeOf(fb) = {}
  BY <1>6 DEF FreeOf, Block
<1>8. \A c \in Class : Chain(new_pool, c, fb[c])
  <2> SUFFICES ASSUME NEW c \in Class PROVE Chain(new_pool, c, fb[c])
    OBVIOUS
  <2>1. DOMAIN fb[c] = {} /\ new_pool.free[c] = 0
    BY <1>5, <1>6
  <2> HIDE DEF fb, f
  <2> QED  BY <2>1 DEF Chain, link
<1>9. Tiles(new_pool, {} \cup FreeOf(fb))
  <2>1. 0 .. (size(new_pool) - 1) = {}
    BY <1>5
  <2> QED  BY <1>7, <2>1 DEF Tiles
<1>10. Pool(new_pool, {})
  <2> HIDE DEF fb
  <2>1. PoolBy(new_pool, {}, fb)
    BY <1>5, <1>6, <1>7, <1>8, <1>9 DEF PoolBy
  <2> QED  BY <2>1 DEF Pool
<1>11. \A h \in Handle : Holds(new_pool, I[h], L[h])
  <2> SUFFICES ASSUME NEW h \in Handle PROVE Holds(new_pool, 0, <<>>)
    BY <1>1
  <2> QED  BY ListAssumption DEF Holds
<1> HIDE DEF I, L
<1>12. Good(new_pool, I, L)
  BY <1>1, <1>2, <1>10, <1>11 DEF Good
<1> QED  BY <1>12 DEF I, L

\* A list handed from g to h.
LEMMA GoodTake ==
    ASSUME NEW p, NEW I, NEW L, Good(p, I, L), NEW h \in Handle, NEW g \in Handle, h # g, I[h] = 0
    PROVE  Good(p, [I EXCEPT ![h] = I[g], ![g] = 0], [L EXCEPT ![h] = L[g], ![g] = <<>>])
<1> DEFINE J == [I EXCEPT ![h] = I[g], ![g] = 0]
           M == [L EXCEPT ![h] = L[g], ![g] = <<>>]
<1>1. /\ I \in [Handle -> Nat] /\ L \in [Handle -> Seq(Nat)]
      /\ \A f \in Handle : Holds(p, I[f], L[f])
      /\ \A e, f \in Handle : I[e] # 0 /\ I[e] = I[f] => e = f
      /\ Pool(p, Blocks(I, L, Handle))
  BY DEF Good
<1>2. /\ J \in [Handle -> Nat] /\ M \in [Handle -> Seq(Nat)]
      /\ J[h] = I[g] /\ M[h] = L[g] /\ J[g] = 0 /\ M[g] = <<>>
      /\ \A f \in Handle \ {g, h} : J[f] = I[f] /\ M[f] = L[f]
  <2>1. J \in [Handle -> Nat] /\ J[h] = I[g] /\ J[g] = 0
    BY <1>1
  <2>2. M \in [Handle -> Seq(Nat)]
    <3> DEFINE S == Seq(Nat)
               o == <<>>
    <3>1. o \in S /\ L \in [Handle -> S]
      BY <1>1
    <3> HIDE DEF S, o
    <3>2. [L EXCEPT ![h] = L[g], ![g] = o] \in [Handle -> S]
      BY <3>1
    <3> QED  BY <3>2 DEF S, o
  <2>3. M[h] = L[g] /\ M[g] = <<>>
    BY <1>1
  <2>4. \A f \in Handle \ {g, h} : J[f] = I[f] /\ M[f] = L[f]
    BY <1>1
  <2> QED  BY <2>1, <2>2, <2>3, <2>4
<1> HIDE DEF J, M
<1>3. \A f \in Handle : Holds(p, J[f], M[f])
  <2> SUFFICES ASSUME NEW f \in Handle PROVE Holds(p, J[f], M[f])
    OBVIOUS
  <2>1. CASE f = h
    BY <1>1, <1>2, <2>1
  <2>2. CASE f = g
    BY <1>2, <2>2, ListAssumption DEF Holds
  <2>3. CASE f \in Handle \ {g, h}
    BY <1>1, <1>2, <2>3
  <2> QED  BY <2>1, <2>2, <2>3
<1>4. \A e, f \in Handle : J[e] # 0 /\ J[e] = J[f] => e = f
  <2> DEFINE from(f) == IF f = h THEN g ELSE f
  <2>1. ASSUME NEW f \in Handle, J[f] # 0 PROVE f # g /\ from(f) \in Handle /\ J[f] = I[from(f)]
    BY <1>2, <2>1
  <2> SUFFICES ASSUME NEW e \in Handle, NEW f \in Handle, J[e] # 0, J[e] = J[f] PROVE e = f
    OBVIOUS
  <2>2. from(e) = from(f) /\ e # g /\ f # g
    <3> HIDE DEF from
    <3> QED  BY <1>1, <2>1
  <2> QED  BY <2>2
<1>5. Blocks(J, M, Handle) = Blocks(I, L, Handle)
  <2>1. ASSUME NEW x \in Blocks(J, M, Handle) PROVE x \in Blocks(I, L, Handle)
    <3>1. PICK f \in Handle : J[f] # 0 /\ x = BlockOf(J, M, f)
      BY DEF Blocks
    <3>2. PICK e \in Handle : I[e] # 0 /\ I[e] = J[f] /\ L[e] = M[f]
      <4>1. CASE f = h
        BY <1>2, <3>1, <4>1
      <4>2. CASE f # h
        BY <1>2, <3>1, <4>2
      <4> QED  BY <4>1, <4>2
    <3>3. x = BlockOf(I, L, e)
      BY <3>1, <3>2 DEF BlockOf
    <3> QED  BY <3>2, <3>3 DEF Blocks
  <2>2. ASSUME NEW x \in Blocks(I, L, Handle) PROVE x \in Blocks(J, M, Handle)
    <3>1. PICK e \in Handle : I[e] # 0 /\ x = BlockOf(I, L, e)
      BY DEF Blocks
    <3>2. PICK f \in Handle : J[f] # 0 /\ I[e] = J[f] /\ L[e] = M[f]
      <4>1. CASE e = g
        BY <1>2, <3>1, <4>1
      <4>2. CASE e # g
        BY <1>2, <3>1, <4>2
      <4> QED  BY <4>1, <4>2
    <3>3. x = BlockOf(J, M, f)
      BY <3>1, <3>2 DEF BlockOf
    <3> QED  BY <3>2, <3>3 DEF Blocks
  <2> QED  BY <2>1, <2>2
<1>6. Good(p, J, M)
  BY <1>1, <1>2, <1>3, <1>4, <1>5 DEF Good
<1> QED  BY <1>6 DEF J, M

(***************************************************************************)
(* The specification.                                                      *)
(***************************************************************************)

\* The inductive invariant: the pool is in order and within its bound.
PInv == Good(pool, index, lists) /\ size(pool) <= MaxData

\* The blocks of the lists other than h.
Rest(h) == Blocks(index, lists, Handle \ {h})

\* The list of a handle.
LEMMA HandleList ==
    ASSUME PInv, NEW h \in Handle
    PROVE  /\ List(pool, Rest(h), index[h], lists[h]) /\ len(h) = Len(lists[h])
           /\ lists[h] \in Seq(Nat) /\ Len(lists[h]) \in Nat /\ len(h) \in Nat
           /\ index[h] = 0 => Pool(pool, Rest(h)) /\ lists[h] = <<>>
<1>1. List(pool, Rest(h), index[h], lists[h])
  BY GoodList DEF PInv, Rest
<1>2. /\ len_of(pool, index[h]) = Len(lists[h]) /\ lists[h] \in Seq(Nat) /\ Len(lists[h]) \in Nat
      /\ index[h] = 0 => lists[h] = <<>>
  BY <1>1, ListType
<1>3. index[h] = 0 => Pool(pool, Rest(h))
  BY <1>1 DEF List
<1> QED  BY <1>1, <1>2, <1>3 DEF len

\* What a call that gives the list t leaves.
LEMMA CallInv ==
    ASSUME PInv, NEW h \in Handle, NEW r, NEW t, Gives(pool, Rest(h), r, t), returns(h, r),
           lists' = [lists EXCEPT ![h] = t]
    PROVE  PInv'
<1>1. Good(r.pool, [index EXCEPT ![h] = r.index], [lists EXCEPT ![h] = t])
  BY GoodCall DEF PInv, Rest
<1>2. pool' = r.pool /\ index' = [index EXCEPT ![h] = r.index] /\ size(r.pool) <= MaxData
  BY DEF returns
<1> QED  BY <1>1, <1>2 DEF PInv

\* The slices of a client.
LEMMA SliceType ==
    ASSUME NEW s \in Slices
    PROVE  s \in Seq(Nat) /\ Len(s) \in Nat /\ Len(s) <= MaxLen
<1>1. PICK n \in 0 .. MaxAdd : s \in [1 .. n -> Elem]
  BY DEF Slices
<1>2. n \in Nat /\ n <= MaxLen /\ s \in [1 .. n -> Nat]
  <2>1. MaxLen \in Nat /\ MaxAdd \in Nat /\ MaxAdd <= MaxLen /\ Elem \subseteq Nat
    BY ListAssumption
  <2>2. \A j \in 1 .. n : s[j] \in Nat
    BY <1>1, <2>1
  <2> QED  BY <1>1, <2>1, <2>2
<1>3. s \in Seq(Nat) /\ DOMAIN s = 1 .. n
  BY <1>2, SeqDef
<1>4. Len(s) = n
  BY <1>2, <1>3
<1> QED  BY <1>2, <1>3, <1>4

\* from_slice, alone in a new block.
LEMMA FromSliceInv ==
    ASSUME PInv, NEW h \in Handle, NEW s \in Slices, FromSlice(h, s)
    PROVE  PInv'
<1>1. /\ index[h] = 0 /\ returns(h, from_slice(pool, s))
      /\ lists' = [lists EXCEPT ![h] = lists[h] \o s]
  BY DEF FromSlice, Contract!Extend, Contract!becomes
<1>2. Pool(pool, Rest(h)) /\ lists[h] = <<>> /\ s \in Seq(Nat) /\ Len(s) <= MaxLen
  BY <1>1, HandleList, SliceType
<1>3. lists[h] \o s = s
  BY <1>2, ConcatEmptySeq
<1>4. Gives(pool, Rest(h), from_slice(pool, s), s)
  BY <1>2, FromSliceGives
<1> QED  BY <1>1, <1>3, <1>4, CallInv

\* deep_clone, which copies into a block of its own.
LEMMA DeepCloneInv ==
    ASSUME PInv, NEW h \in Handle, NEW g \in Handle, DeepClone(h, g)
    PROVE  PInv'
<1>1. /\ index[h] = 0 /\ returns(h, from_slice(pool, as_slice(pool, index[g])))
      /\ lists' = [lists EXCEPT ![h] = lists[g]]
  BY DEF DeepClone, deep_clone, Contract!Copy, Contract!becomes
<1>2. as_slice(pool, index[g]) = lists[g] /\ lists[g] \in Seq(Nat) /\ Len(lists[g]) <= MaxLen
  <2>1. List(pool, Rest(g), index[g], lists[g])
    BY HandleList
  <2>2. lists[g] \in Seq(Nat) /\ Len(lists[g]) <= MaxLen
    BY <2>1 DEF List
  <2> QED  BY <2>1, <2>2, ListSlice
<1>3. Pool(pool, Rest(h))
  BY <1>1, HandleList
<1>4. Gives(pool, Rest(h), from_slice(pool, lists[g]), lists[g])
  BY <1>2, <1>3, FromSliceGives
<1> QED  BY <1>1, <1>2, <1>4, CallInv

\* clear frees the block.
LEMMA ClearInv ==
    ASSUME PInv, NEW h \in Handle, Clear(h)
    PROVE  PInv'
<1>1. returns(h, clear(pool, index[h])) /\ lists' = [lists EXCEPT ![h] = <<>>]
  BY DEF Clear, Contract!Drop, Contract!becomes
<1>2. Gives(pool, Rest(h), clear(pool, index[h]), <<>>)
  BY HandleList, ClearGives
<1> QED  BY <1>1, <1>2, CallInv

\* take moves a handle.
LEMMA TakeInv ==
    ASSUME PInv, NEW h \in Handle, NEW g \in Handle, Take(h, g)
    PROVE  PInv'
<1>1. /\ h # g /\ index[h] = 0 /\ pool' = pool
      /\ index' = [index EXCEPT ![h] = index[g], ![g] = 0]
      /\ lists' = [lists EXCEPT ![h] = lists[g], ![g] = <<>>]
  BY DEF Take, Contract!Move
<1>2. Good(pool, [index EXCEPT ![h] = index[g], ![g] = 0],
                 [lists EXCEPT ![h] = lists[g], ![g] = <<>>])
  BY <1>1, GoodTake DEF PInv
<1> QED  BY <1>1, <1>2 DEF PInv

\* push, in place or into a larger block.
LEMMA PushInv ==
    ASSUME PInv, NEW h \in Handle, NEW e \in Elem, Push(h, e)
    PROVE  PInv'
<1>1. /\ len(h) < MaxLen /\ returns(h, push(pool, index[h], e))
      /\ lists' = [lists EXCEPT ![h] = lists[h] \o <<e>>]
  BY DEF Push, Contract!Extend, Contract!becomes
<1>2. List(pool, Rest(h), index[h], lists[h]) /\ Len(lists[h]) < MaxLen /\ e \in Nat
  BY <1>1, HandleList, ListAssumption
<1>3. Gives(pool, Rest(h), push(pool, index[h], e), lists[h] \o <<e>>)
  BY <1>2, PushGives
<1> QED  BY <1>1, <1>3, CallInv

\* extend appends elements.
LEMMA ExtendInv ==
    ASSUME PInv, NEW h \in Handle, NEW s \in Slices, Extend(h, s)
    PROVE  PInv'
<1>1. /\ len(h) + Len(s) <= MaxLen /\ returns(h, extend(pool, index[h], s))
      /\ lists' = [lists EXCEPT ![h] = lists[h] \o s]
  BY DEF Extend, Contract!Extend, Contract!becomes
<1>2. /\ List(pool, Rest(h), index[h], lists[h]) /\ Len(lists[h]) + Len(s) <= MaxLen
      /\ s \in Seq(Nat)
  BY <1>1, HandleList, SliceType
<1>3. Gives(pool, Rest(h), extend(pool, index[h], s), lists[h] \o s)
  BY <1>2, ExtendGives
<1> QED  BY <1>1, <1>3, CallInv

\* insert moves the elements behind it up.
LEMMA InsertInv ==
    ASSUME PInv, NEW h \in Handle, NEW i \in 0 .. len(h), NEW e \in Elem, Insert(h, i, e)
    PROVE  PInv'
<1> DEFINE s == lists[h]
<1>1. /\ len(h) < MaxLen /\ returns(h, insert(pool, index[h], i, e))
      /\ lists' = [lists EXCEPT ![h] = SubSeq(s, 1, i) \o <<e>> \o SubSeq(s, i + 1, Len(s))]
  BY DEF Insert, Contract!Splice, Contract!becomes
<1>2. /\ List(pool, Rest(h), index[h], s) /\ Len(s) < MaxLen /\ e \in Nat
      /\ i \in Nat /\ i <= Len(s)
  BY <1>1, HandleList, ListAssumption
<1> HIDE DEF s
<1>3. Gives(pool, Rest(h), insert(pool, index[h], i, e),
            SubSeq(s, 1, i) \o <<e>> \o SubSeq(s, i + 1, Len(s)))
  BY <1>2, InsertGives
<1> QED  BY <1>1, <1>3, CallInv

\* grow_at opens a gap, which the client fills.
LEMMA GrowAtInv ==
    ASSUME PInv, NEW h \in Handle, NEW i \in 0 .. len(h), NEW v \in Slices, GrowAt(h, i, v)
    PROVE  PInv'
<1> DEFINE s == lists[h]
<1>1. /\ len(h) + Len(v) <= MaxLen
      /\ returns(h, overwritten(grow_at(pool, index[h], i, Len(v)), i, v))
      /\ lists' = [lists EXCEPT ![h] = SubSeq(s, 1, i) \o v \o SubSeq(s, i + 1, Len(s))]
  BY DEF GrowAt, Contract!Splice, Contract!becomes
<1>2. /\ List(pool, Rest(h), index[h], s) /\ Len(s) + Len(v) <= MaxLen /\ v \in Seq(Nat)
      /\ i \in Nat /\ i <= Len(s)
  BY <1>1, HandleList, SliceType
<1> HIDE DEF s
<1>3. Gives(pool, Rest(h), overwritten(grow_at(pool, index[h], i, Len(v)), i, v),
            SubSeq(s, 1, i) \o v \o SubSeq(s, i + 1, Len(s)))
  BY <1>2, SpliceGives
<1> QED  BY <1>1, <1>3, CallInv

\* Elements read from a list by the cells they are in.
LEMMA HoldsCells ==
    ASSUME NEW p, NEW idx, NEW s, Holds(p, idx, s), NEW lo \in Nat, NEW hi \in Nat,
           lo <= hi, hi <= Len(s)
    PROVE  cells(p, idx + lo, hi - lo) = SubSeq(s, lo + 1, hi)
<1> DEFINE m == hi - lo
           v == SubSeq(s, lo + 1, hi)
<1>1. s \in Seq(Nat) /\ Len(s) \in Nat /\ idx \in Nat /\ (idx = 0 => Len(s) = 0) /\ m \in Nat
  BY DEF Holds
<1>2. v \in Seq(Nat) /\ Len(v) = m /\ \A j \in 1 .. m : v[j] = s[lo + j]
  BY <1>1, PartSeq
<1>3. ASSUME NEW j \in 1 .. m PROVE p.data[(idx + lo) + j - 1] = s[lo + j]
  <2>1. idx # 0 /\ lo + j \in 1 .. Len(s) /\ (idx + lo) + j - 1 = idx + (lo + j) - 1
    BY <1>1
  <2> QED  BY <2>1 DEF Holds
<1> HIDE DEF m, v
<1>4. cells(p, idx + lo, m) = [j \in 1 .. m |-> v[j]]
  BY <1>2, <1>3 DEF cells
<1>5. v = [j \in 1 .. m |-> v[j]]
  BY <1>1, <1>2
<1> QED  BY <1>4, <1>5 DEF m, v

\* copy_from inserts a part of another list.
LEMMA CopyFromInv ==
    ASSUME PInv, NEW h \in Handle, NEW i \in 0 .. len(h), NEW g \in Handle \ {h},
           NEW lo \in 0 .. len(g), NEW hi \in 0 .. len(g), CopyFrom(h, g, lo, hi, i)
    PROVE  PInv'
<1> DEFINE s == lists[h]
           v == SubSeq(lists[g], lo + 1, hi)
           n == hi - lo
           r == grow_at(pool, index[h], i, n)
<1>1. /\ lo <= hi /\ len(h) + hi - lo <= MaxLen
      /\ returns(h, overwritten(r, i, cells(r.pool, index[g] + lo, n)))
      /\ lists' = [lists EXCEPT ![h] = SubSeq(s, 1, i) \o v \o SubSeq(s, i + 1, Len(s))]
  BY DEF CopyFrom, copy_from, Contract!Splice, Contract!becomes
<1>2. /\ List(pool, Rest(h), index[h], s) /\ Len(s) \in Nat /\ i \in Nat /\ i <= Len(s)
      /\ len(h) = Len(s)
  BY HandleList
<1>3. /\ len(g) = Len(lists[g]) /\ len(g) \in Nat /\ lists[g] \in Seq(Nat)
  BY HandleList
<1>4. lo \in Nat /\ hi \in Nat /\ lo <= hi /\ hi <= Len(lists[g]) /\ n \in Nat
  BY <1>1, <1>3
<1>5. v \in Seq(Nat) /\ Len(v) = n
  BY <1>3, <1>4, PartSeq
<1>6. Len(s) + n <= MaxLen
  BY <1>1, <1>2, <1>4, ListAssumption
<1> HIDE DEF n, s
<1>7. PICK t : Gives(pool, Rest(h), r, t)
  BY <1>2, <1>4, <1>6, GrowAtGives
<1>8. Keeps(pool, r.pool, Rest(h))
  BY <1>7 DEF Gives
<1>9. Holds(r.pool, index[g], lists[g])
  <2>1. Holds(pool, index[g], lists[g])
    BY DEF PInv, Good
  <2>2. index[g] # 0 => <<index[g] - 1, sclass_for_length(Len(lists[g]))>> \in Rest(h)
    BY DEF Rest, Blocks, BlockOf
  <2> QED  BY <1>8, <2>1, <2>2, HoldsKept
<1> HIDE DEF r
<1>10. cells(r.pool, index[g] + lo, n) = v
  BY <1>4, <1>9, HoldsCells, SMTT(60) DEF n
<1> HIDE DEF v
<1>11. Gives(pool, Rest(h), overwritten(grow_at(pool, index[h], i, Len(v)), i, v),
             SubSeq(s, 1, i) \o v \o SubSeq(s, i + 1, Len(s)))
  <2>1. Len(s) + Len(v) <= MaxLen
    BY <1>5, <1>6
  <2> QED  BY <1>2, <1>5, <2>1, SpliceGives
<1>12. Gives(pool, Rest(h), overwritten(r, i, v), SubSeq(s, 1, i) \o v \o SubSeq(s, i + 1, Len(s)))
  BY <1>5, <1>11 DEF r
<1>13. returns(h, overwritten(r, i, v))
  BY <1>1, <1>10
<1> QED  BY <1>1, <1>12, <1>13, CallInv

\* remove moves the elements behind it down.
LEMMA RemoveInv ==
    ASSUME PInv, NEW h \in Handle, NEW i \in 0 .. len(h), Remove(h, i)
    PROVE  PInv'
<1> DEFINE s == lists[h]
<1>1. /\ i < len(h) /\ returns(h, remove(pool, index[h], i))
      /\ lists' = [lists EXCEPT ![h] = SubSeq(s, 1, (i + 1) - 1) \o SubSeq(s, (i + 1) + 1, Len(s))]
  BY DEF Remove, Contract!Delete, Contract!becomes, Contract!RemoveAt
<1>2. /\ List(pool, Rest(h), index[h], s) /\ len(h) = Len(s) /\ i \in Nat /\ i < Len(s)
      /\ (i + 1) - 1 = i /\ (i + 1) + 1 = i + 2
  BY <1>1, HandleList
<1> HIDE DEF s
<1>3. Gives(pool, Rest(h), remove(pool, index[h], i), SubSeq(s, 1, i) \o SubSeq(s, i + 2, Len(s)))
  BY <1>2, RemoveGives
<1>4. lists' = [lists EXCEPT ![h] = SubSeq(s, 1, i) \o SubSeq(s, i + 2, Len(s))]
  BY <1>1, <1>2
<1> QED  BY <1>1, <1>3, <1>4, CallInv

\* swap_remove puts the last element in the gap.
LEMMA SwapRemoveInv ==
    ASSUME PInv, NEW h \in Handle, NEW i \in 0 .. len(h), SwapRemove(h, i)
    PROVE  PInv'
<1> DEFINE s == lists[h]
           k == i + 1
           w == [s EXCEPT ![k] = s[Len(s)]]
           t == SubSeq(w, 1, Len(w) - 1)
<1>1. /\ i < len(h) /\ returns(h, swap_remove(pool, index[h], i))
      /\ lists' = [lists EXCEPT ![h] = t]
  BY DEF SwapRemove, Contract!SwapDelete, Contract!becomes, Contract!Front, Contract!Last
<1>2. /\ List(pool, Rest(h), index[h], s) /\ s \in Seq(Nat) /\ Len(s) \in Nat
      /\ i \in Nat /\ i < Len(s) /\ k \in 1 .. Len(s) /\ Len(s) \in 1 .. Len(s)
  BY <1>1, HandleList
<1> HIDE DEF s, k
<1>3. w \in Seq(Nat) /\ Len(w) = Len(s) /\ \A j \in 1 .. Len(s) : w[j] = IF j = k THEN s[Len(s)] ELSE s[j]
  <2> DEFINE x == s[Len(s)]
  <2>1. x \in Nat
    BY <1>2
  <2> HIDE DEF x
  <2>2. [s EXCEPT ![k] = x] \in Seq(Nat) /\ Len([s EXCEPT ![k] = x]) = Len(s)
    BY <1>2, <2>1, ExceptSeq
  <2>3. \A j \in 1 .. Len(s) : [s EXCEPT ![k] = x][j] = IF j = k THEN x ELSE s[j]
    BY <1>2
  <2> QED  BY <2>2, <2>3 DEF x
<1> HIDE DEF w
<1>4. t \in Seq(Nat) /\ Len(t) = Len(s) - 1 /\ \A j \in 1 .. Len(t) : t[j] = w[j]
  <2> DEFINE z == 0
             e == Len(w) - 1
  <2>1. z \in Nat /\ e \in Nat /\ z <= e /\ e <= Len(w) /\ z + 1 = 1 /\ e - z = e /\ e = Len(s) - 1
    BY <1>2, <1>3
  <2>2. \A j \in 1 .. e : z + j = j
    OBVIOUS
  <2> HIDE DEF z, e
  <2>3. /\ SubSeq(w, z + 1, e) \in Seq(Nat) /\ Len(SubSeq(w, z + 1, e)) = e - z
        /\ \A j \in 1 .. (e - z) : SubSeq(w, z + 1, e)[j] = w[z + j]
    BY <1>3, <2>1, PartSeq
  <2>4. t = SubSeq(w, z + 1, e)
    BY <2>1 DEF e
  <2> HIDE DEF t
  <2> QED  BY <2>1, <2>2, <2>3, <2>4
<1> HIDE DEF t
<1>5. ASSUME NEW j \in 1 .. Len(t) PROVE t[j] = IF j = i + 1 THEN s[Len(s)] ELSE s[j]
  <2>1. j \in 1 .. Len(s)
    BY <1>2, <1>4
  <2> QED  BY <1>3, <1>4, <2>1 DEF k
<1>6. Gives(pool, Rest(h), swap_remove(pool, index[h], i), t)
  BY <1>2, <1>4, <1>5, SwapRemoveGives
<1> QED  BY <1>1, <1>6, CallInv

\* truncate, down to a smaller block or none.
LEMMA TruncateInv ==
    ASSUME PInv, NEW h \in Handle, NEW n \in 0 .. MaxLen, Truncate(h, n)
    PROVE  PInv'
<1> DEFINE s == lists[h]
           m == IF n < Len(s) THEN n ELSE Len(s)
           t == SubSeq(s, 1, m)
<1>1. returns(h, truncate(pool, index[h], n)) /\ lists' = [lists EXCEPT ![h] = t]
  BY DEF Truncate, Contract!Shorten, Contract!becomes
<1>2. /\ List(pool, Rest(h), index[h], s) /\ s \in Seq(Nat) /\ Len(s) \in Nat
      /\ n \in Nat
  BY HandleList, ListAssumption
<1> HIDE DEF s
<1>3. m \in Nat /\ m <= Len(s)
  BY <1>2
<1>4. t \in Seq(Nat) /\ Len(t) = m /\ \A j \in 1 .. Len(t) : t[j] = s[j]
  <2> DEFINE z == 0
  <2>1. z \in Nat /\ z <= m /\ z + 1 = 1 /\ m - z = m
    BY <1>3
  <2>2. \A j \in 1 .. m : z + j = j
    BY <1>3
  <2> HIDE DEF z, m
  <2>3. /\ SubSeq(s, z + 1, m) \in Seq(Nat) /\ Len(SubSeq(s, z + 1, m)) = m - z
        /\ \A j \in 1 .. (m - z) : SubSeq(s, z + 1, m)[j] = s[z + j]
    BY <1>2, <1>3, <2>1, PartSeq
  <2>4. t = SubSeq(s, z + 1, m)
    BY <2>1
  <2> HIDE DEF t
  <2> QED  BY <2>1, <2>2, <2>3, <2>4
<1> HIDE DEF t
<1>5. Gives(pool, Rest(h), truncate(pool, index[h], n), t)
  BY <1>2, <1>4, TruncateGives
<1> QED  BY <1>1, <1>5, CallInv

\* as_mut_slice writes one element in place.
LEMMA AssignInv ==
    ASSUME PInv, NEW h \in Handle, NEW i \in 0 .. len(h), NEW e \in Elem, Assign(h, i, e)
    PROVE  PInv'
<1> DEFINE s == lists[h]
           k == i + 1
           t == [s EXCEPT ![k] = e]
           v == <<e>>
           q == written(pool, index[h] + i, v)
           r == [pool |-> q, index |-> index[h]]
<1>1. /\ i < len(h) /\ pool' = q /\ index' = index /\ lists' = [lists EXCEPT ![h] = t]
  BY DEF Assign, Contract!Set, Contract!becomes
<1>2. /\ List(pool, Rest(h), index[h], s) /\ s \in Seq(Nat) /\ Len(s) \in Nat
      /\ i \in Nat /\ i < Len(s) /\ k \in 1 .. Len(s) /\ e \in Nat
  BY <1>1, HandleList, ListAssumption
<1>3. v \in Seq(Nat) /\ Len(v) = 1 /\ v[1] = e
  BY <1>2
<1> HIDE DEF s, v, k
<1>4. t \in Seq(Nat) /\ Len(t) = Len(s) /\ \A j \in 1 .. Len(s) : t[j] = IF j = k THEN e ELSE s[j]
  <2>1. t \in Seq(Nat) /\ Len(t) = Len(s)
    BY <1>2, ExceptSeq
  <2>2. \A j \in 1 .. Len(s) : t[j] = IF j = k THEN e ELSE s[j]
    BY <1>2
  <2> QED  BY <2>1, <2>2
<1> HIDE DEF t
<1>5. ASSUME NEW j \in 1 .. Len(s)
      PROVE  t[j] = IF j > i /\ j <= i + Len(v) THEN v[j - i] ELSE s[j]
  <2>1. CASE j = k
    <3>1. j > i /\ j <= i + Len(v) /\ j - i = 1
      BY <1>2, <1>3, <2>1 DEF k
    <3> QED  BY <1>3, <1>4, <2>1, <3>1
  <2>2. CASE j # k
    <3>1. ~(j > i /\ j <= i + Len(v))
      BY <1>2, <1>3, <2>2 DEF k
    <3> QED  BY <1>4, <2>2, <3>1
  <2> QED  BY <2>1, <2>2
<1>6. List(q, Rest(h), index[h], t) /\ Keeps(pool, q, Rest(h))
  <2>1. i + Len(v) <= Len(s)
    BY <1>2, <1>3
  <2> QED  BY <1>2, <1>3, <1>4, <1>5, <2>1, WriteList
<1>7. size(q) = size(pool)
  <2>1. pool \in Pools /\ index[h] + i \in Nat
    <3>1. index[h] \in Nat
      BY <1>2, ListType
    <3>2. pool \in Pools
      BY <1>2, ListInPool
    <3> QED  BY <1>2, <3>1, <3>2
  <2> QED  BY <1>3, <2>1, WrittenType
<1> HIDE DEF q
<1>8. r.pool = q /\ r.index = index[h] /\ Gives(pool, Rest(h), r, t)
  BY <1>6 DEF Gives
<1> HIDE DEF r
<1>9. index \in [Handle -> Nat] /\ size(pool) <= MaxData
  BY DEF PInv, Good
<1>10. returns(h, r)
  <2>1. [index EXCEPT ![h] = index[h]] = index
    BY <1>9
  <2> QED  BY <1>1, <1>7, <1>8, <1>9, <2>1 DEF returns
<1> QED  BY <1>1, <1>8, <1>10, CallInv

\* ListPool::clear, with every list forgotten.
LEMMA PoolClearInv ==
    ASSUME PoolClear
    PROVE  PInv'
<1>1. pool' = new_pool /\ index' = [h \in Handle |-> 0] /\ lists' = [h \in Handle |-> <<>>]
  BY DEF PoolClear, Contract!DropAll
<1>2. Good(pool', index', lists')
  BY <1>1, GoodEmpty
<1>3. size(pool') <= MaxData
  <2>1. DOMAIN new_pool.data = {}
    BY DEF new_pool
  <2>2. size(new_pool) = 0
    BY <2>1, FS_EmptySet DEF size
  <2> QED  BY <1>1, <2>2, ListAssumption
<1> QED  BY <1>2, <1>3 DEF PInv

\* Every call keeps the pool in order.
LEMMA NextInv ==
    ASSUME PInv, [Next]_vars
    PROVE  PInv'
<1>1. CASE PoolClear
  BY <1>1, PoolClearInv
<1>2. ASSUME NEW h \in Handle, NEW s \in Slices, FromSlice(h, s) PROVE PInv'
  BY <1>2, FromSliceInv
<1>3. ASSUME NEW h \in Handle, NEW s \in Slices, Extend(h, s) PROVE PInv'
  BY <1>3, ExtendInv
<1>4. ASSUME NEW h \in Handle, NEW e \in Elem, Push(h, e) PROVE PInv'
  BY <1>4, PushInv
<1>5. ASSUME NEW h \in Handle, Clear(h) PROVE PInv'
  BY <1>5, ClearInv
<1>6. ASSUME NEW h \in Handle, NEW g \in Handle, DeepClone(h, g) \/ Take(h, g) PROVE PInv'
  BY <1>6, DeepCloneInv, TakeInv
<1>7. ASSUME NEW h \in Handle, NEW i \in 0 .. len(h), Remove(h, i) \/ SwapRemove(h, i) PROVE PInv'
  BY <1>7, RemoveInv, SwapRemoveInv
<1>8. ASSUME NEW h \in Handle, NEW i \in 0 .. len(h), NEW e \in Elem, Insert(h, i, e) \/ Assign(h, i, e)
      PROVE  PInv'
  BY <1>8, InsertInv, AssignInv
<1>9. ASSUME NEW h \in Handle, NEW i \in 0 .. len(h), NEW s \in Slices, GrowAt(h, i, s) PROVE PInv'
  BY <1>9, GrowAtInv
<1>10. ASSUME NEW h \in Handle, NEW i \in 0 .. len(h), NEW g \in Handle \ {h},
              NEW lo \in 0 .. len(g), NEW hi \in 0 .. len(g), CopyFrom(h, g, lo, hi, i)
       PROVE  PInv'
  BY <1>10, CopyFromInv
<1>11. ASSUME NEW h \in Handle, NEW n \in 0 .. MaxLen, Truncate(h, n) PROVE PInv'
  BY <1>11, TruncateInv
<1>12. CASE UNCHANGED vars
  BY <1>12 DEF vars, PInv
<1> QED
  BY <1>1, <1>2, <1>3, <1>4, <1>5, <1>6, <1>7, <1>8, <1>9, <1>10, <1>11, <1>12 DEF Next

\* The pool is in order in every state: the blocks of the lists and the blocks of
\* the free lists that run through the vector tile it, and every block holds the
\* length and the elements of its list (alloc, free, realloc of ListPool).
THEOREM PoolInOrder == Spec => []PInv
<1>1. Init => PInv
  <2> SUFFICES ASSUME Init PROVE PInv
    OBVIOUS
  <2>1. pool = new_pool /\ index = [h \in Handle |-> 0] /\ lists = [h \in Handle |-> <<>>]
    BY DEF Init, Contract!Init
  <2>2. Good(pool, index, lists)
    BY <2>1, GoodEmpty
  <2>3. DOMAIN new_pool.data = {}
    BY DEF new_pool
  <2>4. size(new_pool) = 0
    BY <2>3, FS_EmptySet DEF size
  <2> QED  BY <2>1, <2>2, <2>4, ListAssumption DEF PInv
<1>2. PInv /\ [Next]_vars => PInv'
  BY NextInv
<1> QED  BY <1>1, <1>2, PTL DEF Spec

\* Every list reads as what the calls on it alone put there, for any number of
\* lists, elements, sizes and calls (EntityList::as_slice).
THEOREM ListsStayIndependent == Spec => []ListsIndependent
<1>1. PInv => ListsIndependent
  <2> SUFFICES ASSUME PInv, NEW h \in Handle PROVE as_slice(pool, index[h]) = lists[h]
    BY DEF ListsIndependent
  <2>1. List(pool, Rest(h), index[h], lists[h])
    BY HandleList
  <2> QED  BY <2>1, ListSlice
<1> QED  BY <1>1, PoolInOrder, PTL

(***************************************************************************)
(* From the inductive invariant to BlocksTilePool, which walks the free    *)
(* lists.                                                                  *)
(***************************************************************************)

\* A free list has no more blocks than fit into the vector.
LEMMA ChainShort ==
    ASSUME NEW p, NEW U, NEW fb, PoolBy(p, U, fb), size(p) <= MaxData, NEW c \in Class
    PROVE  Len(fb[c]) <= MaxData \div 4
<1> DEFINE s == fb[c]
           N == MaxData \div 4
           F == [i \in 1 .. Len(s) |-> s[i] \div 4]
<1>1. /\ p \in Pools /\ fb \in [Class -> Seq(Nat)] /\ Tiles(p, U \cup FreeOf(fb))
      /\ \A i, j \in DOMAIN s : s[i] = s[j] => i = j
  BY DEF PoolBy, Chain
<1>2. s \in Seq(Nat) /\ Len(s) \in Nat /\ DOMAIN s = 1 .. Len(s)
  BY <1>1
<1>3. size(p) \in Nat /\ MaxData \in Nat /\ N \in Nat
  BY <1>1, PoolType, ListAssumption
<1>4. ASSUME NEW i \in 1 .. Len(s) PROVE s[i] \in Nat /\ s[i] + 4 <= size(p) /\ s[i] \div 4 \in 0 .. (N - 1)
  <2> DEFINE x == <<s[i], c>>
  <2>1. x \in FreeOf(fb) /\ s[i] \in Nat
    BY <1>1, <1>2, FreeBlock
  <2>2. x[1] = s[i]
    OBVIOUS
  <2> HIDE DEF x
  <2>3. x \in Block /\ end(x) <= size(p)
    BY <1>1, <2>1 DEF Tiles
  <2>4. end(x) >= x[1] + 4 /\ end(x) \in Nat
    BY <2>3, BlockType
  <2>5. s[i] + 4 <= size(p)
    BY <1>3, <2>1, <2>2, <2>3, <2>4
  <2> QED  BY <1>3, <2>1, <2>5
<1>5. ASSUME NEW i \in 1 .. Len(s), NEW j \in 1 .. Len(s), s[i] \div 4 = s[j] \div 4
      PROVE  i = j
  <2> DEFINE x == <<s[i], c>>
             y == <<s[j], c>>
  <2>1. x \in FreeOf(fb) /\ y \in FreeOf(fb) /\ s[i] \in Nat /\ s[j] \in Nat
    BY <1>1, <1>2, FreeBlock
  <2>2. x[1] = s[i] /\ y[1] = s[j] /\ (x = y => s[i] = s[j])
    OBVIOUS
  <2> HIDE DEF x, y
  <2>3. x \in Block /\ y \in Block /\ (x = y \/ end(x) <= y[1] \/ end(y) <= x[1])
    BY <1>1, <2>1 DEF Tiles
  <2>4. end(x) >= x[1] + 4 /\ end(x) \in Nat /\ end(y) >= y[1] + 4 /\ end(y) \in Nat
    BY <2>3, BlockType
  <2>5. ~(s[i] + 4 <= s[j]) /\ ~(s[j] + 4 <= s[i])
    BY <1>5, <2>1
  <2>6. x = y
    BY <2>1, <2>2, <2>3, <2>4, <2>5
  <2> QED  BY <1>1, <1>2, <2>2, <2>6
<1> HIDE DEF s, N
<1>6. F \in [1 .. Len(s) -> 0 .. (N - 1)] /\ \A i, j \in 1 .. Len(s) : F[i] = F[j] => i = j
  BY <1>4, <1>5
<1> HIDE DEF F
<1>7. F \in Injection(1 .. Len(s), 0 .. (N - 1))
  BY <1>6, Fun_IsInj
<1>8. IsFiniteSet(0 .. (N - 1)) /\ Cardinality(0 .. (N - 1)) = N
  <2> DEFINE a == 0
             b == N - 1
  <2>1. a \in Int /\ b \in Int
    BY <1>3
  <2>2. IsFiniteSet(a .. b) /\ Cardinality(a .. b) = IF a > b THEN 0 ELSE b - a + 1
    <3> HIDE DEF a, b
    <3> QED  BY <2>1, FS_Interval
  <2> QED  BY <1>3, <2>2
<1>9. Cardinality(1 .. Len(s)) = Len(s)
  <2> DEFINE a == 1
             b == Len(s)
  <2>1. a \in Int /\ b \in Int
    BY <1>2
  <2>2. Cardinality(a .. b) = IF a > b THEN 0 ELSE b - a + 1
    <3> HIDE DEF a, b
    <3> QED  BY <2>1, FS_Interval
  <2> QED  BY <1>2, <2>2
<1>10. Cardinality(1 .. Len(s)) <= Cardinality(0 .. (N - 1))
  BY <1>7, <1>8, FS_Injection
<1> QED  BY <1>8, <1>9, <1>10 DEF s, N

\* The walk along a free list meets its blocks in order.
LEMMA WalkChain ==
    ASSUME NEW c \in Class, NEW s \in Seq(Nat), Chain(pool, c, s)
    PROVE  /\ DOMAIN free_links(c) = 0 .. MaxData \div 4
           /\ \A n \in 0 .. MaxData \div 4 : free_links(c)[n] = link(s, n + 1)
<1> DEFINE D == 0 .. MaxData \div 4
           Step(f, n) == IF n = 0 THEN pool.free[c]
                         ELSE IF f[n - 1] > 0 THEN pool.data[f[n - 1]] ELSE 0
           Walk(f) == f = [n \in D |-> Step(f, n)]
           F == [n \in D |-> link(s, n + 1)]
<1>0. MaxData \div 4 \in Nat /\ Len(s) \in Nat /\ DOMAIN s = 1 .. Len(s)
  BY ListAssumption
<1>1. free_links(c) = CHOOSE f : Walk(f)
  BY DEF free_links
<1>2. \A n \in Nat : /\ n \in DOMAIN s => link(s, n) = s[n] + 1 /\ link(s, n) > 0
                     /\ n \notin DOMAIN s => link(s, n) = 0
  BY <1>0 DEF link
<1>3. ASSUME NEW n \in D, n # 0
      PROVE  link(s, n + 1) = IF link(s, n) > 0 THEN pool.data[link(s, n)] ELSE 0
  <2>1. n \in Nat
    BY <1>0
  <2>2. CASE n \in DOMAIN s
    BY <1>2, <2>1, <2>2 DEF Chain
  <2>3. CASE n \notin DOMAIN s
    <3>1. n + 1 \notin DOMAIN s /\ n + 1 \in Nat
      BY <1>0, <1>3, <2>1, <2>3
    <3> QED  BY <1>2, <2>1, <2>3, <3>1
  <2> QED  BY <2>2, <2>3
<1>4. Walk(F)
  <2>1. ASSUME NEW n \in D PROVE F[n] = Step(F, n)
    <3>1. CASE n = 0
      BY <3>1 DEF Chain
    <3>2. CASE n # 0
      <4>1. n - 1 \in D /\ (n - 1) + 1 = n
        BY <1>0, <3>2
      <4>2. F[n - 1] = link(s, n) /\ F[n] = link(s, n + 1)
        BY <4>1
      <4> HIDE DEF F
      <4> QED  BY <1>3, <3>2, <4>2
    <3> QED  BY <3>1, <3>2
  <2>2. F = [n \in D |-> F[n]]
    OBVIOUS
  <2> HIDE DEF F, Step
  <2> QED  BY <2>1, <2>2
<1> DEFINE G == free_links(c)
<1>5. Walk(G)
  <2> HIDE DEF Walk, F
  <2> QED  BY <1>1, <1>4
<1> HIDE DEF G
<1>6. DOMAIN G = D /\ \A n \in D : G[n] = Step(G, n)
  BY <1>5
<1>7. \A n \in D : G[n] = F[n]
  <2> DEFINE T == {n \in D : G[n] # F[n]}
  <2> SUFFICES ASSUME T # {} PROVE FALSE
    OBVIOUS
  <2>1. T \subseteq Nat
    BY <1>0
  <2>2. PICK n \in T : \A m \in T : n <= m
    BY <2>1, NatMin
  <2>3. n \in D /\ n \in Nat /\ G[n] # F[n] /\ F[n] = link(s, n + 1)
    BY <2>1
  <2>4. CASE n = 0
    BY <1>6, <2>3, <2>4 DEF Chain
  <2>5. CASE n # 0
    <3>1. n - 1 \in D /\ (n - 1) + 1 = n /\ ~(n <= n - 1)
      BY <1>0, <2>3, <2>5
    <3>2. n - 1 \notin T
      BY <2>2, <3>1
    <3>3. G[n - 1] = F[n - 1]
      BY <3>1, <3>2
    <3>4. F[n - 1] = link(s, n)
      BY <3>1
    <3>5. G[n] = IF link(s, n) > 0 THEN pool.data[link(s, n)] ELSE 0
      BY <1>6, <2>3, <2>5, <3>3, <3>4
    <3>6. G[n] = link(s, n + 1)
      BY <1>3, <2>3, <2>5, <3>5
    <3> QED  BY <2>3, <3>6
  <2> QED  BY <2>4, <2>5
<1> QED  BY <1>6, <1>7 DEF G

\* The blocks that BlocksTilePool speaks of, without the owners.
Under(z) == <<z[2], z[3]>>

\* The blocks met on the walks are those of the free lists.
LEMMA FreeBlocks ==
    ASSUME NEW U, NEW fb, PoolBy(pool, U, fb), size(pool) <= MaxData
    PROVE  \A z : z \in free_blocks <=>
              \E c \in Class : \E j \in DOMAIN fb[c] : z = <<j - 1, fb[c][j], c>>
<1>0. fb \in [Class -> Seq(Nat)] /\ MaxData \div 4 \in Nat
  BY ListAssumption DEF PoolBy
<1>1. ASSUME NEW c \in Class
      PROVE  /\ fb[c] \in Seq(Nat) /\ DOMAIN fb[c] = 1 .. Len(fb[c]) /\ Len(fb[c]) \in Nat
             /\ Len(fb[c]) <= MaxData \div 4
             /\ DOMAIN free_links(c) = 0 .. MaxData \div 4
             /\ \A n \in 0 .. MaxData \div 4 : free_links(c)[n] = link(fb[c], n + 1)
  <2>1. fb[c] \in Seq(Nat) /\ Chain(pool, c, fb[c])
    BY <1>0 DEF PoolBy
  <2>2. Len(fb[c]) <= MaxData \div 4
    BY ChainShort
  <2>3. /\ DOMAIN free_links(c) = 0 .. MaxData \div 4
        /\ \A n \in 0 .. MaxData \div 4 : free_links(c)[n] = link(fb[c], n + 1)
    BY <2>1, WalkChain
  <2> QED  BY <2>1, <2>2, <2>3
<1>2. \A z : z \in free_blocks <=>
         \E c \in Class : \E n \in DOMAIN free_links(c) :
            free_links(c)[n] > 0 /\ z = <<n, free_links(c)[n] - 1, c>>
  BY DEF free_blocks
<1>3. ASSUME NEW c \in Class, NEW n \in DOMAIN free_links(c), free_links(c)[n] > 0
      PROVE  /\ n + 1 \in DOMAIN fb[c] /\ (n + 1) - 1 = n
             /\ free_links(c)[n] - 1 = fb[c][n + 1]
  <2>1. n \in 0 .. MaxData \div 4 /\ n \in Nat /\ free_links(c)[n] = link(fb[c], n + 1)
    BY <1>0, <1>1
  <2>2. n + 1 \in DOMAIN fb[c]
    BY <1>3, <2>1 DEF link
  <2>3. fb[c][n + 1] \in Nat
    BY <1>1, <2>2
  <2>4. free_links(c)[n] = fb[c][n + 1] + 1
    BY <2>1, <2>2 DEF link
  <2> QED  BY <2>1, <2>2, <2>3, <2>4
<1>4. ASSUME NEW c \in Class, NEW j \in DOMAIN fb[c]
      PROVE  /\ j - 1 \in DOMAIN free_links(c) /\ free_links(c)[j - 1] > 0
             /\ free_links(c)[j - 1] - 1 = fb[c][j]
  <2>1. j \in 1 .. Len(fb[c]) /\ j - 1 \in 0 .. MaxData \div 4 /\ (j - 1) + 1 = j
    BY <1>0, <1>1
  <2>2. free_links(c)[j - 1] = link(fb[c], j)
    BY <1>1, <2>1
  <2>3. fb[c][j] \in Nat
    BY <1>1, <2>1
  <2>4. free_links(c)[j - 1] = fb[c][j] + 1
    BY <2>2 DEF link
  <2>5. j - 1 \in DOMAIN free_links(c)
    BY <1>1, <2>1
  <2>6. fb[c][j] + 1 > 0 /\ (fb[c][j] + 1) - 1 = fb[c][j]
    BY <2>3
  <2> QED  BY <2>4, <2>5, <2>6
<1>5. ASSUME NEW z, z \in free_blocks
      PROVE  \E c \in Class : \E j \in DOMAIN fb[c] : z = <<j - 1, fb[c][j], c>>
  <2>0. PICK c \in Class : \E n \in DOMAIN free_links(c) :
           free_links(c)[n] > 0 /\ z = <<n, free_links(c)[n] - 1, c>>
    BY <1>2, <1>5
  <2>1. PICK n \in DOMAIN free_links(c) : free_links(c)[n] > 0 /\ z = <<n, free_links(c)[n] - 1, c>>
    BY <2>0
  <2>2. /\ n + 1 \in DOMAIN fb[c] /\ (n + 1) - 1 = n /\ free_links(c)[n] - 1 = fb[c][n + 1]
    BY <1>3, <2>1
  <2>3. z = <<(n + 1) - 1, fb[c][n + 1], c>>
    BY <2>1, <2>2
  <2> QED  BY <2>2, <2>3
<1>6. ASSUME NEW z, NEW c \in Class, NEW j \in DOMAIN fb[c], z = <<j - 1, fb[c][j], c>>
      PROVE  z \in free_blocks
  <2>1. /\ j - 1 \in DOMAIN free_links(c) /\ free_links(c)[j - 1] > 0
        /\ free_links(c)[j - 1] - 1 = fb[c][j]
    BY <1>4
  <2>2. z = <<j - 1, free_links(c)[j - 1] - 1, c>>
    BY <1>6, <2>1
  <2> QED  BY <1>2, <2>1, <2>2
<1> QED  BY <1>5, <1>6

\* The blocks of a pool in order tile it.
LEMMA Tiling ==
    ASSUME PInv
    PROVE  BlocksTilePool
<1> DEFINE U == Blocks(index, lists, Handle)
           blocks == list_blocks \cup free_blocks
<1>1. PICK fb : PoolBy(pool, U, fb)
  BY DEF PInv, Good, Pool
<1> DEFINE B == U \cup FreeOf(fb)
<1>2. /\ pool \in Pools /\ size(pool) \in Nat /\ DOMAIN pool.data = 0 .. (size(pool) - 1)
      /\ size(pool) <= MaxData /\ fb \in [Class -> Seq(Nat)] /\ U \cap FreeOf(fb) = {} /\ Tiles(pool, B)
      /\ \A c \in Class : \A i, j \in DOMAIN fb[c] : fb[c][i] = fb[c][j] => i = j
  <2>1. pool \in Pools
    BY <1>1 DEF PoolBy
  <2>2. /\ size(pool) <= MaxData /\ fb \in [Class -> Seq(Nat)] /\ U \cap FreeOf(fb) = {} /\ Tiles(pool, B)
        /\ \A c \in Class : \A i, j \in DOMAIN fb[c] : fb[c][i] = fb[c][j] => i = j
    BY <1>1 DEF PoolBy, PInv, Chain
  <2> QED  BY <2>1, <2>2, PoolType
<1>3. \A z : z \in free_blocks <=> \E c \in Class : \E j \in DOMAIN fb[c] : z = <<j - 1, fb[c][j], c>>
  BY <1>1, <1>2, FreeBlocks
<1>4. \A h \in Handle : len(h) = Len(lists[h])
  BY HandleList
<1>5. \A z : z \in list_blocks <=>
         \E h \in Handle : index[h] # 0 /\ z = <<h, index[h] - 1, sclass_for_length(Len(lists[h]))>>
  BY <1>4 DEF list_blocks, in_use
<1>6. \A x : x \in U <=>
         \E h \in Handle : index[h] # 0 /\ x = <<index[h] - 1, sclass_for_length(Len(lists[h]))>>
  BY DEF Blocks, BlockOf
<1>7. \A x : x \in FreeOf(fb) <=> \E c \in Class : \E j \in DOMAIN fb[c] : x = <<fb[c][j], c>>
  <2>1. ASSUME NEW x, x \in FreeOf(fb)
        PROVE  \E c \in Class : \E j \in DOMAIN fb[c] : x = <<fb[c][j], c>>
    BY <2>1 DEF FreeOf, Block
  <2>2. ASSUME NEW x, NEW c \in Class, NEW j \in DOMAIN fb[c], x = <<fb[c][j], c>>
        PROVE  x \in FreeOf(fb)
    BY <1>2, <2>2, FreeBlock
  <2> QED  BY <2>1, <2>2
<1> HIDE DEF U
<1>8. ASSUME NEW z \in list_blocks
      PROVE  Under(z) \in U
  BY <1>5, <1>6 DEF Under
<1>9. ASSUME NEW z \in free_blocks
      PROVE  Under(z) \in FreeOf(fb)
  BY <1>3, <1>7 DEF Under
<1>10. ASSUME NEW z \in list_blocks, NEW y \in list_blocks, Under(z) = Under(y)
       PROVE  z = y
  <2>1. PICK h \in Handle : index[h] # 0 /\ z = <<h, index[h] - 1, sclass_for_length(Len(lists[h]))>>
    BY <1>5
  <2>2. PICK g \in Handle : index[g] # 0 /\ y = <<g, index[g] - 1, sclass_for_length(Len(lists[g]))>>
    BY <1>5
  <2>3. index[h] - 1 = index[g] - 1
    BY <1>10, <2>1, <2>2 DEF Under
  <2>4. index[h] \in Nat /\ index[g] \in Nat
    BY DEF PInv, Good
  <2>5. index[h] = index[g]
    BY <2>3, <2>4
  <2>6. h = g
    BY <2>1, <2>5 DEF PInv, Good
  <2> QED  BY <2>1, <2>2, <2>6
<1>11. ASSUME NEW z \in free_blocks, NEW y \in free_blocks, Under(z) = Under(y)
       PROVE  z = y
  <2>0. /\ \E c \in Class : \E i \in DOMAIN fb[c] : z = <<i - 1, fb[c][i], c>>
        /\ \E d \in Class : \E j \in DOMAIN fb[d] : y = <<j - 1, fb[d][j], d>>
    BY <1>3
  <2>1a. PICK c \in Class : \E i \in DOMAIN fb[c] : z = <<i - 1, fb[c][i], c>>
    BY <2>0
  <2>1. PICK i \in DOMAIN fb[c] : z = <<i - 1, fb[c][i], c>>
    BY <2>1a
  <2>2a. PICK d \in Class : \E j \in DOMAIN fb[d] : y = <<j - 1, fb[d][j], d>>
    BY <2>0
  <2>2. PICK j \in DOMAIN fb[d] : y = <<j - 1, fb[d][j], d>>
    BY <2>2a
  <2>3. c = d /\ fb[c][i] = fb[d][j]
    BY <1>11, <2>1, <2>2 DEF Under
  <2>4. i = j
    BY <1>2, <2>3
  <2> QED  BY <2>1, <2>2, <2>3, <2>4
<1>12. ASSUME NEW z \in blocks, NEW y \in blocks, Under(z) = Under(y)
       PROVE  z = y
  <2>1. CASE z \in list_blocks /\ y \in list_blocks
    BY <1>10, <1>12, <2>1
  <2>2. CASE z \in free_blocks /\ y \in free_blocks
    BY <1>11, <1>12, <2>2
  <2>3. CASE z \in list_blocks /\ y \in free_blocks
    BY <1>2, <1>8, <1>9, <1>12, <2>3
  <2>4. CASE z \in free_blocks /\ y \in list_blocks
    BY <1>2, <1>8, <1>9, <1>12, <2>4
  <2> QED  BY <2>1, <2>2, <2>3, <2>4
<1>13. ASSUME NEW x \in B PROVE \E z \in blocks : Under(z) = x
  <2>1. CASE x \in U
    <3>1. PICK h \in Handle : index[h] # 0 /\ x = <<index[h] - 1, sclass_for_length(Len(lists[h]))>>
      BY <1>6, <2>1
    <3> DEFINE z == <<h, index[h] - 1, sclass_for_length(Len(lists[h]))>>
    <3>2. z \in list_blocks /\ Under(z) = x
      BY <1>5, <3>1 DEF Under
    <3> QED  BY <3>2
  <2>2. CASE x \in FreeOf(fb)
    <3>0. PICK c \in Class : \E j \in DOMAIN fb[c] : x = <<fb[c][j], c>>
      BY <1>7, <2>2
    <3>1. PICK j \in DOMAIN fb[c] : x = <<fb[c][j], c>>
      BY <3>0
    <3> DEFINE z == <<j - 1, fb[c][j], c>>
    <3>2. z \in free_blocks /\ Under(z) = x
      BY <1>3, <3>1 DEF Under
    <3> QED  BY <3>2
  <2> QED  BY <2>1, <2>2
<1>14. ASSUME NEW z \in blocks
       PROVE  /\ Under(z) \in B /\ z[2] \in Nat /\ Under(z)[1] = z[2]
              /\ end(Under(z)) = z[2] + sclass_size[z[3]] /\ z[2] + sclass_size[z[3]] \in Nat
              /\ sclass_size[z[3]] \in Nat
  <2>1. Under(z) \in B
    BY <1>8, <1>9
  <2>2. Under(z) \in Block
    BY <1>2, <2>1 DEF Tiles
  <2>3. Under(z)[1] = z[2] /\ Under(z)[2] = z[3]
    BY DEF Under
  <2>4. Under(z)[1] \in Nat /\ end(Under(z)) \in Nat /\ Under(z)[2] \in Class
    BY <2>2, BlockType
  <2>5. sclass_size[z[3]] \in Nat
    BY <2>3, <2>4, ClassType
  <2> QED  BY <2>1, <2>3, <2>4, <2>5 DEF end
<1> HIDE DEF blocks, B
<1>15. \A h \in in_use : len(h) \in 1 .. MaxLen
  <2> SUFFICES ASSUME NEW h \in Handle, index[h] # 0 PROVE Len(lists[h]) \in 1 .. MaxLen
    BY <1>4 DEF in_use
  <2>1. List(pool, Rest(h), index[h], lists[h])
    BY HandleList
  <2> QED  BY <2>1, ListType
<1>16. \A z \in blocks : z[2] + sclass_size[z[3]] <= size(pool)
  BY <1>2, <1>14 DEF Tiles
<1>17. ASSUME NEW i \in DOMAIN pool.data
       PROVE  \E z \in blocks :
                 /\ i \in z[2] .. (z[2] + sclass_size[z[3]] - 1)
                 /\ \A y \in blocks \ {z} : i \notin y[2] .. (y[2] + sclass_size[y[3]] - 1)
  <2>1. i \in 0 .. (size(pool) - 1) /\ i \in Nat
    BY <1>2
  <2>2. PICK x \in B : x[1] <= i /\ i < end(x)
    BY <1>2, <2>1 DEF Tiles
  <2>3. PICK z \in blocks : Under(z) = x
    BY <1>13
  <2>4. i \in z[2] .. (z[2] + sclass_size[z[3]] - 1)
    <3> DEFINE a == z[2]
               e == z[2] + sclass_size[z[3]]
    <3>1. a \in Nat /\ e \in Nat /\ a <= i /\ i < e
      BY <1>14, <2>2, <2>3
    <3> HIDE DEF a, e
    <3>2. i \in a .. (e - 1)
      BY <2>1, <3>1
    <3> QED  BY <1>14, <3>2 DEF a, e
  <2>5. ASSUME NEW y \in blocks \ {z} PROVE i \notin y[2] .. (y[2] + sclass_size[y[3]] - 1)
    <3>1. Under(y) # x /\ Under(y) \in B
      BY <1>12, <1>14, <2>3
    <3>2. end(x) <= Under(y)[1] \/ end(Under(y)) <= x[1]
      BY <1>2, <3>1 DEF Tiles
    <3>3. x[1] \in Nat /\ end(x) \in Nat
      BY <1>14, <2>3
    <3>4. y[2] \in Nat /\ y[2] + sclass_size[y[3]] \in Nat /\ Under(y)[1] = y[2]
          /\ end(Under(y)) = y[2] + sclass_size[y[3]]
      BY <1>14
    <3> DEFINE a == y[2]
               e == y[2] + sclass_size[y[3]]
    <3>5. a \in Nat /\ e \in Nat /\ (end(x) <= a \/ e <= x[1])
      BY <3>2, <3>4
    <3> HIDE DEF a, e
    <3>6. i \notin a .. (e - 1)
      BY <2>1, <2>2, <3>3, <3>5
    <3> QED  BY <1>14, <3>6 DEF a, e
  <2> QED  BY <2>4, <2>5
<1> QED  BY <1>15, <1>16, <1>17 DEF BlocksTilePool, blocks

\* No cell of the pool has two owners or none: the blocks of the lists and of the
\* free lists tile it, no free list runs in circles, and nothing leaks, after any
\* sequence of calls (alloc, free and realloc of ListPool).
THEOREM BlocksAlwaysTile == Spec => []BlocksTilePool
BY Tiling, PoolInOrder, PTL

=============================================================================
