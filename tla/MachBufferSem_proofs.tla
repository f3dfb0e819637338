------------------------ MODULE MachBufferSem_proofs ------------------------
(***************************************************************************)
(* Whatever a client calls, the code in the buffer runs like the client's  *)
(* listing.                                                                *)
(*                                                                         *)
(* A run is followed backwards: `ends' leads from a step to the end x just *)
(* when the step is in the least set that is closed under "leads to x"     *)
(* (Reaches).  Edits are then compared by such sets, with no induction     *)
(* over the length of a run: Shortcut, Continues and Rename say what       *)
(* passing over a jump, adding a position and turning one end into another *)
(* one do.                                                                 *)
(* The invariant SemInv says that buffer and listing are alike from the    *)
(* entry, from every label and behind every instruction (OInv), and what   *)
(* the items and their label uses look like (CInv).                        *)
(***************************************************************************)
EXTENDS MachBufferSem, MachBuffer_proofs, WellFoundedInduction

(***************************************************************************)
(* Following steps.                                                        *)
(***************************************************************************)

\* Every set of natural numbers but the empty one has a least element.
LEMMA NatMin ==
    ASSUME NEW T, T \subseteq Nat, T # {}
    PROVE  \E x \in T : \A y \in T : x <= y
<1> DEFINE R == {ss \in Nat \X Nat : ss[1] < ss[2]}
<1>1. OpToRel(<, Nat) = R
  BY Zenon DEF OpToRel
<1>2. IsWellFoundedOn(R, Nat)
  BY <1>1, NatLessThanWellFounded
<1>3. \E x \in T : \A y \in T : ~(<<y, x>> \in R)
  <2> HIDE DEF R
  <2> QED  BY <1>2, WFMin
<1>4. PICK x \in T : \A y \in T : ~(<<y, x>> \in R)
  BY <1>3
<1>5. ASSUME NEW y \in T PROVE x <= y
  <2>1. ~(<<y, x>> \in R)
    BY <1>4
  <2>2. x \in Nat /\ y \in Nat
    OBVIOUS
  <2>3. ~(y < x)
    BY <2>1, <2>2
  <2> QED  BY <2>2, <2>3
<1> QED  BY <1>5

\* Induction on the numbers up to n.
LEMMA UpTo ==
    ASSUME NEW n \in Nat, NEW S, 0 \in S,
           \A k \in 0 .. (n - 1) : k \in S => k + 1 \in S
    PROVE  \A k \in 0 .. n : k \in S
<1> DEFINE T == {k \in 0 .. n : k \notin S}
<1> SUFFICES ASSUME T # {} PROVE FALSE
  OBVIOUS
<1>1. T \subseteq Nat
  OBVIOUS
<1>2. PICK m \in T : \A k \in T : m <= k
  BY <1>1, NatMin
<1>3. m \in 0 .. n /\ m \notin S /\ m # 0
  OBVIOUS
<1>4. m - 1 \in 0 .. (n - 1) /\ m - 1 \in 0 .. n /\ (m - 1) + 1 = m /\ ~(m <= m - 1)
  BY <1>3
<1>5. m - 1 \in S
  <2> SUFFICES ASSUME m - 1 \notin S PROVE FALSE
    OBVIOUS
  <2>1. m - 1 \in T
    BY <1>4
  <2> QED  BY <1>2, <1>4, <2>1
<1> QED  BY <1>3, <1>4, <1>5

\* A step among n positions, and a table of such steps.
IsStep(s, n) ==
    /\ s = [does |-> s.does, at |-> s.at] /\ s.does # "loop"
    /\ s.does = "goto" => s.at \in 1 .. n
IsNext(next, n) ==
    /\ n \in Nat /\ DOMAIN next = 1 .. n /\ Len(next) = n
    /\ \A i \in 1 .. n : IsStep(next[i], n)

\* An outcome of a run that comes to an end.
IsEnd(x) == x.does # "goto" /\ x.does # "loop"

\* R has the positions that come to x at once or through R.
ClosedFor(next, x, R) ==
    \A i \in DOMAIN next : next[i] = x \/ (next[i].does = "goto" /\ next[i].at \in R) => i \in R

\* The positions that lead to x.
Reaches(next, x) ==
    {i \in DOMAIN next : \A R \in SUBSET DOMAIN next : ClosedFor(next, x, R) => i \in R}
Leads(next, s, x) == s = x \/ (s.does = "goto" /\ s.at \in Reaches(next, x))

\* They are the least such set.
LEMMA ReachesLeast ==
    ASSUME NEW next, NEW x, NEW R \in SUBSET DOMAIN next, ClosedFor(next, x, R)
    PROVE  Reaches(next, x) \subseteq R
BY DEF Reaches

\* A position leads where its step does.
LEMMA ReachesStep ==
    ASSUME NEW next, NEW x, NEW i \in DOMAIN next
    PROVE  i \in Reaches(next, x) <=> Leads(next, next[i], x)
<1>1. ASSUME NEW j \in DOMAIN next, Leads(next, next[j], x) PROVE j \in Reaches(next, x)
  <2> SUFFICES ASSUME NEW R \in SUBSET DOMAIN next, ClosedFor(next, x, R) PROVE j \in R
    BY DEF Reaches
  <2>1. Reaches(next, x) \subseteq R
    BY ReachesLeast
  <2> QED  BY <1>1, <2>1 DEF Leads, ClosedFor
<1>2. ASSUME i \in Reaches(next, x) PROVE Leads(next, next[i], x)
  <2> DEFINE R == {j \in DOMAIN next : Leads(next, next[j], x)}
  <2>1. R \in SUBSET DOMAIN next
    OBVIOUS
  <2>2. ClosedFor(next, x, R)
    <3> SUFFICES ASSUME NEW j \in DOMAIN next,
                        next[j] = x \/ (next[j].does = "goto" /\ next[j].at \in R)
                 PROVE  Leads(next, next[j], x)
      BY DEF ClosedFor
    <3>1. CASE next[j] = x
      BY <3>1 DEF Leads
    <3>2. CASE next[j].does = "goto" /\ next[j].at \in R
      <4>1. next[j].at \in Reaches(next, x)
        BY <1>1, <3>2
      <4> QED  BY <3>2, <4>1 DEF Leads
    <3> QED  BY <3>1, <3>2
  <2> HIDE DEF R
  <2>3. i \in R
    BY <1>2, <2>1, <2>2, ReachesLeast
  <2> QED  BY <2>3 DEF R
<1> QED  BY <1>1, <1>2

\* No position leads to two ends.
LEMMA OneEnd ==
    ASSUME NEW next, NEW x, NEW y, IsEnd(x), IsEnd(y), x # y, NEW s, Leads(next, s, x)
    PROVE  ~Leads(next, s, y)
<1> DEFINE R == {i \in DOMAIN next : i \notin Reaches(next, y)}
<1>1. ClosedFor(next, x, R)
  <2> SUFFICES ASSUME NEW i \in DOMAIN next,
                      next[i] = x \/ (next[i].does = "goto" /\ next[i].at \in R)
               PROVE  i \notin Reaches(next, y)
    BY DEF ClosedFor
  <2> QED  BY ReachesStep DEF Leads, IsEnd
<1>2. Reaches(next, x) \subseteq R
  BY <1>1, ReachesLeast
<1> QED  BY <1>2 DEF Leads, IsEnd

\* r is the recursion of ends, up to n.
RunOf(r, next, n) ==
    r = [k \in 0 .. n |->
            [i \in DOMAIN next |->
                IF next[i].does # "goto" THEN next[i]
                ELSE IF k = 0 THEN loop ELSE r[k - 1][next[i].at]]]

\* It has a solution.
LEMMA RunExists ==
    ASSUME NEW next, NEW n \in Nat
    PROVE  \E r : RunOf(r, next, n)
<1> DEFINE row(q, k) == [i \in DOMAIN next |->
                IF next[i].does # "goto" THEN next[i]
                ELSE IF k = 0 THEN loop ELSE q[next[i].at]]
           S == {m \in Nat : \E r : RunOf(r, next, m)}
<1>0. \A r, m : RunOf(r, next, m) <=> r = [k \in 0 .. m |-> row(r[k - 1], k)]
  BY DEF RunOf
<1> HIDE DEF row
<1>1. 0 \in S
  <2> DEFINE r == [k \in 0 .. 0 |-> row(0, 0)]
  <2>1. row(r[0 - 1], 0) = row(0, 0)
    BY DEF row
  <2>2. r = [k \in 0 .. 0 |-> row(r[k - 1], k)]
    <3>1. \A k \in 0 .. 0 : k = 0
      OBVIOUS
    <3>2. \A k \in 0 .. 0 : row(r[k - 1], k) = row(0, 0)
      BY <2>1, <3>1
    <3> HIDE DEF r
    <3> QED  BY <3>2 DEF r
  <2> HIDE DEF r
  <2> QED  BY <1>0, <2>2
<1>2. ASSUME NEW m \in 0 .. (n - 1), m \in S PROVE m + 1 \in S
  <2>1. PICK g : RunOf(g, next, m)
    BY <1>2
  <2>2. g = [k \in 0 .. m |-> row(g[k - 1], k)]
    BY <1>0, <2>1
  <2> DEFINE top == row(g[m], m + 1)
             G == [k \in 0 .. (m + 1) |-> IF k = m + 1 THEN top ELSE g[k]]
  <2> HIDE DEF top
  <2>3. ASSUME NEW k \in 0 .. (m + 1) PROVE G[k] = row(G[k - 1], k)
    <3>1. CASE k = m + 1
      <4>1. G[k] = top /\ k - 1 = m /\ G[m] = g[m]
        BY <3>1
      <4> HIDE DEF G
      <4> QED  BY <3>1, <4>1 DEF top
    <3>2. CASE k # m + 1 /\ k # 0
      <4>1. k \in 0 .. m /\ k - 1 \in 0 .. (m + 1) /\ k - 1 # m + 1
        BY <3>2
      <4>2. G[k] = g[k] /\ G[k - 1] = g[k - 1]
        BY <3>2, <4>1
      <4> HIDE DEF G
      <4> QED  BY <2>2, <4>1, <4>2
    <3>3. CASE k = 0
      <4>1. G[0] = g[0] /\ 0 \in 0 .. m
        BY <3>3
      <4>2. g[0] = row(g[0 - 1], 0)
        BY <2>2, <4>1
      <4>3. row(g[0 - 1], 0) = row(G[0 - 1], 0)
        BY DEF row
      <4> HIDE DEF G
      <4> QED  BY <3>3, <4>1, <4>2, <4>3
    <3> QED  BY <3>1, <3>2, <3>3
  <2>4. G = [k \in 0 .. (m + 1) |-> G[k]]
    OBVIOUS
  <2> HIDE DEF G
  <2>5. G = [k \in 0 .. (m + 1) |-> row(G[k - 1], k)]
    BY <2>3, <2>4
  <2>6. RunOf(G, next, m + 1)
    BY <1>0, <2>5
  <2> QED  BY <2>6
<1>3. n \in S
  <2>1. n \in 0 .. n
    OBVIOUS
  <2> HIDE DEF S
  <2> QED  BY <1>1, <1>2, <2>1, UpTo
<1> QED  BY <1>3

\* What n steps find is what is reached, and n steps are enough: with every
\* further step at least one more position leads to x, or none ever will.
LEMMA RunFacts ==
    ASSUME NEW n, NEW next, IsNext(next, n), NEW r, RunOf(r, next, n),
           NEW i \in 1 .. n
    PROVE  /\ \A x : IsEnd(x) => (r[n][i] = x <=> i \in Reaches(next, x))
           /\ r[n][i] = loop \/ IsEnd(r[n][i])
<1>1. n \in Nat /\ DOMAIN next = 1 .. n
  BY DEF IsNext
<1>2. ASSUME NEW k \in 0 .. n, NEW j \in 1 .. n
      PROVE  r[k][j] = IF next[j].does # "goto" THEN next[j]
                       ELSE IF k = 0 THEN loop ELSE r[k - 1][next[j].at]
  <2> DEFINE row(q, h) == [g \in DOMAIN next |->
                IF next[g].does # "goto" THEN next[g]
                ELSE IF h = 0 THEN loop ELSE q[next[g].at]]
  <2>1. r = [h \in 0 .. n |-> row(r[h - 1], h)]
    BY DEF RunOf
  <2> HIDE DEF row
  <2>2. r[k] = row(r[k - 1], k)
    BY <2>1
  <2> QED  BY <1>1, <2>2 DEF row
<1>3. ASSUME NEW j \in 1 .. n
      PROVE  /\ next[j].does = "goto" => next[j].at \in 1 .. n
             /\ next[j].does # "goto" => IsEnd(next[j])
  BY DEF IsNext, IsStep, IsEnd
<1>4. r[n][i] = loop \/ IsEnd(r[n][i])
  <2> DEFINE S == {k \in 0 .. n : \A j \in 1 .. n : r[k][j] = loop \/ IsEnd(r[k][j])}
  <2>1. 0 \in S
    BY <1>1, <1>2, <1>3
  <2>2. ASSUME NEW k \in 0 .. (n - 1), k \in S PROVE k + 1 \in S
    <3>1. k + 1 \in 0 .. n /\ (k + 1) - 1 = k /\ k + 1 # 0
      BY <1>1
    <3> SUFFICES ASSUME NEW j \in 1 .. n PROVE r[k + 1][j] = loop \/ IsEnd(r[k + 1][j])
      BY <3>1
    <3>2. \A h \in 1 .. n : r[k][h] = loop \/ IsEnd(r[k][h])
      BY <2>2
    <3> HIDE DEF S
    <3>3. r[k + 1][j] = IF next[j].does # "goto" THEN next[j] ELSE r[k][next[j].at]
      BY <1>2, <3>1
    <3> QED  BY <1>3, <3>2, <3>3
  <2>3. n \in 0 .. n
    BY <1>1
  <2> HIDE DEF S
  <2>4. n \in S
    BY <1>1, <2>1, <2>2, <2>3, UpTo
  <2> QED  BY <2>4 DEF S
<1>5. ASSUME NEW x, IsEnd(x)
      PROVE  r[n][i] = x <=> i \in Reaches(next, x)
  <2> DEFINE T(k) == {j \in 1 .. n : r[k][j] = x}
  <2>1. x # loop /\ x.does # "goto"
    BY <1>5 DEF IsEnd, loop, step
  <2>2. T(0) = {j \in 1 .. n : next[j] = x}
    BY <1>1, <1>2, <2>1
  <2>3. ASSUME NEW k \in 0 .. (n - 1)
        PROVE  T(k + 1) = {j \in 1 .. n : next[j] = x \/ (next[j].does = "goto" /\ next[j].at \in T(k))}
    <3>1. k + 1 \in 0 .. n /\ (k + 1) - 1 = k /\ k + 1 # 0
      BY <1>1
    <3>2. \A j \in 1 .. n : r[k + 1][j] = IF next[j].does # "goto" THEN next[j] ELSE r[k][next[j].at]
      BY <1>2, <3>1
    <3> QED  BY <1>3, <2>1, <3>2
  <2> HIDE DEF T
  <2>4. \A k \in 0 .. n : T(k) \subseteq Reaches(next, x)
    <3> DEFINE S == {k \in 0 .. n : T(k) \subseteq Reaches(next, x)}
    <3>1. 0 \in S
      <4>1. T(0) \subseteq Reaches(next, x)
        BY <1>1, <2>2, ReachesStep DEF Leads
      <4> QED  BY <1>1, <4>1
    <3>2. ASSUME NEW k \in 0 .. (n - 1), k \in S PROVE k + 1 \in S
      <4>1. T(k) \subseteq Reaches(next, x)
        BY <3>2
      <4>2. k + 1 \in 0 .. n
        BY <1>1
      <4>3. T(k + 1) \subseteq Reaches(next, x)
        <5> HIDE DEF S
        <5> SUFFICES ASSUME NEW j \in T(k + 1) PROVE j \in Reaches(next, x)
          OBVIOUS
        <5>1. j \in DOMAIN next
          BY <1>1, <2>3
        <5>2. Leads(next, next[j], x)
          BY <2>3, <4>1 DEF Leads
        <5> QED  BY <5>1, <5>2, ReachesStep
      <4> QED  BY <4>2, <4>3
    <3> HIDE DEF S
    <3>3. \A k \in 0 .. n : k \in S
      BY <1>1, <3>1, <3>2, UpTo
    <3> QED  BY <3>3 DEF S
  <2>5. \A k \in 0 .. (n - 1) : T(k) \subseteq T(k + 1)
    <3> DEFINE S == {k \in 0 .. n : k < n => T(k) \subseteq T(k + 1)}
    <3>1. 0 \in S
      <4>1. 0 < n => T(0) \subseteq T(0 + 1)
        BY <1>1, <2>2, <2>3
      <4> QED  BY <1>1, <4>1
    <3>2. ASSUME NEW k \in 0 .. (n - 1), k \in S PROVE k + 1 \in S
      <4>1. T(k) \subseteq T(k + 1) /\ k + 1 \in 0 .. n
        BY <1>1, <3>2
      <4>2. k + 1 < n => T(k + 1) \subseteq T((k + 1) + 1)
        <5> HIDE DEF S
        <5> SUFFICES ASSUME k + 1 < n PROVE T(k + 1) \subseteq T((k + 1) + 1)
          OBVIOUS
        <5>1. k + 1 \in 0 .. (n - 1)
          BY <1>1
        <5> QED  BY <2>3, <4>1, <5>1
      <4> QED  BY <4>1, <4>2
    <3> HIDE DEF S
    <3>3. \A k \in 0 .. n : k \in S
      BY <1>1, <3>1, <3>2, UpTo
    <3> QED  BY <1>1, <3>3 DEF S
  <2>6. \A h \in 0 .. n : T(h) \subseteq T(n)
    <3> SUFFICES ASSUME NEW h \in 0 .. n PROVE T(h) \subseteq T(n)
      OBVIOUS
    <3> DEFINE S == {k \in 0 .. n : h <= k => T(h) \subseteq T(k)}
    <3>1. 0 \in S
      <4>1. h <= 0 => h = 0
        BY <1>1
      <4> QED  BY <1>1, <4>1
    <3>2. ASSUME NEW k \in 0 .. (n - 1), k \in S PROVE k + 1 \in S
      <4>1. k + 1 \in 0 .. n /\ (h <= k + 1 => h = k + 1 \/ h <= k)
        BY <1>1
      <4>2. h <= k + 1 => T(h) \subseteq T(k + 1)
        BY <2>5, <3>2, <4>1
      <4> QED  BY <4>1, <4>2
    <3> HIDE DEF S
    <3>3. \A k \in 0 .. n : k \in S
      BY <1>1, <3>1, <3>2, UpTo
    <3> QED  BY <1>1, <3>3 DEF S
  <2>7. Reaches(next, x) \subseteq T(n)
    <3>1. CASE \E k \in 0 .. (n - 1) : T(k + 1) = T(k)
      <4>1. PICK k \in 0 .. (n - 1) : T(k + 1) = T(k)
        BY <3>1
      <4>2. T(k) \in SUBSET DOMAIN next
        BY <1>1 DEF T
      <4>3. ClosedFor(next, x, T(k))
        BY <1>1, <2>3, <4>1 DEF ClosedFor
      <4>4. Reaches(next, x) \subseteq T(k)
        BY <4>2, <4>3, ReachesLeast
      <4> QED  BY <1>1, <2>6, <4>4
    <3>2. CASE \A k \in 0 .. (n - 1) : T(k + 1) # T(k)
      <4>1. IsFiniteSet(1 .. n) /\ Cardinality(1 .. n) = n
        BY <1>1, FS_Interval
      <4>2. \A k \in 0 .. n : /\ T(k) \in SUBSET (1 .. n) /\ IsFiniteSet(T(k))
                              /\ Cardinality(T(k)) \in Nat /\ Cardinality(T(k)) <= n
        <5> SUFFICES ASSUME NEW k \in 0 .. n
                     PROVE  /\ T(k) \in SUBSET (1 .. n) /\ IsFiniteSet(T(k))
                            /\ Cardinality(T(k)) \in Nat /\ Cardinality(T(k)) <= n
          OBVIOUS
        <5>1. T(k) \in SUBSET (1 .. n)
          BY DEF T
        <5>2. IsFiniteSet(T(k)) /\ Cardinality(T(k)) <= n
          BY <4>1, <5>1, FS_Subset
        <5> QED  BY <5>1, <5>2, FS_CardinalityType
      <4> DEFINE S == {k \in 0 .. n : k <= Cardinality(T(k))}
      <4>3. 0 \in S
        BY <1>1, <4>2
      <4>4. ASSUME NEW k \in 0 .. (n - 1), k \in S PROVE k + 1 \in S
        <5>1. k \in 0 .. n /\ k + 1 \in 0 .. n
          BY <1>1
        <5>2. T(k) \in SUBSET T(k + 1) /\ T(k) # T(k + 1)
          BY <2>5, <3>2
        <5>3. /\ Cardinality(T(k)) <= Cardinality(T(k + 1))
              /\ Cardinality(T(k + 1)) = Cardinality(T(k)) => T(k + 1) = T(k)
          BY <4>2, <5>1, <5>2, FS_Subset
        <5>4. PICK c \in Nat : c = Cardinality(T(k))
          BY <4>2, <5>1
        <5>5. PICK d \in Nat : d = Cardinality(T(k + 1))
          BY <4>2, <5>1
        <5>6. k <= c /\ c < d
          BY <4>4, <5>2, <5>3, <5>4, <5>5
        <5>7. k + 1 <= d
          BY <5>6
        <5> QED  BY <5>1, <5>5, <5>7
      <4>5. n \in 0 .. n
        BY <1>1
      <4> HIDE DEF S
      <4>6. n \in S
        BY <1>1, <4>3, <4>4, <4>5, UpTo
      <4>7. Cardinality(T(n)) = n
        <5>1. PICK c \in Nat : c = Cardinality(T(n))
          BY <4>2, <4>5
        <5>2. n <= c /\ c <= n
          BY <4>2, <4>5, <4>6, <5>1 DEF S
        <5> QED  BY <1>1, <5>1, <5>2
      <4>8. T(n) = 1 .. n
        BY <4>1, <4>2, <4>5, <4>7, FS_Subset
      <4> QED  BY <1>1, <4>8 DEF Reaches
    <3> QED  BY <3>1, <3>2
  <2>8. n \in 0 .. n
    BY <1>1
  <2> QED  BY <2>4, <2>7, <2>8 DEF T
<1> QED  BY <1>4, <1>5

\* The outcome that ends finds.
LEMMA EndsAre ==
    ASSUME NEW n, NEW next, IsNext(next, n), NEW s, IsStep(s, n)
    PROVE  /\ \A x : IsEnd(x) => (ends(next, s) = x <=> Leads(next, s, x))
           /\ ends(next, s) = loop \/ IsEnd(ends(next, s))
<1> DEFINE r == CHOOSE q : RunOf(q, next, n)
<1>1. n \in Nat /\ Len(next) = n /\ DOMAIN next = 1 .. n
  BY DEF IsNext
<1>2. RunOf(r, next, n)
  BY <1>1, RunExists
<1>3. ends(next, s) = IF s.does = "goto" THEN r[n][s.at] ELSE s
  BY <1>1 DEF ends, RunOf
<1> HIDE DEF r
<1>4. CASE s.does = "goto"
  <2>1. s.at \in 1 .. n /\ ends(next, s) = r[n][s.at]
    BY <1>3, <1>4 DEF IsStep
  <2>2. \A x : IsEnd(x) => (Leads(next, s, x) <=> s.at \in Reaches(next, x))
    BY <1>4 DEF Leads, IsEnd
  <2> QED  BY <1>2, <2>1, <2>2, RunFacts
<1>5. CASE s.does # "goto"
  BY <1>3, <1>5 DEF Leads, IsEnd, IsStep
<1> QED  BY <1>4, <1>5

\* Runs that lead to the same ends are alike.
LEMMA SameEnds ==
    ASSUME NEW n, NEW next, IsNext(next, n), NEW s, IsStep(s, n),
           NEW m, NEW other, IsNext(other, m), NEW t, IsStep(t, m),
           \A x : IsEnd(x) => (Leads(next, s, x) <=> Leads(other, t, x))
    PROVE  ends(next, s) = ends(other, t)
<1>1. \A x : IsEnd(x) => (ends(next, s) = x <=> ends(other, t) = x)
  BY EndsAre
<1>2. ends(next, s) = loop \/ IsEnd(ends(next, s))
  BY EndsAre
<1>3. ends(other, t) = loop \/ IsEnd(ends(other, t))
  BY EndsAre
<1> QED  BY <1>1, <1>2, <1>3

(***************************************************************************)
(* What the edits and the calls do to a table of steps.                    *)
(***************************************************************************)

\* A position, or a step to it.
LEMMA GotoFacts ==
    ASSUME NEW i, NEW n, NEW s, IsStep(s, n), NEW x, IsEnd(x)
    PROVE  /\ goto(i).does = "goto" /\ goto(i).at = i
           /\ s.does = "goto" <=> \E j \in 1 .. n : s = goto(j)
           /\ s.does = "goto" => s = goto(s.at) /\ s.at \in 1 .. n
           /\ x # goto(i) /\ x # loop /\ x.does # "goto"
           /\ s.does # "goto" => IsEnd(s)
BY DEF IsStep, goto, step, IsEnd, loop

\* Steps to v may take the step of v instead; then v, if it is the last
\* position, may be left out.
LEMMA Shortcut ==
    ASSUME NEW n, NEW long, IsNext(long, n), NEW m, NEW short, IsNext(short, m),
           m = n \/ m = n - 1, NEW v \in 1 .. n, m = n - 1 => v = n, long[v] # goto(v),
           \A i \in 1 .. m : \/ short[i] = long[i]
                             \/ long[i] = goto(v) /\ short[i] = long[v],
           NEW s, IsStep(s, n), NEW t, IsStep(t, m), t = s \/ (s = goto(v) /\ t = long[v])
    PROVE  ends(short, t) = ends(long, s)
<1>1. /\ n \in Nat /\ m \in Nat /\ DOMAIN long = 1 .. n /\ DOMAIN short = 1 .. m
      /\ \A i \in 1 .. n : IsStep(long[i], n)
      /\ \A i \in 1 .. m : IsStep(short[i], m) /\ i \in 1 .. n
  BY DEF IsNext
<1>2. ASSUME NEW x, IsEnd(x)
      PROVE  Leads(short, t, x) <=> Leads(long, s, x)
  <2>1. \A q : q \in Reaches(short, x) => q \in Reaches(long, x)
    <3> DEFINE R == {i \in 1 .. m : i \in Reaches(long, x)}
    <3>1. ClosedFor(short, x, R)
      <4> SUFFICES ASSUME NEW i \in 1 .. m,
                          short[i] = x \/ (short[i].does = "goto" /\ short[i].at \in R)
                   PROVE  i \in Reaches(long, x)
        BY <1>1 DEF ClosedFor
      <4>1. i \in 1 .. n
        BY <1>1
      <4>2. Leads(long, short[i], x)
        BY DEF Leads
      <4>3. CASE short[i] = long[i]
        BY <1>1, <4>1, <4>2, <4>3, ReachesStep
      <4>4. CASE long[i] = goto(v) /\ short[i] = long[v]
        <5>1. v \in Reaches(long, x)
          BY <1>1, <4>2, <4>4, ReachesStep
        <5>2. Leads(long, long[i], x)
          BY <4>4, <5>1 DEF Leads, goto, step
        <5> QED  BY <1>1, <4>1, <5>2, ReachesStep
      <4> QED  BY <4>3, <4>4
    <3>2. R \in SUBSET DOMAIN short
      BY <1>1
    <3> HIDE DEF R
    <3>3. Reaches(short, x) \subseteq R
      BY <3>1, <3>2, ReachesLeast
    <3> QED  BY <3>3 DEF R
  <2>2. \A i \in 1 .. m : i \in Reaches(short, x) <=> Leads(short, short[i], x)
    BY <1>1, ReachesStep
  <2> DEFINE R == {i \in 1 .. n : /\ i \in 1 .. m => i \in Reaches(short, x)
                                  /\ i \notin 1 .. m => Leads(short, long[i], x)}
  <2>3. v \in R => Leads(short, long[v], x)
    <3>1. v \in 1 .. m => short[v] = long[v]
      OBVIOUS
    <3> QED  BY <2>2, <3>1
  <2>4. ClosedFor(long, x, R)
    <3> SUFFICES ASSUME NEW i \in 1 .. n,
                        long[i] = x \/ (long[i].does = "goto" /\ long[i].at \in R)
                 PROVE  i \in R
      BY <1>1 DEF ClosedFor
    <3>1. CASE i \in 1 .. m
      <4> SUFFICES Leads(short, short[i], x)
        BY <2>2, <3>1
      <4>1. CASE short[i] = long[i]
        <5>1. short[i].does = "goto" => short[i].at \in 1 .. m
          BY <1>1, <3>1 DEF IsStep
        <5> QED  BY <4>1, <5>1 DEF Leads
      <4>2. CASE long[i] = goto(v) /\ short[i] = long[v]
        <5>1. long[i] # x /\ long[i].at = v
          BY <1>2, <4>2 DEF goto, step, IsEnd
        <5> QED  BY <2>3, <4>2, <5>1
      <4> QED  BY <3>1, <4>1, <4>2
    <3>2. CASE i \notin 1 .. m
      <4>1. i = v /\ m = n - 1 /\ v = n
        BY <1>1, <3>2
      <4>2. ASSUME long[v].does = "goto", long[v].at \in R
            PROVE  long[v].at \in Reaches(short, x)
        <5>1. IsStep(long[v], n)
          BY <1>1
        <5>2. long[v].at # v /\ long[v].at \in 1 .. n
          BY <4>2, <5>1 DEF IsStep, goto, step
        <5>3. long[v].at \in 1 .. m
          BY <1>1, <4>1, <5>2
        <5> QED  BY <4>2, <5>3
      <4>3. Leads(short, long[v], x)
        BY <4>1, <4>2 DEF Leads
      <4> QED  BY <3>2, <4>1, <4>3
    <3> QED  BY <3>1, <3>2
  <2>5. R \in SUBSET DOMAIN long
    BY <1>1
  <2>6. \A q \in Reaches(long, x) : q \in R
    <3> HIDE DEF R
    <3> QED  BY <2>4, <2>5, ReachesLeast
  <2>7. ASSUME Leads(short, t, x) PROVE Leads(long, s, x)
    <3>1. Leads(long, t, x)
      BY <2>1, <2>7 DEF Leads
    <3>2. CASE s = goto(v) /\ t = long[v]
      <4>1. v \in Reaches(long, x)
        BY <1>1, <3>1, <3>2, ReachesStep
      <4> QED  BY <3>2, <4>1 DEF Leads, goto, step
    <3> QED  BY <3>1, <3>2
  <2>8. ASSUME Leads(long, s, x) PROVE Leads(short, t, x)
    <3>1. s = x \/ (s.does = "goto" /\ s.at \in R)
      BY <2>6, <2>8 DEF Leads
    <3>2. CASE s = goto(v) /\ t = long[v]
      <4>1. s # x /\ s.at = v
        BY <1>2, <3>2 DEF goto, step, IsEnd
      <4> HIDE DEF R
      <4> QED  BY <2>3, <3>1, <3>2, <4>1
    <3>3. CASE t = s
      <4>1. t.does = "goto" => t.at \in 1 .. m
        BY DEF IsStep
      <4> QED  BY <3>1, <3>3, <4>1 DEF Leads
    <3> QED  BY <3>2, <3>3
  <2> QED  BY <2>7, <2>8
<1> QED  BY <1>2, SameEnds

\* One more position, which the runs that ended in hs go on to.
Continues(next, n, more, hs) ==
    /\ IsNext(next, n) /\ IsNext(more, n + 1) /\ \A h \in hs : IsEnd(h)
    /\ \A i \in 1 .. n : more[i] = IF next[i] \in hs THEN goto(n + 1) ELSE next[i]
On(s, n, hs) == IF s \in hs THEN goto(n + 1) ELSE s

\* What the steps lead to then.
LEMMA ContinuesFacts ==
    ASSUME NEW n, NEW next, NEW more, NEW hs, Continues(next, n, more, hs),
           NEW x, IsEnd(x), NEW s, IsStep(s, n)
    PROVE  /\ IsStep(On(s, n, hs), n + 1)
           /\ Leads(more, On(s, n, hs), x) <=>
                 \/ x \notin hs /\ Leads(next, s, x)
                 \/ n + 1 \in Reaches(more, x) /\ \E h \in hs : Leads(next, s, h)
<1> DEFINE N == n + 1
           Old(i) == x \notin hs /\ i \in Reaches(next, x)
           New(i) == N \in Reaches(more, x) /\ \E h \in hs : i \in Reaches(next, h)
<1>1. /\ n \in Nat /\ DOMAIN next = 1 .. n /\ DOMAIN more = 1 .. N /\ N \in 1 .. N /\ N \notin 1 .. n
      /\ \A i \in 1 .. n : i \in 1 .. N
      /\ \A i \in 1 .. n : IsStep(next[i], n)
      /\ \A i \in 1 .. n : more[i] = IF next[i] \in hs THEN goto(N) ELSE next[i]
      /\ \A h \in hs : IsEnd(h)
  BY DEF IsNext, Continues
<1> HIDE DEF N
<1>2. goto(N).does = "goto" /\ goto(N).at = N /\ goto(N) # x
  BY DEF goto, step, IsEnd
<1>3. ASSUME NEW i \in 1 .. n, next[i] \notin hs, Leads(more, next[i], x)
      PROVE  i \in Reaches(more, x)
  BY <1>1, <1>3, ReachesStep
<1>4. ASSUME NEW i, Old(i) PROVE i \in Reaches(more, x)
  <2> DEFINE R == {j \in 1 .. n : j \in Reaches(more, x)}
  <2>1. ClosedFor(next, x, R)
    <3> SUFFICES ASSUME NEW j \in 1 .. n,
                        next[j] = x \/ (next[j].does = "goto" /\ next[j].at \in R)
                 PROVE  j \in Reaches(more, x)
      BY <1>1 DEF ClosedFor
    <3>1. next[j] \notin hs
      BY <1>1, <1>4 DEF IsEnd
    <3>2. Leads(more, next[j], x)
      BY DEF Leads
    <3> QED  BY <1>3, <3>1, <3>2
  <2>2. R \in SUBSET DOMAIN next
    BY <1>1
  <2> HIDE DEF R
  <2>3. i \in R
    BY <1>4, <2>1, <2>2, ReachesLeast
  <2> QED  BY <2>3 DEF R
<1>5. ASSUME NEW i, New(i) PROVE i \in Reaches(more, x)
  <2>1. PICK h \in hs : i \in Reaches(next, h)
    BY <1>5
  <2> DEFINE R == {j \in 1 .. n : j \in Reaches(more, x)}
  <2>2. ClosedFor(next, h, R)
    <3> SUFFICES ASSUME NEW j \in 1 .. n,
                        next[j] = h \/ (next[j].does = "goto" /\ next[j].at \in R)
                 PROVE  j \in Reaches(more, x)
      BY <1>1 DEF ClosedFor
    <3>1. CASE next[j] = h
      <4>1. more[j] = goto(N)
        BY <1>1, <3>1
      <4>2. Leads(more, more[j], x)
        BY <1>2, <1>5, <4>1 DEF Leads
      <4> QED  BY <1>1, <4>2, ReachesStep
    <3>2. CASE next[j].does = "goto" /\ next[j].at \in R
      <4>1. next[j] \notin hs
        BY <1>1, <3>2 DEF IsEnd
      <4>2. Leads(more, next[j], x)
        BY <3>2 DEF Leads
      <4> QED  BY <1>3, <4>1, <4>2
    <3> QED  BY <3>1, <3>2
  <2>3. R \in SUBSET DOMAIN next
    BY <1>1
  <2> HIDE DEF R
  <2>4. i \in R
    BY <2>1, <2>2, <2>3, ReachesLeast
  <2> QED  BY <2>4 DEF R
<1>6. ASSUME NEW i \in Reaches(more, x), i # N PROVE Old(i) \/ New(i)
  <2> DEFINE R == {j \in 1 .. N : IF j = N THEN N \in Reaches(more, x) ELSE Old(j) \/ New(j)}
  <2>1. ClosedFor(more, x, R)
    <3> SUFFICES ASSUME NEW j \in 1 .. N,
                        more[j] = x \/ (more[j].does = "goto" /\ more[j].at \in R)
                 PROVE  IF j = N THEN N \in Reaches(more, x) ELSE Old(j) \/ New(j)
      BY <1>1 DEF ClosedFor
    <3>0. \A q \in R : q \in Reaches(more, x)
      BY <1>4, <1>5
    <3>1. CASE j = N
      <4> HIDE DEF R
      <4>1. Leads(more, more[N], x)
        BY <3>0, <3>1 DEF Leads
      <4> QED  BY <1>1, <3>1, <4>1, ReachesStep
    <3>2. CASE j # N
      <4>1. j \in 1 .. n
        BY <1>1, <3>2 DEF N
      <4>2. CASE next[j] \in hs
        <5>1. more[j] = goto(N)
          BY <1>1, <4>1, <4>2
        <5>2. N \in Reaches(more, x)
          BY <1>2, <5>1
        <5>3. j \in Reaches(next, next[j])
          BY <1>1, <4>1, ReachesStep DEF Leads
        <5> QED  BY <3>2, <4>2, <5>2, <5>3
      <4>3. CASE next[j] \notin hs
        <5>1. more[j] = next[j]
          BY <1>1, <4>1, <4>3
        <5>2. CASE next[j] = x
          <6>1. j \in Reaches(next, x)
            BY <1>1, <4>1, <5>2, ReachesStep DEF Leads
          <6> QED  BY <3>2, <4>3, <5>2, <6>1
        <5>3. CASE next[j].does = "goto" /\ next[j].at \in R
          <6>1. next[j].at # N
            BY <1>1, <4>1, <5>3 DEF IsStep
          <6>2. Old(next[j].at) \/ New(next[j].at)
            BY <5>3, <6>1
          <6>3. ASSUME NEW y, next[j].at \in Reaches(next, y) PROVE j \in Reaches(next, y)
            BY <1>1, <4>1, <5>3, <6>3, ReachesStep DEF Leads
          <6> HIDE DEF R
          <6> QED  BY <3>2, <6>2, <6>3
        <5> QED  BY <5>1, <5>2, <5>3
      <4> QED  BY <4>2, <4>3
    <3> QED  BY <3>1, <3>2
  <2>2. R \in SUBSET DOMAIN more
    BY <1>1
  <2> HIDE DEF R
  <2>3. i \in R
    BY <2>1, <2>2, ReachesLeast
  <2> QED  BY <1>6, <2>3 DEF R
<1>7. On(s, n, hs) = IF s \in hs THEN goto(N) ELSE s
  BY DEF On, N
<1>8. IsStep(On(s, n, hs), N)
  BY <1>1, <1>7 DEF IsStep, goto, step, N
<1>9. CASE s \in hs
  <2>1. IsEnd(s) /\ Leads(next, s, s)
    BY <1>1, <1>9 DEF Leads
  <2>2. Leads(more, On(s, n, hs), x) <=> N \in Reaches(more, x)
    BY <1>2, <1>7, <1>9 DEF Leads
  <2>3. x \notin hs => ~Leads(next, s, x)
    BY <1>9, <2>1, OneEnd
  <2> QED  BY <1>8, <1>9, <2>1, <2>2, <2>3 DEF N
<1>10. CASE s \notin hs
  <2>1. On(s, n, hs) = s
    BY <1>7, <1>10
  <2>2. CASE s.does = "goto"
    <3>1. s.at \in 1 .. n /\ s.at # N /\ s # x /\ \A h \in hs : s # h
      BY <1>1, <1>10, <2>2 DEF IsStep, IsEnd
    <3>2. s.at \in Reaches(more, x) <=> Old(s.at) \/ New(s.at)
      BY <1>4, <1>5, <1>6, <3>1
    <3> QED  BY <1>8, <2>1, <2>2, <3>1, <3>2 DEF Leads, N
  <2>3. CASE s.does # "goto"
    <3>1. \A h \in hs : ~Leads(next, s, h)
      BY <1>10, <2>3 DEF Leads
    <3>2. Leads(next, s, x) <=> s = x
      BY <2>3 DEF Leads
    <3>3. Leads(more, s, x) <=> s = x
      BY <2>3 DEF Leads
    <3> QED  BY <1>8, <1>10, <2>1, <3>1, <3>2, <3>3 DEF N
  <2> QED  BY <2>2, <2>3
<1> QED  BY <1>9, <1>10

\* The new position ends the run.
LEMMA ContinueEnd ==
    ASSUME NEW n, NEW next, NEW more, NEW hs, Continues(next, n, more, hs),
           IsEnd(more[n + 1]), NEW s, IsStep(s, n)
    PROVE  ends(more, On(s, n, hs)) =
              IF ends(next, s) \in hs THEN more[n + 1] ELSE ends(next, s)
<1> DEFINE y == more[n + 1]
           t == On(s, n, hs)
<1>1. /\ IsNext(next, n) /\ IsNext(more, n + 1) /\ n + 1 \in DOMAIN more
      /\ \A h \in hs : IsEnd(h)
  BY DEF Continues, IsNext
<1>2. IsEnd(y)
  OBVIOUS
<1> HIDE DEF y
<1>3. \A x : IsEnd(x) => (n + 1 \in Reaches(more, x) <=> x = y)
  BY <1>1, <1>2, ReachesStep DEF Leads, y, IsEnd
<1>4. \A x : IsEnd(x) => (ends(next, s) = x <=> Leads(next, s, x))
  BY <1>1, EndsAre
<1>5. IsStep(t, n + 1)
  BY <1>2, ContinuesFacts
<1>6. \A x : IsEnd(x) => (Leads(more, t, x) <=>
                 \/ x \notin hs /\ Leads(next, s, x)
                 \/ n + 1 \in Reaches(more, x) /\ \E h \in hs : Leads(next, s, h))
  BY ContinuesFacts
<1> HIDE DEF t
<1>7. \A x : IsEnd(x) => (ends(more, t) = x <=> Leads(more, t, x))
  BY <1>1, <1>5, EndsAre
<1>8. /\ ends(more, t) = loop \/ IsEnd(ends(more, t))
      /\ ends(next, s) = loop \/ IsEnd(ends(next, s))
  BY <1>1, <1>5, EndsAre
<1>9. (\E h \in hs : Leads(next, s, h)) <=> ends(next, s) \in hs
  BY <1>1, <1>4
<1>10. \A x : IsEnd(x) => (ends(more, t) = x <=>
                 \/ x \notin hs /\ ends(next, s) = x
                 \/ x = y /\ ends(next, s) \in hs)
  BY <1>3, <1>4, <1>6, <1>7, <1>9
<1>11. ends(more, t) = IF ends(next, s) \in hs THEN y ELSE ends(next, s)
  <2> HIDE DEF IsEnd
  <2> QED  BY <1>2, <1>8, <1>10
<1> QED  BY <1>11 DEF y, t

\* The new position goes where a step z went.
LEMMA ContinueGoto ==
    ASSUME NEW n, NEW next, NEW more, NEW hs, Continues(next, n, more, hs),
           NEW z, IsStep(z, n), more[n + 1] = On(z, n, hs), NEW s, IsStep(s, n)
    PROVE  ends(more, On(s, n, hs)) =
              IF ends(next, s) \notin hs THEN ends(next, s)
              ELSE IF ends(next, z) \in hs THEN loop ELSE ends(next, z)
<1> DEFINE t == On(s, n, hs)
           N == n + 1
<1>1. /\ IsNext(next, n) /\ IsNext(more, N) /\ N \in DOMAIN more /\ n \in Nat
      /\ \A h \in hs : IsEnd(h) /\ DOMAIN next = 1 .. n /\ DOMAIN more = 1 .. N
      /\ \A i \in 1 .. n : more[i] = IF next[i] \in hs THEN goto(N) ELSE next[i]
  BY DEF Continues, IsNext
<1>2. \A x : IsEnd(x) => (N \in Reaches(more, x) <=> Leads(more, On(z, n, hs), x))
  BY <1>1, ReachesStep
<1>3. \A x : IsEnd(x) => (Leads(more, On(z, n, hs), x) <=>
                 \/ x \notin hs /\ Leads(next, z, x)
                 \/ N \in Reaches(more, x) /\ \E h \in hs : Leads(next, z, h))
  BY ContinuesFacts
<1>4. \A x : IsEnd(x) => (Leads(more, t, x) <=>
                 \/ x \notin hs /\ Leads(next, s, x)
                 \/ N \in Reaches(more, x) /\ \E h \in hs : Leads(next, s, h))
  BY ContinuesFacts
<1>5. \A u : IsStep(u, n) =>
          /\ \A x : IsEnd(x) => (ends(next, u) = x <=> Leads(next, u, x))
          /\ ends(next, u) = loop \/ IsEnd(ends(next, u))
          /\ (\E h \in hs : Leads(next, u, h)) <=> ends(next, u) \in hs
  BY <1>1, EndsAre
<1>6. ASSUME NEW x, IsEnd(x), NEW h \in hs, Leads(next, z, h)
      PROVE  N \notin Reaches(more, x)
  <2> DEFINE R == {i \in 1 .. n : x \notin hs /\ i \in Reaches(next, x)}
  <2>1. z \notin hs => z.does = "goto" /\ z.at \in Reaches(next, h)
    BY <1>6 DEF Leads
  <2>2. ~(x \notin hs /\ Leads(next, z, x))
    BY <1>1, <1>6, OneEnd
  <2>3. ClosedFor(more, x, R)
    <3> SUFFICES ASSUME NEW j \in 1 .. N,
                        more[j] = x \/ (more[j].does = "goto" /\ more[j].at \in R)
                 PROVE  j \in R
      BY <1>1 DEF ClosedFor
    <3>1. goto(N) # x /\ goto(N).does = "goto" /\ goto(N).at = N /\ N \notin R
      BY <1>1, <1>6 DEF goto, step, IsEnd
    <3>2. CASE j = N
      <4>1. more[j] = IF z \in hs THEN goto(N) ELSE z
        BY <3>2 DEF On
      <4>2. z \notin hs
        <5> HIDE DEF R, N
        <5> QED  BY <3>1, <4>1
      <4>3. x \notin hs /\ Leads(next, z, x)
        <5>1. CASE z = x
          BY <4>2, <5>1 DEF Leads
        <5>2. CASE z.does = "goto" /\ z.at \in R
          BY <5>2 DEF Leads
        <5> QED  BY <4>1, <4>2, <5>1, <5>2
      <4> QED  BY <2>2, <4>3
    <3>3. CASE j # N
      <4>1. j \in 1 .. n
        BY <1>1, <3>3
      <4>2. more[j] = next[j] /\ next[j] \notin hs
        <5> HIDE DEF R, N
        <5> QED  BY <1>1, <3>1, <4>1
      <4>3. x \notin hs /\ Leads(next, next[j], x)
        BY <4>2 DEF Leads
      <4>4. j \in Reaches(next, x)
        BY <1>1, <4>1, <4>3, ReachesStep
      <4> QED  BY <4>1, <4>3, <4>4
    <3> QED  BY <3>2, <3>3
  <2>4. R \in SUBSET DOMAIN more /\ N \notin R
    BY <1>1
  <2> HIDE DEF R, N
  <2> QED  BY <2>3, <2>4, ReachesLeast
<1>7. IsStep(t, N)
  <2>1. IsEnd(step("tail", 0))
    BY DEF IsEnd, step
  <2> QED  BY <2>1, ContinuesFacts
<1>8. /\ \A x : IsEnd(x) => (ends(more, t) = x <=> Leads(more, t, x))
      /\ ends(more, t) = loop \/ IsEnd(ends(more, t))
  <2> HIDE DEF t, N
  <2> QED  BY <1>1, <1>7, EndsAre
<1> HIDE DEF t, N
<1>9. \A x : IsEnd(x) => (N \in Reaches(more, x) <=> ends(next, z) \notin hs /\ ends(next, z) = x)
  <2> SUFFICES ASSUME NEW x, IsEnd(x)
               PROVE  N \in Reaches(more, x) <=> ends(next, z) \notin hs /\ ends(next, z) = x
    OBVIOUS
  <2>1. CASE \E h \in hs : Leads(next, z, h)
    <3>1. ends(next, z) \in hs
      BY <1>5, <2>1
    <3> QED  BY <1>6, <2>1, <3>1
  <2>2. CASE ~\E h \in hs : Leads(next, z, h)
    <3>1. N \in Reaches(more, x) <=> x \notin hs /\ Leads(next, z, x)
      BY <1>2, <1>3, <2>2
    <3>2. ends(next, z) = x <=> Leads(next, z, x)
      BY <1>5
    <3>3. ends(next, z) \notin hs
      BY <1>5, <2>2
    <3> QED  BY <3>1, <3>2, <3>3
  <2> QED  BY <2>1, <2>2
<1>10. \A x : IsEnd(x) => (ends(more, t) = x <=>
                 \/ x \notin hs /\ ends(next, s) = x
                 \/ ends(next, z) \notin hs /\ ends(next, z) = x /\ ends(next, s) \in hs)
  <2> SUFFICES ASSUME NEW x, IsEnd(x)
               PROVE  ends(more, t) = x <=>
                        \/ x \notin hs /\ ends(next, s) = x
                        \/ ends(next, z) \notin hs /\ ends(next, z) = x /\ ends(next, s) \in hs
    OBVIOUS
  <2>1. ends(next, s) = x <=> Leads(next, s, x)
    BY <1>5
  <2>2. (\E h \in hs : Leads(next, s, h)) <=> ends(next, s) \in hs
    BY <1>5
  <2> QED  BY <1>4, <1>8, <1>9, <2>1, <2>2
<1>11. /\ ends(next, s) = loop \/ IsEnd(ends(next, s))
       /\ ends(next, z) = loop \/ IsEnd(ends(next, z))
       /\ ~IsEnd(loop)
  BY <1>5 DEF IsEnd, loop, step
<1>12. ends(more, t) = IF ends(next, s) \notin hs THEN ends(next, s)
                       ELSE IF ends(next, z) \in hs THEN loop ELSE ends(next, z)
  BY <1>1, <1>8, <1>10, <1>11
<1> QED  BY <1>12 DEF t

\* The steps that ended in u end in y.
LEMMA Rename ==
    ASSUME NEW n, NEW next, NEW other, IsNext(next, n), IsNext(other, n),
           NEW u, NEW y, IsEnd(u), IsEnd(y), IsStep(y, n),
           \A i \in 1 .. n : other[i] = IF next[i] = u THEN y ELSE next[i],
           NEW s, IsStep(s, n)
    PROVE  ends(other, IF s = u THEN y ELSE s) = IF ends(next, s) = u THEN y ELSE ends(next, s)
<1> DEFINE t == IF s = u THEN y ELSE s
<1>1. DOMAIN next = 1 .. n /\ DOMAIN other = 1 .. n
  BY DEF IsNext
<1>2. ASSUME NEW x, IsEnd(x), x # y, NEW i \in 1 .. n
      PROVE  i \in Reaches(other, x) <=> x # u /\ i \in Reaches(next, x)
  <2>1. ASSUME x # u, i \in Reaches(next, x) PROVE i \in Reaches(other, x)
    <3>1. ClosedFor(next, x, Reaches(other, x))
      <4> SUFFICES ASSUME NEW j \in 1 .. n,
                          next[j] = x \/ (next[j].does = "goto" /\ next[j].at \in Reaches(other, x))
                   PROVE  j \in Reaches(other, x)
        BY <1>1 DEF ClosedFor
      <4>1. other[j] = next[j]
        BY <2>1, <1>2 DEF IsEnd
      <4> QED  BY <1>1, <4>1, ReachesStep DEF Leads
    <3> QED  BY <1>1, <2>1, <3>1, ReachesLeast DEF Reaches
  <2>2. ASSUME i \in Reaches(other, x) PROVE x # u /\ i \in Reaches(next, x)
    <3> DEFINE R == {j \in 1 .. n : x # u /\ j \in Reaches(next, x)}
    <3>1. ClosedFor(other, x, R)
      <4> SUFFICES ASSUME NEW j \in 1 .. n,
                          other[j] = x \/ (other[j].does = "goto" /\ other[j].at \in R)
                   PROVE  x # u /\ j \in Reaches(next, x)
        BY <1>1 DEF ClosedFor
      <4>1. next[j] # u /\ other[j] = next[j]
        BY <1>2 DEF IsEnd
      <4>2. CASE next[j] = x
        BY <1>1, <4>1, <4>2, ReachesStep DEF Leads
      <4>3. CASE next[j].does = "goto" /\ next[j].at \in R
        BY <1>1, <4>3, ReachesStep DEF Leads
      <4> QED  BY <4>1, <4>2, <4>3
    <3>2. R \in SUBSET DOMAIN other
      BY <1>1
    <3> HIDE DEF R
    <3>3. i \in R
      BY <2>2, <3>1, <3>2, ReachesLeast
    <3> QED  BY <3>3 DEF R
  <2> QED  BY <2>1, <2>2
<1>3. ASSUME NEW i \in 1 .. n
      PROVE  i \in Reaches(other, y) <=> i \in Reaches(next, y) \/ i \in Reaches(next, u)
  <2>1. ASSUME NEW x \in {y, u}, i \in Reaches(next, x) PROVE i \in Reaches(other, y)
    <3>1. ClosedFor(next, x, Reaches(other, y))
      <4> SUFFICES ASSUME NEW j \in 1 .. n,
                          next[j] = x \/ (next[j].does = "goto" /\ next[j].at \in Reaches(other, y))
                   PROVE  j \in Reaches(other, y)
        BY <1>1 DEF ClosedFor
      <4>1. CASE next[j] = x
        <5>1. other[j] = y
          BY <2>1, <4>1
        <5> QED  BY <1>1, <5>1, ReachesStep DEF Leads
      <4>2. CASE next[j].does = "goto" /\ next[j].at \in Reaches(other, y)
        <5>1. other[j] = next[j]
          BY <4>2 DEF IsEnd
        <5> QED  BY <1>1, <4>2, <5>1, ReachesStep DEF Leads
      <4> QED  BY <4>1, <4>2
    <3> QED  BY <1>1, <2>1, <3>1, ReachesLeast DEF Reaches
  <2>2. ASSUME i \in Reaches(other, y) PROVE i \in Reaches(next, y) \/ i \in Reaches(next, u)
    <3> DEFINE R == {j \in 1 .. n : j \in Reaches(next, y) \/ j \in Reaches(next, u)}
    <3>1. ClosedFor(other, y, R)
      <4> SUFFICES ASSUME NEW j \in 1 .. n,
                          other[j] = y \/ (other[j].does = "goto" /\ other[j].at \in R)
                   PROVE  j \in Reaches(next, y) \/ j \in Reaches(next, u)
        BY <1>1 DEF ClosedFor
      <4>1. next[j] = u \/ other[j] = next[j]
        OBVIOUS
      <4>2. CASE next[j] = u \/ next[j] = y
        BY <1>1, <4>2, ReachesStep DEF Leads
      <4>3. CASE next[j].does = "goto" /\ next[j].at \in R
        BY <1>1, <4>3, ReachesStep DEF Leads
      <4> QED  BY <4>1, <4>2, <4>3
    <3>2. R \in SUBSET DOMAIN other
      BY <1>1
    <3> HIDE DEF R
    <3>3. i \in R
      BY <2>2, <3>1, <3>2, ReachesLeast
    <3> QED  BY <3>3 DEF R
  <2> QED  BY <2>1, <2>2
<1>4. ASSUME NEW x, IsEnd(x)
      PROVE  Leads(other, t, x) <=> (x # u /\ Leads(next, s, x)) \/ (x = y /\ Leads(next, s, u))
  <2>1. CASE s.does = "goto"
    <3>1. s.at \in 1 .. n /\ t = s /\ s # x /\ s # u
      BY <1>4, <2>1 DEF IsStep, IsEnd
    <3>2. CASE x = y
      BY <1>3, <2>1, <3>1, <3>2 DEF Leads
    <3>3. CASE x # y
      BY <1>2, <1>4, <2>1, <3>1, <3>3 DEF Leads
    <3> QED  BY <3>2, <3>3
  <2>2. CASE s.does # "goto"
    <3>1. t.does # "goto"
      BY <2>2 DEF IsEnd
    <3>2. Leads(other, t, x) <=> t = x
      BY <3>1 DEF Leads
    <3>3. \A w : Leads(next, s, w) <=> s = w
      BY <2>2 DEF Leads
    <3> QED  BY <3>2, <3>3
  <2> QED  BY <2>1, <2>2
<1>5. IsStep(t, n)
  BY DEF IsStep, IsEnd
<1>6. /\ \A x : IsEnd(x) => (ends(next, s) = x <=> Leads(next, s, x))
      /\ ends(next, s) = loop \/ IsEnd(ends(next, s))
  BY EndsAre
<1>7. /\ \A x : IsEnd(x) => (ends(other, t) = x <=> Leads(other, t, x))
      /\ ends(other, t) = loop \/ IsEnd(ends(other, t))
  <2> HIDE DEF t
  <2> QED  BY <1>5, EndsAre
<1> HIDE DEF t
<1>8. ends(other, t) = IF ends(next, s) = u THEN y ELSE ends(next, s)
  BY <1>4, <1>6, <1>7
<1> QED  BY <1>8 DEF t

(***************************************************************************)
(* Where labels lead.                                                      *)
(***************************************************************************)

\* What holds of labels without an alias, and of a label if of its alias, holds
\* of every label.
LEMMA AliasInduction ==
    ASSUME NEW alias, Aliases(alias), NEW S,
           \A l \in Label : alias[l] = UNKNOWN_LABEL \/ alias[l] \in S => l \in S
    PROVE  \A l \in Label : l \in S
<1> DEFINE T == {l \in Label : l \notin S}
<1> SUFFICES ASSUME T # {} PROVE FALSE
  OBVIOUS
<1>1. T \in SUBSET Label
  OBVIOUS
<1> HIDE DEF T
<1>2. PICK l \in T : alias[l] \notin T
  BY <1>1 DEF Aliases
<1>3. l \in Label /\ l \notin S
  BY DEF T
<1>4. alias[l] = UNKNOWN_LABEL \/ alias[l] \in S
  BY <1>2, <1>3 DEF Aliases, T
<1> QED  BY <1>3, <1>4

\* The recursion of root.
LEMMA RootOf ==
    ASSUME NEW alias, Aliases(alias), NEW r,
           r = CHOOSE q : q = [l \in Label |-> IF alias[l] = UNKNOWN_LABEL THEN l ELSE q[alias[l]]]
    PROVE  \A l \in Label :
              /\ r[l] = IF alias[l] = UNKNOWN_LABEL THEN l ELSE r[alias[l]]
              /\ r[l] \in Label /\ alias[r[l]] = UNKNOWN_LABEL
<1> DEFINE base == [l \in Label |-> l]
<1>1. base \in [Label -> Label] /\ \A l \in Label : base[l] = l
  OBVIOUS
<1>2. \A q : Along(alias, base, q) <=>
                 q = [l \in Label |-> IF alias[l] = UNKNOWN_LABEL THEN l ELSE q[alias[l]]]
  BY DEF Along
<1>3. Along(alias, base, r)
  <2> HIDE DEF base
  <2>1. \E q : Along(alias, base, q)
    BY <1>1, AliasRecursion
  <2>2. r = CHOOSE q : Along(alias, base, q)
    BY <1>2
  <2> QED  BY <2>1, <2>2
<1>4. \A l \in Label : r[l] = IF alias[l] = UNKNOWN_LABEL THEN l ELSE r[alias[l]]
  BY <1>1, <1>3 DEF Along
<1> DEFINE S == {l \in Label : r[l] \in Label /\ alias[r[l]] = UNKNOWN_LABEL}
<1>5. \A l \in Label : alias[l] = UNKNOWN_LABEL \/ alias[l] \in S => l \in S
  BY <1>4
<1> HIDE DEF S
<1>6. \A l \in Label : l \in S
  BY <1>5, AliasInduction
<1> QED  BY <1>4, <1>6 DEF S

\* The aliases end at a label without one, and resolve_label_offset gives its
\* offset.
LEMMA RootFacts ==
    ASSUME TypeOK, NoAliasCycle
    PROVE  /\ Aliases(label_aliases)
           /\ \A l \in Label :
                /\ root[l] = IF label_aliases[l] = UNKNOWN_LABEL THEN l ELSE root[label_aliases[l]]
                /\ root[l] \in live /\ root[l] \in Label
                /\ l \in live => root[l] = l
                /\ resolve_label_offset[l] = label_offsets[root[l]]
                /\ TargetsAllocated /\ l \in allocated => root[l] \in allocated
<1>1. Aliases(label_aliases)
  BY DEF Aliases, TypeOK, NoAliasCycle
<1>2. \A l \in Label :
        /\ root[l] = IF label_aliases[l] = UNKNOWN_LABEL THEN l ELSE root[label_aliases[l]]
        /\ root[l] \in Label /\ label_aliases[root[l]] = UNKNOWN_LABEL
  BY <1>1, RootOf DEF root
<1>3. \A l \in Label : resolve_label_offset[l] = label_offsets[root[l]]
  <2> DEFINE S == {l \in Label : resolve_label_offset[l] = label_offsets[root[l]]}
  <2>1. \A l \in Label : label_aliases[l] = UNKNOWN_LABEL \/ label_aliases[l] \in S => l \in S
    BY <1>2, ResolveValue
  <2> HIDE DEF S
  <2>2. \A l \in Label : l \in S
    BY <1>1, <2>1, AliasInduction
  <2> QED  BY <2>2 DEF S
<1>4. TargetsAllocated => \A l \in Label : l \in allocated => root[l] \in allocated
  <2> SUFFICES ASSUME TargetsAllocated
               PROVE  \A l \in Label : l \in allocated => root[l] \in allocated
    OBVIOUS
  <2> DEFINE S == {l \in Label : l \in allocated => root[l] \in allocated}
  <2>1. \A l \in Label : label_aliases[l] = UNKNOWN_LABEL \/ label_aliases[l] \in S => l \in S
    BY <1>2 DEF TargetsAllocated
  <2> HIDE DEF S
  <2>2. \A l \in Label : l \in S
    BY <1>1, <2>1, AliasInduction
  <2> QED  BY <2>2 DEF S
<1> QED  BY <1>1, <1>2, <1>3, <1>4 DEF live

\* The same after a step.
LEMMA RootFacts1 ==
    ASSUME TypeOK', NoAliasCycle'
    PROVE  /\ Aliases(label_aliases')
           /\ \A l \in Label :
                /\ root'[l] = IF label_aliases'[l] = UNKNOWN_LABEL THEN l ELSE root'[label_aliases'[l]]
                /\ root'[l] \in live' /\ root'[l] \in Label
                /\ resolve_label_offset'[l] = label_offsets'[root'[l]]
<1>1. Aliases(label_aliases')
  BY DEF Aliases, TypeOK, NoAliasCycle
<1>2. \A l \in Label :
        /\ root'[l] = IF label_aliases'[l] = UNKNOWN_LABEL THEN l ELSE root'[label_aliases'[l]]
        /\ root'[l] \in Label /\ label_aliases'[root'[l]] = UNKNOWN_LABEL
  BY <1>1, RootOf DEF root
<1>3. \E r : Along(label_aliases', label_offsets', r)
  <2>1. label_offsets' \in [Label -> Offset]
    BY DEF TypeOK, Offset
  <2> QED  BY <1>1, <2>1, AliasRecursion
<1>4. resolve_label_offset' = CHOOSE r : Along(label_aliases', label_offsets', r)
  BY DEF resolve_label_offset, Along
<1>5. Along(label_aliases', label_offsets', resolve_label_offset')
  BY <1>3, <1>4
<1>6. \A l \in Label : resolve_label_offset'[l] = IF label_aliases'[l] = UNKNOWN_LABEL
                         THEN label_offsets'[l] ELSE resolve_label_offset'[label_aliases'[l]]
  BY <1>5 DEF Along
<1>7. \A l \in Label : resolve_label_offset'[l] = label_offsets'[root'[l]]
  <2> DEFINE S == {l \in Label : resolve_label_offset'[l] = label_offsets'[root'[l]]}
  <2>1. \A l \in Label : label_aliases'[l] = UNKNOWN_LABEL \/ label_aliases'[l] \in S => l \in S
    BY <1>2, <1>6
  <2> HIDE DEF S
  <2>2. \A l \in Label : l \in S
    BY <1>1, <2>1, AliasInduction
  <2> QED  BY <2>2 DEF S
<1> QED  BY <1>1, <1>2, <1>7 DEF live

\* Labels lead where they did as long as none is redirected.
LEMMA RootKept ==
    ASSUME TypeOK, NoAliasCycle, TypeOK', NoAliasCycle', label_aliases' = label_aliases
    PROVE  \A l \in Label : root'[l] = root[l]
<1> DEFINE S == {l \in Label : root'[l] = root[l]}
<1>1. \A l \in Label : label_aliases[l] = UNKNOWN_LABEL \/ label_aliases[l] \in S => l \in S
  BY RootFacts, RootFacts1
<1>2. Aliases(label_aliases)
  BY RootFacts
<1> HIDE DEF S
<1>3. \A l \in Label : l \in S
  BY <1>1, <1>2, AliasInduction
<1> QED  BY <1>3 DEF S

\* optimize_branches sends the labels at its last branch to the target of the
\* branch, which does not resolve to the branch itself.
LEMMA RootRedirected ==
    ASSUME IInv, TypeOK', NoAliasCycle', OptRedirect
    PROVE  \A l \in Label :
              root'[l] = IF root[l] \in b.labels THEN root[b.target] ELSE root[l]
<1>1. /\ TypeOK /\ NoAliasCycle /\ editable /\ resolve_label_offset[b.target] # b.start
      /\ label_aliases' = [l \in Label |-> IF l \in b.labels THEN b.target ELSE label_aliases[l]]
  BY DEF IInv, OptRedirect, redirects, redirectable
<1>2. b.labels = labels_bound_at(b.start) /\ b.target \in Label
  BY <1>1, LastBranch
<1>3. \A l \in b.labels : l \in Label /\ label_aliases[l] = UNKNOWN_LABEL /\ label_offsets[l] = b.start
  BY <1>2 DEF labels_bound_at
<1>4. root[b.target] \notin b.labels
  BY <1>1, <1>2, <1>3, RootFacts
<1>5. UNKNOWN_LABEL \notin Label
  BY DEF UNKNOWN_LABEL, Label
<1> HIDE DEF b, editable, labels_bound_at
<1>6. \A l \in Label : root[l] \notin b.labels => root'[l] = root[l]
  <2> DEFINE S == {l \in Label : root[l] \notin b.labels => root'[l] = root[l]}
  <2>1. ASSUME NEW l \in Label, label_aliases[l] = UNKNOWN_LABEL \/ label_aliases[l] \in S
        PROVE  l \in S
    <3>0. SUFFICES ASSUME root[l] \notin b.labels PROVE root'[l] = root[l]
      OBVIOUS
    <3>1. l \notin b.labels
      BY <1>1, <1>3, <3>0, RootFacts DEF live
    <3>2. label_aliases'[l] = label_aliases[l]
      BY <1>1, <3>1
    <3>3. CASE label_aliases[l] = UNKNOWN_LABEL
      BY <1>1, <3>2, <3>3, RootFacts, RootFacts1
    <3>4. CASE label_aliases[l] # UNKNOWN_LABEL /\ label_aliases[l] \in S
      BY <1>1, <3>0, <3>2, <3>4, RootFacts, RootFacts1
    <3> QED  BY <2>1, <3>3, <3>4
  <2>2. Aliases(label_aliases)
    BY <1>1, RootFacts
  <2> HIDE DEF S
  <2>3. \A l \in Label : l \in S
    BY <2>1, <2>2, AliasInduction
  <2> QED  BY <2>3 DEF S
<1>7. \A l \in Label : root[l] \in b.labels => root'[l] = root[b.target]
  <2> DEFINE S == {l \in Label : root[l] \in b.labels => root'[l] = root[b.target]}
  <2>1. ASSUME NEW l \in Label, label_aliases[l] = UNKNOWN_LABEL \/ label_aliases[l] \in S
        PROVE  l \in S
    <3>0. SUFFICES ASSUME root[l] \in b.labels PROVE root'[l] = root[b.target]
      OBVIOUS
    <3>1. CASE label_aliases[l] = UNKNOWN_LABEL
      <4>1. l \in b.labels
        BY <1>1, <3>0, <3>1, RootFacts
      <4>2. label_aliases'[l] = b.target
        BY <1>1, <4>1
      <4>3. root'[l] = root'[b.target]
        BY <1>2, <1>5, <4>2, RootFacts1
      <4> QED  BY <1>2, <1>4, <1>6, <4>3
    <3>2. CASE label_aliases[l] # UNKNOWN_LABEL /\ label_aliases[l] \in S
      <4>1. l \notin b.labels
        BY <1>3, <3>2
      <4>2. label_aliases'[l] = label_aliases[l]
        BY <1>1, <4>1
      <4> QED  BY <1>1, <3>0, <3>2, <4>2, RootFacts, RootFacts1
    <3> QED  BY <2>1, <3>1, <3>2
  <2>2. Aliases(label_aliases)
    BY <1>1, RootFacts
  <2> HIDE DEF S
  <2>3. \A l \in Label : l \in S
    BY <2>1, <2>2, AliasInduction
  <2> QED  BY <2>3 DEF S
<1> QED  BY <1>6, <1>7

(***************************************************************************)
(* The invariant.                                                          *)
(***************************************************************************)

Item == [op : {"inst", "ret", "jump", "cond", "trap"}, id : Nat, start : Nat, end : Nat,
         use : Nat, sense : BOOLEAN]
Line == [op : {"inst", "ret", "jump", "cond", "trap", "label"}, label : Label \cup {NoTarget}]

\* The items lie in the buffer in order, with the label use of a branch inside.
CodeInv ==
    /\ code \in Seq(Item)
    /\ \A i \in DOMAIN code :
          /\ code[i].start < code[i].end /\ code[i].end <= off
          /\ code[i].op \in {"jump", "cond"} => code[i].start <= code[i].use /\ code[i].use < code[i].end
          /\ \A j \in DOMAIN code : i < j => code[i].end <= code[j].start

\* No two outstanding label uses have the same offset.
UsesApart ==
    /\ \A i, j \in DOMAIN pending_fixup_records :
          i # j => pending_fixup_records[i].offset # pending_fixup_records[j].offset
    /\ \A i, j \in DOMAIN taken : i # j => taken[i].offset # taken[j].offset
    /\ \A i \in DOMAIN taken, j \in DOMAIN pending_fixup_records :
          taken[i].offset # pending_fixup_records[j].offset
    /\ \A f \in fixup_records :
          /\ \A i \in DOMAIN pending_fixup_records : pending_fixup_records[i].offset # f.offset
          /\ \A i \in DOMAIN taken : taken[i].offset # f.offset
          /\ \A g \in fixup_records : f # g => f.offset # g.offset

\* The label use of a branch is outstanding or patched, and what was patched
\* leads to code that no edit can drop.
UseInv ==
    /\ \A f \in outstanding : f.label \in allocated
    /\ \A i \in DOMAIN code : code[i].op \in {"jump", "cond"} =>
          uses_of(code[i]) # {} \/ code[i].use \in DOMAIN patched
    /\ \A o \in DOMAIN patched :
          /\ patched[o] \in Nat /\ patched[o] < off
          /\ \A k \in DOMAIN latest_branches : patched[o] < latest_branches[k].start

\* The branches that may still be edited are items.
BranchItems ==
    \A k \in DOMAIN latest_branches : \E i \in DOMAIN code :
        /\ code[i].start = latest_branches[k].start /\ code[i].end = latest_branches[k].end
        /\ code[i].op = IF latest_branches[k].cond THEN "cond" ELSE "jump"
        /\ code[i].use = code[i].start

\* The listing has the labels that are bound, and those of deferred traps.
LineInv ==
    /\ program \in Seq(Line)
    /\ \A i \in DOMAIN program :
          program[i].op \in {"jump", "cond", "label", "trap"} => program[i].label \in allocated
    /\ \A l \in Label : label_offsets[l] = UNKNOWN_LABEL_OFFSET => line_of(l) = {}
    /\ \A l \in trap_labels : label_offsets[l] = UNKNOWN_LABEL_OFFSET =>
          \E i \in DOMAIN pending_traps : pending_traps[i] = l
    /\ \A i \in DOMAIN pending_traps : pending_traps[i] \in trap_labels

\* From an island's first step to its last, nothing leads to the tail.
TailClosed ==
    pc \in {"island_pending", "island_heap", "island_traps", "finish"} =>
       /\ code # <<>>
       /\ \A i \in DOMAIN code : code[i].op \in {"inst", "cond"} => code[i].end < off
       /\ \A l \in live : label_offsets[l] # off

CInv == CodeInv /\ UsesApart /\ UseInv /\ BranchItems /\ LineInv /\ TailClosed

\* From the entry, from every label and after every instruction the buffer
\* runs like the listing, whatever the conditional branches decide.
EntryAlike(V) == RunsAlike(goto_line(1), goto_offset(0), V)
LabelAlike(l, V) == RunsAlike(goto_label(l), goto_bound(l), V)
AfterAlike(i, c, V) == RunsAlike(goto_line(i + 1), goto_offset(code[c].end), V)

OInv ==
    /\ \A V \in [Nat -> BOOLEAN] : EntryAlike(V) /\ \A l \in allocated : LabelAlike(l, V)
    /\ \A i \in DOMAIN program : program[i].op = "inst" =>
          \E c \in DOMAIN code : /\ code[c].op = "inst" /\ code[c].id = i
                                 /\ \A V \in [Nat -> BOOLEAN] : AfterAlike(i, c, V)

SemInv == IInv /\ TargetsAllocated /\ (pc # "panic" => CInv /\ OInv)

(***************************************************************************)
(* The tables of the listing and of the buffer.                            *)
(***************************************************************************)

ListingTable ==
    program \in Seq(Line) =>
      /\ Len(program) \in Nat /\ DOMAIN program = 1 .. Len(program)
      /\ \A i \in 1 .. (Len(program) + 1) : IsStep(goto_line(i), Len(program))
      /\ \A l : IsStep(goto_label(l), Len(program)) /\ goto_label(l) # tail
      /\ \A V : /\ IsNext(listing(V), Len(program))
                /\ \A i \in 1 .. Len(program) : listing(V)[i] = line_step(program[i], i, V)

\* Every line of the listing is a step to a line, or an end.
LEMMA Listing == ListingTable
<1> SUFFICES ASSUME program \in Seq(Line) PROVE ListingTable
  BY DEF ListingTable
<1> DEFINE n == Len(program)
<1>1. n \in Nat /\ DOMAIN program = 1 .. n
  OBVIOUS
<1> HIDE DEF n
<1>2. \A i \in 1 .. (n + 1) : IsStep(goto_line(i), n)
  <2>1. \A i \in 1 .. (n + 1) : i > n \/ i \in 1 .. n
    BY <1>1
  <2> QED  BY <2>1 DEF goto_line, IsStep, goto, tail, step, n
<1>3. \A l : IsStep(goto_label(l), n) /\ goto_label(l) # tail
  <2> SUFFICES ASSUME NEW l PROVE IsStep(goto_label(l), n) /\ goto_label(l) # tail
    OBVIOUS
  <2>1. CASE line_of(l) = {}
    BY <2>1 DEF goto_label, unbound, step, tail, IsStep
  <2>2. CASE line_of(l) # {}
    <3> DEFINE i == CHOOSE i \in line_of(l) : TRUE
    <3>1. i \in line_of(l)
      BY <2>2
    <3>2. i \in 1 .. n /\ goto_label(l) = goto(i)
      BY <1>1, <2>2, <3>1 DEF line_of, goto_label
    <3> HIDE DEF i
    <3> QED  BY <3>2 DEF goto, step, tail, IsStep
  <2> QED  BY <2>1, <2>2
<1>4. ASSUME NEW V
      PROVE  /\ IsNext(listing(V), n)
             /\ \A i \in 1 .. n : listing(V)[i] = line_step(program[i], i, V)
  <2>1. \A i \in 1 .. n : listing(V)[i] = line_step(program[i], i, V)
    BY <1>1 DEF listing
  <2>2. ASSUME NEW i \in 1 .. n PROVE IsStep(line_step(program[i], i, V), n)
    <3>1. i + 1 \in 1 .. (n + 1)
      BY <1>1
    <3>2. IsStep(goto_line(i + 1), n) /\ IsStep(goto_label(program[i].label), n)
      BY <1>2, <1>3, <3>1
    <3>3. IsStep(step("inst", i), n)
      BY DEF IsStep, step
    <3> QED  BY <3>2, <3>3 DEF line_step
  <2>3. DOMAIN listing(V) = 1 .. n
    BY <1>1 DEF listing
  <2>4. Len(listing(V)) = n
    <3>1. listing(V) = [i \in 1 .. n |-> line_step(program[i], i, V)]
      BY <1>1 DEF listing
    <3> QED  BY <1>1, <3>1
  <2> QED  BY <1>1, <2>1, <2>2, <2>3, <2>4 DEF IsNext
<1> QED  BY <1>1, <1>2, <1>3, <1>4 DEF ListingTable, n

EmittedTable ==
    code \in Seq(Item) =>
      /\ Len(code) \in Nat /\ DOMAIN code = 1 .. Len(code)
      /\ \A o : IsStep(goto_offset(o), Len(code))
      /\ \A l : IsStep(goto_bound(l), Len(code))
      /\ \A V : /\ IsNext(emitted(V), Len(code))
                /\ \A i \in 1 .. Len(code) : emitted(V)[i] = item_step(code[i], V)

\* Every item of the buffer is a step to an item, or an end.
LEMMA Emitted == EmittedTable
<1> SUFFICES ASSUME code \in Seq(Item) PROVE EmittedTable
  BY DEF EmittedTable
<1> DEFINE n == Len(code)
<1>1. n \in Nat /\ DOMAIN code = 1 .. n
  OBVIOUS
<1> HIDE DEF n
<1>2. \A o : IsStep(goto_offset(o), n)
  <2> SUFFICES ASSUME NEW o PROVE IsStep(goto_offset(o), n)
    OBVIOUS
  <2>1. CASE item_at(o) = {} \/ o = off
    BY <2>1 DEF goto_offset, step, tail, IsStep
  <2>2. CASE item_at(o) # {} /\ o # off
    <3> DEFINE i == CHOOSE i \in item_at(o) : TRUE
    <3>1. i \in item_at(o)
      BY <2>2
    <3>2. i \in 1 .. n /\ goto_offset(o) = goto(i)
      BY <1>1, <2>2, <3>1 DEF item_at, goto_offset
    <3> HIDE DEF i
    <3> QED  BY <3>2 DEF goto, step, IsStep
  <2> QED  BY <2>1, <2>2
<1>3. \A l : IsStep(goto_bound(l), n)
  <2>1. \A l : IsStep(unbound(l), n)
    BY DEF IsStep, unbound, step
  <2> QED  BY <1>2, <2>1 DEF goto_bound
<1>4. ASSUME NEW V
      PROVE  /\ IsNext(emitted(V), n)
             /\ \A i \in 1 .. n : emitted(V)[i] = item_step(code[i], V)
  <2>1. \A i \in 1 .. n : emitted(V)[i] = item_step(code[i], V)
    BY <1>1 DEF emitted
  <2>2. \A c : IsStep(item_step(c, V), n)
    <3>1. \A c : IsStep(follow(c), n)
      BY <1>2, <1>3 DEF follow
    <3>2. \A c : IsStep(step("inst", c.id), n) /\ IsStep(step("trap", c.id), n)
      BY DEF IsStep, step
    <3> QED  BY <1>2, <3>1, <3>2 DEF item_step
  <2>3. DOMAIN emitted(V) = 1 .. n
    BY <1>1 DEF emitted
  <2>4. Len(emitted(V)) = n
    <3>1. emitted(V) = [i \in 1 .. n |-> item_step(code[i], V)]
      BY <1>1 DEF emitted
    <3> QED  BY <1>1, <3>1
  <2> QED  BY <1>1, <2>1, <2>2, <2>3, <2>4 DEF IsNext
<1> QED  BY <1>1, <1>2, <1>3, <1>4 DEF EmittedTable, n

\* The same after a step.
LEMMA Tables1 == ListingTable' /\ EmittedTable'
BY Listing, Emitted, PTL

\* Where an offset leads.
OffsetSteps ==
    CodeInv /\ off \in Nat =>
      /\ \A i \in 1 .. Len(code) : /\ code[i] \in Item /\ item_at(code[i].start) = {i}
                                   /\ goto_offset(code[i].start) = goto(i)
      /\ \A o : o = off => goto_offset(o) = tail

\* The start of an item leads to it, the tail to the end of the code.
LEMMA Offsets == OffsetSteps
<1> SUFFICES ASSUME CodeInv, off \in Nat PROVE OffsetSteps
  BY DEF OffsetSteps
<1>1. code \in Seq(Item) /\ Len(code) \in Nat /\ DOMAIN code = 1 .. Len(code)
  BY DEF CodeInv
<1>2. ASSUME NEW i \in 1 .. Len(code)
      PROVE  /\ code[i] \in Item /\ code[i].start \in Nat /\ code[i].end \in Nat
             /\ code[i].start < code[i].end /\ code[i].end <= off
             /\ \A j \in 1 .. Len(code) : i < j => code[i].end <= code[j].start
  <2>1. code[i] \in Item
    BY <1>1
  <2>2. code[i].start \in Nat /\ code[i].end \in Nat
    BY <2>1 DEF Item
  <2> QED  BY <1>1, <2>1, <2>2 DEF CodeInv
<1>3. ASSUME NEW i \in 1 .. Len(code) PROVE item_at(code[i].start) = {i}
  <2>1. ASSUME NEW j \in 1 .. Len(code), j # i PROVE code[j].start # code[i].start
    <3>1. CASE i < j
      <4>1. code[i].end <= code[j].start
        BY <1>2, <3>1
      <4> QED  BY <1>2, <4>1
    <3>2. CASE j < i
      <4>1. code[j].end <= code[i].start
        BY <1>2, <3>2
      <4> QED  BY <1>2, <4>1
    <3> QED  BY <1>1, <2>1, <3>1, <3>2
  <2> QED  BY <1>1, <2>1 DEF item_at
<1>4. ASSUME NEW i \in 1 .. Len(code) PROVE goto_offset(code[i].start) = goto(i)
  <2>1. code[i].start # off
    BY <1>2
  <2> QED  BY <1>3, <2>1 DEF goto_offset
<1> QED  BY <1>2, <1>3, <1>4 DEF OffsetSteps, goto_offset

\* The same after a step.
LEMMA Offsets1 == OffsetSteps'
BY Offsets, PTL

(***************************************************************************)
(* The calls that add a line to the listing.                               *)
(***************************************************************************)

\* Two tables that continue alike run alike.
LEMMA ContinueAlike ==
    ASSUME NEW hs, NEW n, NEW next, NEW more, Continues(next, n, more, hs),
           NEW m, NEW other, NEW longer, Continues(other, m, longer, hs),
           \/ IsEnd(more[n + 1]) /\ longer[m + 1] = more[n + 1]
           \/ \E z, w : /\ IsStep(z, n) /\ more[n + 1] = On(z, n, hs)
                        /\ IsStep(w, m) /\ longer[m + 1] = On(w, m, hs)
                        /\ ends(next, z) = ends(other, w),
           NEW s, IsStep(s, n), NEW t, IsStep(t, m), ends(next, s) = ends(other, t)
    PROVE  ends(more, On(s, n, hs)) = ends(longer, On(t, m, hs))
<1>1. CASE IsEnd(more[n + 1]) /\ longer[m + 1] = more[n + 1]
  <2>1. ends(more, On(s, n, hs)) = IF ends(next, s) \in hs THEN more[n + 1] ELSE ends(next, s)
    BY <1>1, ContinueEnd
  <2>2. ends(longer, On(t, m, hs)) = IF ends(other, t) \in hs THEN longer[m + 1] ELSE ends(other, t)
    BY <1>1, ContinueEnd
  <2> QED  BY <1>1, <2>1, <2>2
<1>2. CASE \E z, w : /\ IsStep(z, n) /\ more[n + 1] = On(z, n, hs)
                     /\ IsStep(w, m) /\ longer[m + 1] = On(w, m, hs)
                     /\ ends(next, z) = ends(other, w)
  <2>1. PICK z, w : /\ IsStep(z, n) /\ more[n + 1] = On(z, n, hs)
                    /\ IsStep(w, m) /\ longer[m + 1] = On(w, m, hs)
                    /\ ends(next, z) = ends(other, w)
    BY <1>2
  <2>2. ends(more, On(s, n, hs)) =
           IF ends(next, s) \notin hs THEN ends(next, s)
           ELSE IF ends(next, z) \in hs THEN loop ELSE ends(next, z)
    BY <2>1, ContinueGoto
  <2>3. ends(longer, On(t, m, hs)) =
           IF ends(other, t) \notin hs THEN ends(other, t)
           ELSE IF ends(other, w) \in hs THEN loop ELSE ends(other, w)
    BY <2>1, ContinueGoto
  <2> QED  BY <2>1, <2>2, <2>3
<1> QED  BY <1>1, <1>2

\* What Append does to a sequence.
LEMMA AppendAt ==
    ASSUME NEW R, NEW s \in Seq(R), NEW r \in R
    PROVE  /\ Append(s, r) \in Seq(R) /\ Len(Append(s, r)) = Len(s) + 1
           /\ Append(s, r)[Len(s) + 1] = r
           /\ Len(s) \in Nat /\ DOMAIN s = 1 .. Len(s)
           /\ DOMAIN Append(s, r) = 1 .. (Len(s) + 1)
           /\ \A i \in 1 .. Len(s) : i \in 1 .. (Len(s) + 1) /\ i # Len(s) + 1 /\ Append(s, r)[i] = s[i]
OBVIOUS

\* A line other than a label follows what came before.
LEMMA ListingAppend ==
    ASSUME program \in Seq(Line), NEW p \in Line, program' = Append(program, p), p.op # "label",
           \A i \in DOMAIN program : program[i].op \in {"jump", "cond"} /\ p.op = "trap"
              => program[i].label # p.label,
           NEW V
    PROVE  LET n == Len(program) IN
           /\ Continues(listing(V), n, listing(V)', {tail})
           /\ \A k : k = n + 1 => listing(V)'[k] = line_step(p, k, V)'
           /\ \A i \in 1 .. (n + 1) : goto_line(i)' = On(goto_line(i), n, {tail})
           /\ \A l : (p.op = "trap" => l # p.label) =>
                 goto_label(l)' = goto_label(l) /\ goto_label(l) = On(goto_label(l), n, {tail})
           /\ \A k \in Nat : k > n + 1 => goto_line(k)' = tail
<1> DEFINE n == Len(program)
<1>1. /\ program' \in Seq(Line) /\ Len(program') = n + 1 /\ program'[n + 1] = p
      /\ n \in Nat /\ DOMAIN program = 1 .. n /\ DOMAIN program' = 1 .. (n + 1)
      /\ \A i \in 1 .. n : i \in 1 .. (n + 1) /\ i # n + 1 /\ program'[i] = program[i]
  BY AppendAt
<1>2. /\ \A i \in 1 .. (n + 1) : IsStep(goto_line(i), n)
      /\ \A l : IsStep(goto_label(l), n) /\ goto_label(l) # tail
      /\ IsNext(listing(V), n)
      /\ \A i \in 1 .. n : listing(V)[i] = line_step(program[i], i, V)
  BY Listing DEF ListingTable
<1>3. /\ IsNext(listing(V)', n + 1)
      /\ \A i \in 1 .. (n + 1) : listing(V)'[i] = line_step(program[i], i, V)'
  BY <1>1, Tables1 DEF ListingTable
<1>4. ASSUME NEW l PROVE line_of(l)' = line_of(l)
  BY <1>1 DEF line_of
<1>5. trap_labels' = IF p.op = "trap" THEN trap_labels \cup {p.label} ELSE trap_labels
  <2>1. trap_labels = {program[i].label : i \in {j \in 1 .. n : program[j].op = "trap"}}
    BY <1>1 DEF trap_labels
  <2>2. trap_labels' = {program'[i].label : i \in {j \in 1 .. (n + 1) : program'[j].op = "trap"}}
    BY <1>1 DEF trap_labels
  <2>3. \A i \in 1 .. (n + 1) : i \in 1 .. n \/ i = n + 1
    BY <1>1
  <2> QED  BY <1>1, <2>1, <2>2, <2>3
<1>6. \A l : (p.op = "trap" => l # p.label) => goto_label(l)' = goto_label(l)
  <2> SUFFICES ASSUME NEW l, p.op = "trap" => l # p.label PROVE goto_label(l)' = goto_label(l)
    OBVIOUS
  <2>1. line_of(l)' = line_of(l) /\ (l \in trap_labels' <=> l \in trap_labels)
    BY <1>4, <1>5
  <2> QED  BY <2>1 DEF goto_label, unbound
<1>7. \A i \in 1 .. (n + 1) : goto_line(i)' = On(goto_line(i), n, {tail})
  <2> SUFFICES ASSUME NEW i \in 1 .. (n + 1) PROVE goto_line(i)' = On(goto_line(i), n, {tail})
    OBVIOUS
  <2>1. goto_line(i)' = goto(i)
    BY <1>1 DEF goto_line
  <2>2. CASE i = n + 1
    BY <1>1, <2>1, <2>2 DEF goto_line, On, n
  <2>3. CASE i # n + 1
    <3>1. goto_line(i) = goto(i)
      BY <1>1, <2>3 DEF goto_line, n
    <3> QED  BY <2>1, <3>1 DEF On, goto, tail, step
  <2> QED  BY <2>2, <2>3
<1>8. \A k \in Nat : k > n + 1 => goto_line(k)' = tail
  BY <1>1 DEF goto_line
<1>9. \A l : goto_label(l) = On(goto_label(l), n, {tail})
  BY <1>2 DEF On
<1>10. \A i \in 1 .. n : listing(V)'[i] = IF listing(V)[i] \in {tail} THEN goto(n + 1) ELSE listing(V)[i]
  <2> SUFFICES ASSUME NEW i \in 1 .. n
               PROVE  listing(V)'[i] = On(listing(V)[i], n, {tail})
    BY DEF On
  <2>1. listing(V)'[i] = line_step(program[i], i, V)' /\ program'[i] = program[i]
    BY <1>1, <1>3
  <2>2. listing(V)[i] = line_step(program[i], i, V)
    BY <1>2
  <2>3. i + 1 \in 1 .. (n + 1)
    BY <1>1
  <2>4. CASE program[i].op \in {"inst", "ret"}
    BY <2>1, <2>2, <2>4 DEF line_step, On, step, tail
  <2>5. CASE program[i].op = "jump" \/ (program[i].op = "cond" /\ V[i])
    <3>1. listing(V)[i] = goto_label(program[i].label)
      BY <2>2, <2>5 DEF line_step
    <3>2. listing(V)'[i] = goto_label(program[i].label)'
      BY <2>1, <2>5 DEF line_step
    <3>3. p.op = "trap" => program[i].label # p.label
      BY <1>1, <2>5
    <3> QED  BY <1>6, <1>9, <2>1, <3>1, <3>2, <3>3
  <2>6. CASE ~(program[i].op \in {"inst", "ret"})
             /\ ~(program[i].op = "jump" \/ (program[i].op = "cond" /\ V[i]))
    <3>1. listing(V)[i] = goto_line(i + 1) /\ listing(V)'[i] = goto_line(i + 1)'
      BY <2>1, <2>2, <2>6 DEF line_step
    <3> QED  BY <1>7, <2>3, <3>1
  <2> QED  BY <2>4, <2>5, <2>6
<1>11. Continues(listing(V), n, listing(V)', {tail})
  BY <1>2, <1>3, <1>10 DEF Continues, IsEnd, tail, step
<1>12. \A k : k = n + 1 => listing(V)'[k] = line_step(p, k, V)'
  <2> SUFFICES ASSUME NEW k, k = n + 1 PROVE listing(V)'[k] = line_step(p, k, V)'
    OBVIOUS
  <2>1. k \in 1 .. (n + 1) /\ program'[k] = p
    BY <1>1
  <2>2. listing(V)'[k] = line_step(program[k], k, V)'
    BY <1>3, <2>1
  <2> QED  BY <2>1, <2>2 DEF line_step
<1> QED  BY <1>1, <1>6, <1>7, <1>8, <1>9, <1>11, <1>12

\* A label does too, and so do the uses it had so far.
LEMMA ListingBind ==
    ASSUME program \in Seq(Line), NEW l \in Label,
           program' = Append(program, [op |-> "label", label |-> l]),
           line_of(l) = {}, l \notin trap_labels, NEW V
    PROVE  LET n == Len(program)
               hs == {tail, unbound(l)}
           IN
           /\ Continues(listing(V), n, listing(V)', hs)
           /\ listing(V)'[n + 1] = tail
           /\ \A i \in 1 .. (n + 1) : goto_line(i)' = On(goto_line(i), n, hs)
           /\ \A x : goto_label(x)' = On(goto_label(x), n, hs)
           /\ trap_labels' = trap_labels /\ unbound(l) = step("unbound", l)
<1> DEFINE n == Len(program)
           hs == {tail, unbound(l)}
           p == [op |-> "label", label |-> l]
<1>0. p \in Line
  BY DEF Line
<1>1. /\ program' \in Seq(Line) /\ Len(program') = n + 1 /\ program'[n + 1] = p
      /\ n \in Nat /\ DOMAIN program = 1 .. n /\ DOMAIN program' = 1 .. (n + 1)
      /\ \A i \in 1 .. n : i \in 1 .. (n + 1) /\ i # n + 1 /\ program'[i] = program[i]
      /\ n + 1 \in 1 .. (n + 1)
  BY <1>0, AppendAt
<1>2. /\ \A i \in 1 .. (n + 1) : IsStep(goto_line(i), n)
      /\ IsNext(listing(V), n)
      /\ \A i \in 1 .. n : listing(V)[i] = line_step(program[i], i, V)
  BY Listing DEF ListingTable
<1>3. /\ IsNext(listing(V)', n + 1)
      /\ \A i \in 1 .. (n + 1) : listing(V)'[i] = line_step(program[i], i, V)'
  BY <1>1, Tables1 DEF ListingTable
<1>4. unbound(l) = step("unbound", l)
  BY DEF unbound
<1>5. ASSUME NEW x PROVE line_of(x)' = line_of(x) \cup (IF x = l THEN {n + 1} ELSE {})
  <2>1. \A i \in 1 .. (n + 1) : i \in 1 .. n \/ i = n + 1
    BY <1>1
  <2> QED  BY <1>1, <2>1 DEF line_of
<1>6. trap_labels' = trap_labels
  <2>1. trap_labels = {program[i].label : i \in {j \in 1 .. n : program[j].op = "trap"}}
    BY <1>1 DEF trap_labels
  <2>2. trap_labels' = {program'[i].label : i \in {j \in 1 .. (n + 1) : program'[j].op = "trap"}}
    BY <1>1 DEF trap_labels
  <2>3. \A i \in 1 .. (n + 1) : i \in 1 .. n \/ i = n + 1
    BY <1>1
  <2> QED  BY <1>1, <2>1, <2>2, <2>3
<1> HIDE DEF p
<1>7. ASSUME NEW x PROVE goto_label(x)' = On(goto_label(x), n, hs)
  <2>1. CASE x = l
    <3>1. line_of(x)' = {n + 1} /\ line_of(x) = {}
      BY <1>5, <2>1
    <3>2. goto_label(x)' = goto(n + 1) /\ goto_label(x) = unbound(l)
      BY <2>1, <3>1 DEF goto_label
    <3> QED  BY <3>2 DEF On
  <2>2. CASE x # l
    <3>1. line_of(x)' = line_of(x)
      BY <1>5, <2>2
    <3>2. goto_label(x)' = goto_label(x)
      BY <1>6, <3>1 DEF goto_label, unbound
    <3>3. goto_label(x) # tail /\ goto_label(x) # unbound(l)
      BY <1>4, <2>2 DEF goto_label, unbound, step, tail, goto
    <3> QED  BY <3>2, <3>3 DEF On
  <2> QED  BY <2>1, <2>2
<1>8. \A i \in 1 .. (n + 1) : goto_line(i)' = On(goto_line(i), n, hs)
  <2> SUFFICES ASSUME NEW i \in 1 .. (n + 1) PROVE goto_line(i)' = On(goto_line(i), n, hs)
    OBVIOUS
  <2>1. goto_line(i)' = goto(i)
    BY <1>1 DEF goto_line
  <2>2. CASE i = n + 1
    BY <1>1, <2>1, <2>2 DEF goto_line, On, n
  <2>3. CASE i # n + 1
    <3>1. goto_line(i) = goto(i)
      BY <1>1, <2>3 DEF goto_line, n
    <3> QED  BY <1>4, <2>1, <3>1 DEF On, goto, tail, step
  <2> QED  BY <2>2, <2>3
<1>9. listing(V)'[n + 1] = tail
  <2>1. PICK k \in Nat : k = n + 1
    BY <1>1
  <2>2. goto_line(k + 1)' = tail
    BY <1>1, <2>1 DEF goto_line
  <2>3. program'[k].op = "label"
    BY <1>1, <2>1 DEF p
  <2>4. listing(V)'[k] = line_step(program[k], k, V)'
    BY <1>1, <1>3, <2>1
  <2> QED  BY <2>1, <2>2, <2>3, <2>4 DEF line_step
<1>10. \A i \in 1 .. n : listing(V)'[i] = IF listing(V)[i] \in hs THEN goto(n + 1) ELSE listing(V)[i]
  <2> SUFFICES ASSUME NEW i \in 1 .. n
               PROVE  listing(V)'[i] = On(listing(V)[i], n, hs)
    BY DEF On
  <2>1. listing(V)'[i] = line_step(program[i], i, V)' /\ program'[i] = program[i]
    BY <1>1, <1>3
  <2>2. listing(V)[i] = line_step(program[i], i, V)
    BY <1>2
  <2>3. i + 1 \in 1 .. (n + 1)
    BY <1>1
  <2>4. CASE program[i].op \in {"inst", "ret"}
    <3>1. listing(V)[i] = step("inst", i) /\ listing(V)'[i] = step("inst", i)
      BY <2>1, <2>2, <2>4 DEF line_step
    <3> QED  BY <1>4, <3>1 DEF On, step, tail
  <2>5. CASE program[i].op = "jump" \/ (program[i].op = "cond" /\ V[i])
    <3>1. listing(V)[i] = goto_label(program[i].label)
      BY <2>2, <2>5 DEF line_step
    <3>2. listing(V)'[i] = goto_label(program[i].label)'
      BY <2>1, <2>5 DEF line_step
    <3> QED  BY <1>7, <2>1, <3>1, <3>2
  <2>6. CASE ~(program[i].op \in {"inst", "ret"})
             /\ ~(program[i].op = "jump" \/ (program[i].op = "cond" /\ V[i]))
    <3>1. listing(V)[i] = goto_line(i + 1) /\ listing(V)'[i] = goto_line(i + 1)'
      BY <2>1, <2>2, <2>6 DEF line_step
    <3> QED  BY <1>8, <2>3, <3>1
  <2> QED  BY <2>4, <2>5, <2>6
<1>11. Continues(listing(V), n, listing(V)', hs)
  <2>1. \A h \in hs : IsEnd(h)
    BY <1>4 DEF IsEnd, tail, step
  <2> HIDE DEF hs
  <2> QED  BY <1>2, <1>3, <1>10, <2>1 DEF Continues
<1> QED  BY <1>4, <1>6, <1>7, <1>8, <1>9, <1>11

(***************************************************************************)
(* The calls that add an item to the buffer.                               *)
(***************************************************************************)

\* A step that goes nowhere ends the run.
LEMMA EndsAtOnce ==
    ASSUME NEW next, NEW s, s.does # "goto" PROVE ends(next, s) = s
BY DEF ends

\* Outstanding label uses lie in the buffer.
UsesInBuffer ==
    IInv => \A f \in outstanding : /\ f \in Fixup /\ f.label \in Label
                                   /\ f.offset \in Nat /\ f.offset < off

\* The label uses patch bytes that are in the buffer (FixupsInBuffer).
LEMMA UseOffsets == UsesInBuffer
<1> SUFFICES ASSUME IInv, NEW f \in outstanding
             PROVE  f \in Fixup /\ f.label \in Label /\ f.offset \in Nat /\ f.offset < off
  BY DEF UsesInBuffer
<1>1. f \in Fixup
  BY DEF IInv, TypeOK, outstanding
<1>2. end_of(f) <= off
  BY DEF IInv, FixupsInBuffer, outstanding
<1>3. f.offset \in Nat /\ f.label \in Label /\ f.kind \in Kind
  BY <1>1 DEF Fixup
<1>4. PatchSize[f.kind] \in Nat /\ PatchSize[f.kind] > 0
  BY <1>3, KindType
<1>5. off \in Nat
  BY DEF IInv, TypeOK
<1> QED  BY <1>1, <1>2, <1>3, <1>4, <1>5 DEF end_of

\* The same after a step.
LEMMA UseOffsets1 == UsesInBuffer'
BY UseOffsets, PTL

\* The uses of an item are at most one.
OneUse ==
    UsesApart =>
      /\ \A f, g \in outstanding : f.offset = g.offset => f = g
      /\ \A c : \A f \in outstanding : f.offset = c.use => uses_of(c) = {f}

\* UsesApart: a label use is known by its offset.
LEMMA OneUseFacts == OneUse
<1> SUFFICES ASSUME UsesApart PROVE OneUse
  BY DEF OneUse
<1>1. ASSUME NEW f \in outstanding, NEW g \in outstanding, f.offset = g.offset PROVE f = g
  <2>1. \/ f \in fixup_records
        \/ \E i \in DOMAIN pending_fixup_records : f = pending_fixup_records[i]
        \/ \E i \in DOMAIN taken : f = taken[i]
    BY DEF outstanding
  <2>2. \/ g \in fixup_records
        \/ \E i \in DOMAIN pending_fixup_records : g = pending_fixup_records[i]
        \/ \E i \in DOMAIN taken : g = taken[i]
    BY DEF outstanding
  <2> QED  BY <1>1, <2>1, <2>2 DEF UsesApart
<1>2. ASSUME NEW c, NEW f \in outstanding, f.offset = c.use PROVE uses_of(c) = {f}
  BY <1>1, <1>2 DEF uses_of
<1> QED  BY <1>1, <1>2 DEF OneUse

\* The same after a step.
LEMMA OneUseFacts1 == OneUse'
BY OneUseFacts, PTL

\* Where a label leads, by the label at the end of its aliases.
bound_step(l) ==
    IF label_offsets[l] = UNKNOWN_LABEL_OFFSET THEN unbound(l) ELSE goto_offset(label_offsets[l])
BoundSteps ==
    IInv => \A l \in Label :
        /\ root[l] \in Label /\ root[l] \in live /\ goto_bound(l) = bound_step(root[l])
        /\ label_offsets[root[l]] # UNKNOWN_LABEL_OFFSET =>
              label_offsets[root[l]] \in Nat /\ label_offsets[root[l]] <= off

\* A label leads where the label at the end of its aliases is bound.
LEMMA Bounds == BoundSteps
<1> SUFFICES ASSUME IInv, NEW l \in Label
             PROVE  /\ root[l] \in Label /\ root[l] \in live /\ goto_bound(l) = bound_step(root[l])
                    /\ label_offsets[root[l]] # UNKNOWN_LABEL_OFFSET =>
                          label_offsets[root[l]] \in Nat /\ label_offsets[root[l]] <= off
  BY DEF BoundSteps
<1>1. /\ root[l] \in Label /\ root[l] \in live
      /\ resolve_label_offset[l] = label_offsets[root[l]]
  BY RootFacts DEF IInv
<1>2. goto_bound(l) = bound_step(root[l])
  BY <1>1 DEF goto_bound, bound_step
<1>3. label_offsets[root[l]] \in Offset /\ label_offsets[root[l]] <= off
  BY <1>1 DEF IInv, TypeOK, NoLabelPastTail
<1> QED  BY <1>1, <1>2, <1>3 DEF Offset

\* The same after a step.
LEMMA Bounds1 == BoundSteps'
BY Bounds, PTL

\* A new item at the tail.
LEMMA OffsetAppend ==
    ASSUME CodeInv, off \in Nat, off' \in Nat, off < off',
           NEW c \in Item, code' = Append(code, c), c.start = off
    PROVE  /\ \A o \in Nat : o <= off => goto_offset(o)' = On(goto_offset(o), Len(code), {tail})
           /\ \A o : o = off' => goto_offset(o)' = tail
<1> DEFINE n == Len(code)
<1>1. /\ n \in Nat /\ DOMAIN code = 1 .. n /\ DOMAIN code' = 1 .. (n + 1) /\ code'[n + 1] = c
      /\ \A i \in 1 .. n : i \in 1 .. (n + 1) /\ i # n + 1 /\ code'[i] = code[i]
      /\ n + 1 \in 1 .. (n + 1)
      /\ \A i \in 1 .. (n + 1) : i \in 1 .. n \/ i = n + 1
  BY AppendAt DEF CodeInv
<1>2. \A i \in 1 .. n : code[i] \in Item /\ code[i].start < code[i].end /\ code[i].end <= off
  BY <1>1 DEF CodeInv
<1>3. \A i \in 1 .. n : code[i].start # off
  BY <1>2 DEF Item
<1>4. ASSUME NEW o \in Nat, o <= off PROVE goto_offset(o)' = On(goto_offset(o), n, {tail})
  <2>1. CASE o = off
    <3>1. item_at(o)' = {n + 1}
      BY <1>1, <1>3, <2>1 DEF item_at
    <3>2. goto_offset(o) = tail
      BY <2>1 DEF goto_offset
    <3>3. goto_offset(o)' = goto(n + 1)
      BY <2>1, <3>1 DEF goto_offset
    <3> QED  BY <3>2, <3>3 DEF On
  <2>2. CASE o # off
    <3>1. item_at(o)' = item_at(o)
      BY <1>1, <2>2 DEF item_at
    <3>2. o # off'
      BY <1>4, <2>2
    <3>3. goto_offset(o)' = goto_offset(o)
      BY <2>2, <3>1, <3>2 DEF goto_offset
    <3>4. goto_offset(o) # tail
      BY <2>2 DEF goto_offset, goto, step, tail
    <3> QED  BY <3>3, <3>4 DEF On
  <2> QED  BY <2>1, <2>2
<1> QED  BY <1>4 DEF goto_offset

\* A new item at the tail changes where labels lead from the tail to the item.
LEMMA BoundAppend ==
    ASSUME IInv, CodeInv, IInv', off < off', NEW c \in Item, code' = Append(code, c), c.start = off,
           UNCHANGED <<label_offsets, label_aliases, trap_labels>>, NEW l \in Label
    PROVE  goto_bound(l)' = On(goto_bound(l), Len(code), {tail})
<1>1. off \in Nat /\ off' \in Nat /\ TypeOK /\ NoAliasCycle /\ TypeOK' /\ NoAliasCycle'
  BY DEF IInv, TypeOK
<1>2. root'[l] = root[l]
  BY <1>1, RootKept
<1>3. PICK r : r = root[l]
  OBVIOUS
<1>4. goto_bound(l) = bound_step(r) /\ goto_bound(l)' = bound_step(r)'
  BY <1>2, <1>3, Bounds, Bounds1 DEF BoundSteps
<1>5. label_offsets[r] # UNKNOWN_LABEL_OFFSET => label_offsets[r] \in Nat /\ label_offsets[r] <= off
  BY <1>3, Bounds DEF BoundSteps
<1>6. CASE label_offsets[r] = UNKNOWN_LABEL_OFFSET
  <2>1. bound_step(r)' = bound_step(r) /\ bound_step(r) = unbound(r)
    BY <1>6 DEF bound_step, unbound
  <2> QED  BY <1>4, <2>1 DEF On, unbound, step, tail
<1>7. CASE label_offsets[r] # UNKNOWN_LABEL_OFFSET
  <2>1. PICK o \in Nat : o = label_offsets[r] /\ o <= off
    BY <1>5, <1>7
  <2>2. bound_step(r) = goto_offset(o) /\ bound_step(r)' = goto_offset(o)'
    BY <1>7, <2>1 DEF bound_step
  <2> QED  BY <1>1, <1>4, <2>1, <2>2, OffsetAppend
<1> QED  BY <1>6, <1>7

\* With the item its label use, if it has one.
LEMMA EmittedAppend ==
    ASSUME IInv, CInv, IInv', off < off', NEW c \in Item, code' = Append(code, c), c.start = off,
           UNCHANGED <<label_offsets, label_aliases, trap_labels, patched>>,
           outstanding' = outstanding \/ \E g : g.offset = off /\ outstanding' = outstanding \cup {g},
           NEW V
    PROVE  LET n == Len(code) IN
           /\ Continues(emitted(V), n, emitted(V)', {tail})
           /\ \A k : k = n + 1 => emitted(V)'[k] = item_step(c, V)'
<1> DEFINE n == Len(code)
<1>0. CodeInv /\ code \in Seq(Item) /\ off \in Nat /\ off' \in Nat /\ UseInv /\ UsesApart
  BY DEF CInv, CodeInv, IInv, TypeOK
<1>1. /\ n \in Nat /\ DOMAIN code = 1 .. n /\ DOMAIN code' = 1 .. (n + 1) /\ code'[n + 1] = c
      /\ \A i \in 1 .. n : i \in 1 .. (n + 1) /\ i # n + 1 /\ code'[i] = code[i]
      /\ n + 1 \in 1 .. (n + 1) /\ code' \in Seq(Item) /\ Len(code') = n + 1
  BY <1>0, AppendAt
<1>2. /\ IsNext(emitted(V), n)
      /\ \A i \in 1 .. n : emitted(V)[i] = item_step(code[i], V)
  BY <1>0, Emitted DEF EmittedTable
<1>3. /\ IsNext(emitted(V)', n + 1)
      /\ \A i \in 1 .. (n + 1) : emitted(V)'[i] = item_step(code[i], V)'
  BY <1>1, Tables1 DEF EmittedTable
<1>4. \A o \in Nat : o <= off => goto_offset(o)' = On(goto_offset(o), n, {tail})
  BY <1>0, OffsetAppend
<1>5. \A l \in Label : goto_bound(l)' = On(goto_bound(l), n, {tail})
  BY <1>0, BoundAppend
<1>6. ASSUME NEW d, d.use \in Nat, d.use < off PROVE uses_of(d)' = uses_of(d)
  BY <1>0, <1>6 DEF uses_of
<1>7. ASSUME NEW i \in 1 .. n, NEW d, d = code[i]
      PROVE  item_step(d, V)' = On(item_step(d, V), n, {tail})
  <2>1. d \in Item /\ d.end \in Nat /\ d.end <= off /\ d.use \in Nat
        /\ (d.op \in {"jump", "cond"} => d.use < off)
    <3>1. d \in Item
      BY <1>0, <1>7
    <3>2. d.end \in Nat /\ d.use \in Nat
      BY <3>1 DEF Item
    <3> QED  BY <1>0, <1>1, <1>7, <3>1, <3>2 DEF CodeInv
  <2>2. CASE d.op \in {"inst", "ret", "trap"}
    BY <2>2 DEF item_step, On, step, tail
  <2>3. CASE d.op = "jump" \/ (d.op = "cond" /\ V[d.id] = d.sense)
    <3>1. item_step(d, V) = follow(d) /\ item_step(d, V)' = follow(d)'
      BY <2>3 DEF item_step
    <3>2. uses_of(d)' = uses_of(d)
      BY <1>6, <2>1, <2>3
    <3>3. CASE uses_of(d) = {}
      <4>1. d.use \in DOMAIN patched
        BY <1>0, <1>1, <1>7, <2>3, <3>3 DEF UseInv
      <4>2. PICK o \in Nat : o = patched[d.use] /\ o <= off
        BY <1>0, <4>1 DEF UseInv
      <4>3. follow(d) = goto_offset(o) /\ follow(d)' = goto_offset(o)'
        BY <3>2, <3>3, <4>2 DEF follow
      <4> QED  BY <1>4, <3>1, <4>2, <4>3
    <3>4. CASE uses_of(d) # {}
      <4>1. PICK f \in uses_of(d) : f = CHOOSE g \in uses_of(d) : TRUE
        BY <3>4
      <4>2. PICK l : l = f.label
        OBVIOUS
      <4>3. f \in outstanding
        BY DEF uses_of
      <4>4. l \in Label
        BY <4>2, <4>3, UseOffsets DEF UsesInBuffer
      <4>5. follow(d) = goto_bound(l) /\ follow(d)' = goto_bound(l)'
        BY <3>2, <3>4, <4>1, <4>2 DEF follow
      <4> QED  BY <1>5, <3>1, <4>4, <4>5
    <3> QED  BY <3>3, <3>4
  <2>4. CASE ~(d.op \in {"inst", "ret", "trap"})
             /\ ~(d.op = "jump" \/ (d.op = "cond" /\ V[d.id] = d.sense))
    <3>1. item_step(d, V) = goto_offset(d.end) /\ item_step(d, V)' = goto_offset(d.end)'
      BY <2>4 DEF item_step
    <3> QED  BY <1>4, <2>1, <3>1
  <2> QED  BY <2>2, <2>3, <2>4
<1>8. \A i \in 1 .. n : emitted(V)'[i] = IF emitted(V)[i] \in {tail} THEN goto(n + 1) ELSE emitted(V)[i]
  <2> SUFFICES ASSUME NEW i \in 1 .. n PROVE emitted(V)'[i] = On(emitted(V)[i], n, {tail})
    BY DEF On
  <2>1. PICK d : d = code[i]
    OBVIOUS
  <2>2. code'[i] = d
    BY <1>1, <2>1
  <2>3. emitted(V)'[i] = item_step(d, V)' /\ emitted(V)[i] = item_step(d, V)
    BY <1>1, <1>2, <1>3, <2>1, <2>2
  <2> QED  BY <1>7, <2>1, <2>3
<1>9. \A k : k = n + 1 => emitted(V)'[k] = item_step(c, V)'
  <2> SUFFICES ASSUME NEW k, k = n + 1 PROVE emitted(V)'[k] = item_step(c, V)'
    OBVIOUS
  <2>1. k \in 1 .. (n + 1) /\ code'[k] = c
    BY <1>1
  <2> QED  BY <1>3, <2>1
<1>10. Continues(emitted(V), n, emitted(V)', {tail})
  BY <1>2, <1>3, <1>8 DEF Continues, IsEnd, tail, step
<1> QED  BY <1>9, <1>10

\* Labels that were handed out are labels.
LEMMA AllocatedLabels ==
    ASSUME IInv
    PROVE  /\ nlabels \in Nat /\ \A l \in allocated : l \in Label
<1>1. nlabels \in 0 .. MaxLabels /\ MaxLabels \in Nat
  BY SizesAssumption DEF IInv, TypeOK
<1> QED  BY <1>1 DEF allocated, Label

\* What a line leaves of the labels of the listing.
LEMMA LabelsAppend ==
    ASSUME program \in Seq(Line), NEW p \in Line, program' = Append(program, p)
    PROVE  /\ trap_labels' = IF p.op = "trap" THEN trap_labels \cup {p.label} ELSE trap_labels
           /\ \A l : line_of(l)' = line_of(l) \cup
                 (IF p.op = "label" /\ p.label = l THEN {Len(program) + 1} ELSE {})
<1> DEFINE n == Len(program)
<1>1. /\ program'[n + 1] = p /\ DOMAIN program = 1 .. n /\ DOMAIN program' = 1 .. (n + 1)
      /\ \A i \in 1 .. n : i \in 1 .. (n + 1) /\ i # n + 1 /\ program'[i] = program[i]
      /\ \A i \in 1 .. (n + 1) : i \in 1 .. n \/ i = n + 1
      /\ n + 1 \in 1 .. (n + 1)
  BY AppendAt
<1> HIDE DEF n
<1>2. trap_labels = {program[i].label : i \in {j \in 1 .. n : program[j].op = "trap"}}
  BY <1>1 DEF trap_labels
<1>3. trap_labels' = {program'[i].label : i \in {j \in 1 .. (n + 1) : program'[j].op = "trap"}}
  BY <1>1 DEF trap_labels
<1>4. trap_labels' = IF p.op = "trap" THEN trap_labels \cup {p.label} ELSE trap_labels
  BY <1>1, <1>2, <1>3
<1>5. ASSUME NEW l
      PROVE  line_of(l)' = line_of(l) \cup (IF p.op = "label" /\ p.label = l THEN {n + 1} ELSE {})
  BY <1>1 DEF line_of
<1> QED  BY <1>4, <1>5 DEF n

\* SemPut, SemCond and SemJump: line p and item c, with a label use if they
\* have a label.
Adds(p, c) ==
    /\ pc = "idle" /\ pc' = "idle"
    /\ p \in Line /\ program' = Append(program, p)
    /\ c \in Item /\ code' = Append(code, c)
    /\ p.op \in {"inst", "ret", "jump", "cond"} /\ c.op = p.op
    /\ c.start = off /\ c.end = off' /\ off < off' /\ c.use = off
    /\ c.id = Len(program) + 1 /\ c.sense = TRUE
    /\ UNCHANGED <<nlabels, label_offsets, label_aliases, patched, pending_traps,
                   fixup_records, taken>>
    /\ \/ p.op \in {"inst", "ret"} /\ UNCHANGED <<pending_fixup_records, latest_branches>>
       \/ /\ p.op \in {"jump", "cond"} /\ p.label \in allocated
          /\ \E g \in Fixup : /\ g.offset = off /\ g.label = p.label
                              /\ pending_fixup_records' = Append(pending_fixup_records, g)
          /\ \/ UNCHANGED latest_branches
             \/ \E br \in Branch :
                   /\ latest_branches' = Append(latest_branches, br)
                   /\ br.start = off /\ br.end = off' /\ br.cond = (p.op = "cond")

\* A branch adds one label use, any other call none.
LEMMA AddsUses ==
    ASSUME IInv, NEW p, NEW c, Adds(p, c)
    PROVE  \/ p.op \in {"inst", "ret"} /\ outstanding' = outstanding
           \/ /\ p.op \in {"jump", "cond"} /\ p.label \in allocated /\ p.label \in Label
              /\ \E g \in Fixup : /\ g.offset = off /\ g.label = p.label
                                  /\ outstanding' = outstanding \cup {g}
<1>1. CASE p.op \in {"inst", "ret"}
  BY <1>1 DEF Adds, outstanding
<1>2. CASE p.op \in {"jump", "cond"}
  <2>1. PICK g \in Fixup : /\ g.offset = off /\ g.label = p.label
                           /\ pending_fixup_records' = Append(pending_fixup_records, g)
    BY <1>2 DEF Adds
  <2>2. pending_fixup_records \in Seq(Fixup)
    BY DEF IInv, TypeOK
  <2>3. {pending_fixup_records'[i] : i \in DOMAIN pending_fixup_records'}
          = {pending_fixup_records[i] : i \in DOMAIN pending_fixup_records} \cup {g}
    <3> DEFINE n == Len(pending_fixup_records)
    <3>1. /\ pending_fixup_records'[n + 1] = g
          /\ DOMAIN pending_fixup_records = 1 .. n /\ DOMAIN pending_fixup_records' = 1 .. (n + 1)
          /\ \A i \in 1 .. n : i \in 1 .. (n + 1) /\ pending_fixup_records'[i] = pending_fixup_records[i]
          /\ \A i \in 1 .. (n + 1) : i \in 1 .. n \/ i = n + 1
          /\ n + 1 \in 1 .. (n + 1)
      BY <2>1, <2>2, AppendAt
    <3> HIDE DEF n
    <3> QED  BY <3>1
  <2>4. outstanding' = outstanding \cup {g}
    <3>1. fixup_records' = fixup_records /\ taken' = taken
      BY DEF Adds
    <3>2. outstanding' = fixup_records
              \cup {pending_fixup_records'[i] : i \in DOMAIN pending_fixup_records'}
              \cup {taken[i] : i \in DOMAIN taken}
      BY <3>1 DEF outstanding
    <3> QED  BY <2>3, <3>2 DEF outstanding
  <2>5. p.label \in allocated /\ p.label \in Label
    BY <1>2, <2>1 DEF Adds, Fixup
  <2> QED  BY <1>2, <2>1, <2>4, <2>5
<1> QED  BY <1>1, <1>2 DEF Adds

\* The new line and the new item lead to the same place.
LEMMA AddsAlike ==
    ASSUME IInv, CInv, OInv, IInv', NEW p, NEW c, Adds(p, c), NEW V \in [Nat -> BOOLEAN],
           NEW s, IsStep(s, Len(program)), NEW t, IsStep(t, Len(code)), RunsAlike(s, t, V)
    PROVE  ends(listing(V)', On(s, Len(program), {tail}))
              = ends(emitted(V)', On(t, Len(code), {tail}))
<1> DEFINE n == Len(program)
           m == Len(code)
           hs == {tail}
<1>1. /\ program \in Seq(Line) /\ p \in Line /\ program' = Append(program, p)
      /\ code \in Seq(Item) /\ c \in Item /\ code' = Append(code, c)
      /\ p.op # "label" /\ p.op # "trap" /\ c.op = p.op /\ c.start = off /\ off < off'
      /\ CodeInv /\ off \in Nat /\ off' \in Nat /\ n \in Nat /\ UsesApart
  <2>1. program \in Seq(Line) /\ code \in Seq(Item) /\ CodeInv /\ UsesApart
    BY DEF CInv, CodeInv, LineInv
  <2>2. off \in Nat /\ off' \in Nat
    BY DEF IInv, TypeOK
  <2> QED  BY <2>1, <2>2 DEF Adds
<1>2. /\ Continues(listing(V), n, listing(V)', hs)
      /\ \A k : k = n + 1 => listing(V)'[k] = line_step(p, k, V)'
      /\ \A l : goto_label(l)' = On(goto_label(l), n, hs)
      /\ \A k \in Nat : k > n + 1 => goto_line(k)' = tail
  BY <1>1, ListingAppend
<1>3. trap_labels' = trap_labels
  BY <1>1, LabelsAppend
<1>4. outstanding' = outstanding \/ \E g : g.offset = off /\ outstanding' = outstanding \cup {g}
  BY AddsUses
<1>5. UNCHANGED <<label_offsets, label_aliases, patched>>
  BY DEF Adds
<1>6. /\ Continues(emitted(V), m, emitted(V)', hs)
      /\ \A k : k = m + 1 => emitted(V)'[k] = item_step(c, V)'
  BY <1>1, <1>3, <1>4, <1>5, EmittedAppend
<1>7. \A l \in Label : goto_bound(l)' = On(goto_bound(l), m, hs)
  BY <1>1, <1>3, <1>5, BoundAppend
<1>8. PICK k \in Nat : k = n + 1
  BY <1>1
<1>9. c.id = k /\ c.sense = TRUE /\ V[k] \in BOOLEAN
  BY <1>8 DEF Adds
<1>10. listing(V)'[n + 1] = line_step(p, k, V)' /\ emitted(V)'[m + 1] = item_step(c, V)'
  BY <1>2, <1>6, <1>8
<1>11. CASE p.op \in {"inst", "ret"}
  <2>1. line_step(p, k, V)' = step("inst", k) /\ item_step(c, V)' = step("inst", k)
    BY <1>1, <1>9, <1>11 DEF line_step, item_step
  <2>2. IsEnd(step("inst", k))
    BY DEF IsEnd, step
  <2> HIDE DEF n, m, hs
  <2>3. IsEnd(listing(V)'[n + 1]) /\ emitted(V)'[m + 1] = listing(V)'[n + 1]
    BY <1>10, <2>1, <2>2
  <2> QED  BY <1>2, <1>6, <2>3, ContinueAlike DEF RunsAlike, n, m, hs
<1>12. CASE p.op = "jump" \/ (p.op = "cond" /\ V[k])
  <2>1. PICK g \in Fixup : g.offset = off /\ g.label = p.label /\ outstanding' = outstanding \cup {g}
    BY <1>12, AddsUses
  <2>2. p.label \in allocated /\ p.label \in Label
    BY <1>12, AddsUses
  <2>3. line_step(p, k, V)' = goto_label(p.label)'
    BY <1>12 DEF line_step
  <2>4. item_step(c, V)' = follow(c)'
    BY <1>1, <1>9, <1>12 DEF item_step
  <2>5. uses_of(c)' = {g}
    <3>1. c.use = off
      BY DEF Adds
    <3>2. \A f \in outstanding : f.offset # off
      BY <1>1, UseOffsets DEF UsesInBuffer
    <3> QED  BY <2>1, <3>1, <3>2 DEF uses_of
  <2>6. follow(c)' = goto_bound(p.label)'
    BY <2>1, <2>5 DEF follow
  <2>7. PICK l \in Label : l = p.label
    BY <2>2
  <2>8. listing(V)'[n + 1] = On(goto_label(l), n, hs) /\ emitted(V)'[m + 1] = On(goto_bound(l), m, hs)
    BY <1>2, <1>7, <1>10, <2>3, <2>4, <2>6, <2>7
  <2>9. IsStep(goto_label(l), n) /\ IsStep(goto_bound(l), m)
    BY <1>1, Listing, Emitted DEF ListingTable, EmittedTable
  <2>10. ends(listing(V), goto_label(l)) = ends(emitted(V), goto_bound(l))
    BY <2>2, <2>7 DEF OInv, LabelAlike, RunsAlike
  <2> HIDE DEF n, m, hs
  <2> QED  BY <1>2, <1>6, <2>8, <2>9, <2>10, ContinueAlike DEF RunsAlike, n, m, hs
<1>13. CASE p.op = "cond" /\ ~V[k]
  <2>1. line_step(p, k, V)' = goto_line(k + 1)'
    BY <1>13 DEF line_step
  <2>2. goto_line(k + 1)' = tail
    BY <1>1, <1>2, <1>8
  <2>3. item_step(c, V)' = goto_offset(c.end)'
    BY <1>1, <1>9, <1>13 DEF item_step
  <2>4. goto_offset(c.end)' = tail
    BY DEF Adds, goto_offset
  <2>5. IsEnd(tail)
    BY DEF IsEnd, tail, step
  <2> HIDE DEF n, m, hs
  <2>6. IsEnd(listing(V)'[n + 1]) /\ emitted(V)'[m + 1] = listing(V)'[n + 1]
    BY <1>10, <2>1, <2>2, <2>3, <2>4, <2>5
  <2> QED  BY <1>2, <1>6, <2>6, ContinueAlike DEF RunsAlike, n, m, hs
<1> QED  BY <1>9, <1>11, <1>12, <1>13 DEF Adds

\* A call that adds a line and an item keeps buffer and listing alike.
LEMMA AddsOInv ==
    ASSUME IInv, CInv, OInv, IInv', NEW p, NEW c, Adds(p, c)
    PROVE  OInv'
<1> DEFINE n == Len(program)
           m == Len(code)
<1>1. /\ program \in Seq(Line) /\ p \in Line /\ program' = Append(program, p)
      /\ code \in Seq(Item) /\ c \in Item /\ code' = Append(code, c)
      /\ p.op # "label" /\ p.op # "trap" /\ c.op = p.op /\ c.start = off /\ off < off'
      /\ CodeInv /\ off \in Nat /\ off' \in Nat
      /\ UNCHANGED <<label_offsets, label_aliases, nlabels>>
  BY DEF Adds, CInv, CodeInv, LineInv, IInv, TypeOK
<1>2. /\ n \in Nat /\ DOMAIN program = 1 .. n /\ DOMAIN program' = 1 .. (n + 1) /\ program'[n + 1] = p
      /\ \A i \in 1 .. n : program'[i] = program[i]
      /\ \A i \in 1 .. (n + 1) : i \in 1 .. n \/ i = n + 1
      /\ m \in Nat /\ DOMAIN code = 1 .. m /\ DOMAIN code' = 1 .. (m + 1) /\ code'[m + 1] = c
      /\ \A i \in 1 .. m : i \in 1 .. (m + 1) /\ code'[i] = code[i]
      /\ m + 1 \in 1 .. (m + 1) /\ 1 \in 1 .. (n + 1)
  BY <1>1, AppendAt
<1>3. trap_labels' = trap_labels
  BY <1>1, LabelsAppend
<1>4. /\ \A l : goto_label(l)' = On(goto_label(l), n, {tail})
      /\ \A i \in 1 .. (n + 1) : goto_line(i)' = On(goto_line(i), n, {tail})
      /\ \A k \in Nat : k > n + 1 => goto_line(k)' = tail
  BY <1>1, ListingAppend
<1>5. \A l \in Label : goto_bound(l)' = On(goto_bound(l), m, {tail})
  BY <1>1, <1>3, BoundAppend
<1>6. /\ \A o \in Nat : o <= off => goto_offset(o)' = On(goto_offset(o), m, {tail})
      /\ \A o : o = off' => goto_offset(o)' = tail
  BY <1>1, OffsetAppend
<1>7. /\ \A i \in 1 .. (n + 1) : IsStep(goto_line(i), n)
      /\ \A l : IsStep(goto_label(l), n) /\ IsStep(goto_bound(l), m)
      /\ \A o : IsStep(goto_offset(o), m)
  BY <1>1, Listing, Emitted DEF ListingTable, EmittedTable
<1> HIDE DEF n, m
<1>8. ASSUME NEW V \in [Nat -> BOOLEAN], NEW s, NEW t, IsStep(s, n), IsStep(t, m), RunsAlike(s, t, V)
      PROVE  ends(listing(V)', On(s, n, {tail})) = ends(emitted(V)', On(t, m, {tail}))
  BY <1>8, AddsAlike DEF n, m
<1>9. ASSUME NEW V \in [Nat -> BOOLEAN] PROVE EntryAlike(V)'
  <2>1. RunsAlike(goto_line(1), goto_offset(0), V)
    BY DEF OInv, EntryAlike
  <2>2. IsStep(goto_line(1), n) /\ IsStep(goto_offset(0), m)
    BY <1>2, <1>7
  <2>3. goto_line(1)' = On(goto_line(1), n, {tail}) /\ goto_offset(0)' = On(goto_offset(0), m, {tail})
    <3>1. goto_line(1)' = On(goto_line(1), n, {tail})
      BY <1>2, <1>4
    <3>2. 0 \in Nat /\ 0 <= off
      BY <1>1
    <3> QED  BY <1>6, <3>1, <3>2
  <2>4. ends(listing(V)', goto_line(1)') = ends(emitted(V)', goto_offset(0)')
    BY <1>8, <2>1, <2>2, <2>3
  <2> QED  BY <2>4 DEF EntryAlike, RunsAlike
<1>10. ASSUME NEW V \in [Nat -> BOOLEAN], NEW l \in allocated' PROVE LabelAlike(l, V)'
  <2>1. l \in allocated /\ l \in Label
    BY <1>1, AllocatedLabels DEF allocated
  <2>2. RunsAlike(goto_label(l), goto_bound(l), V)
    BY <2>1 DEF OInv, LabelAlike
  <2>3. IsStep(goto_label(l), n) /\ IsStep(goto_bound(l), m)
    BY <1>7
  <2>4. ends(listing(V)', goto_label(l)') = ends(emitted(V)', goto_bound(l)')
    BY <1>4, <1>5, <1>8, <2>1, <2>2, <2>3
  <2> QED  BY <2>4 DEF LabelAlike, RunsAlike
<1>11. ASSUME NEW i \in DOMAIN program', program'[i].op = "inst"
       PROVE  \E q \in DOMAIN code' : /\ code'[q].op = "inst" /\ code'[q].id = i
                                      /\ \A V \in [Nat -> BOOLEAN] : AfterAlike(i, q, V)'
  <2>1. CASE i \in 1 .. n
    <3>1. program[i].op = "inst"
      BY <1>2, <1>11, <2>1
    <3>2. PICK q \in DOMAIN code : /\ code[q].op = "inst" /\ code[q].id = i
                                   /\ \A V \in [Nat -> BOOLEAN] : AfterAlike(i, q, V)
      BY <1>2, <2>1, <3>1 DEF OInv
    <3>3. q \in 1 .. m /\ q \in DOMAIN code' /\ code'[q] = code[q]
      BY <1>2
    <3>4. PICK o \in Nat : o = code[q].end /\ o <= off
      <4>1. code[q] \in Item /\ code[q].end <= off
        BY <1>1 DEF CodeInv
      <4> QED  BY <4>1 DEF Item
    <3>5. ASSUME NEW V \in [Nat -> BOOLEAN] PROVE AfterAlike(i, q, V)'
      <4>1. RunsAlike(goto_line(i + 1), goto_offset(o), V)
        BY <3>2, <3>4 DEF AfterAlike
      <4>2. i + 1 \in 1 .. (n + 1)
        BY <1>2, <2>1
      <4>3. goto_line(i + 1)' = On(goto_line(i + 1), n, {tail})
            /\ goto_offset(o)' = On(goto_offset(o), m, {tail})
        BY <1>4, <1>6, <3>4, <4>2
      <4>4. IsStep(goto_line(i + 1), n) /\ IsStep(goto_offset(o), m)
        BY <1>7, <4>2
      <4>5. ends(listing(V)', goto_line(i + 1)') = ends(emitted(V)', goto_offset(o)')
        BY <1>8, <4>1, <4>3, <4>4
      <4>6. code'[q].end = o
        BY <3>3, <3>4
      <4> QED  BY <4>5, <4>6 DEF AfterAlike, RunsAlike
    <3> QED  BY <3>2, <3>3, <3>5
  <2>2. CASE i = n + 1
    <3>1. PICK q : q = m + 1
      OBVIOUS
    <3>2. q \in DOMAIN code' /\ code'[q] = c
      BY <1>2, <3>1
    <3>3. c.op = "inst" /\ c.id = i /\ c.end = off'
      BY <1>2, <1>11, <2>2 DEF Adds, n
    <3>4. goto_line(i + 1)' = tail
      BY <1>2, <1>4, <2>2
    <3>5. PICK o : o = c.end
      OBVIOUS
    <3>6. goto_offset(o)' = tail
      BY <1>6, <3>3, <3>5
    <3>7. ASSUME NEW V \in [Nat -> BOOLEAN] PROVE AfterAlike(i, q, V)'
      <4>1. ends(listing(V)', tail) = tail /\ ends(emitted(V)', tail) = tail
        <5>1. tail.does # "goto"
          BY DEF tail, step
        <5> QED  BY <5>1, EndsAtOnce
      <4>2. code'[q].end = o
        BY <3>2, <3>5
      <4> QED  BY <3>4, <3>6, <4>1, <4>2 DEF AfterAlike, RunsAlike
    <3> QED  BY <3>2, <3>3, <3>7
  <2> QED  BY <1>2, <1>11, <2>1, <2>2
<1> QED  BY <1>9, <1>10, <1>11 DEF OInv

\* A use recorded last stays apart from the others if it lies past them.
LEMMA ApartAppend ==
    ASSUME IInv, UsesApart, NEW g \in Fixup, \A f \in outstanding : f.offset # g.offset,
           pending_fixup_records' = Append(pending_fixup_records, g),
           UNCHANGED <<taken, fixup_records>>
    PROVE  UsesApart'
<1> DEFINE n == Len(pending_fixup_records)
<1>1. pending_fixup_records \in Seq(Fixup)
  BY DEF IInv, TypeOK
<1>2. /\ pending_fixup_records'[n + 1] = g
      /\ DOMAIN pending_fixup_records = 1 .. n /\ DOMAIN pending_fixup_records' = 1 .. (n + 1)
      /\ \A i \in 1 .. n : pending_fixup_records'[i] = pending_fixup_records[i]
      /\ \A i \in 1 .. (n + 1) : i \in 1 .. n \/ i = n + 1
  BY <1>1, AppendAt
<1>3. /\ \A i \in 1 .. n : pending_fixup_records[i].offset # g.offset
      /\ \A i \in DOMAIN taken : taken[i].offset # g.offset
      /\ \A f \in fixup_records : f.offset # g.offset
  BY <1>2 DEF outstanding
<1> HIDE DEF n
<1>0. /\ \A i, j \in 1 .. n :
            i # j => pending_fixup_records[i].offset # pending_fixup_records[j].offset
      /\ \A i \in DOMAIN taken, j \in 1 .. n : taken[i].offset # pending_fixup_records[j].offset
      /\ \A f \in fixup_records, i \in 1 .. n : pending_fixup_records[i].offset # f.offset
  BY <1>2 DEF UsesApart
<1>4. \A i, j \in 1 .. (n + 1) :
          i # j => pending_fixup_records'[i].offset # pending_fixup_records'[j].offset
  <2>0. SUFFICES ASSUME NEW i \in 1 .. (n + 1), NEW j \in 1 .. (n + 1), i # j
               PROVE  pending_fixup_records'[i].offset # pending_fixup_records'[j].offset
    OBVIOUS
  <2>1. CASE i = n + 1
    BY <1>2, <1>3, <2>0, <2>1
  <2>2. CASE j = n + 1
    BY <1>2, <1>3, <2>0, <2>2
  <2>3. CASE i # n + 1 /\ j # n + 1
    <3>1. i \in 1 .. n /\ j \in 1 .. n
      BY <1>2, <2>3
    <3>2. pending_fixup_records'[i] = pending_fixup_records[i]
          /\ pending_fixup_records'[j] = pending_fixup_records[j]
      BY <1>2, <3>1
    <3>3. pending_fixup_records[i].offset # pending_fixup_records[j].offset
      BY <1>0, <2>0, <3>1
    <3> QED  BY <3>2, <3>3
  <2> QED  BY <2>1, <2>2, <2>3
<1>5. \A i \in DOMAIN taken, j \in 1 .. (n + 1) : taken[i].offset # pending_fixup_records'[j].offset
  <2> SUFFICES ASSUME NEW i \in DOMAIN taken, NEW j \in 1 .. (n + 1)
               PROVE  taken[i].offset # pending_fixup_records'[j].offset
    OBVIOUS
  <2>1. CASE j = n + 1
    BY <1>2, <1>3, <2>1
  <2>2. CASE j \in 1 .. n
    <3>1. pending_fixup_records'[j] = pending_fixup_records[j]
      BY <1>2, <2>2
    <3>2. taken[i].offset # pending_fixup_records[j].offset
      BY <1>0, <2>2
    <3> QED  BY <3>1, <3>2
  <2> QED  BY <1>2, <2>1, <2>2
<1>6. \A f \in fixup_records, i \in 1 .. (n + 1) : pending_fixup_records'[i].offset # f.offset
  <2> SUFFICES ASSUME NEW f \in fixup_records, NEW i \in 1 .. (n + 1)
               PROVE  pending_fixup_records'[i].offset # f.offset
    OBVIOUS
  <2>1. CASE i = n + 1
    BY <1>2, <1>3, <2>1
  <2>2. CASE i \in 1 .. n
    BY <1>0, <1>2, <2>2
  <2> QED  BY <1>2, <2>1, <2>2
<1>7. /\ \A i, j \in DOMAIN taken : i # j => taken[i].offset # taken[j].offset
      /\ \A f \in fixup_records : /\ \A i \in DOMAIN taken : taken[i].offset # f.offset
                                  /\ \A h \in fixup_records : f # h => f.offset # h.offset
  BY DEF UsesApart
<1>8. taken' = taken /\ fixup_records' = fixup_records /\ DOMAIN pending_fixup_records' = 1 .. (n + 1)
  BY <1>2
<1>9. \A i, j \in DOMAIN pending_fixup_records' :
          i # j => pending_fixup_records'[i].offset # pending_fixup_records'[j].offset
  BY <1>4, <1>8
<1>10. \A i \in DOMAIN taken', j \in DOMAIN pending_fixup_records' :
          taken'[i].offset # pending_fixup_records'[j].offset
  BY <1>5, <1>8
<1>11. \A f \in fixup_records' :
          \A i \in DOMAIN pending_fixup_records' : pending_fixup_records'[i].offset # f.offset
  BY <1>6, <1>8
<1> QED  BY <1>7, <1>8, <1>9, <1>10, <1>11 DEF UsesApart

\* The items still lie in order when one is put at the tail.
LEMMA CodeAppend ==
    ASSUME CodeInv, NEW c \in Item, code' = Append(code, c), off \in Nat, off' \in Nat,
           off <= c.start, c.start < c.end, c.end <= off',
           c.op \in {"jump", "cond"} => c.start <= c.use /\ c.use < c.end
    PROVE  CodeInv'
<1> DEFINE n == Len(code)
<1>1. /\ n \in Nat /\ DOMAIN code = 1 .. n /\ DOMAIN code' = 1 .. (n + 1) /\ code'[n + 1] = c
      /\ code' \in Seq(Item)
      /\ \A i \in 1 .. n : code'[i] = code[i] /\ i < n + 1
      /\ \A i \in 1 .. (n + 1) : i \in 1 .. n \/ i = n + 1
  BY AppendAt DEF CodeInv
<1>2. c.start \in Nat /\ c.end \in Nat
  BY DEF Item
<1>3. \A i \in 1 .. n : /\ code[i].start \in Nat /\ code[i].end \in Nat
                        /\ code[i].start < code[i].end /\ code[i].end <= off
                        /\ code[i].op \in {"jump", "cond"} =>
                              code[i].start <= code[i].use /\ code[i].use < code[i].end
                        /\ \A j \in 1 .. n : i < j => code[i].end <= code[j].start
  <2>1. \A i \in 1 .. n : code[i] \in Item
    BY <1>1 DEF CodeInv
  <2>2. \A i \in 1 .. n : code[i].start \in Nat /\ code[i].end \in Nat
    BY <2>1 DEF Item
  <2> QED  BY <1>1, <2>2 DEF CodeInv
<1> HIDE DEF n
<1>4. ASSUME NEW i \in 1 .. (n + 1)
      PROVE  /\ code'[i].start < code'[i].end /\ code'[i].end <= off'
             /\ code'[i].op \in {"jump", "cond"} =>
                   code'[i].start <= code'[i].use /\ code'[i].use < code'[i].end
  <2>1. CASE i = n + 1
    BY <1>1, <2>1
  <2>2. CASE i \in 1 .. n
    <3>1. code'[i] = code[i] /\ code[i].end <= off /\ code[i].end \in Nat
      BY <1>1, <1>3, <2>2
    <3>2. off <= off'
      BY <1>2
    <3>3. code[i].end <= off'
      BY <3>1, <3>2
    <3> QED  BY <1>3, <2>2, <3>1, <3>3
  <2> QED  BY <1>1, <2>1, <2>2
<1>5. ASSUME NEW i \in 1 .. (n + 1), NEW j \in 1 .. (n + 1), i < j
      PROVE  code'[i].end <= code'[j].start
  <2>1. i \in 1 .. n
    BY <1>1, <1>5
  <2>2. CASE j = n + 1
    BY <1>1, <1>2, <1>3, <2>1, <2>2
  <2>3. CASE j \in 1 .. n
    BY <1>1, <1>3, <1>5, <2>1, <2>3
  <2> QED  BY <1>1, <2>2, <2>3
<1> QED  BY <1>1, <1>4, <1>5 DEF CodeInv

\* A call that adds a line and an item keeps the rest of the invariant.
LEMMA AddsCInv ==
    ASSUME IInv, CInv, IInv', NEW p, NEW c, Adds(p, c)
    PROVE  CInv'
<1> DEFINE n == Len(program)
           m == Len(code)
<1>1. /\ program \in Seq(Line) /\ p \in Line /\ program' = Append(program, p)
      /\ code \in Seq(Item) /\ c \in Item /\ code' = Append(code, c)
      /\ p.op # "label" /\ p.op # "trap" /\ c.op = p.op /\ c.start = off /\ off < off' /\ c.use = off
      /\ UNCHANGED <<label_offsets, label_aliases, nlabels, taken, fixup_records, patched, pending_traps>>
  BY DEF Adds, CInv, CodeInv, LineInv
<1>2. off \in Nat /\ off' \in Nat /\ c.end = off'
  BY DEF IInv, TypeOK, Adds
<1>3. CodeInv'
  BY <1>1, <1>2, CodeAppend DEF CInv
<1>4. /\ n \in Nat /\ DOMAIN program = 1 .. n /\ DOMAIN program' = 1 .. (n + 1) /\ program'[n + 1] = p
      /\ program' \in Seq(Line)
      /\ \A i \in 1 .. n : program'[i] = program[i]
      /\ \A i \in 1 .. (n + 1) : i \in 1 .. n \/ i = n + 1
      /\ m \in Nat /\ DOMAIN code = 1 .. m /\ DOMAIN code' = 1 .. (m + 1) /\ code'[m + 1] = c
      /\ \A i \in 1 .. m : i \in 1 .. (m + 1) /\ code'[i] = code[i]
      /\ m + 1 \in 1 .. (m + 1)
      /\ \A i \in 1 .. (m + 1) : i \in 1 .. m \/ i = m + 1
  BY <1>1, AppendAt
<1>5. trap_labels' = trap_labels /\ \A l : line_of(l)' = line_of(l)
  <2>1. program \in Seq(Line) /\ p \in Line /\ program' = Append(program, p)
    BY <1>1
  <2>2. /\ trap_labels' = IF p.op = "trap" THEN trap_labels \cup {p.label} ELSE trap_labels
        /\ \A l : line_of(l)' = line_of(l) \cup
              (IF p.op = "label" /\ p.label = l THEN {n + 1} ELSE {})
    BY <2>1, LabelsAppend
  <2>3. p.op # "label" /\ p.op # "trap"
    BY <1>1
  <2> HIDE DEF n
  <2> QED  BY <2>2, <2>3
<1>6. allocated' = allocated
  BY <1>1 DEF allocated
<1>7. \A f \in outstanding : f.offset # off
  BY <1>2, UseOffsets DEF UsesInBuffer
<1> HIDE DEF n, m
<1>8. UsesApart'
  <2>1. CASE p.op \in {"inst", "ret"}
    <3>1. UNCHANGED <<pending_fixup_records, taken, fixup_records>>
      BY <1>1, <2>1 DEF Adds
    <3> QED  BY <3>1 DEF CInv, UsesApart
  <2>2. CASE p.op \in {"jump", "cond"}
    <3>1. PICK g \in Fixup : g.offset = off /\ pending_fixup_records' = Append(pending_fixup_records, g)
      BY <2>2 DEF Adds
    <3> QED  BY <1>1, <1>7, <3>1, ApartAppend DEF CInv
  <2> QED  BY <2>1, <2>2 DEF Adds
<1>9. UseInv'
  <2>1. \A f \in outstanding' : f.label \in allocated'
    <3>1. \A f \in outstanding : f.label \in allocated
      BY DEF CInv, UseInv
    <3> QED  BY <1>6, <3>1, AddsUses
  <2>2. ASSUME NEW i \in DOMAIN code', code'[i].op \in {"jump", "cond"}
        PROVE  uses_of(code[i])' # {} \/ code'[i].use \in DOMAIN patched'
    <3>1. \A f \in outstanding : f \in outstanding'
      BY AddsUses
    <3>2. CASE i = m + 1
      <4>1. \E g \in outstanding' : g.offset = off
        BY <1>1, <1>4, <2>2, <3>2, AddsUses
      <4> QED  BY <1>1, <1>4, <3>2, <4>1 DEF uses_of
    <3>3. CASE i \in 1 .. m
      <4>1. code'[i] = code[i]
        BY <1>4, <3>3
      <4>2. uses_of(code[i]) # {} \/ code[i].use \in DOMAIN patched
        BY <1>4, <2>2, <3>3, <4>1 DEF CInv, UseInv
      <4> QED  BY <1>1, <3>1, <4>1, <4>2 DEF uses_of
    <3> QED  BY <1>4, <3>2, <3>3
  <2>3. ASSUME NEW o \in DOMAIN patched'
        PROVE  /\ patched'[o] \in Nat /\ patched'[o] < off'
               /\ \A k \in DOMAIN latest_branches' : patched'[o] < latest_branches'[k].start
    <3>1. /\ patched'[o] = patched[o] /\ patched[o] \in Nat /\ patched[o] < off
          /\ \A k \in DOMAIN latest_branches : patched[o] < latest_branches[k].start
      BY <1>1 DEF CInv, UseInv
    <3>2. \A k \in DOMAIN latest_branches' : patched[o] < latest_branches'[k].start
      <4>1. CASE latest_branches' = latest_branches
        BY <3>1, <4>1
      <4>2. CASE latest_branches' # latest_branches
        <5>1. PICK br \in Branch : latest_branches' = Append(latest_branches, br) /\ br.start = off
          BY <4>2 DEF Adds
        <5>2. latest_branches \in Seq(Branch)
          BY DEF IInv, TypeOK
        <5>3. PICK q : q = Len(latest_branches)
          OBVIOUS
        <5>4. /\ DOMAIN latest_branches = 1 .. q /\ DOMAIN latest_branches' = 1 .. (q + 1)
              /\ \A k \in 1 .. q : latest_branches'[k] = latest_branches[k]
              /\ latest_branches'[q + 1] = br
              /\ q \in Nat
          BY <5>1, <5>2, <5>3, AppendAt
        <5>5. \A k \in 1 .. (q + 1) : k \in 1 .. q \/ k = q + 1
          BY <5>4
        <5> QED  BY <3>1, <5>1, <5>4, <5>5
      <4> QED  BY <4>1, <4>2
    <3>3. patched[o] < off'
      BY <1>1, <1>2, <3>1
    <3> QED  BY <3>1, <3>2, <3>3
  <2> QED  BY <2>1, <2>2, <2>3 DEF UseInv
<1>10. BranchItems'
  <2> SUFFICES ASSUME NEW k \in DOMAIN latest_branches'
               PROVE  \E i \in DOMAIN code' :
                 /\ code'[i].start = latest_branches'[k].start /\ code'[i].end = latest_branches'[k].end
                 /\ code'[i].op = IF latest_branches'[k].cond THEN "cond" ELSE "jump"
                 /\ code'[i].use = code'[i].start
    BY DEF BranchItems
  <2>1. CASE k \in DOMAIN latest_branches /\ latest_branches'[k] = latest_branches[k]
    <3>1. PICK i \in DOMAIN code :
            /\ code[i].start = latest_branches[k].start /\ code[i].end = latest_branches[k].end
            /\ code[i].op = IF latest_branches[k].cond THEN "cond" ELSE "jump"
            /\ code[i].use = code[i].start
      BY <2>1 DEF CInv, BranchItems
    <3>2. i \in DOMAIN code' /\ code'[i] = code[i]
      BY <1>4
    <3> QED  BY <2>1, <3>1, <3>2
  <2>2. CASE ~(k \in DOMAIN latest_branches /\ latest_branches'[k] = latest_branches[k])
    <3>1. /\ p.op \in {"jump", "cond"}
          /\ \E br \in Branch :
                   /\ latest_branches' = Append(latest_branches, br)
                   /\ br.start = off /\ br.end = off' /\ br.cond = (p.op = "cond")
      BY <2>2 DEF Adds
    <3>2. PICK br \in Branch : /\ latest_branches' = Append(latest_branches, br)
                               /\ br.start = off /\ br.end = off' /\ br.cond = (p.op = "cond")
      BY <3>1
    <3>3. latest_branches \in Seq(Branch)
      BY DEF IInv, TypeOK
    <3>4. PICK q : q = Len(latest_branches)
      OBVIOUS
    <3>5. /\ DOMAIN latest_branches = 1 .. q /\ DOMAIN latest_branches' = 1 .. (q + 1)
          /\ \A h \in 1 .. q : latest_branches'[h] = latest_branches[h]
          /\ latest_branches'[q + 1] = br
          /\ q \in Nat
      BY <3>2, <3>3, <3>4, AppendAt
    <3>6. \A h \in 1 .. (q + 1) : h \in 1 .. q \/ h = q + 1
      BY <3>5
    <3>7. latest_branches'[k] = br
      BY <2>2, <3>5, <3>6
    <3>8. m + 1 \in DOMAIN code' /\ code'[m + 1] = c
      BY <1>4
    <3>9. c.op = IF br.cond THEN "cond" ELSE "jump"
      BY <1>1, <3>1, <3>2
    <3> QED  BY <1>1, <1>2, <3>2, <3>7, <3>8, <3>9
  <2> QED  BY <2>1, <2>2
<1>11. LineInv'
  <2>1. ASSUME NEW i \in DOMAIN program', program'[i].op \in {"jump", "cond", "label", "trap"}
        PROVE  program'[i].label \in allocated'
    <3>1. CASE i = n + 1
      BY <1>4, <1>6, <2>1, <3>1 DEF Adds
    <3>2. CASE i \in 1 .. n
      BY <1>4, <1>6, <2>1, <3>2 DEF CInv, LineInv
    <3> QED  BY <1>4, <3>1, <3>2
  <2> QED  BY <1>1, <1>4, <1>5, <2>1 DEF CInv, LineInv
<1>12. TailClosed'
  BY DEF TailClosed, Adds
<1> QED  BY <1>3, <1>8, <1>9, <1>10, <1>11, <1>12 DEF CInv

\* put of an instruction.
LEMMA PutAdds ==
    ASSUME IInv, CInv, IInv', NEW op \in {"inst", "ret"}, NEW n \in Sizes, SemPut(op, n)
    PROVE  \E p, c : Adds(p, c)
<1>1. PICK p : p = [op |-> op, label |-> NoTarget]
  OBVIOUS
<1>2. PICK c : c = item(op, id, off, off', off)
  OBVIOUS
<1>3. off \in Nat /\ off' \in Nat /\ n \in Nat /\ n > 0 /\ off' = off + n
  BY SizesAssumption DEF IInv, TypeOK, SemPut, Put
<1>4. p \in Line /\ program' = Append(program, p)
  BY <1>1 DEF Line, SemPut, line
<1>5. program \in Seq(Line)
  BY DEF CInv, LineInv
<1>6. id \in Nat /\ id = Len(program) + 1
  BY <1>5 DEF id
<1>7. c \in Item /\ code' = Append(code, c)
  BY <1>2, <1>3, <1>6 DEF item, Item, SemPut
<1>8. /\ p.op = op /\ c.op = op /\ c.start = off /\ c.end = off' /\ off < off' /\ c.use = off
      /\ c.id = Len(program) + 1 /\ c.sense = TRUE
  BY <1>1, <1>2, <1>3, <1>6 DEF item
<1>9. /\ pc = "idle" /\ pc' = "idle"
      /\ UNCHANGED <<nlabels, label_offsets, label_aliases, patched, pending_traps,
                     fixup_records, taken, pending_fixup_records, latest_branches>>
  BY DEF SemPut, Put, labelVars, deferVars, islandVars
<1>10. Adds(p, c)
  BY <1>4, <1>7, <1>8, <1>9 DEF Adds
<1> QED  BY <1>10

\* use_label_at_offset and put, with add_cond_branch or add_uncond_branch if
\* the buffer is told of the branch.
LEMMA BranchAdds ==
    ASSUME IInv, CInv, IInv', NEW op \in {"jump", "cond"}, NEW l \in Label, NEW k \in ClientKind,
           NEW n \in Sizes,
           UseLabel(l, k, n) \/ AddBranch(l, k, n, op = "cond"),
           line(op, l), code' = Append(code, item(op, id, off, off', off)), UNCHANGED patched
    PROVE  \E p, c : Adds(p, c)
<1>1. PICK p : p = [op |-> op, label |-> l]
  OBVIOUS
<1>2. PICK c : c = item(op, id, off, off', off)
  OBVIOUS
<1>3. off \in Nat /\ off' \in Nat /\ n \in Nat /\ n > 0 /\ off' = off + n
  BY SizesAssumption DEF IInv, TypeOK, UseLabel, AddBranch
<1>4. p \in Line /\ program' = Append(program, p)
  BY <1>1 DEF Line, line
<1>5. program \in Seq(Line)
  BY DEF CInv, LineInv
<1>6. id \in Nat /\ id = Len(program) + 1
  BY <1>5 DEF id
<1>7. c \in Item /\ code' = Append(code, c)
  BY <1>2, <1>3, <1>6 DEF item, Item
<1>8. /\ p.op = op /\ p.label = l /\ c.op = op /\ c.start = off /\ c.end = off' /\ off < off'
      /\ c.use = off /\ c.id = Len(program) + 1 /\ c.sense = TRUE
  BY <1>1, <1>2, <1>3, <1>6 DEF item
<1>9. /\ pc = "idle" /\ pc' = "idle" /\ l \in allocated
      /\ UNCHANGED <<nlabels, label_offsets, label_aliases, patched, pending_traps,
                     fixup_records, taken>>
      /\ use_label_at_offset(off, l, k, pending_fixup_records)
  BY DEF UseLabel, AddBranch, labelVars, deferVars, islandVars
<1>10. \E g \in Fixup : /\ g.offset = off /\ g.label = l
                        /\ pending_fixup_records' = Append(pending_fixup_records, g)
  <2>1. PICK g : g = [label |-> l, offset |-> off, kind |-> k]
    OBVIOUS
  <2>2. g \in Fixup /\ g.offset = off /\ g.label = l
    BY <1>3, <2>1, KindAssumption DEF Fixup
  <2>3. pending_fixup_records' = Append(pending_fixup_records, g)
    BY <1>9, <2>1 DEF use_label_at_offset
  <2> QED  BY <2>2, <2>3
<1>11. \/ UNCHANGED latest_branches
       \/ \E br \in Branch : /\ latest_branches' = Append(latest_branches, br)
                             /\ br.start = off /\ br.end = off' /\ br.cond = (op = "cond")
  <2>1. CASE UseLabel(l, k, n)
    BY <2>1 DEF UseLabel
  <2>2. CASE AddBranch(l, k, n, op = "cond")
    <3>1. PICK br : br = [start |-> off, end |-> off + n, target |-> l,
                          fixup |-> Len(pending_fixup_records) + 1,
                          cond |-> op = "cond", labels |-> lazily_cleared(off)]
      OBVIOUS
    <3>2. latest_branches' = Append(latest_branches, br)
      BY <2>2, <3>1 DEF AddBranch
    <3>3. br \in Branch
      <4>1. Len(pending_fixup_records) + 1 \in Nat
        BY DEF IInv, TypeOK
      <4>2. lazily_cleared(off) \in SUBSET Label
        BY DEF IInv, TypeOK, lazily_cleared
      <4> QED  BY <1>3, <3>1, <4>1, <4>2 DEF Branch
    <3> QED  BY <1>3, <3>1, <3>2, <3>3
  <2> QED  BY <2>1, <2>2
<1>12. Adds(p, c)
  BY <1>4, <1>7, <1>8, <1>9, <1>10, <1>11 DEF Adds
<1> QED  BY <1>12

(***************************************************************************)
(* Steps that leave the code as it is.                                     *)
(***************************************************************************)

Same == /\ UNCHANGED <<off, code, patched, label_offsets, label_aliases>>
        /\ outstanding' = outstanding

\* Then offsets, labels and items lead where they led.
LEMMA EmittedSame ==
    ASSUME IInv, TargetsAllocated, CInv, IInv', Same, \A l \in allocated : unbound(l)' = unbound(l)
    PROVE  /\ \A o : goto_offset(o)' = goto_offset(o)
           /\ \A l \in allocated : goto_bound(l)' = goto_bound(l)
           /\ \A V : emitted(V)' = emitted(V)
<1>1. \A o : goto_offset(o)' = goto_offset(o)
  BY DEF Same, goto_offset, item_at
<1>2. ASSUME NEW l \in allocated PROVE goto_bound(l)' = goto_bound(l)
  <2>1. l \in Label
    BY AllocatedLabels
  <2>2. PICK r : r = root[l]
    OBVIOUS
  <2>3. r \in allocated /\ r = root'[l]
    BY <2>1, <2>2, RootFacts, RootKept DEF IInv, Same
  <2>4. goto_bound(l) = bound_step(r) /\ goto_bound(l)' = bound_step(r)'
    BY <2>1, <2>2, <2>3, Bounds, Bounds1 DEF BoundSteps
  <2>5. bound_step(r)' = bound_step(r)
    <3>1. PICK o : o = label_offsets[r]
      OBVIOUS
    <3>2. label_offsets'[r] = o
      BY <3>1 DEF Same
    <3> QED  BY <1>1, <2>3, <3>1, <3>2 DEF bound_step
  <2> QED  BY <2>4, <2>5
<1>3. ASSUME NEW c PROVE follow(c)' = follow(c)
  <2>1. uses_of(c)' = uses_of(c)
    BY DEF uses_of, Same
  <2>2. CASE uses_of(c) = {}
    <3>1. PICK o : o = patched[c.use]
      OBVIOUS
    <3>2. follow(c) = goto_offset(o) /\ follow(c)' = goto_offset(o)'
      BY <2>1, <2>2, <3>1 DEF follow, Same
    <3> QED  BY <1>1, <3>2
  <2>3. CASE uses_of(c) # {}
    <3>1. PICK l : l = (CHOOSE f \in uses_of(c) : TRUE).label
      OBVIOUS
    <3>2. l \in allocated
      BY <2>3, <3>1 DEF uses_of, CInv, UseInv
    <3>3. follow(c) = goto_bound(l) /\ follow(c)' = goto_bound(l)'
      BY <2>1, <2>3, <3>1 DEF follow
    <3> QED  BY <1>2, <3>2, <3>3
  <2> QED  BY <2>2, <2>3
<1>4. ASSUME NEW V PROVE emitted(V)' = emitted(V)
  <2>1. \A c : item_step(c, V)' = item_step(c, V)
    BY <1>1, <1>3 DEF item_step
  <2>2. code' = code
    BY DEF Same
  <2>3. \A i \in DOMAIN code : item_step(code[i], V)' = item_step(code[i], V)
    <3> SUFFICES ASSUME NEW i \in DOMAIN code PROVE item_step(code[i], V)' = item_step(code[i], V)
      OBVIOUS
    <3>1. PICK c : c = code[i]
      OBVIOUS
    <3>2. code'[i] = c
      BY <2>2, <3>1
    <3> QED  BY <2>1, <3>1, <3>2
  <2> QED  BY <2>2, <2>3 DEF emitted
<1> QED  BY <1>1, <1>2, <1>4

\* The steps of the buffer's loops that only turn to what comes next.
LEMMA QuietOInv ==
    ASSUME IInv, TargetsAllocated, CInv, OInv, IInv', Same, UNCHANGED <<program, nlabels>>
    PROVE  OInv'
<1>1. \A l : unbound(l)' = unbound(l) /\ goto_label(l)' = goto_label(l)
  BY DEF unbound, trap_labels, goto_label, line_of
<1>2. \A i : goto_line(i)' = goto_line(i)
  BY DEF goto_line
<1>3. \A V : listing(V)' = listing(V)
  BY <1>1, <1>2 DEF listing, line_step
<1>4. /\ \A o : goto_offset(o)' = goto_offset(o)
      /\ \A l \in allocated : goto_bound(l)' = goto_bound(l)
      /\ \A V : emitted(V)' = emitted(V)
  BY <1>1, EmittedSame
<1>5. allocated' = allocated /\ code' = code /\ program' = program
  BY DEF allocated, Same
<1>6. ASSUME NEW V \in [Nat -> BOOLEAN] PROVE EntryAlike(V)' /\ \A l \in allocated' : LabelAlike(l, V)'
  <2>1. EntryAlike(V) /\ \A l \in allocated : LabelAlike(l, V)
    BY DEF OInv
  <2> QED  BY <1>1, <1>2, <1>3, <1>4, <1>5, <2>1 DEF EntryAlike, LabelAlike, RunsAlike
<1>7. ASSUME NEW i \in DOMAIN program', program'[i].op = "inst"
      PROVE  \E q \in DOMAIN code' : /\ code'[q].op = "inst" /\ code'[q].id = i
                                     /\ \A V \in [Nat -> BOOLEAN] : AfterAlike(i, q, V)'
  <2>1. PICK q \in DOMAIN code : /\ code[q].op = "inst" /\ code[q].id = i
                                 /\ \A V \in [Nat -> BOOLEAN] : AfterAlike(i, q, V)
    BY <1>5, <1>7 DEF OInv
  <2>2. PICK o : o = code[q].end
    OBVIOUS
  <2>3. ASSUME NEW V \in [Nat -> BOOLEAN] PROVE AfterAlike(i, q, V)'
    <3>1. RunsAlike(goto_line(i + 1), goto_offset(o), V)
      BY <2>1, <2>2 DEF AfterAlike
    <3>2. code'[q].end = o
      BY <1>5, <2>2
    <3>3. ends(listing(V)', goto_line(i + 1)') = ends(emitted(V)', goto_offset(o)')
      BY <1>2, <1>3, <1>4, <3>1 DEF RunsAlike
    <3> QED  BY <3>2, <3>3 DEF AfterAlike, RunsAlike
  <2> QED  BY <1>5, <2>1, <2>3
<1> QED  BY <1>6, <1>7 DEF OInv

(***************************************************************************)
(* A deferred trap: a line, and a label for the next island to bind.       *)
(***************************************************************************)

\* What defer_trap does here.
LEMMA TrapFacts ==
    ASSUME IInv, CInv, SemTrap, NEW l, l = nlabels, NEW p, p = [op |-> "trap", label |-> l]
    PROVE  /\ l \in Label /\ l \notin allocated /\ p \in Line /\ program' = Append(program, p)
           /\ label_offsets[l] = UNKNOWN_LABEL_OFFSET /\ l \in live /\ line_of(l) = {}
           /\ \A x : x \in allocated' <=> x \in allocated \/ x = l
           /\ pending_traps \in Seq(Label) /\ pending_traps' = Append(pending_traps, l)
           /\ pc = "idle" /\ pc' = "idle" /\ Same
           /\ UNCHANGED <<latest_branches, pending_fixup_records, fixup_records, taken>>
<1>1. nlabels \in Nat /\ nlabels < MaxLabels /\ nlabels' = nlabels + 1 /\ MaxLabels \in Nat
  BY SizesAssumption DEF SemTrap, defer_trap, IInv, TypeOK
<1>2. l \in Label /\ l \notin allocated
  BY <1>1 DEF Label, allocated
<1>3. p \in Line /\ program' = Append(program, p)
  BY <1>2 DEF Line, SemTrap, line
<1>4. label_offsets[l] = UNKNOWN_LABEL_OFFSET /\ l \in live
  BY <1>2 DEF IInv, UnusedUnbound
<1>5. line_of(l) = {}
  BY <1>2, <1>4 DEF CInv, LineInv
<1>6. \A x : x \in allocated' <=> x \in allocated \/ x = l
  BY <1>1 DEF allocated
<1>7. /\ pc = "idle" /\ pc' = "idle" /\ Same
      /\ UNCHANGED <<latest_branches, pending_fixup_records, fixup_records, taken>>
  BY DEF SemTrap, defer_trap, labelVars, islandVars, Same, outstanding
<1>8. pending_traps \in Seq(Label) /\ pending_traps' = Append(pending_traps, l)
  BY DEF SemTrap, defer_trap, IInv, TypeOK
<1> QED  BY <1>2, <1>3, <1>4, <1>5, <1>6, <1>7, <1>8

\* The line of the trap does nothing, and its label ends a run at once.
LEMMA TrapOInv ==
    ASSUME IInv, TargetsAllocated, CInv, OInv, IInv', SemTrap
    PROVE  OInv'
<1> DEFINE n == Len(program)
<1>1. PICK l : l = nlabels
  OBVIOUS
<1>2. PICK p : p = [op |-> "trap", label |-> l]
  OBVIOUS
<1>3. /\ l \in Label /\ l \notin allocated /\ p \in Line /\ program' = Append(program, p)
      /\ label_offsets[l] = UNKNOWN_LABEL_OFFSET /\ l \in live /\ line_of(l) = {}
      /\ \A x : x \in allocated' <=> x \in allocated \/ x = l
      /\ Same
  BY <1>1, <1>2, TrapFacts
<1>4. program \in Seq(Line) /\ code \in Seq(Item) /\ p.op = "trap" /\ p.label = l
  BY <1>2 DEF CInv, LineInv, CodeInv
<1>5. /\ n \in Nat /\ DOMAIN program = 1 .. n /\ DOMAIN program' = 1 .. (n + 1) /\ program'[n + 1] = p
      /\ \A i \in 1 .. n : program'[i] = program[i]
      /\ \A i \in 1 .. (n + 1) : i \in 1 .. n \/ i = n + 1
      /\ 1 \in 1 .. (n + 1)
  BY <1>3, <1>4, AppendAt
<1>6. /\ trap_labels' = trap_labels \cup {l}
      /\ \A x : line_of(x)' = line_of(x)
  <2>1. /\ trap_labels' = IF p.op = "trap" THEN trap_labels \cup {p.label} ELSE trap_labels
        /\ \A x : line_of(x)' = line_of(x) \cup
              (IF p.op = "label" /\ p.label = x THEN {Len(program) + 1} ELSE {})
    BY <1>3, <1>4, LabelsAppend
  <2>2. trap_labels' = trap_labels \cup {l}
    BY <1>4, <2>1
  <2>3. \A x : line_of(x)' = line_of(x) \cup {}
    BY <1>4, <2>1
  <2> QED  BY <2>2, <2>3
<1>7. \A x \in allocated : unbound(x)' = unbound(x)
  BY <1>3, <1>6 DEF unbound
<1>8. /\ \A o : goto_offset(o)' = goto_offset(o)
      /\ \A x \in allocated : goto_bound(x)' = goto_bound(x)
      /\ \A V : emitted(V)' = emitted(V)
  BY <1>3, <1>7, EmittedSame
<1>9. \A i \in DOMAIN program : program[i].op \in {"jump", "cond"} => program[i].label # l
  BY <1>3 DEF CInv, LineInv
<1>10. ASSUME NEW V
       PROVE  /\ Continues(listing(V), n, listing(V)', {tail})
              /\ \A k : k = n + 1 => listing(V)'[k] = line_step(p, k, V)'
              /\ \A i \in 1 .. (n + 1) : goto_line(i)' = On(goto_line(i), n, {tail})
              /\ \A x \in allocated : goto_label(x)' = On(goto_label(x), n, {tail})
              /\ \A k \in Nat : k > n + 1 => goto_line(k)' = tail
  <2>1. \A x \in allocated : x # p.label
    BY <1>3, <1>4
  <2> QED  BY <1>3, <1>4, <1>9, <2>1, ListingAppend
<1>11. /\ \A i \in 1 .. (n + 1) : IsStep(goto_line(i), n)
       /\ \A x : IsStep(goto_label(x), n)
  BY <1>4, Listing DEF ListingTable
<1> HIDE DEF n
<1>12. IsEnd(tail)
  BY DEF IsEnd, tail, step
<1>13. ASSUME NEW V, NEW s, IsStep(s, n)
       PROVE  ends(listing(V)', On(s, n, {tail})) = ends(listing(V), s)
  <2>1. PICK k \in Nat : k = n + 1
    BY <1>5
  <2>2. line_step(p, k, V)' = goto_line(k + 1)'
    BY <1>4 DEF line_step
  <2>3. goto_line(k + 1)' = tail
    BY <1>5, <1>10, <2>1
  <2>4. listing(V)'[n + 1] = tail
    BY <1>10, <2>1, <2>2, <2>3
  <2>5. ends(listing(V)', On(s, n, {tail})) =
           IF ends(listing(V), s) \in {tail} THEN listing(V)'[n + 1] ELSE ends(listing(V), s)
    BY <1>10, <1>12, <1>13, <2>4, ContinueEnd
  <2> QED  BY <2>4, <2>5
<1>14. ASSUME NEW V \in [Nat -> BOOLEAN] PROVE EntryAlike(V)'
  <2>1. RunsAlike(goto_line(1), goto_offset(0), V)
    BY DEF OInv, EntryAlike
  <2>2. ends(listing(V)', goto_line(1)') = ends(listing(V), goto_line(1))
    BY <1>5, <1>10, <1>11, <1>13
  <2> QED  BY <1>8, <2>1, <2>2 DEF EntryAlike, RunsAlike
<1>15. ASSUME NEW V \in [Nat -> BOOLEAN], NEW x \in allocated' PROVE LabelAlike(x, V)'
  <2>1. CASE x \in allocated
    <3>1. RunsAlike(goto_label(x), goto_bound(x), V)
      BY <2>1 DEF OInv, LabelAlike
    <3>2. ends(listing(V)', goto_label(x)') = ends(listing(V), goto_label(x))
      BY <1>10, <1>11, <1>13, <2>1
    <3> QED  BY <1>8, <2>1, <3>1, <3>2 DEF LabelAlike, RunsAlike
  <2>2. CASE x = l
    <3>1. goto_label(l)' = unbound(l)'
      BY <1>3, <1>6 DEF goto_label
    <3>2. label_aliases' = label_aliases /\ label_offsets' = label_offsets
      BY <1>3 DEF Same
    <3>3. l = root[l] /\ l = root'[l]
      BY <1>3, <3>2, RootFacts, RootKept DEF IInv
    <3>4. goto_bound(l)' = bound_step(l)'
      BY <1>3, <3>3, Bounds1 DEF BoundSteps
    <3>5. bound_step(l)' = unbound(l)'
      BY <1>3, <3>2 DEF bound_step
    <3>6. unbound(l)'.does # "goto"
      BY DEF unbound, step
    <3>7. ends(listing(V)', unbound(l)') = unbound(l)' /\ ends(emitted(V)', unbound(l)') = unbound(l)'
      BY <3>6, EndsAtOnce
    <3> QED  BY <2>2, <3>1, <3>4, <3>5, <3>7 DEF LabelAlike, RunsAlike
  <2> QED  BY <1>3, <2>1, <2>2
<1>16. ASSUME NEW i \in DOMAIN program', program'[i].op = "inst"
       PROVE  \E q \in DOMAIN code' : /\ code'[q].op = "inst" /\ code'[q].id = i
                                      /\ \A V \in [Nat -> BOOLEAN] : AfterAlike(i, q, V)'
  <2>1. i \in 1 .. n /\ i \in DOMAIN program /\ program[i].op = "inst"
    BY <1>4, <1>5, <1>16
  <2>2. PICK q \in DOMAIN code : /\ code[q].op = "inst" /\ code[q].id = i
                                 /\ \A V \in [Nat -> BOOLEAN] : AfterAlike(i, q, V)
    BY <2>1 DEF OInv
  <2>3. code' = code
    BY <1>3 DEF Same
  <2>4. PICK o : o = code[q].end
    OBVIOUS
  <2>5. ASSUME NEW V \in [Nat -> BOOLEAN] PROVE AfterAlike(i, q, V)'
    <3>1. RunsAlike(goto_line(i + 1), goto_offset(o), V)
      BY <2>2, <2>4 DEF AfterAlike
    <3>2. i + 1 \in 1 .. (n + 1)
      BY <1>5, <2>1
    <3>3. ends(listing(V)', goto_line(i + 1)') = ends(listing(V), goto_line(i + 1))
      BY <1>10, <1>11, <1>13, <3>2
    <3>4. code'[q].end = o
      BY <2>3, <2>4
    <3> QED  BY <1>8, <3>1, <3>3, <3>4 DEF AfterAlike, RunsAlike
  <2> QED  BY <2>2, <2>3, <2>5
<1> QED  BY <1>14, <1>15, <1>16 DEF OInv

\* defer_trap keeps the invariant of the items and of their label uses.
LEMMA TrapCInv ==
    ASSUME IInv, CInv, SemTrap
    PROVE  CInv'
<1> DEFINE n == Len(program)
           q == Len(pending_traps)
<1>1. PICK l : l = nlabels
  OBVIOUS
<1>2. PICK p : p = [op |-> "trap", label |-> l]
  OBVIOUS
<1>3. /\ l \in Label /\ l \notin allocated /\ p \in Line /\ program' = Append(program, p)
      /\ label_offsets[l] = UNKNOWN_LABEL_OFFSET /\ line_of(l) = {}
      /\ \A x : x \in allocated' <=> x \in allocated \/ x = l
      /\ pending_traps \in Seq(Label) /\ pending_traps' = Append(pending_traps, l)
      /\ pc = "idle" /\ pc' = "idle" /\ Same
      /\ UNCHANGED <<latest_branches, pending_fixup_records, fixup_records, taken>>
  BY <1>1, <1>2, TrapFacts
<1>4. program \in Seq(Line) /\ p.op = "trap" /\ p.label = l
  BY <1>2 DEF CInv, LineInv
<1>5. /\ program' \in Seq(Line)
      /\ n \in Nat /\ DOMAIN program = 1 .. n /\ DOMAIN program' = 1 .. (n + 1) /\ program'[n + 1] = p
      /\ \A i \in 1 .. n : program'[i] = program[i]
      /\ \A i \in 1 .. (n + 1) : i \in 1 .. n \/ i = n + 1
  BY <1>3, <1>4, AppendAt
<1>6. /\ DOMAIN pending_traps = 1 .. q /\ DOMAIN pending_traps' = 1 .. (q + 1)
      /\ pending_traps'[q + 1] = l /\ q + 1 \in 1 .. (q + 1)
      /\ \A i \in 1 .. q : i \in 1 .. (q + 1) /\ pending_traps'[i] = pending_traps[i]
      /\ \A i \in 1 .. (q + 1) : i \in 1 .. q \/ i = q + 1
  BY <1>3, AppendAt
<1> HIDE DEF n, q
<1>7. /\ trap_labels' = trap_labels \cup {l}
      /\ \A x : line_of(x)' = line_of(x)
  <2>1. /\ trap_labels' = IF p.op = "trap" THEN trap_labels \cup {p.label} ELSE trap_labels
        /\ \A x : line_of(x)' = line_of(x) \cup
              (IF p.op = "label" /\ p.label = x THEN {Len(program) + 1} ELSE {})
    BY <1>3, <1>4, LabelsAppend
  <2>2. trap_labels' = trap_labels \cup {l}
    BY <1>4, <2>1
  <2>3. \A x : line_of(x)' = line_of(x) \cup {}
    BY <1>4, <2>1
  <2> QED  BY <2>2, <2>3
<1>8. CodeInv' /\ UsesApart' /\ BranchItems'
  BY <1>3 DEF CInv, CodeInv, UsesApart, BranchItems, Same
<1>9. UseInv'
  <2>1. \A f \in outstanding' : f.label \in allocated'
    BY <1>3 DEF CInv, UseInv, Same
  <2>2. \A c : uses_of(c)' = uses_of(c)
    BY <1>3 DEF Same, uses_of
  <2> QED  BY <1>3, <2>1, <2>2 DEF CInv, UseInv, Same
<1>10. LineInv'
  <2>1. ASSUME NEW i \in DOMAIN program', program'[i].op \in {"jump", "cond", "label", "trap"}
        PROVE  program'[i].label \in allocated'
    <3>1. CASE i = n + 1
      BY <1>3, <1>4, <1>5, <3>1
    <3>2. CASE i \in 1 .. n
      BY <1>3, <1>5, <2>1, <3>2 DEF CInv, LineInv
    <3> QED  BY <1>5, <3>1, <3>2
  <2>2. \A x \in Label : label_offsets'[x] = UNKNOWN_LABEL_OFFSET => line_of(x)' = {}
    BY <1>3, <1>7 DEF CInv, LineInv, Same
  <2>3. \A x \in trap_labels' : label_offsets'[x] = UNKNOWN_LABEL_OFFSET =>
            \E i \in DOMAIN pending_traps' : pending_traps'[i] = x
    <3>1. \A x \in trap_labels : label_offsets[x] = UNKNOWN_LABEL_OFFSET =>
            \E i \in DOMAIN pending_traps : pending_traps[i] = x
      BY DEF CInv, LineInv
    <3>2. label_offsets' = label_offsets
      BY <1>3 DEF Same
    <3> QED  BY <1>6, <1>7, <3>1, <3>2
  <2>4. \A i \in DOMAIN pending_traps' : pending_traps'[i] \in trap_labels'
    BY <1>6, <1>7 DEF CInv, LineInv
  <2> QED  BY <1>5, <2>1, <2>2, <2>3, <2>4 DEF LineInv
<1>11. TailClosed'
  BY <1>3 DEF TailClosed
<1> QED  BY <1>8, <1>9, <1>10, <1>11 DEF CInv

(***************************************************************************)
(* A label is bound at the tail.                                           *)
(***************************************************************************)

\* What bind_label does here.
LEMMA BindFacts ==
    ASSUME IInv, CInv, NEW l \in Label, SemBind(l)
    PROVE  /\ l \in allocated /\ l \notin trap_labels /\ line_of(l) = {}
           /\ label_offsets[l] = UNKNOWN_LABEL_OFFSET
           /\ label_offsets' = [label_offsets EXCEPT ![l] = off]
           /\ program' = Append(program, [op |-> "label", label |-> l])
           /\ pc = "idle" /\ pc' \in {"idle", "optimize_branches"}
           /\ UNCHANGED <<off, nlabels, label_aliases, latest_branches, pending_fixup_records,
                          fixup_records, taken, pending_traps, code, patched>>
           /\ outstanding' = outstanding /\ allocated' = allocated
<1>1. BindLabel(l) /\ line("label", l) /\ UNCHANGED <<code, patched>>
  BY DEF SemBind
<1>2. /\ l \in allocated /\ label_offsets[l] = UNKNOWN_LABEL_OFFSET
      /\ \A i \in 1 .. Len(pending_traps) : pending_traps[i] # l
      /\ label_offsets' = [label_offsets EXCEPT ![l] = off] /\ label_aliases' = label_aliases
      /\ pc = "idle" /\ pc' \in {"idle", "optimize_branches"}
  BY <1>1 DEF BindLabel, bindable, bind, enter_optimize_branches
<1>3. UNCHANGED <<off, nlabels, latest_branches, pending_fixup_records,
                  fixup_records, taken, pending_traps>>
  BY <1>1 DEF BindLabel, deferVars, islandVars
<1>4. DOMAIN pending_traps = 1 .. Len(pending_traps)
  BY DEF IInv, TypeOK
<1>5. l \notin trap_labels /\ line_of(l) = {}
  BY <1>2, <1>4 DEF CInv, LineInv
<1>6. outstanding' = outstanding /\ allocated' = allocated
  BY <1>3 DEF outstanding, allocated
<1> QED  BY <1>1, <1>2, <1>3, <1>5, <1>6 DEF line

\* In the buffer, what was led to the label now leads to the tail.
LEMMA EmittedBind ==
    ASSUME IInv, TargetsAllocated, CInv, IInv', NEW l \in Label, SemBind(l)
    PROVE  LET u == step("unbound", l)
               to(s) == IF s = u THEN tail ELSE s
           IN
           /\ \A o : goto_offset(o)' = goto_offset(o) /\ goto_offset(o) # u
           /\ \A x \in allocated : goto_bound(x)' = to(goto_bound(x))
           /\ \A V : \A i \in 1 .. Len(code) : emitted(V)'[i] = to(emitted(V)[i])
<1> DEFINE u == step("unbound", l)
           to(s) == IF s = u THEN tail ELSE s
<1>1. /\ l \in allocated /\ l \notin trap_labels
      /\ label_offsets[l] = UNKNOWN_LABEL_OFFSET
      /\ label_offsets' = [label_offsets EXCEPT ![l] = off]
      /\ program' = Append(program, [op |-> "label", label |-> l])
      /\ UNCHANGED <<off, label_aliases, code, patched>>
      /\ outstanding' = outstanding /\ label_aliases' = label_aliases
  BY BindFacts
<1>2. \A o : goto_offset(o)' = goto_offset(o) /\ goto_offset(o) # u
  BY <1>1 DEF goto_offset, item_at, step, tail, goto
<1>3. trap_labels' = trap_labels
  <2>1. program \in Seq(Line) /\ [op |-> "label", label |-> l] \in Line
    BY DEF CInv, LineInv, Line
  <2>2. PICK p : p = [op |-> "label", label |-> l]
    OBVIOUS
  <2>3. p \in Line /\ program' = Append(program, p) /\ p.op = "label"
    BY <1>1, <2>1, <2>2
  <2>4. trap_labels' = IF p.op = "trap" THEN trap_labels \cup {p.label} ELSE trap_labels
    BY <2>1, <2>3, LabelsAppend
  <2> QED  BY <2>3, <2>4
<1>4. off \in Nat /\ label_offsets \in [Label -> Offset]
  BY DEF IInv, TypeOK
<1>5. goto_offset(off) = tail
  BY DEF goto_offset
<1>6. ASSUME NEW r \in Label PROVE bound_step(r)' = to(bound_step(r))
  <2>1. CASE r = l
    <3>1. bound_step(r) = u
      BY <1>1, <2>1 DEF bound_step, unbound
    <3>2. label_offsets'[r] = off /\ off # UNKNOWN_LABEL_OFFSET
      BY <1>1, <1>4, <2>1 DEF UNKNOWN_LABEL_OFFSET
    <3>3. PICK o : o = off
      OBVIOUS
    <3>4. label_offsets'[r] = o
      BY <3>2, <3>3
    <3>5. bound_step(r)' = goto_offset(o)'
      BY <3>2, <3>3, <3>4 DEF bound_step
    <3> QED  BY <1>2, <1>5, <3>1, <3>3, <3>5
  <2>2. CASE r # l
    <3>1. PICK o : o = label_offsets[r]
      OBVIOUS
    <3>2. label_offsets'[r] = o
      BY <1>1, <1>4, <2>2, <3>1
    <3>3. unbound(r)' = unbound(r) /\ unbound(r) # u
      BY <1>3, <2>2 DEF unbound, step
    <3>4. CASE o = UNKNOWN_LABEL_OFFSET
      BY <3>1, <3>2, <3>3, <3>4 DEF bound_step
    <3>5. CASE o # UNKNOWN_LABEL_OFFSET
      <4>1. bound_step(r) = goto_offset(o) /\ bound_step(r)' = goto_offset(o)'
        BY <3>1, <3>2, <3>5 DEF bound_step
      <4> QED  BY <1>2, <4>1
    <3> QED  BY <3>4, <3>5
  <2> QED  BY <2>1, <2>2
<1>7. ASSUME NEW x \in allocated PROVE goto_bound(x)' = to(goto_bound(x))
  <2>1. x \in Label
    BY AllocatedLabels
  <2>2. PICK r : r = root[x]
    OBVIOUS
  <2>3. r \in Label /\ r = root'[x]
    BY <1>1, <2>1, <2>2, RootFacts, RootKept DEF IInv
  <2>4. goto_bound(x) = bound_step(r) /\ goto_bound(x)' = bound_step(r)'
    BY <2>1, <2>2, <2>3, Bounds, Bounds1 DEF BoundSteps
  <2> QED  BY <1>6, <2>3, <2>4
<1>8. ASSUME NEW i \in 1 .. Len(code), NEW c, c = code[i] PROVE follow(c)' = to(follow(c))
  <2>1. uses_of(c)' = uses_of(c)
    BY <1>1 DEF uses_of
  <2>2. CASE uses_of(c) = {}
    <3>1. PICK o : o = patched[c.use]
      OBVIOUS
    <3>2. patched'[c.use] = o
      BY <1>1, <3>1
    <3>3. follow(c) = goto_offset(o) /\ follow(c)' = goto_offset(o)'
      BY <2>1, <2>2, <3>1, <3>2 DEF follow
    <3> QED  BY <1>2, <3>3
  <2>3. CASE uses_of(c) # {}
    <3>1. PICK x : x = (CHOOSE f \in uses_of(c) : TRUE).label
      OBVIOUS
    <3>2. x \in allocated
      BY <2>3, <3>1 DEF uses_of, CInv, UseInv
    <3>3. follow(c) = goto_bound(x) /\ follow(c)' = goto_bound(x)'
      BY <2>1, <2>3, <3>1 DEF follow
    <3> QED  BY <1>7, <3>2, <3>3
  <2> QED  BY <2>2, <2>3
<1>9. ASSUME NEW V, NEW i \in 1 .. Len(code) PROVE emitted(V)'[i] = to(emitted(V)[i])
  <2>1. PICK c : c = code[i]
    OBVIOUS
  <2>2. code \in Seq(Item) /\ code' = code
    BY <1>1 DEF CInv, CodeInv
  <2>3. code'[i] = c /\ Len(code') = Len(code) /\ code' \in Seq(Item)
    BY <2>1, <2>2
  <2>4. emitted(V)[i] = item_step(c, V)
    BY <2>1, <2>2, Emitted DEF EmittedTable
  <2>5. emitted(V)'[i] = item_step(c, V)'
    BY <2>3, Tables1 DEF EmittedTable
  <2>6. CASE c.op \in {"inst", "ret", "trap"}
    BY <2>4, <2>5, <2>6 DEF item_step, step
  <2>7. CASE c.op = "jump" \/ (c.op = "cond" /\ V[c.id] = c.sense)
    <3>1. item_step(c, V) = follow(c) /\ item_step(c, V)' = follow(c)'
      BY <2>7 DEF item_step
    <3> QED  BY <1>8, <2>1, <2>4, <2>5, <3>1
  <2>8. CASE ~(c.op \in {"inst", "ret", "trap"})
             /\ ~(c.op = "jump" \/ (c.op = "cond" /\ V[c.id] = c.sense))
    <3>1. item_step(c, V) = goto_offset(c.end) /\ item_step(c, V)' = goto_offset(c.end)'
      BY <2>8 DEF item_step
    <3> QED  BY <1>2, <2>4, <2>5, <3>1
  <2> QED  BY <2>6, <2>7, <2>8
<1> QED  BY <1>2, <1>7, <1>9

\* bind_label keeps buffer and listing alike: the new line stands for the tail.
LEMMA BindOInv ==
    ASSUME IInv, TargetsAllocated, CInv, OInv, IInv', NEW l \in Label, SemBind(l)
    PROVE  OInv'
<1> DEFINE n == Len(program)
           m == Len(code)
           u == step("unbound", l)
           hs == {tail, unbound(l)}
           to(s) == IF s = u THEN tail ELSE s
<1>1. /\ l \in allocated /\ l \notin trap_labels /\ line_of(l) = {}
      /\ label_offsets[l] = UNKNOWN_LABEL_OFFSET
      /\ program' = Append(program, [op |-> "label", label |-> l])
      /\ UNCHANGED <<off, label_aliases, code, patched>>
      /\ outstanding' = outstanding /\ allocated' = allocated /\ code' = code
  BY BindFacts
<1>2. /\ \A o : goto_offset(o)' = goto_offset(o) /\ goto_offset(o) # u
      /\ \A x \in allocated : goto_bound(x)' = to(goto_bound(x))
      /\ \A V : \A i \in 1 .. m : emitted(V)'[i] = to(emitted(V)[i])
  BY EmittedBind
<1>3. program \in Seq(Line) /\ code \in Seq(Item) /\ code' \in Seq(Item) /\ Len(code') = m
  BY <1>1 DEF CInv, LineInv, CodeInv
<1>4. ASSUME NEW V
      PROVE  /\ Continues(listing(V), n, listing(V)', hs)
             /\ listing(V)'[n + 1] = tail
             /\ \A i \in 1 .. (n + 1) : goto_line(i)' = On(goto_line(i), n, hs)
             /\ \A x : goto_label(x)' = On(goto_label(x), n, hs)
             /\ unbound(l) = u
  BY <1>1, <1>3, ListingBind
<1>5. /\ n \in Nat /\ DOMAIN program = 1 .. n /\ DOMAIN program' = 1 .. (n + 1)
      /\ program'[n + 1] = [op |-> "label", label |-> l]
      /\ \A i \in 1 .. n : program'[i] = program[i]
      /\ \A i \in 1 .. (n + 1) : i \in 1 .. n \/ i = n + 1
      /\ 1 \in 1 .. (n + 1)
  <2>1. [op |-> "label", label |-> l] \in Line
    BY DEF Line
  <2> QED  BY <1>1, <1>3, <2>1, AppendAt
<1>6. /\ \A i \in 1 .. (n + 1) : IsStep(goto_line(i), n)
      /\ \A x : IsStep(goto_label(x), n) /\ IsStep(goto_bound(x), m)
      /\ \A o : IsStep(goto_offset(o), m)
      /\ \A V : IsNext(emitted(V), m) /\ IsNext(emitted(V)', m)
  BY <1>3, Listing, Emitted, Tables1 DEF ListingTable, EmittedTable
<1>7. IsEnd(u) /\ IsEnd(tail) /\ IsStep(tail, m)
  BY DEF IsEnd, tail, step, IsStep
<1> HIDE DEF n, m, u, hs, to
<1>8. ASSUME NEW V, NEW s, NEW t, IsStep(s, n), IsStep(t, m), RunsAlike(s, t, V)
      PROVE  ends(listing(V)', On(s, n, hs)) = ends(emitted(V)', to(t))
  <2>1. ends(listing(V)', On(s, n, hs)) =
           IF ends(listing(V), s) \in hs THEN listing(V)'[n + 1] ELSE ends(listing(V), s)
    BY <1>4, <1>7, <1>8, ContinueEnd
  <2>2. \A i \in 1 .. m : emitted(V)'[i] = IF emitted(V)[i] = u THEN tail ELSE emitted(V)[i]
    BY <1>2 DEF to
  <2>3. ends(emitted(V)', to(t)) = IF ends(emitted(V), t) = u THEN tail ELSE ends(emitted(V), t)
    BY <1>6, <1>7, <1>8, <2>2, Rename DEF to
  <2>4. ends(listing(V), s) = ends(emitted(V), t)
    BY <1>8 DEF RunsAlike
  <2>5. hs = {tail, u}
    BY <1>4 DEF hs
  <2> QED  BY <1>4, <2>1, <2>3, <2>4, <2>5
<1>9. ASSUME NEW V \in [Nat -> BOOLEAN] PROVE EntryAlike(V)'
  <2>1. RunsAlike(goto_line(1), goto_offset(0), V)
    BY DEF OInv, EntryAlike
  <2>2. ends(listing(V)', goto_line(1)') = ends(emitted(V)', to(goto_offset(0)))
    BY <1>4, <1>5, <1>6, <1>8, <2>1
  <2>3. to(goto_offset(0)) = goto_offset(0)'
    BY <1>2 DEF to
  <2> QED  BY <2>2, <2>3 DEF EntryAlike, RunsAlike
<1>10. ASSUME NEW V \in [Nat -> BOOLEAN], NEW x \in allocated' PROVE LabelAlike(x, V)'
  <2>1. x \in allocated
    BY <1>1
  <2>2. RunsAlike(goto_label(x), goto_bound(x), V)
    BY <2>1 DEF OInv, LabelAlike
  <2>3. ends(listing(V)', goto_label(x)') = ends(emitted(V)', goto_bound(x)')
    BY <1>2, <1>4, <1>6, <1>8, <2>1, <2>2
  <2> QED  BY <2>3 DEF LabelAlike, RunsAlike
<1>11. ASSUME NEW i \in DOMAIN program', program'[i].op = "inst"
       PROVE  \E q \in DOMAIN code' : /\ code'[q].op = "inst" /\ code'[q].id = i
                                      /\ \A V \in [Nat -> BOOLEAN] : AfterAlike(i, q, V)'
  <2>1. i \in 1 .. n /\ i \in DOMAIN program /\ program[i].op = "inst"
    BY <1>5, <1>11
  <2>2. PICK q \in DOMAIN code : /\ code[q].op = "inst" /\ code[q].id = i
                                 /\ \A V \in [Nat -> BOOLEAN] : AfterAlike(i, q, V)
    BY <2>1 DEF OInv
  <2>3. PICK o : o = code[q].end
    OBVIOUS
  <2>4. ASSUME NEW V \in [Nat -> BOOLEAN] PROVE AfterAlike(i, q, V)'
    <3>1. RunsAlike(goto_line(i + 1), goto_offset(o), V)
      BY <2>2, <2>3 DEF AfterAlike
    <3>2. i + 1 \in 1 .. (n + 1)
      BY <1>5, <2>1
    <3>3. ends(listing(V)', goto_line(i + 1)') = ends(emitted(V)', to(goto_offset(o)))
      BY <1>4, <1>6, <1>8, <3>1, <3>2
    <3>4. to(goto_offset(o)) = goto_offset(o)'
      BY <1>2 DEF to
    <3>5. code'[q].end = o
      BY <1>1, <2>3
    <3> QED  BY <3>3, <3>4, <3>5 DEF AfterAlike, RunsAlike
  <2> QED  BY <1>1, <2>2, <2>4
<1> QED  BY <1>9, <1>10, <1>11 DEF OInv

\* bind_label keeps the invariant of the items and of their label uses.
LEMMA BindCInv ==
    ASSUME IInv, CInv, NEW l \in Label, SemBind(l)
    PROVE  CInv'
<1> DEFINE n == Len(program)
<1>1. /\ l \in allocated
      /\ label_offsets' = [label_offsets EXCEPT ![l] = off]
      /\ program' = Append(program, [op |-> "label", label |-> l])
      /\ pc' \in {"idle", "optimize_branches"}
      /\ UNCHANGED <<off, latest_branches, pending_fixup_records,
                     fixup_records, taken, pending_traps, code, patched>>
      /\ outstanding' = outstanding /\ allocated' = allocated
  BY BindFacts
<1>2. PICK p : p = [op |-> "label", label |-> l]
  OBVIOUS
<1>3. /\ program \in Seq(Line) /\ p \in Line /\ program' = Append(program, p)
      /\ p.op = "label" /\ p.label = l
  BY <1>1, <1>2 DEF CInv, LineInv, Line
<1>4. /\ program' \in Seq(Line)
      /\ n \in Nat /\ DOMAIN program = 1 .. n /\ DOMAIN program' = 1 .. (n + 1) /\ program'[n + 1] = p
      /\ \A i \in 1 .. n : program'[i] = program[i]
      /\ \A i \in 1 .. (n + 1) : i \in 1 .. n \/ i = n + 1
  BY <1>3, AppendAt
<1> HIDE DEF n
<1>5. trap_labels' = trap_labels /\ \A x \in Label : x # l => line_of(x)' = line_of(x)
  <2>1. /\ trap_labels' = IF p.op = "trap" THEN trap_labels \cup {p.label} ELSE trap_labels
        /\ \A x : line_of(x)' = line_of(x) \cup
              (IF p.op = "label" /\ p.label = x THEN {Len(program) + 1} ELSE {})
    BY <1>3, LabelsAppend
  <2>2. trap_labels' = trap_labels
    BY <1>3, <2>1
  <2>3. \A x : x # l => line_of(x)' = line_of(x) \cup {}
    BY <1>3, <2>1
  <2> QED  BY <2>2, <2>3
<1>6. label_offsets \in [Label -> Offset] /\ off \in Nat /\ off # UNKNOWN_LABEL_OFFSET
  BY DEF IInv, TypeOK, UNKNOWN_LABEL_OFFSET
<1>7. \A x \in Label : label_offsets'[x] = UNKNOWN_LABEL_OFFSET =>
          x # l /\ label_offsets[x] = UNKNOWN_LABEL_OFFSET
  BY <1>1, <1>6
<1>8. CodeInv' /\ UsesApart' /\ BranchItems'
  BY <1>1 DEF CInv, CodeInv, UsesApart, BranchItems
<1>9. UseInv'
  <2>1. \A f \in outstanding' : f.label \in allocated'
    BY <1>1 DEF CInv, UseInv
  <2>2. \A c : uses_of(c)' = uses_of(c)
    BY <1>1 DEF uses_of
  <2> QED  BY <1>1, <2>1, <2>2 DEF CInv, UseInv
<1>10. LineInv'
  <2>1. ASSUME NEW i \in DOMAIN program', program'[i].op \in {"jump", "cond", "label", "trap"}
        PROVE  program'[i].label \in allocated'
    <3>1. CASE i = n + 1
      BY <1>1, <1>3, <1>4, <3>1
    <3>2. CASE i \in 1 .. n
      BY <1>1, <1>4, <2>1, <3>2 DEF CInv, LineInv
    <3> QED  BY <1>4, <3>1, <3>2
  <2>2. \A x \in Label : label_offsets'[x] = UNKNOWN_LABEL_OFFSET => line_of(x)' = {}
    BY <1>5, <1>7 DEF CInv, LineInv
  <2>3. \A x \in trap_labels' : label_offsets'[x] = UNKNOWN_LABEL_OFFSET =>
            \E i \in DOMAIN pending_traps' : pending_traps'[i] = x
    <3>1. \A x \in trap_labels : x \in Label
      BY AllocatedLabels DEF CInv, LineInv, trap_labels
    <3> QED  BY <1>1, <1>5, <1>7, <3>1 DEF CInv, LineInv
  <2>4. \A i \in DOMAIN pending_traps' : pending_traps'[i] \in trap_labels'
    BY <1>1, <1>5 DEF CInv, LineInv
  <2> QED  BY <1>4, <2>1, <2>2, <2>3, <2>4 DEF LineInv
<1>11. TailClosed'
  BY <1>1 DEF TailClosed
<1> QED  BY <1>8, <1>9, <1>10, <1>11 DEF CInv

(***************************************************************************)
(* Branch editing.                                                         *)
(***************************************************************************)

\* An edit that leads everything the listing can reach where it led before.
LEMMA EditOInv ==
    ASSUME OInv, UNCHANGED <<program, nlabels>>,
           \A V \in [Nat -> BOOLEAN] :
              /\ ends(emitted(V)', goto_offset(0)') = ends(emitted(V), goto_offset(0))
              /\ \A x \in allocated :
                    ends(emitted(V)', goto_bound(x)') = ends(emitted(V), goto_bound(x)),
           \A i \in DOMAIN code : code[i].op = "inst" =>
              /\ i \in DOMAIN code' /\ code'[i] = code[i]
              /\ \A V \in [Nat -> BOOLEAN] : \A o : o = code[i].end =>
                    ends(emitted(V)', goto_offset(o)') = ends(emitted(V), goto_offset(o))
    PROVE  OInv'
<1>1. \A l : unbound(l)' = unbound(l) /\ goto_label(l)' = goto_label(l)
  BY DEF unbound, trap_labels, goto_label, line_of
<1>2. \A i : goto_line(i)' = goto_line(i)
  BY DEF goto_line
<1>3. \A V : listing(V)' = listing(V)
  BY <1>1, <1>2 DEF listing, line_step
<1>4. allocated' = allocated /\ program' = program
  BY DEF allocated
<1>5. ASSUME NEW V \in [Nat -> BOOLEAN] PROVE EntryAlike(V)' /\ \A l \in allocated' : LabelAlike(l, V)'
  <2>1. EntryAlike(V) /\ \A l \in allocated : LabelAlike(l, V)
    BY DEF OInv
  <2>2. EntryAlike(V)'
    BY <1>2, <1>3, <2>1 DEF EntryAlike, RunsAlike
  <2>3. ASSUME NEW l \in allocated' PROVE LabelAlike(l, V)'
    BY <1>1, <1>3, <1>4, <2>1, <2>3 DEF LabelAlike, RunsAlike
  <2> QED  BY <2>2, <2>3
<1>6. ASSUME NEW i \in DOMAIN program', program'[i].op = "inst"
      PROVE  \E q \in DOMAIN code' : /\ code'[q].op = "inst" /\ code'[q].id = i
                                     /\ \A V \in [Nat -> BOOLEAN] : AfterAlike(i, q, V)'
  <2>1. PICK q \in DOMAIN code : /\ code[q].op = "inst" /\ code[q].id = i
                                 /\ \A V \in [Nat -> BOOLEAN] : AfterAlike(i, q, V)
    BY <1>4, <1>6 DEF OInv
  <2>2. PICK o : o = code[q].end
    OBVIOUS
  <2>3. q \in DOMAIN code' /\ code'[q] = code[q]
    BY <2>1
  <2>4. ASSUME NEW V \in [Nat -> BOOLEAN] PROVE AfterAlike(i, q, V)'
    <3>1. RunsAlike(goto_line(i + 1), goto_offset(o), V)
      BY <2>1, <2>2 DEF AfterAlike
    <3>2. code'[q].end = o
      BY <2>2, <2>3
    <3>3. ends(emitted(V)', goto_offset(o)') = ends(emitted(V), goto_offset(o))
      BY <2>1, <2>2
    <3>4. ends(listing(V)', goto_line(i + 1)') = ends(emitted(V)', goto_offset(o)')
      BY <1>2, <1>3, <3>1, <3>3 DEF RunsAlike
    <3> QED  BY <3>2, <3>4 DEF AfterAlike, RunsAlike
  <2> QED  BY <2>1, <2>3, <2>4
<1> QED  BY <1>5, <1>6 DEF OInv

\* The branch that may be edited is the last item.
LEMMA LastItem ==
    ASSUME IInv, CInv, editable
    PROVE  LET n == Len(code) IN
           /\ n \in Nat /\ n \in 1 .. n /\ DOMAIN code = 1 .. n /\ code \in Seq(Item)
           /\ code[n].start = b.start /\ code[n].end = off /\ code[n].use = b.start
           /\ code[n].op = IF b.cond THEN "cond" ELSE "jump"
           /\ goto_offset(b.start) = goto(n)
           /\ follow(code[n]) = goto_bound(b.target)
           /\ off \in Nat /\ b.start \in Nat /\ b.start < off
           /\ \A i \in 1 .. (n - 1) :
                 /\ i \in 1 .. n /\ code[i] \in Item /\ code[i].start \in Nat /\ code[i].end \in Nat
                 /\ code[i].use \in Nat
                 /\ code[i].start < code[i].end /\ code[i].end <= b.start
                 /\ code[i].op \in {"jump", "cond"} =>
                       /\ code[i].start <= code[i].use /\ code[i].use < code[i].end
                       /\ uses_of(code[i]) # {} \/ code[i].use \in DOMAIN patched
<1> DEFINE n == Len(code)
<1>1. /\ Len(latest_branches) \in DOMAIN latest_branches /\ b = latest_branches[Len(latest_branches)]
      /\ off \in Nat /\ b.start \in Nat /\ b.end = off /\ b.start < off
      /\ b.fixup \in 1 .. Len(pending_fixup_records)
  BY LastBranch
<1>2. /\ code \in Seq(Item) /\ n \in Nat /\ DOMAIN code = 1 .. n
  BY DEF CInv, CodeInv
<1> HIDE DEF n
<1>3. \A i \in 1 .. n :
                 /\ code[i] \in Item /\ code[i].start \in Nat /\ code[i].end \in Nat
                 /\ code[i].use \in Nat
                 /\ code[i].start < code[i].end /\ code[i].end <= off
                 /\ \A j \in 1 .. n : i < j => code[i].end <= code[j].start
                 /\ code[i].op \in {"jump", "cond"} =>
                       /\ code[i].start <= code[i].use /\ code[i].use < code[i].end
                       /\ uses_of(code[i]) # {} \/ code[i].use \in DOMAIN patched
  <2>1. \A i \in 1 .. n : code[i] \in Item
    BY <1>2
  <2>2. \A i \in 1 .. n : code[i].start \in Nat /\ code[i].end \in Nat /\ code[i].use \in Nat
    BY <2>1 DEF Item
  <2> QED  BY <1>2, <2>1, <2>2 DEF CInv, CodeInv, UseInv
<1>4. PICK i \in 1 .. n : /\ code[i].start = b.start /\ code[i].end = off
                          /\ code[i].op = IF b.cond THEN "cond" ELSE "jump"
                          /\ code[i].use = b.start
  <2>1. \A k \in DOMAIN latest_branches : \E i \in 1 .. n :
        /\ code[i].start = latest_branches[k].start /\ code[i].end = latest_branches[k].end
        /\ code[i].op = IF latest_branches[k].cond THEN "cond" ELSE "jump"
        /\ code[i].use = code[i].start
    BY <1>2 DEF CInv, BranchItems
  <2>2. PICK i \in 1 .. n :
        /\ code[i].start = b.start /\ code[i].end = b.end
        /\ code[i].op = IF b.cond THEN "cond" ELSE "jump"
        /\ code[i].use = code[i].start
    BY <1>1, <2>1
  <2> QED  BY <1>1, <2>2
<1>5. i = n
  <2>1. n \in 1 .. n
    BY <1>2
  <2>2. CASE i < n
    <3>1. code[i].end <= code[n].start
      BY <1>3, <2>1, <2>2
    <3>2. code[n].start < code[n].end /\ code[n].end <= off /\ code[n].start \in Nat /\ code[n].end \in Nat
      BY <1>3, <2>1
    <3> QED  BY <1>1, <1>4, <3>1, <3>2
  <2> QED  BY <1>2, <2>2
<1>6. /\ n \in 1 .. n /\ code[n].start = b.start /\ code[n].end = off /\ code[n].use = b.start
      /\ code[n].op = IF b.cond THEN "cond" ELSE "jump"
  BY <1>4, <1>5
<1>7. goto_offset(b.start) = goto(n)
  BY <1>1, <1>6, Offsets DEF OffsetSteps, CInv, n
<1>8. follow(code[n]) = goto_bound(b.target)
  <2>1. PICK g : g = pending_fixup_records[b.fixup]
    OBVIOUS
  <2>2. g.label = b.target /\ g.offset = b.start
    BY <1>1, <2>1 DEF IInv, BranchFixup
  <2>3. g \in outstanding
    <3>1. b.fixup \in DOMAIN pending_fixup_records
      BY <1>1 DEF IInv, BranchFixup
    <3> QED  BY <2>1, <3>1 DEF outstanding
  <2>4. uses_of(code[n]) = {g}
    BY <1>6, <2>2, <2>3, OneUseFacts DEF OneUse, CInv
  <2> QED  BY <2>2, <2>4 DEF follow
<1>9. \A j \in 1 .. (n - 1) : j \in 1 .. n /\ j < n
  BY <1>2
<1>10. \A j \in 1 .. (n - 1) : code[j].end <= b.start
  BY <1>3, <1>6, <1>9
<1> QED  BY <1>1, <1>2, <1>3, <1>6, <1>7, <1>8, <1>9, <1>10 DEF n

\* What led to the branch when its bytes are dropped leads to the new tail.
Cut(s) == IF s = goto(Len(code)) THEN tail ELSE s

\* Where offsets and labels lead when the last branch is gone: those that led to
\* it, and no others, lead to the tail.
LEMMA CutFacts ==
    ASSUME IInv, TargetsAllocated, CInv, IInv', editable, truncate_last_branch,
           code' \in Seq(Item), Len(code') = Len(code) - 1,
           \A i \in 1 .. (Len(code) - 1) : code'[i].start = code[i].start,
           UNCHANGED <<program, patched>>
    PROVE  /\ \A o \in Nat : o <= b.start =>
                 /\ goto_offset(o)' = Cut(goto_offset(o))
                 /\ goto_offset(o) = goto(Len(code)) => o = b.start
           /\ \A x \in allocated :
                 /\ goto_bound(x)' = Cut(goto_bound(x))
                 /\ goto_bound(x) = goto(Len(code)) => resolve_label_offset[x] = b.start
<1> DEFINE n == Len(code)
<1>1. /\ n \in Nat /\ n \in 1 .. n /\ DOMAIN code = 1 .. n
      /\ code[n].start = b.start /\ goto_offset(b.start) = goto(n)
      /\ off \in Nat /\ b.start \in Nat /\ b.start < off
  BY LastItem
<1>2. /\ off' = b.start /\ label_aliases' = label_aliases
      /\ \A x \in Label : label_offsets'[x] =
            IF x \in live /\ label_offsets[x] = off THEN b.start ELSE label_offsets[x]
  BY TruncateLabels
<1>3. DOMAIN code' = 1 .. (n - 1)
  OBVIOUS
<1> HIDE DEF n
<1>4. Cut(tail) = tail /\ \A s : s # goto(n) => Cut(s) = s
  BY DEF Cut, n, tail, goto, step
<1>5. ASSUME NEW o \in Nat, o <= b.start
      PROVE  /\ goto_offset(o)' = Cut(goto_offset(o))
             /\ goto_offset(o) = goto(n) => o = b.start
  <2>1. CASE o = b.start
    <3>1. goto_offset(o)' = tail
      BY <1>2, <2>1 DEF goto_offset
    <3> QED  BY <1>1, <2>1, <3>1 DEF Cut, n
  <2>2. CASE o # b.start
    <3>1. \A i \in 1 .. n : i \in 1 .. (n - 1) \/ i = n
      BY <1>1
    <3>2. \A i \in 1 .. (n - 1) : i \in 1 .. n /\ code'[i].start = code[i].start
      BY <1>1 DEF n
    <3>3. item_at(o)' = item_at(o)
      <4>1. item_at(o)' = {i \in 1 .. (n - 1) : code'[i].start = o}
        BY <1>3 DEF item_at
      <4>2. item_at(o) = {i \in 1 .. n : code[i].start = o}
        BY <1>1 DEF item_at
      <4> QED  BY <1>1, <2>2, <3>1, <3>2, <4>1, <4>2
    <3>4. o # off /\ o # off'
      BY <1>1, <1>2, <1>5, <2>2
    <3>5. goto_offset(o)' = goto_offset(o)
      BY <3>3, <3>4 DEF goto_offset
    <3>6. goto_offset(o) # goto(n)
      <4>1. CASE item_at(o) = {}
        BY <3>4, <4>1 DEF goto_offset, step, goto
      <4>2. CASE item_at(o) # {}
        <5>1. PICK i \in item_at(o) : i = CHOOSE j \in item_at(o) : TRUE
          BY <4>2
        <5>2. goto_offset(o) = goto(i)
          BY <3>4, <4>2, <5>1 DEF goto_offset
        <5>3. i # n
          BY <1>1, <2>2 DEF item_at
        <5> QED  BY <5>2, <5>3 DEF goto, step
      <4> QED  BY <4>1, <4>2
    <3> QED  BY <1>4, <3>5, <3>6
  <2> QED  BY <2>1, <2>2
<1>6. ASSUME NEW x \in allocated
      PROVE  /\ goto_bound(x)' = Cut(goto_bound(x))
             /\ goto_bound(x) = goto(n) => resolve_label_offset[x] = b.start
  <2>1. x \in Label
    BY AllocatedLabels
  <2>2. PICK r : r = root[x]
    OBVIOUS
  <2>3. r \in Label /\ r \in live /\ r = root'[x] /\ resolve_label_offset[x] = label_offsets[r]
    BY <1>2, <2>1, <2>2, RootFacts, RootKept DEF IInv
  <2>4. goto_bound(x) = bound_step(r) /\ goto_bound(x)' = bound_step(r)'
    BY <2>1, <2>2, <2>3, Bounds, Bounds1 DEF BoundSteps
  <2>5. label_offsets[r] # UNKNOWN_LABEL_OFFSET => label_offsets[r] \in Nat
    BY <2>1, <2>2, Bounds DEF BoundSteps
  <2>6. label_offsets[r] <= b.start \/ label_offsets[r] = off
    BY <2>3, LastBranch
  <2>7. CASE label_offsets[r] = UNKNOWN_LABEL_OFFSET
    <3>1. label_offsets'[r] = UNKNOWN_LABEL_OFFSET
      BY <1>1, <1>2, <2>3, <2>7 DEF UNKNOWN_LABEL_OFFSET
    <3>2. bound_step(r) = unbound(r) /\ bound_step(r)' = unbound(r)
      BY <2>7, <3>1 DEF bound_step, unbound, trap_labels
    <3>3. unbound(r) # goto(n)
      BY DEF unbound, step, goto
    <3> QED  BY <1>4, <2>4, <3>2, <3>3
  <2>8. CASE label_offsets[r] = off
    <3>1. PICK o : o = b.start
      OBVIOUS
    <3>2. label_offsets'[r] = o /\ o # UNKNOWN_LABEL_OFFSET /\ off # UNKNOWN_LABEL_OFFSET
      BY <1>1, <1>2, <2>3, <2>8, <3>1 DEF UNKNOWN_LABEL_OFFSET
    <3>3. bound_step(r)' = goto_offset(o)'
      BY <3>2 DEF bound_step
    <3>4. goto_offset(o)' = tail
      BY <1>1, <1>5, <3>1 DEF Cut, n
    <3>5. bound_step(r) = tail
      BY <2>8, <3>2 DEF bound_step, goto_offset
    <3>6. tail # goto(n)
      BY DEF tail, goto, step
    <3> QED  BY <1>4, <2>4, <3>3, <3>4, <3>5, <3>6
  <2>9. CASE label_offsets[r] # UNKNOWN_LABEL_OFFSET /\ label_offsets[r] # off
    <3>1. PICK o \in Nat : o = label_offsets[r]
      BY <2>5, <2>9
    <3>2. o <= b.start /\ label_offsets'[r] = o
      BY <1>2, <2>3, <2>6, <2>9, <3>1
    <3>3. bound_step(r) = goto_offset(o) /\ bound_step(r)' = goto_offset(o)'
      BY <2>9, <3>1, <3>2 DEF bound_step
    <3> QED  BY <1>5, <2>3, <2>4, <3>1, <3>2, <3>3
  <2> QED  BY <2>7, <2>8, <2>9
<1> QED  BY <1>5, <1>6 DEF n

\* The items before the branch.
LEMMA RemainingFacts ==
    ASSUME IInv, CInv, editable, off' = b.start
    PROVE  /\ remaining \in Seq(Item) /\ Len(remaining) = Len(code) - 1
           /\ DOMAIN remaining = 1 .. (Len(code) - 1)
           /\ \A i \in 1 .. (Len(code) - 1) : remaining[i] = code[i]
<1> DEFINE n == Len(code)
<1>1. /\ n \in Nat /\ n \in 1 .. n /\ DOMAIN code = 1 .. n /\ code \in Seq(Item)
      /\ code[n].start = b.start /\ b.start \in Nat
      /\ \A i \in 1 .. (n - 1) : /\ i \in 1 .. n /\ code[i] \in Item
                                 /\ code[i].start \in Nat /\ code[i].end \in Nat
                                 /\ code[i].start < code[i].end /\ code[i].end <= b.start
  BY LastItem
<1> HIDE DEF n
<1>2. {j \in DOMAIN code : code[j].start < off'} = 1 .. (n - 1)
  <2>1. \A i \in 1 .. (n - 1) : code[i].start < b.start
    BY <1>1
  <2>2. \A i \in 1 .. n : i \in 1 .. (n - 1) \/ i = n
    BY <1>1
  <2>3. ~(code[n].start < b.start)
    BY <1>1
  <2> QED  BY <1>1, <2>1, <2>2, <2>3
<1>3. remaining = [i \in 1 .. (n - 1) |-> code[i]]
  BY <1>2 DEF remaining
<1>4. n - 1 \in Nat
  BY <1>1
<1>5. remaining \in Seq(Item) /\ Len(remaining) = n - 1
  <2>1. PICK k \in Nat : k = n - 1
    BY <1>4
  <2>2. remaining = [i \in 1 .. k |-> code[i]] /\ \A i \in 1 .. k : code[i] \in Item
    BY <1>1, <1>3, <2>1
  <2>3. remaining \in [1 .. k -> Item]
    BY <2>2
  <2>4. remaining \in Seq(Item) /\ Len(remaining) = k
    BY <2>1, <2>2, <2>3
  <2> QED  BY <2>1, <2>4
<1> QED  BY <1>3, <1>5 DEF n

\* The label uses that are left: those before the branch, which all keep their
\* offset, and their label but for the one at h.
LEMMA CutUses ==
    ASSUME IInv, CInv, editable, UNCHANGED <<taken, fixup_records>>,
           pending_fixup_records' \in Seq(Fixup),
           Len(pending_fixup_records') = b.fixup - 1, NEW h,
           \A j \in 1 .. (b.fixup - 1) :
              /\ pending_fixup_records'[j].offset = pending_fixup_records[j].offset
              /\ pending_fixup_records[j].offset # h =>
                    pending_fixup_records'[j] = pending_fixup_records[j]
    PROVE  /\ UsesApart'
           /\ \A d : d.use \in Nat /\ d.use < b.start /\ d.use # h => uses_of(d)' = uses_of(d)
<1>1. PICK p : p = b.fixup
  OBVIOUS
<1>2. PICK len : len = Len(pending_fixup_records)
  OBVIOUS
<1>3. /\ p \in 1 .. len /\ off \in Nat /\ b.start \in Nat /\ b.end = off /\ b.start < off
      /\ Len(latest_branches) \in DOMAIN latest_branches /\ b = latest_branches[Len(latest_branches)]
  BY <1>1, <1>2, LastBranch
<1>4. /\ len \in Nat /\ DOMAIN pending_fixup_records = 1 .. len
      /\ \A j \in 1 .. len : pending_fixup_records[j] \in Fixup
  BY <1>2 DEF IInv, TypeOK
<1>5. \A j \in 1 .. (p - 1) : j \in 1 .. len
  BY <1>3, <1>4
<1>6. DOMAIN pending_fixup_records' = 1 .. (p - 1)
  BY <1>1
<1>7. \A j \in 1 .. (p - 1) :
          /\ pending_fixup_records'[j].offset = pending_fixup_records[j].offset
          /\ pending_fixup_records[j].offset # h =>
                pending_fixup_records'[j] = pending_fixup_records[j]
  BY <1>1
<1>8. UsesApart'
  <2>1. /\ \A i, j \in 1 .. len :
              i # j => pending_fixup_records[i].offset # pending_fixup_records[j].offset
        /\ \A i \in DOMAIN taken, j \in 1 .. len : taken[i].offset # pending_fixup_records[j].offset
        /\ \A f \in fixup_records, i \in 1 .. len : pending_fixup_records[i].offset # f.offset
    BY <1>4 DEF CInv, UsesApart
  <2>2. /\ \A i, j \in DOMAIN taken : i # j => taken[i].offset # taken[j].offset
        /\ \A f \in fixup_records : /\ \A i \in DOMAIN taken : taken[i].offset # f.offset
                                    /\ \A g \in fixup_records : f # g => f.offset # g.offset
    BY DEF CInv, UsesApart
  <2>3. \A i, j \in DOMAIN pending_fixup_records' :
           i # j => pending_fixup_records'[i].offset # pending_fixup_records'[j].offset
    BY <1>5, <1>6, <1>7, <2>1
  <2>4. \A i \in DOMAIN taken', j \in DOMAIN pending_fixup_records' :
           taken'[i].offset # pending_fixup_records'[j].offset
    BY <1>5, <1>6, <1>7, <2>1
  <2>5. \A f \in fixup_records' :
           \A i \in DOMAIN pending_fixup_records' : pending_fixup_records'[i].offset # f.offset
    BY <1>5, <1>6, <1>7, <2>1
  <2> QED  BY <2>2, <2>3, <2>4, <2>5 DEF UsesApart
<1>9. \A j \in 1 .. len : /\ j = p => pending_fixup_records[j].offset = b.start
                          /\ j > p => pending_fixup_records[j].offset >= b.end
  BY <1>1, <1>3, <1>4 DEF IInv, BranchFixup
<1>10. \A j \in 1 .. len : pending_fixup_records[j].offset \in Nat /\ pending_fixup_records[j].offset < off
  <2> SUFFICES ASSUME NEW j \in 1 .. len
               PROVE  pending_fixup_records[j].offset \in Nat /\ pending_fixup_records[j].offset < off
    OBVIOUS
  <2>1. pending_fixup_records[j] \in outstanding
    BY <1>4 DEF outstanding
  <2> QED  BY <2>1, UseOffsets DEF UsesInBuffer
<1>11. ASSUME NEW d, d.use \in Nat, d.use < b.start, d.use # h PROVE uses_of(d)' = uses_of(d)
  <2>1. \A j \in 1 .. len : pending_fixup_records[j].offset = d.use => j \in 1 .. (p - 1)
    <3> SUFFICES ASSUME NEW j \in 1 .. len, pending_fixup_records[j].offset = d.use
                 PROVE  j \in 1 .. (p - 1)
      OBVIOUS
    <3>1. j # p
      BY <1>3, <1>9, <1>11
    <3>2. ~(j > p)
      BY <1>3, <1>9, <1>10, <1>11
    <3> QED  BY <1>3, <1>4, <3>1, <3>2
  <2>2. \A f : f \in outstanding /\ f.offset = d.use <=> f \in outstanding' /\ f.offset = d.use
    <3> SUFFICES ASSUME NEW f, f.offset = d.use PROVE f \in outstanding <=> f \in outstanding'
      OBVIOUS
    <3>1. f \in outstanding <=> \/ f \in fixup_records
                                \/ \E j \in 1 .. len : f = pending_fixup_records[j]
                                \/ \E j \in DOMAIN taken : f = taken[j]
      BY <1>4 DEF outstanding
    <3>2. f \in outstanding' <=> \/ f \in fixup_records
                                 \/ \E j \in 1 .. (p - 1) : f = pending_fixup_records'[j]
                                 \/ \E j \in DOMAIN taken : f = taken[j]
      BY <1>6 DEF outstanding
    <3>3. ASSUME NEW j \in 1 .. len, f = pending_fixup_records[j]
          PROVE  \E k \in 1 .. (p - 1) : f = pending_fixup_records'[k]
      BY <1>7, <1>11, <2>1, <3>3
    <3>4. ASSUME NEW j \in 1 .. (p - 1), f = pending_fixup_records'[j]
          PROVE  \E k \in 1 .. len : f = pending_fixup_records[k]
      BY <1>5, <1>7, <1>11, <3>4
    <3> QED  BY <3>1, <3>2, <3>3, <3>4
  <2> QED  BY <2>2 DEF uses_of
<1> QED  BY <1>8, <1>11

\* An item before the branch does what it did.
LEMMA CutItem ==
    ASSUME IInv, TargetsAllocated, CInv, IInv', editable, truncate_last_branch,
           code' \in Seq(Item), Len(code') = Len(code) - 1,
           \A i \in 1 .. (Len(code) - 1) : code'[i].start = code[i].start,
           UNCHANGED <<program, patched>>,
           NEW i \in 1 .. (Len(code) - 1), NEW c, c = code[i],
           c.op \in {"jump", "cond"} => uses_of(c)' = uses_of(c),
           NEW V
    PROVE  /\ item_step(c, V)' = Cut(item_step(c, V))
           /\ item_step(c, V) = goto(Len(code)) =>
                 (c.op # "jump" /\ c.end = b.start) \/ \E x \in allocated : resolve_label_offset[x] = b.start
<1>1. /\ c \in Item /\ c.end \in Nat /\ c.end <= b.start
      /\ c.op \in {"jump", "cond"} => uses_of(c) # {} \/ c.use \in DOMAIN patched
  BY LastItem
<1>2. /\ \A o \in Nat : o <= b.start =>
            /\ goto_offset(o)' = Cut(goto_offset(o))
            /\ goto_offset(o) = goto(Len(code)) => o = b.start
      /\ \A x \in allocated :
            /\ goto_bound(x)' = Cut(goto_bound(x))
            /\ goto_bound(x) = goto(Len(code)) => resolve_label_offset[x] = b.start
  BY CutFacts
<1>3. CASE c.op \in {"inst", "ret", "trap"}
  BY <1>3 DEF item_step, Cut, step, goto
<1>4. CASE c.op = "jump" \/ (c.op = "cond" /\ V[c.id] = c.sense)
  <2>1. item_step(c, V) = follow(c) /\ item_step(c, V)' = follow(c)'
    BY <1>4 DEF item_step
  <2>2. uses_of(c)' = uses_of(c)
    BY <1>4
  <2>3. CASE uses_of(c) = {}
    <3>1. c.use \in DOMAIN patched
      BY <1>1, <1>4, <2>3
    <3>2. PICK o \in Nat : o = patched[c.use] /\ o < b.start
      <4>1. /\ patched[c.use] \in Nat
            /\ \A k \in DOMAIN latest_branches : patched[c.use] < latest_branches[k].start
        BY <3>1 DEF CInv, UseInv
      <4>2. Len(latest_branches) \in DOMAIN latest_branches /\ b = latest_branches[Len(latest_branches)]
        BY LastBranch
      <4> QED  BY <4>1, <4>2
    <3>3. b.start \in Nat
      BY LastBranch
    <3>4. o <= b.start /\ o # b.start
      BY <3>2, <3>3
    <3>5. follow(c) = goto_offset(o) /\ follow(c)' = goto_offset(o)'
      BY <2>2, <2>3, <3>2 DEF follow
    <3> QED  BY <1>2, <2>1, <3>4, <3>5
  <2>4. CASE uses_of(c) # {}
    <3>1. PICK x : x = (CHOOSE f \in uses_of(c) : TRUE).label
      OBVIOUS
    <3>2. x \in allocated
      BY <2>4, <3>1 DEF uses_of, CInv, UseInv
    <3>3. follow(c) = goto_bound(x) /\ follow(c)' = goto_bound(x)'
      BY <2>2, <2>4, <3>1 DEF follow
    <3> QED  BY <1>2, <2>1, <3>2, <3>3
  <2> QED  BY <2>3, <2>4
<1>5. CASE ~(c.op \in {"inst", "ret", "trap"})
           /\ ~(c.op = "jump" \/ (c.op = "cond" /\ V[c.id] = c.sense))
  <2>1. item_step(c, V) = goto_offset(c.end) /\ item_step(c, V)' = goto_offset(c.end)'
    BY <1>5 DEF item_step
  <2>2. PICK o \in Nat : o = c.end /\ o <= b.start
    BY <1>1
  <2>3. goto_offset(o)' = Cut(goto_offset(o)) /\ (goto_offset(o) = goto(Len(code)) => o = b.start)
    BY <1>2, <2>2
  <2>4. c.op # "jump"
    BY <1>5
  <2> QED  BY <2>1, <2>2, <2>3, <2>4
<1> QED  BY <1>3, <1>4, <1>5

\* An edit that drops the branch keeps where control goes, if the branch led to
\* the tail or nothing leads to the branch.
LEMMA CutOInv ==
    ASSUME IInv, TargetsAllocated, CInv, OInv, IInv', editable, truncate_last_branch,
           code' \in Seq(Item), Len(code') = Len(code) - 1,
           \A i \in 1 .. (Len(code) - 1) :
              /\ code'[i].start = code[i].start
              /\ code[i].op = "inst" => code'[i] = code[i],
           UNCHANGED <<program, patched, nlabels>>,
           \A V \in [Nat -> BOOLEAN] :
              /\ emitted(V)[Len(code)] # goto(Len(code))
              /\ \A i \in 1 .. (Len(code) - 1) :
                    \/ emitted(V)'[i] = emitted(V)[i]
                    \/ emitted(V)[i] = goto(Len(code)) /\ emitted(V)'[i] = emitted(V)[Len(code)],
           \/ \A V \in [Nat -> BOOLEAN] : emitted(V)[Len(code)] = tail
           \/ /\ b.start # 0 /\ \A x \in allocated : resolve_label_offset[x] # b.start
              /\ \A i \in 1 .. (Len(code) - 1) : code[i].op = "inst" => code[i].end # b.start
    PROVE  OInv'
<1> DEFINE n == Len(code)
           m == n - 1
           B == /\ b.start # 0 /\ \A x \in allocated : resolve_label_offset[x] # b.start
                /\ \A i \in 1 .. m : code[i].op = "inst" => code[i].end # b.start
<1>1. /\ n \in Nat /\ n \in 1 .. n /\ DOMAIN code = 1 .. n /\ code \in Seq(Item)
      /\ b.start \in Nat
      /\ code[n].op \in {"cond", "jump"}
      /\ \A i \in 1 .. (n - 1) : i \in 1 .. n /\ code[i].end \in Nat /\ code[i].end <= b.start
  BY LastItem
<1>2. /\ \A o \in Nat : o <= b.start =>
            /\ goto_offset(o)' = Cut(goto_offset(o))
            /\ goto_offset(o) = goto(n) => o = b.start
      /\ \A x \in allocated :
            /\ goto_bound(x)' = Cut(goto_bound(x))
            /\ goto_bound(x) = goto(n) => resolve_label_offset[x] = b.start
  BY CutFacts
<1>3. /\ \A o : IsStep(goto_offset(o), n) /\ IsStep(goto_offset(o)', m)
      /\ \A x : IsStep(goto_bound(x), n) /\ IsStep(goto_bound(x)', m)
      /\ \A V : IsNext(emitted(V), n) /\ IsNext(emitted(V)', m)
  BY <1>1, Emitted, Tables1 DEF EmittedTable
<1>4. DOMAIN code' = 1 .. m
  OBVIOUS
<1> HIDE DEF n, m, B
<1>5. \A s : Cut(s) = IF s = goto(n) THEN tail ELSE s
  BY DEF Cut, n
<1>6. ASSUME NEW V \in [Nat -> BOOLEAN], NEW s, IsStep(s, n), IsStep(Cut(s), m),
             (\A W \in [Nat -> BOOLEAN] : emitted(W)[n] = tail) \/ s # goto(n)
      PROVE  ends(emitted(V)', Cut(s)) = ends(emitted(V), s)
  <2>1. /\ m = n - 1 /\ n \in 1 .. n /\ emitted(V)[n] # goto(n)
        /\ \A i \in 1 .. m : \/ emitted(V)'[i] = emitted(V)[i]
                             \/ emitted(V)[i] = goto(n) /\ emitted(V)'[i] = emitted(V)[n]
    BY <1>1 DEF n, m
  <2>2. Cut(s) = s \/ (s = goto(n) /\ Cut(s) = emitted(V)[n])
    BY <1>5, <1>6
  <2> QED  BY <1>3, <1>6, <2>1, <2>2, Shortcut
<1>7. (\A V \in [Nat -> BOOLEAN] : emitted(V)[n] = tail) \/ B
  BY DEF n, m, B
<1>8. ASSUME NEW V \in [Nat -> BOOLEAN], NEW o \in Nat, o <= b.start, B => o # b.start
      PROVE  ends(emitted(V)', goto_offset(o)') = ends(emitted(V), goto_offset(o))
  BY <1>2, <1>3, <1>6, <1>7, <1>8
<1>9. ASSUME NEW V \in [Nat -> BOOLEAN], NEW x \in allocated
      PROVE  ends(emitted(V)', goto_bound(x)') = ends(emitted(V), goto_bound(x))
  <2>1. B => goto_bound(x) # goto(n)
    BY <1>2 DEF B
  <2> QED  BY <1>2, <1>3, <1>6, <1>7, <2>1
<1>10. ASSUME NEW V \in [Nat -> BOOLEAN]
       PROVE  ends(emitted(V)', goto_offset(0)') = ends(emitted(V), goto_offset(0))
  <2>1. 0 \in Nat /\ 0 <= b.start /\ (B => 0 # b.start)
    BY <1>1 DEF B
  <2> QED  BY <1>8, <2>1
<1>11. ASSUME NEW i \in DOMAIN code, code[i].op = "inst"
       PROVE  /\ i \in DOMAIN code' /\ code'[i] = code[i]
              /\ \A V \in [Nat -> BOOLEAN] : \A o : o = code[i].end =>
                    ends(emitted(V)', goto_offset(o)') = ends(emitted(V), goto_offset(o))
  <2>1. i \in 1 .. m
    <3>1. i # n
      BY <1>1, <1>11
    <3> QED  BY <1>1, <3>1 DEF m
  <2>2. i \in DOMAIN code' /\ code'[i] = code[i]
    BY <1>4, <1>11, <2>1 DEF m, n
  <2>3. code[i].end \in Nat /\ code[i].end <= b.start /\ (B => code[i].end # b.start)
    BY <1>1, <1>11, <2>1 DEF m, B
  <2> QED  BY <1>8, <2>2, <2>3
<1> QED  BY <1>9, <1>10, <1>11, EditOInv

\* Cutting off the last branch keeps the invariant of the items and their uses.
LEMMA CutCInv ==
    ASSUME IInv, TargetsAllocated, CInv, IInv', editable, truncate_last_branch,
           pc' = "optimize_branches",
           code' \in Seq(Item), Len(code') = Len(code) - 1,
           \A i \in 1 .. (Len(code) - 1) :
              /\ code'[i].start = code[i].start /\ code'[i].end = code[i].end
              /\ code'[i].op = code[i].op /\ code'[i].use = code[i].use,
           Len(latest_branches') = Len(latest_branches) - 1,
           \A k \in 1 .. (Len(latest_branches) - 1) :
              /\ latest_branches'[k].start = latest_branches[k].start
              /\ latest_branches'[k].end = latest_branches[k].end
              /\ latest_branches'[k].cond = latest_branches[k].cond,
           UNCHANGED <<program, patched, nlabels, pending_traps>>,
           UsesApart', \A f \in outstanding' : f.label \in allocated,
           \A c : c.use \in Nat /\ c.use < b.start /\ uses_of(c) # {} => uses_of(c)' # {}
    PROVE  CInv'
<1> DEFINE n == Len(code)
           m == n - 1
<1>1. /\ n \in Nat /\ n \in 1 .. n /\ DOMAIN code = 1 .. n
      /\ code[n].end = off /\ off \in Nat /\ b.start \in Nat /\ b.start < off
      /\ \A i \in 1 .. m :
                 /\ i \in 1 .. n /\ code[i] \in Item /\ code[i].start \in Nat /\ code[i].end \in Nat
                 /\ code[i].use \in Nat
                 /\ code[i].start < code[i].end /\ code[i].end <= b.start
                 /\ code[i].op \in {"jump", "cond"} =>
                       /\ code[i].start <= code[i].use /\ code[i].use < code[i].end
                       /\ uses_of(code[i]) # {} \/ code[i].use \in DOMAIN patched
  BY LastItem
<1>2. /\ off' = b.start
      /\ \A x \in Label : label_offsets'[x] =
            IF x \in live /\ label_offsets[x] = off THEN b.start ELSE label_offsets[x]
  BY TruncateLabels
<1>3. /\ DOMAIN code' = 1 .. m
      /\ \A i \in 1 .. m :
              /\ code'[i].start = code[i].start /\ code'[i].end = code[i].end
              /\ code'[i].op = code[i].op /\ code'[i].use = code[i].use
  OBVIOUS
<1> HIDE DEF n, m
<1>4. CodeInv'
  <2>1. \A i, j \in 1 .. m : i < j => code[i].end <= code[j].start
    BY <1>1 DEF CInv, CodeInv
  <2>2. \A i \in 1 .. m : /\ code'[i].start < code'[i].end /\ code'[i].end <= off'
                          /\ code'[i].op \in {"jump", "cond"} =>
                                code'[i].start <= code'[i].use /\ code'[i].use < code'[i].end
    BY <1>1, <1>2, <1>3
  <2>3. \A i, j \in 1 .. m : i < j => code'[i].end <= code'[j].start
    BY <1>3, <2>1
  <2> QED  BY <1>3, <2>2, <2>3 DEF CodeInv
<1>5. allocated' = allocated
  BY DEF allocated
<1>6. /\ DOMAIN latest_branches = 1 .. Len(latest_branches) /\ Len(latest_branches) \in Nat
      /\ Len(latest_branches) \in DOMAIN latest_branches /\ b = latest_branches[Len(latest_branches)]
      /\ \A k \in 1 .. (Len(latest_branches) - 1) :
            latest_branches[k].end \in Nat /\ latest_branches[k].end <= b.start
  BY LastBranch
<1>7. /\ DOMAIN latest_branches' = 1 .. (Len(latest_branches) - 1)
      /\ \A k \in 1 .. (Len(latest_branches) - 1) : k \in DOMAIN latest_branches
  <2>1. latest_branches' \in Seq(Branch)
    BY DEF IInv, TypeOK
  <2> QED  BY <1>6, <2>1
<1>8. UseInv'
  <2>1. ASSUME NEW i \in DOMAIN code', code'[i].op \in {"jump", "cond"}
        PROVE  uses_of(code[i])' # {} \/ code'[i].use \in DOMAIN patched'
    <3>1. i \in 1 .. m
      BY <1>3, <2>1
    <3>2. PICK c : c = code'[i]
      OBVIOUS
    <3>3. c.use = code[i].use /\ c.use \in Nat /\ c.use < b.start /\ code[i].op \in {"jump", "cond"}
      <4>1. c.use = code[i].use /\ code[i].op \in {"jump", "cond"}
        BY <1>3, <2>1, <3>1, <3>2
      <4> QED  BY <1>1, <3>1, <4>1
    <3>4. uses_of(c) # {} \/ c.use \in DOMAIN patched
      <4>1. uses_of(c) = uses_of(code[i])
        BY <3>3 DEF uses_of
      <4> QED  BY <1>1, <3>1, <3>3, <4>1
    <3>5. uses_of(c) # {} => uses_of(c)' # {}
      BY <3>3
    <3> QED  BY <3>2, <3>4, <3>5
  <2>2. ASSUME NEW o \in DOMAIN patched'
        PROVE  /\ patched'[o] \in Nat /\ patched'[o] < off'
               /\ \A k \in DOMAIN latest_branches' : patched'[o] < latest_branches'[k].start
    <3>1. patched' = patched
      OBVIOUS
    <3>2. /\ patched[o] \in Nat
          /\ \A k \in DOMAIN latest_branches : patched[o] < latest_branches[k].start
      BY <2>2, <3>1 DEF CInv, UseInv
    <3>3. patched[o] < b.start
      BY <1>6, <3>2
    <3> QED  BY <1>2, <1>7, <3>1, <3>2, <3>3
  <2> QED  BY <1>5, <2>1, <2>2 DEF UseInv
<1>9. BranchItems'
  <2> SUFFICES ASSUME NEW k \in DOMAIN latest_branches'
               PROVE  \E i \in DOMAIN code' :
                 /\ code'[i].start = latest_branches'[k].start /\ code'[i].end = latest_branches'[k].end
                 /\ code'[i].op = IF latest_branches'[k].cond THEN "cond" ELSE "jump"
                 /\ code'[i].use = code'[i].start
    BY DEF BranchItems
  <2>1. k \in 1 .. (Len(latest_branches) - 1) /\ k \in DOMAIN latest_branches
    BY <1>7
  <2>2. PICK i \in DOMAIN code :
                 /\ code[i].start = latest_branches[k].start /\ code[i].end = latest_branches[k].end
                 /\ code[i].op = IF latest_branches[k].cond THEN "cond" ELSE "jump"
                 /\ code[i].use = code[i].start
    BY <2>1 DEF CInv, BranchItems
  <2>3. i # n
    <3>1. code[i].end \in Nat /\ code[i].end <= b.start
      BY <1>6, <2>1, <2>2
    <3>2. code[i].end # off
      BY <1>1, <3>1
    <3> QED  BY <1>1, <3>2
  <2>4. i \in 1 .. m
    BY <1>1, <2>3 DEF m
  <2> QED  BY <1>3, <2>1, <2>2, <2>4
<1>10. LineInv'
  <2>1. \A x \in Label : label_offsets'[x] = UNKNOWN_LABEL_OFFSET => label_offsets[x] = UNKNOWN_LABEL_OFFSET
    BY <1>1, <1>2 DEF UNKNOWN_LABEL_OFFSET
  <2>2. trap_labels' = trap_labels /\ \A x : line_of(x)' = line_of(x)
    BY DEF trap_labels, line_of
  <2>3. \A x \in trap_labels : x \in Label
    BY AllocatedLabels DEF CInv, LineInv, trap_labels
  <2> QED  BY <1>5, <2>1, <2>2, <2>3 DEF CInv, LineInv
<1>11. TailClosed'
  BY DEF TailClosed
<1> QED  BY <1>4, <1>8, <1>9, <1>10, <1>11 DEF CInv

\* Nothing leads to a branch without labels that follows another branch, unless
\* that one falls through.
LEMMA NothingAt ==
    ASSUME IInv, CInv, has_prev, prev_b.end = b.start
    PROVE  LET k == Len(code) - 1 IN
           /\ editable /\ k \in 1 .. k /\ k + 1 = Len(code)
           /\ code[k].start = prev_b.start /\ code[k].end = b.start /\ code[k].use = prev_b.start
           /\ code[k].op = IF prev_b.cond THEN "cond" ELSE "jump"
           /\ b.start # 0 /\ b.start # off
           /\ \A i \in 1 .. k : i # k => code[i].end # b.start /\ code[i].end <= code[k].start
           /\ \A x \in Label : resolve_label_offset[x] # b.start
           /\ Len(latest_branches) - 1 \in DOMAIN latest_branches
<1> DEFINE n == Len(code)
           k == n - 1
           q == Len(latest_branches) - 1
<1>1. editable /\ b.labels = {} /\ Len(latest_branches) > 1
  BY DEF has_prev, redirectable
<1>2. /\ n \in Nat /\ n \in 1 .. n /\ DOMAIN code = 1 .. n
      /\ code[n].start = b.start /\ code[n].end = off
      /\ off \in Nat /\ b.start \in Nat /\ b.start < off
      /\ \A i \in 1 .. (n - 1) :
                 /\ i \in 1 .. n /\ code[i] \in Item /\ code[i].start \in Nat /\ code[i].end \in Nat
                 /\ code[i].start < code[i].end /\ code[i].end <= b.start
  BY <1>1, LastItem
<1>3. /\ Len(latest_branches) \in Nat /\ DOMAIN latest_branches = 1 .. Len(latest_branches)
      /\ b.labels = labels_bound_at(b.start)
      /\ \A i \in 1 .. (Len(latest_branches) - 1) :
            /\ latest_branches[i].start \in Nat /\ latest_branches[i].end \in Nat
            /\ latest_branches[i].start < latest_branches[i].end
  BY <1>1, LastBranch
<1>4. q \in 1 .. q /\ q \in DOMAIN latest_branches
  BY <1>1, <1>3
<1>5. prev_b = latest_branches[q]
  BY DEF prev_b
<1> HIDE DEF n, q
<1>6. PICK j \in 1 .. n : /\ code[j].start = prev_b.start /\ code[j].end = b.start
                          /\ code[j].op = IF prev_b.cond THEN "cond" ELSE "jump"
                          /\ code[j].use = prev_b.start
  <2>1. PICK j \in DOMAIN code :
            /\ code[j].start = latest_branches[q].start /\ code[j].end = latest_branches[q].end
            /\ code[j].op = IF latest_branches[q].cond THEN "cond" ELSE "jump"
            /\ code[j].use = code[j].start
    BY <1>4 DEF CInv, BranchItems
  <2> QED  BY <1>2, <1>5, <2>1
<1>7. j # n
  BY <1>2, <1>6
<1>8. k \in Nat /\ k \in 1 .. k /\ k + 1 = n /\ j \in 1 .. k
  BY <1>2, <1>7
<1>9. \A i \in 1 .. k : i < k => code[i].end <= code[k].start
  <2>1. \A i \in 1 .. n, h \in 1 .. n : i < h => code[i].end <= code[h].start
    BY <1>2 DEF CInv, CodeInv
  <2> QED  BY <1>2, <1>8, <2>1
<1>10. \A i \in 1 .. k : i # k => code[i].end <= code[k].start /\ code[i].end # b.start
  <2> SUFFICES ASSUME NEW i \in 1 .. k, i # k
               PROVE  code[i].end <= code[k].start /\ code[i].end # b.start
    OBVIOUS
  <2>1. i < k
    BY <1>8
  <2>2. code[i].end <= code[k].start
    BY <1>9, <2>1
  <2>3. /\ code[k].start \in Nat /\ code[k].end \in Nat /\ code[i].end \in Nat
        /\ code[k].start < code[k].end /\ code[k].end <= b.start
    BY <1>2, <1>8
  <2> QED  BY <1>2, <2>2, <2>3
<1>11. j = k
  BY <1>6, <1>8, <1>10
<1>12. b.start # 0
  <2>1. /\ prev_b.start \in Nat /\ prev_b.end \in Nat /\ prev_b.start < prev_b.end
    BY <1>3, <1>4, <1>5 DEF q
  <2> QED  BY <2>1
<1>13. \A x \in Label : resolve_label_offset[x] # b.start
  <2> SUFFICES ASSUME NEW x \in Label PROVE resolve_label_offset[x] # b.start
    OBVIOUS
  <2>1. resolve_label_offset[x] = label_offsets[root[x]] /\ root[x] \in live /\ root[x] \in Label
    BY RootFacts DEF IInv
  <2>2. root[x] \notin labels_bound_at(b.start)
    BY <1>1, <1>3
  <2> QED  BY <2>1, <2>2 DEF labels_bound_at, live
<1>14. b.start # off
  BY <1>2
<1>15. /\ code[k].start = prev_b.start /\ code[k].end = b.start /\ code[k].use = prev_b.start
       /\ code[k].op = IF prev_b.cond THEN "cond" ELSE "jump"
  BY <1>6, <1>11
<1>16. \A i \in 1 .. k : i # k => code[i].end # b.start /\ code[i].end <= code[k].start
  BY <1>10
<1>17. Len(latest_branches) - 1 \in DOMAIN latest_branches
  BY <1>4 DEF q
<1>18. k = Len(code) - 1 /\ k + 1 = Len(code)
  BY <1>8 DEF n
<1> HIDE DEF k
<1> QED  BY <1>1, <1>8, <1>12, <1>13, <1>14, <1>15, <1>16, <1>17, <1>18

\* What the step of the last branch is when it may be edited.
LEMMA LastStep ==
    ASSUME IInv, TargetsAllocated, CInv, editable, NEW V
    PROVE  /\ b.target \in Label /\ b.target \in allocated
           /\ emitted(V)[Len(code)] = item_step(code[Len(code)], V)
           /\ branch_to_tail => emitted(V)[Len(code)] = tail
           /\ ~b.cond => emitted(V)[Len(code)] = goto_bound(b.target)
<1> DEFINE n == Len(code)
<1>1. /\ n \in 1 .. n /\ code \in Seq(Item) /\ code[n].end = off
      /\ code[n].op = IF b.cond THEN "cond" ELSE "jump"
      /\ follow(code[n]) = goto_bound(b.target) /\ off \in Nat
  BY LastItem
<1>2. b.target \in Label /\ b.target \in allocated
  <2>1. b.target \in Label /\ Len(latest_branches) \in DOMAIN latest_branches
        /\ b = latest_branches[Len(latest_branches)]
    BY LastBranch
  <2> QED  BY <2>1 DEF TargetsAllocated
<1>3. emitted(V)[n] = item_step(code[n], V)
  BY <1>1, Emitted DEF EmittedTable
<1> HIDE DEF n
<1>4. ASSUME branch_to_tail PROVE emitted(V)[n] = tail
  <2>1. resolve_label_offset[b.target] = off /\ off # UNKNOWN_LABEL_OFFSET
    BY <1>1, <1>4 DEF branch_to_tail, UNKNOWN_LABEL_OFFSET
  <2>2. goto_offset(off) = tail
    BY DEF goto_offset
  <2>3. goto_bound(b.target) = tail
    BY <2>1, <2>2 DEF goto_bound
  <2> QED  BY <1>1, <1>3, <2>2, <2>3 DEF item_step
<1>5. ASSUME ~b.cond PROVE emitted(V)[n] = goto_bound(b.target)
  <2>1. code[n].op = "jump"
    BY <1>1, <1>5
  <2>2. item_step(code[n], V) = follow(code[n])
    BY <2>1 DEF item_step
  <2> QED  BY <1>1, <1>3, <2>2
<1> QED  BY <1>2, <1>3, <1>4, <1>5 DEF n

\* The lists after a branch to the tail, or one that nothing leads to, is dropped.
LEMMA TruncateFacts ==
    ASSUME IInv, CInv, SemTruncate
    PROVE  /\ editable /\ truncate_last_branch /\ off' = b.start
           /\ pc' = "optimize_branches"
           /\ UNCHANGED <<program, patched, nlabels, pending_traps, taken, fixup_records>>
           /\ code' \in Seq(Item) /\ Len(code') = Len(code) - 1
           /\ DOMAIN code' = 1 .. (Len(code) - 1)
           /\ \A i \in 1 .. (Len(code) - 1) : code'[i] = code[i]
           /\ Len(latest_branches') = Len(latest_branches) - 1
           /\ \A k \in 1 .. (Len(latest_branches) - 1) : latest_branches'[k] = latest_branches[k]
           /\ UsesApart'
           /\ \A d : d.use \in Nat /\ d.use < b.start => uses_of(d)' = uses_of(d)
           /\ \A f \in outstanding' : f.label \in allocated
<1>1. editable
  BY DEF SemTruncate, OptTruncate, branch_to_tail, uncond_after_uncond, has_prev, redirectable
<1>2. /\ truncate_last_branch /\ off' = b.start /\ pc' = "optimize_branches"
      /\ UNCHANGED <<program, patched, nlabels, pending_traps, taken, fixup_records>>
      /\ latest_branches' = truncated_branches /\ pending_fixup_records' = truncated_fixups
  BY DEF SemTruncate, OptTruncate, truncate_last_branch, deferVars, islandVars
<1>3. /\ code' \in Seq(Item) /\ Len(code') = Len(code) - 1
      /\ DOMAIN code' = 1 .. (Len(code) - 1)
      /\ \A i \in 1 .. (Len(code) - 1) : code'[i] = code[i]
  <2>1. code' = remaining
    BY DEF SemTruncate
  <2> QED  BY <1>1, <1>2, <2>1, RemainingFacts
<1>4. /\ Len(latest_branches') = Len(latest_branches) - 1
      /\ pending_fixup_records' \in Seq(Fixup) /\ Len(pending_fixup_records') = b.fixup - 1
      /\ \A k \in 1 .. (Len(latest_branches) - 1) : latest_branches'[k] = latest_branches[k]
      /\ \A j \in 1 .. (b.fixup - 1) : pending_fixup_records'[j] = pending_fixup_records[j]
  BY <1>1, <1>2, TruncatedLists
<1>5. /\ UsesApart'
      /\ \A d : d.use \in Nat /\ d.use < b.start /\ d.use # off => uses_of(d)' = uses_of(d)
  BY <1>1, <1>2, <1>4, CutUses
<1>6. off \in Nat /\ b.start \in Nat /\ b.start < off
      /\ b.fixup \in 1 .. Len(pending_fixup_records)
  BY <1>1, LastBranch
<1>7. \A f \in outstanding' : f \in outstanding
  <2>1. /\ DOMAIN pending_fixup_records = 1 .. Len(pending_fixup_records)
        /\ Len(pending_fixup_records) \in Nat
    BY DEF IInv, TypeOK
  <2>2. DOMAIN pending_fixup_records' = 1 .. (b.fixup - 1)
    BY <1>4
  <2>3. \A j \in 1 .. (b.fixup - 1) : j \in DOMAIN pending_fixup_records
    BY <1>6, <2>1
  <2> QED  BY <1>2, <1>4, <2>2, <2>3 DEF outstanding
<1>8. \A f \in outstanding' : f.label \in allocated
  BY <1>7 DEF CInv, UseInv
<1>9. \A d : d.use \in Nat /\ d.use < b.start => uses_of(d)' = uses_of(d)
  <2>1. \A o \in Nat : o < b.start => o # off
    BY <1>6
  <2> QED  BY <1>5, <2>1
<1> QED  BY <1>1, <1>2, <1>3, <1>4, <1>5, <1>8, <1>9

\* truncate_last_branch keeps buffer and listing alike: the branch led to what
\* follows it, or could not be reached.
LEMMA TruncateOInv ==
    ASSUME IInv, TargetsAllocated, CInv, OInv, IInv', SemTruncate
    PROVE  OInv'
<1> DEFINE n == Len(code)
           m == n - 1
<1>1. /\ editable /\ truncate_last_branch
      /\ UNCHANGED <<program, patched, nlabels>>
      /\ code' \in Seq(Item) /\ Len(code') = m /\ DOMAIN code' = 1 .. m
      /\ \A i \in 1 .. m : code'[i] = code[i]
      /\ \A d : d.use \in Nat /\ d.use < b.start => uses_of(d)' = uses_of(d)
  BY TruncateFacts
<1>2. /\ \A x \in allocated : goto_bound(x) = goto(n) => resolve_label_offset[x] = b.start
  BY <1>1, CutFacts
<1>3. /\ n \in 1 .. n /\ b.start \in Nat /\ code \in Seq(Item)
      /\ \A i \in 1 .. m : /\ i \in 1 .. n /\ code[i].end \in Nat /\ code[i].use \in Nat
                           /\ code[i].end <= b.start
                           /\ code[i].op \in {"jump", "cond"} => code[i].use < code[i].end
  BY <1>1, LastItem
<1> HIDE DEF n, m
<1>4. branch_to_tail \/ uncond_after_uncond
  BY DEF SemTruncate, OptTruncate
<1>5. ASSUME NEW V, NEW i \in 1 .. m
      PROVE  /\ emitted(V)'[i] = Cut(emitted(V)[i])
             /\ emitted(V)[i] = goto(n) => \/ code[i].op # "jump" /\ code[i].end = b.start
                                           \/ \E x \in allocated : resolve_label_offset[x] = b.start
  <2>1. PICK c : c = code[i]
    OBVIOUS
  <2>2. c.op \in {"jump", "cond"} => uses_of(c)' = uses_of(c)
    <3>1. c.op \in {"jump", "cond"} => c.use \in Nat /\ c.use < b.start
      BY <1>3, <2>1
    <3> QED  BY <1>1, <3>1
  <2>3. /\ item_step(c, V)' = Cut(item_step(c, V))
        /\ item_step(c, V) = goto(Len(code)) =>
              (c.op # "jump" /\ c.end = b.start) \/ \E x \in allocated : resolve_label_offset[x] = b.start
    BY <1>1, <2>1, <2>2, CutItem DEF m, n
  <2>4. emitted(V)[i] = item_step(c, V)
    BY <1>3, <2>1, Emitted DEF EmittedTable, n
  <2>5. emitted(V)'[i] = item_step(c, V)'
    <3>1. code'[i] = c /\ i \in 1 .. Len(code')
      BY <1>1, <2>1
    <3>2. emitted(V)'[i] = item_step(code[i], V)'
      BY <1>1, <3>1, Tables1 DEF EmittedTable
    <3> QED  BY <3>1, <3>2
  <2> QED  BY <2>1, <2>3, <2>4, <2>5 DEF n
<1>6. CASE branch_to_tail
  <2>1. \A V : emitted(V)[n] = tail
    BY <1>1, <1>6, LastStep DEF n
  <2>2. tail # goto(n)
    BY DEF tail, goto, step
  <2>3. \A V : /\ emitted(V)[n] # goto(n)
               /\ \A i \in 1 .. m : \/ emitted(V)'[i] = emitted(V)[i]
                                    \/ emitted(V)[i] = goto(n) /\ emitted(V)'[i] = emitted(V)[n]
    BY <1>5, <2>1, <2>2 DEF Cut, n
  <2> QED  BY <1>1, <2>1, <2>3, CutOInv DEF n, m
<1>7. CASE uncond_after_uncond
  <2>1. /\ has_prev /\ ~prev_b.cond /\ prev_b.end = b.start /\ ~b.cond
        /\ resolve_label_offset[b.target] # b.start
    BY <1>7 DEF uncond_after_uncond, has_prev, redirectable
  <2>2. \A V : emitted(V)[n] = goto_bound(b.target) /\ b.target \in allocated
    BY <1>1, <2>1, LastStep DEF n
  <2>3. \A V : emitted(V)[n] # goto(n)
    BY <1>2, <2>1, <2>2
  <2>4. /\ b.start # 0
        /\ \A x \in Label : resolve_label_offset[x] # b.start
        /\ m \in 1 .. m /\ code[m].op = "jump"
        /\ \A i \in 1 .. m : i # m => code[i].end # b.start
    BY <2>1, NothingAt DEF m, n
  <2>5. \A x \in allocated : resolve_label_offset[x] # b.start
    BY <2>4, AllocatedLabels
  <2>6. \A V : \A i \in 1 .. m : emitted(V)[i] # goto(n)
    BY <1>5, <2>4, <2>5
  <2>7. \A V : \A i \in 1 .. m : emitted(V)'[i] = emitted(V)[i]
    BY <1>5, <2>6 DEF Cut, n
  <2>8. \A i \in 1 .. m : code[i].op = "inst" => code[i].end # b.start
    BY <2>4
  <2>9. \A i \in 1 .. m : code'[i].start = code[i].start /\ (code[i].op = "inst" => code'[i] = code[i])
    BY <1>1
  <2> QED  BY <1>1, <2>3, <2>4, <2>5, <2>7, <2>8, <2>9, CutOInv DEF n, m
<1> QED  BY <1>4, <1>6, <1>7

\* truncate_last_branch keeps the invariant of the items and of their label uses.
LEMMA TruncateCInv ==
    ASSUME IInv, TargetsAllocated, CInv, IInv', SemTruncate
    PROVE  CInv'
<1>1. /\ editable /\ truncate_last_branch /\ pc' = "optimize_branches"
      /\ UNCHANGED <<program, patched, nlabels, pending_traps>>
      /\ code' \in Seq(Item) /\ Len(code') = Len(code) - 1
      /\ \A i \in 1 .. (Len(code) - 1) : code'[i] = code[i]
      /\ Len(latest_branches') = Len(latest_branches) - 1
      /\ \A k \in 1 .. (Len(latest_branches) - 1) : latest_branches'[k] = latest_branches[k]
      /\ UsesApart'
      /\ \A d : d.use \in Nat /\ d.use < b.start => uses_of(d)' = uses_of(d)
      /\ \A f \in outstanding' : f.label \in allocated
  BY TruncateFacts
<1>2. \A d : d.use \in Nat /\ d.use < b.start /\ uses_of(d) # {} => uses_of(d)' # {}
  BY <1>1
<1> QED  BY <1>1, <1>2, CutCInv

\* The lists after a conditional branch around the last one is inverted.
LEMMA InvertFacts ==
    ASSUME IInv, TargetsAllocated, CInv, SemInvert
    PROVE  LET m == Len(code) - 1 IN
           /\ editable /\ truncate_last_branch /\ off' = b.start
           /\ pc' = "optimize_branches"
           /\ UNCHANGED <<program, patched, nlabels, pending_traps, taken, fixup_records>>
           /\ has_prev /\ prev_b.end = b.start /\ prev_b.cond
           /\ code' \in Seq(Item) /\ Len(code') = m /\ DOMAIN code' = 1 .. m
           /\ \A i \in 1 .. m : code'[i] = IF i = m THEN [code[m] EXCEPT !.sense = ~@] ELSE code[i]
           /\ Len(latest_branches') = Len(latest_branches) - 1
           /\ \A k \in 1 .. (Len(latest_branches) - 1) :
                 /\ latest_branches'[k].start = latest_branches[k].start
                 /\ latest_branches'[k].end = latest_branches[k].end
                 /\ latest_branches'[k].cond = latest_branches[k].cond
           /\ UsesApart'
           /\ \A d : d.use \in Nat /\ d.use < b.start /\ d.use # prev_b.start => uses_of(d)' = uses_of(d)
           /\ \E g : /\ g.label = b.target
                     /\ \A d : d.use = prev_b.start => uses_of(d)' = {g}
           /\ \A f \in outstanding' : f.label \in allocated
<1> DEFINE n == Len(code)
           m == n - 1
           q == Len(latest_branches) - 1
           p == b.fixup
           T == truncated_fixups
<1>1. editable /\ has_prev /\ prev_b.end = b.start /\ prev_b.cond
  BY DEF SemInvert, OptInvert, cond_around_uncond, has_prev, redirectable
<1>2. /\ truncate_last_branch /\ off' = b.start /\ pc' = "optimize_branches"
      /\ UNCHANGED <<program, patched, nlabels, pending_traps, taken, fixup_records>>
      /\ latest_branches' = [truncated_branches EXCEPT ![q].target = b.target]
      /\ pending_fixup_records' = [T EXCEPT ![prev_b.fixup].label = b.target]
  BY DEF SemInvert, OptInvert, truncate_last_branch, deferVars, islandVars
<1>3. /\ remaining \in Seq(Item) /\ Len(remaining) = m /\ DOMAIN remaining = 1 .. m
      /\ \A i \in 1 .. m : remaining[i] = code[i]
  BY <1>1, <1>2, RemainingFacts
<1>4. m \in 1 .. m /\ code[m] \in Item
  <2>1. m \in 1 .. m
    BY <1>1, NothingAt
  <2> QED  BY <1>1, <2>1, LastItem
<1>5. /\ code' \in Seq(Item) /\ Len(code') = m /\ DOMAIN code' = 1 .. m
      /\ \A i \in 1 .. m : code'[i] = IF i = m THEN [code[m] EXCEPT !.sense = ~@] ELSE code[i]
  <2>1. code' = [remaining EXCEPT ![Len(remaining)].sense = ~@]
    BY DEF SemInvert
  <2>2. [code[m] EXCEPT !.sense = ~@] \in Item
    BY <1>4 DEF Item
  <2>3. PICK e : e = [code[m] EXCEPT !.sense = ~@]
    OBVIOUS
  <2>4. PICK k : k = m
    OBVIOUS
  <2> HIDE DEF n, m
  <2>5. code' = [remaining EXCEPT ![k] = e]
    BY <1>3, <1>4, <2>1, <2>3, <2>4
  <2>6. e \in Item /\ k \in 1 .. k /\ k = Len(remaining)
    BY <1>3, <1>4, <2>2, <2>3, <2>4
  <2>7. /\ code' \in Seq(Item) /\ Len(code') = k /\ DOMAIN code' = 1 .. k
        /\ \A i \in 1 .. k : code'[i] = IF i = k THEN e ELSE remaining[i]
    BY <1>3, <2>5, <2>6
  <2> QED  BY <1>3, <2>3, <2>4, <2>7
<1>6. /\ truncated_branches \in Seq(Branch) /\ Len(truncated_branches) = q
      /\ T \in Seq(Fixup) /\ Len(T) = p - 1
      /\ \A k \in 1 .. q :
            truncated_branches[k] = latest_branches[k] /\ latest_branches[k].fixup \in 1 .. (p - 1)
      /\ \A j \in 1 .. (p - 1) : T[j] = pending_fixup_records[j]
  BY <1>1, TruncatedLists
<1>7. /\ q \in 1 .. q /\ q \in DOMAIN latest_branches /\ prev_b = latest_branches[q]
      /\ prev_b.fixup \in 1 .. (p - 1) /\ off \in Nat /\ b.start \in Nat
      /\ p \in 1 .. Len(pending_fixup_records)
      /\ b.target \in Label /\ b.target \in allocated
  <2>1. q \in 1 .. q /\ q \in DOMAIN latest_branches
    <3>1. /\ Len(latest_branches) \in Nat /\ DOMAIN latest_branches = 1 .. Len(latest_branches)
          /\ Len(latest_branches) > 1
      BY <1>1, LastBranch DEF has_prev
    <3> QED  BY <3>1
  <2>2. off \in Nat /\ b.start \in Nat /\ p \in 1 .. Len(pending_fixup_records)
    BY <1>1, LastBranch
  <2>3. b.target \in Label /\ b.target \in allocated
    BY <1>1, LastStep
  <2> QED  BY <1>6, <2>1, <2>2, <2>3 DEF prev_b
<1>8. prev_b.fixup \in DOMAIN pending_fixup_records
      /\ pending_fixup_records[prev_b.fixup].offset = prev_b.start
  BY <1>7 DEF IInv, BranchFixup
<1> HIDE DEF n, m, T
<1>9. /\ Len(latest_branches') = q
      /\ \A k \in 1 .. q :
                 /\ latest_branches'[k].start = latest_branches[k].start
                 /\ latest_branches'[k].end = latest_branches[k].end
                 /\ latest_branches'[k].cond = latest_branches[k].cond
  <2>1. PICK k : k = q
    OBVIOUS
  <2>2. PICK S : S = truncated_branches
    OBVIOUS
  <2>3. latest_branches' = [S EXCEPT ![k].target = b.target] /\ S \in Seq(Branch) /\ Len(S) = k
    BY <1>2, <1>6, <2>1, <2>2
  <2>4. \A i \in 1 .. k : /\ S[i] = latest_branches[i]
                          /\ latest_branches'[i].start = S[i].start
                          /\ latest_branches'[i].end = S[i].end
                          /\ latest_branches'[i].cond = S[i].cond
    <3>1. \A i \in 1 .. k : S[i] \in Branch
      BY <2>3
    <3>2. \A i \in 1 .. k : latest_branches'[i] = IF i = k THEN [S[i] EXCEPT !.target = b.target] ELSE S[i]
      BY <2>3
    <3>3. \A i \in 1 .. k : S[i] = latest_branches[i]
      BY <1>6, <2>1, <2>2
    <3> QED  BY <3>1, <3>2, <3>3 DEF Branch
  <2>5. Len(latest_branches') = k
    BY <2>3
  <2> QED  BY <2>1, <2>4, <2>5
<1>10. PICK h : h = prev_b.fixup
  OBVIOUS
<1>11. /\ pending_fixup_records' \in Seq(Fixup) /\ Len(pending_fixup_records') = p - 1
       /\ \A j \in 1 .. (p - 1) :
             /\ pending_fixup_records'[j].offset = pending_fixup_records[j].offset
             /\ j # h => pending_fixup_records'[j] = pending_fixup_records[j]
       /\ pending_fixup_records'[h].label = b.target
  <2>1. pending_fixup_records' = [T EXCEPT ![h].label = b.target]
    BY <1>2, <1>10
  <2>2. T \in Seq(Fixup) /\ Len(T) = p - 1 /\ h \in 1 .. (p - 1) /\ DOMAIN T = 1 .. (p - 1)
    BY <1>6, <1>7, <1>10
  <2>3. \A j \in 1 .. (p - 1) : T[j] \in Fixup /\ T[j] = pending_fixup_records[j]
    BY <1>6, <2>2
  <2>4. /\ DOMAIN pending_fixup_records' = 1 .. (p - 1)
        /\ \A j \in 1 .. (p - 1) :
              pending_fixup_records'[j] = IF j = h THEN [T[h] EXCEPT !.label = b.target] ELSE T[j]
    BY <2>1, <2>2
  <2>5. /\ [T[h] EXCEPT !.label = b.target].offset = T[h].offset
        /\ [T[h] EXCEPT !.label = b.target].label = b.target
        /\ [T[h] EXCEPT !.label = b.target] \in Fixup
    BY <1>7, <2>2, <2>3 DEF Fixup
  <2>6. pending_fixup_records' \in Seq(Fixup)
    BY <2>1, <2>2, <2>5
  <2>7. Len(pending_fixup_records') = p - 1
    BY <2>1, <2>2
  <2> QED  BY <2>2, <2>3, <2>4, <2>5, <2>6, <2>7
<1>12. \A j \in 1 .. (p - 1) : pending_fixup_records[j].offset # prev_b.start => j # h
  BY <1>8, <1>10
<1>13. \A j \in 1 .. (p - 1) :
              /\ pending_fixup_records'[j].offset = pending_fixup_records[j].offset
              /\ pending_fixup_records[j].offset # prev_b.start =>
                    pending_fixup_records'[j] = pending_fixup_records[j]
  BY <1>11, <1>12
<1>14. /\ UsesApart'
       /\ \A d : d.use \in Nat /\ d.use < b.start /\ d.use # prev_b.start => uses_of(d)' = uses_of(d)
  BY <1>1, <1>2, <1>11, <1>13, CutUses
<1>15. \E g : /\ g.label = b.target
              /\ \A d : d.use = prev_b.start => uses_of(d)' = {g}
  <2>1. PICK g : g = pending_fixup_records'[h]
    OBVIOUS
  <2>2. g.offset = prev_b.start /\ g.label = b.target
    BY <1>7, <1>8, <1>10, <1>11, <2>1
  <2>3. g \in outstanding'
    <3>1. h \in DOMAIN pending_fixup_records'
      BY <1>7, <1>10, <1>11
    <3> QED  BY <2>1, <3>1 DEF outstanding
  <2>4. \A d : \A f \in outstanding' : f.offset = d.use => uses_of(d)' = {f}
    BY <1>14, OneUseFacts1 DEF OneUse
  <2> QED  BY <2>2, <2>3, <2>4
<1>16. \A f \in outstanding' : f.label \in allocated
  <2>1. \A f \in outstanding : f.label \in allocated
    BY DEF CInv, UseInv
  <2>2. /\ DOMAIN pending_fixup_records = 1 .. Len(pending_fixup_records)
        /\ Len(pending_fixup_records) \in Nat
    BY DEF IInv, TypeOK
  <2>3. DOMAIN pending_fixup_records' = 1 .. (p - 1)
    BY <1>11
  <2>4. \A j \in 1 .. (p - 1) : j \in DOMAIN pending_fixup_records
    BY <1>7, <2>2
  <2>5. \A j \in 1 .. (p - 1) : pending_fixup_records'[j].label \in allocated
    <3>1. \A j \in 1 .. (p - 1) : pending_fixup_records[j] \in outstanding
      BY <2>4 DEF outstanding
    <3> QED  BY <1>7, <1>11, <2>1, <3>1
  <2>6. \A f \in outstanding' : f \in outstanding \/ \E j \in 1 .. (p - 1) : f = pending_fixup_records'[j]
    BY <1>2, <2>3 DEF outstanding
  <2> QED  BY <2>1, <2>5, <2>6
<1> QED  BY <1>1, <1>2, <1>5, <1>9, <1>14, <1>15, <1>16 DEF n, m

\* Inverting keeps where control goes: the conditional led around the branch.
LEMMA InvertOInv ==
    ASSUME IInv, TargetsAllocated, CInv, OInv, IInv', SemInvert
    PROVE  OInv'
<1> DEFINE n == Len(code)
           m == n - 1
<1>1. /\ editable /\ truncate_last_branch /\ off' = b.start
      /\ UNCHANGED <<program, patched, nlabels>>
      /\ has_prev /\ prev_b.end = b.start /\ prev_b.cond
      /\ code' \in Seq(Item) /\ Len(code') = m /\ DOMAIN code' = 1 .. m
      /\ \A i \in 1 .. m : code'[i] = IF i = m THEN [code[m] EXCEPT !.sense = ~@] ELSE code[i]
      /\ \A d : d.use \in Nat /\ d.use < b.start /\ d.use # prev_b.start => uses_of(d)' = uses_of(d)
  BY InvertFacts
<1>2. PICK g : /\ g.label = b.target
               /\ \A d : d.use = prev_b.start => uses_of(d)' = {g}
  BY InvertFacts
<1>3. /\ n \in 1 .. n /\ b.start \in Nat /\ code \in Seq(Item) /\ off \in Nat
      /\ goto_offset(b.start) = goto(n)
      /\ \A i \in 1 .. m : /\ i \in 1 .. n /\ code[i] \in Item
                           /\ code[i].end \in Nat /\ code[i].use \in Nat
                           /\ code[i].end <= b.start
                           /\ code[i].op \in {"jump", "cond"} => code[i].use < code[i].end
  BY <1>1, LastItem
<1>4. /\ m \in 1 .. m
      /\ code[m].start = prev_b.start /\ code[m].end = b.start /\ code[m].use = prev_b.start
      /\ code[m].op = "cond"
      /\ b.start # 0
      /\ \A i \in 1 .. m : i # m => code[i].end # b.start /\ code[i].end <= code[m].start
      /\ \A x \in Label : resolve_label_offset[x] # b.start
      /\ Len(latest_branches) - 1 \in DOMAIN latest_branches
  BY <1>1, NothingAt
<1>5. /\ \A o \in Nat : o <= b.start =>
            /\ goto_offset(o)' = Cut(goto_offset(o))
            /\ goto_offset(o) = goto(n) => o = b.start
      /\ \A x \in allocated :
            /\ goto_bound(x)' = Cut(goto_bound(x))
            /\ goto_bound(x) = goto(n) => resolve_label_offset[x] = b.start
  <2>1. \A i \in 1 .. m : code'[i].start = code[i].start
    <3>1. [code[m] EXCEPT !.sense = ~@].start = code[m].start
      BY <1>3, <1>4 DEF Item
    <3> QED  BY <1>1, <3>1
  <2> QED  BY <1>1, <2>1, CutFacts
<1>6. \A x \in allocated : x \in Label /\ goto_bound(x) # goto(n) /\ goto_bound(x)' = goto_bound(x)
  <2>1. \A x \in allocated : x \in Label /\ resolve_label_offset[x] # b.start
    BY <1>4, AllocatedLabels
  <2> QED  BY <1>5, <2>1 DEF Cut
<1>7. /\ \A V : emitted(V)[n] = goto_bound(b.target)
      /\ b.target \in allocated
  <2>1. ~b.cond
    BY <1>1 DEF has_prev, redirectable
  <2> QED  BY <1>1, <2>1, LastStep DEF n
<1>8. \A V : emitted(V)[n] # goto(n)
  BY <1>6, <1>7
<1>9. PICK c : c = code[m]
  OBVIOUS
<1>10. PICK d : d = [code[m] EXCEPT !.sense = ~@]
  OBVIOUS
<1>11. /\ c.op = "cond" /\ c.use = prev_b.start /\ c.end = b.start /\ c.sense \in BOOLEAN /\ c.id \in Nat
       /\ d.op = "cond" /\ d.use = prev_b.start /\ d.end = b.start /\ d.id = c.id
       /\ d.start = c.start
       /\ d.sense = ~c.sense
  BY <1>3, <1>4, <1>9, <1>10 DEF Item
<1>12. follow(c) = tail
  <2>1. PICK f : f = pending_fixup_records[prev_b.fixup]
    OBVIOUS
  <2>2. f \in outstanding /\ f.label = prev_b.target /\ f.offset = prev_b.start
    BY <1>4, <2>1 DEF IInv, BranchFixup, outstanding, prev_b
  <2>3. uses_of(c) = {f}
    BY <1>11, <2>2, OneUseFacts DEF OneUse, CInv
  <2>4. (CHOOSE h \in uses_of(c) : TRUE) = f
    BY <2>3
  <2>5. follow(c) = goto_bound(prev_b.target)
    BY <2>2, <2>3, <2>4 DEF follow
  <2>6. resolve_label_offset[prev_b.target] = off /\ off # UNKNOWN_LABEL_OFFSET
    BY <1>3 DEF SemInvert, OptInvert, cond_around_uncond, UNKNOWN_LABEL_OFFSET
  <2> QED  BY <2>5, <2>6 DEF goto_bound, goto_offset
<1>13. \A o : o = b.target => follow(d)' = goto_bound(o)'
  <2>1. uses_of(d)' = {g}
    BY <1>2, <1>11
  <2>2. (CHOOSE h \in uses_of(d)' : TRUE) = g
    BY <2>1
  <2>3. follow(d)' = goto_bound(g.label)'
    BY <2>1, <2>2 DEF follow
  <2> QED  BY <1>2, <2>3
<1>14. \A o : o = b.start => goto_offset(o)' = tail
  <2>1. \A o : o = b.start => goto_offset(o)' = Cut(goto_offset(o))
    BY <1>3, <1>5
  <2> QED  BY <1>3, <2>1 DEF Cut
<1>15. tail # goto(n)
  BY DEF tail, goto, step
<1> HIDE DEF n, m
<1>16. ASSUME NEW V \in [Nat -> BOOLEAN]
       PROVE  \/ emitted(V)'[m] = emitted(V)[m]
              \/ emitted(V)[m] = goto(n) /\ emitted(V)'[m] = emitted(V)[n]
  <2>1. emitted(V)[m] = item_step(c, V)
    <3>1. m \in 1 .. n
      BY <1>3, <1>4
    <3> QED  BY <1>3, <1>9, <3>1, Emitted DEF EmittedTable, n
  <2>2. emitted(V)'[m] = item_step(d, V)'
    <3>1. PICK i : i = m
      OBVIOUS
    <3>2. code'[i] = d /\ i \in 1 .. Len(code')
      BY <1>1, <1>4, <1>10, <3>1
    <3>3. emitted(V)'[i] = item_step(code[i], V)'
      BY <1>1, <3>2, Tables1 DEF EmittedTable
    <3> QED  BY <3>1, <3>2, <3>3
  <2>3. V[c.id] \in BOOLEAN
    BY <1>11
  <2>4. CASE V[c.id] = c.sense
    <3>1. item_step(c, V) = tail
      BY <1>11, <1>12, <2>4 DEF item_step
    <3>2. V[d.id] # d.sense
      BY <1>11, <2>3, <2>4
    <3>3. item_step(d, V)' = goto_offset(d.end)'
      BY <1>11, <3>2 DEF item_step
    <3>4. goto_offset(d.end)' = tail
      BY <1>11, <1>14
    <3> QED  BY <2>1, <2>2, <3>1, <3>3, <3>4
  <2>5. CASE V[c.id] # c.sense
    <3>1. item_step(c, V) = goto(n)
      BY <1>3, <1>11, <2>5 DEF item_step
    <3>2. V[d.id] = d.sense
      BY <1>11, <2>3, <2>5
    <3>3. item_step(d, V)' = follow(d)'
      BY <1>11, <3>2 DEF item_step
    <3>4. follow(d)' = goto_bound(b.target)
      BY <1>6, <1>7, <1>13
    <3> QED  BY <1>7, <2>1, <2>2, <3>1, <3>3, <3>4
  <2> QED  BY <2>4, <2>5
<1>17. ASSUME NEW V \in [Nat -> BOOLEAN], NEW i \in 1 .. m, i # m
       PROVE  emitted(V)'[i] = emitted(V)[i]
  <2>1. PICK e : e = code[i]
    OBVIOUS
  <2>2. /\ e \in Item /\ e.end \in Nat /\ e.use \in Nat /\ e.end # b.start
        /\ e.op \in {"jump", "cond"} => e.use < e.end
        /\ e.end <= prev_b.start /\ e.end <= b.start
    BY <1>3, <1>4, <1>17, <2>1
  <2>3. prev_b.start \in Nat
    <3>1. code[m].start \in Nat
      BY <1>3, <1>4 DEF Item
    <3> QED  BY <1>4, <3>1
  <2>4. e.op \in {"jump", "cond"} => uses_of(e)' = uses_of(e)
    <3>1. e.op \in {"jump", "cond"} => e.use < b.start /\ e.use # prev_b.start
      BY <1>3, <2>2, <2>3
    <3> QED  BY <1>1, <2>2, <3>1
  <2>5. \A j \in 1 .. m : code'[j].start = code[j].start
    BY <1>1, <1>9, <1>10, <1>11
  <2>6. /\ item_step(e, V)' = Cut(item_step(e, V))
        /\ item_step(e, V) = goto(Len(code)) =>
              (e.op # "jump" /\ e.end = b.start) \/ \E x \in allocated : resolve_label_offset[x] = b.start
    <3>1. /\ editable /\ truncate_last_branch /\ UNCHANGED <<program, patched>>
          /\ code' \in Seq(Item) /\ Len(code') = Len(code) - 1
      BY <1>1 DEF m, n
    <3>2. /\ i \in 1 .. (Len(code) - 1)
          /\ \A j \in 1 .. (Len(code) - 1) : code'[j].start = code[j].start
      BY <2>5 DEF m, n
    <3> QED  BY <2>1, <2>4, <3>1, <3>2, CutItem
  <2>7. item_step(e, V) # goto(n)
    BY <1>4, <1>6, <2>2, <2>6 DEF n
  <2>8. item_step(e, V)' = item_step(e, V)
    BY <2>6, <2>7 DEF Cut, n
  <2>9. emitted(V)[i] = item_step(e, V)
    BY <1>3, <2>1, Emitted DEF EmittedTable, n
  <2>10. emitted(V)'[i] = item_step(e, V)'
    <3>1. code'[i] = e /\ i \in 1 .. Len(code')
      BY <1>1, <1>17, <2>1
    <3>2. emitted(V)'[i] = item_step(code[i], V)'
      BY <1>1, <3>1, Tables1 DEF EmittedTable
    <3> QED  BY <3>1, <3>2
  <2> QED  BY <2>8, <2>9, <2>10
<1>18. \A i \in 1 .. m : code'[i].start = code[i].start /\ (code[i].op = "inst" => code'[i] = code[i])
  BY <1>1, <1>4, <1>9, <1>10, <1>11
<1>19. \A i \in 1 .. m : code[i].op = "inst" => code[i].end # b.start
  BY <1>4
<1>20. /\ b.start # 0 /\ \A x \in allocated : resolve_label_offset[x] # b.start
  BY <1>4, <1>6
<1>21. \A V \in [Nat -> BOOLEAN] :
         /\ emitted(V)[n] # goto(n)
         /\ \A i \in 1 .. m : \/ emitted(V)'[i] = emitted(V)[i]
                              \/ emitted(V)[i] = goto(n) /\ emitted(V)'[i] = emitted(V)[n]
  BY <1>8, <1>16, <1>17
<1> QED  BY <1>1, <1>18, <1>19, <1>20, <1>21, CutOInv DEF n, m

\* Inverting keeps the invariant of the items and of their label uses.
LEMMA InvertCInv ==
    ASSUME IInv, TargetsAllocated, CInv, IInv', SemInvert
    PROVE  CInv'
<1> DEFINE m == Len(code) - 1
<1>1. /\ editable /\ truncate_last_branch /\ pc' = "optimize_branches"
      /\ UNCHANGED <<program, patched, nlabels, pending_traps>>
      /\ code' \in Seq(Item) /\ Len(code') = m
      /\ \A i \in 1 .. m : code'[i] = IF i = m THEN [code[m] EXCEPT !.sense = ~@] ELSE code[i]
      /\ Len(latest_branches') = Len(latest_branches) - 1
      /\ \A k \in 1 .. (Len(latest_branches) - 1) :
                 /\ latest_branches'[k].start = latest_branches[k].start
                 /\ latest_branches'[k].end = latest_branches[k].end
                 /\ latest_branches'[k].cond = latest_branches[k].cond
      /\ UsesApart'
      /\ \A d : d.use \in Nat /\ d.use < b.start /\ d.use # prev_b.start => uses_of(d)' = uses_of(d)
      /\ \E g : /\ g.label = b.target
                /\ \A d : d.use = prev_b.start => uses_of(d)' = {g}
      /\ \A f \in outstanding' : f.label \in allocated
  BY InvertFacts
<1>2. ASSUME NEW d, d.use \in Nat, d.use < b.start, uses_of(d) # {} PROVE uses_of(d)' # {}
  <2>1. CASE d.use = prev_b.start
    <3>1. \E g : uses_of(d)' = {g}
      BY <1>1, <2>1, Zenon
    <3> QED  BY <3>1
  <2>2. CASE d.use # prev_b.start
    <3>1. uses_of(d)' = uses_of(d)
      BY <1>1, <1>2, <2>2, Zenon
    <3> QED  BY <1>2, <3>1
  <2> QED  BY <2>1, <2>2
<1>3. \A i \in 1 .. m : code[i] \in Item
  BY <1>1, LastItem
<1>4. \A i \in 1 .. m :
              /\ code'[i].start = code[i].start /\ code'[i].end = code[i].end
              /\ code'[i].op = code[i].op /\ code'[i].use = code[i].use
  <2>1. \A e \in Item : LET x == [e EXCEPT !.sense = ~@] IN
            x.start = e.start /\ x.end = e.end /\ x.op = e.op /\ x.use = e.use
    BY DEF Item
  <2> HIDE DEF m
  <2> SUFFICES ASSUME NEW i \in 1 .. m
               PROVE  /\ code'[i].start = code[i].start /\ code'[i].end = code[i].end
                      /\ code'[i].op = code[i].op /\ code'[i].use = code[i].use
    OBVIOUS
  <2>2. PICK e \in Item : e = code[i]
    BY <1>3
  <2>3. code'[i] = e \/ code'[i] = [e EXCEPT !.sense = ~@]
    BY <1>1, <2>2
  <2> QED  BY <2>1, <2>2, <2>3
<1> QED  BY <1>1, <1>2, <1>4, CutCInv

(***************************************************************************)
(* The redirection of the labels at the last branch.                       *)
(***************************************************************************)

\* What changes: the labels at the branch lead where the branch leads.
LEMMA RedirectFacts ==
    ASSUME IInv, TargetsAllocated, CInv, IInv', OptRedirect, UNCHANGED <<code, patched, program>>
    PROVE  LET n == Len(code) IN
           /\ n \in 1 .. n /\ code \in Seq(Item) /\ DOMAIN code = 1 .. n
           /\ goto_bound(b.target) # goto(n)
           /\ \A V : emitted(V)[n] = goto_bound(b.target)
           /\ \A o : goto_offset(o)' = goto_offset(o)
           /\ \A x \in allocated :
                 \/ goto_bound(x)' = goto_bound(x)
                 \/ goto_bound(x) = goto(n) /\ goto_bound(x)' = goto_bound(b.target)
<1> DEFINE n == Len(code)
<1>1. /\ editable /\ ~b.cond /\ resolve_label_offset[b.target] # b.start
      /\ UNCHANGED <<off, nlabels, label_offsets>>
  BY DEF OptRedirect, redirects, redirectable
<1>2. /\ n \in 1 .. n /\ code \in Seq(Item) /\ DOMAIN code = 1 .. n
      /\ code[n].start = b.start /\ goto_offset(b.start) = goto(n)
      /\ b.start \in Nat /\ off \in Nat /\ b.start < off
  BY <1>1, LastItem
<1>3. b.labels = labels_bound_at(b.start) /\ b.target \in Label
  BY <1>1, LastBranch
<1>4. \A V : emitted(V)[n] = goto_bound(b.target)
  BY <1>1, LastStep
<1> HIDE DEF n
<1>5. \A o : goto_offset(o)' = goto_offset(o)
  BY <1>1 DEF goto_offset, item_at
<1>6. \A o : goto_offset(o) = goto(n) => o = b.start
  <2> SUFFICES ASSUME NEW o, goto_offset(o) = goto(n) PROVE o = b.start
    OBVIOUS
  <2>1. o # off /\ item_at(o) # {}
    BY DEF goto_offset, tail, goto, step
  <2>2. PICK i \in item_at(o) : i = CHOOSE j \in item_at(o) : TRUE
    BY <2>1
  <2>3. goto_offset(o) = goto(i)
    BY <2>1, <2>2 DEF goto_offset
  <2>4. i = n
    BY <2>3 DEF goto, step
  <2> QED  BY <1>2, <2>2, <2>4 DEF item_at
<1>7. PICK t : t = b.target
  OBVIOUS
<1>8. \A x \in Label : /\ root[x] \in Label /\ root[x] \in live
                       /\ goto_bound(x) = bound_step(root[x])
                       /\ root'[x] = IF root[x] \in b.labels THEN root[t] ELSE root[x]
  <2>1. \A x \in Label : root[x] \in Label /\ root[x] \in live /\ goto_bound(x) = bound_step(root[x])
    BY Bounds DEF BoundSteps
  <2>2. \A x \in Label : root'[x] = IF root[x] \in b.labels THEN root[b.target] ELSE root[x]
    BY RootRedirected DEF IInv
  <2> QED  BY <1>7, <2>1, <2>2
<1>9. \A l : bound_step(l)' = bound_step(l)
  <2> SUFFICES ASSUME NEW l PROVE bound_step(l)' = bound_step(l)
    OBVIOUS
  <2>1. PICK o : o = label_offsets[l]
    OBVIOUS
  <2>2. label_offsets'[l] = o
    BY <1>1, <2>1
  <2>3. unbound(l)' = unbound(l)
    BY DEF unbound, trap_labels
  <2>4. goto_offset(o)' = goto_offset(o)
    BY <1>5
  <2> QED  BY <2>1, <2>2, <2>3, <2>4 DEF bound_step
<1>10. goto_bound(b.target) # goto(n)
  <2>1. PICK r : r = root[t]
    OBVIOUS
  <2>2. resolve_label_offset[t] = label_offsets[r]
    BY <1>3, <1>7, <2>1, RootFacts DEF IInv
  <2>3. goto_bound(t) = bound_step(r)
    BY <1>3, <1>7, <1>8, <2>1
  <2>4. unbound(r) # goto(n)
    BY DEF unbound, goto, step
  <2> QED  BY <1>1, <1>6, <1>7, <2>2, <2>3, <2>4 DEF bound_step
<1>11. ASSUME NEW x \in allocated
       PROVE  \/ goto_bound(x)' = goto_bound(x)
              \/ goto_bound(x) = goto(n) /\ goto_bound(x)' = goto_bound(b.target)
  <2>1. x \in Label
    BY AllocatedLabels
  <2>2. PICK r : r = root[x]
    OBVIOUS
  <2>3. PICK q : q = root'[x]
    OBVIOUS
  <2>4. goto_bound(x) = bound_step(r) /\ goto_bound(x)' = bound_step(q)
    <3>1. goto_bound(x)' = bound_step(q)'
      BY <2>1, <2>3, Bounds1 DEF BoundSteps
    <3> QED  BY <1>8, <1>9, <2>1, <2>2, <3>1
  <2>5. CASE r \in b.labels
    <3>1. label_offsets[r] = b.start /\ b.start # UNKNOWN_LABEL_OFFSET
      BY <1>2, <1>3, <2>5 DEF labels_bound_at, UNKNOWN_LABEL_OFFSET
    <3>2. bound_step(r) = goto(n)
      BY <1>2, <3>1 DEF bound_step
    <3>3. q = root[t]
      BY <1>8, <2>1, <2>2, <2>3, <2>5
    <3>4. bound_step(q) = goto_bound(t)
      BY <1>3, <1>7, <1>8, <3>3
    <3> QED  BY <1>7, <2>4, <3>2, <3>4
  <2>6. CASE r \notin b.labels
    <3>1. q = r
      BY <1>8, <2>1, <2>2, <2>3, <2>6
    <3> QED  BY <2>4, <3>1
  <2> QED  BY <2>5, <2>6
<1> QED  BY <1>2, <1>4, <1>5, <1>10, <1>11 DEF n

\* Redirecting labels keeps where control goes.
LEMMA RedirectOInv ==
    ASSUME IInv, TargetsAllocated, CInv, OInv, IInv', OptRedirect, UNCHANGED <<code, patched, program>>
    PROVE  OInv'
<1> DEFINE n == Len(code)
<1>1. /\ n \in 1 .. n /\ code \in Seq(Item) /\ DOMAIN code = 1 .. n
      /\ goto_bound(b.target) # goto(n)
      /\ \A V : emitted(V)[n] = goto_bound(b.target)
      /\ \A o : goto_offset(o)' = goto_offset(o)
      /\ \A x \in allocated :
            \/ goto_bound(x)' = goto_bound(x)
            \/ goto_bound(x) = goto(n) /\ goto_bound(x)' = goto_bound(b.target)
  BY RedirectFacts
<1>2. nlabels' = nlabels /\ code' = code /\ program' = program /\ Len(code') = n
  BY DEF OptRedirect
<1>3. /\ \A o : IsStep(goto_offset(o), n)
      /\ \A x : IsStep(goto_bound(x), n)
      /\ \A V : IsNext(emitted(V), n) /\ \A i \in 1 .. n : emitted(V)[i] = item_step(code[i], V)
  BY <1>1, Emitted DEF EmittedTable
<1>4. /\ \A o : IsStep(goto_offset(o)', n)
      /\ \A x : IsStep(goto_bound(x)', n)
      /\ \A V : IsNext(emitted(V)', n) /\ \A i \in 1 .. n : emitted(V)'[i] = item_step(code[i], V)'
  BY <1>1, <1>2, Tables1 DEF EmittedTable
<1> HIDE DEF n
<1>5. PICK t : t = goto_bound(b.target)
  OBVIOUS
<1>6. ASSUME NEW c PROVE follow(c)' = follow(c) \/ (follow(c) = goto(n) /\ follow(c)' = t)
  <2>1. uses_of(c)' = uses_of(c)
    BY DEF uses_of, outstanding, OptRedirect, islandVars
  <2>2. CASE uses_of(c) = {}
    <3>1. PICK o : o = patched[c.use]
      OBVIOUS
    <3>2. follow(c) = goto_offset(o) /\ follow(c)' = goto_offset(o)'
      BY <2>1, <2>2, <3>1 DEF follow
    <3> QED  BY <1>1, <3>2
  <2>3. CASE uses_of(c) # {}
    <3>1. PICK l : l = (CHOOSE f \in uses_of(c) : TRUE).label
      OBVIOUS
    <3>2. l \in allocated
      BY <2>3, <3>1 DEF uses_of, CInv, UseInv
    <3>3. follow(c) = goto_bound(l) /\ follow(c)' = goto_bound(l)'
      BY <2>1, <2>3, <3>1 DEF follow
    <3> QED  BY <1>1, <1>5, <3>2, <3>3
  <2> QED  BY <2>2, <2>3
<1>7. \A V : \A i \in 1 .. n : \/ emitted(V)'[i] = emitted(V)[i]
                               \/ emitted(V)[i] = goto(n) /\ emitted(V)'[i] = t
  <2> SUFFICES ASSUME NEW V, NEW i \in 1 .. n
               PROVE  \/ emitted(V)'[i] = emitted(V)[i]
                      \/ emitted(V)[i] = goto(n) /\ emitted(V)'[i] = t
    OBVIOUS
  <2>1. PICK c : c = code[i]
    OBVIOUS
  <2>2. code'[i] = c
    BY <1>2, <2>1
  <2>3. emitted(V)[i] = item_step(c, V) /\ emitted(V)'[i] = item_step(c, V)'
    BY <1>3, <1>4, <2>1, <2>2
  <2>4. \/ item_step(c, V)' = item_step(c, V)
        \/ item_step(c, V) = goto(n) /\ item_step(c, V)' = t
    BY <1>1, <1>6 DEF item_step
  <2> QED  BY <2>3, <2>4
<1>8. ASSUME NEW V, NEW s, IsStep(s, n), NEW u, IsStep(u, n), u = s \/ (s = goto(n) /\ u = t)
      PROVE  ends(emitted(V)', u) = ends(emitted(V), s)
  <2>1. emitted(V)[n] = t /\ t # goto(n)
    BY <1>1, <1>5 DEF n
  <2>2. /\ IsNext(emitted(V), n) /\ IsNext(emitted(V)', n) /\ n \in 1 .. n
    BY <1>1, <1>3, <1>4 DEF n
  <2>3. ~(n = n - 1)
    BY <2>2
  <2> QED  BY <1>7, <1>8, <2>1, <2>2, <2>3, Shortcut
<1>9. \A V \in [Nat -> BOOLEAN] :
         /\ ends(emitted(V)', goto_offset(0)') = ends(emitted(V), goto_offset(0))
         /\ \A x \in allocated :
               ends(emitted(V)', goto_bound(x)') = ends(emitted(V), goto_bound(x))
  <2>1. \A V : ends(emitted(V)', goto_offset(0)') = ends(emitted(V), goto_offset(0))
    BY <1>1, <1>3, <1>4, <1>8
  <2>2. \A V : \A x \in allocated :
               ends(emitted(V)', goto_bound(x)') = ends(emitted(V), goto_bound(x))
    <3>1. \A x \in allocated : goto_bound(x)' = goto_bound(x) \/ (goto_bound(x) = goto(n) /\ goto_bound(x)' = t)
      BY <1>1, <1>5 DEF n
    <3> QED  BY <1>3, <1>4, <1>8, <3>1
  <2> QED  BY <2>1, <2>2
<1>10. \A i \in DOMAIN code : code[i].op = "inst" =>
              /\ i \in DOMAIN code' /\ code'[i] = code[i]
              /\ \A V \in [Nat -> BOOLEAN] : \A o : o = code[i].end =>
                    ends(emitted(V)', goto_offset(o)') = ends(emitted(V), goto_offset(o))
  <2>1. \A V : \A o : ends(emitted(V)', goto_offset(o)') = ends(emitted(V), goto_offset(o))
    BY <1>1, <1>3, <1>4, <1>8
  <2> QED  BY <1>2, <2>1
<1> QED  BY <1>2, <1>9, <1>10, EditOInv

\* The items, their label uses and the branches stay where they are.
LEMMA RedirectCInv ==
    ASSUME IInv, CInv, OptRedirect, UNCHANGED <<code, patched, program>>
    PROVE  CInv'
<1>1. /\ UNCHANGED <<off, nlabels, label_offsets, pending_traps, pending_fixup_records,
                     fixup_records, taken>>
      /\ pc = "optimize_branches" /\ pc' = "optimize_branches" /\ latest_branches # <<>>
      /\ latest_branches' = [latest_branches EXCEPT ![Len(latest_branches)].labels = {}]
  BY DEF OptRedirect, redirects, redirectable, editable, deferVars, islandVars
<1>2. /\ DOMAIN latest_branches' = DOMAIN latest_branches
      /\ \A k \in DOMAIN latest_branches :
            /\ latest_branches'[k].start = latest_branches[k].start
            /\ latest_branches'[k].end = latest_branches[k].end
            /\ latest_branches'[k].cond = latest_branches[k].cond
  <2>1. latest_branches \in Seq(Branch)
    BY DEF IInv, TypeOK
  <2>2. \A k \in DOMAIN latest_branches : latest_branches[k] \in Branch
    BY <2>1
  <2>3. \A k \in DOMAIN latest_branches : latest_branches'[k] = latest_branches[k]
              \/ latest_branches'[k] = [latest_branches[k] EXCEPT !.labels = {}]
    BY <1>1
  <2> QED  BY <1>1, <2>2, <2>3 DEF Branch
<1>3. CodeInv' /\ UsesApart'
  BY <1>1 DEF CInv, CodeInv, UsesApart
<1>4. UseInv'
  <2>1. outstanding' = outstanding /\ allocated' = allocated
    BY <1>1 DEF outstanding, allocated
  <2>2. \A c : uses_of(c)' = uses_of(c)
    BY <2>1 DEF uses_of
  <2>3. \A i \in DOMAIN code' : code'[i].op \in {"jump", "cond"} =>
          uses_of(code[i])' # {} \/ code'[i].use \in DOMAIN patched'
    <3> SUFFICES ASSUME NEW i \in DOMAIN code, code[i].op \in {"jump", "cond"}
                 PROVE  uses_of(code[i])' # {} \/ code[i].use \in DOMAIN patched
      OBVIOUS
    <3>1. PICK c : c = code[i]
      OBVIOUS
    <3>2. uses_of(c)' # {} \/ c.use \in DOMAIN patched
      BY <2>2, <3>1 DEF CInv, UseInv
    <3> QED  BY <3>1, <3>2
  <2>4. \A f \in outstanding' : f.label \in allocated'
    BY <2>1 DEF CInv, UseInv
  <2>5. \A o \in DOMAIN patched' :
          /\ patched'[o] \in Nat /\ patched'[o] < off'
          /\ \A k \in DOMAIN latest_branches' : patched'[o] < latest_branches'[k].start
    BY <1>1, <1>2 DEF CInv, UseInv
  <2> QED  BY <2>3, <2>4, <2>5 DEF UseInv
<1>5. BranchItems'
  BY <1>1, <1>2 DEF CInv, BranchItems
<1>6. LineInv'
  BY <1>1 DEF CInv, LineInv, allocated, line_of, trap_labels
<1>7. TailClosed'
  BY <1>1 DEF TailClosed
<1> QED  BY <1>3, <1>4, <1>5, <1>6, <1>7 DEF CInv

(***************************************************************************)
(* The steps that only turn to what comes next.                            *)
(***************************************************************************)

\* They keep the invariant of the items and of their label uses.
LEMMA QuietCInv ==
    ASSUME CInv, Same, UNCHANGED <<program, nlabels, pending_traps>>, UsesApart', TailClosed',
           latest_branches' = latest_branches \/ latest_branches' = <<>>
    PROVE  CInv'
<1>1. CodeInv'
  BY DEF CInv, CodeInv, Same
<1>2. \A k \in DOMAIN latest_branches' :
         k \in DOMAIN latest_branches /\ latest_branches'[k] = latest_branches[k]
  OBVIOUS
<1>3. UseInv'
  <2>1. outstanding' = outstanding /\ allocated' = allocated /\ code' = code /\ patched' = patched /\ off' = off
    BY DEF allocated, Same
  <2>2. \A c : uses_of(c)' = uses_of(c)
    BY <2>1 DEF uses_of
  <2>3. \A i \in DOMAIN code' : code'[i].op \in {"jump", "cond"} =>
          uses_of(code[i])' # {} \/ code'[i].use \in DOMAIN patched'
    <3> SUFFICES ASSUME NEW i \in DOMAIN code, code[i].op \in {"jump", "cond"}
                 PROVE  uses_of(code[i])' # {} \/ code[i].use \in DOMAIN patched
      BY <2>1
    <3>1. PICK c : c = code[i]
      OBVIOUS
    <3>2. uses_of(c)' # {} \/ c.use \in DOMAIN patched
      BY <2>2, <3>1 DEF CInv, UseInv
    <3> QED  BY <2>1, <3>1, <3>2
  <2>4. \A f \in outstanding' : f.label \in allocated'
    BY <2>1 DEF CInv, UseInv
  <2>5. \A o \in DOMAIN patched' :
          /\ patched'[o] \in Nat /\ patched'[o] < off'
          /\ \A k \in DOMAIN latest_branches' : patched'[o] < latest_branches'[k].start
    BY <1>2, <2>1 DEF CInv, UseInv
  <2> QED  BY <2>3, <2>4, <2>5 DEF UseInv
<1>4. BranchItems'
  BY <1>2 DEF CInv, BranchItems, Same
<1>5. LineInv'
  BY DEF CInv, LineInv, allocated, line_of, trap_labels, Same
<1> QED  BY <1>1, <1>3, <1>4, <1>5 DEF CInv

\* An island takes all pending label uses.
LEMMA StartIsland ==
    ASSUME IInv, UsesApart, pc \in {"idle", "finish"}, NEW d, NEW force, start_island(d, force),
           UNCHANGED fixup_records
    PROVE  outstanding' = outstanding /\ UsesApart' /\ latest_branches' = <<>>
<1>1. taken = <<>> /\ taken' = pending_fixup_records /\ pending_fixup_records' = <<>>
      /\ latest_branches' = <<>>
  BY DEF IInv, IslandPhases, start_island
<1>2. outstanding' = outstanding
  BY <1>1 DEF outstanding
<1>3. UsesApart'
  BY <1>1 DEF UsesApart
<1> QED  BY <1>1, <1>2, <1>3

\* Where an island may start, nothing leads to the tail.
LEMMA SafeForIsland ==
    ASSUME IInv, CInv, safe_for_island
    PROVE  /\ code # <<>>
           /\ \A i \in DOMAIN code : code[i].op \in {"inst", "cond"} => code[i].end < off
           /\ \A l \in live : label_offsets[l] # off
<1> DEFINE n == Len(code)
<1>1. code \in Seq(Item) /\ code # <<>> /\ labels_bound_at(off) = {}
      /\ Last(code).op \in {"jump", "ret"} /\ Last(code).end = off
  BY DEF safe_for_island, CInv, CodeInv
<1>2. n \in 1 .. n /\ DOMAIN code = 1 .. n
  BY <1>1
<1>3. code[n].op \in {"jump", "ret"} /\ code[n].end = off
  BY <1>1 DEF Last
<1> HIDE DEF n
<1>4. \A i \in 1 .. n : code[i] \in Item /\ code[i].start \in Nat /\ code[i].end \in Nat
                        /\ code[i].start < code[i].end
  <2>1. \A i \in 1 .. n : code[i] \in Item
    BY <1>1, <1>2
  <2> QED  BY <1>2, <2>1 DEF CInv, CodeInv, Item
<1>5. ASSUME NEW i \in DOMAIN code, code[i].op \in {"inst", "cond"} PROVE code[i].end < off
  <2>1. i # n
    BY <1>3, <1>5
  <2>2. i \in 1 .. n /\ i < n
    BY <1>2, <1>5, <2>1
  <2>3. code[i].end <= code[n].start
    BY <1>2, <2>2 DEF CInv, CodeInv
  <2> QED  BY <1>2, <1>3, <1>4, <2>2, <2>3
<1>6. \A l \in live : label_offsets[l] # off
  BY <1>1 DEF labels_bound_at, live
<1> QED  BY <1>1, <1>5, <1>6

\* EmitIsland, Finish and the turns of the loops over branches and islands.
SemQuiet ==
    \/ \E d \in Distances, force \in Forces : SemIsland(d, force)
    \/ \E force \in Forces : SemFinish(force)
    \/ /\ OptDone \/ IslandPendingDone \/ IslandHeapDone \/ IslandDone \/ FinishStep
       /\ UNCHANGED <<code, patched, program>>

\* These steps keep the invariant: they change no byte, and label uses only move
\* from one list to another.
LEMMA QuietInv ==
    ASSUME IInv, TargetsAllocated, CInv, OInv, IInv', SemQuiet
    PROVE  CInv' /\ OInv'
<1> DEFINE G == /\ Same /\ UNCHANGED <<program, nlabels, pending_traps>> /\ UsesApart' /\ TailClosed'
                /\ latest_branches' = latest_branches \/ latest_branches' = <<>>
<1>1. G
  <2>0. UsesApart /\ TailClosed
    BY DEF CInv
  <2>1. ASSUME NEW d \in Distances, NEW force \in Forces, SemIsland(d, force) PROVE G
    <3>1. /\ safe_for_island /\ pc = "idle" /\ start_island(d, force)
          /\ UNCHANGED <<off, nlabels, label_offsets, label_aliases, fixup_records, pending_traps,
                         code, patched, program>>
      BY <2>1 DEF SemIsland, EmitIsland, labelVars, deferVars
    <3>2. outstanding' = outstanding /\ UsesApart' /\ latest_branches' = <<>>
      BY <2>0, <3>1, StartIsland
    <3>3. TailClosed'
      BY <3>1, SafeForIsland DEF TailClosed, live
    <3> QED  BY <3>1, <3>2, <3>3 DEF Same
  <2>2. ASSUME NEW force \in Forces, SemFinish(force) PROVE G
    <3>1. /\ safe_for_island
          /\ UNCHANGED <<off, nlabels, label_offsets, label_aliases, fixup_records, pending_traps,
                         pending_fixup_records, taken, latest_branches, code, patched, program>>
      BY <2>2 DEF SemFinish, Finish, labelVars, deferVars
    <3>2. outstanding' = outstanding /\ UsesApart'
      BY <2>0, <3>1 DEF outstanding, UsesApart
    <3>3. TailClosed'
      BY <3>1, SafeForIsland DEF TailClosed, live
    <3> QED  BY <3>1, <3>2, <3>3 DEF Same
  <2>3. ASSUME OptDone, UNCHANGED <<code, patched, program>> PROVE G
    <3>1. /\ UNCHANGED <<off, nlabels, label_offsets, label_aliases, fixup_records, pending_traps,
                         pending_fixup_records, taken, code, patched, program>>
          /\ pc' = "idle"
          /\ latest_branches' = latest_branches \/ latest_branches' = <<>>
      BY <2>3 DEF OptDone, purge_latest_branches, labelVars, deferVars, islandVars
    <3>2. outstanding' = outstanding /\ UsesApart'
      BY <2>0, <3>1 DEF outstanding, UsesApart
    <3>3. TailClosed'
      BY <3>1 DEF TailClosed
    <3> QED  BY <3>1, <3>2, <3>3 DEF Same
  <2>4. ASSUME IslandPendingDone \/ IslandHeapDone \/ IslandDone \/ FinishDone,
               UNCHANGED <<code, patched, program>>
        PROVE G
    <3>1. /\ UNCHANGED <<off, nlabels, label_offsets, label_aliases, fixup_records, pending_traps,
                         pending_fixup_records, taken, latest_branches, code, patched, program>>
          /\ pc \in {"island_pending", "island_heap", "island_traps", "finish"}
      BY <2>4 DEF IslandPendingDone, IslandHeapDone, IslandDone, FinishDone, labelVars, deferVars,
                  islandVars
    <3>2. outstanding' = outstanding /\ UsesApart'
      BY <2>0, <3>1 DEF outstanding, UsesApart
    <3>3. TailClosed'
      BY <2>0, <3>1 DEF TailClosed, live
    <3> QED  BY <3>1, <3>2, <3>3 DEF Same
  <2>5. ASSUME FinishIsland, UNCHANGED <<code, patched, program>> PROVE G
    <3>1. /\ pc = "finish" /\ start_island(0, force_veneers)
          /\ UNCHANGED <<off, nlabels, label_offsets, label_aliases, fixup_records, pending_traps,
                         code, patched, program>>
      BY <2>5 DEF FinishIsland, labelVars, deferVars
    <3>2. PICK force : force = force_veneers
      OBVIOUS
    <3>3. start_island(0, force)
      BY <3>1, <3>2
    <3>4. outstanding' = outstanding /\ UsesApart' /\ latest_branches' = <<>>
      BY <2>0, <3>1, <3>3, StartIsland
    <3>5. TailClosed'
      BY <2>0, <3>1 DEF TailClosed, live
    <3> QED  BY <3>1, <3>4, <3>5 DEF Same
  <2> HIDE DEF G
  <2> QED  BY <2>1, <2>2, <2>3, <2>4, <2>5 DEF SemQuiet, FinishStep
<1>2. CInv'
  BY <1>1, QuietCInv
<1>3. OInv'
  BY <1>1, QuietOInv
<1> QED  BY <1>2, <1>3

\* A label use that no veneer can help yet moves to the heap.
LEMMA LaterInv ==
    ASSUME IInv, TargetsAllocated, CInv, OInv, IInv', IslandPending, ~should_apply_fixup(Head(taken)),
           UNCHANGED <<code, patched, program>>
    PROVE  CInv' /\ OInv'
<1>1. /\ pc = "island_pending" /\ taken # <<>> /\ taken' = Tail(taken)
      /\ fixup_records' = fixup_records \cup {Head(taken)}
      /\ UNCHANGED <<off, nlabels, label_offsets, label_aliases, pending_traps, latest_branches,
                     pending_fixup_records, pc>>
  BY DEF IslandPending, labelVars, deferVars
<1>2. /\ Head(taken) = taken[1] /\ 1 \in DOMAIN taken
      /\ \A i \in DOMAIN Tail(taken) : i + 1 \in DOMAIN taken /\ i \in Nat /\ Tail(taken)[i] = taken[i + 1]
      /\ \A i \in DOMAIN taken : i # 1 => i - 1 \in DOMAIN Tail(taken) /\ Tail(taken)[i - 1] = taken[i]
  <2>1. taken \in Seq(Fixup)
    BY DEF IInv, TypeOK
  <2>2. \A i \in DOMAIN taken : i # 1 => i - 1 \in DOMAIN Tail(taken) /\ Tail(taken)[i - 1] = taken[i]
    BY <1>1, <2>1
  <2> QED  BY <1>1, <2>1, <2>2, HeadTail
<1>3. outstanding' = outstanding
  <2>1. {taken[i] : i \in DOMAIN taken} = {Head(taken)} \cup {Tail(taken)[i] : i \in DOMAIN Tail(taken)}
    <3>1. \A i \in DOMAIN taken : taken[i] \in {Tail(taken)[j] : j \in DOMAIN Tail(taken)} \/ taken[i] = Head(taken)
      BY <1>2
    <3>2. \A j \in DOMAIN Tail(taken) : Tail(taken)[j] \in {taken[i] : i \in DOMAIN taken}
      BY <1>2
    <3>3. Head(taken) \in {taken[i] : i \in DOMAIN taken}
      BY <1>2
    <3> QED  BY <3>1, <3>2, <3>3
  <2> QED  BY <1>1, <2>1 DEF outstanding
<1>4. UsesApart'
  <2>1. UsesApart /\ \A i \in DOMAIN Tail(taken) : i + 1 # 1
    BY <1>2 DEF CInv
  <2>2. \A i, j \in DOMAIN taken' : i # j => taken'[i].offset # taken'[j].offset
    <3>1. \A i, j \in DOMAIN Tail(taken) : i # j => i + 1 # j + 1
      BY <1>2
    <3> QED  BY <1>1, <1>2, <2>1, <3>1 DEF UsesApart
  <2>3. \A i \in DOMAIN taken', j \in DOMAIN pending_fixup_records' :
           taken'[i].offset # pending_fixup_records'[j].offset
    BY <1>1, <1>2, <2>1 DEF UsesApart
  <2>4. \A f \in fixup_records' : \A i \in DOMAIN taken' : taken'[i].offset # f.offset
    BY <1>1, <1>2, <2>1 DEF UsesApart
  <2>5. \A f \in fixup_records' :
          /\ \A i \in DOMAIN pending_fixup_records' : pending_fixup_records'[i].offset # f.offset
          /\ \A g \in fixup_records' : f # g => f.offset # g.offset
    BY <1>1, <1>2, <2>1 DEF UsesApart
  <2>6. \A i, j \in DOMAIN pending_fixup_records' :
          i # j => pending_fixup_records'[i].offset # pending_fixup_records'[j].offset
    BY <1>1, <2>1 DEF UsesApart
  <2> QED  BY <2>2, <2>3, <2>4, <2>5, <2>6 DEF UsesApart
<1>5. TailClosed'
  BY <1>1 DEF CInv, TailClosed, live
<1>6. Same
  BY <1>1, <1>3 DEF Same
<1>7. CInv'
  BY <1>1, <1>4, <1>5, <1>6, QuietCInv
<1>8. OInv'
  BY <1>1, <1>6, QuietOInv
<1> QED  BY <1>7, <1>8

(***************************************************************************)
(* Label uses that are patched.                                            *)
(***************************************************************************)

\* The use f is spent; a veneer brings another one, past the tail.
Spends(f, P) ==
    /\ \/ taken # <<>> /\ f = Head(taken) /\ taken' = Tail(taken) /\ fixup_records' = fixup_records
       \/ f \in fixup_records /\ fixup_records' = fixup_records \ {f} /\ taken' = taken
    /\ pending_fixup_records' = P

\* It was outstanding and is not any more; the others stay apart.
LEMMA SpentUses ==
    ASSUME IInv, UsesApart, NEW f, NEW P, Spends(f, P),
           P = pending_fixup_records \/
           \E g : g.offset \in Nat /\ g.offset >= off /\ P = Append(pending_fixup_records, g)
    PROVE  /\ UsesApart' /\ f \in outstanding
           /\ P = pending_fixup_records => outstanding' = outstanding \ {f}
           /\ \A g : P = Append(pending_fixup_records, g) => outstanding' = (outstanding \ {f}) \cup {g}
<1> DEFINE D == DOMAIN pending_fixup_records
           T == DOMAIN taken
<1>1. /\ pending_fixup_records \in Seq(Fixup) /\ taken \in Seq(Fixup) /\ off \in Nat
  BY DEF IInv, TypeOK
<1>2. /\ \A f1 \in outstanding : f1.offset \in Nat /\ f1.offset < off
  BY UseOffsets DEF UsesInBuffer
<1>3. /\ \A j \in D : pending_fixup_records[j] \in outstanding
      /\ \A i \in T : taken[i] \in outstanding
      /\ \A h \in fixup_records : h \in outstanding
  BY DEF outstanding
<1>4. PICK s \in {0, 1} :
         /\ \A i \in DOMAIN taken' : i \in Nat /\ i # 0 /\ i + s \in T /\ taken'[i] = taken[i + s]
         /\ \A i \in T : i # s => i - s \in DOMAIN taken' /\ taken'[i - s] = taken[i]
         /\ s = 1 => 1 \in T /\ f = taken[1] /\ fixup_records' = fixup_records
         /\ s = 0 => f \in fixup_records /\ fixup_records' = fixup_records \ {f} /\ taken' = taken /\ 0 \notin T
  <2>1. CASE taken # <<>> /\ f = Head(taken) /\ taken' = Tail(taken) /\ fixup_records' = fixup_records
    <3>1. /\ \A i \in DOMAIN Tail(taken) : i \in Nat /\ i + 1 \in T /\ Tail(taken)[i] = taken[i + 1]
          /\ 1 \in T /\ f = taken[1]
      BY <1>1, <2>1, HeadTail
    <3>2. \A i \in T : i # 1 => i - 1 \in DOMAIN Tail(taken) /\ Tail(taken)[i - 1] = taken[i]
      BY <1>1, <2>1
    <3>3. \A i \in DOMAIN Tail(taken) : i # 0
      BY <1>1, <2>1
    <3> QED  BY <2>1, <3>1, <3>2, <3>3
  <2>2. CASE f \in fixup_records /\ fixup_records' = fixup_records \ {f} /\ taken' = taken
    <3>1. \A i \in T : i \in Nat /\ i + 0 = i /\ i - 0 = i /\ i # 0
      BY <1>1
    <3>2. /\ \A i \in DOMAIN taken' : i \in Nat /\ i + 0 \in T /\ taken'[i] = taken[i + 0]
          /\ \A i \in T : i # 0 => i - 0 \in DOMAIN taken' /\ taken'[i - 0] = taken[i]
      BY <2>2, <3>1
    <3> QED  BY <2>2, <3>1, <3>2
  <2> QED  BY <2>1, <2>2 DEF Spends
<1>5. \A j \in DOMAIN pending_fixup_records' :
          \/ j \in D /\ pending_fixup_records'[j] = pending_fixup_records[j]
          \/ /\ j = Len(pending_fixup_records) + 1
             /\ pending_fixup_records'[j].offset \in Nat /\ pending_fixup_records'[j].offset >= off
  <2>1. pending_fixup_records' = P
    BY DEF Spends
  <2>2. ASSUME NEW g, g.offset \in Nat, g.offset >= off, P = Append(pending_fixup_records, g)
        PROVE  <1>5
    BY <1>1, <2>1, <2>2
  <2> QED  BY <2>1, <2>2
<1>6. \A h \in fixup_records' : h \in fixup_records
  BY <1>4
<1>7. /\ \A i, j \in D : i # j => pending_fixup_records[i].offset # pending_fixup_records[j].offset
      /\ \A i, j \in T : i # j => taken[i].offset # taken[j].offset
      /\ \A i \in T, j \in D : taken[i].offset # pending_fixup_records[j].offset
      /\ \A h \in fixup_records :
          /\ \A i \in D : pending_fixup_records[i].offset # h.offset
          /\ \A i \in T : taken[i].offset # h.offset
          /\ \A g \in fixup_records : h # g => h.offset # g.offset
  BY DEF UsesApart
<1> HIDE DEF D, T
<1>8. UsesApart'
  <2>1. \A i, j \in DOMAIN pending_fixup_records' :
          i # j => pending_fixup_records'[i].offset # pending_fixup_records'[j].offset
    <3> SUFFICES ASSUME NEW i \in DOMAIN pending_fixup_records', NEW j \in DOMAIN pending_fixup_records',
                        i # j
                 PROVE  pending_fixup_records'[i].offset # pending_fixup_records'[j].offset
      OBVIOUS
    <3>1. \A k \in D : pending_fixup_records[k].offset \in Nat /\ pending_fixup_records[k].offset < off
      BY <1>2, <1>3
    <3> QED  BY <1>1, <1>5, <1>7, <3>1
  <2>2. \A i, j \in DOMAIN taken' : i # j => taken'[i].offset # taken'[j].offset
    <3> SUFFICES ASSUME NEW i \in DOMAIN taken', NEW j \in DOMAIN taken', i # j
                 PROVE  taken'[i].offset # taken'[j].offset
      OBVIOUS
    <3>1. i + s # j + s
      BY <1>4
    <3>2. PICK k \in T : k = i + s /\ taken'[i] = taken[k]
      BY <1>4
    <3>3. PICK h \in T : h = j + s /\ taken'[j] = taken[h]
      BY <1>4
    <3> QED  BY <1>7, <3>1, <3>2, <3>3
  <2>3. \A i \in DOMAIN taken', j \in DOMAIN pending_fixup_records' :
           taken'[i].offset # pending_fixup_records'[j].offset
    <3> SUFFICES ASSUME NEW i \in DOMAIN taken', NEW j \in DOMAIN pending_fixup_records'
                 PROVE  taken'[i].offset # pending_fixup_records'[j].offset
      OBVIOUS
    <3>1. i + s \in T /\ taken'[i] = taken[i + s]
      BY <1>4
    <3>2. taken'[i].offset \in Nat /\ taken'[i].offset < off
      BY <1>2, <1>3, <3>1
    <3> QED  BY <1>1, <1>5, <1>7, <3>1, <3>2
  <2>4. \A h \in fixup_records' : \A i \in DOMAIN pending_fixup_records' : pending_fixup_records'[i].offset # h.offset
    <3> SUFFICES ASSUME NEW h \in fixup_records', NEW i \in DOMAIN pending_fixup_records'
                 PROVE  pending_fixup_records'[i].offset # h.offset
      OBVIOUS
    <3>1. h \in fixup_records /\ h.offset \in Nat /\ h.offset < off
      BY <1>2, <1>3, <1>6
    <3> QED  BY <1>1, <1>5, <1>7, <3>1
  <2>5. \A h \in fixup_records' : \A i \in DOMAIN taken' : taken'[i].offset # h.offset
    BY <1>4, <1>6, <1>7
  <2>6. \A h \in fixup_records' : \A g \in fixup_records' : h # g => h.offset # g.offset
    BY <1>6, <1>7
  <2> QED  BY <2>1, <2>2, <2>3, <2>4, <2>5, <2>6 DEF UsesApart
<1>9. f \in outstanding
  BY <1>3, <1>4
<1>10. ASSUME NEW x PROVE (x \in fixup_records' \/ \E i \in DOMAIN taken' : x = taken'[i])
                     <=> x # f /\ (x \in fixup_records \/ \E i \in T : x = taken[i])
  <2>1. CASE s = 0
    <3>1. \A i \in T : taken[i] # f
      BY <1>4, <1>7, <2>1
    <3>2. \A i \in T : i # 0
      BY <1>4, <2>1
    <3>3. DOMAIN taken' = T
      BY <1>4, <2>1 DEF T
    <3> QED  BY <1>4, <2>1, <3>1, <3>2, <3>3
  <2>2. CASE s = 1
    <3>1. \A i \in T : i # 1 => taken[i] # f
      BY <1>4, <1>7, <2>2
    <3>2. f \notin fixup_records
      BY <1>4, <1>7, <2>2
    <3>3. \A i \in DOMAIN taken' : i + 1 # 1
      <4>1. \A i \in DOMAIN taken' : i \in Nat /\ i # 0
        BY <1>4
      <4> QED  BY <4>1
    <3>4. \A i \in DOMAIN taken' : i + 1 \in T /\ taken'[i] = taken[i + 1] /\ taken'[i] # f
      BY <1>4, <2>2, <3>1, <3>3
    <3>5. \A i \in T : taken[i] # f => i - 1 \in DOMAIN taken' /\ taken'[i - 1] = taken[i]
      BY <1>4, <2>2
    <3> QED  BY <1>4, <2>2, <3>2, <3>4, <3>5
  <2> QED  BY <2>1, <2>2
<1>11. \A j \in D : pending_fixup_records[j] # f
  BY <1>4, <1>7
<1>12. \A x : x \in outstanding <=> \/ x \in fixup_records \/ \E i \in T : x = taken[i]
                                    \/ \E j \in D : x = pending_fixup_records[j]
  BY DEF outstanding, T, D
<1>13. \A x : x \in outstanding' <=> \/ x \in fixup_records' \/ \E i \in DOMAIN taken' : x = taken'[i]
                                     \/ \E j \in DOMAIN pending_fixup_records' : x = pending_fixup_records'[j]
  BY DEF outstanding
<1>14. pending_fixup_records' = P
  BY DEF Spends
<1>15. ASSUME P = pending_fixup_records PROVE outstanding' = outstanding \ {f}
  <2>1. \A x : x \in outstanding' <=> x \in outstanding /\ x # f
    BY <1>10, <1>11, <1>12, <1>13, <1>14, <1>15 DEF D
  <2> QED  BY <2>1
<1>16. ASSUME NEW g, P = Append(pending_fixup_records, g)
       PROVE  outstanding' = (outstanding \ {f}) \cup {g}
  <2>1. \A x : (\E j \in DOMAIN P : x = P[j]) <=> x = g \/ \E j \in D : x = pending_fixup_records[j]
    <3>1. /\ DOMAIN P = 1 .. (Len(pending_fixup_records) + 1) /\ P[Len(pending_fixup_records) + 1] = g
          /\ D = 1 .. Len(pending_fixup_records) /\ Len(pending_fixup_records) \in Nat
          /\ \A j \in D : P[j] = pending_fixup_records[j]
      BY <1>1, <1>16 DEF D
    <3> QED  BY <3>1
  <2>2. \A x : x \in outstanding' <=> (x \in outstanding /\ x # f) \/ x = g
    BY <1>10, <1>11, <1>12, <1>13, <1>14, <2>1
  <2> QED  BY <2>2
<1> QED  BY <1>8, <1>9, <1>15, <1>16

\* The step that patches f, or sends it to a veneer.
Handles(f) ==
    /\ \/ f = Head(taken) /\ SemPending /\ should_apply_fixup(f)
       \/ SemHeap(f)
    /\ asserts_hold(f)

\* What handle_fixup does to the label uses: the one handled is spent, and that of
\* its veneer, if there is one, takes over the label.
LEMMA HandledFacts ==
    ASSUME IInv, CInv, NEW f, Handles(f), NEW t, t = AlignUp(off, Align),
           NEW u, u = t + VeneerFixupDelta[f.kind][t % 4]
    PROVE  /\ f \in outstanding /\ f \in Fixup /\ asserts_hold(f) /\ handled(f) /\ UsesApart'
           /\ latest_branches = <<>> /\ pc' = pc /\ pc \in {"island_pending", "island_heap"}
           /\ UNCHANGED <<nlabels, label_offsets, label_aliases, pending_traps, latest_branches, program>>
           /\ off \in Nat /\ t \in Nat /\ t >= off
           /\ ~veneer_required(f) => off' = off /\ outstanding' = outstanding \ {f}
           /\ veneer_required(f) =>
                 /\ off' = t + VeneerSize[f.kind] /\ off' \in Nat
                 /\ u \in Nat /\ t <= u /\ u < off'
                 /\ \E g : g.label = f.label /\ g.offset = u /\ outstanding' = (outstanding \ {f}) \cup {g}
<1>1. /\ asserts_hold(f) /\ handled(f) /\ latest_branches = <<>>
      /\ pc' = pc /\ pc \in {"island_pending", "island_heap"}
      /\ UNCHANGED <<nlabels, label_offsets, label_aliases, pending_traps, latest_branches, program>>
      /\ handle_fixup(f, pc)
      /\ \/ taken # <<>> /\ f = Head(taken) /\ taken' = Tail(taken) /\ fixup_records' = fixup_records
         \/ f \in fixup_records /\ fixup_records' = fixup_records \ {f} /\ taken' = taken
  <2>1. CASE f = Head(taken) /\ SemPending /\ should_apply_fixup(f)
    <3>1. /\ pc = "island_pending" /\ taken # <<>> /\ taken' = Tail(taken)
          /\ handle_fixup(f, pc) /\ UNCHANGED fixup_records
          /\ UNCHANGED <<nlabels, label_offsets, label_aliases, pending_traps, latest_branches, program>>
          /\ handled(f) /\ asserts_hold(f)
      BY <2>1 DEF SemPending, IslandPending, labelVars, deferVars, Handles
    <3>2. latest_branches = <<>>
      BY <3>1 DEF IInv, IslandPhases
    <3>3. pc' = pc
      BY <3>1 DEF handle_fixup
    <3> QED  BY <2>1, <3>1, <3>2, <3>3
  <2>2. CASE SemHeap(f)
    <3>1. /\ pc = "island_heap" /\ f \in fixup_records /\ fixup_records' = fixup_records \ {f}
          /\ handle_fixup(f, pc) /\ UNCHANGED taken
          /\ UNCHANGED <<nlabels, label_offsets, label_aliases, pending_traps, latest_branches, program>>
          /\ handled(f) /\ asserts_hold(f)
      BY <2>2 DEF SemHeap, IslandHeap, heap_top, labelVars, deferVars, islandVars, Handles
    <3>2. latest_branches = <<>>
      BY <3>1 DEF IInv, IslandPhases
    <3>3. pc' = pc
      BY <3>1 DEF handle_fixup
    <3> QED  BY <3>1, <3>2, <3>3
  <2> QED  BY <2>1, <2>2 DEF Handles
<1>2. off \in Nat /\ t \in Nat /\ t >= off
  <2>1. off \in Nat
    BY DEF IInv, TypeOK
  <2> QED  BY <2>1, AlignUpNat, SizesAssumption
<1>3. UsesApart
  BY DEF CInv
<1>4. f \in outstanding /\ f \in Fixup /\ f.kind \in Kind
  <2>1. f \in outstanding
    <3>1. taken \in Seq(Fixup)
      BY DEF IInv, TypeOK
    <3>2. taken # <<>> => 1 \in DOMAIN taken /\ Head(taken) = taken[1]
      BY <3>1
    <3> QED  BY <1>1, <3>2 DEF outstanding
  <2>2. f \in Fixup
    BY <2>1, UseOffsets DEF UsesInBuffer
  <2> QED  BY <2>1, <2>2 DEF Fixup
<1>5. CASE ~veneer_required(f)
  <2>1. pending_fixup_records' = pending_fixup_records /\ off' = off
    BY <1>1, <1>5 DEF handle_fixup
  <2>2. PICK P : P = pending_fixup_records'
    OBVIOUS
  <2>3. Spends(f, P)
    BY <1>1, <2>2 DEF Spends
  <2>4. UsesApart' /\ outstanding' = outstanding \ {f}
    BY <1>3, <2>1, <2>2, <2>3, SpentUses
  <2> QED  BY <1>1, <1>2, <1>4, <1>5, <2>1, <2>4
<1>6. CASE veneer_required(f)
  <2>1. PICK g : g = [label |-> f.label, offset |-> u, kind |-> VeneerKind[f.kind]]
    OBVIOUS
  <2>2. pending_fixup_records' = Append(pending_fixup_records, g) /\ off' = t + VeneerSize[f.kind]
    BY <1>1, <1>6, <2>1 DEF handle_fixup, emit_veneer, use_label_at_offset
  <2>3. supports_veneer(f.kind)
    BY <1>1, <1>6 DEF asserts_hold
  <2>4. /\ VeneerKind[f.kind] \in Kind /\ u \in Nat /\ u >= t
        /\ u + PatchSize[VeneerKind[f.kind]] <= t + VeneerSize[f.kind]
    BY <1>2, <1>4, <2>3, VeneerFits
  <2>5. /\ PatchSize[VeneerKind[f.kind]] \in Nat /\ PatchSize[VeneerKind[f.kind]] > 0
        /\ VeneerSize[f.kind] \in Nat
    BY <1>4, <2>4, KindType
  <2>6. off' \in Nat /\ t <= u /\ u < off' /\ u >= off
    <3>1. PICK v \in Nat : v = VeneerSize[f.kind]
      BY <2>5
    <3>2. PICK q \in Nat : q = PatchSize[VeneerKind[f.kind]] /\ q > 0
      BY <2>5
    <3>3. u + q <= t + v /\ off' = t + v
      BY <2>2, <2>4, <3>1, <3>2
    <3> HIDE DEF veneer_required
    <3> QED  BY <1>2, <2>4, <3>2, <3>3
  <2>7. PICK P : P = pending_fixup_records'
    OBVIOUS
  <2>8. Spends(f, P)
    BY <1>1, <2>7 DEF Spends
  <2>9. g.label = f.label /\ g.offset = u
    BY <2>1
  <2>10. P = Append(pending_fixup_records, g) /\ g.offset \in Nat /\ g.offset >= off
    BY <2>2, <2>4, <2>6, <2>7, <2>9
  <2>11. UsesApart' /\ outstanding' = (outstanding \ {f}) \cup {g}
    BY <1>3, <2>8, <2>10, SpentUses
  <2> QED  BY <1>1, <1>2, <1>4, <1>6, <2>2, <2>4, <2>6, <2>9, <2>11
<1> QED  BY <1>5, <1>6

\* A known label that nothing sends to a veneer is patched to its offset, which
\* no edit can drop.
LEMMA PatchedInv ==
    ASSUME IInv, TargetsAllocated, CInv, OInv, IInv', NEW f, Handles(f), ~veneer_required(f)
    PROVE  CInv' /\ OInv'
<1>1. /\ f \in outstanding /\ handled(f) /\ UsesApart'
      /\ latest_branches = <<>> /\ pc' = pc /\ pc \in {"island_pending", "island_heap"}
      /\ UNCHANGED <<nlabels, label_offsets, label_aliases, pending_traps, latest_branches, program>>
      /\ off \in Nat /\ off' = off /\ outstanding' = outstanding \ {f}
  <2>1. PICK t : t = AlignUp(off, Align)
    OBVIOUS
  <2>2. PICK u : u = t + VeneerFixupDelta[f.kind][t % 4]
    OBVIOUS
  <2> QED  BY <2>1, <2>2, HandledFacts
<1>2. PICK lo : lo = resolve_label_offset[f.label]
  OBVIOUS
<1>3. /\ code' = code
      /\ patched' = [o \in DOMAIN patched \cup {f.offset} |-> IF o = f.offset THEN lo ELSE patched[o]]
      /\ lo # UNKNOWN_LABEL_OFFSET
  BY <1>1, <1>2 DEF handled, veneer_required
<1>4. f.label \in Label /\ f.label \in allocated
  BY <1>1, UseOffsets DEF UsesInBuffer, CInv, UseInv
<1>5. lo \in Nat /\ lo < off
  <2>1. /\ root[f.label] \in live /\ lo = label_offsets[root[f.label]] /\ root[f.label] \in Label
    BY <1>2, <1>4, RootFacts DEF IInv
  <2>2. lo \in Nat /\ lo <= off
    BY <1>3, <1>4, <2>1, Bounds DEF BoundSteps
  <2>3. lo # off
    BY <1>1, <2>1 DEF CInv, TailClosed
  <2> QED  BY <1>1, <2>2, <2>3
<1>6. goto_bound(f.label) = goto_offset(lo)
  BY <1>2, <1>3 DEF goto_bound
<1>7. /\ \A o : goto_offset(o)' = goto_offset(o)
      /\ \A l \in allocated : goto_bound(l)' = goto_bound(l)
  <2>1. \A o : goto_offset(o)' = goto_offset(o)
    BY <1>1, <1>3 DEF goto_offset, item_at
  <2>2. ASSUME NEW l \in allocated PROVE goto_bound(l)' = goto_bound(l)
    <3>1. l \in Label
      BY AllocatedLabels
    <3>2. PICK r : r = root[l]
      OBVIOUS
    <3>3. r = root'[l]
      BY <1>1, <3>1, <3>2, RootKept DEF IInv
    <3>4. goto_bound(l) = bound_step(r) /\ goto_bound(l)' = bound_step(r)'
      BY <3>1, <3>2, <3>3, Bounds, Bounds1 DEF BoundSteps
    <3>5. PICK o : o = label_offsets[r]
      OBVIOUS
    <3>6. label_offsets'[r] = o /\ unbound(r)' = unbound(r)
      BY <1>1, <3>5 DEF unbound, trap_labels
    <3>7. bound_step(r)' = bound_step(r)
      BY <2>1, <3>5, <3>6 DEF bound_step
    <3> QED  BY <3>4, <3>7
  <2> QED  BY <2>1, <2>2
<1>8. OneUse
  BY OneUseFacts
<1>9. \A c : uses_of(c)' = IF c.use = f.offset THEN {} ELSE uses_of(c)
  <2> SUFFICES ASSUME NEW c PROVE uses_of(c)' = IF c.use = f.offset THEN {} ELSE uses_of(c)
    OBVIOUS
  <2>1. c.use = f.offset => uses_of(c) = {f}
    BY <1>1, <1>8 DEF OneUse, CInv
  <2>2. uses_of(c)' = uses_of(c) \ {f}
    BY <1>1 DEF uses_of
  <2>3. c.use # f.offset => f \notin uses_of(c)
    BY DEF uses_of
  <2> QED  BY <2>1, <2>2, <2>3
<1>10. ASSUME NEW c, uses_of(c) # {} \/ c.use \in DOMAIN patched
       PROVE  follow(c)' = follow(c) /\ (uses_of(c)' # {} \/ c.use \in DOMAIN patched')
  <2>1. CASE c.use = f.offset
    <3>1. uses_of(c) = {f} /\ uses_of(c)' = {}
      BY <1>1, <1>8, <1>9, <2>1 DEF OneUse, CInv
    <3>2. (CHOOSE h \in uses_of(c) : TRUE) = f
      BY <3>1
    <3>3. follow(c) = goto_bound(f.label)
      BY <3>1, <3>2 DEF follow
    <3>4. patched'[c.use] = lo /\ c.use \in DOMAIN patched'
      BY <1>3, <2>1
    <3>5. follow(c)' = goto_offset(lo)'
      BY <3>1, <3>4 DEF follow
    <3> QED  BY <1>6, <1>7, <3>3, <3>4, <3>5
  <2>2. CASE c.use # f.offset
    <3>1. uses_of(c)' = uses_of(c)
      BY <1>9, <2>2
    <3>2. CASE uses_of(c) = {}
      <4>1. PICK o : o = patched[c.use]
        OBVIOUS
      <4>2. patched'[c.use] = o /\ c.use \in DOMAIN patched'
        BY <1>3, <1>10, <2>2, <3>2, <4>1
      <4>3. follow(c) = goto_offset(o) /\ follow(c)' = goto_offset(o)'
        BY <3>1, <3>2, <4>1, <4>2 DEF follow
      <4> QED  BY <1>7, <4>2, <4>3
    <3>3. CASE uses_of(c) # {}
      <4>1. PICK l : l = (CHOOSE h \in uses_of(c) : TRUE).label
        OBVIOUS
      <4>2. l \in allocated
        BY <3>3, <4>1 DEF uses_of, CInv, UseInv
      <4>3. follow(c) = goto_bound(l) /\ follow(c)' = goto_bound(l)'
        BY <3>1, <3>3, <4>1 DEF follow
      <4> QED  BY <1>7, <3>1, <3>3, <4>2, <4>3
    <3> QED  BY <3>2, <3>3
  <2> QED  BY <2>1, <2>2
<1>11. ASSUME NEW V, NEW i \in DOMAIN code PROVE emitted(V)'[i] = emitted(V)[i]
  <2>1. PICK c : c = code[i]
    OBVIOUS
  <2>2. code'[i] = c /\ i \in DOMAIN code'
    BY <1>3, <2>1
  <2>3. c.op \in {"jump", "cond"} => follow(c)' = follow(c)
    <3>1. c.op \in {"jump", "cond"} => uses_of(c) # {} \/ c.use \in DOMAIN patched
      BY <2>1 DEF CInv, UseInv
    <3> QED  BY <1>10, <3>1
  <2>4. item_step(c, V)' = item_step(c, V)
    BY <1>7, <2>3 DEF item_step
  <2>5. emitted(V)[i] = item_step(c, V) /\ emitted(V)'[i] = item_step(c, V)'
    BY <2>1, <2>2 DEF emitted
  <2> QED  BY <2>4, <2>5
<1>12. \A V : emitted(V)' = emitted(V)
  <2> SUFFICES ASSUME NEW V PROVE emitted(V)' = emitted(V)
    OBVIOUS
  <2>1. emitted(V) = [i \in DOMAIN code |-> emitted(V)[i]]
    BY DEF emitted
  <2>2. emitted(V)' = [i \in DOMAIN code |-> emitted(V)'[i]]
    BY <1>3 DEF emitted
  <2> QED  BY <1>11, <2>1, <2>2
<1>13. OInv'
  BY <1>1, <1>3, <1>7, <1>12, EditOInv
<1>14. CodeInv'
  BY <1>1, <1>3 DEF CInv, CodeInv
<1>15. UseInv'
  <2>1. \A h \in outstanding' : h.label \in allocated'
    BY <1>1 DEF CInv, UseInv, allocated
  <2>2. \A i \in DOMAIN code' : code'[i].op \in {"jump", "cond"} =>
          uses_of(code[i])' # {} \/ code'[i].use \in DOMAIN patched'
    <3> SUFFICES ASSUME NEW i \in DOMAIN code, code[i].op \in {"jump", "cond"}
                 PROVE  uses_of(code[i])' # {} \/ code[i].use \in DOMAIN patched'
      BY <1>3
    <3>1. PICK c : c = code[i]
      OBVIOUS
    <3>2. uses_of(c) # {} \/ c.use \in DOMAIN patched
      BY <3>1 DEF CInv, UseInv
    <3>3. uses_of(c)' # {} \/ c.use \in DOMAIN patched'
      BY <1>10, <3>2
    <3> QED  BY <1>3, <3>1, <3>3
  <2>3. \A o \in DOMAIN patched' :
          /\ patched'[o] \in Nat /\ patched'[o] < off'
          /\ \A k \in DOMAIN latest_branches' : patched'[o] < latest_branches'[k].start
    BY <1>1, <1>3, <1>5 DEF CInv, UseInv
  <2> QED  BY <2>1, <2>2, <2>3 DEF UseInv
<1>16. BranchItems'
  BY <1>1, <1>3 DEF BranchItems
<1>17. LineInv'
  BY <1>1 DEF CInv, LineInv, allocated, line_of, trap_labels
<1>18. TailClosed'
  BY <1>1, <1>3 DEF CInv, TailClosed, live
<1> QED  BY <1>1, <1>13, <1>14, <1>15, <1>16, <1>17, <1>18 DEF CInv

(***************************************************************************)
(* What an island adds: a veneer or a trap, past the end of the code.      *)
(***************************************************************************)

\* An item that nothing led to yet.
Extends(c) ==
    /\ pc \in {"island_pending", "island_heap", "island_traps"}
    /\ c \in Item /\ code' = Append(code, c) /\ off \in Nat /\ off' \in Nat
    /\ off <= c.start /\ c.start < c.end /\ c.end = off'
    /\ c.op \in {"jump", "cond"} => c.start <= c.use /\ c.use < c.end

\* Offsets before the tail lead where they did, and the new one to the item.
LEMMA ExtendOffsets ==
    ASSUME IInv, CInv, NEW c, Extends(c)
    PROVE  LET n == Len(code) IN
           /\ CodeInv' /\ n \in Nat /\ code \in Seq(Item) /\ code' \in Seq(Item)
           /\ DOMAIN code = 1 .. n /\ DOMAIN code' = 1 .. (n + 1) /\ Len(code') = n + 1
           /\ code'[n + 1] = c
           /\ \A i \in 1 .. n : /\ i \in 1 .. (n + 1) /\ code'[i] = code[i]
                                /\ code[i].op \in {"inst", "cond"} => code[i].end \in Nat /\ code[i].end < off
                                /\ code[i].use \in Nat
                                /\ code[i].op \in {"jump", "cond"} => code[i].use < off
           /\ 0 < off /\ off < off'
           /\ \A o \in Nat : o < off => goto_offset(o)' = goto_offset(o)
           /\ \A o : o = c.start => goto_offset(o)' = goto(n + 1)
<1> DEFINE n == Len(code)
<1>1. /\ CodeInv /\ off \in Nat /\ off' \in Nat /\ c \in Item /\ c.start \in Nat /\ c.end \in Nat
      /\ code' = Append(code, c) /\ off <= c.start /\ c.start < c.end /\ c.end <= off'
      /\ c.op \in {"jump", "cond"} => c.start <= c.use /\ c.use < c.end
  BY DEF Extends, CInv, Item
<1>2. CodeInv'
  BY <1>1, CodeAppend
<1>3. /\ n \in Nat /\ DOMAIN code = 1 .. n /\ DOMAIN code' = 1 .. (n + 1) /\ code'[n + 1] = c
      /\ \A i \in 1 .. n : i \in 1 .. (n + 1) /\ i # n + 1 /\ code'[i] = code[i]
      /\ n + 1 \in 1 .. (n + 1) /\ code \in Seq(Item) /\ code' \in Seq(Item) /\ Len(code') = n + 1
      /\ \A i \in 1 .. (n + 1) : i \in 1 .. n \/ i = n + 1
  BY <1>1, AppendAt DEF CodeInv
<1>4. /\ code # <<>>
      /\ \A i \in DOMAIN code : code[i].op \in {"inst", "cond"} => code[i].end < off
  BY DEF Extends, CInv, TailClosed
<1>5. n \in 1 .. n
  BY <1>3, <1>4
<1> HIDE DEF n
<1>6. \A i \in 1 .. n : /\ code[i] \in Item /\ code[i].start \in Nat /\ code[i].end \in Nat
                        /\ code[i].use \in Nat /\ code[i].start < code[i].end /\ code[i].end <= off
                        /\ code[i].op \in {"jump", "cond"} => code[i].use < code[i].end
  <2>1. \A i \in 1 .. n : code[i] \in Item
    BY <1>3
  <2> QED  BY <1>1, <1>3, <2>1 DEF CodeInv, Item
<1>7. 0 < off /\ off < off'
  <2>1. code[n].start \in Nat /\ code[n].end \in Nat /\ code[n].start < code[n].end /\ code[n].end <= off
    BY <1>5, <1>6
  <2>2. 0 < off
    BY <1>1, <2>1
  <2>3. off < off'
    BY <1>1
  <2> QED  BY <2>2, <2>3
<1>8. ASSUME NEW i \in 1 .. n, code[i].op \in {"jump", "cond"} PROVE code[i].use < off
  <2>1. /\ code[i].use < code[i].end /\ code[i].end <= off
        /\ code[i].use \in Nat /\ code[i].end \in Nat
    BY <1>6, <1>8
  <2>2. off \in Nat
    BY <1>1
  <2> QED  BY <2>1, <2>2
<1>9. ASSUME NEW o \in Nat, o < off PROVE goto_offset(o)' = goto_offset(o)
  <2>1. item_at(o)' = item_at(o)
    <3>1. c.start # o
      BY <1>1, <1>9
    <3> QED  BY <1>3, <3>1 DEF item_at
  <2>2. o # off /\ o # off'
    BY <1>1, <1>7, <1>9
  <2> QED  BY <2>1, <2>2 DEF goto_offset
<1>10. \A o : o = c.start => goto_offset(o)' = goto(n + 1)
  <2>1. PICK k : k = n + 1
    OBVIOUS
  <2>2. k \in 1 .. Len(code') /\ code'[k] = c
    BY <1>3, <2>1
  <2>3. \A o : o = code'[k].start => goto_offset(o)' = goto(k)
    BY <1>1, <1>2, <2>2, Offsets1 DEF OffsetSteps
  <2> QED  BY <2>1, <2>2, <2>3
<1> QED  BY <1>2, <1>3, <1>4, <1>6, <1>7, <1>8, <1>9, <1>10 DEF n

\* What leads to the item now led where the item leads.
LEMMA ExtendOInv ==
    ASSUME IInv, TargetsAllocated, CInv, OInv, NEW c, Extends(c), UNCHANGED <<program, nlabels>>,
           NEW h, IsStep(h, Len(code)),
           \A V : \A k : k = Len(code) + 1 => emitted(V)'[k] = h,
           \A x \in allocated : \/ goto_bound(x)' = goto_bound(x)
                                \/ goto_bound(x) = h /\ goto_bound(x)' = goto(Len(code) + 1),
           \A e : /\ e.op \in {"jump", "cond"} /\ \E i \in DOMAIN code : code[i] = e
                  => \/ follow(e)' = follow(e)
                     \/ follow(e) = h /\ follow(e)' = goto(Len(code) + 1)
    PROVE  OInv'
<1> DEFINE n == Len(code)
<1>1. /\ n \in Nat /\ code \in Seq(Item) /\ code' \in Seq(Item)
      /\ DOMAIN code = 1 .. n /\ DOMAIN code' = 1 .. (n + 1) /\ Len(code') = n + 1
      /\ \A i \in 1 .. n : /\ i \in 1 .. (n + 1) /\ code'[i] = code[i]
                           /\ code[i].op \in {"inst", "cond"} => code[i].end \in Nat /\ code[i].end < off
      /\ 0 < off
      /\ \A o \in Nat : o < off => goto_offset(o)' = goto_offset(o)
  BY ExtendOffsets
<1>2. PICK k : k = n + 1
  OBVIOUS
<1>3. /\ \A o : IsStep(goto_offset(o), n)
      /\ \A x : IsStep(goto_bound(x), n)
      /\ \A V : IsNext(emitted(V), n) /\ \A i \in 1 .. n : emitted(V)[i] = item_step(code[i], V)
  BY <1>1, Emitted DEF EmittedTable
<1>4. /\ \A o : IsStep(goto_offset(o)', k)
      /\ \A x : IsStep(goto_bound(x)', k)
      /\ \A V : IsNext(emitted(V)', k) /\ \A i \in 1 .. k : emitted(V)'[i] = item_step(code[i], V)'
  BY <1>1, <1>2, Tables1 DEF EmittedTable
<1>5. /\ \A V : emitted(V)'[k] = h
      /\ IsStep(h, n) /\ h # goto(k)
      /\ \A x \in allocated : goto_bound(x)' = goto_bound(x) \/ (goto_bound(x) = h /\ goto_bound(x)' = goto(k))
  <2>1. h # goto(k)
    BY <1>1, <1>2 DEF IsStep, goto, step
  <2> QED  BY <1>2, <2>1
<1>6. \A e : e.op \in {"jump", "cond"} /\ (\E i \in DOMAIN code : code[i] = e) =>
          follow(e)' = follow(e) \/ (follow(e) = h /\ follow(e)' = goto(k))
  BY <1>2
<1> HIDE DEF n
<1>7. k \in 1 .. k /\ n = k - 1 /\ n \in Nat /\ k \in Nat /\ \A i \in 1 .. n : i \in 1 .. k
  BY <1>1, <1>2
<1>8. ASSUME NEW V, NEW i \in 1 .. n
      PROVE  \/ emitted(V)[i] = emitted(V)'[i]
             \/ emitted(V)'[i] = goto(k) /\ emitted(V)[i] = emitted(V)'[k]
  <2>1. PICK e : e = code[i]
    OBVIOUS
  <2>2. code'[i] = e /\ i \in 1 .. k
    BY <1>1, <1>7, <2>1
  <2>3. emitted(V)[i] = item_step(e, V) /\ emitted(V)'[i] = item_step(e, V)'
    BY <1>3, <1>4, <2>1, <2>2
  <2>4. e.op \in {"jump", "cond"} => follow(e)' = follow(e) \/ (follow(e) = h /\ follow(e)' = goto(k))
    BY <1>1, <1>6, <2>1
  <2>5. CASE e.op = "jump" \/ (e.op = "cond" /\ V[e.id] = e.sense)
    <3>1. item_step(e, V) = follow(e) /\ item_step(e, V)' = follow(e)'
      BY <2>5 DEF item_step
    <3> QED  BY <1>5, <2>3, <2>4, <2>5, <3>1
  <2>6. CASE e.op = "cond" /\ V[e.id] # e.sense
    <3>1. PICK o \in Nat : o = e.end /\ o < off
      BY <1>1, <2>1, <2>6
    <3>2. item_step(e, V) = goto_offset(o) /\ item_step(e, V)' = goto_offset(o)'
      BY <2>6, <3>1 DEF item_step
    <3> QED  BY <1>1, <2>3, <3>1, <3>2
  <2>7. CASE e.op \in {"inst", "ret", "trap"}
    <3>1. item_step(e, V)' = item_step(e, V)
      BY <2>7 DEF item_step
    <3> QED  BY <2>3, <3>1
  <2>8. e.op \in {"inst", "ret", "trap", "jump", "cond"}
    <3>1. e \in Item
      BY <1>1, <2>1
    <3> QED  BY <3>1 DEF Item
  <2> QED  BY <2>5, <2>6, <2>7, <2>8
<1>9. ASSUME NEW V, NEW s, NEW t, IsStep(s, k), IsStep(t, n), t = s \/ (s = goto(k) /\ t = h)
      PROVE  ends(emitted(V)', s) = ends(emitted(V), t)
  <2>1. /\ IsNext(emitted(V)', k) /\ IsNext(emitted(V), n) /\ emitted(V)'[k] # goto(k)
    BY <1>3, <1>4, <1>5
  <2>2. t = s \/ (s = goto(k) /\ t = emitted(V)'[k])
    BY <1>5, <1>9
  <2> QED  BY <1>7, <1>8, <1>9, <2>1, <2>2, Shortcut
<1>10. ASSUME NEW V, NEW o \in Nat, o < off
       PROVE  ends(emitted(V)', goto_offset(o)') = ends(emitted(V), goto_offset(o))
  <2>1. goto_offset(o)' = goto_offset(o) /\ IsStep(goto_offset(o), n) /\ IsStep(goto_offset(o)', k)
    BY <1>1, <1>3, <1>4, <1>10
  <2> QED  BY <1>9, <2>1
<1>11. ASSUME NEW V, NEW x \in allocated
       PROVE  ends(emitted(V)', goto_bound(x)') = ends(emitted(V), goto_bound(x))
  <2>1. IsStep(goto_bound(x), n) /\ IsStep(goto_bound(x)', k)
    BY <1>3, <1>4
  <2> QED  BY <1>5, <1>9, <2>1
<1>12. \A V : ends(emitted(V)', goto_offset(0)') = ends(emitted(V), goto_offset(0))
  BY <1>1, <1>10
<1>13. \A i \in DOMAIN code : code[i].op = "inst" =>
              /\ i \in DOMAIN code' /\ code'[i] = code[i]
              /\ \A V \in [Nat -> BOOLEAN] : \A o : o = code[i].end =>
                    ends(emitted(V)', goto_offset(o)') = ends(emitted(V), goto_offset(o))
  BY <1>1, <1>10
<1> QED  BY <1>11, <1>12, <1>13, EditOInv

\* A label use is sent to a veneer, which takes over the label.
LEMMA VeneerInv ==
    ASSUME IInv, TargetsAllocated, CInv, OInv, IInv', NEW f, Handles(f), veneer_required(f)
    PROVE  CInv' /\ OInv'
<1> DEFINE n == Len(code)
<1>1. PICK t : t = AlignUp(off, Align)
  OBVIOUS
<1>2. PICK u : u = t + VeneerFixupDelta[f.kind][t % 4]
  OBVIOUS
<1>3. /\ f \in outstanding /\ handled(f) /\ UsesApart'
      /\ latest_branches = <<>> /\ pc' = pc /\ pc \in {"island_pending", "island_heap"}
      /\ UNCHANGED <<nlabels, label_offsets, label_aliases, pending_traps, latest_branches, program>>
      /\ off \in Nat /\ t \in Nat /\ t >= off
      /\ off' \in Nat /\ u \in Nat /\ t <= u /\ u < off'
  BY <1>1, <1>2, HandledFacts
<1>4. PICK g : g.label = f.label /\ g.offset = u /\ outstanding' = (outstanding \ {f}) \cup {g}
  BY <1>1, <1>2, HandledFacts
<1>5. PICK c : c = item("jump", 0, t, off', u)
  OBVIOUS
<1>6. /\ c \in Item /\ c.op = "jump" /\ c.start = t /\ c.end = off' /\ c.use = u
  BY <1>3, <1>5 DEF item, Item
<1>7. /\ code' = Append(code, c)
      /\ patched' = [o \in DOMAIN patched \cup {f.offset} |-> IF o = f.offset THEN t ELSE patched[o]]
  BY <1>1, <1>2, <1>3, <1>5 DEF handled
<1>8. Extends(c)
  BY <1>3, <1>6, <1>7 DEF Extends
<1>9. /\ CodeInv' /\ n \in Nat /\ code \in Seq(Item) /\ code' \in Seq(Item)
      /\ DOMAIN code = 1 .. n /\ DOMAIN code' = 1 .. (n + 1) /\ Len(code') = n + 1
      /\ code'[n + 1] = c
      /\ \A i \in 1 .. n : /\ i \in 1 .. (n + 1) /\ code'[i] = code[i]
                           /\ code[i].op \in {"inst", "cond"} => code[i].end \in Nat /\ code[i].end < off
                           /\ code[i].use \in Nat
                           /\ code[i].op \in {"jump", "cond"} => code[i].use < off
      /\ 0 < off /\ off < off'
      /\ \A o \in Nat : o < off => goto_offset(o)' = goto_offset(o)
      /\ \A o : o = c.start => goto_offset(o)' = goto(n + 1)
  BY <1>8, ExtendOffsets
<1> HIDE DEF n
<1>10. f.label \in Label /\ f.label \in allocated /\ f.offset \in Nat /\ f.offset < off
  BY <1>3, UseOffsets DEF UsesInBuffer, CInv, UseInv
<1>11. ASSUME NEW l \in allocated PROVE goto_bound(l)' = goto_bound(l)
  <2>1. l \in Label
    BY AllocatedLabels
  <2>2. PICK r : r = root[l]
    OBVIOUS
  <2>3. r = root'[l] /\ r \in live
    BY <1>3, <2>1, <2>2, RootKept, RootFacts DEF IInv
  <2>4. goto_bound(l) = bound_step(r) /\ goto_bound(l)' = bound_step(r)'
    BY <2>1, <2>2, <2>3, Bounds, Bounds1 DEF BoundSteps
  <2>5. PICK o : o = label_offsets[r]
    OBVIOUS
  <2>6. label_offsets'[r] = o /\ unbound(r)' = unbound(r)
    BY <1>3, <2>5 DEF unbound, trap_labels
  <2>7. o # UNKNOWN_LABEL_OFFSET => o \in Nat /\ o < off
    <3>1. o # UNKNOWN_LABEL_OFFSET => o \in Nat /\ o <= off
      BY <2>1, <2>2, <2>5, Bounds DEF BoundSteps
    <3>2. o # off
      BY <1>3, <2>3, <2>5 DEF CInv, TailClosed
    <3> QED  BY <1>3, <3>1, <3>2
  <2>8. bound_step(r)' = bound_step(r)
    BY <1>9, <2>5, <2>6, <2>7 DEF bound_step
  <2> QED  BY <2>4, <2>8
<1>12. PICK h : h = goto_bound(f.label)
  OBVIOUS
<1>13. IsStep(h, n)
  BY <1>9, <1>12, Emitted DEF EmittedTable, n
<1>14. /\ uses_of(c)' = {g} /\ follow(c)' = h
  <2>1. g \in outstanding' /\ g.offset = c.use
    BY <1>4, <1>6
  <2>2. uses_of(c)' = {g}
    BY <1>3, <2>1, OneUseFacts1 DEF OneUse
  <2>3. (CHOOSE x \in uses_of(c)' : TRUE) = g
    BY <2>2
  <2>4. follow(c)' = goto_bound(g.label)'
    BY <2>2, <2>3 DEF follow
  <2> QED  BY <1>4, <1>10, <1>11, <1>12, <2>2, <2>4
<1>15. \A V : \A k : k = n + 1 => emitted(V)'[k] = h
  <2> SUFFICES ASSUME NEW V, NEW k, k = n + 1 PROVE emitted(V)'[k] = h
    OBVIOUS
  <2>1. k \in 1 .. Len(code') /\ code'[k] = c
    BY <1>9
  <2>2. emitted(V)'[k] = item_step(code[k], V)'
    BY <1>9, <2>1, Tables1 DEF EmittedTable
  <2>3. emitted(V)'[k] = item_step(c, V)'
    BY <2>1, <2>2
  <2>4. item_step(c, V)' = follow(c)'
    BY <1>6 DEF item_step
  <2> QED  BY <1>14, <2>3, <2>4
<1>16. OneUse
  BY OneUseFacts
<1>17. ASSUME NEW e, e.use \in Nat, e.use < off
       PROVE  uses_of(e)' = IF e.use = f.offset THEN {} ELSE uses_of(e)
  <2>1. e.use = f.offset => uses_of(e) = {f}
    BY <1>3, <1>16 DEF OneUse, CInv
  <2>2. g.offset # e.use
    BY <1>3, <1>4, <1>17
  <2>3. uses_of(e)' = uses_of(e) \ {f}
    BY <1>4, <2>2 DEF uses_of
  <2>4. e.use # f.offset => f \notin uses_of(e)
    BY DEF uses_of
  <2> QED  BY <2>1, <2>3, <2>4
<1>18. ASSUME NEW e, e.use \in Nat, e.use < off, uses_of(e) # {} \/ e.use \in DOMAIN patched
       PROVE  /\ follow(e)' = follow(e) \/ (follow(e) = h /\ follow(e)' = goto(n + 1))
              /\ uses_of(e)' # {} \/ e.use \in DOMAIN patched'
  <2>1. CASE e.use = f.offset
    <3>1. uses_of(e) = {f} /\ uses_of(e)' = {}
      BY <1>3, <1>16, <1>17, <1>18, <2>1 DEF OneUse, CInv
    <3>2. (CHOOSE x \in uses_of(e) : TRUE) = f
      BY <3>1
    <3>3. follow(e) = h
      BY <1>12, <3>1, <3>2 DEF follow
    <3>4. patched'[e.use] = t /\ e.use \in DOMAIN patched'
      BY <1>7, <2>1
    <3>5. follow(e)' = goto_offset(t)'
      BY <3>1, <3>4 DEF follow
    <3> QED  BY <1>6, <1>9, <3>3, <3>4, <3>5
  <2>2. CASE e.use # f.offset
    <3>1. uses_of(e)' = uses_of(e)
      BY <1>17, <1>18, <2>2
    <3>2. CASE uses_of(e) = {}
      <4>1. PICK o : o = patched[e.use]
        OBVIOUS
      <4>2. patched'[e.use] = o /\ e.use \in DOMAIN patched'
        BY <1>7, <1>18, <2>2, <3>2, <4>1
      <4>3. o \in Nat /\ o < off
        BY <1>18, <3>2, <4>1 DEF CInv, UseInv
      <4>4. follow(e) = goto_offset(o) /\ follow(e)' = goto_offset(o)'
        BY <3>1, <3>2, <4>1, <4>2 DEF follow
      <4> QED  BY <1>9, <4>2, <4>3, <4>4
    <3>3. CASE uses_of(e) # {}
      <4>1. PICK l : l = (CHOOSE x \in uses_of(e) : TRUE).label
        OBVIOUS
      <4>2. l \in allocated
        BY <3>3, <4>1 DEF uses_of, CInv, UseInv
      <4>3. follow(e) = goto_bound(l) /\ follow(e)' = goto_bound(l)'
        BY <3>1, <3>3, <4>1 DEF follow
      <4> QED  BY <1>11, <3>1, <3>3, <4>2, <4>3
    <3> QED  BY <3>2, <3>3
  <2> QED  BY <2>1, <2>2
<1>19. \A e : /\ e.op \in {"jump", "cond"} /\ (\E i \in DOMAIN code : code[i] = e)
              => /\ e.use \in Nat /\ e.use < off
                 /\ uses_of(e) # {} \/ e.use \in DOMAIN patched
  BY <1>9 DEF CInv, UseInv
<1>20. OInv'
  <2>1. IsStep(h, Len(code)) /\ \A V : \A k : k = Len(code) + 1 => emitted(V)'[k] = h
    BY <1>13, <1>15 DEF n
  <2>2. \A e : /\ e.op \in {"jump", "cond"} /\ \E i \in DOMAIN code : code[i] = e
               => \/ follow(e)' = follow(e)
                  \/ follow(e) = h /\ follow(e)' = goto(Len(code) + 1)
    BY <1>18, <1>19 DEF n
  <2>3. UNCHANGED <<program, nlabels>>
    BY <1>3
  <2> QED  BY <1>8, <1>11, <2>1, <2>2, <2>3, ExtendOInv
<1>21. UseInv'
  <2>1. \A x \in outstanding' : x.label \in allocated'
    BY <1>3, <1>4, <1>10 DEF CInv, UseInv, allocated
  <2>2. \A i \in DOMAIN code' : code'[i].op \in {"jump", "cond"} =>
          uses_of(code[i])' # {} \/ code'[i].use \in DOMAIN patched'
    <3> SUFFICES ASSUME NEW i \in 1 .. (n + 1), code'[i].op \in {"jump", "cond"}
                 PROVE  uses_of(code[i])' # {} \/ code'[i].use \in DOMAIN patched'
      BY <1>9
    <3>1. PICK e : e = code'[i]
      OBVIOUS
    <3>2. uses_of(code[i])' = uses_of(e)'
      BY <3>1
    <3>3. CASE i = n + 1
      <4>1. e = c
        BY <1>9, <3>1, <3>3
      <4> QED  BY <1>14, <3>2, <4>1
    <3>4. CASE i \in 1 .. n
      <4>1. e = code[i] /\ i \in DOMAIN code
        BY <1>9, <3>1, <3>4
      <4>2. uses_of(e)' # {} \/ e.use \in DOMAIN patched'
        BY <1>18, <1>19, <3>1, <4>1
      <4> QED  BY <3>1, <3>2, <4>2
    <3>5. i = n + 1 \/ i \in 1 .. n
      BY <1>9
    <3> QED  BY <3>3, <3>4, <3>5
  <2>3. \A o \in DOMAIN patched' :
          /\ patched'[o] \in Nat /\ patched'[o] < off'
          /\ \A k \in DOMAIN latest_branches' : patched'[o] < latest_branches'[k].start
    <3>1. \A o \in DOMAIN patched : patched[o] \in Nat /\ patched[o] < off
      BY DEF CInv, UseInv
    <3>2. t \in Nat /\ t < off'
      BY <1>3
    <3>3. \A x \in Nat : x < off => x < off'
      BY <1>3, <1>9
    <3>4. latest_branches' = <<>>
      BY <1>3
    <3> QED  BY <1>7, <3>1, <3>2, <3>3, <3>4
  <2> QED  BY <2>1, <2>2, <2>3 DEF UseInv
<1>22. BranchItems'
  BY <1>3 DEF BranchItems
<1>23. LineInv'
  BY <1>3 DEF CInv, LineInv, allocated, line_of, trap_labels
<1>24. TailClosed'
  <2>1. code' # <<>>
    BY <1>9
  <2>2. \A i \in DOMAIN code' : code'[i].op \in {"inst", "cond"} => code'[i].end < off'
    <3> SUFFICES ASSUME NEW i \in 1 .. (n + 1), code'[i].op \in {"inst", "cond"}
                 PROVE  code'[i].end < off'
      BY <1>9
    <3>1. i # n + 1
      BY <1>6, <1>9
    <3>2. i \in 1 .. n
      BY <1>9, <3>1
    <3>3. code'[i] = code[i] /\ code[i].end \in Nat /\ code[i].end < off
      BY <1>9, <3>2
    <3> QED  BY <1>3, <1>9, <3>3
  <2>3. \A l \in live' : label_offsets'[l] # off'
    <3>1. \A l \in live : l \in Label /\ label_offsets[l] <= off
      BY DEF IInv, NoLabelPastTail, live
    <3>2. \A l \in Label : label_offsets[l] \in Offset
      BY DEF IInv, TypeOK
    <3>3. \A l \in live : label_offsets[l] # off'
      BY <1>3, <1>9, <3>1, <3>2 DEF Offset, UNKNOWN_LABEL_OFFSET
    <3> QED  BY <1>3, <3>3 DEF live
  <2> QED  BY <2>1, <2>2, <2>3 DEF TailClosed
<1> QED  BY <1>3, <1>9, <1>20, <1>21, <1>22, <1>23, <1>24 DEF CInv

\* A deferred trap is emitted where its label is bound.
LEMMA IslandTrapInv ==
    ASSUME IInv, TargetsAllocated, CInv, OInv, IInv', SemIslandTrap
    PROVE  CInv' /\ OInv'
<1> DEFINE n == Len(code)
<1>1. PICK t : t = AlignUp(off, Align)
  OBVIOUS
<1>2. PICK l : l = Head(pending_traps)
  OBVIOUS
<1>3. /\ pc = "island_traps" /\ pc' = pc /\ pending_traps # <<>> /\ pending_traps' = Tail(pending_traps)
      /\ label_offsets' = [label_offsets EXCEPT ![l] = t] /\ off' = t + TrapSize
      /\ UNCHANGED <<nlabels, label_aliases, latest_branches, pending_fixup_records, fixup_records,
                     taken, patched, program>>
  BY <1>1, <1>2 DEF SemIslandTrap, IslandTrap, bind, islandVars
<1>4. /\ off \in Nat /\ t \in Nat /\ t >= off /\ off' \in Nat /\ t < off' /\ t # UNKNOWN_LABEL_OFFSET
  <2>1. off \in Nat
    BY DEF IInv, TypeOK
  <2>2. t \in Nat /\ t >= off
    BY <1>1, <2>1, AlignUpNat, SizesAssumption
  <2>3. TrapSize \in Nat /\ TrapSize > 0
    BY SizesAssumption
  <2> QED  BY <1>3, <2>1, <2>2, <2>3 DEF UNKNOWN_LABEL_OFFSET
<1>5. /\ 1 \in DOMAIN pending_traps /\ l = pending_traps[1] /\ l \in Label
      /\ \A i \in DOMAIN Tail(pending_traps) : /\ i + 1 \in DOMAIN pending_traps
                                               /\ Tail(pending_traps)[i] = pending_traps[i + 1]
      /\ \A i \in DOMAIN pending_traps : i # 1 =>
            i - 1 \in DOMAIN Tail(pending_traps) /\ Tail(pending_traps)[i - 1] = pending_traps[i]
  <2>1. pending_traps \in Seq(Label) /\ pending_traps # <<>>
    BY <1>3 DEF IInv, TypeOK
  <2>2. \A i \in DOMAIN pending_traps : i # 1 =>
            i - 1 \in DOMAIN Tail(pending_traps) /\ Tail(pending_traps)[i - 1] = pending_traps[i]
    BY <2>1
  <2> QED  BY <1>2, <2>1, <2>2, HeadTail
<1>6. l \in live /\ label_offsets[l] = UNKNOWN_LABEL_OFFSET /\ l \in trap_labels
  BY <1>5 DEF IInv, DeferredUnbound, unbound_label, CInv, LineInv
<1>7. /\ label_offsets'[l] = t
      /\ \A x \in Label : x # l => label_offsets'[x] = label_offsets[x]
  <2>1. label_offsets \in [Label -> Offset]
    BY DEF IInv, TypeOK
  <2> QED  BY <1>3, <1>5, <2>1
<1>8. PICK c : c = item("trap", l, t, off', off)
  OBVIOUS
<1>9. /\ c \in Item /\ c.op = "trap" /\ c.id = l /\ c.start = t /\ c.end = off' /\ c.use = off
  <2>1. l \in Nat
    BY <1>5 DEF Label
  <2> QED  BY <1>4, <1>8, <2>1 DEF item, Item
<1>10. code' = Append(code, c)
  BY <1>1, <1>2, <1>8 DEF SemIslandTrap
<1>11. Extends(c)
  BY <1>3, <1>4, <1>9, <1>10 DEF Extends
<1>12. /\ CodeInv' /\ n \in Nat /\ code \in Seq(Item) /\ code' \in Seq(Item)
       /\ DOMAIN code = 1 .. n /\ DOMAIN code' = 1 .. (n + 1) /\ Len(code') = n + 1
       /\ code'[n + 1] = c
       /\ \A i \in 1 .. n : /\ i \in 1 .. (n + 1) /\ code'[i] = code[i]
                            /\ code[i].op \in {"inst", "cond"} => code[i].end \in Nat /\ code[i].end < off
                            /\ code[i].use \in Nat
                            /\ code[i].op \in {"jump", "cond"} => code[i].use < off
       /\ 0 < off /\ off < off'
       /\ \A o \in Nat : o < off => goto_offset(o)' = goto_offset(o)
       /\ \A o : o = c.start => goto_offset(o)' = goto(n + 1)
  BY <1>11, ExtendOffsets
<1> HIDE DEF n
<1>27. /\ \A o \in Nat : o < off => goto_offset(o)' = goto_offset(o)
       /\ \A o : o = t => goto_offset(o)' = goto(n + 1)
  <2>1. \A o \in Nat : o < off => goto_offset(o)' = goto_offset(o)
    BY <1>12
  <2>2. \A o : o = c.start => goto_offset(o)' = goto(n + 1)
    BY <1>12
  <2>3. c.start = t
    BY <1>9
  <2> QED  BY <2>1, <2>2, <2>3
<1>13. PICK h : h = step("trap", l)
  OBVIOUS
<1>14. IsStep(h, n)
  BY <1>13 DEF IsStep, step
<1>15. \A x : unbound(x)' = unbound(x)
  BY <1>3 DEF unbound, trap_labels
<1>16. ASSUME NEW x \in allocated
       PROVE  goto_bound(x)' = goto_bound(x) \/ (goto_bound(x) = h /\ goto_bound(x)' = goto(n + 1))
  <2>1. x \in Label
    BY AllocatedLabels
  <2>2. PICK r : r = root[x]
    OBVIOUS
  <2>3. r = root'[x] /\ r \in live /\ r \in Label
    BY <1>3, <2>1, <2>2, RootKept, RootFacts DEF IInv
  <2>4. goto_bound(x) = bound_step(r) /\ goto_bound(x)' = bound_step(r)'
    BY <2>1, <2>2, <2>3, Bounds, Bounds1 DEF BoundSteps
  <2>5. PICK o : o = label_offsets'[r]
    OBVIOUS
  <2>6. CASE r = l
    <3>1. bound_step(r) = h
      BY <1>6, <1>13, <2>6 DEF bound_step, unbound
    <3>2. o = t /\ o # UNKNOWN_LABEL_OFFSET
      BY <1>4, <1>7, <2>5, <2>6
    <3>3. bound_step(r)' = goto_offset(o)'
      BY <2>5, <3>2 DEF bound_step
    <3> QED  BY <1>27, <2>4, <3>1, <3>2, <3>3
  <2>7. CASE r # l
    <3>1. label_offsets[r] = o
      BY <1>7, <2>3, <2>5, <2>7
    <3>2. o # UNKNOWN_LABEL_OFFSET => o \in Nat /\ o < off
      <4>1. o # UNKNOWN_LABEL_OFFSET => o \in Nat /\ o <= off
        BY <2>1, <2>2, <3>1, Bounds DEF BoundSteps
      <4>2. o # off
        BY <1>3, <2>3, <3>1 DEF CInv, TailClosed
      <4> QED  BY <1>4, <4>1, <4>2
    <3>3. bound_step(r)' = bound_step(r)
      BY <1>15, <1>27, <2>5, <3>1, <3>2 DEF bound_step
    <3> QED  BY <2>4, <3>3
  <2> QED  BY <2>6, <2>7
<1>17. \A V : \A k : k = n + 1 => emitted(V)'[k] = h
  <2> SUFFICES ASSUME NEW V, NEW k, k = n + 1 PROVE emitted(V)'[k] = h
    OBVIOUS
  <2>1. k \in 1 .. Len(code') /\ code'[k] = c
    BY <1>12
  <2>2. emitted(V)'[k] = item_step(code[k], V)'
    BY <1>12, <2>1, Tables1 DEF EmittedTable
  <2>3. emitted(V)'[k] = item_step(c, V)'
    BY <2>1, <2>2
  <2>4. item_step(c, V)' = step("trap", l)
    BY <1>9 DEF item_step
  <2> QED  BY <1>13, <2>3, <2>4
<1>18. outstanding' = outstanding /\ \A e : uses_of(e)' = uses_of(e)
  <2>1. outstanding' = outstanding
    BY <1>3 DEF outstanding
  <2> QED  BY <2>1 DEF uses_of
<1>19. ASSUME NEW e, uses_of(e) # {} \/ e.use \in DOMAIN patched
       PROVE  follow(e)' = follow(e) \/ (follow(e) = h /\ follow(e)' = goto(n + 1))
  <2>1. uses_of(e)' = uses_of(e)
    BY <1>18
  <2>2. CASE uses_of(e) = {}
    <3>1. PICK o : o = patched[e.use]
      OBVIOUS
    <3>2. patched'[e.use] = o /\ o \in Nat /\ o < off
      BY <1>3, <1>19, <2>2, <3>1 DEF CInv, UseInv
    <3>3. follow(e) = goto_offset(o) /\ follow(e)' = goto_offset(o)'
      BY <2>1, <2>2, <3>1, <3>2 DEF follow
    <3> QED  BY <1>27, <3>2, <3>3
  <2>3. CASE uses_of(e) # {}
    <3>1. PICK x : x = (CHOOSE y \in uses_of(e) : TRUE).label
      OBVIOUS
    <3>2. x \in allocated
      BY <2>3, <3>1 DEF uses_of, CInv, UseInv
    <3>3. follow(e) = goto_bound(x) /\ follow(e)' = goto_bound(x)'
      BY <2>1, <2>3, <3>1 DEF follow
    <3> QED  BY <1>16, <3>2, <3>3
  <2> QED  BY <2>2, <2>3
<1>20. \A e : /\ e.op \in {"jump", "cond"} /\ (\E i \in DOMAIN code : code[i] = e)
              => uses_of(e) # {} \/ e.use \in DOMAIN patched
  BY DEF CInv, UseInv
<1>21. OInv'
  <2>1. IsStep(h, Len(code)) /\ \A V : \A k : k = Len(code) + 1 => emitted(V)'[k] = h
    BY <1>14, <1>17 DEF n
  <2>2. \A e : /\ e.op \in {"jump", "cond"} /\ \E i \in DOMAIN code : code[i] = e
               => \/ follow(e)' = follow(e)
                  \/ follow(e) = h /\ follow(e)' = goto(Len(code) + 1)
    BY <1>19, <1>20 DEF n
  <2>3. \A x \in allocated : \/ goto_bound(x)' = goto_bound(x)
                             \/ goto_bound(x) = h /\ goto_bound(x)' = goto(Len(code) + 1)
    BY <1>16 DEF n
  <2>4. UNCHANGED <<program, nlabels>>
    BY <1>3
  <2> QED  BY <1>11, <2>1, <2>2, <2>3, <2>4, ExtendOInv
<1>22. UseInv'
  <2>1. \A x \in outstanding' : x.label \in allocated'
    BY <1>3, <1>18 DEF CInv, UseInv, allocated
  <2>2. \A i \in DOMAIN code' : code'[i].op \in {"jump", "cond"} =>
          uses_of(code[i])' # {} \/ code'[i].use \in DOMAIN patched'
    <3> SUFFICES ASSUME NEW i \in 1 .. (n + 1), code'[i].op \in {"jump", "cond"}
                 PROVE  uses_of(code[i])' # {} \/ code'[i].use \in DOMAIN patched'
      BY <1>12
    <3>1. PICK e : e = code'[i]
      OBVIOUS
    <3>2. uses_of(code[i])' = uses_of(e)'
      BY <3>1
    <3>3. i # n + 1
      BY <1>9, <1>12
    <3>4. i \in 1 .. n
      BY <1>12, <3>3
    <3>5. e = code[i] /\ i \in DOMAIN code
      BY <1>12, <3>1, <3>4
    <3>6. uses_of(e)' # {} \/ e.use \in DOMAIN patched'
      BY <1>3, <1>18, <1>20, <3>1, <3>5
    <3> QED  BY <3>1, <3>2, <3>6
  <2>3. \A o \in DOMAIN patched' :
          /\ patched'[o] \in Nat /\ patched'[o] < off'
          /\ \A k \in DOMAIN latest_branches' : patched'[o] < latest_branches'[k].start
    <3>1. \A o \in DOMAIN patched :
             /\ patched[o] \in Nat /\ patched[o] < off
             /\ \A k \in DOMAIN latest_branches : patched[o] < latest_branches[k].start
      BY DEF CInv, UseInv
    <3>2. \A x \in Nat : x < off => x < off'
      BY <1>4, <1>12
    <3> QED  BY <1>3, <3>1, <3>2
  <2> QED  BY <2>1, <2>2, <2>3 DEF UseInv
<1>23. UsesApart'
  BY <1>3 DEF CInv, UsesApart
<1>24. BranchItems'
  <2>1. latest_branches' = <<>>
    BY <1>3 DEF IInv, IslandPhases
  <2> QED  BY <2>1 DEF BranchItems
<1>25. LineInv'
  <2>1. /\ program' \in Seq(Line) /\ allocated' = allocated /\ trap_labels' = trap_labels
        /\ \A i \in DOMAIN program' :
              program'[i].op \in {"jump", "cond", "label", "trap"} => program'[i].label \in allocated'
        /\ \A x : line_of(x)' = line_of(x)
    BY <1>3 DEF CInv, LineInv, allocated, trap_labels, line_of
  <2>2. \A x \in Label : label_offsets'[x] = UNKNOWN_LABEL_OFFSET =>
           x # l /\ label_offsets[x] = UNKNOWN_LABEL_OFFSET
    BY <1>4, <1>7
  <2>3. \A x \in Label : label_offsets'[x] = UNKNOWN_LABEL_OFFSET => line_of(x)' = {}
    BY <2>1, <2>2 DEF CInv, LineInv
  <2>4. \A i \in DOMAIN pending_traps' : pending_traps'[i] \in trap_labels'
    BY <1>3, <1>5, <2>1 DEF CInv, LineInv
  <2>5. ASSUME NEW x \in trap_labels', label_offsets'[x] = UNKNOWN_LABEL_OFFSET
        PROVE  \E i \in DOMAIN pending_traps' : pending_traps'[i] = x
    <3>1. x \in Label
      <4>1. PICK i \in DOMAIN program : program[i].op = "trap" /\ program[i].label = x
        BY <2>1, <2>5 DEF trap_labels
      <4>2. x \in allocated
        BY <4>1 DEF CInv, LineInv
      <4> QED  BY <4>2, AllocatedLabels
    <3>2. x # l /\ label_offsets[x] = UNKNOWN_LABEL_OFFSET
      BY <2>2, <2>5, <3>1
    <3>3. PICK i \in DOMAIN pending_traps : pending_traps[i] = x
      BY <2>1, <2>5, <3>2 DEF CInv, LineInv
    <3>4. i # 1
      BY <1>5, <3>2, <3>3
    <3> QED  BY <1>3, <1>5, <3>3, <3>4
  <2> QED  BY <2>1, <2>3, <2>4, <2>5 DEF LineInv
<1>26. TailClosed'
  <2>1. code' # <<>>
    BY <1>12
  <2>2. \A i \in DOMAIN code' : code'[i].op \in {"inst", "cond"} => code'[i].end < off'
    <3> SUFFICES ASSUME NEW i \in 1 .. (n + 1), code'[i].op \in {"inst", "cond"}
                 PROVE  code'[i].end < off'
      BY <1>12
    <3>1. i # n + 1
      BY <1>9, <1>12
    <3>2. i \in 1 .. n
      BY <1>12, <3>1
    <3>3. code'[i] = code[i] /\ code[i].end \in Nat /\ code[i].end < off
      BY <1>12, <3>2
    <3> QED  BY <1>4, <1>12, <3>3
  <2>3. \A x \in live' : label_offsets'[x] # off'
    <3> SUFFICES ASSUME NEW x \in live' PROVE label_offsets'[x] # off'
      OBVIOUS
    <3>1. x \in live /\ x \in Label
      BY <1>3 DEF live
    <3>2. label_offsets[x] <= off /\ label_offsets[x] \in Offset
      BY <3>1 DEF IInv, NoLabelPastTail, TypeOK
    <3>3. x # l => label_offsets'[x] = label_offsets[x]
      BY <1>7, <3>1
    <3>4. x = l => label_offsets'[x] = t
      BY <1>7
    <3> QED  BY <1>4, <1>12, <3>2, <3>3, <3>4 DEF Offset, UNKNOWN_LABEL_OFFSET
  <2> QED  BY <2>1, <2>2, <2>3 DEF TailClosed
<1> QED  BY <1>12, <1>21, <1>22, <1>23, <1>24, <1>25, <1>26 DEF CInv

(***************************************************************************)
(* Every step.                                                             *)
(***************************************************************************)

\* The client calls and steps with code in them, apart from those that
\* QuietInv takes together.
SemClient ==
    \/ \E op \in {"inst", "ret"}, n \in Sizes : SemPut(op, n)
    \/ \E l \in Label, k \in ClientKind, n \in Sizes :
          SemJump(l, k, n) \/ \E known \in BOOLEAN : SemCond(l, k, n, known)
SemPatch ==
    \/ SemPending
    \/ \E f \in fixup_records : SemHeap(f)

\* The steps of the buffer with code, in groups: one lemma each.
LEMMA SemCases ==
    ASSUME SemNext
    PROVE  \/ SemClient \/ SemTrap \/ (\E l \in Label : SemBind(l))
           \/ SemTruncate \/ SemInvert
           \/ OptRedirect /\ UNCHANGED <<code, patched, program>>
           \/ SemQuiet \/ SemPatch \/ SemIslandTrap
           \/ UNCHANGED semVars
<1>1. \A l : reported(l) \subseteq BOOLEAN
  BY KnownAssumption DEF reported
<1>2. ASSUME \/ \E op \in {"inst", "ret"}, n \in Sizes : SemPut(op, n)
             \/ \E l \in Label, k \in ClientKind, n \in Sizes :
                   SemJump(l, k, n) \/ \E known \in reported(l) : SemCond(l, k, n, known)
      PROVE  SemClient
  BY <1>1, <1>2, Zenon DEF SemClient
<1>3. SemInternal => \/ SemTruncate \/ SemInvert
                     \/ OptRedirect /\ UNCHANGED <<code, patched, program>>
                     \/ SemQuiet \/ SemPatch \/ SemIslandTrap
  BY Zenon DEF SemInternal, SemOther, SemQuiet, SemPatch
<1> QED  BY <1>2, <1>3, Zenon DEF SemNext, SemQuiet

\* With the code left out, every step is one of the buffer's.
LEMMA SemImplements == [SemNext]_semVars => [Next]_vars
<1> SUFFICES ASSUME SemNext, ~UNCHANGED semVars PROVE Next
  BY DEF semVars
<1>1. CASE SemClient
  <2>1. ASSUME NEW op \in {"inst", "ret"}, NEW n \in Sizes, SemPut(op, n) PROVE ClientCall
    BY <2>1, Zenon DEF SemPut, ClientCall
  <2>2. ASSUME NEW l \in Label, NEW k \in ClientKind, NEW n \in Sizes, SemJump(l, k, n) PROVE ClientCall
    BY <2>2, Zenon DEF SemJump, ClientCall
  <2>3. ASSUME NEW l \in Label, NEW k \in ClientKind, NEW n \in Sizes, NEW known \in BOOLEAN,
               SemCond(l, k, n, known)
        PROVE  ClientCall
    <3>1. add_cond_branch(l, k, n) \/ UseLabel(l, k, n)
      BY <2>3 DEF SemCond
    <3> QED  BY <3>1, Zenon DEF ClientCall
  <2> QED  BY <1>1, <2>1, <2>2, <2>3, Zenon DEF SemClient, Next
<1>2. CASE SemTrap
  BY <1>2, Zenon DEF SemTrap, ClientCall, Next
<1>3. ASSUME NEW l \in Label, SemBind(l) PROVE Next
  BY <1>3, Zenon DEF SemBind, ClientCall, Next
<1>4. CASE SemTruncate \/ SemInvert \/ OptRedirect
  BY <1>4, Zenon DEF SemTruncate, SemInvert, OptStep, Internal, Next
<1>5. CASE SemQuiet
  <2>1. ASSUME NEW d \in Distances, NEW force \in Forces, SemIsland(d, force) PROVE ClientCall
    BY <2>1, Zenon DEF SemIsland, ClientCall
  <2>2. ASSUME NEW force \in Forces, SemFinish(force) PROVE ClientCall
    BY <2>2, Zenon DEF SemFinish, ClientCall
  <2>3. ASSUME OptDone \/ IslandPendingDone \/ IslandHeapDone \/ IslandDone \/ FinishStep PROVE Internal
    BY <2>3, Zenon DEF Internal, OptStep, IslandStep
  <2> QED  BY <1>5, <2>1, <2>2, <2>3, Zenon DEF SemQuiet, Next
<1>6. CASE SemPatch
  <2>1. SemPending => IslandStep
    BY Zenon DEF SemPending, IslandStep
  <2>2. ASSUME NEW f \in fixup_records, SemHeap(f) PROVE IslandStep
    BY <2>2, Zenon DEF SemHeap, IslandStep
  <2> QED  BY <1>6, <2>1, <2>2, Zenon DEF SemPatch, Internal, Next
<1>7. CASE SemIslandTrap
  BY <1>7, Zenon DEF SemIslandTrap, IslandStep, Internal, Next
<1> QED  BY <1>1, <1>2, <1>3, <1>4, <1>5, <1>6, <1>7, SemCases, Zenon

\* A panicked buffer takes no step.
LEMMA PanicStays ==
    ASSUME SemNext, pc = "panic"
    PROVE  pc' = "panic"
<1>1. ~SemClient
  BY DEF SemClient, SemPut, Put, SemJump, SemCond, add_uncond_branch, add_cond_branch, AddBranch, UseLabel
<1>2. ~SemTrap /\ \A l \in Label : ~SemBind(l)
  BY DEF SemTrap, defer_trap, SemBind, BindLabel
<1>3. ~SemTruncate /\ ~SemInvert /\ ~OptRedirect
  BY DEF SemTruncate, SemInvert, OptTruncate, OptInvert, OptRedirect
<1>4. ~SemQuiet
  BY DEF SemQuiet, SemIsland, EmitIsland, SemFinish, Finish, OptDone, IslandPendingDone, IslandHeapDone,
         IslandDone, FinishStep, FinishIsland, FinishDone
<1>5. ~SemPatch /\ ~SemIslandTrap
  BY DEF SemPatch, SemPending, IslandPending, SemHeap, IslandHeap, SemIslandTrap, IslandTrap
<1>6. UNCHANGED semVars => pc' = pc
  BY DEF semVars, vars
<1> QED  BY <1>1, <1>2, <1>3, <1>4, <1>5, <1>6, SemCases, Zenon

\* Calls that add an item.
LEMMA ClientAdds ==
    ASSUME IInv, CInv, IInv', SemClient
    PROVE  \E p, c : Adds(p, c)
<1>1. ASSUME NEW op \in {"inst", "ret"}, NEW n \in Sizes, SemPut(op, n) PROVE \E p, c : Adds(p, c)
  BY <1>1, PutAdds
<1>2. ASSUME NEW l \in Label, NEW k \in ClientKind, NEW n \in Sizes, SemJump(l, k, n)
      PROVE  \E p, c : Adds(p, c)
  <2>1. /\ AddBranch(l, k, n, FALSE) /\ line("jump", l)
        /\ code' = Append(code, item("jump", id, off, off', off)) /\ UNCHANGED patched
    BY <1>2 DEF SemJump, add_uncond_branch
  <2>2. PICK op \in {"jump", "cond"} : op = "jump"
    OBVIOUS
  <2>3. ("jump" = "cond") = FALSE
    OBVIOUS
  <2>4. UseLabel(l, k, n) \/ AddBranch(l, k, n, op = "cond")
    BY <2>1, <2>2, <2>3
  <2>5. line(op, l) /\ code' = Append(code, item(op, id, off, off', off)) /\ UNCHANGED patched
    BY <2>1, <2>2
  <2> QED  BY <2>4, <2>5, BranchAdds
<1>3. ASSUME NEW l \in Label, NEW k \in ClientKind, NEW n \in Sizes, NEW known \in BOOLEAN,
             SemCond(l, k, n, known)
      PROVE  \E p, c : Adds(p, c)
  <2>1. /\ AddBranch(l, k, n, TRUE) \/ UseLabel(l, k, n)
        /\ line("cond", l)
        /\ code' = Append(code, item("cond", id, off, off', off)) /\ UNCHANGED patched
    BY <1>3 DEF SemCond, add_cond_branch
  <2>2. PICK op \in {"jump", "cond"} : op = "cond"
    OBVIOUS
  <2>3. (op = "cond") = TRUE
    BY <2>2
  <2>4. UseLabel(l, k, n) \/ AddBranch(l, k, n, op = "cond")
    BY <2>1, <2>3
  <2>5. line(op, l) /\ code' = Append(code, item(op, id, off, off', off)) /\ UNCHANGED patched
    BY <2>1, <2>2
  <2> QED  BY <2>4, <2>5, BranchAdds
<1> QED  BY <1>1, <1>2, <1>3, Zenon DEF SemClient

\* They keep the invariant.
LEMMA ClientInv ==
    ASSUME IInv, CInv, OInv, IInv', SemClient
    PROVE  CInv' /\ OInv'
BY ClientAdds, AddsOInv, AddsCInv

\* Fixups that an island patches, sends to a veneer or leaves for a later one.
LEMMA PatchInv ==
    ASSUME IInv, TargetsAllocated, CInv, OInv, IInv', SemPatch, pc' # "panic"
    PROVE  CInv' /\ OInv'
<1>1. ASSUME NEW f, Handles(f) PROVE CInv' /\ OInv'
  BY <1>1, PatchedInv, VeneerInv
<1>2. CASE SemPending
  <2>1. PICK f : f = Head(taken)
    OBVIOUS
  <2>2. IslandPending
    BY <1>2 DEF SemPending
  <2>3. CASE ~should_apply_fixup(Head(taken))
    <3>1. UNCHANGED <<code, patched, program>>
      BY <1>2, <2>3 DEF SemPending
    <3> QED  BY <2>2, <2>3, <3>1, LaterInv
  <2>4. CASE should_apply_fixup(Head(taken))
    <3>1. handle_fixup(Head(taken), pc)
      BY <2>2, <2>4 DEF IslandPending
    <3>2. asserts_hold(Head(taken))
      BY <3>1, Zenon DEF handle_fixup
    <3>3. Handles(f)
      BY <1>2, <2>1, <2>4, <3>2, Zenon DEF Handles
    <3> QED  BY <1>1, <3>3
  <2> QED  BY <2>3, <2>4
<1>3. ASSUME NEW f \in fixup_records, SemHeap(f) PROVE CInv' /\ OInv'
  <2>1. handle_fixup(f, pc)
    BY <1>3 DEF SemHeap, IslandHeap
  <2>2. asserts_hold(f)
    BY <2>1, Zenon DEF handle_fixup
  <2> QED  BY <1>1, <1>3, <2>2, Zenon DEF Handles
<1> QED  BY <1>2, <1>3, Zenon DEF SemPatch

\* A step that changes nothing.
LEMMA StutterInv ==
    ASSUME IInv, TargetsAllocated, CInv, OInv, IInv', UNCHANGED semVars
    PROVE  CInv' /\ OInv'
<1>1. Same /\ UNCHANGED <<program, nlabels, pending_traps, latest_branches, pc, off, code, label_offsets,
                          label_aliases, pending_fixup_records, taken, fixup_records>>
  BY DEF semVars, vars, labelVars, deferVars, islandVars, Same, outstanding
<1>2. UsesApart'
  BY <1>1 DEF CInv, UsesApart
<1>3. TailClosed'
  BY <1>1 DEF CInv, TailClosed, live
<1> QED  BY <1>1, <1>2, <1>3, QuietCInv, QuietOInv

\* The invariant is kept by every step.
LEMMA SemStep == SemInv /\ [SemNext]_semVars => SemInv'
<1> SUFFICES ASSUME SemInv, [SemNext]_semVars PROVE SemInv'
  OBVIOUS
<1>1. IInv /\ TargetsAllocated /\ IInv' /\ TargetsAllocated'
  BY SemImplements, NextIInv, NextTargets DEF SemInv
<1> SUFFICES ASSUME pc' # "panic" PROVE CInv' /\ OInv'
  BY <1>1 DEF SemInv
<1>2. pc # "panic"
  BY PanicStays DEF semVars, vars
<1>3. CInv /\ OInv
  BY <1>2 DEF SemInv
<1>4. SemClient => CInv' /\ OInv'
  BY <1>1, <1>3, ClientInv
<1>5. SemTrap => CInv' /\ OInv'
  BY <1>1, <1>3, TrapCInv, TrapOInv
<1>6. ASSUME NEW l \in Label, SemBind(l) PROVE CInv' /\ OInv'
  BY <1>1, <1>3, <1>6, BindCInv, BindOInv
<1>7. SemTruncate => CInv' /\ OInv'
  BY <1>1, <1>3, TruncateCInv, TruncateOInv
<1>8. SemInvert => CInv' /\ OInv'
  BY <1>1, <1>3, InvertCInv, InvertOInv
<1>9. OptRedirect /\ UNCHANGED <<code, patched, program>> => CInv' /\ OInv'
  BY <1>1, <1>3, RedirectCInv, RedirectOInv
<1>10. SemQuiet => CInv' /\ OInv'
  BY <1>1, <1>3, QuietInv
<1>11. SemPatch => CInv' /\ OInv'
  BY <1>1, <1>3, PatchInv
<1>12. SemIslandTrap => CInv' /\ OInv'
  BY <1>1, <1>3, IslandTrapInv
<1>13. UNCHANGED semVars => CInv' /\ OInv'
  BY <1>1, <1>3, StutterInv
<1> QED  BY <1>4, <1>5, <1>6, <1>7, <1>8, <1>9, <1>10, <1>11, <1>12, <1>13, SemCases, Zenon

(***************************************************************************)
(* The conditional items are conditional lines of the listing.             *)
(***************************************************************************)

CondItems == \A i \in DOMAIN code : code[i].op = "cond" => code[i].id \in conds
CondInv == pc # "panic" => CondItems

\* The listing only grows, and the items keep the line they come from.
LEMMA CondKept ==
    ASSUME CInv, CondItems,
           program' = program \/ \E p : program' = Append(program, p),
           \A i \in DOMAIN code' : code'[i].op = "cond" =>
              \/ code'[i].id \in conds'
              \/ \E j \in DOMAIN code : code[j].op = "cond" /\ code[j].id = code'[i].id
    PROVE  CondItems'
<1>1. program \in Seq(Line)
  BY DEF CInv, LineInv
<1>2. \A i \in DOMAIN program : i \in DOMAIN program' /\ program'[i] = program[i]
  BY <1>1
<1>3. conds \subseteq conds'
  BY <1>2 DEF conds
<1>4. \A j \in DOMAIN code : code[j].op = "cond" => code[j].id \in conds'
  BY <1>3 DEF CondItems
<1>5. \A i \in DOMAIN code' : code'[i].op = "cond" => code'[i].id \in conds'
  BY <1>4
<1> QED  BY <1>5 DEF CondItems

\* No step makes a conditional item without its line.
LEMMA CondStep ==
    ASSUME IInv, TargetsAllocated, CInv, IInv', CondItems, SemNext, pc' # "panic"
    PROVE  CondItems'
<1>1. code \in Seq(Item) /\ program \in Seq(Line)
  BY DEF CInv, CodeInv, LineInv
<1>2. CASE program' = program /\ code' = code
  BY <1>2, CondKept
<1>3. ASSUME NEW c, program' = program, code' = Append(code, c), c.op # "cond"
      PROVE  CondItems'
  <2>1. \A i \in DOMAIN code' : code'[i] = c \/ (i \in DOMAIN code /\ code'[i] = code[i])
    BY <1>1, <1>3
  <2> QED  BY <1>3, <2>1, CondKept
<1>4. CASE SemClient
  <2>1. PICK p, c : Adds(p, c)
    BY <1>4, ClientAdds
  <2>2. /\ program' = Append(program, p) /\ code' = Append(code, c)
        /\ c.op = p.op /\ c.id = Len(program) + 1
    BY <2>1 DEF Adds
  <2>3. \A i \in DOMAIN code' : code'[i] = c \/ (i \in DOMAIN code /\ code'[i] = code[i])
    BY <1>1, <2>2
  <2>4. c.id \in DOMAIN program' /\ program'[c.id] = p
    BY <1>1, <2>2
  <2>5. c.op = "cond" => c.id \in conds'
    BY <2>2, <2>4 DEF conds
  <2> QED  BY <2>2, <2>3, <2>5, CondKept
<1>5. CASE SemTrap \/ \E l \in Label : SemBind(l)
  <2>1. code' = code /\ \E p : program' = Append(program, p)
    BY <1>5 DEF SemTrap, SemBind, line
  <2> QED  BY <2>1, CondKept
<1>6. CASE SemTruncate
  <2>1. program' = program /\ \A i \in DOMAIN code' : i \in DOMAIN code /\ code'[i] = code[i]
    BY <1>6 DEF SemTruncate, remaining
  <2> QED  BY <2>1, CondKept
<1>7. CASE SemInvert
  <2> DEFINE m == Len(code) - 1
  <2>1. /\ program' = program /\ DOMAIN code' = 1 .. m
        /\ \A i \in 1 .. m : code'[i] = IF i = m THEN [code[m] EXCEPT !.sense = ~@] ELSE code[i]
    BY <1>7, InvertFacts
  <2>2. \A i \in 1 .. m : i \in DOMAIN code
    BY <1>1
  <2>3. \A i \in DOMAIN code' : /\ i \in DOMAIN code /\ code'[i].op = code[i].op
                                /\ code'[i].id = code[i].id
    <3> SUFFICES ASSUME NEW i \in 1 .. m PROVE code'[i].op = code[i].op /\ code'[i].id = code[i].id
      BY <2>1, <2>2
    <3>1. code[i] \in Item
      BY <1>1, <2>2
    <3> QED  BY <2>1, <3>1 DEF Item
  <2> QED  BY <2>1, <2>3, CondKept
<1>8. CASE OptRedirect /\ UNCHANGED <<code, patched, program>>
  BY <1>2, <1>8
<1>9. CASE SemQuiet
  BY <1>2, <1>9 DEF SemQuiet, SemIsland, SemFinish
<1>10. CASE SemPatch
  <2>1. PICK f : (f = Head(taken) /\ SemPending) \/ SemHeap(f)
    BY <1>10 DEF SemPatch
  <2>2. program' = program /\ (code' = code \/ handled(f))
    BY <2>1 DEF SemPending, SemHeap
  <2>3. CASE handled(f)
    <3>1. code' = code \/ \E c : c.op = "jump" /\ code' = Append(code, c)
      BY <2>3 DEF handled, item
    <3> QED  BY <1>2, <1>3, <2>2, <3>1
  <2> QED  BY <1>2, <2>2, <2>3
<1>11. CASE SemIslandTrap
  <2>1. program' = program /\ \E c : c.op = "trap" /\ code' = Append(code, c)
    BY <1>11 DEF SemIslandTrap, item
  <2> QED  BY <1>3, <2>1
<1>12. CASE UNCHANGED semVars
  BY <1>2, <1>12 DEF semVars
<1> QED  BY <1>4, <1>5, <1>6, <1>7, <1>8, <1>9, <1>10, <1>11, <1>12, SemCases, Zenon

(***************************************************************************)
(* The start.                                                              *)
(***************************************************************************)

\* An empty buffer runs like an empty listing.
LEMMA InitSemInv == SemInit => SemInv /\ CondInv
<1> SUFFICES ASSUME SemInit PROVE SemInv /\ CondItems
  BY DEF CondInv
<1>1. /\ Init /\ code = <<>> /\ patched = <<>> /\ program = <<>> /\ IInv
  BY InitIInv DEF SemInit
<1>2. /\ off = 0 /\ latest_branches = <<>> /\ pending_fixup_records = <<>> /\ fixup_records = {}
      /\ pending_traps = <<>> /\ taken = <<>> /\ pc = "idle"
      /\ \A l \in Label : label_offsets[l] = UNKNOWN_LABEL_OFFSET /\ label_aliases[l] = UNKNOWN_LABEL
  BY <1>1 DEF Init
<1>3. /\ DOMAIN code = {} /\ DOMAIN patched = {} /\ DOMAIN program = {} /\ Len(program) = 0
      /\ code \in Seq(Item) /\ program \in Seq(Line) /\ DOMAIN latest_branches = {}
      /\ DOMAIN pending_fixup_records = {} /\ DOMAIN taken = {} /\ DOMAIN pending_traps = {}
  BY <1>1, <1>2
<1>4. TargetsAllocated
  BY <1>2, <1>3 DEF TargetsAllocated
<1>5. CInv
  <2>1. CodeInv /\ UsesApart /\ BranchItems /\ TailClosed
    BY <1>2, <1>3 DEF CodeInv, UsesApart, BranchItems, TailClosed
  <2>2. UseInv
    BY <1>2, <1>3 DEF UseInv, outstanding
  <2>3. LineInv
    BY <1>3 DEF LineInv, line_of, trap_labels
  <2> QED  BY <2>1, <2>2, <2>3 DEF CInv
<1>6. goto_line(1) = tail /\ goto_offset(0) = tail /\ tail.does # "goto"
  BY <1>2, <1>3 DEF goto_line, goto_offset, tail, step
<1>7. ASSUME NEW l \in allocated
      PROVE  goto_label(l) = unbound(l) /\ goto_bound(l) = unbound(l) /\ unbound(l).does # "goto"
  <2>1. l \in Label
    BY <1>1, <1>7, AllocatedLabels
  <2>2. root[l] = l
    BY <1>1, <1>2, <2>1, RootFacts DEF IInv
  <2>3. goto_bound(l) = bound_step(l)
    BY <1>1, <2>1, <2>2, Bounds DEF BoundSteps
  <2>4. goto_bound(l) = unbound(l)
    BY <1>2, <2>1, <2>3 DEF bound_step
  <2>5. goto_label(l) = unbound(l)
    BY <1>3 DEF goto_label, line_of
  <2> QED  BY <2>4, <2>5 DEF unbound, step
<1>8. OInv
  <2>1. ASSUME NEW V PROVE EntryAlike(V) /\ \A l \in allocated : LabelAlike(l, V)
    BY <1>6, <1>7, EndsAtOnce DEF EntryAlike, LabelAlike, RunsAlike
  <2> QED  BY <1>3, <2>1 DEF OInv
<1>9. CondItems
  BY <1>3 DEF CondItems
<1> QED  BY <1>1, <1>4, <1>5, <1>8, <1>9 DEF SemInv

(***************************************************************************)
(* The theorems.                                                           *)
(***************************************************************************)

\* The run of either table depends on V at the conditional lines only.
LEMMA OnlyConds ==
    ASSUME CondItems, NEW V, NEW W, \A i \in conds : V[i] = W[i]
    PROVE  listing(V) = listing(W) /\ emitted(V) = emitted(W)
<1>1. ASSUME NEW i \in DOMAIN program PROVE line_step(program[i], i, V) = line_step(program[i], i, W)
  <2>1. program[i].op = "cond" => V[i] = W[i]
    BY DEF conds
  <2>2. CASE program[i].op = "cond"
    BY <2>1, <2>2 DEF line_step
  <2>3. CASE program[i].op # "cond"
    BY <2>3 DEF line_step
  <2> QED  BY <2>2, <2>3
<1>2. ASSUME NEW i \in DOMAIN code PROVE item_step(code[i], V) = item_step(code[i], W)
  <2>1. code[i].op = "cond" => V[code[i].id] = W[code[i].id]
    BY DEF CondItems
  <2>2. CASE code[i].op = "cond"
    BY <2>1, <2>2 DEF item_step
  <2>3. CASE code[i].op # "cond"
    BY <2>3 DEF item_step
  <2> QED  BY <2>2, <2>3
<1> QED  BY <1>1, <1>2 DEF listing, emitted

\* SemanticsPreserved is what the invariant says of the entry and of instructions.
LEMMA SemInvPreserves == SemInv /\ CondInv => SemanticsPreserved
<1> SUFFICES ASSUME SemInv, CondInv, pc \in {"idle", "optimize_branches", "done"},
                    NEW V \in [conds -> BOOLEAN]
             PROVE  /\ RunsAlike(goto_line(1), goto_offset(0), V)
                    /\ \A i \in DOMAIN program : program[i].op = "inst" =>
                          \E c \in DOMAIN code :
                             code[c].id = i /\ RunsAlike(goto_line(i + 1), goto_offset(code[c].end), V)
  BY DEF SemanticsPreserved
<1>1. OInv /\ CondItems
  BY DEF SemInv, CondInv
<1>2. PICK W \in [Nat -> BOOLEAN] : \A i \in Nat : W[i] = IF i \in conds THEN V[i] ELSE TRUE
  <2>1. [i \in Nat |-> IF i \in conds THEN V[i] ELSE TRUE] \in [Nat -> BOOLEAN]
    OBVIOUS
  <2> QED  BY <2>1
<1>3. conds \subseteq Nat
  <2>1. program \in Seq(Line)
    BY DEF SemInv, CInv, LineInv
  <2> QED  BY <2>1 DEF conds
<1>4. listing(W) = listing(V) /\ emitted(W) = emitted(V)
  BY <1>1, <1>2, <1>3, OnlyConds
<1>5. RunsAlike(goto_line(1), goto_offset(0), V)
  <2>1. EntryAlike(W)
    BY <1>1 DEF OInv
  <2> QED  BY <1>4, <2>1 DEF EntryAlike, RunsAlike
<1>6. ASSUME NEW i \in DOMAIN program, program[i].op = "inst"
      PROVE  \E c \in DOMAIN code :
                code[c].id = i /\ RunsAlike(goto_line(i + 1), goto_offset(code[c].end), V)
  <2>1. PICK c \in DOMAIN code : code[c].id = i /\ AfterAlike(i, c, W)
    BY <1>1, <1>6 DEF OInv
  <2> QED  BY <1>4, <2>1 DEF AfterAlike, RunsAlike
<1> QED  BY <1>5, <1>6

\* What holds of the code in the buffer at every step of the client and of the
\* buffer: the items lie in order, every branch has its label use or is patched
\* for good, and from the entry, from every label and after every instruction
\* the buffer runs like the listing.
THEOREM SemInvariant == SemSpec => [](SemInv /\ CondInv)
<1>1. SemInit => SemInv /\ CondInv
  BY InitSemInv
<1>2. SemInv /\ CondInv /\ [SemNext]_semVars => (SemInv /\ CondInv)'
  <2> SUFFICES ASSUME SemInv, CondInv, [SemNext]_semVars PROVE SemInv' /\ CondInv'
    OBVIOUS
  <2>1. SemInv'
    BY SemStep
  <2>2. ASSUME pc' # "panic" PROVE CondItems'
    <3>1. CASE UNCHANGED semVars
      BY <2>2, <3>1 DEF semVars, vars, CondInv, CondItems, conds
    <3>2. CASE SemNext
      <4>1. pc # "panic"
        BY <2>2, <3>2, PanicStays
      <4> QED  BY <2>1, <2>2, <3>2, <4>1, CondStep DEF SemInv, CondInv
    <3> QED  BY <3>1, <3>2
  <2> QED  BY <2>1, <2>2 DEF CondInv
<1> QED  BY <1>1, <1>2, PTL DEF SemSpec

\* Branch removal, inversion, label redirection, veneers, patches and deferred
\* traps never change where control goes ("Preserves execution semantics" in
\* optimize_branches), whatever the conditional branches decide.
THEOREM SemanticsArePreserved == SemSpec => []SemanticsPreserved
<1>1. SemInv /\ CondInv => SemanticsPreserved
  BY SemInvPreserves
<1> QED  BY <1>1, SemInvariant, PTL

=============================================================================
