-------------------------- MODULE Sia32Emit_proofs --------------------------
(***************************************************************************)
(* Proofs about Sia32Emit: the invariants of a buffer that VCode::emit and *)
(* SIA32's Inst::emit drive, and the safety properties that follow, for any*)
(* menu of instructions, any number of blocks and labels, any padding.     *)
(*                                                                         *)
(* The buffer's own invariant FInv comes from MachBuffer_proofs: every step*)
(* of EmitNext is a step of the buffer's Next, or leaves the buffer alone. *)
(* EmitInv is about the caller.  There is one lemma per action.  The calls *)
(* that put bytes go through GrowCallInv, the steps of an island through   *)
(* IslandInv, the calls that only decide what comes next through NewCalls. *)
(* The steps of optimize_branches are where a label may move: TailSettled  *)
(* says that, but for the start of a block, no block and no literal is at  *)
(* the branch they remove.                                                 *)
(***************************************************************************)
EXTENDS Sia32Emit, Sia32Patch, MachBuffer_proofs, WellFoundedInduction

(***************************************************************************)
(* The order of blocks.                                                    *)
(***************************************************************************)

\* Every set of natural numbers but the empty one has a least element.
LEMMA NatMin ==
    ASSUME NEW T, T \subseteq Nat, T # {}
    PROVE  \E x \in T : \A y \in T : x <= y
<1> DEFINE R == {ss \in Nat \X Nat : ss[1] < ss[2]}
<1>1. OpToRel(<, Nat) = R
  BY Zenon DEF OpToRel
<1>2. IsWellFoundedOn(R, Nat)
  BY <1>1, NatLessThanWellFounded
<1>3. \E x \in T : \A y \in T : ~(<<y, x>> \in R)
  <2> HIDE DEF R
  <2> QED  BY <1>2, WFMin
<1>4. PICK x \in T : \A y \in T : ~(<<y, x>> \in R)
  BY <1>3
<1>5. ASSUME NEW y \in T PROVE x <= y
  <2>1. ~(<<y, x>> \in R)
    BY <1>4
  <2>2. x \in Nat /\ y \in Nat
    OBVIOUS
  <2>3. ~(y < x)
    BY <2>1, <2>2
  <2> QED  BY <2>2, <2>3
<1> QED  BY <1>5

\* One block more has its place: in front of the cold blocks or at the end.
LEMMA OrderGrows ==
    ASSUME NEW cold, NEW n \in Nat, NEW order, orders_blocks(order, n, cold)
    PROVE  \E longer : orders_blocks(longer, n + 1, cold)
<1>0. /\ order \in [1 .. n -> 0 .. (n - 1)]
      /\ \A l \in 0 .. (n - 1) : \E i \in 1 .. n : order[i] = l
      /\ \A i, j \in 1 .. n : i < j => precedes(order[i], order[j], cold)
  BY DEF orders_blocks
<1>1. PICK k \in 1 .. (n + 1) :
         /\ \A i \in 1 .. n : i < k => precedes(order[i], n, cold)
         /\ \A i \in 1 .. n : i >= k => precedes(n, order[i], cold)
  <2>1. \A i \in 1 .. n : order[i] < n
    BY <1>0
  <2> DEFINE C == {i \in 1 .. n : order[i] \in cold}
  <2>2. CASE n \in cold \/ C = {}
    <3>1. \A i \in 1 .. n : precedes(order[i], n, cold)
      BY <2>1, <2>2 DEF precedes
    <3> QED  BY <3>1
  <2>3. CASE n \notin cold /\ C # {}
    <3>1. C \in SUBSET Nat
      OBVIOUS
    <3>2. PICK k \in C : \A i \in C : k <= i
      <4> HIDE DEF C
      <4> QED  BY <2>3, <3>1, NatMin
    <3>3. k \in 1 .. n /\ order[k] \in cold
      BY <3>2
    <3>4. ASSUME NEW i \in 1 .. n, i < k PROVE precedes(order[i], n, cold)
      <4>1. order[i] \notin cold
        BY <3>2, <3>3, <3>4
      <4> QED  BY <2>1, <2>3, <4>1 DEF precedes
    <3>5. ASSUME NEW i \in 1 .. n, i >= k PROVE precedes(n, order[i], cold)
      <4>1. i = k \/ precedes(order[k], order[i], cold)
        BY <1>0, <3>3, <3>5
      <4>2. order[i] \in cold
        BY <3>3, <4>1 DEF precedes
      <4> QED  BY <2>3, <4>2 DEF precedes
    <3>6. k \in 1 .. (n + 1)
      BY <3>3
    <3> QED  BY <3>4, <3>5, <3>6
  <2> QED  BY <2>2, <2>3
<1> DEFINE longer == [i \in 1 .. (n + 1) |->
                        IF i < k THEN order[i] ELSE IF i = k THEN n ELSE order[i - 1]]
<1>2. \A i \in 1 .. (n + 1) : longer[i] = IF i < k THEN order[i] ELSE IF i = k THEN n ELSE order[i - 1]
  OBVIOUS
<1>3. longer = [i \in 1 .. (n + 1) |-> longer[i]]
  OBVIOUS
<1> HIDE DEF longer
<1>4. ASSUME NEW i \in 1 .. (n + 1) PROVE longer[i] \in 0 .. ((n + 1) - 1)
  <2>1. CASE i < k
    <3>1. i \in 1 .. n /\ longer[i] = order[i]
      BY <1>2, <2>1
    <3>2. order[i] \in 0 .. (n - 1)
      BY <1>0, <3>1
    <3> QED  BY <3>1, <3>2
  <2>2. CASE i = k
    BY <1>2, <2>2
  <2>3. CASE i > k
    <3>1. i - 1 \in 1 .. n /\ longer[i] = order[i - 1]
      BY <1>2, <2>3
    <3>2. order[i - 1] \in 0 .. (n - 1)
      BY <1>0, <3>1
    <3> QED  BY <3>1, <3>2
  <2> QED  BY <2>1, <2>2, <2>3
<1>5. longer \in [1 .. (n + 1) -> 0 .. ((n + 1) - 1)]
  BY <1>3, <1>4
<1>6. ASSUME NEW l \in 0 .. ((n + 1) - 1) PROVE \E i \in 1 .. (n + 1) : longer[i] = l
  <2>1. CASE l = n
    BY <1>2, <2>1
  <2>2. CASE l # n
    <3>1. l \in 0 .. (n - 1)
      BY <2>2
    <3>2. PICK i \in 1 .. n : order[i] = l
      BY <1>0, <3>1
    <3>3. CASE i < k
      BY <1>2, <3>2, <3>3
    <3>4. CASE i >= k
      <4>1. i + 1 \in 1 .. (n + 1) /\ (i + 1) - 1 = i /\ ~(i + 1 < k) /\ i + 1 # k
        BY <3>4
      <4> QED  BY <1>2, <3>2, <4>1
    <3> QED  BY <3>3, <3>4
  <2> QED  BY <2>1, <2>2
<1>7. ASSUME NEW i \in 1 .. (n + 1), NEW j \in 1 .. (n + 1), i < j
      PROVE  precedes(longer[i], longer[j], cold)
  <2>1. CASE j < k
    <3>1. i \in 1 .. n /\ j \in 1 .. n /\ longer[i] = order[i] /\ longer[j] = order[j]
      BY <1>2, <1>7, <2>1
    <3> QED  BY <1>0, <1>7, <3>1
  <2>2. CASE j = k
    <3>1. i \in 1 .. n /\ i < k /\ longer[i] = order[i] /\ longer[j] = n
      BY <1>2, <1>7, <2>2
    <3> QED  BY <1>1, <3>1
  <2>3. CASE j > k
    <3>1. j - 1 \in 1 .. n /\ j - 1 >= k /\ longer[j] = order[j - 1]
      BY <1>2, <2>3
    <3>2. CASE i < k
      <4>1. i \in 1 .. n /\ i < j - 1 /\ longer[i] = order[i]
        BY <1>2, <3>1, <3>2
      <4> QED  BY <1>0, <3>1, <4>1
    <3>3. CASE i = k
      BY <1>1, <1>2, <3>1, <3>3
    <3>4. CASE i > k
      <4>1. i - 1 \in 1 .. n /\ i - 1 < j - 1 /\ longer[i] = order[i - 1]
        BY <1>2, <1>7, <3>4
      <4> QED  BY <1>0, <3>1, <4>1
    <3> QED  BY <3>2, <3>3, <3>4
  <2> QED  BY <2>1, <2>2, <2>3
<1> QED  BY <1>5, <1>6, <1>7 DEF orders_blocks

\* Any number of blocks have an order.
LEMMA OrderExists ==
    ASSUME NEW cold, NEW n \in Nat
    PROVE  \E order : orders_blocks(order, n, cold)
<1> DEFINE P(m) == \E order : orders_blocks(order, m, cold)
           C == {m \in Nat : ~P(m)}
<1>1. P(0)
  <2>1. orders_blocks([i \in 1 .. 0 |-> i], 0, cold)
    BY DEF orders_blocks
  <2> QED  BY <2>1
<1>2. \A m \in Nat : P(m) => P(m + 1)
  BY OrderGrows
<1> HIDE DEF P
<1>3. C = {}
  <2> SUFFICES ASSUME C # {} PROVE FALSE
    OBVIOUS
  <2>0. C \in SUBSET Nat
    OBVIOUS
  <2>1. PICK m \in C : \A k \in C : m <= k
    <3> HIDE DEF C
    <3> QED  BY <2>0, NatMin
  <2>2. m \in Nat /\ ~P(m)
    OBVIOUS
  <2>3. m # 0
    BY <1>1, <2>2
  <2>4. m - 1 \in Nat /\ (m - 1) + 1 = m /\ ~(m <= m - 1)
    BY <2>2, <2>3
  <2>5. P(m - 1)
    BY <2>1, <2>4
  <2> QED  BY <1>2, <2>2, <2>4, <2>5
<1>4. P(n)
  BY <1>3
<1> QED  BY <1>4 DEF P

\* final_order has each block once.
LEMMA FinalOrder ==
    ASSUME EmitTypeOK
    PROVE  /\ final_order \in [1 .. NumBlocks -> Blocks] /\ NumBlocks \in Nat
           /\ \A l \in Blocks : \E i \in 1 .. NumBlocks : final_order[i] = l
           /\ \A i, j \in 1 .. NumBlocks : i # j => final_order[i] # final_order[j]
<1>1. NumBlocks \in Nat /\ family.cold \in SUBSET Blocks
  BY EmitAssumption, SizesAssumption DEF EmitTypeOK
<1> DEFINE cold == family.cold
<1>2. final_order = CHOOSE order \in [1 .. NumBlocks -> Blocks] :
                       orders_blocks(order, NumBlocks, cold)
  BY <1>1 DEF final_order, final_orders
<1> HIDE DEF cold
<1>3. PICK order : orders_blocks(order, NumBlocks, cold)
  BY <1>1, OrderExists
<1>4. order \in [1 .. NumBlocks -> Blocks]
  BY <1>3 DEF orders_blocks, Blocks
<1>5. final_order \in [1 .. NumBlocks -> Blocks] /\ orders_blocks(final_order, NumBlocks, cold)
  BY <1>2, <1>3, <1>4
<1>6. \A l \in Blocks : \E i \in 1 .. NumBlocks : final_order[i] = l
  BY <1>5 DEF orders_blocks, Blocks
<1>7. \A l \in Blocks : ~precedes(l, l, cold)
  BY <1>1 DEF precedes, Blocks
<1>8. ASSUME NEW i \in 1 .. NumBlocks, NEW j \in 1 .. NumBlocks, i # j
      PROVE  final_order[i] # final_order[j]
  <2>1. /\ i < j => precedes(final_order[i], final_order[j], cold)
        /\ j < i => precedes(final_order[j], final_order[i], cold)
    BY <1>5 DEF orders_blocks
  <2>2. i < j \/ j < i
    BY <1>1, <1>8
  <2>3. final_order[i] \in Blocks
    BY <1>5
  <2> QED  BY <1>7, <2>1, <2>2, <2>3
<1> QED  BY <1>1, <1>5, <1>6, <1>8

\* The order is the same as long as the function is.
LEMMA OrderKept == UNCHANGED family => UNCHANGED final_order
BY DEF final_order

(***************************************************************************)
(* Calls and the buffer's own invariant.                                   *)
(***************************************************************************)

\* What a call carries.
LEMMA CallFields ==
    ASSUME NEW c \in CallRecord
    PROVE  /\ c.op = "put" => c.n \in Nat
           /\ c.op = "align" => c.a \in Nat \ {0}
           /\ c.op = "island" => c.d \in Nat
           /\ c.op = "use" => c.l \in allocated /\ c.k \in InstLabelUse
           /\ c.op = "jump" => c.l \in allocated
           /\ c.op = "bind" => c.l \in NumBlocks .. (nlabels - 1)
           /\ c.op = "case" => c.l \in Blocks
           /\ c.op \in {"put", "align", "island", "use", "jump", "bind", "case", "check",
                        "bb_start", "padding"}
BY DEF CallRecord

\* The sequence of calls after the first was made.
LEMMA TodoTail ==
    ASSUME EmitTypeOK, todo # <<>>
    PROVE  /\ Head(todo) = todo[1] /\ 1 \in DOMAIN todo /\ todo[1] \in CallRecord
           /\ Len(todo) \in Nat /\ Len(todo) >= 1 /\ DOMAIN todo = 1 .. Len(todo)
           /\ Tail(todo) \in Seq(CallRecord) /\ Len(Tail(todo)) = Len(todo) - 1
           /\ DOMAIN Tail(todo) = 1 .. (Len(todo) - 1)
           /\ \A j \in 1 .. (Len(todo) - 1) : Tail(todo)[j] = todo[j + 1]
<1>1. todo \in Seq(CallRecord)
  BY DEF EmitTypeOK
<1> QED  BY <1>1

\* Labels handed out are labels; a label of the next call is one of them.
LEMMA AllocatedLabels ==
    ASSUME TypeOK
    PROVE  /\ allocated \subseteq Label /\ nlabels \in Nat /\ nlabels <= MaxLabels
           /\ NumBlocks \in Nat /\ NumBlocks .. (nlabels - 1) \subseteq allocated
           /\ \A l \in allocated : l \in Nat /\ l < nlabels
BY SizesAssumption DEF TypeOK, allocated, Label

\* InstLabelUse names kinds a client may use.
LEMMA InstKinds ==
    /\ "Cond7" \in InstLabelUse /\ "Branch11" \in InstLabelUse /\ "Literal8" \in InstLabelUse
    /\ InstLabelUse \subseteq ClientKind
BY LabelUseAssumption DEF InstLabelUse, LabelUse

\* A call of the buffer that is not finish() keeps the rest of its invariant.
LEMMA CallKeepsFInv ==
    ASSUME FInv, IInv', TargetsAllocated', pc = "idle", UNCHANGED <<deferVars, finishing>>,
           pc' \notin {"finish", "done"}
    PROVE  FInv'
<1>1. ~finishing
  BY DEF FInv, FinishPhases
<1>2. FinishPhases'
  BY <1>1 DEF FinishPhases
<1>3. ConstantsPending'
  BY DEF FInv, ConstantsPending, deferVars
<1> QED  BY <1>2, <1>3 DEF FInv

\* A call that hands out labels and does nothing else keeps it.
LEMMA GetLabelsFInv ==
    ASSUME FInv, pc = "idle", nlabels' \in nlabels .. MaxLabels,
           UNCHANGED <<off, labelVars, latest_branches, pending_fixup_records,
                       pending_fixup_deadline, fixup_records, deferVars, pc, islandVars>>
    PROVE  FInv'
<1>0. IInv /\ TypeOK /\ TargetsAllocated
  BY DEF FInv, IInv
<1> USE IInvParts
<1>n. nlabels \in Nat /\ nlabels' \in Nat /\ nlabels' >= nlabels /\ nlabels' \in 0 .. MaxLabels
  BY <1>0, SizesAssumption DEF TypeOK
<1>1. TypeOK'
  BY <1>0, <1>n DEF TypeOK, labelVars, deferVars, islandVars
<1>2. LabelInv'
  BY <1>0, GrowKeepsLabels DEF TypeOK
<1>3. FixupInv'
  BY <1>0, GrowKeepsFixups DEF TypeOK, islandVars
<1>4. NoAliasCycle'
  BY <1>0 DEF NoAliasCycle, labelVars
<1>5. OtherInv'
  <2>1. \A x \in allocated : x \in allocated'
    BY <1>n, AllocatedGrows
  <2>2. UnusedUnbound'
    BY <1>0, <2>1 DEF OtherInv, UnusedUnbound, live, labelVars
  <2>3. DeferredUnbound'
    BY <1>0, <2>1 DEF OtherInv, DeferredUnbound, unbound_label, live, labelVars, deferVars
  <2> QED  BY <1>0, <2>2, <2>3 DEF OtherInv, IslandPhases, islandVars
<1>6. TargetsAllocated'
  BY <1>0, <1>n, TargetsKept DEF labelVars
<1>7. pc' = "idle" /\ finishing' = finishing
  BY DEF islandVars
<1>8. IInv'
  BY <1>1, <1>2, <1>3, <1>4, <1>5, IInvParts1
<1> QED  BY <1>6, <1>7, <1>8, CallKeepsFInv

\* Every step of the buffer itself keeps its invariant.
LEMMA BufferStepFInv == FInv /\ [Next]_vars => FInv'
BY NextIInv, NextTargets, NextConstants, NextFinish DEF FInv

\* Every call VCode::emit and Inst::emit make keeps the buffer's invariant.
LEMMA EmitFInv ==
    FInv /\ EmitTypeOK /\ [EmitNext]_allVars => FInv'
<1> SUFFICES ASSUME FInv, EmitTypeOK, [EmitNext]_allVars PROVE FInv'
  OBVIOUS
<1>0. IInv /\ TypeOK /\ TargetsAllocated /\ nlabels \in Nat
  BY DEF FInv, IInv, TypeOK
<1>a. todo # <<>> => Head(todo) \in CallRecord
  BY TodoTail
<1>s. ASSUME UNCHANGED vars PROVE FInv'
  BY <1>s, BufferStepFInv
<1>k. ASSUME UNCHANGED <<nlabels, label_aliases>>, latest_branches' \in {latest_branches, <<>>}
      PROVE  TargetsAllocated'
  BY <1>0, <1>k, TargetsKept
<1>p. ASSUME NEW n \in Nat, Put(n) PROVE FInv'
  BY <1>0, <1>p, <1>k, PutIInv, CallKeepsFInv DEF Put, labelVars, islandVars
<1>1. CASE CallPut
  BY <1>1, <1>a, <1>p, CallFields DEF CallPut, next_call
<1>2. CASE CallUse
  <2> DEFINE l == Head(todo).l
             k == Head(todo).k
  <2>1. l \in Label /\ k \in ClientKind /\ UseLabel(l, k, 2)
    BY <1>0, <1>2, <1>a, CallFields, AllocatedLabels, InstKinds DEF CallUse, next_call
  <2> HIDE DEF l, k
  <2>2. IInv'
    BY <1>0, <2>1, UseLabelIInv
  <2> QED  BY <1>k, <2>1, <2>2, CallKeepsFInv DEF UseLabel, labelVars, islandVars
<1>3. CASE CallJump
  <2> DEFINE l == Head(todo).l
  <2>1. l \in Label /\ l \in allocated /\ "Branch11" \in ClientKind
        /\ AddBranch(l, "Branch11", 2, FALSE)
    BY <1>0, <1>3, <1>a, CallFields, AllocatedLabels, InstKinds
       DEF CallJump, next_call, add_uncond_branch
  <2> HIDE DEF l
  <2>2. IInv'
    BY <1>0, <2>1, AddBranchIInv
  <2>3. TargetsAllocated'
    <3>1. allocated' = allocated /\ label_aliases' = label_aliases
      BY <2>1 DEF AddBranch, allocated
    <3>2. PICK br : br.target = l /\ latest_branches' = Append(latest_branches, br)
      BY <2>1 DEF AddBranch
    <3>3. \A i \in DOMAIN latest_branches' :
             \/ i \in DOMAIN latest_branches /\ latest_branches'[i] = latest_branches[i]
             \/ latest_branches'[i] = br
      <4>1. latest_branches \in Seq(Branch)
        BY <1>0 DEF TypeOK
      <4> QED  BY <3>2, <4>1
    <3> QED  BY <1>0, <2>1, <3>1, <3>2, <3>3 DEF TargetsAllocated
  <2> QED  BY <2>1, <2>2, <2>3, CallKeepsFInv DEF AddBranch, islandVars
<1>b. ASSUME NEW l \in Label, BindLabel(l) PROVE FInv'
  <2>1. Next
    BY <1>b DEF Next, ClientCall
  <2> QED  BY <2>1, BufferStepFInv
<1>4. CASE CallBind
  BY <1>0, <1>4, <1>a, <1>b, CallFields, AllocatedLabels DEF CallBind, next_call
<1>5. CASE CallAlign
  <2>1. Head(todo).a \in Nat \ {0} /\ off \in Nat
    BY <1>0, <1>5, <1>a, CallFields DEF CallAlign, next_call, TypeOK
  <2>2. AlignUp(off, Head(todo).a) - off \in Nat
    BY <2>1, AlignUpNat
  <2> QED  BY <1>5, <1>p, <2>2 DEF CallAlign
<1>6. CASE CallIsland
  <2>1. Head(todo).d \in Nat /\ EmitIsland(Head(todo).d, FALSE)
    BY <1>6, <1>a, CallFields DEF CallIsland, next_call
  <2>2. IInv'
    BY <1>0, <2>1, EmitIslandIInv
  <2> QED  BY <1>k, <2>1, <2>2, CallKeepsFInv DEF EmitIsland, start_island, labelVars
<1>g. ASSUME pc = "idle", nlabels' \in nlabels .. MaxLabels,
             UNCHANGED <<off, labelVars, latest_branches, pending_fixup_records,
                         pending_fixup_deadline, fixup_records, deferVars, pc, islandVars>>
      PROVE  FInv'
  BY <1>g, GetLabelsFInv
<1>7. CASE CallCheck \/ CallCase
  <2>1. nlabels < MaxLabels /\ nlabels' \in {nlabels, nlabels + 1}
    BY <1>7 DEF CallCheck, CallCase, expands
  <2>2. nlabels' \in nlabels .. MaxLabels
    BY <1>0, <2>1, SizesAssumption
  <2> QED  BY <1>7, <1>g, <2>2 DEF CallCheck, CallCase, expands, next_call
<1>8. CASE CallPadding \/ CallBBStart
  BY <1>8, <1>s DEF CallPadding, CallBBStart
<1>9. CASE BeginBlock
  <2>1. block + 1 \in 1 .. NumBlocks /\ BindLabel(final_order[block + 1])
    <3>1. NumBlocks \in Nat /\ block \in 0 .. (NumBlocks + 1)
      BY <1>0, SizesAssumption DEF EmitTypeOK
    <3>2. block < NumBlocks /\ BindLabel(final_order[block + 1])
      BY <1>9 DEF BeginBlock
    <3> QED  BY <3>1, <3>2
  <2>2. final_order[block + 1] \in Label
    BY <2>1, FinalOrder, SizesAssumption DEF Blocks, Label
  <2> QED  BY <1>b, <2>1, <2>2
<1>10. CASE EndFunction
  <2>1. Next
    BY <1>10 DEF EndFunction, Next, ClientCall
  <2> QED  BY <2>1, BufferStepFInv
<1>11. CASE EmitFinish
  <2>1. Finish(FALSE)
    BY <1>11 DEF EmitFinish
  <2>2. IInv' /\ TargetsAllocated'
    BY <1>0, <2>1, FinishIInv, <1>k DEF Finish, labelVars
  <2>3. ConstantsPending'
    BY <2>1 DEF Finish, FInv, ConstantsPending, deferVars
  <2>4. /\ pc' = "finish" /\ finishing' /\ \A l \in allocated : ~bindable(l)
        /\ UNCHANGED <<nlabels, label_offsets, pending_traps, upcoming_label>>
    BY <2>1 DEF Finish, labelVars, deferVars
  <2>5. FinishPhases'
    BY <2>4, BindableKept DEF FinishPhases
  <2> QED  BY <2>2, <2>3, <2>5 DEF FInv
<1>12. ASSUME NEW i, EmitInst(i) PROVE FInv'
  <2>1. fresh(i) \in 0 .. 2
    BY DEF fresh
  <2>2. nlabels' = nlabels + fresh(i) /\ nlabels + fresh(i) <= MaxLabels
    BY <1>12 DEF EmitInst
  <2>3. nlabels' \in nlabels .. MaxLabels
    BY <1>0, <2>1, <2>2, SizesAssumption
  <2> QED  BY <1>12, <1>g, <2>3 DEF EmitInst, ready
<1>13. CASE Internal
  BY <1>13, BufferStepFInv DEF Next
<1>14. CASE UNCHANGED allVars
  BY <1>14, <1>s DEF allVars
<1> QED
  BY <1>1, <1>2, <1>3, <1>4, <1>5, <1>6, <1>7, <1>8, <1>9, <1>10, <1>11, <1>12, <1>13, <1>14
     DEF EmitNext, Call

(***************************************************************************)
(* The order of calls.                                                     *)
(***************************************************************************)

Ordered(t) == \A j \in DOMAIN t : in_order(t, j)
Plain(t) == \A j \in DOMAIN t : plain(t[j])

\* The calls left after the first are still in order.
LEMMA TailOrdered ==
    ASSUME NEW R, NEW t \in Seq(R), t # <<>>, Ordered(t)
    PROVE  Ordered(Tail(t))
<1> DEFINE u == Tail(t)
           n == Len(t)
<1>1. /\ n \in Nat /\ n >= 1 /\ DOMAIN t = 1 .. n /\ DOMAIN u = 1 .. (n - 1) /\ Len(u) = n - 1
      /\ \A j \in 1 .. (n - 1) : u[j] = t[j + 1]
  OBVIOUS
<1>2. Len(t) = n
  OBVIOUS
<1> HIDE DEF u, n
<1> SUFFICES ASSUME NEW j \in 1 .. (n - 1) PROVE in_order(u, j)
  BY <1>1 DEF Ordered, u
<1>3. /\ j \in Nat /\ j + 1 \in 1 .. n /\ u[j] = t[j + 1] /\ in_order(t, j + 1)
      /\ (j < n - 1 => u[j + 1] = t[j + 2]) /\ (j > 1 => u[j - 1] = t[j])
      /\ (j + 1) - 1 = j /\ (j + 1) + 1 = j + 2
  BY <1>1 DEF Ordered
<1>4. \A op : next_op(u, j, op) <=> next_op(t, j + 1, op)
  BY <1>1, <1>2, <1>3 DEF next_op
<1>5. puts_next(u, j) <=> puts_next(t, j + 1)
  BY <1>1, <1>2, <1>3 DEF puts_next
<1>6. \A l : j > 1 => (jumps_past(u, j - 1, l) <=> jumps_past(t, j, l))
  BY <1>1, <1>3 DEF jumps_past
<1>7. ASSUME u[j].op = "bind", j > 1 PROVE bind_in_order(u, j)
  <2>1. bind_in_order(t, j + 1)
    BY <1>3, <1>7 DEF in_order
  <2> QED  BY <2>1, <1>3, <1>5, <1>6, <1>7 DEF bind_in_order
<1>8. ASSUME u[j].op = "align", next_op(u, j, "bind"), j > 1
      PROVE  jumps_past(u, j - 1, u[j + 1].l)
  <2>1. j < n - 1
    BY <1>1, <1>8 DEF next_op
  <2>2. jumps_past(t, j, t[j + 2].l)
    BY <1>3, <1>4, <1>8 DEF in_order
  <2> QED  BY <2>1, <2>2, <1>3, <1>6, <1>8
<1>9. ASSUME jumps_ahead(u[j]), ~next_op(u, j, "island"), j > 1 PROVE grows(u[j - 1])
  BY <1>3, <1>4, <1>9 DEF in_order
<1>10. ASSUME jumps_ahead(u[j]) \/ uses_literal(u[j]), NEW i \in 1 .. (j - 1)
       PROVE  u[i].op # "bind"
  <2>1. i + 1 \in 1 .. j /\ i \in 1 .. (n - 1)
    BY <1>1
  <2>2. t[i + 1].op # "bind"
    BY <1>3, <1>10, <2>1 DEF in_order
  <2> QED  BY <1>1, <2>1, <2>2
<1>11. ASSUME u[j].op \in {"check", "case", "padding"}, NEW i \in (j + 1) .. Len(u)
       PROVE  plain(u[i])
  <2>1. i + 1 \in (j + 2) .. Len(t) /\ i \in 1 .. (n - 1)
    BY <1>1, <1>2
  <2>2. plain(t[i + 1])
    BY <1>3, <1>11, <2>1 DEF in_order
  <2> QED  BY <1>1, <2>1, <2>2
<1>12. ASSUME uses_literal(u[j]), NEW i \in DOMAIN u, u[i].op = "bind", u[i].l = u[j].l
       PROVE  i > 1 /\ u[i - 1].op = "align"
  <2>1. i \in 1 .. (n - 1) /\ i + 1 \in DOMAIN t /\ u[i] = t[i + 1] /\ (i + 1) - 1 = i
    BY <1>1
  <2>2. t[i].op = "align"
    BY <1>3, <1>12, <2>1 DEF in_order
  <2>3. i # j
    BY <1>12 DEF uses_literal
  <2>4. i \notin 1 .. (j - 1)
    BY <1>10, <1>12
  <2>5. i > 1
    BY <2>1, <2>3, <2>4, <1>1
  <2> QED  BY <1>1, <2>1, <2>2, <2>5
<1>13. u[j].op # "bb_start"
  BY <1>3 DEF in_order
<1> QED  BY <1>7, <1>8, <1>9, <1>10, <1>11, <1>12, <1>13 DEF in_order

\* Calls that bind nothing and use no label of their own need no order.
LEMMA PlainOrdered ==
    ASSUME NEW R, NEW t \in Seq(R), Plain(t)
    PROVE  Ordered(t)
<1>1. Len(t) \in Nat /\ DOMAIN t = 1 .. Len(t)
  OBVIOUS
<1> SUFFICES ASSUME NEW j \in 1 .. Len(t) PROVE in_order(t, j)
  BY <1>1 DEF Ordered
<1>2. \A i \in 1 .. Len(t) : /\ t[i].op \notin {"bind", "bb_start"}
                            /\ ~jumps_ahead(t[i]) /\ ~uses_literal(t[i])
  BY <1>1 DEF Plain, plain
<1>3. ~next_op(t, j, "bind")
  BY <1>1, <1>2 DEF next_op
<1>4. \A i \in (j + 1) .. Len(t) : plain(t[i])
  BY <1>1 DEF Plain
<1> QED  BY <1>1, <1>2, <1>3, <1>4 DEF in_order

\* Calls in order, followed by such calls, are in order.
LEMMA ConcatOrdered ==
    ASSUME NEW R, NEW t \in Seq(R), NEW v \in Seq(R), Ordered(t), Plain(v)
    PROVE  Ordered(t \o v)
<1> DEFINE u == t \o v
           n == Len(t)
           m == Len(v)
<1>1. /\ n \in Nat /\ m \in Nat /\ DOMAIN t = 1 .. n /\ DOMAIN v = 1 .. m
      /\ DOMAIN u = 1 .. (n + m) /\ Len(u) = n + m
      /\ \A j \in 1 .. n : u[j] = t[j]
      /\ \A j \in 1 .. (n + m) : j > n => j - n \in 1 .. m /\ u[j] = v[j - n]
  OBVIOUS
<1>2. Len(t) = n
  OBVIOUS
<1> HIDE DEF u, n, m
<1> SUFFICES ASSUME NEW j \in 1 .. (n + m) PROVE in_order(u, j)
  BY <1>1 DEF Ordered, u
<1>3. ASSUME NEW i \in 1 .. (n + m), i > n
      PROVE  /\ plain(u[i]) /\ u[i].op \notin {"bind", "bb_start"}
             /\ ~jumps_ahead(u[i]) /\ ~uses_literal(u[i])
  <2>1. plain(v[i - n])
    BY <1>1, <1>3 DEF Plain
  <2> QED  BY <1>1, <1>3, <2>1 DEF plain
<1>4. CASE j > n
  <2>1. ~next_op(u, j, "bind")
    BY <1>1, <1>3, <1>4 DEF next_op
  <2>2. \A i \in (j + 1) .. Len(u) : plain(u[i])
    BY <1>1, <1>3, <1>4
  <2> QED  BY <1>3, <1>4, <2>1, <2>2 DEF in_order
<1>5. CASE j <= n
  <2>1. /\ j \in 1 .. n /\ u[j] = t[j] /\ in_order(t, j) /\ (j > 1 => u[j - 1] = t[j - 1])
        /\ (j < n => u[j + 1] = t[j + 1])
    BY <1>1, <1>5 DEF Ordered
  <2>2. next_op(u, j, "bind") => j < n /\ next_op(t, j, "bind")
    <3>1. CASE j = n
      BY <1>1, <1>3, <3>1 DEF next_op
    <3> QED  BY <3>1, <1>1, <1>2, <2>1 DEF next_op
  <2>3. /\ next_op(t, j, "island") => next_op(u, j, "island")
        /\ puts_next(t, j) => puts_next(u, j)
    BY <1>1, <1>2, <2>1 DEF next_op, puts_next
  <2>4. \A l : j > 1 => (jumps_past(u, j - 1, l) <=> jumps_past(t, j - 1, l))
    BY <2>1 DEF jumps_past
  <2>5. ASSUME u[j].op = "bind", j > 1 PROVE bind_in_order(u, j)
    <3>1. bind_in_order(t, j)
      BY <2>1, <2>5 DEF in_order
    <3> QED  BY <3>1, <2>1, <2>3, <2>4, <2>5 DEF bind_in_order
  <2>6. ASSUME u[j].op = "align", next_op(u, j, "bind"), j > 1
        PROVE  jumps_past(u, j - 1, u[j + 1].l)
    BY <2>1, <2>2, <2>4, <2>6 DEF in_order
  <2>7. ASSUME jumps_ahead(u[j]), ~next_op(u, j, "island"), j > 1 PROVE grows(u[j - 1])
    BY <2>1, <2>3, <2>7 DEF in_order
  <2>8. ASSUME jumps_ahead(u[j]) \/ uses_literal(u[j]), NEW i \in 1 .. (j - 1)
        PROVE  u[i].op # "bind"
    <3>1. i \in 1 .. n /\ t[i].op # "bind"
      BY <1>1, <2>1, <2>8 DEF in_order
    <3> QED  BY <1>1, <3>1
  <2>9. ASSUME u[j].op \in {"check", "case", "padding"}, NEW i \in (j + 1) .. Len(u)
        PROVE  plain(u[i])
    <3>1. i \in 1 .. (n + m)
      BY <1>1
    <3>2. CASE i > n
      BY <1>3, <3>1, <3>2
    <3>3. CASE i <= n
      <4>1. i \in (j + 1) .. Len(t) /\ i \in 1 .. n
        BY <1>1, <1>2, <3>1, <3>3
      <4>2. plain(t[i])
        BY <2>1, <2>9, <4>1 DEF in_order
      <4> QED  BY <1>1, <4>1, <4>2
    <3> QED  BY <1>1, <3>1, <3>2, <3>3
  <2>10. ASSUME uses_literal(u[j]), NEW i \in DOMAIN u, u[i].op = "bind", u[i].l = u[j].l
         PROVE  i > 1 /\ u[i - 1].op = "align"
    <3>1. i \in 1 .. n
      BY <1>1, <1>3, <2>10
    <3>2. u[i] = t[i] /\ (i > 1 => u[i - 1] = t[i - 1])
      BY <1>1, <3>1
    <3> QED  BY <1>1, <2>1, <2>10, <3>1, <3>2 DEF in_order
  <2>11. u[j].op = "bb_start" => j = 1
    BY <2>1 DEF in_order
  <2> QED  BY <2>5, <2>6, <2>7, <2>8, <2>9, <2>10, <2>11 DEF in_order
<1> QED  BY <1>1, <1>4, <1>5

\* The instructions of SIA32 that bind labels make their calls in order.
LEMMA InstOrdered ==
    ASSUME NEW a \in Nat, NEW d \in Nat, NEW n \in Nat, a >= NumBlocks, d >= NumBlocks, a # d
    PROVE  /\ Ordered(Select(a, d)) /\ Ordered(TrapIfZ(d)) /\ Ordered(TrapIfNz(a, d))
           /\ Ordered(emit_ext_name32(a, d)) /\ Ordered(emit_direct_call(a, d))
           /\ Ordered(<<jump(a), island(n), bind_to(a)>>)
<1> USE DEF in_order, bind_in_order, next_op, puts_next, jumps_past, jumps_ahead, uses_literal,
            grows, puts, plain
<1>1. Ordered(Select(a, d))
  BY DEF Ordered, Select, use, put, bind_to
<1>2. Ordered(TrapIfZ(d))
  BY DEF Ordered, TrapIfZ, use, put, bind_to
<1>3. Ordered(TrapIfNz(a, d))
  BY DEF Ordered, TrapIfNz, use, put, bind_to, jump
<1>4. Ordered(emit_ext_name32(a, d))
  <2> DEFINE t == emit_ext_name32(a, d)
  <2>2. /\ Len(t) = 6 /\ DOMAIN t = 1 .. 6
        /\ t[1] = use(a, "Literal8") /\ t[2] = jump(d) /\ t[3] = align(4) /\ t[4] = bind_to(a)
        /\ t[5] = put(4) /\ t[6] = bind_to(d)
    BY DEF emit_ext_name32, literal_pool_word
  <2> HIDE DEF t
  <2>3. \A j \in 1 .. 6 : in_order(t, j)
    BY <2>2 DEF use, put, bind_to, jump, align
  <2> QED  BY <2>2, <2>3 DEF Ordered, t
<1>5. Ordered(emit_direct_call(a, d))
  BY SMTT(60) DEF Ordered, emit_direct_call, literal_pool_word, use, put, bind_to, jump, align
<1>6. Ordered(<<jump(a), island(n), bind_to(a)>>)
  BY DEF Ordered, jump, island, bind_to
<1> QED  BY <1>1, <1>2, <1>3, <1>4, <1>5, <1>6

\* The calls of an instruction start with code, ...
Starts(t) ==
    /\ t # <<>>
    /\ \/ puts(t[1]) \/ t[1].op \in {"use", "case"}
       \/ t[1].op = "jump" /\ (t[1].l < NumBlocks \/ next_op(t, 1, "island"))

\* ... and the labels they bind, jump to or load literals from are new.
OwnLabels(t) ==
    \A j \in DOMAIN t : t[j].op = "bind" \/ jumps_ahead(t[j]) \/ uses_literal(t[j]) =>
                          t[j].l >= nlabels

\* Calls on labels that are handed out when the instruction is emitted.
LEMMA MakeCalls ==
    /\ \A n \in Nat : put(n) \in CallRecord' /\ island(n) \in CallRecord'
    /\ \A n \in Nat \ {0} : align(n) \in CallRecord'
    /\ \A l \in allocated', k \in InstLabelUse : use(l, k) \in CallRecord'
    /\ \A l \in allocated' : jump(l) \in CallRecord'
    /\ \A l \in NumBlocks .. (nlabels' - 1) : bind_to(l) \in CallRecord'
    /\ \A l \in Blocks : case_of(l) \in CallRecord'
    /\ check \in CallRecord' /\ [op |-> "padding"] \in CallRecord'
    /\ [op |-> "bb_start"] \in CallRecord'
BY DEF CallRecord, put, island, align, use, jump, bind_to, case_of, check

\* A function on 1 .. n is a sequence.
LEMMA FunctionIsSeq ==
    ASSUME NEW R, NEW n \in Nat, NEW t \in [1 .. n -> R]
    PROVE  t \in Seq(R) /\ Len(t) = n /\ DOMAIN t = 1 .. n
<1>1. t \in Seq(R)
  BY SeqDef
<1>2. DOMAIN t = 1 .. n
  OBVIOUS
<1> QED  BY <1>1, <1>2

\* What calls() leaves to do for an instruction of the menu.
LEMMA InstCalls ==
    ASSUME TypeOK, EmitTypeOK, NEW i \in Inst, block \in 1 .. NumBlocks,
           nlabels' = nlabels + fresh(i)
    PROVE  LET c == calls(i, nlabels, nlabels + fresh(i) - 1) IN
           c \in Seq(CallRecord') /\ Ordered(c) /\ Starts(c) /\ OwnLabels(c)
<1>0. /\ nlabels \in Nat /\ NumBlocks \in Nat /\ NumBlocks <= nlabels /\ NumBlocks >= 1
      /\ fresh(i) \in 0 .. 2 /\ nlabels' \in Nat /\ nlabels' >= nlabels
  BY AllocatedLabels DEF EmitTypeOK, fresh
<1>1. \A l \in Blocks : l \in allocated' /\ l \in Nat /\ l < NumBlocks
  BY <1>0 DEF Blocks, allocated
<1>2. \A l \in Target : target_of(l) \in Blocks
  <2>1. block < NumBlocks => block + 1 \in 1 .. NumBlocks /\ final_order[block + 1] \in Blocks
    BY <1>0, FinalOrder
  <2> QED  BY <1>0, <2>1 DEF Target, Blocks, target_of, next_block
<1> DEFINE a == nlabels
<1>3. ASSUME NEW d \in Nat, d >= a, d < nlabels' PROVE d \in allocated' /\ d \in NumBlocks .. (nlabels' - 1)
  BY <1>0, <1>3 DEF allocated
<1>4. CASE i.op = "Simple"
  <2>1. i.n \in Nat /\ i.n > 0 /\ calls(i, a, a + fresh(i) - 1) = <<put(i.n)>>
    BY <1>4 DEF Inst, calls, straight_line
  <2>2. put(i.n) \in CallRecord'
    BY <2>1, MakeCalls
  <2> DEFINE t == <<put(i.n)>>
  <2>3. t \in Seq(CallRecord') /\ DOMAIN t = 1 .. 1 /\ t[1] = put(i.n) /\ t # <<>>
    BY <2>2
  <2>4. Plain(t) /\ Starts(t) /\ OwnLabels(t)
    BY <2>1, <2>3 DEF Plain, plain, Starts, OwnLabels, puts, put, jumps_ahead, uses_literal
  <2> HIDE DEF t
  <2>5. Ordered(t)
    BY <2>3, <2>4, PlainOrdered
  <2> QED  BY <2>1, <2>3, <2>4, <2>5 DEF t
<1>5. CASE i.op = "Ret"
  <2>1. calls(i, a, a + fresh(i) - 1) = <<put(2)>>
    BY <1>5 DEF calls, Ret
  <2>2. put(2) \in CallRecord'
    BY MakeCalls
  <2> DEFINE t == <<put(2)>>
  <2>3. t \in Seq(CallRecord') /\ DOMAIN t = 1 .. 1 /\ t[1] = put(2) /\ t # <<>>
    BY <2>2
  <2>4. Plain(t) /\ Starts(t) /\ OwnLabels(t)
    BY <2>1, <2>3 DEF Plain, plain, Starts, OwnLabels, puts, put, jumps_ahead, uses_literal
  <2> HIDE DEF t
  <2>5. Ordered(t)
    BY <2>3, <2>4, PlainOrdered
  <2> QED  BY <2>1, <2>3, <2>4, <2>5 DEF t
<1>6. CASE i.op = "Jump"
  <2> DEFINE l == target_of(i.l)
             t == <<jump(l)>>
  <2>1. l \in Blocks /\ calls(i, a, a + fresh(i) - 1) = t
    BY <1>2, <1>6 DEF Inst, calls, Jump
  <2> HIDE DEF l
  <2>2. jump(l) \in CallRecord' /\ l \in Nat /\ l < NumBlocks
    BY <1>1, <2>1, MakeCalls
  <2>3. t \in Seq(CallRecord') /\ DOMAIN t = 1 .. 1 /\ t[1] = jump(l) /\ t # <<>>
    BY <2>2
  <2>4. Plain(t) /\ Starts(t) /\ OwnLabels(t)
    BY <1>0, <2>2, <2>3 DEF Plain, plain, Starts, OwnLabels, puts, jump, jumps_ahead, uses_literal
  <2> HIDE DEF t
  <2>5. Ordered(t)
    BY <2>3, <2>4, PlainOrdered
  <2> QED  BY <2>1, <2>3, <2>4, <2>5
<1>7. CASE i.op = "BrNz"
  <2> DEFINE l == target_of(i.l)
             m == target_of(i.not_taken)
             t == <<use(l, "Cond7"), jump(m)>>
  <2>1. l \in Blocks /\ m \in Blocks /\ calls(i, a, a + fresh(i) - 1) = t
    BY <1>2, <1>7 DEF Inst, calls, BrNz
  <2> HIDE DEF l, m
  <2>2. use(l, "Cond7") \in CallRecord' /\ jump(m) \in CallRecord' /\ m \in Nat /\ m < NumBlocks
    BY <1>1, <2>1, MakeCalls, InstKinds
  <2>3. /\ t \in Seq(CallRecord') /\ DOMAIN t = 1 .. 2 /\ t[1] = use(l, "Cond7")
        /\ t[2] = jump(m) /\ t # <<>>
    BY <2>2
  <2> HIDE DEF t
  <2>4. Plain(t) /\ Starts(t) /\ OwnLabels(t)
    BY <1>0, <2>2, <2>3 DEF Plain, plain, Starts, OwnLabels, puts, jump, use, jumps_ahead, uses_literal
  <2>5. Ordered(t)
    BY <2>3, <2>4, PlainOrdered
  <2> QED  BY <2>1, <2>3, <2>4, <2>5
<1>8. CASE i.op = "BrTable"
  <2> DEFINE m == target_of(i.l)
             s == [j \in 1 .. i.n |-> case_of(i.l)]
             t == s \o <<jump(m)>>
  <2>1. /\ i.l \in Blocks /\ i.n \in Nat /\ m \in Blocks
        /\ calls(i, a, a + fresh(i) - 1) = t
    BY <1>2, <1>8 DEF Inst, calls, BrTable, Target
  <2>2. case_of(i.l) \in CallRecord' /\ jump(m) \in CallRecord' /\ m \in Nat /\ m < NumBlocks
    BY <1>1, <2>1, MakeCalls
  <2>3. s \in [1 .. i.n -> CallRecord'] /\ \A j \in 1 .. i.n : s[j] = case_of(i.l)
    BY <2>2
  <2> HIDE DEF m, s
  <2>4. s \in Seq(CallRecord') /\ Len(s) = i.n /\ <<jump(m)>> \in Seq(CallRecord')
    BY <2>1, <2>2, <2>3, FunctionIsSeq, SMTT(60)
  <2>5. /\ t \in Seq(CallRecord') /\ DOMAIN t = 1 .. (i.n + 1) /\ t # <<>>
        /\ \A j \in 1 .. (i.n + 1) : t[j] = IF j <= i.n THEN s[j] ELSE jump(m)
    BY <2>1, <2>4
  <2> HIDE DEF t
  <2>6. \A j \in 1 .. (i.n + 1) : t[j] = case_of(i.l) \/ t[j] = jump(m)
    BY <2>1, <2>3, <2>5
  <2>7. t[1] = case_of(i.l) \/ t[1] = jump(m)
    BY <2>1, <2>6
  <2>8. Plain(t) /\ Starts(t) /\ OwnLabels(t)
    BY <1>0, <2>2, <2>5, <2>6, <2>7
       DEF Plain, plain, Starts, OwnLabels, puts, jump, case_of, jumps_ahead, uses_literal
  <2>9. Ordered(t)
    BY <2>5, <2>8, PlainOrdered
  <2> QED  BY <2>1, <2>5, <2>8, <2>9
<1> USE DEF Starts, OwnLabels, puts, jumps_ahead, uses_literal
<1>9. CASE i.op = "TrapIfZ"
  <2>1. /\ nlabels' = a + 1 /\ a + 1 - 1 = a /\ calls(i, a, a) = TrapIfZ(a)
        /\ a + fresh(i) - 1 = a
    BY <1>0, <1>9 DEF calls, fresh
  <2>2. use(a, "Cond7") \in CallRecord' /\ put(2) \in CallRecord' /\ bind_to(a) \in CallRecord'
    BY <1>0, <1>3, <2>1, MakeCalls, InstKinds
  <2>3. TrapIfZ(a) \in Seq(CallRecord')
    BY <2>2 DEF TrapIfZ
  <2>4. Starts(TrapIfZ(a)) /\ OwnLabels(TrapIfZ(a))
    BY <1>0 DEF TrapIfZ, use, put, bind_to
  <2>5. Ordered(TrapIfZ(a))
    <3>1. a + 1 \in Nat /\ a + 1 >= NumBlocks /\ a >= NumBlocks /\ a + 1 # a /\ a \in Nat /\ 0 \in Nat
      BY <1>0
    <3> HIDE DEF a, Starts, OwnLabels, puts, jumps_ahead, uses_literal
    <3> QED  BY <3>1, InstOrdered
  <2> QED  BY <2>1, <2>3, <2>4, <2>5
<1>10. CASE i.op \in {"Select", "TrapIfNz", "LoadExtName", "Call"}
  <2> DEFINE d == nlabels + 1
  <2>1. /\ nlabels' = a + 2 /\ a + fresh(i) - 1 = d /\ a \in Nat /\ d \in Nat /\ a # d
        /\ a >= NumBlocks /\ d >= NumBlocks /\ d >= a /\ d < nlabels' /\ a < nlabels' /\ a >= a
    BY <1>0, <1>10 DEF fresh
  <2>2. /\ \A k \in InstLabelUse : use(a, k) \in CallRecord' /\ use(d, k) \in CallRecord'
        /\ jump(a) \in CallRecord' /\ jump(d) \in CallRecord'
        /\ bind_to(a) \in CallRecord' /\ bind_to(d) \in CallRecord'
        /\ put(2) \in CallRecord' /\ put(4) \in CallRecord' /\ align(4) \in CallRecord'
    BY <1>3, <2>1, MakeCalls
  <2>3. /\ Ordered(Select(a, d)) /\ Ordered(TrapIfNz(a, d))
        /\ Ordered(emit_ext_name32(a, d)) /\ Ordered(emit_direct_call(a, d))
    <3>1. 0 \in Nat
      OBVIOUS
    <3> HIDE DEF a, d, Starts, OwnLabels, puts, jumps_ahead, uses_literal
    <3> QED  BY <2>1, <3>1, InstOrdered
  <2>4. CASE i.op = "Select"
    <3>1. calls(i, a, d) = Select(a, d)
      BY <2>4 DEF calls
    <3>2. Select(a, d) \in Seq(CallRecord')
      BY <2>2, InstKinds DEF Select
    <3>3. Starts(Select(a, d)) /\ OwnLabels(Select(a, d))
      BY <1>0, <2>1 DEF Select, use, put, bind_to
    <3> QED  BY <2>1, <2>3, <3>1, <3>2, <3>3
  <2>5. CASE i.op = "TrapIfNz"
    <3>1. calls(i, a, d) = TrapIfNz(a, d)
      BY <2>5 DEF calls
    <3>2. TrapIfNz(a, d) \in Seq(CallRecord')
      BY <2>2, InstKinds DEF TrapIfNz
    <3>3. Starts(TrapIfNz(a, d)) /\ OwnLabels(TrapIfNz(a, d))
      BY <1>0, <2>1 DEF TrapIfNz, use, put, bind_to, jump
    <3> QED  BY <2>1, <2>3, <3>1, <3>2, <3>3
  <2>6. CASE i.op = "LoadExtName"
    <3>1. calls(i, a, d) = emit_ext_name32(a, d)
      BY <2>6 DEF calls
    <3>2. emit_ext_name32(a, d) \in Seq(CallRecord')
      BY <2>2, InstKinds DEF emit_ext_name32, literal_pool_word
    <3>3. Starts(emit_ext_name32(a, d)) /\ OwnLabels(emit_ext_name32(a, d))
      BY <1>0, <2>1 DEF emit_ext_name32, literal_pool_word, use, put, bind_to, jump, align
    <3> QED  BY <2>1, <2>3, <3>1, <3>2, <3>3
  <2>7. CASE i.op = "Call"
    <3>1. calls(i, a, d) = emit_direct_call(a, d)
      BY <2>7 DEF calls
    <3>2. emit_direct_call(a, d) \in Seq(CallRecord')
      BY <2>2, InstKinds DEF emit_direct_call, literal_pool_word
    <3>3. Starts(emit_direct_call(a, d)) /\ OwnLabels(emit_direct_call(a, d))
      BY <1>0, <2>1 DEF emit_direct_call, literal_pool_word, use, put, bind_to, jump, align
    <3> QED  BY <2>1, <2>3, <3>1, <3>2, <3>3
  <2> QED  BY <1>10, <2>4, <2>5, <2>6, <2>7
<1>11. i.op \in {"Simple", "Ret", "Jump", "BrNz", "BrTable", "TrapIfZ", "Select", "TrapIfNz",
                 "LoadExtName", "Call"}
  BY DEF Inst
<1> QED  BY <1>4, <1>5, <1>6, <1>7, <1>8, <1>9, <1>10, <1>11

(***************************************************************************)
(* Steps that only decide which calls come next.                           *)
(***************************************************************************)

StartsInv == finishing \/ (StartsOrdered /\ StartsAtLabels /\ LabelsAtStarts)
CodeInv ==
    /\ CallsInOrder /\ NextCallReady /\ TailSettled /\ BlocksAliasBlocks
    /\ StartsInv /\ LiteralsStay /\ LiteralsAhead

\* The invariant in the parts the proof treats one by one.
LEMMA EmitInvParts == EmitInv <=> EmitTypeOK /\ BlockPhases /\ CodeInv
BY DEF EmitInv, CodeInv, StartsInv

\* The invariant of the next state in these parts.
LEMMA EmitInvParts1 == EmitInv' <=> EmitTypeOK' /\ BlockPhases' /\ CodeInv'
BY DEF EmitInv, CodeInv, StartsInv

\* What a call of the next state carries.
LEMMA CallFields1 ==
    ASSUME NEW c \in CallRecord'
    PROVE  /\ c.op = "put" => c.n \in Nat
           /\ c.op = "use" => c.l \in allocated' /\ c.k \in InstLabelUse
           /\ c.op = "jump" => c.l \in allocated'
           /\ c.op = "bind" => c.l \in NumBlocks .. (nlabels' - 1)
           /\ c.op \in {"put", "align", "island", "use", "jump", "bind", "case", "check",
                        "bb_start", "padding"}
BY DEF CallRecord

\* An interval grows with its upper bound.
LEMMA IntervalGrows ==
    ASSUME NEW p \in Int, NEW q \in Int, NEW r \in Int, r >= q
    PROVE  \A x \in p .. (q - 1) : x \in p .. (r - 1)
OBVIOUS

\* With more labels handed out, the calls left to make are still calls.
LEMMA CallsGrow ==
    ASSUME nlabels \in Int, nlabels' \in Int, nlabels' >= nlabels
    PROVE  CallRecord \subseteq CallRecord' /\ \A t \in Seq(CallRecord) : t \in Seq(CallRecord')
<1>1. \A x \in allocated : x \in allocated'
  BY AllocatedGrows
<1>2. \A x \in NumBlocks .. (nlabels - 1) : x \in NumBlocks .. (nlabels' - 1)
  <2>1. NumBlocks \in Int
    BY SizesAssumption
  <2> QED  BY <2>1, IntervalGrows
<1>3. CallRecord \subseteq CallRecord'
  <2> DEFINE own == NumBlocks .. (nlabels - 1)
             own1 == NumBlocks .. (nlabels' - 1)
             here == allocated
             there == allocated'
  <2>1. (\A x \in here : x \in there) /\ (\A x \in own : x \in own1)
    BY <1>1, <1>2
  <2>2. CallRecord = [op: {"put"}, n: Nat] \cup [op: {"align"}, a: Nat \ {0}]
                     \cup [op: {"island"}, d: Nat]
                     \cup [op: {"use"}, l: here, k: InstLabelUse] \cup [op: {"jump"}, l: here]
                     \cup [op: {"bind"}, l: own] \cup [op: {"case"}, l: Blocks]
                     \cup [op: {"check", "bb_start", "padding"}]
    BY DEF CallRecord
  <2>3. CallRecord' = [op: {"put"}, n: Nat] \cup [op: {"align"}, a: Nat \ {0}]
                     \cup [op: {"island"}, d: Nat]
                     \cup [op: {"use"}, l: there, k: InstLabelUse] \cup [op: {"jump"}, l: there]
                     \cup [op: {"bind"}, l: own1] \cup [op: {"case"}, l: Blocks]
                     \cup [op: {"check", "bb_start", "padding"}]
    BY DEF CallRecord
  <2> HIDE DEF own, own1, here, there
  <2> QED  BY <2>1, <2>2, <2>3
<1> QED  BY <1>3, SeqMonotonic

\* Blocks keep their starts when no block label moves.
LEMMA StartsKept ==
    ASSUME EmitTypeOK, BlockPhases, StartsInv, ~starting, ~starting', ~finishing,
           UNCHANGED <<family, bb_starts>>, UNCHANGED block \/ block >= NumBlocks,
           \A l \in Blocks : l \in live' => l \in live /\ label_offsets'[l] = label_offsets[l]
    PROVE  StartsInv'
<1>1. StartsOrdered'
  BY DEF StartsInv, StartsOrdered, Deleted
<1>2. StartsAtLabels'
  <2>1. \A i \in DOMAIN bb_starts : final_order[i] \in Blocks
    <3>1. Len(bb_starts) = Least(block, NumBlocks) /\ DOMAIN bb_starts = 1 .. Len(bb_starts)
          /\ block \in Int /\ NumBlocks \in Int
      BY SizesAssumption DEF EmitTypeOK, BlockPhases
    <3>2. DOMAIN bb_starts \subseteq 1 .. NumBlocks
      BY <3>1 DEF Least
    <3> QED  BY <3>2, FinalOrder
  <2> QED  BY <2>1, OrderKept DEF StartsInv, StartsAtLabels, Deleted
<1>3. LabelsAtStarts'
  <2>1. \A l : begun(l)' => begun(l)
    <3>1. \A i \in 1 .. NumBlocks : i <= block' => i <= block
      BY SizesAssumption DEF EmitTypeOK
    <3> QED  BY <3>1, OrderKept DEF begun
  <2> QED  BY <2>1 DEF StartsInv, LabelsAtStarts, starts, Deleted
<1> QED  BY <1>1, <1>2, <1>3 DEF StartsInv

\* The calls of an instruction, or a jump around an island, come next.
LEMMA NewCalls ==
    ASSUME FInv, EmitInv, FInv', pc = "idle", ~finishing, ~starting,
           todo = <<>> \/ Head(todo).op \in {"check", "case"},
           UNCHANGED <<off, labelVars, latest_branches, pending_fixup_records,
                       pending_fixup_deadline, fixup_records, deferVars, pc, islandVars>>,
           UNCHANGED <<family, block, bb_starts>>, nlabels' \in Nat, nlabels' >= nlabels,
           NEW t \in Seq(CallRecord'), NEW v \in Seq(CallRecord'),
           todo' = t \o v, Ordered(t), Starts(t), OwnLabels(t), Plain(v)
    PROVE  CodeInv' /\ ~starting'
<1>0. /\ IInv /\ TypeOK /\ TypeOK' /\ EmitTypeOK /\ BlockPhases /\ CodeInv /\ nlabels \in Nat
      /\ UnusedUnbound /\ NumBlocks \in Nat
  BY EmitInvParts, AllocatedLabels DEF FInv, IInv
<1> DEFINE n == Len(t)
           m == Len(v)
<1>1. /\ n \in Nat /\ n >= 1 /\ m \in Nat /\ todo' \in Seq(CallRecord')
      /\ Len(todo') = n + m /\ DOMAIN todo' = 1 .. (n + m) /\ DOMAIN t = 1 .. n
      /\ \A j \in 1 .. n : todo'[j] = t[j]
      /\ \A j \in 1 .. (n + m) : j > n => todo'[j] = v[j - n] /\ j - n \in DOMAIN v
  BY DEF Starts
<1>2. todo' # <<>> /\ Head(todo') = t[1] /\ todo'[1] = t[1]
  BY <1>1
<1>3. Len(t) = n
  OBVIOUS
<1> HIDE DEF n, m
<1>4. t[1].op \in {"put", "use", "case", "jump"}
  BY DEF Starts, puts
<1>5. ~starting'
  BY <1>2, <1>4 DEF starting
<1>6. ASSUME NEW j \in DOMAIN todo',
             todo'[j].op = "bind" \/ jumps_ahead(todo'[j]) \/ uses_literal(todo'[j])
      PROVE  /\ todo'[j].l >= nlabels /\ todo'[j].l \in Label /\ todo'[j].l \notin allocated
             /\ todo'[j].l \in Nat
  <2>1. j <= n
    <3>1. CASE j > n
      <4>1. plain(todo'[j])
        BY <1>1, <3>1 DEF Plain
      <4> QED  BY <4>1, <1>6 DEF plain
    <3> QED  BY <3>1, <1>1
  <2>2. j \in DOMAIN t /\ todo'[j] = t[j] /\ t[j] \in CallRecord'
    BY <1>1, <2>1
  <2>3. t[j].l >= nlabels
    BY <1>6, <2>2 DEF OwnLabels
  <2>4. t[j].l \in allocated' \/ t[j].l \in NumBlocks .. (nlabels' - 1)
    BY <1>6, <2>2, CallFields1 DEF jumps_ahead, uses_literal
  <2>5. t[j].l \in Label /\ t[j].l \in Nat
    <3>1. nlabels' <= MaxLabels /\ MaxLabels \in Nat
      BY <1>0, SizesAssumption DEF TypeOK
    <3>2. t[j].l \in 0 .. (nlabels' - 1)
      BY <1>0, <2>4 DEF allocated
    <3> QED  BY <3>1, <3>2 DEF Label
  <2>6. t[j].l \notin allocated
    BY <1>0, <2>3, <2>5 DEF allocated
  <2> QED  BY <2>2, <2>3, <2>5, <2>6
<1>7. CallsInOrder'
  <2>1. Ordered(todo')
    BY ConcatOrdered
  <2>2. ASSUME NEW j \in DOMAIN todo', jumps_ahead(todo'[j]) \/ uses_literal(todo'[j])
        PROVE  todo'[j].l >= NumBlocks /\ label_offsets'[todo'[j].l] = UNKNOWN_LABEL_OFFSET
    <3>1. /\ todo'[j].l >= nlabels /\ todo'[j].l \in Label /\ todo'[j].l \notin allocated
          /\ todo'[j].l \in Nat
      BY <1>6, <2>2
    <3>2. label_offsets[todo'[j].l] = UNKNOWN_LABEL_OFFSET
      BY <1>0, <3>1 DEF UnusedUnbound
    <3>3. nlabels >= NumBlocks
      BY <1>0 DEF EmitTypeOK
    <3> QED  BY <1>0, <3>1, <3>2, <3>3 DEF labelVars
  <2>3. \A j \in DOMAIN todo' : in_order(todo', j)
    BY <2>1 DEF Ordered
  <2> QED
    BY <2>2, <2>3, ZenonT(60)
       DEF CallsInOrder, in_order, bind_in_order, next_op, puts_next, jumps_past, jumps_ahead,
           uses_literal, grows, puts, plain, UNKNOWN_LABEL_OFFSET
<1>8. NextCallReady'
  <2>1. jumps_ahead(t[1]) => next_op(t, 1, "island")
    <3>1. t[1] \in CallRecord'
      BY <1>1
    <3>2. t[1].op = "jump" => t[1].l \in allocated'
      BY <3>1, CallFields1
    <3>3. t[1].op = "jump" => t[1].l \in Int
      BY <3>2 DEF allocated
    <3> QED  BY <1>0, <3>3 DEF Starts, jumps_ahead, puts
  <2>2. next_op(t, 1, "island") => next_op(todo', 1, "island")
    BY <1>1, <1>3 DEF next_op
  <2> QED  BY <1>2, <1>4, <2>1, <2>2 DEF NextCallReady, jumps_ahead, next_op
<1>9. TailSettled'
  <2>1. grows_next'
    BY <1>2, <1>4 DEF grows_next, puts_first, puts, Starts
  <2> QED  BY <2>1 DEF TailSettled
<1>10. BlocksAliasBlocks'
  BY <1>0 DEF CodeInv, BlocksAliasBlocks, labelVars
<1>11. live' = live /\ label_offsets' = label_offsets /\ off' = off
  BY DEF live, labelVars
<1>12. StartsInv'
  BY <1>0, <1>5, <1>11, StartsKept DEF CodeInv
<1>13. literal_labels' = literal_labels
  BY DEF literal_labels, outstanding, islandVars
<1>14. ~puts_first
  BY DEF puts_first, puts
<1>15. \A l \in literal_labels : l \in NumBlocks .. (nlabels - 1)
  BY <1>0 DEF CodeInv, LiteralsStay
<1>16. LiteralsStay'
  BY <1>0, <1>11, <1>13, <1>14 DEF CodeInv, LiteralsStay, UNKNOWN_LABEL_OFFSET
<1>17. LiteralsAhead'
  <2> SUFFICES ASSUME NEW l \in literal_labels, NEW j \in DOMAIN todo',
                      todo'[j].op = "bind", todo'[j].l = l
               PROVE  FALSE
    BY <1>13 DEF LiteralsAhead
  <2> QED  BY <1>0, <1>6, <1>15
<1> QED  BY <1>5, <1>7, <1>8, <1>9, <1>10, <1>12, <1>16, <1>17 DEF CodeInv

\* What is left after a check, a case or padding are calls without an order.
LEMMA PlainTail ==
    ASSUME EmitInv, todo # <<>>, Head(todo).op \in {"check", "case", "padding"}
    PROVE  Plain(Tail(todo)) /\ ~starting /\ ~finishing /\ ~puts_first
<1>0. EmitTypeOK /\ BlockPhases /\ CallsInOrder
  BY EmitInvParts DEF CodeInv
<1>1. \A i \in 2 .. Len(todo) : plain(todo[i])
  BY <1>0, TodoTail DEF CallsInOrder, in_order
<1>2. Plain(Tail(todo))
  BY <1>0, <1>1, TodoTail DEF Plain
<1>3. ~starting /\ ~puts_first
  BY DEF starting, puts_first, puts
<1>4. ~finishing
  BY <1>0 DEF BlockPhases
<1> QED  BY <1>2, <1>3, <1>4

\* Such calls come next.
LEMMA PlainCalls ==
    ASSUME FInv, EmitInv, todo # <<>>, Head(todo).op \in {"check", "padding"},
           UNCHANGED <<vars, family, block, bb_starts>>,
           todo' \in Seq(CallRecord'), Plain(todo')
    PROVE  CodeInv' /\ ~starting'
<1>0. EmitTypeOK /\ BlockPhases /\ CodeInv
  BY EmitInvParts
<1>a. ~starting /\ ~finishing /\ ~puts_first
  BY PlainTail
<1>b. /\ UNCHANGED <<off, nlabels, label_offsets, label_aliases, latest_branches,
                     pending_fixup_records, fixup_records, taken, pc, finishing>>
      /\ live' = live
  BY DEF vars, labelVars, islandVars, live
<1>1. /\ Len(todo') \in Nat /\ DOMAIN todo' = 1 .. Len(todo')
      /\ todo' # <<>> => Head(todo') = todo'[1] /\ 1 \in DOMAIN todo'
  OBVIOUS
<1>2. \A j \in DOMAIN todo' : /\ todo'[j].op \notin {"bind", "bb_start"}
                              /\ ~jumps_ahead(todo'[j]) /\ ~uses_literal(todo'[j])
  BY DEF Plain, plain
<1>3. ~starting'
  BY <1>1, <1>2 DEF starting
<1>4. CallsInOrder'
  <2>1. \A j \in DOMAIN todo' : in_order(todo', j)
    BY PlainOrdered DEF Ordered
  <2> QED
    BY <1>2, <2>1
       DEF CallsInOrder, in_order, bind_in_order, next_op, puts_next, jumps_past, jumps_ahead,
           uses_literal, grows, puts, plain, UNKNOWN_LABEL_OFFSET
<1>5. NextCallReady'
  <2>1. ~next_op(todo', 1, "bind")
    BY <1>1, <1>2 DEF next_op
  <2> QED  BY <1>1, <1>2, <2>1 DEF NextCallReady, jumps_ahead, next_op
<1>6. TailSettled'
  <2>1. past_blocks /\ (tail_free \/ no_label_at_tail)
    BY <1>0, <1>a DEF CodeInv, TailSettled, grows_next
  <2>2. past_blocks' /\ (tail_free' \/ no_label_at_tail')
    BY <1>b, <2>1 DEF past_blocks, tail_free, no_label_at_tail, labels_bound_at, b, Last
  <2> QED  BY <2>2 DEF TailSettled
<1>7. BlocksAliasBlocks'
  BY <1>0, <1>b DEF CodeInv, BlocksAliasBlocks
<1>8. StartsInv'
  BY <1>0, <1>a, <1>b, <1>3, StartsKept DEF CodeInv
<1>9. literal_labels' = literal_labels
  BY <1>b DEF literal_labels, outstanding
<1>10. LiteralsStay' /\ LiteralsAhead'
  BY <1>0, <1>a, <1>b, <1>2, <1>9 DEF CodeInv, LiteralsStay, LiteralsAhead, UNKNOWN_LABEL_OFFSET
<1> QED  BY <1>3, <1>4, <1>5, <1>6, <1>7, <1>8, <1>10 DEF CodeInv

\* Padding between blocks is such a list of calls.
LEMMA PaddingPlain ==
    ASSUME EmitTypeOK
    PROVE  padding \in Seq(CallRecord') /\ Plain(padding)
<1>1. family.padding \in Nat /\ Align \in Nat \ {0}
  BY EmitAssumption, SizesAssumption DEF EmitTypeOK
<1>2. /\ [op |-> "padding"] \in CallRecord' /\ put(family.padding) \in CallRecord'
      /\ align(Align) \in CallRecord'
  BY <1>1, MakeCalls
<1>3. CASE family.padding = 0
  BY <1>3 DEF padding, Plain
<1>4. CASE family.padding # 0
  <2> DEFINE t == <<[op |-> "padding"], put(family.padding), align(Align)>>
  <2>1. padding = t
    BY <1>4 DEF padding
  <2>2. t \in Seq(CallRecord')
    BY <1>2
  <2>3. Plain(t)
    BY DEF Plain, plain, put, align, jumps_ahead, uses_literal
  <2> QED  BY <2>1, <2>2, <2>3
<1> QED  BY <1>3, <1>4

\* The elements of two sequences, one after the other.
LEMMA ConcatFacts ==
    ASSUME NEW R, NEW t \in Seq(R), NEW v \in Seq(R)
    PROVE  /\ t \o v \in Seq(R) /\ Len(t \o v) = Len(t) + Len(v)
           /\ DOMAIN (t \o v) = 1 .. (Len(t) + Len(v))
           /\ Len(t) \in Nat /\ Len(v) \in Nat /\ DOMAIN t = 1 .. Len(t) /\ DOMAIN v = 1 .. Len(v)
           /\ \A j \in 1 .. (Len(t) + Len(v)) :
                 (t \o v)[j] = IF j <= Len(t) THEN t[j] ELSE v[j - Len(t)]
OBVIOUS

\* Two lists without an order, one after the other.
LEMMA PlainConcat ==
    ASSUME NEW R, NEW t \in Seq(R), NEW v \in Seq(R), Plain(t), Plain(v)
    PROVE  Plain(t \o v)
<1>1. /\ Len(t) \in Nat /\ Len(v) \in Nat /\ DOMAIN t = 1 .. Len(t) /\ DOMAIN v = 1 .. Len(v)
      /\ DOMAIN (t \o v) = 1 .. (Len(t) + Len(v))
      /\ \A j \in 1 .. (Len(t) + Len(v)) :
            (t \o v)[j] = IF j <= Len(t) THEN t[j] ELSE v[j - Len(t)]
  OBVIOUS
<1> QED  BY <1>1 DEF Plain

\* Inst::emit: an instruction of the menu.
LEMMA EmitInstInv ==
    ASSUME FInv, EmitInv, FInv', block \in 1 .. NumBlocks, NEW i \in family.menu[block], EmitInst(i)
    PROVE  EmitInv'
<1>0. /\ TypeOK /\ EmitTypeOK /\ BlockPhases /\ nlabels \in Nat /\ NumBlocks \in Nat
      /\ todo = <<>> /\ ~finishing /\ pc = "idle" /\ in_block
  BY EmitInvParts, AllocatedLabels DEF EmitInst, ready, FInv, IInv
<1>1. i \in Inst
  BY <1>0, EmitAssumption DEF EmitTypeOK
<1>2. /\ nlabels' = nlabels + fresh(i) /\ fresh(i) \in 0 .. 2
      /\ UNCHANGED <<off, labelVars, latest_branches, pending_fixup_records,
                     pending_fixup_deadline, fixup_records, deferVars, pc, islandVars, family,
                     block, bb_starts>>
      /\ emitted' = emitted + 1 /\ in_block' = (i.op \notin terminators)
  BY DEF EmitInst, fresh
<1>3. nlabels' \in Nat /\ nlabels' >= nlabels
  BY <1>0, <1>2
<1> DEFINE c == calls(i, nlabels, nlabels + fresh(i) - 1)
           pad == IF i.op \in terminators THEN padding ELSE <<>>
           v == <<check>> \o pad
<1>4. c \in Seq(CallRecord') /\ Ordered(c) /\ Starts(c) /\ OwnLabels(c)
  BY <1>0, <1>1, <1>2, InstCalls
<1>5. todo' = (c \o <<check>>) \o pad
  BY DEF EmitInst
<1> HIDE DEF c
<1>6. pad \in Seq(CallRecord') /\ Plain(pad)
  BY <1>0, PaddingPlain DEF Plain
<1> HIDE DEF pad
<1>7. <<check>> \in Seq(CallRecord') /\ Plain(<<check>>)
  BY MakeCalls DEF Plain, plain, check, jumps_ahead, uses_literal
<1>8. v \in Seq(CallRecord') /\ Plain(v)
  <2> DEFINE k == <<check>>
  <2>1. k \in Seq(CallRecord') /\ Plain(k)
    BY <1>7
  <2>2. v = k \o pad
    OBVIOUS
  <2> HIDE DEF k, v
  <2>3. k \o pad \in Seq(CallRecord')
    BY <1>6, <2>1, ConcatProperties
  <2>4. Plain(k \o pad)
    BY <1>6, <2>1, PlainConcat
  <2> QED  BY <2>2, <2>3, <2>4
<1>9. todo' = c \o v
  BY <1>4, <1>5, <1>6, <1>7, ConcatAssociative
<1>a. ~starting
  BY <1>0 DEF starting
<1> HIDE DEF v
<1>10. CodeInv' /\ ~starting'
  BY <1>0, <1>2, <1>3, <1>4, <1>8, <1>9, <1>a, NewCalls
<1>11. todo' \in Seq(CallRecord')
  BY <1>4, <1>8, <1>9
<1>12. EmitTypeOK'
  <2>1. emitted' \in Nat /\ in_block' \in BOOLEAN /\ NumBlocks <= nlabels'
    BY <1>0, <1>2, <1>3 DEF EmitTypeOK
  <2> QED  BY <1>0, <1>2, <1>11, <2>1 DEF EmitTypeOK
<1>13. BlockPhases'
  BY <1>0, <1>2, <1>10, <1>a DEF BlockPhases, EmitTypeOK, deferVars, islandVars
<1> QED  BY <1>10, <1>12, <1>13, EmitInvParts1

\* A jump around an island, before a list of calls without an order.
LEMMA JumpAround ==
    ASSUME TypeOK, EmitTypeOK, NEW d \in Nat, NEW v \in Seq(CallRecord'), Plain(v),
           nlabels' = nlabels + 1
    PROVE  LET t == jump_around(d) \o v IN
           t \in Seq(CallRecord') /\ Ordered(t) /\ Starts(t) /\ OwnLabels(t)
<1>0. nlabels \in Nat /\ NumBlocks \in Nat /\ nlabels >= NumBlocks /\ nlabels' \in Nat
  BY AllocatedLabels DEF EmitTypeOK
<1>1. nlabels \in allocated' /\ nlabels \in NumBlocks .. (nlabels' - 1)
  BY <1>0 DEF allocated
<1> DEFINE k == jump_around(d)
<1>2. k = <<jump(nlabels), island(d), bind_to(nlabels)>>
  BY DEF jump_around
<1>3. jump(nlabels) \in CallRecord' /\ island(d) \in CallRecord' /\ bind_to(nlabels) \in CallRecord'
  BY <1>1, MakeCalls
<1>4. /\ k \in Seq(CallRecord') /\ Len(k) = 3 /\ k[1] = jump(nlabels) /\ k[2] = island(d)
      /\ k[3] = bind_to(nlabels)
  BY <1>2, <1>3
<1>5. Ordered(k)
  <2>1. Ordered(<<jump(nlabels), island(d), bind_to(nlabels)>>)
    <3>1. nlabels + 1 \in Nat /\ nlabels + 1 >= NumBlocks /\ nlabels # nlabels + 1
      BY <1>0
    <3> QED  BY <1>0, <3>1, InstOrdered
  <2> QED  BY <1>2, <2>1
<1> HIDE DEF k
<1> DEFINE t == k \o v
<1>6. /\ t \in Seq(CallRecord') /\ Len(t) >= 3 /\ t # <<>> /\ t[1] = k[1] /\ t[2] = k[2]
      /\ \A j \in DOMAIN t : \/ j \in 1 .. 3 /\ t[j] = k[j]
                             \/ j - 3 \in DOMAIN v /\ t[j] = v[j - 3]
  <2>1. k \in Seq(CallRecord') /\ Len(k) = 3
    BY <1>4
  <2> DEFINE R == CallRecord'
  <2>2. k \in Seq(R) /\ v \in Seq(R)
    BY <2>1
  <2> HIDE DEF R
  <2>3. /\ k \o v \in Seq(R) /\ Len(k \o v) = Len(k) + Len(v)
        /\ DOMAIN (k \o v) = 1 .. (Len(k) + Len(v)) /\ Len(v) \in Nat /\ DOMAIN v = 1 .. Len(v)
    BY <2>2, ConcatFacts
  <2>4. \A j \in 1 .. (Len(k) + Len(v)) :
           (k \o v)[j] = IF j <= Len(k) THEN k[j] ELSE v[j - Len(k)]
    BY <2>2, ConcatFacts
  <2>5. t = k \o v /\ R = CallRecord'
    BY DEF R
  <2> HIDE DEF t
  <2>6. t \in Seq(CallRecord') /\ Len(t) >= 3 /\ t # <<>> /\ t[1] = k[1] /\ t[2] = k[2]
    BY <2>1, <2>3, <2>4, <2>5
  <2>7. ASSUME NEW j \in DOMAIN t
        PROVE  (j \in 1 .. 3 /\ t[j] = k[j]) \/ (j - 3 \in DOMAIN v /\ t[j] = v[j - 3])
    BY <2>1, <2>3, <2>4, <2>5
  <2> QED  BY <2>6, <2>7
<1>7. Ordered(t)
  BY <1>4, <1>5, ConcatOrdered
<1> HIDE DEF t
<1>8. Starts(t)
  BY <1>4, <1>6 DEF Starts, next_op, jump, island
<1>9. OwnLabels(t)
  <2>1. ASSUME NEW j \in DOMAIN t, t[j].op = "bind" \/ jumps_ahead(t[j]) \/ uses_literal(t[j])
        PROVE  t[j].l >= nlabels
    <3>1. ~(j - 3 \in DOMAIN v /\ t[j] = v[j - 3])
      BY <2>1 DEF Plain, plain
    <3>2. j \in 1 .. 3 /\ t[j] = k[j]
      BY <1>6, <3>1
    <3> QED  BY <1>0, <1>4, <2>1, <3>2 DEF jump, island, bind_to, uses_literal, jumps_ahead
  <2> QED  BY <2>1 DEF OwnLabels
<1> QED  BY <1>6, <1>7, <1>8, <1>9 DEF t, k

\* do_emit, after the instruction: with or without an island.
LEMMA CallCheckInv == FInv /\ EmitInv /\ FInv' /\ CallCheck => EmitInv'
<1> SUFFICES ASSUME FInv, EmitInv, FInv', CallCheck PROVE EmitInv'
  OBVIOUS
<1>0. /\ TypeOK /\ EmitTypeOK /\ BlockPhases /\ nlabels \in Nat /\ NumBlocks \in Nat
      /\ todo # <<>> /\ Head(todo).op = "check" /\ pc = "idle"
  BY EmitInvParts, AllocatedLabels DEF CallCheck, next_call, FInv, IInv
<1>1. /\ Plain(Tail(todo)) /\ ~starting /\ ~finishing /\ Tail(todo) \in Seq(CallRecord)
  BY <1>0, PlainTail, TodoTail
<1>2. UNCHANGED <<off, labelVars, latest_branches, pending_fixup_records,
                  pending_fixup_deadline, fixup_records, deferVars, pc, islandVars,
                  family, block, in_block, emitted, bb_starts>>
  BY DEF CallCheck, expands
<1>3. /\ nlabels' \in Nat /\ nlabels' >= nlabels
  BY <1>0 DEF CallCheck, expands
<1>4. Tail(todo) \in Seq(CallRecord')
  BY <1>0, <1>1, <1>3, CallsGrow
<1>5. todo' \in Seq(CallRecord') /\ CodeInv' /\ ~starting'
  <2>1. CASE island_needed(lookahead)
    <3>1. todo' = jump_around(0) \o Tail(todo) /\ nlabels' = nlabels + 1
      BY <2>1 DEF CallCheck, expands
    <3> DEFINE t == jump_around(0) \o Tail(todo)
               v == <<>>
    <3>2. t \in Seq(CallRecord') /\ Ordered(t) /\ Starts(t) /\ OwnLabels(t)
      BY <1>0, <1>1, <1>4, <3>1, JumpAround
    <3>3. v \in Seq(CallRecord') /\ Plain(v)
      BY DEF Plain
    <3>4. todo' = t \o v
      BY <3>1, <3>2, <3>3, ConcatEmptySeq
    <3> HIDE DEF t, v
    <3>5. t \o v \in Seq(CallRecord')
      BY <3>2, <3>3
    <3> QED  BY <1>0, <1>1, <1>2, <1>3, <3>2, <3>3, <3>4, <3>5, NewCalls
  <2>2. CASE ~island_needed(lookahead)
    <3>1. todo' = <<>> \o Tail(todo) /\ nlabels' = nlabels
      BY <2>2 DEF CallCheck, expands
    <3>2. todo' = Tail(todo)
      BY <1>1, <3>1, ConcatEmptySeq
    <3>3. UNCHANGED <<vars, family, block, bb_starts>>
      BY <1>2, <3>1 DEF vars
    <3> QED  BY <1>0, <1>1, <1>4, <3>2, <3>3, PlainCalls
  <2> QED  BY <2>1, <2>2
<1>6. EmitTypeOK'
  <2>1. NumBlocks <= nlabels'
    BY <1>0, <1>3 DEF EmitTypeOK
  <2> QED  BY <1>0, <1>2, <1>5, <2>1 DEF EmitTypeOK
<1>7. BlockPhases'
  <2>1. block <= NumBlocks
    BY <1>0 DEF BlockPhases, EmitTypeOK
  <2> QED  BY <1>0, <1>1, <1>2, <1>5, <2>1 DEF BlockPhases, deferVars, islandVars
<1> QED  BY <1>5, <1>6, <1>7, EmitInvParts1

\* BrTable, before one of its comparisons: with or without an island.
LEMMA CallCaseInv == FInv /\ EmitInv /\ FInv' /\ CallCase => EmitInv'
<1> SUFFICES ASSUME FInv, EmitInv, FInv', CallCase PROVE EmitInv'
  OBVIOUS
<1>0. /\ TypeOK /\ EmitTypeOK /\ BlockPhases /\ nlabels \in Nat /\ NumBlocks \in Nat
      /\ todo # <<>> /\ Head(todo).op = "case" /\ pc = "idle" /\ nlabels >= NumBlocks
  BY EmitInvParts, AllocatedLabels DEF CallCase, next_call, FInv, IInv, EmitTypeOK
<1>1. /\ Plain(Tail(todo)) /\ ~starting /\ ~finishing /\ Tail(todo) \in Seq(CallRecord)
      /\ Head(todo).l \in Blocks
  BY <1>0, PlainTail, TodoTail, CallFields
<1>2. UNCHANGED <<off, labelVars, latest_branches, pending_fixup_records,
                  pending_fixup_deadline, fixup_records, deferVars, pc, islandVars,
                  family, block, in_block, emitted, bb_starts>>
  BY DEF CallCase, expands
<1>3. /\ nlabels' \in Nat /\ nlabels' >= nlabels
  BY <1>0 DEF CallCase, expands
<1>4. Tail(todo) \in Seq(CallRecord')
  BY <1>0, <1>1, <1>3, CallsGrow
<1> DEFINE l == Head(todo).l
           compare == <<put(6), use(l, "Cond7")>>
           v == Tail(todo)
<1>5. /\ compare \in Seq(CallRecord') /\ Plain(compare) /\ Starts(compare) /\ OwnLabels(compare)
  <2>1. l \in allocated' /\ l \in Nat
    BY <1>0, <1>1, <1>3 DEF Blocks, allocated
  <2> HIDE DEF l
  <2>2. put(6) \in CallRecord' /\ use(l, "Cond7") \in CallRecord'
    BY <2>1, MakeCalls, InstKinds
  <2> QED
    BY <2>2 DEF Plain, plain, Starts, OwnLabels, put, use, puts, jumps_ahead, uses_literal
<1>6. Ordered(compare)
  BY <1>5, PlainOrdered
<1>7. todo' = (IF island_needed(26) THEN jump_around(28) \o compare ELSE compare) \o v
      /\ nlabels' = IF island_needed(26) THEN nlabels + 1 ELSE nlabels
  BY DEF CallCase, expands
<1> HIDE DEF compare, v
<1>8. v \in Seq(CallRecord') /\ Plain(v)
  BY <1>1, <1>4 DEF v
<1>9. PICK t \in Seq(CallRecord') : todo' = t \o v /\ Ordered(t) /\ Starts(t) /\ OwnLabels(t)
  <2>1. CASE island_needed(26)
    <3>1. LET t == jump_around(28) \o compare IN
          t \in Seq(CallRecord') /\ Ordered(t) /\ Starts(t) /\ OwnLabels(t)
      BY <1>0, <1>5, <1>7, <2>1, JumpAround
    <3> QED  BY <1>7, <2>1, <3>1
  <2>2. CASE ~island_needed(26)
    BY <1>5, <1>6, <1>7, <2>2
  <2> QED  BY <2>1, <2>2
<1>10. todo' \in Seq(CallRecord')
  BY <1>8, <1>9
<1>11. CodeInv' /\ ~starting'
  BY <1>0, <1>1, <1>2, <1>3, <1>8, <1>9, NewCalls
<1>12. EmitTypeOK'
  <2>1. NumBlocks <= nlabels'
    BY <1>0, <1>3
  <2> QED  BY <1>0, <1>2, <1>10, <2>1 DEF EmitTypeOK
<1>13. BlockPhases'
  <2>1. block <= NumBlocks
    BY <1>0 DEF BlockPhases, EmitTypeOK
  <2> QED  BY <1>0, <1>1, <1>2, <1>11, <2>1 DEF BlockPhases, deferVars, islandVars
<1> QED  BY <1>11, <1>12, <1>13, EmitInvParts1

\* VCode::emit, before the padding between two blocks.
LEMMA CallPaddingInv == FInv /\ EmitInv /\ CallPadding => EmitInv'
<1> SUFFICES ASSUME FInv, EmitInv, CallPadding PROVE EmitInv'
  OBVIOUS
<1>0. /\ TypeOK /\ EmitTypeOK /\ BlockPhases
      /\ todo # <<>> /\ Head(todo).op = "padding" /\ pc = "idle"
  BY EmitInvParts DEF CallPadding, next_call, FInv, IInv
<1>1. /\ Plain(Tail(todo)) /\ ~starting /\ ~finishing /\ Tail(todo) \in Seq(CallRecord)
  BY <1>0, PlainTail, TodoTail
<1>2. UNCHANGED <<vars, family, block, in_block, emitted, bb_starts>>
  BY DEF CallPadding
<1>3. nlabels' = nlabels /\ CallRecord' = CallRecord /\ latest_branches' = latest_branches
      /\ finishing' = finishing /\ pending_traps' = pending_traps
      /\ pending_constants' = pending_constants
  BY <1>2 DEF vars, CallRecord, allocated, islandVars, deferVars
<1> DEFINE first == IF island_needed(padding_len + lookahead)
                    THEN <<island(padding_len + lookahead)>> ELSE <<>>
<1>4. todo' = first \o Tail(todo)
  BY DEF CallPadding
<1>5. first \in Seq(CallRecord') /\ Plain(first)
  <2>1. family.padding \in Nat /\ Align \in Nat \ {0}
    BY <1>0, EmitAssumption, SizesAssumption DEF EmitTypeOK
  <2> DEFINE d == padding_len + lookahead
  <2>2. d \in Nat
    BY <2>1 DEF padding_len, lookahead, worst_case_size, worst_case_island_growth
  <2> HIDE DEF d
  <2>3. island(d) \in CallRecord'
    BY <2>2, MakeCalls
  <2>4. <<island(d)>> \in Seq(CallRecord') /\ Plain(<<island(d)>>)
    BY <2>3 DEF Plain, plain, island, jumps_ahead, uses_literal
  <2>5. <<>> \in Seq(CallRecord') /\ Plain(<<>>)
    BY DEF Plain
  <2> QED  BY <2>4, <2>5 DEF d
<1> HIDE DEF first
<1>6. todo' \in Seq(CallRecord') /\ Plain(todo')
  <2>1. Tail(todo) \in Seq(CallRecord')
    BY <1>1, <1>3
  <2>2. first \o Tail(todo) \in Seq(CallRecord')
    BY <1>5, <2>1, ConcatProperties
  <2>3. Plain(first \o Tail(todo))
    BY <1>1, <1>5, <2>1, PlainConcat
  <2> QED  BY <1>4, <2>2, <2>3
<1>7. CodeInv' /\ ~starting'
  BY <1>0, <1>2, <1>6, PlainCalls
<1>8. EmitTypeOK'
  BY <1>0, <1>2, <1>3, <1>6 DEF EmitTypeOK
<1>9. BlockPhases'
  <2>1. block <= NumBlocks
    BY <1>0, SizesAssumption DEF BlockPhases, EmitTypeOK
  <2> QED  BY <1>0, <1>1, <1>2, <1>3, <1>7, <2>1 DEF BlockPhases
<1> QED  BY <1>7, <1>8, <1>9, EmitInvParts1

(***************************************************************************)
(* Calls that emit code, jump or bind a label.                             *)
(***************************************************************************)

\* After the first call was made the others are left, in order.
LEMMA TailCalls ==
    ASSUME TypeOK, EmitInv, todo # <<>>, todo' = Tail(todo), UNCHANGED nlabels,
           \/ UNCHANGED label_offsets
           \/ /\ Head(todo).op = "bind"
              /\ \A l \in Label : l # Head(todo).l => label_offsets'[l] = label_offsets[l]
    PROVE  CallsInOrder' /\ todo' \in Seq(CallRecord') /\ ~starting'
<1>0. EmitTypeOK /\ CallsInOrder
  BY EmitInvParts DEF CodeInv
<1>1. CallRecord' = CallRecord
  BY DEF CallRecord, allocated
<1>2. /\ Head(todo) = todo[1] /\ Len(todo) \in Nat /\ DOMAIN todo = 1 .. Len(todo)
      /\ todo' \in Seq(CallRecord) /\ DOMAIN todo' = 1 .. (Len(todo) - 1)
      /\ \A j \in 1 .. (Len(todo) - 1) : todo'[j] = todo[j + 1]
      /\ todo \in Seq(CallRecord) /\ Len(todo') = Len(todo) - 1
  BY <1>0, TodoTail DEF EmitTypeOK
<1>3. Ordered(todo')
  <2>1. Ordered(todo)
    BY <1>0 DEF CallsInOrder, Ordered
  <2> QED  BY <1>2, <2>1, TailOrdered
<1>4. ASSUME NEW j \in DOMAIN todo', jumps_ahead(todo'[j]) \/ uses_literal(todo'[j])
      PROVE  todo'[j].l >= NumBlocks /\ label_offsets'[todo'[j].l] = UNKNOWN_LABEL_OFFSET
  <2>1. j + 1 \in DOMAIN todo /\ todo'[j] = todo[j + 1] /\ 1 \in 1 .. ((j + 1) - 1)
    BY <1>2
  <2>2. /\ todo'[j].l >= NumBlocks /\ label_offsets[todo'[j].l] = UNKNOWN_LABEL_OFFSET
        /\ todo[1].op # "bind"
    <3>1. in_order(todo, j + 1)
      BY <1>0, <2>1 DEF CallsInOrder
    <3>2. todo[1].op # "bind"
      BY <1>4, <2>1, <3>1 DEF in_order
    <3> QED  BY <1>0, <1>4, <2>1, <3>2 DEF CallsInOrder
  <2> QED  BY <1>2, <2>2
<1>5. CallsInOrder'
  <2>1. \A j \in DOMAIN todo' : in_order(todo', j)
    BY <1>3 DEF Ordered
  <2> QED
    BY <1>4, <2>1, SMTT(60)
       DEF CallsInOrder, in_order, bind_in_order, next_op, puts_next, jumps_past, jumps_ahead,
           uses_literal, grows, puts, plain, UNKNOWN_LABEL_OFFSET
<1>6. ~starting'
  <2> SUFFICES ASSUME starting' PROVE FALSE
    OBVIOUS
  <2>1. todo' # <<>> /\ Head(todo').op = "bb_start"
    BY DEF starting
  <2>2. Len(todo) >= 2 /\ Head(todo') = todo[2] /\ 2 \in DOMAIN todo
    BY <1>2, <2>1
  <2>3. in_order(todo, 2)
    BY <1>0, <2>2 DEF CallsInOrder
  <2> QED  BY <2>1, <2>2, <2>3 DEF in_order
<1> QED  BY <1>1, <1>2, <1>5, <1>6

\* What the order of the calls says of the next one.
LEMMA SecondCall ==
    ASSUME EmitInv, todo # <<>>, todo' = Tail(todo), todo' # <<>>
    PROVE  /\ Head(todo') = todo'[1] /\ 1 \in DOMAIN todo' /\ todo'[1] = todo[2]
           /\ todo'[1].op = "bind" =>
                \/ grows(Head(todo)) \/ Head(todo).op = "island"
                \/ jumps_ahead(Head(todo)) /\ Head(todo).l # todo'[1].l /\ puts_next(todo', 1)
                \/ Head(todo).op = "align" /\ Head(todo).a = 4 /\ puts_next(todo', 1)
           /\ todo'[1].op = "align" /\ next_op(todo', 1, "bind") =>
                jumps_ahead(Head(todo)) /\ Head(todo).l # todo'[2].l
           /\ jumps_ahead(todo'[1]) /\ ~next_op(todo', 1, "island") => grows(Head(todo))
<1>0. EmitTypeOK /\ CallsInOrder
  BY EmitInvParts DEF CodeInv
<1> DEFINE n == Len(todo)
<1>1. /\ Head(todo) = todo[1] /\ n \in Nat /\ DOMAIN todo = 1 .. n
      /\ DOMAIN todo' = 1 .. (n - 1) /\ Len(todo') = n - 1
      /\ \A j \in 1 .. (n - 1) : todo'[j] = todo[j + 1]
      /\ Head(todo') = todo'[1] /\ n >= 2
  BY <1>0, TodoTail
<1>2. Len(todo) = n
  OBVIOUS
<1> HIDE DEF n
<1>3. in_order(todo, 2) /\ todo'[1] = todo[2] /\ 1 \in DOMAIN todo' /\ 2 - 1 = 1
      /\ (n > 2 => todo'[2] = todo[3])
  BY <1>0, <1>1 DEF CallsInOrder
<1>4. puts_next(todo, 2) <=> puts_next(todo', 1)
  BY <1>1, <1>2, <1>3 DEF puts_next
<1>5. \A op : next_op(todo, 2, op) <=> next_op(todo', 1, op)
  BY <1>1, <1>2, <1>3 DEF next_op
<1>6. next_op(todo', 1, "bind") => todo'[2] = todo[3]
  BY <1>1, <1>3 DEF next_op
<1>7. todo'[1].op = "bind" =>
        \/ grows(Head(todo)) \/ Head(todo).op = "island"
        \/ jumps_ahead(Head(todo)) /\ Head(todo).l # todo'[1].l /\ puts_next(todo', 1)
        \/ Head(todo).op = "align" /\ Head(todo).a = 4 /\ puts_next(todo', 1)
  <2>1. todo[2].op = "bind" => bind_in_order(todo, 2)
    BY <1>3 DEF in_order
  <2> QED  BY <1>1, <1>3, <1>4, <2>1 DEF bind_in_order, jumps_past
<1>8. todo'[1].op = "align" /\ next_op(todo', 1, "bind") =>
        jumps_ahead(Head(todo)) /\ Head(todo).l # todo'[2].l
  <2>1. todo[2].op = "align" /\ next_op(todo, 2, "bind") => jumps_past(todo, 1, todo[3].l)
    BY <1>3 DEF in_order
  <2> QED  BY <1>1, <1>3, <1>5, <1>6, <2>1 DEF jumps_past
<1>9. jumps_ahead(todo'[1]) /\ ~next_op(todo', 1, "island") => grows(Head(todo))
  BY <1>1, <1>3, <1>5 DEF in_order
<1> QED  BY <1>1, <1>3, <1>7, <1>8, <1>9

\* A literal that is still to be bound after a call is aligned before.
LEMMA LiteralsNext ==
    ASSUME EmitInv, todo # <<>>, todo' = Tail(todo),
           \A l \in literal_labels' :
              l \in literal_labels \/ (uses_literal(Head(todo)) /\ l = Head(todo).l),
           Head(todo).op = "align" /\ Head(todo).a = 4 => pc' = "idle" /\ off' % 4 = 0
    PROVE  LiteralsAhead'
<1>0. EmitTypeOK /\ CallsInOrder /\ LiteralsAhead
  BY EmitInvParts DEF CodeInv
<1>1. /\ Head(todo) = todo[1] /\ Len(todo) \in Nat /\ DOMAIN todo = 1 .. Len(todo)
      /\ DOMAIN todo' = 1 .. (Len(todo) - 1) /\ 1 \in DOMAIN todo
      /\ \A j \in 1 .. (Len(todo) - 1) : todo'[j] = todo[j + 1]
  BY <1>0, TodoTail
<1> SUFFICES ASSUME NEW l \in literal_labels', NEW j \in DOMAIN todo',
                    todo'[j].op = "bind", todo'[j].l = l
             PROVE  IF j = 1 THEN pc' = "idle" /\ off' % 4 = 0 /\ puts_next(todo', 1)
                    ELSE todo'[j - 1].op = "align"
  BY DEF LiteralsAhead, puts_next, puts
<1>2. j + 1 \in DOMAIN todo /\ todo[j + 1].op = "bind" /\ todo[j + 1].l = l /\ j + 1 # 1
      /\ (j + 1) - 1 = j /\ j \in 1 .. (Len(todo) - 1)
  BY <1>1
<1>3. todo[j].op = "align"
  <2>1. CASE l \in literal_labels
    BY <1>0, <1>2, <2>1 DEF LiteralsAhead
  <2>2. CASE uses_literal(Head(todo)) /\ l = Head(todo).l
    <3>1. in_order(todo, 1)
      BY <1>0, <1>1 DEF CallsInOrder
    <3> QED  BY <1>1, <1>2, <2>2, <3>1 DEF in_order
  <2> QED  BY <2>1, <2>2
<1>4. CASE j = 1
  <2>0. todo' # <<>>
    <3>1. Len(todo) - 1 >= 1 /\ Len(todo') = Len(todo) - 1
      BY <1>0, <1>1, <1>2, TodoTail
    <3> QED  BY <3>1
  <2>1. Head(todo).op = "align" /\ todo' # <<>>
    BY <1>1, <1>3, <1>4, <2>0
  <2>2. Head(todo).a = 4 /\ puts_next(todo', 1)
    BY <1>4, <2>1, SecondCall DEF grows, puts, jumps_ahead
  <2> QED  BY <1>4, <2>1, <2>2
<1>5. CASE j # 1
  <2>1. j - 1 \in 1 .. (Len(todo) - 1) /\ (j - 1) + 1 = j
    BY <1>1, <1>2, <1>5
  <2>2. todo'[j - 1] = todo[j]
    BY <1>1, <2>1
  <2> QED  BY <1>3, <1>5, <2>2
<1> QED  BY <1>4, <1>5

\* Nothing is bound past the tail, and no branch ends there once code is added.
LEMMA Grown ==
    ASSUME IInv, off' \in Nat, off' > off, UNCHANGED <<label_offsets, label_aliases>>
    PROVE  /\ past_blocks' /\ no_label_at_tail'
           /\ UNCHANGED latest_branches => tail_free'
<1>1. off \in Nat /\ NoLabelPastTail /\ BranchesOrdered /\ label_offsets \in [Label -> Offset]
      /\ latest_branches \in Seq(Branch)
  BY DEF IInv, TypeOK
<1>2. live' = live
  BY DEF live
<1>3. \A l \in live : l \in Label /\ label_offsets[l] \in Int /\ label_offsets[l] < off'
  <2>1. \A l \in live : l \in Label /\ label_offsets[l] \in Int /\ label_offsets[l] <= off
    BY <1>1 DEF NoLabelPastTail, live, Offset, UNKNOWN_LABEL_OFFSET
  <2> QED  BY <1>1, <2>1
<1>4. past_blocks'
  BY <1>2, <1>3 DEF past_blocks
<1>5. no_label_at_tail'
  <2>1. \A l \in Label : ~(label_offsets[l] = off' /\ label_aliases[l] = UNKNOWN_LABEL)
    BY <1>1, <1>3 DEF live
  <2> QED  BY <2>1 DEF no_label_at_tail, labels_bound_at, UNKNOWN_LABEL
<1>6. ASSUME UNCHANGED latest_branches PROVE tail_free'
  <2>1. CASE latest_branches = <<>>
    BY <1>6, <2>1 DEF tail_free
  <2>2. CASE latest_branches # <<>>
    <3>1. Len(latest_branches) \in DOMAIN latest_branches
      BY <1>1, <2>2
    <3>2. b.end \in Nat /\ b.end <= off
      BY <1>1, <3>1, BranchType DEF IInv, b, Last, BranchesOrdered
    <3>3. b' = b
      BY <1>6 DEF b, Last
    <3> QED  BY <1>1, <3>2, <3>3 DEF tail_free
  <2> QED  BY <2>1, <2>2
<1> QED  BY <1>4, <1>5, <1>6

\* What an instruction that was emitted leaves of the starts of blocks.
LEMMA CallStarts ==
    ASSUME EmitInv, todo # <<>>, ~starting, ~starting', UNCHANGED <<family, bb_starts, block>>,
           \A l \in Blocks : l \in live' => l \in live /\ label_offsets'[l] = label_offsets[l]
    PROVE  StartsInv' /\ ~finishing
<1>1. EmitTypeOK /\ BlockPhases /\ StartsInv
  BY EmitInvParts DEF CodeInv
<1>2. ~finishing
  BY <1>1 DEF BlockPhases
<1> QED  BY <1>1, <1>2, StartsKept

\* What a call leaves of the types and of the phases of the loop over blocks.
LEMMA CallPhases ==
    ASSUME EmitInv, todo # <<>>, ~starting, ~starting', todo' \in Seq(CallRecord'),
           UNCHANGED <<family, block, in_block, emitted, bb_starts, nlabels, finishing,
                       pending_traps, pending_constants>>,
           \A i \in DOMAIN latest_branches' : ~latest_branches'[i].cond
    PROVE  EmitTypeOK' /\ BlockPhases'
<1>1. EmitTypeOK /\ BlockPhases
  BY EmitInvParts
<1>2. EmitTypeOK'
  BY <1>1 DEF EmitTypeOK
<1>3. BlockPhases'
  <2>1. block <= NumBlocks
    BY <1>1, SizesAssumption DEF EmitTypeOK, BlockPhases
  <2> QED  BY <1>1, <2>1 DEF BlockPhases
<1> QED  BY <1>2, <1>3

\* Calls that add code, alignment or a label use.
LEMMA GrowCallInv ==
    ASSUME FInv, EmitInv, FInv', pc = "idle", todo # <<>>,
           Head(todo).op \in {"put", "align", "use"}, todo' = Tail(todo),
           UNCHANGED <<family, block, in_block, emitted, bb_starts, nlabels, label_offsets,
                       label_aliases, latest_branches, pc, finishing, pending_traps,
                       pending_constants>>,
           off' >= off, grows(Head(todo)) => off' > off,
           Head(todo).op = "align" /\ Head(todo).a = 4 => off' % 4 = 0,
           \A l \in literal_labels' :
              l \in literal_labels \/ (uses_literal(Head(todo)) /\ l = Head(todo).l)
    PROVE  EmitInv'
<1>0. /\ IInv /\ TypeOK /\ EmitTypeOK /\ CodeInv /\ off \in Nat /\ off' \in Nat
      /\ label_offsets \in [Label -> Offset] /\ UnusedUnbound /\ NoLabelPastTail /\ LabelsAtBranch
  BY EmitInvParts DEF FInv, IInv, TypeOK
<1>1. ~starting /\ live' = live /\ Head(todo) = todo[1] /\ 1 \in DOMAIN todo
      /\ Head(todo) \in CallRecord
  BY <1>0, TodoTail DEF starting, live
<1>2. CallsInOrder' /\ todo' \in Seq(CallRecord') /\ ~starting'
  BY <1>0, TailCalls
<1>3. EmitTypeOK' /\ BlockPhases'
  BY <1>0, <1>1, <1>2, CallPhases DEF EmitTypeOK
<1>4. StartsInv' /\ ~finishing
  BY <1>1, <1>2, CallStarts
<1>5. LiteralsAhead'
  BY LiteralsNext
<1>6. /\ off' > off => past_blocks' /\ no_label_at_tail' /\ tail_free'
      /\ off' = off => /\ past_blocks => past_blocks'
                       /\ no_label_at_tail => no_label_at_tail'
                       /\ tail_free => tail_free'
                       /\ pinned => pinned'
  <2>1. ASSUME off' > off PROVE past_blocks' /\ no_label_at_tail' /\ tail_free'
    <3>1. UNCHANGED latest_branches
      OBVIOUS
    <3> QED  BY <1>0, <2>1, <3>1, Grown
  <2>2. ASSUME off' = off, past_blocks PROVE past_blocks'
    BY <1>1, <2>2 DEF past_blocks
  <2>3. ASSUME off' = off, no_label_at_tail PROVE no_label_at_tail'
    BY <2>3 DEF no_label_at_tail, labels_bound_at, UNKNOWN_LABEL
  <2>4. b' = b /\ prev_b' = prev_b
    BY DEF b, prev_b, Last
  <2>5. ASSUME off' = off, tail_free PROVE tail_free'
    BY <2>4, <2>5 DEF tail_free
  <2>6. ASSUME pinned PROVE pinned'
    BY <2>4, <2>6 DEF pinned, UNKNOWN_LABEL_OFFSET
  <2> QED  BY <2>1, <2>2, <2>3, <2>5, <2>6
<1>7. TailSettled'
  <2>1. CASE off' > off
    BY <1>6, <2>1 DEF TailSettled
  <2>2. CASE off' = off
    <3>1. ~grows_next
      BY <1>0, <2>2 DEF grows_next, puts_first, puts, grows
    <3>2. past_blocks /\ (tail_free \/ no_label_at_tail)
      BY <1>0, <1>1, <1>4, <3>1 DEF CodeInv, TailSettled
    <3> QED  BY <1>6, <2>2, <3>2 DEF TailSettled
  <2> QED  BY <1>0, <2>1, <2>2
<1>8. BlocksAliasBlocks'
  BY <1>0, <1>1 DEF CodeInv, BlocksAliasBlocks
<1>9. LiteralsStay'
  <2> SUFFICES ASSUME NEW l \in literal_labels'
               PROVE  /\ l \in NumBlocks .. (nlabels - 1) /\ l \in live
                      /\ \A i \in DOMAIN latest_branches : l \notin latest_branches[i].labels
                      /\ label_offsets[l] # UNKNOWN_LABEL_OFFSET =>
                           label_offsets[l] % 4 = 0 /\ label_offsets[l] < off'
    BY <1>1 DEF LiteralsStay, UNKNOWN_LABEL_OFFSET
  <2>1. CASE l \in literal_labels
    <3>1. /\ l \in NumBlocks .. (nlabels - 1) /\ l \in live
          /\ \A i \in DOMAIN latest_branches : l \notin latest_branches[i].labels
          /\ label_offsets[l] # UNKNOWN_LABEL_OFFSET =>
                label_offsets[l] % 4 = 0 /\ (label_offsets[l] < off \/ puts_first)
      BY <1>0, <2>1 DEF CodeInv, LiteralsStay
    <3>2. label_offsets[l] <= off /\ label_offsets[l] \in Int
      BY <1>0, <3>1 DEF NoLabelPastTail, live, Offset, UNKNOWN_LABEL_OFFSET
    <3>3. puts_first => off' > off
      BY DEF puts_first, grows
    <3>4. (label_offsets[l] < off \/ puts_first) => label_offsets[l] < off'
      BY <1>0, <3>2, <3>3
    <3> QED  BY <3>1, <3>4
  <2>2. CASE uses_literal(Head(todo)) /\ l = Head(todo).l
    <3>1. l >= NumBlocks /\ label_offsets[l] = UNKNOWN_LABEL_OFFSET
      BY <1>0, <1>1, <2>2 DEF CodeInv, CallsInOrder
    <3>2. l \in allocated /\ l \in Label /\ l \in Nat /\ l < nlabels /\ nlabels \in Nat
          /\ NumBlocks \in Nat
      BY <1>0, <1>1, <2>2, CallFields, AllocatedLabels DEF uses_literal
    <3>3. l \in NumBlocks .. (nlabels - 1)
      BY <3>1, <3>2
    <3>4. l \in live
      BY <1>0, <3>1, <3>2 DEF UnusedUnbound
    <3>5. ASSUME NEW i \in DOMAIN latest_branches PROVE l \notin latest_branches[i].labels
      <4>1. latest_branches[i].labels = labels_bound_at(latest_branches[i].start)
            /\ latest_branches[i].start \in Nat
        BY <1>0, BranchType DEF LabelsAtBranch
      <4> QED  BY <3>1, <4>1 DEF labels_bound_at, UNKNOWN_LABEL_OFFSET
    <3> QED  BY <3>1, <3>3, <3>4, <3>5
  <2> QED  BY <2>1, <2>2
<1>10. NextCallReady'
  <2> SUFFICES ASSUME todo' # <<>>
               PROVE  /\ todo'[1].op = "bind" =>
                            /\ pc' # "optimize_branches" /\ binds_next(Head(todo).l)'
                            /\ tail_free' \/ puts_next(todo', 1)
                      /\ ~(todo'[1].op = "align" /\ next_op(todo', 1, "bind"))
                      /\ jumps_ahead(todo'[1]) /\ ~next_op(todo', 1, "island") =>
                            pc' # "optimize_branches" /\ tail_free' /\ no_label_at_tail'
    <3>1. todo' # <<>> => Head(todo') = todo'[1]
      BY SecondCall
    <3> QED  BY <3>1 DEF NextCallReady, next_op, puts_next, jumps_ahead, puts
  <2> DEFINE h == Head(todo)
             v == todo'[1]
  <2>0. Head(todo') = v
    BY SecondCall
  <2>1. /\ v.op = "bind" => grows(h) \/ (h.op = "align" /\ h.a = 4 /\ puts_next(todo', 1))
        /\ ~(v.op = "align" /\ next_op(todo', 1, "bind"))
        /\ jumps_ahead(v) /\ ~next_op(todo', 1, "island") => grows(h)
    BY SecondCall DEF jumps_ahead
  <2>2. grows(h) => tail_free' /\ no_label_at_tail'
    BY <1>6
  <2>3. tail_free' => binds_next(Head(todo).l)'
    BY DEF binds_next
  <2>4. ASSUME v.op = "bind", h.op = "align", h.a = 4
        PROVE  binds_next(Head(todo).l)'
    <3>1. next_op(todo, 1, "bind") /\ todo[2] = v
      <4>1. todo'[1] = todo[2] /\ 1 < Len(todo)
        BY <1>0, TodoTail, SecondCall
      <4> QED  BY <2>4, <4>1 DEF next_op
    <3>2. binds_next(v.l)
      BY <1>0, <2>4, <3>1 DEF CodeInv, NextCallReady
    <3>3. CASE off' > off
      BY <1>6, <2>3, <3>3
    <3>4. CASE off' = off
      <4>1. tail_free \/ (pinned /\ no_label_at_tail /\ b.target # v.l)
        BY <3>2 DEF binds_next
      <4>2. b' = b
        BY DEF b, Last
      <4> QED  BY <1>6, <2>0, <3>4, <4>1, <4>2 DEF binds_next
    <3> QED  BY <1>0, <3>3, <3>4
  <2> QED  BY <2>1, <2>2, <2>3, <2>4
<1> QED
  BY <1>2, <1>3, <1>4, <1>5, <1>7, <1>8, <1>9, <1>10, EmitInvParts1 DEF CodeInv

\* put and align leave the label uses alone.
LEMMA PutInv ==
    ASSUME FInv, EmitInv, FInv', next_call("put") \/ next_call("align"), returns, NEW n \in Nat,
           Put(n), grows(Head(todo)) => n > 0,
           Head(todo).op = "align" /\ Head(todo).a = 4 => (off + n) % 4 = 0
    PROVE  EmitInv'
<1>1. off \in Nat
  BY DEF FInv, IInv, TypeOK
<1>2. /\ off' = off + n
      /\ UNCHANGED <<nlabels, label_offsets, label_aliases, latest_branches, pc, finishing,
                     pending_traps, pending_constants, pending_fixup_records, fixup_records, taken>>
  BY DEF Put, labelVars, deferVars, islandVars
<1>3. literal_labels' = literal_labels
  BY <1>2 DEF literal_labels, outstanding
<1>4. off' >= off /\ (n > 0 => off' > off)
  BY <1>1, <1>2
<1> QED  BY <1>2, <1>3, <1>4, GrowCallInv DEF next_call, returns

\* put of an instruction without labels.
LEMMA CallPutInv == FInv /\ EmitInv /\ FInv' /\ CallPut => EmitInv'
<1> SUFFICES ASSUME FInv, EmitInv, FInv', CallPut PROVE EmitInv'
  OBVIOUS
<1> DEFINE n == Head(todo).n
<1>1. n \in Nat /\ next_call("put") /\ returns /\ Put(n)
  BY EmitInvParts, TodoTail, CallFields DEF CallPut, next_call
<1>2. grows(Head(todo)) => n > 0
  BY <1>1 DEF grows, puts, next_call
<1> HIDE DEF n
<1> QED  BY <1>1, <1>2, PutInv DEF next_call

\* align_to in front of a word of the literal pool, or behind padding.
LEMMA CallAlignInv == FInv /\ EmitInv /\ FInv' /\ CallAlign => EmitInv'
<1> SUFFICES ASSUME FInv, EmitInv, FInv', CallAlign PROVE EmitInv'
  OBVIOUS
<1> DEFINE a == Head(todo).a
           n == AlignUp(off, a) - off
<1>1. a \in Nat \ {0} /\ next_call("align") /\ returns /\ Put(n) /\ off \in Nat
  BY EmitInvParts, TodoTail, CallFields DEF CallAlign, next_call, FInv, IInv, TypeOK
<1>2. ~grows(Head(todo))
  BY <1>1 DEF grows, puts, next_call
<1>3. AlignUp(off, a) \in Nat /\ AlignUp(off, a) >= off
  BY <1>1, AlignUpNat
<1>4. n \in Nat /\ off + n = AlignUp(off, a)
  BY <1>1, <1>3
<1>5. a = 4 => AlignUp(off, a) % 4 = 0
  BY <1>1 DEF AlignUp
<1>6. a = 4 => (off + n) % 4 = 0
  BY <1>4, <1>5
<1> HIDE DEF n
<1> QED  BY <1>1, <1>2, <1>4, <1>6, PutInv

\* A label use that is not a recorded branch.
LEMMA CallUseInv == FInv /\ EmitInv /\ FInv' /\ CallUse => EmitInv'
<1> SUFFICES ASSUME FInv, EmitInv, FInv', CallUse PROVE EmitInv'
  OBVIOUS
<1> DEFINE l == Head(todo).l
           k == Head(todo).k
           f == [label |-> l, offset |-> off, kind |-> k]
<1>1. next_call("use") /\ returns /\ UseLabel(l, k, 2) /\ TypeOK /\ off \in Nat
  BY DEF CallUse, FInv, IInv, TypeOK
<1>2. /\ off' = off + 2 /\ pending_fixup_records' = Append(pending_fixup_records, f)
      /\ UNCHANGED <<nlabels, label_offsets, label_aliases, latest_branches, pc, finishing,
                     pending_traps, pending_constants, fixup_records, taken>>
  BY <1>1 DEF UseLabel, use_label_at_offset, labelVars, deferVars, islandVars
<1>3. off' > off /\ off' >= off
  BY <1>1, <1>2
<1>4. ASSUME NEW m \in literal_labels'
      PROVE  m \in literal_labels \/ (uses_literal(Head(todo)) /\ m = l)
  <2>1. PICK g \in outstanding' : g.kind = "Literal8" /\ g.label = m
    BY DEF literal_labels
  <2>2. g \in outstanding \/ g = f
    <3>1. pending_fixup_records \in Seq(Fixup)
      BY <1>1 DEF TypeOK
    <3> HIDE DEF f
    <3>2. \A i \in DOMAIN pending_fixup_records' :
             \/ i \in DOMAIN pending_fixup_records
                /\ pending_fixup_records'[i] = pending_fixup_records[i]
             \/ pending_fixup_records'[i] = f
      BY <1>2, <3>1
    <3> QED  BY <1>2, <3>2 DEF outstanding
  <2>3. CASE g \in outstanding
    BY <2>1, <2>3 DEF literal_labels
  <2>4. CASE g = f
    BY <1>1, <2>1, <2>4 DEF uses_literal, next_call
  <2> QED  BY <2>2, <2>3, <2>4
<1> HIDE DEF f
<1>5. pc = "idle" /\ todo # <<>> /\ Head(todo).op = "use" /\ todo' = Tail(todo)
      /\ UNCHANGED <<family, block, in_block, emitted, bb_starts>>
  BY <1>1 DEF next_call, returns
<1> QED  BY <1>2, <1>3, <1>4, <1>5, GrowCallInv

\* A jump that the buffer may edit: forward, inside the instruction, it is
\* pinned, or an island follows.
LEMMA CallJumpInv == FInv /\ EmitInv /\ FInv' /\ CallJump => EmitInv'
<1> SUFFICES ASSUME FInv, EmitInv, FInv', CallJump PROVE EmitInv'
  OBVIOUS
<1> DEFINE h == Head(todo)
           l == Head(todo).l
           f == [label |-> l, offset |-> off, kind |-> "Branch11"]
           br == [start |-> off, end |-> off + 2, target |-> l,
                  fixup |-> Len(pending_fixup_records) + 1, cond |-> FALSE,
                  labels |-> lazily_cleared(off)]
           n == Len(latest_branches)
<1>0. /\ IInv /\ TypeOK /\ EmitTypeOK /\ CodeInv /\ off \in Nat /\ off' \in Nat
      /\ label_offsets \in [Label -> Offset] /\ NoLabelPastTail /\ LabelsAtTail
      /\ latest_branches \in Seq(Branch) /\ n \in Nat /\ DOMAIN latest_branches = 1 .. n
  BY EmitInvParts, SMTT(60) DEF FInv, IInv, TypeOK
<1>1. /\ pc = "idle" /\ todo # <<>> /\ h.op = "jump" /\ todo' = Tail(todo)
      /\ UNCHANGED <<family, block, in_block, emitted, bb_starts>>
      /\ off' = off + 2 /\ pending_fixup_records' = Append(pending_fixup_records, f)
      /\ latest_branches' = Append(latest_branches, br)
      /\ UNCHANGED <<nlabels, label_offsets, label_aliases, pc, finishing, pending_traps,
                     pending_constants, fixup_records, taken>>
  BY DEF CallJump, next_call, returns, add_uncond_branch, AddBranch, use_label_at_offset,
         deferVars, islandVars
<1>2. ~starting /\ live' = live /\ h = todo[1] /\ 1 \in DOMAIN todo /\ h \in CallRecord
      /\ off' > off /\ ~puts_first
  BY <1>0, <1>1, TodoTail DEF starting, live, puts_first, puts
<1>3. CallsInOrder' /\ todo' \in Seq(CallRecord') /\ ~starting'
  BY <1>0, <1>1, TailCalls
<1>b. /\ br.start = off /\ br.end = off + 2 /\ br.target = l /\ ~br.cond
      /\ br.labels = labels_bound_at(off)
  BY <1>0 DEF LabelsAtTail
<1> HIDE DEF br, f, n
<1>4. /\ latest_branches' # <<>> /\ b' = br /\ DOMAIN latest_branches' = 1 .. (n + 1)
      /\ Len(latest_branches') = n + 1
      /\ (n + 1 > 1 => latest_branches # <<>> /\ prev_b' = b)
      /\ \A i \in 1 .. n : latest_branches'[i] = latest_branches[i]
      /\ latest_branches'[n + 1] = br
  <2>1. /\ latest_branches' # <<>> /\ Len(latest_branches') = n + 1
        /\ DOMAIN latest_branches' = 1 .. (n + 1) /\ latest_branches'[n + 1] = br
        /\ \A i \in 1 .. n : latest_branches'[i] = latest_branches[i]
    BY <1>0, <1>1, SMTT(60) DEF n
  <2>2. (n + 1) - 1 = n
    BY <1>0
  <2>3. n + 1 > 1 => latest_branches # <<>> /\ n \in 1 .. n
    BY <1>0 DEF n
  <2>4. n = Len(latest_branches)
    BY DEF n
  <2> QED  BY <2>1, <2>2, <2>3, <2>4 DEF b, prev_b, Last
<1>5. EmitTypeOK' /\ BlockPhases'
  <2>1. \A i \in DOMAIN latest_branches' : ~latest_branches'[i].cond
    BY <1>0, <1>b, <1>4 DEF EmitTypeOK
  <2> QED  BY <1>1, <1>2, <1>3, <2>1, CallPhases
<1>6. StartsInv' /\ ~finishing
  BY <1>1, <1>2, <1>3, CallStarts
<1>7. literal_labels' \subseteq literal_labels
  <2> SUFFICES ASSUME NEW g \in outstanding', g.kind = "Literal8" PROVE g \in outstanding
    BY DEF literal_labels
  <2>1. pending_fixup_records \in Seq(Fixup) /\ f.kind # "Literal8"
    BY <1>0 DEF TypeOK, f
  <2>2. \A i \in DOMAIN pending_fixup_records' :
           \/ i \in DOMAIN pending_fixup_records
              /\ pending_fixup_records'[i] = pending_fixup_records[i]
           \/ pending_fixup_records'[i] = f
    BY <1>1, <2>1
  <2> QED  BY <1>1, <2>1, <2>2 DEF outstanding
<1>8. LiteralsAhead'
  BY <1>1, <1>7, LiteralsNext
<1>9. past_blocks' /\ no_label_at_tail'
  BY <1>0, <1>1, <1>2, Grown
<1>10. TailSettled'
  BY <1>9 DEF TailSettled
<1>11. jumps_ahead(h) => label_offsets[l] = UNKNOWN_LABEL_OFFSET
  BY <1>0, <1>2 DEF CodeInv, CallsInOrder
<1>12. jumps_ahead(h) /\ ~next_op(todo, 1, "island") => tail_free /\ no_label_at_tail
  BY <1>0, <1>1 DEF CodeInv, NextCallReady
<1>13. BlocksAliasBlocks'
  <2>1. ASSUME NEW i \in 1 .. n
        PROVE  latest_branches[i].target \in Blocks \/ latest_branches[i].labels \cap Blocks = {}
    BY <1>0, <1>1, <2>1 DEF CodeInv, BlocksAliasBlocks
  <2>2. \/ br.target \in Blocks \/ br.labels \cap Blocks = {}
        \/ pc' = "idle" /\ todo' # <<>> /\ Head(todo').op = "island"
    <3>1. l \in Nat /\ NumBlocks \in Nat
      BY <1>0, <1>1, <1>2, CallFields, AllocatedLabels
    <3>2. CASE l < NumBlocks
      BY <1>b, <3>1, <3>2 DEF Blocks
    <3>3. CASE l >= NumBlocks /\ next_op(todo, 1, "island")
      <4>1. todo' # <<>>
        <5>1. Len(todo') = Len(todo) - 1 /\ Len(todo) \in Nat /\ 1 < Len(todo)
          BY <1>0, <1>1, <3>3, TodoTail DEF next_op
        <5> QED  BY <5>1
      <4>2. Head(todo') = todo[2]
        BY <1>1, <4>1, SecondCall
      <4> QED  BY <1>1, <3>3, <4>1, <4>2 DEF next_op
    <3>4. CASE l >= NumBlocks /\ ~next_op(todo, 1, "island")
      BY <1>1, <1>12, <1>b, <3>4 DEF jumps_ahead, no_label_at_tail
    <3> QED  BY <3>1, <3>2, <3>3, <3>4
  <2>3. \A i \in DOMAIN latest_branches' : i \in 1 .. n \/ i = n + 1
    BY <1>0, <1>4
  <2>4. \A i \in DOMAIN latest_branches' :
           \/ latest_branches'[i].target \in Blocks
           \/ latest_branches'[i].labels \cap Blocks = {}
           \/ pc' = "idle" /\ todo' # <<>> /\ Head(todo').op = "island"
    BY <1>4, <2>1, <2>2, <2>3
  <2> QED  BY <1>0, <1>1, <2>4 DEF CodeInv, BlocksAliasBlocks, Blocks, UNKNOWN_LABEL
<1>14. LiteralsStay'
  <2> SUFFICES ASSUME NEW m \in literal_labels
               PROVE  /\ m \in NumBlocks .. (nlabels - 1) /\ m \in live
                      /\ \A i \in DOMAIN latest_branches' : m \notin latest_branches'[i].labels
                      /\ label_offsets[m] # UNKNOWN_LABEL_OFFSET =>
                           label_offsets[m] % 4 = 0 /\ label_offsets[m] < off'
    BY <1>1, <1>2, <1>7 DEF LiteralsStay, UNKNOWN_LABEL_OFFSET
  <2>1. /\ m \in NumBlocks .. (nlabels - 1) /\ m \in live
        /\ \A i \in DOMAIN latest_branches : m \notin latest_branches[i].labels
        /\ label_offsets[m] # UNKNOWN_LABEL_OFFSET =>
              label_offsets[m] % 4 = 0 /\ label_offsets[m] < off
    BY <1>0, <1>2 DEF CodeInv, LiteralsStay
  <2>2. label_offsets[m] \in Int /\ label_offsets[m] # off
    <3>1. label_offsets[m] \in Int
      BY <1>0, <2>1 DEF live, Offset, UNKNOWN_LABEL_OFFSET
    <3> QED  BY <1>0, <2>1, <3>1 DEF UNKNOWN_LABEL_OFFSET
  <2>3. m \notin br.labels
    BY <1>b, <2>2 DEF labels_bound_at
  <2>4. \A i \in DOMAIN latest_branches' : i \in 1 .. n \/ i = n + 1
    BY <1>0, <1>4
  <2>5. \A i \in DOMAIN latest_branches' : m \notin latest_branches'[i].labels
    BY <1>0, <1>4, <2>1, <2>3, <2>4
  <2>6. label_offsets[m] < off => label_offsets[m] < off'
    BY <1>0, <1>2, <2>2
  <2> QED  BY <2>1, <2>5, <2>6
<1>15. NextCallReady'
  <2>1. ASSUME jumps_ahead(h), ~next_op(todo, 1, "island"), NEW m, l # m
        PROVE  pinned' /\ no_label_at_tail' /\ b'.target # m
    <3>1. tail_free /\ no_label_at_tail /\ label_offsets[l] = UNKNOWN_LABEL_OFFSET
      BY <1>11, <1>12, <2>1
    <3>2. b'.labels = {}
      BY <1>4, <1>b, <3>1 DEF no_label_at_tail
    <3>3. Len(latest_branches') > 1 => prev_b'.end < b'.start
      BY <1>4, <1>b, <3>1 DEF tail_free
    <3>4. label_offsets'[b'.target] = UNKNOWN_LABEL_OFFSET
      BY <1>1, <1>4, <1>b, <3>1
    <3> QED  BY <1>4, <1>9, <1>b, <2>1, <3>2, <3>3, <3>4 DEF pinned, UNKNOWN_LABEL_OFFSET
  <2> SUFFICES ASSUME todo' # <<>>
               PROVE  /\ todo'[1].op = "bind" =>
                            binds_next(Head(todo).l)' /\ puts_next(todo', 1)
                      /\ todo'[1].op = "align" /\ next_op(todo', 1, "bind") =>
                            binds_next(todo[2].l)'
                      /\ ~(jumps_ahead(todo'[1]) /\ ~next_op(todo', 1, "island"))
    <3>1. todo' # <<>> => Head(todo') = todo'[1]
      BY <1>1, SecondCall
    <3> QED  BY <1>1, <3>1 DEF NextCallReady, next_op, puts_next, jumps_ahead, puts
  <2>2. /\ Head(todo') = todo'[1] /\ todo'[1] = todo[2]
        /\ todo'[1].op = "bind" => jumps_ahead(h) /\ l # todo'[1].l /\ puts_next(todo', 1)
        /\ todo'[1].op = "align" /\ next_op(todo', 1, "bind") => jumps_ahead(h) /\ l # todo'[2].l
        /\ ~(jumps_ahead(todo'[1]) /\ ~next_op(todo', 1, "island"))
    BY <1>1, SecondCall DEF grows, puts
  <2>3. todo'[1].op # "island" => ~next_op(todo, 1, "island")
    BY <2>2 DEF next_op
  <2>4. todo'[1].op = "bind" => pinned' /\ no_label_at_tail' /\ b'.target # Head(todo').l
    BY <2>1, <2>2, <2>3
  <2>5. todo'[1].op = "align" /\ next_op(todo', 1, "bind") =>
           pinned' /\ no_label_at_tail' /\ b'.target # todo'[2].l
    BY <2>1, <2>2, <2>3
  <2> QED  BY <2>2, <2>4, <2>5 DEF binds_next
<1> QED
  BY <1>3, <1>5, <1>6, <1>8, <1>10, <1>13, <1>14, <1>15, EmitInvParts1 DEF CodeInv

\* bind_label for a label of the instruction: no branch can be removed before
\* it, or the last one leads past it and code follows.
LEMMA CallBindInv == FInv /\ EmitInv /\ FInv' /\ CallBind => EmitInv'
<1> SUFFICES ASSUME FInv, EmitInv, FInv', CallBind PROVE EmitInv'
  OBVIOUS
<1> DEFINE l == Head(todo).l
<1>0. /\ IInv /\ TypeOK /\ EmitTypeOK /\ CodeInv /\ off \in Nat
      /\ label_offsets \in [Label -> Offset] /\ nlabels \in Nat /\ NumBlocks \in Nat
  BY EmitInvParts, AllocatedLabels DEF FInv, IInv, TypeOK
<1>1. /\ pc = "idle" /\ todo # <<>> /\ Head(todo).op = "bind" /\ todo' = Tail(todo)
      /\ UNCHANGED <<family, block, in_block, emitted, bb_starts>>
      /\ label_offsets' = [label_offsets EXCEPT ![l] = off]
      /\ label_offsets[l] = UNKNOWN_LABEL_OFFSET
      /\ pc' \in {"idle", "optimize_branches"}
      /\ UNCHANGED <<off, nlabels, label_aliases, latest_branches, finishing, pending_traps,
                     pending_constants, pending_fixup_records, fixup_records, taken>>
  BY DEF CallBind, next_call, returns, BindLabel, bindable, bind, enter_optimize_branches,
         deferVars, islandVars
<1>2. /\ ~starting /\ live' = live /\ Head(todo) = todo[1] /\ 1 \in DOMAIN todo
      /\ Head(todo) \in CallRecord /\ ~puts_first /\ ~grows_next
  BY <1>0, <1>1, TodoTail DEF starting, live, puts_first, puts, grows_next
<1>3. l \in NumBlocks .. (nlabels - 1) /\ l \in Label /\ l \notin Blocks
  <2>1. l \in NumBlocks .. (nlabels - 1)
    BY <1>1, <1>2, CallFields
  <2> QED  BY <1>0, <2>1, AllocatedLabels DEF Blocks
<1> HIDE DEF l
<1>4. \A m \in Label : label_offsets'[m] = IF m = l THEN off ELSE label_offsets[m]
  BY <1>0, <1>1, <1>3
<1>5. CallsInOrder' /\ todo' \in Seq(CallRecord') /\ ~starting'
  <2>1. \A m \in Label : m # Head(todo).l => label_offsets'[m] = label_offsets[m]
    BY <1>4 DEF l
  <2> QED  BY <1>0, <1>1, <2>1, TailCalls
<1>6. EmitTypeOK' /\ BlockPhases'
  BY <1>0, <1>1, <1>2, <1>5, CallPhases DEF EmitTypeOK
<1>7. StartsInv' /\ ~finishing
  <2>1. \A m \in Blocks : m \in live' => m \in live /\ label_offsets'[m] = label_offsets[m]
    BY <1>2, <1>3, <1>4 DEF live
  <2> QED  BY <1>1, <1>2, <1>5, <2>1, CallStarts
<1>8. literal_labels' = literal_labels
  BY <1>1 DEF literal_labels, outstanding
<1>9. LiteralsAhead'
  BY <1>1, <1>8, LiteralsNext
<1>10. BlocksAliasBlocks'
  BY <1>0, <1>1 DEF CodeInv, BlocksAliasBlocks
<1>11. NextCallReady'
  <2>1. todo' # <<>> => /\ Head(todo') = todo'[1] /\ todo'[1].op # "bind"
                        /\ ~(todo'[1].op = "align" /\ next_op(todo', 1, "bind"))
                        /\ ~(jumps_ahead(todo'[1]) /\ ~next_op(todo', 1, "island"))
    BY <1>1, SecondCall DEF grows, puts, jumps_ahead
  <2> QED  BY <2>1 DEF NextCallReady, jumps_ahead, next_op
<1>12. TailSettled'
  <2>1. past_blocks
    BY <1>0, <1>1, <1>2, <1>7 DEF CodeInv, TailSettled
  <2>2. past_blocks'
    <3>1. \A m \in Blocks \cap live : label_offsets'[m] = label_offsets[m]
      BY <1>3, <1>4 DEF live
    <3> QED  BY <1>1, <1>2, <2>1, <3>1 DEF past_blocks
  <2>3. binds_next(l) /\ (tail_free \/ puts_next(todo, 1))
    BY <1>0, <1>1 DEF CodeInv, NextCallReady, l
  <2>4. b' = b /\ prev_b' = prev_b
    BY <1>1 DEF b, prev_b, Last
  <2>5. CASE tail_free
    <3>1. tail_free'
      BY <1>1, <2>4, <2>5 DEF tail_free
    <3> QED  BY <2>2, <3>1 DEF TailSettled
  <2>6. CASE ~tail_free
    <3>1. pinned /\ b.target # l /\ puts_next(todo, 1)
      BY <2>3, <2>6 DEF binds_next
    <3>2. b.target \in Label
      <4>1. Len(latest_branches) \in DOMAIN latest_branches
        BY <1>0, <3>1 DEF pinned, TypeOK
      <4> QED  BY <1>0, <4>1, BranchType DEF b, Last
    <3>3. pinned'
      BY <1>1, <1>4, <2>4, <3>1, <3>2 DEF pinned, UNKNOWN_LABEL_OFFSET
    <3>4. puts_first'
      <4>1. 1 < Len(todo) /\ puts(todo[2])
        BY <3>1 DEF puts_next
      <4>2. todo' # <<>>
        <5>1. Len(todo') = Len(todo) - 1 /\ Len(todo) \in Nat
          BY <1>0, <1>1, TodoTail
        <5> QED  BY <4>1, <5>1
      <4>3. Head(todo') = todo[2]
        BY <1>1, <4>2, SecondCall
      <4> QED  BY <4>1, <4>2, <4>3 DEF puts_first, puts
    <3> QED  BY <2>2, <3>3, <3>4 DEF TailSettled, grows_next
  <2> QED  BY <2>5, <2>6
<1>13. LiteralsStay'
  <2> SUFFICES ASSUME NEW m \in literal_labels
               PROVE  /\ m \in NumBlocks .. (nlabels - 1) /\ m \in live
                      /\ \A i \in DOMAIN latest_branches : m \notin latest_branches[i].labels
                      /\ label_offsets'[m] # UNKNOWN_LABEL_OFFSET =>
                           label_offsets'[m] % 4 = 0 /\ (label_offsets'[m] < off \/ puts_first')
    BY <1>1, <1>2, <1>8 DEF LiteralsStay, UNKNOWN_LABEL_OFFSET
  <2>1. /\ m \in NumBlocks .. (nlabels - 1) /\ m \in live
        /\ \A i \in DOMAIN latest_branches : m \notin latest_branches[i].labels
        /\ label_offsets[m] # UNKNOWN_LABEL_OFFSET =>
              label_offsets[m] % 4 = 0 /\ label_offsets[m] < off
    BY <1>0, <1>2 DEF CodeInv, LiteralsStay
  <2>2. CASE m # l
    <3>1. label_offsets'[m] = label_offsets[m]
      BY <1>4, <2>1, <2>2 DEF live
    <3> QED  BY <2>1, <3>1
  <2>3. CASE m = l
    <3>1. off % 4 = 0 /\ puts_next(todo, 1)
      BY <1>0, <1>1, <1>2, <2>3 DEF CodeInv, LiteralsAhead, l
    <3>2. puts_first'
      <4>1. 1 < Len(todo) /\ puts(todo[2])
        BY <3>1 DEF puts_next
      <4>2. todo' # <<>>
        <5>1. Len(todo') = Len(todo) - 1 /\ Len(todo) \in Nat
          BY <1>0, <1>1, TodoTail
        <5> QED  BY <4>1, <5>1
      <4>3. Head(todo') = todo[2]
        BY <1>1, <4>2, SecondCall
      <4> QED  BY <4>1, <4>2, <4>3 DEF puts_first, puts
    <3>3. label_offsets'[m] = off
      BY <1>3, <1>4, <2>3
    <3> QED  BY <2>1, <3>1, <3>2, <3>3
  <2> QED  BY <2>2, <2>3
<1> QED
  BY <1>5, <1>6, <1>7, <1>9, <1>10, <1>11, <1>12, <1>13, EmitInvParts1 DEF CodeInv

\* emit_island, called between two instructions or around a jump.
LEMMA CallIslandInv == FInv /\ EmitInv /\ FInv' /\ CallIsland => EmitInv'
<1> SUFFICES ASSUME FInv, EmitInv, FInv', CallIsland PROVE EmitInv'
  OBVIOUS
<1>0. IInv /\ TypeOK /\ EmitTypeOK /\ CodeInv
  BY EmitInvParts DEF FInv, IInv
<1>1. /\ pc = "idle" /\ todo # <<>> /\ Head(todo).op = "island" /\ todo' = Tail(todo)
      /\ UNCHANGED <<family, block, in_block, emitted, bb_starts>>
      /\ pc' = "island_pending" /\ latest_branches' = <<>> /\ taken' = pending_fixup_records
      /\ pending_fixup_records' = <<>>
      /\ UNCHANGED <<off, nlabels, label_offsets, label_aliases, finishing, pending_traps,
                     pending_constants, fixup_records>>
  BY DEF CallIsland, next_call, returns, EmitIsland, start_island, labelVars, deferVars
<1>2. ~starting /\ live' = live /\ ~puts_first /\ ~grows_next
  BY <1>1 DEF starting, live, puts_first, puts, grows_next
<1>3. CallsInOrder' /\ todo' \in Seq(CallRecord') /\ ~starting'
  BY <1>0, <1>1, TailCalls
<1>4. DOMAIN latest_branches' = {}
  BY <1>1
<1>5. EmitTypeOK' /\ BlockPhases'
  BY <1>1, <1>2, <1>3, <1>4, CallPhases
<1>6. StartsInv' /\ ~finishing
  BY <1>1, <1>2, <1>3, CallStarts
<1>7. literal_labels' \subseteq literal_labels
  <2>1. DOMAIN pending_fixup_records' = {}
    BY <1>1
  <2> QED  BY <1>1, <2>1 DEF literal_labels, outstanding
<1>8. LiteralsAhead'
  BY <1>1, <1>7, LiteralsNext
<1>9. BlocksAliasBlocks'
  BY <1>0, <1>1, <1>4 DEF CodeInv, BlocksAliasBlocks
<1>10. tail_free'
  BY <1>1 DEF tail_free
<1>11. NextCallReady'
  <2>1. todo' # <<>> => /\ Head(todo') = todo'[1]
                        /\ ~(todo'[1].op = "align" /\ next_op(todo', 1, "bind"))
                        /\ ~(jumps_ahead(todo'[1]) /\ ~next_op(todo', 1, "island"))
    BY <1>1, SecondCall DEF grows, puts, jumps_ahead
  <2> QED  BY <1>1, <1>10, <2>1 DEF NextCallReady, jumps_ahead, next_op, binds_next
<1>12. TailSettled'
  <2>1. past_blocks
    BY <1>0, <1>1, <1>2, <1>6 DEF CodeInv, TailSettled
  <2>2. past_blocks'
    BY <1>1, <1>2, <2>1 DEF past_blocks
  <2> QED  BY <1>10, <2>2 DEF TailSettled
<1>13. LiteralsStay'
  BY <1>0, <1>1, <1>2, <1>4, <1>7 DEF CodeInv, LiteralsStay, UNKNOWN_LABEL_OFFSET
<1> QED
  BY <1>3, <1>5, <1>6, <1>8, <1>9, <1>11, <1>12, <1>13, EmitInvParts1 DEF CodeInv

(***************************************************************************)
(* Steps of the buffer's own loops.                                        *)
(***************************************************************************)

\* While a loop of the buffer runs the calls left to make stay in order.
LEMMA SameCalls ==
    ASSUME TypeOK, EmitInv, UNCHANGED <<todo, nlabels>>,
           \A l \in Label : label_offsets[l] = UNKNOWN_LABEL_OFFSET =>
                               label_offsets'[l] = UNKNOWN_LABEL_OFFSET
    PROVE  /\ CallsInOrder' /\ todo' \in Seq(CallRecord')
           /\ starting' <=> starting
           /\ puts_first' <=> puts_first
<1>0. EmitTypeOK /\ CallsInOrder /\ todo \in Seq(CallRecord)
  BY EmitInvParts DEF CodeInv, EmitTypeOK
<1>1. CallRecord' = CallRecord
  BY DEF CallRecord, allocated
<1>2. ASSUME NEW j \in DOMAIN todo', jumps_ahead(todo'[j]) \/ uses_literal(todo'[j])
      PROVE  todo'[j].l >= NumBlocks /\ label_offsets'[todo'[j].l] = UNKNOWN_LABEL_OFFSET
  <2>1. todo[j].l >= NumBlocks /\ label_offsets[todo[j].l] = UNKNOWN_LABEL_OFFSET
    BY <1>0, <1>2 DEF CallsInOrder
  <2>2. todo[j] \in CallRecord
    BY <1>0
  <2>3. todo[j].l \in Label
    BY <1>2, <2>2, CallFields, AllocatedLabels DEF jumps_ahead, uses_literal
  <2> QED  BY <2>1, <2>3
<1>3. CallsInOrder'
  <2>1. \A j \in DOMAIN todo' : in_order(todo', j)
    BY <1>0 DEF CallsInOrder
  <2> QED
    BY <1>2, <2>1
       DEF CallsInOrder, in_order, bind_in_order, next_op, puts_next, jumps_past, jumps_ahead,
           uses_literal, grows, puts, plain, UNKNOWN_LABEL_OFFSET
<1>4. (starting' <=> starting) /\ (puts_first' <=> puts_first)
  BY DEF starting, puts_first, puts
<1> QED  BY <1>0, <1>1, <1>3, <1>4

\* The loops of an island, and of finish(): labels stay, code only grows.
LEMMA IslandInv ==
    ASSUME FInv, EmitInv, FInv', UNCHANGED emitVars, pc \notin {"idle", "optimize_branches"},
           UNCHANGED <<nlabels, label_offsets, label_aliases, finishing, pending_traps,
                       pending_constants>>,
           off' >= off, latest_branches' \in {latest_branches, <<>>},
           finishing \/ latest_branches = <<>>, pc' # "optimize_branches",
           literal_labels' \subseteq literal_labels
    PROVE  EmitInv'
<1>0. /\ IInv /\ TypeOK /\ EmitTypeOK /\ BlockPhases /\ CodeInv /\ off \in Nat /\ off' \in Nat
      /\ label_offsets \in [Label -> Offset] /\ finishing \in BOOLEAN
  BY EmitInvParts DEF FInv, IInv, TypeOK
<1>1. UNCHANGED <<family, todo, block, in_block, emitted, bb_starts>>
  BY DEF emitVars
<1>2. live' = live
  BY DEF live
<1>3. /\ CallsInOrder' /\ todo' \in Seq(CallRecord')
      /\ (starting' <=> starting) /\ (puts_first' <=> puts_first)
  BY <1>0, <1>1, SameCalls
<1>4. ~starting /\ ~starting'
  BY <1>0, <1>3 DEF BlockPhases
<1>5. \A i \in DOMAIN latest_branches' :
         i \in DOMAIN latest_branches /\ latest_branches'[i] = latest_branches[i]
  OBVIOUS
<1>6. EmitTypeOK'
  BY <1>0, <1>1, <1>3, <1>5 DEF EmitTypeOK
<1>7. BlockPhases'
  BY <1>0, <1>1, <1>4 DEF BlockPhases
<1>8. StartsInv'
  <2>1. CASE finishing
    BY <2>1 DEF StartsInv
  <2>2. CASE ~finishing
    BY <1>0, <1>1, <1>2, <1>4, <2>2, StartsKept DEF CodeInv
  <2> QED  BY <2>1, <2>2
<1>9. ~finishing => tail_free'
  BY DEF tail_free
<1>10. finishing => todo = <<>>
  BY <1>0 DEF BlockPhases
<1>11. no_label_at_tail => no_label_at_tail'
  <2>1. CASE off' = off
    BY <2>1 DEF no_label_at_tail, labels_bound_at, UNKNOWN_LABEL
  <2>2. CASE off' > off
    BY <1>0, <2>2, Grown
  <2> QED  BY <1>0, <2>1, <2>2
<1>12. NextCallReady'
  <2> SUFFICES ASSUME todo # <<>> PROVE NextCallReady'
    BY <1>1 DEF NextCallReady
  <2>1. tail_free'
    BY <1>9, <1>10
  <2>2. ASSUME jumps_ahead(Head(todo)), ~next_op(todo, 1, "island") PROVE no_label_at_tail'
    BY <1>0, <1>11, <2>2 DEF CodeInv, NextCallReady
  <2> QED  BY <1>1, <2>1, <2>2 DEF NextCallReady, binds_next, jumps_ahead, next_op
<1>13. TailSettled'
  <2>1. CASE finishing
    BY <2>1 DEF TailSettled
  <2>2. CASE ~finishing
    <3>1. past_blocks
      BY <1>0, <1>4, <2>2 DEF CodeInv, TailSettled
    <3>2. past_blocks'
      <4>1. \A l \in Blocks \cap live : label_offsets[l] \in Int /\ label_offsets[l] < off
        BY <1>0, <3>1 DEF past_blocks, live, Offset, UNKNOWN_LABEL_OFFSET
      <4>2. \A l \in Blocks \cap live : label_offsets[l] < off'
        BY <1>0, <4>1
      <4> QED  BY <1>2, <4>2 DEF past_blocks
    <3> QED  BY <1>9, <2>2, <3>2 DEF TailSettled
  <2> QED  BY <2>1, <2>2
<1>14. BlocksAliasBlocks'
  <2>1. \A i \in DOMAIN latest_branches' :
           latest_branches'[i].target \in Blocks \/ latest_branches'[i].labels \cap Blocks = {}
    BY <1>0, <1>5 DEF CodeInv, BlocksAliasBlocks
  <2> QED  BY <1>0, <2>1 DEF CodeInv, BlocksAliasBlocks, Blocks, UNKNOWN_LABEL
<1>15. LiteralsStay'
  <2> SUFFICES ASSUME NEW m \in literal_labels
               PROVE  /\ m \in NumBlocks .. (nlabels - 1) /\ m \in live
                      /\ \A i \in DOMAIN latest_branches' : m \notin latest_branches'[i].labels
                      /\ label_offsets[m] # UNKNOWN_LABEL_OFFSET =>
                           label_offsets[m] % 4 = 0 /\ (label_offsets[m] < off' \/ puts_first)
    BY <1>2, <1>3 DEF LiteralsStay, UNKNOWN_LABEL_OFFSET
  <2>1. /\ m \in NumBlocks .. (nlabels - 1) /\ m \in live
        /\ \A i \in DOMAIN latest_branches : m \notin latest_branches[i].labels
        /\ label_offsets[m] # UNKNOWN_LABEL_OFFSET =>
              label_offsets[m] % 4 = 0 /\ (label_offsets[m] < off \/ puts_first)
    BY <1>0 DEF CodeInv, LiteralsStay
  <2>2. label_offsets[m] < off => label_offsets[m] < off'
    <3>1. label_offsets[m] \in Int
      BY <1>0, <2>1 DEF live, Offset, UNKNOWN_LABEL_OFFSET
    <3> QED  BY <1>0, <3>1
  <2> QED  BY <1>5, <2>1, <2>2
<1>16. LiteralsAhead'
  <2> SUFFICES ASSUME NEW m \in literal_labels, NEW j \in DOMAIN todo,
                      todo[j].op = "bind", todo[j].l = m
               PROVE  j # 1 /\ todo[j - 1].op = "align"
    BY <1>1 DEF LiteralsAhead
  <2> QED  BY <1>0 DEF CodeInv, LiteralsAhead
<1> QED
  BY <1>3, <1>6, <1>7, <1>8, <1>12, <1>13, <1>14, <1>15, <1>16, EmitInvParts1 DEF CodeInv

\* handle_fixup puts no new literal among the label uses.
LEMMA HandleFixupUses ==
    ASSUME IInv, NEW f \in Fixup, NEW next_pc, handle_fixup(f, next_pc)
    PROVE  \A i \in DOMAIN pending_fixup_records' :
              \/ i \in DOMAIN pending_fixup_records
                 /\ pending_fixup_records'[i] = pending_fixup_records[i]
              \/ pending_fixup_records'[i].kind # "Literal8"
<1>1. CASE UNCHANGED pending_fixup_records
  BY <1>1
<1>2. CASE emit_veneer(f)
  <2> DEFINE at == AlignUp(off, Align)
             o == at + VeneerFixupDelta[f.kind][at % 4]
             g == [label |-> f.label, offset |-> o, kind |-> VeneerKind[f.kind]]
  <2>1. pending_fixup_records' = Append(pending_fixup_records, g)
    BY <1>2 DEF emit_veneer, use_label_at_offset
  <2>2. g.kind # "Literal8"
    BY LabelUseAssumption DEF Fixup
  <2>3. pending_fixup_records \in Seq(Fixup)
    BY DEF IInv, TypeOK
  <2> HIDE DEF g
  <2> QED  BY <2>1, <2>2, <2>3
<1> QED  BY <1>1, <1>2 DEF handle_fixup

\* One iteration of a loop of an island or of finish().
LEMMA IslandStepInv ==
    FInv /\ EmitInv /\ FInv' /\ UNCHANGED emitVars /\ (IslandStep \/ FinishStep) => EmitInv'
<1> SUFFICES ASSUME FInv, EmitInv, FInv', UNCHANGED emitVars, IslandStep \/ FinishStep
             PROVE  EmitInv'
  OBVIOUS
<1>0. /\ IInv /\ TypeOK /\ off \in Nat /\ BlockPhases /\ IslandPhases /\ FinishPhases
      /\ pending_traps = <<>> /\ pending_constants = <<>>
  BY EmitInvParts DEF FInv, IInv, TypeOK, BlockPhases
<1>1. CASE IslandPending
  <2> DEFINE f == Head(taken)
  <2>1. /\ pc = "island_pending" /\ taken # <<>> /\ taken' = Tail(taken)
        /\ UNCHANGED <<nlabels, label_offsets, label_aliases, latest_branches, finishing,
                       pending_traps, pending_constants>>
        /\ \/ handle_fixup(f, pc) /\ UNCHANGED fixup_records
           \/ /\ fixup_records' = fixup_records \cup {f}
              /\ UNCHANGED <<off, pending_fixup_records, pc>>
    BY <1>1 DEF IslandPending, labelVars, deferVars
  <2>2. f \in Fixup /\ 1 \in DOMAIN taken /\ f = taken[1]
        /\ \A i \in DOMAIN Tail(taken) : i + 1 \in DOMAIN taken /\ Tail(taken)[i] = taken[i + 1]
    BY <1>0, <2>1, HeadTail DEF TypeOK
  <2> HIDE DEF f
  <2>3. latest_branches = <<>>
    BY <1>0, <2>1 DEF IslandPhases
  <2>4. off' >= off /\ pc' # "optimize_branches"
    <3>1. CASE handle_fixup(f, pc)
      BY <1>0, <2>1, <2>2, <3>1, HandleFixup
    <3> QED  BY <1>0, <2>1, <3>1
  <2>5. literal_labels' \subseteq literal_labels
    <3> SUFFICES ASSUME NEW g \in outstanding', g.kind = "Literal8" PROVE g \in outstanding
      BY DEF literal_labels
    <3>1. f \in outstanding
      BY <2>2 DEF outstanding
    <3>2. ASSUME NEW i \in DOMAIN taken', g = taken'[i] PROVE g \in outstanding
      BY <2>1, <2>2, <3>2 DEF outstanding
    <3>3. ASSUME g \in fixup_records' PROVE g \in outstanding
      BY <2>1, <3>1, <3>3 DEF outstanding
    <3>4. ASSUME NEW i \in DOMAIN pending_fixup_records', g = pending_fixup_records'[i]
          PROVE  g \in outstanding
      BY <1>0, <2>1, <2>2, <3>4, HandleFixupUses DEF outstanding
    <3> QED  BY <3>2, <3>3, <3>4 DEF outstanding
  <2> QED  BY <2>1, <2>3, <2>4, <2>5, IslandInv
<1>2. ASSUME NEW f \in fixup_records, IslandHeap(f) PROVE EmitInv'
  <2>1. /\ pc = "island_heap" /\ fixup_records' = fixup_records \ {f} /\ handle_fixup(f, pc)
        /\ UNCHANGED <<nlabels, label_offsets, label_aliases, latest_branches, finishing,
                       pending_traps, pending_constants, taken>>
    BY <1>2 DEF IslandHeap, labelVars, deferVars, islandVars
  <2>2. f \in Fixup
    BY <1>0 DEF TypeOK
  <2>3. latest_branches = <<>>
    BY <1>0, <2>1 DEF IslandPhases
  <2>4. off' >= off /\ pc' # "optimize_branches"
    BY <1>0, <2>1, <2>2, HandleFixup
  <2>5. literal_labels' \subseteq literal_labels
    <3> SUFFICES ASSUME NEW g \in outstanding', g.kind = "Literal8" PROVE g \in outstanding
      BY DEF literal_labels
    <3>1. ASSUME NEW i \in DOMAIN pending_fixup_records', g = pending_fixup_records'[i]
          PROVE  g \in outstanding
      BY <1>0, <2>1, <2>2, <3>1, HandleFixupUses DEF outstanding
    <3> QED  BY <2>1, <3>1 DEF outstanding
  <2> QED  BY <2>1, <2>3, <2>4, <2>5, IslandInv
<1>3. CASE IslandPendingDone \/ IslandHeapDone \/ IslandDone \/ FinishDone
  <2>1. /\ pc \in {"island_pending", "island_heap", "island_traps", "finish"}
        /\ pc' \in {"island_heap", "island_traps", "finish", "idle", "done"}
        /\ UNCHANGED <<off, nlabels, label_offsets, label_aliases, latest_branches, finishing,
                       pending_traps, pending_constants, taken, pending_fixup_records,
                       fixup_records>>
    BY <1>3 DEF IslandPendingDone, IslandHeapDone, IslandDone, FinishDone, labelVars, deferVars,
                islandVars
  <2>2. finishing \/ latest_branches = <<>>
    BY <1>0, <2>1 DEF IslandPhases, FinishPhases
  <2>3. literal_labels' \subseteq literal_labels
    BY <2>1 DEF literal_labels, outstanding
  <2>4. off' >= off
    BY <1>0, <2>1
  <2> QED  BY <2>1, <2>2, <2>3, <2>4, IslandInv
<1>4. CASE FinishIsland
  <2>1. /\ pc = "finish" /\ pc' = "island_pending" /\ latest_branches' = <<>>
        /\ taken' = pending_fixup_records /\ pending_fixup_records' = <<>>
        /\ UNCHANGED <<off, nlabels, label_offsets, label_aliases, finishing,
                       pending_traps, pending_constants, fixup_records>>
    BY <1>4 DEF FinishIsland, start_island, labelVars, deferVars
  <2>2. finishing
    BY <1>0, <2>1 DEF FinishPhases
  <2>3. literal_labels' \subseteq literal_labels
    <3>1. DOMAIN pending_fixup_records' = {}
      BY <2>1
    <3> QED  BY <2>1, <3>1 DEF literal_labels, outstanding
  <2>4. off' >= off
    BY <1>0, <2>1
  <2> QED  BY <2>1, <2>2, <2>3, <2>4, IslandInv
<1>5. ~IslandTrap /\ ~IslandConstant
  BY <1>0 DEF IslandTrap, IslandConstant
<1> QED  BY <1>1, <1>2, <1>3, <1>4, <1>5 DEF IslandStep, FinishStep

\* VCode::emit calls finish().
LEMMA EmitFinishInv == FInv /\ EmitInv /\ FInv' /\ EmitFinish => EmitInv'
<1> SUFFICES ASSUME FInv, EmitInv, FInv', EmitFinish PROVE EmitInv'
  OBVIOUS
<1>0. TypeOK /\ EmitTypeOK /\ BlockPhases /\ CodeInv
  BY EmitInvParts DEF FInv, IInv
<1>1. /\ pc = "idle" /\ todo = <<>> /\ block > NumBlocks /\ pc' = "finish" /\ finishing'
      /\ UNCHANGED <<off, nlabels, label_offsets, label_aliases, latest_branches,
                     pending_traps, pending_constants, taken, pending_fixup_records,
                     fixup_records>>
      /\ UNCHANGED <<family, todo, block, in_block, emitted, bb_starts>>
  BY DEF EmitFinish, ready, Finish, labelVars, deferVars, emitVars
<1>2. /\ CallsInOrder' /\ todo' \in Seq(CallRecord')
      /\ (starting' <=> starting) /\ (puts_first' <=> puts_first)
  BY <1>0, <1>1, SameCalls
<1>3. EmitTypeOK'
  BY <1>0, <1>1, <1>2 DEF EmitTypeOK
<1>4. BlockPhases'
  BY <1>0, <1>1, <1>2 DEF BlockPhases, starting
<1>5. StartsInv' /\ TailSettled'
  BY <1>1 DEF StartsInv, TailSettled
<1>6. NextCallReady' /\ LiteralsAhead'
  BY <1>1 DEF NextCallReady, LiteralsAhead
<1>7. BlocksAliasBlocks'
  BY <1>0, <1>1 DEF CodeInv, BlocksAliasBlocks
<1>8. literal_labels' = literal_labels /\ live' = live
  BY <1>1 DEF literal_labels, outstanding, live
<1>9. LiteralsStay'
  BY <1>0, <1>1, <1>2, <1>8 DEF CodeInv, LiteralsStay, UNKNOWN_LABEL_OFFSET
<1> QED
  BY <1>2, <1>3, <1>4, <1>5, <1>6, <1>7, <1>9, EmitInvParts1 DEF CodeInv

(***************************************************************************)
(* The loop over blocks.                                                   *)
(***************************************************************************)

\* The label of a block is bound.
LEMMA BeginBlockInv == FInv /\ EmitInv /\ FInv' /\ BeginBlock => EmitInv'
<1> SUFFICES ASSUME FInv, EmitInv, FInv', BeginBlock PROVE EmitInv'
  OBVIOUS
<1> DEFINE s == [op |-> "bb_start"]
           this == final_order[block + 1]
<1>0. /\ TypeOK /\ EmitTypeOK /\ BlockPhases /\ CodeInv /\ off \in Nat /\ block \in Nat
      /\ label_offsets \in [Label -> Offset] /\ NumBlocks \in Nat
  <2>1. TypeOK /\ EmitTypeOK /\ BlockPhases /\ CodeInv /\ NumBlocks \in Nat
    BY EmitInvParts, SizesAssumption DEF FInv, IInv
  <2> QED  BY <2>1 DEF TypeOK, EmitTypeOK
<1>1. /\ pc = "idle" /\ todo = <<>> /\ ~finishing /\ ~in_block /\ block < NumBlocks
      /\ todo' = <<s>> /\ block' = block + 1 /\ in_block'
      /\ UNCHANGED <<family, emitted, bb_starts>>
      /\ label_offsets' = [label_offsets EXCEPT ![this] = off]
      /\ label_offsets[this] = UNKNOWN_LABEL_OFFSET
      /\ pc' \in {"idle", "optimize_branches"}
      /\ UNCHANGED <<off, nlabels, label_aliases, latest_branches, finishing, pending_traps,
                     pending_constants, pending_fixup_records, fixup_records, taken>>
  BY DEF BeginBlock, ready, BindLabel, bindable, bind, enter_optimize_branches, deferVars,
         islandVars
<1>2. /\ ~starting /\ live' = live /\ ~puts_first /\ ~grows_next
      /\ this \in Blocks /\ this \in Label /\ block' \in 1 .. NumBlocks
  <2>1. ~starting /\ live' = live /\ ~puts_first /\ ~grows_next /\ block' \in 1 .. NumBlocks
    BY <1>0, <1>1 DEF starting, live, puts_first, grows_next
  <2>2. this \in Blocks
    BY <1>0, <1>1, <2>1, FinalOrder
  <2> HIDE DEF this
  <2> QED  BY <1>0, <2>1, <2>2, SizesAssumption DEF Blocks, Label
<1>3. \A m \in Label : label_offsets'[m] = IF m = this THEN off ELSE label_offsets[m]
  BY <1>0, <1>1, <1>2
<1>o. final_order' = final_order /\ this = final_order[block']
  BY <1>1, OrderKept
<1> HIDE DEF this
<1>4. /\ todo' # <<>> /\ Len(todo') = 1 /\ Head(todo') = s /\ todo'[1] = s
      /\ DOMAIN todo' = {1} /\ s.op = "bb_start"
  BY <1>1
<1> HIDE DEF s
<1>5. starting'
  BY <1>4 DEF starting
<1>6. CallsInOrder'
  <2>1. \A j \in DOMAIN todo' : in_order(todo', j)
    BY <1>4 DEF in_order, jumps_ahead, uses_literal
  <2> QED
    BY <1>4, <2>1
       DEF CallsInOrder, in_order, bind_in_order, next_op, puts_next, jumps_past, jumps_ahead,
           uses_literal, grows, puts, plain, UNKNOWN_LABEL_OFFSET
<1>7. EmitTypeOK'
  <2>1. todo' \in Seq(CallRecord')
    BY <1>1, MakeCalls DEF s
  <2>2. block' \in 0 .. (NumBlocks + 1)
    BY <1>0, <1>1
  <2> QED  BY <1>0, <1>1, <2>1, <2>2 DEF EmitTypeOK
<1>8. BlockPhases'
  <2>1. Len(bb_starts) = block
    BY <1>0, <1>1, <1>2 DEF BlockPhases, Least
  <2>2. block' \in 1 .. NumBlocks /\ ~(block' > NumBlocks)
    BY <1>0, <1>1
  <2> QED  BY <1>0, <1>1, <1>2, <1>4, <1>5, <2>1, <2>2 DEF BlockPhases
<1>9. TailSettled'
  BY <1>5 DEF TailSettled
<1>10. NextCallReady' /\ LiteralsAhead'
  BY <1>4 DEF NextCallReady, LiteralsAhead, jumps_ahead
<1>11. BlocksAliasBlocks'
  BY <1>0, <1>1 DEF CodeInv, BlocksAliasBlocks
<1>12. literal_labels' = literal_labels
  BY <1>1 DEF literal_labels, outstanding
<1>13. LiteralsStay'
  <2> SUFFICES ASSUME NEW m \in literal_labels
               PROVE  /\ m \in NumBlocks .. (nlabels - 1) /\ m \in live
                      /\ \A i \in DOMAIN latest_branches : m \notin latest_branches[i].labels
                      /\ label_offsets'[m] # UNKNOWN_LABEL_OFFSET =>
                           label_offsets'[m] % 4 = 0 /\ label_offsets'[m] < off
    BY <1>1, <1>2, <1>12 DEF LiteralsStay, UNKNOWN_LABEL_OFFSET
  <2>1. /\ m \in NumBlocks .. (nlabels - 1) /\ m \in live
        /\ \A i \in DOMAIN latest_branches : m \notin latest_branches[i].labels
        /\ label_offsets[m] # UNKNOWN_LABEL_OFFSET =>
              label_offsets[m] % 4 = 0 /\ label_offsets[m] < off
    BY <1>0, <1>2 DEF CodeInv, LiteralsStay
  <2>2. label_offsets'[m] = label_offsets[m]
    <3>1. m # this
      BY <1>0, <1>2, <2>1 DEF Blocks
    <3> QED  BY <1>3, <2>1, <3>1 DEF live
  <2> QED  BY <2>1, <2>2
<1>14. StartsInv'
  <2>0. past_blocks
    BY <1>0, <1>1, <1>2 DEF CodeInv, TailSettled
  <2>1. StartsOrdered /\ StartsAtLabels /\ LabelsAtStarts
    BY <1>0, <1>1 DEF CodeInv, StartsInv
  <2>2. StartsOrdered'
    BY <1>1, <2>1 DEF StartsOrdered, Deleted
  <2>3. StartsAtLabels'
    <3>1. ASSUME NEW i \in DOMAIN bb_starts, bb_starts[i] # Deleted, final_order[i] \in live
          PROVE  label_offsets'[final_order[i]] = bb_starts[i]
      <4>1. final_order[i] # this /\ final_order[i] \in Label
        <5>1. Len(bb_starts) = block /\ DOMAIN bb_starts = 1 .. Len(bb_starts)
          BY <1>0, <1>1, <1>2 DEF BlockPhases, Least, EmitTypeOK
        <5>2. i \in 1 .. NumBlocks /\ i # block'
          BY <1>0, <1>1, <5>1
        <5> QED  BY <1>0, <1>2, <1>o, <3>1, <5>2, FinalOrder DEF live
      <4>2. label_offsets[final_order[i]] = bb_starts[i]
        BY <1>2, <2>1, <3>1 DEF StartsAtLabels
      <4> QED  BY <1>3, <4>1, <4>2
    <3>2. label_offsets'[final_order'[block']] = off'
      BY <1>1, <1>2, <1>3, <1>o
    <3> QED  BY <1>1, <1>2, <1>o, <3>1, <3>2 DEF StartsAtLabels, Deleted
  <2>4. LabelsAtStarts'
    <3>1. ASSUME NEW m \in Blocks \cap live, begun(m)', label_offsets'[m] # off
          PROVE  label_offsets'[m] \in starts /\ label_offsets'[m] < off
      <4>1. m # this /\ m \in Label
        BY <1>3, <3>1 DEF live
      <4>2. begun(m)
        <5>1. PICK i \in 1 .. NumBlocks : i <= block' /\ final_order[i] = m
          BY <1>o, <3>1 DEF begun
        <5>2. i # block'
          BY <1>o, <4>1, <5>1
        <5>3. i <= block
          BY <1>0, <1>1, <5>1, <5>2
        <5> QED  BY <5>1, <5>3 DEF begun
      <4>3. label_offsets[m] \in starts /\ label_offsets[m] < off
        BY <1>2, <2>0, <2>1, <3>1, <4>2 DEF LabelsAtStarts, past_blocks
      <4> QED  BY <1>3, <4>1, <4>3
    <3>2. starts' = starts
      BY <1>1 DEF starts, Deleted
    <3> QED  BY <1>1, <1>2, <1>5, <3>1, <3>2 DEF LabelsAtStarts, Blocks
  <2> QED  BY <2>2, <2>3, <2>4 DEF StartsInv
<1> QED
  BY <1>6, <1>7, <1>8, <1>9, <1>10, <1>11, <1>13, <1>14, EmitInvParts1 DEF CodeInv

\* The start of the block is recorded; what it replaces is deleted.
LEMMA CallBBStartInv == FInv /\ EmitInv /\ CallBBStart => EmitInv'
<1> SUFFICES ASSUME FInv, EmitInv, CallBBStart PROVE EmitInv'
  OBVIOUS
<1> DEFINE n == Len(bb_starts)
           kept == bb_starts_before(off)
<1>0. /\ TypeOK /\ EmitTypeOK /\ BlockPhases /\ CodeInv /\ off \in Nat /\ block \in Nat
      /\ label_offsets \in [Label -> Offset] /\ NumBlocks \in Nat
      /\ bb_starts \in Seq(Offset) /\ n \in Nat /\ DOMAIN bb_starts = 1 .. n
  BY EmitInvParts, SizesAssumption DEF FInv, IInv, TypeOK, EmitTypeOK
<1>1. /\ pc = "idle" /\ todo # <<>> /\ Head(todo).op = "bb_start" /\ todo' = Tail(todo)
      /\ UNCHANGED <<family, block, in_block, emitted>>
      /\ bb_starts' = Append(kept, off) /\ UNCHANGED vars
  BY DEF CallBBStart, next_call
<1>2. /\ UNCHANGED <<off, nlabels, label_offsets, label_aliases, latest_branches, finishing, pc,
                     pending_traps, pending_constants, pending_fixup_records, fixup_records,
                     taken>>
      /\ live' = live
  BY <1>1 DEF vars, labelVars, deferVars, islandVars, live
<1>o. final_order' = final_order
  BY <1>1, OrderKept
<1>3. starting /\ Len(todo) = 1 /\ in_block /\ ~puts_first /\ block \in 1 .. NumBlocks
      /\ n = block - 1 /\ ~finishing
  BY <1>0, <1>1 DEF BlockPhases, starting, puts_first, puts
<1>4. todo' = <<>>
  BY <1>0, <1>1, <1>3, TodoTail
<1>5. ~starting' /\ TailSettled' /\ NextCallReady' /\ LiteralsAhead' /\ CallsInOrder'
  BY <1>1, <1>2, <1>3, <1>4
     DEF starting, TailSettled, grows_next, NextCallReady, LiteralsAhead, CallsInOrder
<1>6. /\ kept \in Seq(Offset) /\ Len(kept) = n /\ DOMAIN kept = 1 .. n
      /\ \A i \in 1 .. n :
            \/ kept[i] = Deleted
            \/ /\ kept[i] = bb_starts[i]
               /\ \E j \in i .. n : bb_starts[j] # Deleted /\ bb_starts[j] < off
      /\ \A i \in 1 .. n : bb_starts[i] # Deleted /\ bb_starts[i] < off => kept[i] = bb_starts[i]
  <2>1. kept = [i \in 1 .. n |->
                  IF \E j \in i .. n : bb_starts[j] # Deleted /\ bb_starts[j] < off
                  THEN bb_starts[i] ELSE Deleted]
    BY <1>0 DEF bb_starts_before
  <2> HIDE DEF kept
  <2>2. \A i \in 1 .. n : kept[i] = IF \E j \in i .. n : bb_starts[j] # Deleted /\ bb_starts[j] < off
                                    THEN bb_starts[i] ELSE Deleted
    BY <2>1
  <2>3. \A i \in 1 .. n : kept[i] \in Offset
    BY <1>0, <2>2 DEF Offset, Deleted, UNKNOWN_LABEL_OFFSET
  <2>4. kept \in [1 .. n -> Offset]
    BY <2>1, <2>3
  <2>5. kept \in Seq(Offset) /\ Len(kept) = n /\ DOMAIN kept = 1 .. n
    <3> HIDE DEF n
    <3> QED  BY <1>0, <2>4, FunctionIsSeq
  <2>6. \A i \in 1 .. n : i \in i .. n
    BY <1>0
  <2> QED  BY <2>2, <2>5, <2>6
<1> HIDE DEF kept, n
<1>7. /\ bb_starts' \in Seq(Offset) /\ Len(bb_starts') = n + 1 /\ DOMAIN bb_starts' = 1 .. (n + 1)
      /\ bb_starts'[n + 1] = off /\ \A i \in 1 .. n : bb_starts'[i] = kept[i]
  BY <1>0, <1>1, <1>6 DEF Offset
<1>8. \A i \in DOMAIN bb_starts' : i \in 1 .. n \/ i = n + 1
  BY <1>0, <1>7
<1>9. StartsOrdered /\ StartsAtLabels /\ LabelsAtStarts
  BY <1>0, <1>3 DEF CodeInv, StartsInv
<1>10. \A i \in 1 .. n : bb_starts[i] \in Int
  BY <1>0 DEF Offset, UNKNOWN_LABEL_OFFSET
<1>11. ASSUME NEW i \in 1 .. n, kept[i] # Deleted
       PROVE  kept[i] = bb_starts[i] /\ bb_starts[i] < off /\ bb_starts[i] # Deleted
  <2>1. PICK j \in i .. n : bb_starts[j] # Deleted /\ bb_starts[j] < off
    BY <1>6, <1>11
  <2>2. kept[i] = bb_starts[i]
    BY <1>6, <1>11
  <2>3. j \in 1 .. n /\ (i = j \/ i < j)
    BY <1>0
  <2>4. i < j => bb_starts[i] < bb_starts[j]
    BY <1>0, <1>9, <1>11, <2>1, <2>2, <2>3 DEF StartsOrdered
  <2>5. bb_starts[i] < off
    BY <1>0, <1>10, <2>1, <2>3, <2>4
  <2> QED  BY <1>11, <2>2, <2>5
<1>12. StartsOrdered'
  <2> SUFFICES ASSUME NEW i \in DOMAIN bb_starts', NEW j \in DOMAIN bb_starts', i < j,
                      bb_starts'[i] # Deleted, bb_starts'[j] # Deleted
               PROVE  bb_starts'[i] < bb_starts'[j]
    BY DEF StartsOrdered, Deleted
  <2>1. i \in 1 .. n
    BY <1>0, <1>7, <1>8
  <2>2. CASE j = n + 1
    BY <1>7, <1>11, <2>1, <2>2
  <2>3. CASE j \in 1 .. n
    BY <1>0, <1>7, <1>9, <1>11, <2>1, <2>3 DEF StartsOrdered
  <2> QED  BY <1>8, <2>2, <2>3
<1>13. StartsAtLabels'
  <2> SUFFICES ASSUME NEW i \in DOMAIN bb_starts', bb_starts'[i] # Deleted, final_order[i] \in live
               PROVE  label_offsets[final_order[i]] = bb_starts'[i]
    BY <1>2, <1>5, <1>o DEF StartsAtLabels, Deleted
  <2>1. CASE i = n + 1
    <3>1. i = block
      BY <1>0, <1>3, <2>1
    <3> QED  BY <1>3, <1>7, <1>9, <2>1, <3>1 DEF StartsAtLabels
  <2>2. CASE i \in 1 .. n
    BY <1>0, <1>7, <1>9, <1>11, <2>2 DEF StartsAtLabels
  <2> QED  BY <1>8, <2>1, <2>2
<1>14. LabelsAtStarts'
  <2> SUFFICES ASSUME NEW m \in Blocks \cap live, begun(m)
               PROVE  label_offsets[m] \in starts'
    BY <1>1, <1>2, <1>5, <1>o DEF begun, LabelsAtStarts, Blocks
  <2>1. starts' = {bb_starts'[i] : i \in DOMAIN bb_starts'} \ {Deleted}
    BY DEF starts, Deleted
  <2>2. CASE label_offsets[m] = off
    <3>1. n + 1 \in DOMAIN bb_starts' /\ off # Deleted
      BY <1>0, <1>7 DEF Deleted
    <3> QED  BY <1>7, <2>1, <2>2, <3>1
  <2>3. CASE label_offsets[m] \in starts /\ label_offsets[m] < off
    <3>1. PICK i \in 1 .. n : bb_starts[i] = label_offsets[m] /\ bb_starts[i] # Deleted
      BY <1>0, <2>3 DEF starts
    <3>2. bb_starts'[i] = bb_starts[i] /\ i \in DOMAIN bb_starts'
      BY <1>0, <1>6, <1>7, <2>3, <3>1
    <3> QED  BY <2>1, <3>1, <3>2
  <2> QED  BY <1>3, <1>9, <2>2, <2>3 DEF LabelsAtStarts
<1>15. EmitTypeOK'
  <2>1. todo' \in Seq(CallRecord')
    BY <1>4
  <2> QED  BY <1>0, <1>1, <1>2, <1>7, <2>1 DEF EmitTypeOK
<1>16. BlockPhases'
  <2>1. Len(bb_starts') = Least(block, NumBlocks) /\ ~(block > NumBlocks)
    BY <1>0, <1>3, <1>7 DEF Least
  <2> QED  BY <1>0, <1>1, <1>2, <1>3, <1>5, <2>1 DEF BlockPhases
<1>17. BlocksAliasBlocks'
  BY <1>0, <1>1, <1>2 DEF CodeInv, BlocksAliasBlocks
<1>18. literal_labels' = literal_labels
  BY <1>2 DEF literal_labels, outstanding
<1>19. LiteralsStay'
  BY <1>0, <1>2, <1>3, <1>18 DEF CodeInv, LiteralsStay, UNKNOWN_LABEL_OFFSET
<1>20. StartsInv'
  BY <1>12, <1>13, <1>14 DEF StartsInv
<1> QED
  BY <1>5, <1>15, <1>16, <1>17, <1>19, <1>20, EmitInvParts1 DEF CodeInv

\* optimize_branches after the last block.
LEMMA EndFunctionInv == FInv /\ EmitInv /\ FInv' /\ EndFunction => EmitInv'
<1> SUFFICES ASSUME FInv, EmitInv, FInv', EndFunction PROVE EmitInv'
  OBVIOUS
<1>0. TypeOK /\ EmitTypeOK /\ BlockPhases /\ CodeInv /\ NumBlocks \in Nat
  BY EmitInvParts, SizesAssumption DEF FInv, IInv
<1>1. /\ pc = "idle" /\ todo = <<>> /\ ~finishing /\ ~in_block /\ block = NumBlocks
      /\ block' = block + 1 /\ UNCHANGED <<family, todo, in_block, emitted, bb_starts>>
      /\ pc' \in {"idle", "optimize_branches"}
      /\ UNCHANGED <<off, nlabels, label_offsets, label_aliases, latest_branches, finishing,
                     pending_traps, pending_constants, pending_fixup_records, fixup_records,
                     taken>>
  BY DEF EndFunction, ready, OptimizeBranches, enter_optimize_branches, deferVars, islandVars
<1>2. ~starting /\ ~starting' /\ live' = live /\ ~grows_next /\ ~puts_first
  BY <1>1 DEF starting, live, grows_next, puts_first
<1>3. CallsInOrder' /\ todo' \in Seq(CallRecord')
  BY <1>0, <1>1, SameCalls
<1>4. EmitTypeOK'
  <2>1. block' \in 0 .. (NumBlocks + 1)
    BY <1>0, <1>1
  <2> QED  BY <1>0, <1>1, <1>3, <2>1 DEF EmitTypeOK
<1>5. BlockPhases'
  <2>1. Least(block', NumBlocks) = Least(block, NumBlocks)
    BY <1>0, <1>1 DEF Least
  <2> QED  BY <1>0, <1>1, <1>2, <2>1 DEF BlockPhases
<1>6. StartsInv'
  <2>1. block >= NumBlocks
    BY <1>0, <1>1
  <2> QED  BY <1>0, <1>1, <1>2, <2>1, StartsKept DEF CodeInv
<1>7. NextCallReady' /\ LiteralsAhead'
  BY <1>1 DEF NextCallReady, LiteralsAhead
<1>8. TailSettled'
  <2>1. past_blocks /\ (tail_free \/ no_label_at_tail)
    BY <1>0, <1>1, <1>2 DEF CodeInv, TailSettled
  <2>2. past_blocks' /\ (tail_free' \/ no_label_at_tail')
    BY <1>1, <1>2, <2>1 DEF past_blocks, tail_free, no_label_at_tail, labels_bound_at, b, Last,
                            UNKNOWN_LABEL
  <2> QED  BY <2>2 DEF TailSettled
<1>9. BlocksAliasBlocks'
  BY <1>0, <1>1 DEF CodeInv, BlocksAliasBlocks
<1>10. literal_labels' = literal_labels
  BY <1>1 DEF literal_labels, outstanding
<1>11. LiteralsStay'
  BY <1>0, <1>1, <1>2, <1>10 DEF CodeInv, LiteralsStay, UNKNOWN_LABEL_OFFSET
<1> QED
  BY <1>3, <1>4, <1>5, <1>6, <1>7, <1>8, <1>9, <1>11, EmitInvParts1 DEF CodeInv

(***************************************************************************)
(* optimize_branches.                                                      *)
(***************************************************************************)

\* In a set of labels that are redirected to each other only, every label
\* resolves to where a label of the set is bound that is not redirected.
LEMMA ResolvesToLive ==
    ASSUME TypeOK, NoAliasCycle, NEW S \in SUBSET Label,
           \A l \in S : label_aliases[l] # UNKNOWN_LABEL => label_aliases[l] \in S
    PROVE  \A l \in S : \E m \in S \cap live : resolve_label_offset[l] = label_offsets[m]
<1> DEFINE Bad == {l \in S : \A m \in S \cap live : resolve_label_offset[l] # label_offsets[m]}
<1>1. ASSUME Bad # {} PROVE FALSE
  <2>1. Bad \in SUBSET Label
    OBVIOUS
  <2>2. PICK l \in Bad : label_aliases[l] \notin Bad
    BY <1>1, <2>1 DEF NoAliasCycle
  <2>3. l \in S /\ l \in Label /\ \A m \in S \cap live : resolve_label_offset[l] # label_offsets[m]
    BY <2>2
  <2>4. CASE label_aliases[l] = UNKNOWN_LABEL
    <3>1. resolve_label_offset[l] = label_offsets[l]
      BY <2>3, <2>4, ResolveValue
    <3>2. l \in S \cap live
      BY <2>3, <2>4 DEF live
    <3> QED  BY <2>3, <3>1, <3>2
  <2>5. CASE label_aliases[l] # UNKNOWN_LABEL
    <3> DEFINE k == label_aliases[l]
    <3>1. resolve_label_offset[l] = resolve_label_offset[k]
      BY <2>3, <2>5, ResolveValue
    <3>2. k \in S /\ k \notin Bad
      BY <2>2, <2>3, <2>5
    <3> HIDE DEF k
    <3>3. PICK m \in S \cap live : resolve_label_offset[k] = label_offsets[m]
      BY <3>2
    <3> QED  BY <2>3, <3>1, <3>3
  <2> QED  BY <2>4, <2>5
<1> QED  BY <1>1

\* The calls left when optimize_branches runs bind nothing next.
LEMMA NotReadyWhileOptimizing ==
    ASSUME EmitInv, pc = "optimize_branches", UNCHANGED todo
    PROVE  /\ NextCallReady'
           /\ literal_labels' \subseteq literal_labels => LiteralsAhead'
<1>0. NextCallReady /\ LiteralsAhead
  BY EmitInvParts DEF CodeInv
<1>1. NextCallReady'
  <2>1. todo # <<>> =>
          /\ Head(todo).op # "bind"
          /\ ~(Head(todo).op = "align" /\ next_op(todo, 1, "bind"))
          /\ ~(jumps_ahead(Head(todo)) /\ ~next_op(todo, 1, "island"))
    BY <1>0 DEF NextCallReady
  <2> QED  BY <2>1 DEF NextCallReady, jumps_ahead, next_op
<1>2. ASSUME literal_labels' \subseteq literal_labels PROVE LiteralsAhead'
  <2> SUFFICES ASSUME NEW m \in literal_labels, NEW j \in DOMAIN todo,
                      todo[j].op = "bind", todo[j].l = m
               PROVE  j # 1 /\ todo[j - 1].op = "align"
    BY <1>2 DEF LiteralsAhead
  <2> QED  BY <1>0 DEF LiteralsAhead
<1> QED  BY <1>1, <1>2

\* Types and phases after an iteration of optimize_branches.
LEMMA OptPhases ==
    ASSUME TypeOK, EmitInv, pc = "optimize_branches", ~finishing, UNCHANGED emitVars,
           pc' \in {"idle", "optimize_branches"},
           UNCHANGED <<nlabels, finishing, pending_traps, pending_constants>>,
           \A i \in DOMAIN latest_branches' : ~latest_branches'[i].cond
    PROVE  EmitTypeOK' /\ BlockPhases'
<1>0. EmitTypeOK /\ BlockPhases
  BY EmitInvParts
<1>1. UNCHANGED <<family, todo, block, in_block, emitted, bb_starts>>
  BY DEF emitVars
<1>2. CallRecord' = CallRecord /\ starting' = starting
  BY <1>1 DEF CallRecord, allocated, starting
<1>3. EmitTypeOK'
  BY <1>0, <1>1, <1>2 DEF EmitTypeOK
<1>4. BlockPhases'
  BY <1>0, <1>1, <1>2 DEF BlockPhases
<1> QED  BY <1>3, <1>4

\* Blocks keep their starts in an iteration that moves no label and no code.
LEMMA StartsSame ==
    ASSUME EmitInv, ~finishing, UNCHANGED emitVars, UNCHANGED <<off, label_offsets>>,
           live' \subseteq live
    PROVE  StartsInv'
<1>0. StartsOrdered /\ StartsAtLabels /\ LabelsAtStarts
  BY EmitInvParts DEF CodeInv, StartsInv
<1>1. UNCHANGED <<todo, block, bb_starts>>
  BY DEF emitVars
<1>2. starting' = starting /\ starts' = starts
  BY <1>1 DEF starting, starts, Deleted
<1>o. final_order' = final_order
  BY OrderKept DEF emitVars
<1>3. StartsOrdered'
  BY <1>0, <1>1 DEF StartsOrdered, Deleted
<1>4. StartsAtLabels'
  BY <1>0, <1>1, <1>2, <1>o DEF StartsAtLabels, Deleted
<1>5. LabelsAtStarts'
  BY <1>0, <1>1, <1>2, <1>o DEF LabelsAtStarts, Blocks, begun
<1> QED  BY <1>3, <1>4, <1>5 DEF StartsInv

\* optimize_branches ends.
LEMMA OptDoneInv == FInv /\ EmitInv /\ UNCHANGED emitVars /\ OptDone => EmitInv'
<1> SUFFICES ASSUME FInv, EmitInv, UNCHANGED emitVars, OptDone PROVE EmitInv'
  OBVIOUS
<1>0. TypeOK /\ EmitTypeOK /\ CodeInv /\ latest_branches \in Seq(Branch)
  BY EmitInvParts DEF FInv, IInv, TypeOK
<1>1. /\ pc = "optimize_branches" /\ pc' = "idle"
      /\ latest_branches' = IF latest_branches # <<>> /\ b.end < off THEN <<>> ELSE latest_branches
      /\ UNCHANGED <<off, nlabels, label_offsets, label_aliases, finishing,
                     pending_traps, pending_constants, pending_fixup_records, fixup_records,
                     taken>>
  BY DEF OptDone, purge_latest_branches, labelVars, deferVars, islandVars
<1>2. ~finishing
  BY <1>1 DEF FInv, FinishPhases
<1>3. UNCHANGED <<family, todo, block, in_block, emitted, bb_starts>>
  BY DEF emitVars
<1>4. live' = live /\ literal_labels' = literal_labels
  BY <1>1 DEF live, literal_labels, outstanding
<1>5. \A i \in DOMAIN latest_branches' :
         i \in DOMAIN latest_branches /\ latest_branches'[i] = latest_branches[i]
  BY <1>1
<1>6. /\ CallsInOrder' /\ (starting' <=> starting) /\ (puts_first' <=> puts_first)
  BY <1>0, <1>1, <1>3, SameCalls
<1>7. EmitTypeOK' /\ BlockPhases'
  BY <1>0, <1>1, <1>2, <1>5, OptPhases DEF EmitTypeOK
<1>8. NextCallReady' /\ LiteralsAhead'
  BY <1>1, <1>3, <1>4, NotReadyWhileOptimizing
<1>9. StartsInv'
  BY <1>1, <1>2, <1>4, StartsSame
<1>10. BlocksAliasBlocks'
  <2>1. \A i \in DOMAIN latest_branches' :
           latest_branches'[i].target \in Blocks \/ latest_branches'[i].labels \cap Blocks = {}
    BY <1>0, <1>1, <1>5 DEF CodeInv, BlocksAliasBlocks
  <2> QED  BY <1>0, <1>1, <2>1 DEF CodeInv, BlocksAliasBlocks, Blocks, UNKNOWN_LABEL
<1>11. LiteralsStay'
  BY <1>0, <1>1, <1>4, <1>5, <1>6 DEF CodeInv, LiteralsStay, UNKNOWN_LABEL_OFFSET
<1>12. TailSettled'
  <2>1. grows_next' <=> grows_next
    BY <1>3, <1>6 DEF grows_next
  <2>2. past_blocks' <=> past_blocks
    BY <1>1, <1>4 DEF past_blocks
  <2>3. no_label_at_tail' <=> no_label_at_tail
    BY <1>1 DEF no_label_at_tail, labels_bound_at, UNKNOWN_LABEL
  <2>4. CASE latest_branches' = <<>>
    <3>1. tail_free'
      BY <2>4 DEF tail_free
    <3>2. starting \/ past_blocks
      BY <1>0, <1>1, <1>2 DEF CodeInv, TailSettled
    <3> QED  BY <1>6, <2>2, <3>1, <3>2 DEF TailSettled
  <2>5. CASE latest_branches' = latest_branches
    <3>1. b' = b /\ prev_b' = prev_b
      BY <2>5 DEF b, prev_b, Last
    <3>2. tail_free' <=> tail_free
      BY <1>1, <2>5, <3>1 DEF tail_free
    <3>3. pinned' <=> pinned
      BY <1>1, <2>5, <3>1 DEF pinned, UNKNOWN_LABEL_OFFSET
    <3> QED  BY <1>0, <1>1, <1>2, <1>6, <2>1, <2>2, <2>3, <3>2, <3>3 DEF CodeInv, TailSettled
  <2> QED  BY <1>1, <2>4, <2>5
<1> QED
  BY <1>6, <1>7, <1>8, <1>9, <1>10, <1>11, <1>12, EmitInvParts1 DEF CodeInv

\* The labels of the last branch are redirected to its target.
LEMMA OptRedirectInv == FInv /\ EmitInv /\ FInv' /\ UNCHANGED emitVars /\ OptRedirect => EmitInv'
<1> SUFFICES ASSUME FInv, EmitInv, FInv', UNCHANGED emitVars, OptRedirect PROVE EmitInv'
  OBVIOUS
<1> DEFINE n == Len(latest_branches)
<1>0. /\ IInv /\ TypeOK /\ EmitTypeOK /\ CodeInv /\ latest_branches \in Seq(Branch)
      /\ label_aliases \in [Label -> Label \cup {UNKNOWN_LABEL}] /\ off \in Nat
  BY EmitInvParts DEF FInv, IInv, TypeOK
<1>1. /\ pc = "optimize_branches" /\ pc' = "optimize_branches" /\ editable /\ b.labels # {}
      /\ label_aliases' = [l \in Label |-> IF l \in b.labels THEN b.target ELSE label_aliases[l]]
      /\ latest_branches' = [latest_branches EXCEPT ![n].labels = {}]
      /\ UNCHANGED <<off, nlabels, label_offsets, finishing,
                     pending_traps, pending_constants, pending_fixup_records, fixup_records,
                     taken>>
  BY DEF OptRedirect, redirects, redirectable, deferVars, islandVars
<1>2. ~finishing
  BY <1>1 DEF FInv, FinishPhases
<1>3. UNCHANGED <<family, todo, block, in_block, emitted, bb_starts>>
  BY DEF emitVars
<1>4. /\ n \in Nat /\ n >= 1 /\ DOMAIN latest_branches = 1 .. n /\ n \in DOMAIN latest_branches
      /\ b = latest_branches[n] /\ b \in Branch /\ b.end = off /\ b.target \in Label
      /\ b.labels \subseteq Label
  BY <1>0, <1>1, LastBranch
<1>5. /\ DOMAIN latest_branches' = DOMAIN latest_branches
      /\ \A i \in DOMAIN latest_branches :
            /\ latest_branches'[i].labels \subseteq latest_branches[i].labels
            /\ latest_branches'[i].target = latest_branches[i].target
            /\ latest_branches'[i].cond = latest_branches[i].cond
  <2> DEFINE br == [latest_branches[n] EXCEPT !.labels = {}]
  <2>1. br \in Branch /\ br.labels = {} /\ br.target = b.target /\ br.cond = b.cond
    BY <1>4 DEF Branch
  <2>2. latest_branches' = [latest_branches EXCEPT ![n] = br]
    BY <1>1
  <2> HIDE DEF br
  <2>3. /\ DOMAIN latest_branches' = DOMAIN latest_branches
        /\ \A i \in 1 .. n : latest_branches'[i] = IF i = n THEN br ELSE latest_branches[i]
    BY <1>0, <1>4, <2>1, <2>2, ExceptType
  <2> QED  BY <1>4, <2>1, <2>3
<1> HIDE DEF n
<1>6. /\ live' \subseteq live /\ \A l \in live : l \notin b.labels => l \in live'
      /\ \A l \in Label : label_aliases'[l] = IF l \in b.labels THEN b.target ELSE label_aliases[l]
  <2>1. UNKNOWN_LABEL \notin Label
    BY <1>0, DeferredType
  <2>2. \A l \in Label : label_aliases'[l] = IF l \in b.labels THEN b.target ELSE label_aliases[l]
    BY <1>1
  <2> QED  BY <1>4, <2>1, <2>2 DEF live, UNKNOWN_LABEL
<1>7. literal_labels' = literal_labels
  BY <1>1 DEF literal_labels, outstanding
<1>8. /\ CallsInOrder' /\ (starting' <=> starting) /\ (puts_first' <=> puts_first)
  BY <1>0, <1>1, <1>3, SameCalls
<1>9. EmitTypeOK' /\ BlockPhases'
  BY <1>0, <1>1, <1>2, <1>5, OptPhases DEF EmitTypeOK
<1>10. NextCallReady' /\ LiteralsAhead'
  BY <1>1, <1>3, <1>7, NotReadyWhileOptimizing
<1>11. StartsInv'
  BY <1>1, <1>2, <1>6, StartsSame
<1>12. BlocksAliasBlocks'
  <2>1. \A i \in DOMAIN latest_branches :
           latest_branches[i].target \in Blocks \/ latest_branches[i].labels \cap Blocks = {}
    BY <1>0, <1>1 DEF CodeInv, BlocksAliasBlocks
  <2>2. \A i \in DOMAIN latest_branches' :
           latest_branches'[i].target \in Blocks \/ latest_branches'[i].labels \cap Blocks = {}
    BY <1>5, <2>1
  <2>3. ASSUME NEW l \in Blocks, label_aliases'[l] # UNKNOWN_LABEL
        PROVE  label_aliases'[l] \in Blocks
    <3>1. l \in Label
      BY SizesAssumption DEF Blocks, Label
    <3>2. CASE l \in b.labels
      BY <1>4, <1>6, <2>1, <3>1, <3>2
    <3>3. CASE l \notin b.labels
      BY <1>0, <1>6, <2>3, <3>1, <3>3 DEF CodeInv, BlocksAliasBlocks
    <3> QED  BY <3>2, <3>3
  <2> QED  BY <2>2, <2>3 DEF BlocksAliasBlocks, Blocks, UNKNOWN_LABEL
<1>13. LiteralsStay'
  <2> SUFFICES ASSUME NEW m \in literal_labels
               PROVE  /\ m \in NumBlocks .. (nlabels - 1) /\ m \in live'
                      /\ \A i \in DOMAIN latest_branches' : m \notin latest_branches'[i].labels
                      /\ label_offsets[m] # UNKNOWN_LABEL_OFFSET =>
                           label_offsets[m] % 4 = 0 /\ (label_offsets[m] < off \/ puts_first)
    BY <1>1, <1>7, <1>8 DEF LiteralsStay, UNKNOWN_LABEL_OFFSET
  <2>1. /\ m \in NumBlocks .. (nlabels - 1) /\ m \in live
        /\ \A i \in DOMAIN latest_branches : m \notin latest_branches[i].labels
        /\ label_offsets[m] # UNKNOWN_LABEL_OFFSET =>
              label_offsets[m] % 4 = 0 /\ (label_offsets[m] < off \/ puts_first)
    BY <1>0 DEF CodeInv, LiteralsStay
  <2> QED  BY <1>4, <1>5, <1>6, <2>1
<1>14. TailSettled'
  <2>1. CASE starting
    BY <1>8, <2>1 DEF TailSettled
  <2>2. CASE ~starting
    <3>1. ~tail_free /\ ~pinned
      BY <1>0, <1>1, <1>4 DEF tail_free, pinned, editable
    <3>2. past_blocks /\ no_label_at_tail
      BY <1>0, <1>1, <1>2, <2>2, <3>1 DEF CodeInv, TailSettled
    <3>3. past_blocks'
      BY <1>1, <1>6, <3>2 DEF past_blocks, Blocks
    <3>4. no_label_at_tail'
      <4>1. \A l \in Label : l \in live' => label_offsets[l] # off
        BY <1>6, <3>2 DEF no_label_at_tail, labels_bound_at, live
      <4> QED  BY <1>1, <4>1 DEF no_label_at_tail, labels_bound_at, live
    <3> QED  BY <3>3, <3>4 DEF TailSettled
  <2> QED  BY <2>1, <2>2
<1> QED
  BY <1>8, <1>9, <1>10, <1>11, <1>12, <1>13, <1>14, EmitInvParts1 DEF CodeInv

\* The last branch is removed: outside the start of a block nothing is bound
\* at it or behind it; where a block starts, its label moves with the tail.
LEMMA OptTruncateInv == FInv /\ EmitInv /\ FInv' /\ UNCHANGED emitVars /\ OptTruncate => EmitInv'
<1> SUFFICES ASSUME FInv, EmitInv, FInv', UNCHANGED emitVars, OptTruncate PROVE EmitInv'
  OBVIOUS
<1> DEFINE n == Len(latest_branches)
<1>0. /\ IInv /\ TypeOK /\ EmitTypeOK /\ BlockPhases /\ CodeInv /\ off \in Nat
      /\ label_offsets \in [Label -> Offset] /\ NoLabelPastTail /\ UnusedUnbound
  BY EmitInvParts DEF FInv, IInv, TypeOK
<1>1. /\ pc = "optimize_branches" /\ pc' = "optimize_branches" /\ editable
      /\ truncate_last_branch
      /\ branch_to_tail \/ uncond_after_uncond
      /\ latest_branches' = truncated_branches /\ pending_fixup_records' = truncated_fixups
      /\ UNCHANGED <<nlabels, finishing, pending_traps, pending_constants, fixup_records, taken>>
  BY DEF OptTruncate, branch_to_tail, uncond_after_uncond, has_prev, redirectable, deferVars,
         islandVars
<1>2. ~finishing
  BY <1>1 DEF FInv, FinishPhases
<1>3. UNCHANGED <<family, todo, block, in_block, emitted, bb_starts>>
  BY DEF emitVars
<1>4. /\ n \in Nat /\ n >= 1 /\ DOMAIN latest_branches = 1 .. n /\ n \in DOMAIN latest_branches
      /\ b = latest_branches[n] /\ b.end = off /\ b.target \in Label /\ b.start \in Nat
      /\ b.labels = labels_bound_at(b.start) /\ b.start < off
      /\ \A x \in live : label_offsets[x] <= b.start \/ label_offsets[x] = off
      /\ b.fixup \in 1 .. Len(pending_fixup_records)
  BY <1>0, <1>1, LastBranch
<1>5. /\ live' = live /\ off' = b.start /\ label_aliases' = label_aliases
      /\ \A x \in Label : label_offsets'[x] =
            IF x \in live /\ label_offsets[x] = off THEN b.start ELSE label_offsets[x]
  BY <1>0, <1>1, TruncateLabels
<1>6. /\ \A i \in DOMAIN latest_branches' :
            i \in DOMAIN latest_branches /\ latest_branches'[i] = latest_branches[i]
      /\ \A i \in DOMAIN pending_fixup_records' :
            /\ i \in DOMAIN pending_fixup_records
            /\ pending_fixup_records'[i] = pending_fixup_records[i]
  <2>1. /\ truncated_branches \in Seq(Branch) /\ Len(truncated_branches) = n - 1
        /\ truncated_fixups \in Seq(Fixup) /\ Len(truncated_fixups) = b.fixup - 1
        /\ \A i \in 1 .. (n - 1) : truncated_branches[i] = latest_branches[i]
        /\ \A j \in 1 .. (b.fixup - 1) : truncated_fixups[j] = pending_fixup_records[j]
    BY <1>0, <1>1, TruncatedLists
  <2>2. pending_fixup_records \in Seq(Fixup)
    BY <1>0 DEF TypeOK
  <2> HIDE DEF n
  <2>3. \A i \in DOMAIN truncated_branches : i \in 1 .. (n - 1) /\ i \in DOMAIN latest_branches
    BY <1>4, <2>1
  <2>4. \A i \in DOMAIN truncated_fixups :
           i \in 1 .. (b.fixup - 1) /\ i \in DOMAIN pending_fixup_records
    BY <1>4, <2>1, <2>2
  <2> QED  BY <1>1, <2>1, <2>3, <2>4
<1>7. literal_labels' \subseteq literal_labels
  BY <1>1, <1>6 DEF literal_labels, outstanding
<1>8. \A x \in Label : label_offsets[x] = UNKNOWN_LABEL_OFFSET =>
                          label_offsets'[x] = UNKNOWN_LABEL_OFFSET
  BY <1>0, <1>5 DEF UNKNOWN_LABEL_OFFSET
<1>9. /\ CallsInOrder' /\ (starting' <=> starting) /\ (puts_first' <=> puts_first)
  BY <1>0, <1>1, <1>3, <1>8, SameCalls
<1>10. EmitTypeOK' /\ BlockPhases'
  BY <1>0, <1>1, <1>2, <1>6, OptPhases DEF EmitTypeOK
<1>11. NextCallReady' /\ LiteralsAhead'
  BY <1>1, <1>3, <1>7, NotReadyWhileOptimizing
<1>12. BlocksAliasBlocks'
  <2>1. \A i \in DOMAIN latest_branches' :
           latest_branches'[i].target \in Blocks \/ latest_branches'[i].labels \cap Blocks = {}
    BY <1>0, <1>1, <1>6 DEF CodeInv, BlocksAliasBlocks
  <2> QED  BY <1>0, <1>5, <2>1 DEF CodeInv, BlocksAliasBlocks, Blocks, UNKNOWN_LABEL
<1>t. \A x \in live : x \in Label /\ label_offsets[x] \in Int /\ label_offsets[x] <= off
  BY <1>0 DEF NoLabelPastTail, live, Offset, UNKNOWN_LABEL_OFFSET
<1>13. CASE ~starting
  <2>1. past_blocks /\ no_label_at_tail /\ ~pinned
    <3>1. ~tail_free
      BY <1>0, <1>1, <1>4 DEF tail_free, editable
    <3>2. ~pinned
      <4> SUFFICES ASSUME pinned PROVE FALSE
        OBVIOUS
      <4>1. resolve_label_offset[b.target] = UNKNOWN_LABEL_OFFSET
        <5>1. label_offsets[b.target] = UNKNOWN_LABEL_OFFSET
          BY DEF pinned
        <5>2. label_aliases[b.target] = UNKNOWN_LABEL
          BY <1>0, <1>4, <5>1 DEF UnusedUnbound, live
        <5>3. NoAliasCycle
          BY <1>0 DEF IInv
        <5> QED  BY <1>0, <1>4, <5>1, <5>2, <5>3, ResolveValue
      <4>2. ~branch_to_tail
        BY <1>0, <4>1 DEF branch_to_tail, UNKNOWN_LABEL_OFFSET
      <4>3. ~uncond_after_uncond
        <5>1. Len(latest_branches) > 1 => prev_b.end < b.start
          BY DEF pinned
        <5>2. Len(latest_branches) > 1 => prev_b.end \in Nat
          <6>1. n > 1 => n - 1 \in DOMAIN latest_branches
            BY <1>4
          <6> QED  BY <1>0, <6>1, BranchType DEF prev_b
        <5> QED  BY <1>4, <5>1, <5>2 DEF uncond_after_uncond, has_prev
      <4> QED  BY <1>1, <4>2, <4>3
    <3> QED  BY <1>0, <1>1, <1>2, <1>13, <3>1, <3>2 DEF CodeInv, TailSettled
  <2>2. \A x \in live : label_offsets[x] # off
    BY <2>1 DEF no_label_at_tail, labels_bound_at, live
  <2>3. uncond_after_uncond
    <3>1. \A l \in Label : label_aliases[l] # UNKNOWN_LABEL => label_aliases[l] \in Label
      BY <1>0 DEF TypeOK
    <3>2. NoAliasCycle /\ Label \in SUBSET Label
      BY <1>0 DEF IInv
    <3>3. PICK m \in Label \cap live : resolve_label_offset[b.target] = label_offsets[m]
      <4> HIDE DEF n
      <4> QED  BY <1>0, <1>4, <3>1, <3>2, ResolvesToLive
    <3> QED  BY <1>1, <2>2, <3>3 DEF branch_to_tail
  <2>4. b.labels = {}
    BY <2>3 DEF uncond_after_uncond, has_prev
  <2>5. \A x \in live : /\ label_offsets'[x] = label_offsets[x]
                        /\ label_offsets[x] # b.start /\ label_offsets[x] < off'
    <3>1. \A x \in live : label_offsets[x] # b.start
      BY <1>4, <2>4 DEF labels_bound_at, live
    <3> QED  BY <1>4, <1>5, <1>t, <2>2, <3>1
  <2>6. StartsInv'
    <3>1. \A l \in Blocks : l \in live' => l \in live /\ label_offsets'[l] = label_offsets[l]
      BY <1>5, <2>5
    <3> QED  BY <1>0, <1>2, <1>3, <1>9, <1>13, <3>1, StartsKept DEF CodeInv
  <2>7. TailSettled'
    <3>1. past_blocks'
      BY <1>5, <2>5 DEF past_blocks, Blocks
    <3>2. no_label_at_tail'
      <4>1. \A x \in live : label_offsets'[x] # off'
        BY <1>5, <2>5
      <4> QED  BY <1>5, <4>1 DEF no_label_at_tail, labels_bound_at, live
    <3> QED  BY <3>1, <3>2 DEF TailSettled
  <2>8. LiteralsStay'
    <3> SUFFICES ASSUME NEW m \in literal_labels
                 PROVE  /\ m \in NumBlocks .. (nlabels - 1) /\ m \in live
                        /\ \A i \in DOMAIN latest_branches' : m \notin latest_branches'[i].labels
                        /\ label_offsets'[m] # UNKNOWN_LABEL_OFFSET =>
                             label_offsets'[m] % 4 = 0 /\ label_offsets'[m] < off'
      BY <1>1, <1>5, <1>7 DEF LiteralsStay, UNKNOWN_LABEL_OFFSET
    <3>1. /\ m \in NumBlocks .. (nlabels - 1) /\ m \in live
          /\ \A i \in DOMAIN latest_branches : m \notin latest_branches[i].labels
          /\ label_offsets[m] # UNKNOWN_LABEL_OFFSET => label_offsets[m] % 4 = 0
      BY <1>0 DEF CodeInv, LiteralsStay
    <3> QED  BY <1>6, <2>5, <3>1
  <2> QED
    BY <1>9, <1>10, <1>11, <1>12, <2>6, <2>7, <2>8, EmitInvParts1 DEF CodeInv
<1>o. final_order' = final_order
  BY OrderKept DEF emitVars
<1>14. CASE starting
  <2>1. StartsOrdered /\ StartsAtLabels /\ LabelsAtStarts
    BY <1>0, <1>2 DEF CodeInv, StartsInv
  <2>2. TailSettled'
    BY <1>9, <1>14 DEF TailSettled
  <2>3. StartsOrdered'
    BY <1>3, <2>1 DEF StartsOrdered, Deleted
  <2>4. StartsAtLabels'
    <3>1. ASSUME NEW i \in DOMAIN bb_starts, bb_starts[i] # Deleted, final_order[i] \in live,
                 bb_starts[i] < off'
          PROVE  label_offsets'[final_order[i]] = bb_starts[i]
      <4>1. bb_starts[i] \in Int
        BY <1>0 DEF EmitTypeOK, Offset, UNKNOWN_LABEL_OFFSET
      <4>2. bb_starts[i] < off
        BY <1>0, <1>4, <1>5, <3>1, <4>1
      <4>3. label_offsets[final_order[i]] = bb_starts[i]
        BY <1>14, <2>1, <3>1, <4>2 DEF StartsAtLabels
      <4>4. label_offsets[final_order[i]] # off /\ final_order[i] \in Label
        BY <1>0, <1>t, <3>1, <4>1, <4>2, <4>3
      <4> QED  BY <1>5, <4>3, <4>4
    <3>2. ASSUME final_order[block] \in live PROVE label_offsets'[final_order[block]] = off'
      BY <1>5, <1>14, <1>t, <2>1, <3>2 DEF StartsAtLabels
    <3> QED  BY <1>3, <1>5, <1>9, <1>14, <1>o, <3>1, <3>2 DEF StartsAtLabels, Deleted
  <2>5. LabelsAtStarts'
    <3>1. ASSUME NEW l \in Blocks \cap live, begun(l), label_offsets'[l] # off'
          PROVE  label_offsets'[l] \in starts /\ label_offsets'[l] < off'
      <4>1. l \in Label /\ label_offsets[l] \in Int /\ label_offsets[l] <= off
        BY <1>t
      <4>2. label_offsets[l] # off
        BY <1>5, <3>1, <4>1
      <4>3. label_offsets'[l] = label_offsets[l]
        BY <1>5, <4>1, <4>2
      <4>4. label_offsets[l] \in starts
        BY <2>1, <3>1, <4>2 DEF LabelsAtStarts
      <4>5. label_offsets[l] <= b.start
        BY <1>4, <4>2
      <4> QED  BY <1>4, <1>5, <3>1, <4>1, <4>3, <4>4, <4>5
    <3>2. starts' = starts
      BY <1>3 DEF starts, Deleted
    <3> QED  BY <1>3, <1>5, <1>9, <1>14, <1>o, <3>1, <3>2 DEF LabelsAtStarts, Blocks, begun
  <2>6. StartsInv'
    BY <2>3, <2>4, <2>5 DEF StartsInv
  <2>7. LiteralsStay'
    <3> SUFFICES ASSUME NEW m \in literal_labels
                 PROVE  /\ m \in NumBlocks .. (nlabels - 1) /\ m \in live
                        /\ \A i \in DOMAIN latest_branches' : m \notin latest_branches'[i].labels
                        /\ label_offsets'[m] # UNKNOWN_LABEL_OFFSET =>
                             label_offsets'[m] % 4 = 0 /\ label_offsets'[m] < off'
      BY <1>1, <1>5, <1>7 DEF LiteralsStay, UNKNOWN_LABEL_OFFSET
    <3>1. ~puts_first
      BY <1>14 DEF starting, puts_first, puts
    <3>2. /\ m \in NumBlocks .. (nlabels - 1) /\ m \in live
          /\ \A i \in DOMAIN latest_branches : m \notin latest_branches[i].labels
          /\ label_offsets[m] # UNKNOWN_LABEL_OFFSET =>
                label_offsets[m] % 4 = 0 /\ label_offsets[m] < off
      BY <1>0, <3>1 DEF CodeInv, LiteralsStay
    <3>3. m \in Label /\ label_offsets[m] \in Int /\ label_offsets[m] # off
      <4>1. m \in Label /\ label_offsets[m] \in Int
        BY <1>t, <3>2
      <4> QED  BY <1>0, <3>2, <4>1 DEF UNKNOWN_LABEL_OFFSET
    <3>4. label_offsets'[m] = label_offsets[m]
      BY <1>5, <3>3
    <3>5. label_offsets[m] # b.start
      BY <1>4, <3>2, <3>3 DEF labels_bound_at, live
    <3>6. label_offsets[m] < off'
      BY <1>4, <1>5, <3>2, <3>3, <3>5
    <3> QED  BY <1>6, <3>2, <3>4, <3>6
  <2> QED
    BY <1>9, <1>10, <1>11, <1>12, <2>2, <2>6, <2>7, EmitInvParts1 DEF CodeInv
<1> QED  BY <1>13, <1>14

\* Nothing changes.
LEMMA StutterInv == EmitInv /\ UNCHANGED allVars => EmitInv'
<1> SUFFICES ASSUME EmitInv, UNCHANGED allVars PROVE EmitInv'
  OBVIOUS
<1>1. /\ UNCHANGED <<family, todo, block, in_block, emitted, bb_starts>>
      /\ UNCHANGED <<off, nlabels, label_offsets, label_aliases, latest_branches, finishing, pc,
                     pending_traps, pending_constants, pending_fixup_records, fixup_records,
                     taken>>
  BY DEF allVars, emitVars, vars, labelVars, deferVars, islandVars
<1>2. /\ live' = live /\ starting' = starting /\ puts_first' = puts_first
      /\ CallRecord' = CallRecord /\ literal_labels' = literal_labels /\ starts' = starts
      /\ b' = b /\ prev_b' = prev_b
  BY <1>1 DEF live, starting, puts_first, puts, CallRecord, allocated, literal_labels, outstanding,
              starts, Deleted, b, prev_b, Last
<1>3. /\ past_blocks' = past_blocks /\ grows_next' = grows_next /\ tail_free' = tail_free
      /\ no_label_at_tail' = no_label_at_tail /\ pinned' = pinned
  BY <1>1, <1>2 DEF past_blocks, grows_next, tail_free, no_label_at_tail, labels_bound_at, pinned,
                    UNKNOWN_LABEL, UNKNOWN_LABEL_OFFSET, Blocks
<1>4. EmitTypeOK' /\ BlockPhases'
  BY <1>1, <1>2 DEF EmitInv, EmitTypeOK, BlockPhases
<1>5. CallsInOrder'
  BY <1>1 DEF EmitInv, CallsInOrder, in_order, bind_in_order, next_op, puts_next, jumps_past,
              jumps_ahead, uses_literal, grows, puts, plain, UNKNOWN_LABEL_OFFSET
<1>6. NextCallReady'
  BY <1>1, <1>2, <1>3 DEF EmitInv, NextCallReady, binds_next, jumps_ahead, next_op, puts_next, puts
<1>7. TailSettled' /\ BlocksAliasBlocks'
  BY <1>1, <1>2, <1>3 DEF EmitInv, TailSettled, BlocksAliasBlocks, Blocks, UNKNOWN_LABEL
<1>8. StartsInv'
  BY <1>1, <1>2 DEF EmitInv, StartsInv, StartsOrdered, StartsAtLabels, LabelsAtStarts, Deleted,
                    Blocks, begun, final_order
<1>9. LiteralsStay' /\ LiteralsAhead'
  BY <1>1, <1>2 DEF EmitInv, LiteralsStay, LiteralsAhead, puts_next, puts, UNKNOWN_LABEL_OFFSET
<1> QED  BY <1>4, <1>5, <1>6, <1>7, <1>8, <1>9, EmitInvParts1 DEF CodeInv

(***************************************************************************)
(* The invariant.                                                          *)
(***************************************************************************)

\* OptInvert needs a conditional branch, and SIA32 records none.
LEMMA NoInvert == IInv /\ EmitTypeOK => ~OptInvert
<1> SUFFICES ASSUME IInv, EmitTypeOK, OptInvert PROVE FALSE
  OBVIOUS
<1>1. editable /\ Len(latest_branches) > 1 /\ prev_b.cond
  BY DEF OptInvert, cond_around_uncond, has_prev, redirectable
<1>2. Len(latest_branches) - 1 \in DOMAIN latest_branches
  BY <1>1, LastBranch
<1> QED  BY <1>1, <1>2 DEF EmitTypeOK, prev_b

\* Every step keeps the invariant; one case per action.
LEMMA EmitNextInv == FInv /\ EmitInv /\ [EmitNext]_allVars => FInv' /\ EmitInv'
<1> SUFFICES ASSUME FInv, EmitInv, [EmitNext]_allVars PROVE FInv' /\ EmitInv'
  OBVIOUS
<1>0. EmitTypeOK /\ IInv
  BY EmitInvParts DEF FInv
<1>1. FInv'
  BY <1>0, EmitFInv
<1>2. CASE Call
  BY <1>1, <1>2, CallPutInv, CallUseInv, CallJumpInv, CallBindInv, CallAlignInv, CallIslandInv,
     CallCheckInv, CallCaseInv DEF Call
<1>3. CASE CallPadding \/ CallBBStart
  BY <1>1, <1>3, CallPaddingInv, CallBBStartInv
<1>4. CASE BeginBlock \/ EndFunction \/ EmitFinish
  BY <1>1, <1>4, BeginBlockInv, EndFunctionInv, EmitFinishInv
<1>5. ASSUME block \in 1 .. NumBlocks, NEW i \in family.menu[block], EmitInst(i) PROVE EmitInv'
  BY <1>1, <1>5, EmitInstInv
<1>6. CASE Internal /\ UNCHANGED emitVars
  <2>1. CASE OptStep
    BY <1>0, <1>1, <1>6, <2>1, OptTruncateInv, OptRedirectInv, OptDoneInv, NoInvert DEF OptStep
  <2>2. CASE IslandStep \/ FinishStep
    BY <1>1, <1>6, <2>2, IslandStepInv
  <2> QED  BY <1>6, <2>1, <2>2 DEF Internal
<1>7. CASE UNCHANGED allVars
  BY <1>1, <1>7, StutterInv
<1> QED  BY <1>1, <1>2, <1>3, <1>4, <1>5, <1>6, <1>7 DEF EmitNext

\* The prologue puts code, and asks for islands in between.
LEMMA PrologueCalls ==
    ASSUME TypeOK
    PROVE  prologue \in Seq(CallRecord) /\ Plain(prologue)
           /\ \A j \in DOMAIN prologue : prologue[j].op \in {"put", "check"}
<1> DEFINE n == 2 * Len(Prologue)
<1>1. Prologue \in Seq(Nat \ {0}) /\ Len(Prologue) \in Nat /\ n \in Nat
  BY EmitAssumption
<1>2. ASSUME NEW i \in 1 .. n
      PROVE  /\ prologue[i] \in CallRecord /\ plain(prologue[i])
             /\ prologue[i].op \in {"put", "check"}
  <2>1. prologue[i] = IF i % 2 = 1 THEN put(Prologue[(i + 1) \div 2]) ELSE check
    BY DEF prologue
  <2>2. CASE i % 2 = 1
    <3>1. (i + 1) \div 2 \in 1 .. Len(Prologue)
      BY <1>1, <2>2
    <3>2. Prologue[(i + 1) \div 2] \in Nat
      BY <1>1, <3>1
    <3> DEFINE p == Prologue[(i + 1) \div 2]
    <3>3. prologue[i] = put(p) /\ p \in Nat
      BY <2>1, <2>2, <3>2
    <3> HIDE DEF p
    <3> QED  BY <3>3 DEF put, CallRecord, plain, jumps_ahead, uses_literal
  <2>3. CASE i % 2 # 1
    BY <2>1, <2>3 DEF check, CallRecord, plain, jumps_ahead, uses_literal
  <2> QED  BY <2>2, <2>3
<1>3. DOMAIN prologue = 1 .. n /\ prologue \in [1 .. n -> CallRecord]
  BY <1>2 DEF prologue
<1> HIDE DEF n
<1>4. prologue \in Seq(CallRecord)
  BY <1>1, <1>3, FunctionIsSeq
<1> QED  BY <1>2, <1>3, <1>4 DEF Plain

\* It holds when emission starts with the prologue.
LEMMA EmitInitInv == EmitInit => FInv /\ EmitInv
<1> SUFFICES ASSUME EmitInit PROVE FInv /\ EmitInv
  OBVIOUS
<1>1. Init /\ FInv /\ TypeOK
  BY InitFInv DEF EmitInit, FInv, IInv
<1>2. /\ family \in Families /\ todo = prologue /\ block = 0 /\ in_block = FALSE /\ emitted = 0
      /\ bb_starts = <<>>
  BY DEF EmitInit
<1>3. /\ off = 0 /\ nlabels = NumBlocks /\ latest_branches = <<>> /\ pending_fixup_records = <<>>
      /\ fixup_records = {} /\ taken = <<>> /\ pending_traps = <<>> /\ pending_constants = <<>>
      /\ pc = "idle" /\ ~finishing
      /\ label_offsets = [l \in Label |-> UNKNOWN_LABEL_OFFSET]
      /\ label_aliases = [l \in Label |-> UNKNOWN_LABEL]
  BY <1>1 DEF Init
<1>4. /\ todo \in Seq(CallRecord) /\ Plain(todo)
      /\ \A j \in DOMAIN todo : todo[j].op \in {"put", "check"}
  BY <1>1, <1>2, PrologueCalls
<1>5. /\ Len(todo) \in Nat /\ DOMAIN todo = 1 .. Len(todo)
      /\ todo # <<>> => Head(todo) = todo[1] /\ 1 \in DOMAIN todo
  BY <1>4
<1>6. EmitTypeOK
  <2>1. NumBlocks <= nlabels /\ block \in 0 .. (NumBlocks + 1)
    BY <1>2, <1>3, SizesAssumption
  <2>2. bb_starts \in Seq(Offset)
    BY <1>2
  <2>3. \A i \in DOMAIN latest_branches : ~latest_branches[i].cond
    BY <1>3
  <2> QED  BY <1>2, <1>4, <2>1, <2>2, <2>3 DEF EmitTypeOK
<1>7. ~starting
  BY <1>4, <1>5 DEF starting
<1>8. BlockPhases
  BY <1>2, <1>3, <1>7, SizesAssumption DEF BlockPhases, Least
<1>9. CallsInOrder
  <2>1. Ordered(todo)
    BY <1>4, PlainOrdered
  <2>2. \A j \in DOMAIN todo : ~jumps_ahead(todo[j]) /\ ~uses_literal(todo[j])
    BY <1>4 DEF jumps_ahead, uses_literal
  <2> QED  BY <2>1, <2>2 DEF CallsInOrder, Ordered
<1>10. NextCallReady
  BY <1>4, <1>5 DEF NextCallReady, jumps_ahead
<1>11. TailSettled
  <2>1. past_blocks
    BY <1>3 DEF past_blocks, live, UNKNOWN_LABEL_OFFSET
  <2> QED  BY <1>3, <2>1 DEF TailSettled, tail_free
<1>12. BlocksAliasBlocks
  <2>1. \A l \in Blocks : l \in Label
    BY SizesAssumption DEF Blocks, Label
  <2> QED  BY <1>3, <2>1 DEF BlocksAliasBlocks
<1>13. StartsInv
  <2>1. \A l \in Blocks : ~begun(l)
    BY <1>2, SizesAssumption DEF begun
  <2> QED  BY <1>2, <1>7, <2>1 DEF StartsInv, StartsOrdered, StartsAtLabels, LabelsAtStarts
<1>14. LiteralsStay /\ LiteralsAhead
  <2>1. literal_labels = {}
    BY <1>3 DEF literal_labels, outstanding
  <2> QED  BY <2>1 DEF LiteralsStay, LiteralsAhead
<1> QED
  BY <1>1, <1>6, <1>8, <1>9, <1>10, <1>11, <1>12, <1>13, <1>14, EmitInvParts DEF CodeInv

\* The invariant of emission: under the calls that VCode::emit and the
\* instructions of SIA32 really make, the buffer keeps its own invariant, and
\* the calls, the tail, the starts of the blocks and the literals stay in order.
THEOREM EmitInvariant == EmitSpec => [](FInv /\ EmitInv)
BY EmitInitInv, EmitNextInv, PTL DEF EmitSpec

\* A literal that a fixup refers to is bound to itself, at an aligned offset.
LEMMA LiteralWordAligned ==
    ASSUME TypeOK, NoAliasCycle, LiteralsStay, NEW l \in literal_labels,
           resolve_label_offset[l] # UNKNOWN_LABEL_OFFSET
    PROVE  resolve_label_offset[l] % 4 = 0
<1>1. l \in NumBlocks .. (nlabels - 1) /\ l \in live
  BY DEF LiteralsStay
<1>2. l \in Label /\ label_aliases[l] = UNKNOWN_LABEL
  BY <1>1 DEF live
<1>3. resolve_label_offset[l] = label_offsets[l]
  BY <1>2, ResolveValue
<1> QED  BY <1>3 DEF LiteralsStay

\* patch() never meets a literal at an unaligned address: no optimisation of
\* branches moves a word of the literal pool after the buffer was aligned.
THEOREM LiteralsStayAligned == EmitSpec => []LiteralsAligned
<1>1. FInv /\ EmitInv => LiteralsAligned
  <2> SUFFICES ASSUME FInv, EmitInv PROVE LiteralsAligned
    OBVIOUS
  <2>1. TypeOK /\ NoAliasCycle /\ LiteralsStay
    BY DEF FInv, IInv, EmitInv
  <2>2. \A f \in outstanding : f.kind = "Literal8" => f.label \in literal_labels
    BY DEF literal_labels
  <2>3. /\ \A i \in DOMAIN pending_fixup_records : pending_fixup_records[i] \in outstanding
        /\ \A i \in DOMAIN taken : taken[i] \in outstanding
        /\ \A f \in fixup_records : f \in outstanding
    BY DEF outstanding
  <2> QED  BY <2>1, <2>2, <2>3, LiteralWordAligned DEF LiteralsAligned
<1> QED  BY <1>1, EmitInvariant, PTL

\* bb_starts is true to the labels of the blocks in the order they are emitted,
\* cold blocks last, and increases, once the last block is optimised: VCode::emit
\* misses no block whose code was removed.  It is not true to the blocks' indices,
\* by which the edges are made: BBEdgesFromBlocks.
THEOREM BBStartsStayTrue == EmitSpec => []BBStartsTrueToLabels
<1>1. FInv /\ EmitInv => BBStartsTrueToLabels
  <2> SUFFICES ASSUME FInv, EmitInv, laid_out,
                      NEW i \in DOMAIN bb_starts, bb_starts[i] # Deleted
               PROVE  /\ final_order[i] \in live => label_offsets[final_order[i]] = bb_starts[i]
                      /\ \A j \in 1 .. (i - 1) : bb_starts[j] < bb_starts[i]
    BY DEF BBStartsTrueToLabels
  <2>1. StartsOrdered /\ StartsAtLabels /\ bb_starts \in Seq(Offset)
    BY DEF EmitInv, EmitTypeOK, laid_out, ready
  <2>2. ~starting
    BY DEF laid_out, ready, starting
  <2>3. final_order[i] \in live => label_offsets[final_order[i]] = bb_starts[i]
    BY <2>1, <2>2 DEF StartsAtLabels
  <2>4. ASSUME NEW j \in 1 .. (i - 1) PROVE bb_starts[j] < bb_starts[i]
    <3>1. j \in DOMAIN bb_starts /\ j < i /\ bb_starts[j] \in Offset /\ bb_starts[i] \in Offset
      BY <2>1
    <3>2. CASE bb_starts[j] = Deleted
      BY <3>1, <3>2 DEF Deleted, Offset, UNKNOWN_LABEL_OFFSET
    <3>3. CASE bb_starts[j] # Deleted
      BY <2>1, <3>1, <3>3 DEF StartsOrdered
    <3> QED  BY <3>2, <3>3
  <2> QED  BY <2>3, <2>4
<1> QED  BY <1>1, EmitInvariant, PTL

\* Every block that an edge of the machine code's CFG may lead to resolves to a
\* recorded start: a redirected label leads to a block that was kept.
THEOREM BBEdgesAlwaysReachStarts == EmitSpec => []BBEdgesReachStarts
<1>1. FInv /\ EmitInv => BBEdgesReachStarts
  <2> SUFFICES ASSUME FInv, EmitInv, laid_out, NEW l \in Blocks
               PROVE  resolve_label_offset[l] \in starts
    BY DEF BBEdgesReachStarts, Blocks
  <2>1. TypeOK /\ NoAliasCycle /\ LabelsAtStarts /\ BlocksAliasBlocks /\ EmitTypeOK
    BY DEF FInv, IInv, EmitInv, laid_out, ready
  <2>2. Blocks \in SUBSET Label
    BY SizesAssumption DEF Blocks, Label
  <2>3. PICK m \in Blocks \cap live : resolve_label_offset[l] = label_offsets[m]
    BY <2>1, <2>2, ResolvesToLive DEF BlocksAliasBlocks
  <2>4. ~starting
    BY DEF laid_out, ready, starting
  <2>5. begun(m)
    <3>1. \A i \in 1 .. NumBlocks : i <= block
      BY <2>1, SizesAssumption DEF laid_out, EmitTypeOK
    <3> QED  BY <2>1, <3>1, FinalOrder DEF begun
  <2> QED  BY <2>1, <2>3, <2>4, <2>5 DEF LabelsAtStarts
<1> QED  BY <1>1, EmitInvariant, PTL

\* A function that VCode::emit has finished has every label it allocated, of
\* blocks, of islands and of instructions, resolved inside its code.
THEOREM EmittedLabelsResolved == EmitSpec => []AllLabelsResolved
BY EmitInvariant, FInvResolved, PTL


(***************************************************************************)
(* The properties of Sia32Patch for all offsets: each kind of field is one *)
(* lemma of integer arithmetic, and the invariant PatchInv adds what is    *)
(* known of the veneer a long use is part of.                              *)
(***************************************************************************)

\* A Cond7 or Branch11 field, read back with its sign, is the displacement
\* patch was asked for.
LEMMA BranchFieldLands ==
    ASSUME NEW k \in {"Cond7", "Branch11"}, NEW o \in Nat, NEW t \in Nat,
           o % 2 = 0, t % 2 = 0, fits(k, o, t)
    PROVE  goes(k, o, disp(k, o, t) % Bits[k]) = t
<1>1. CASE k = "Cond7"
  BY <1>1 DEF fits, goes, disp, Bits, signed, branch_disp_halfwords
<1>2. CASE k = "Branch11"
  BY <1>2 DEF fits, goes, disp, Bits, signed, branch_disp_halfwords
<1> QED  BY <1>1, <1>2

\* A Literal8 field, read back from the aligned PC, is the literal's offset.
LEMMA LiteralFieldLands ==
    ASSUME NEW o \in Nat, NEW t \in Nat, o % 2 = 0, t % 4 = 0, fits("Literal8", o, t)
    PROVE  goes("Literal8", o, disp("Literal8", o, t) % Bits["Literal8"]) = t
BY DEF fits, goes, disp, Bits, signed, literal_disp_words

\* The declared ranges are those of the fields, exactly for the branches.
LEMMA DeclaredFits ==
    ASSUME NEW k \in InstLabelUse, NEW o \in Nat, NEW t \in Nat,
           o % 2 = 0, t % 2 = 0, aligned(k, t)
    PROVE  /\ declared(k, o, t) => fits(k, o, t)
           /\ k # "Literal8" /\ fits(k, o, t) => declared(k, o, t)
<1>1. k \in {"Cond7", "Branch11", "Literal8"}
  BY DEF InstLabelUse, LabelUse
<1>2. CASE k = "Cond7"
  BY <1>2 DEF declared, fits, disp, Bits, branch_disp_halfwords, max_pos_range,
              max_neg_range, LabelUse
<1>3. CASE k = "Branch11"
  BY <1>3 DEF declared, fits, disp, Bits, branch_disp_halfwords, max_pos_range,
              max_neg_range, LabelUse
<1>4. CASE k = "Literal8"
  BY <1>4 DEF declared, fits, disp, Bits, literal_disp_words, max_pos_range,
              max_neg_range, LabelUse, aligned
<1> QED  BY <1>1, <1>2, <1>3, <1>4

\* Division with remainder, and its uniqueness.
LEMMA QuotientRemainder ==
    ASSUME NEW M \in Nat \ {0}, NEW x \in Int
    PROVE  /\ x \div M \in Int /\ x % M \in 0 .. (M - 1)
           /\ x = M * (x \div M) + (x % M)
BY Z3

\* The remainder of a sum with a multiple.
LEMMA RemainderUnique ==
    ASSUME NEW M \in Nat \ {0}, NEW q \in Int, NEW r \in Int, 0 <= r, r < M
    PROVE  (M * q + r) % M = r
BY Z3

\* The delta of a long veneer, added to LR with wraparound, is the label.
LEMMA LongDeltaLands ==
    ASSUME NEW a \in Nat, NEW t \in Nat, NEW M \in Nat, t < M
    PROVE  (a + ((t - a) % M)) % M = t
<1> DEFINE q == (t - a) \div M
           r == (t - a) % M
<1>1. q \in Int /\ r \in Int /\ t - a = M * q + r
  BY QuotientRemainder
<1> HIDE DEF q, r
<1>2. -q \in Int /\ a + r = M * (-q) + t
  BY <1>1
<1>3. (M * (-q) + t) % M = t
  BY SMTT(60), <1>2, RemainderUnique
<1> QED  BY <1>2, <1>3 DEF r

\* Where generate_veneer puts the literal of a Branch11 veneer.
LEMMA LongVeneerLayout ==
    ASSUME NEW v \in Nat, v % 2 = 0
    PROVE  LET u == veneer_use("Branch11", v) IN
           /\ u.kind = "LongDelta32" /\ u.offset \in Nat /\ u.offset % 4 = 0
           /\ u.pc_back \in Int /\ u.offset - u.pc_back = v + 4
           /\ v + 12 <= u.offset
           /\ u.offset + patch_size["LongDelta32"] <= v + veneer_size["Branch11"]
           /\ fits("Literal8", v + 4, u.offset)
<1>1. v % 4 \in {0, 2}
  OBVIOUS
<1>2. /\ veneer_fixup_delta["Branch11"][v % 4] = IF v % 4 = 0 THEN 16 ELSE 18
      /\ veneer_kind["Branch11"] = "LongDelta32"
      /\ patch_size["LongDelta32"] = 4 /\ veneer_size["Branch11"] = 24
  BY <1>1 DEF veneer_fixup_delta, literal_delta, veneer_kind, patch_size, veneer_size, LabelUse
<1>3. fits("Literal8", v + 4, v + IF v % 4 = 0 THEN 16 ELSE 18)
  BY <1>1 DEF fits, disp, literal_disp_words, Bits
<1> QED  BY <1>1, <1>2, <1>3 DEF veneer_use, new_use

(***************************************************************************)
(* The invariant.                                                          *)
(***************************************************************************)

UseInv ==
    /\ label_use.kind \in LabelUse /\ label_use.offset \in Nat /\ label_use.offset % 2 = 0
    /\ label_use.pc_back \in Int
    /\ target \in Nat /\ target % 2 = 0 /\ target < WordMod
    /\ aligned(label_use.kind, target)

\* The long veneer of a chain is the one its only Branch11 use was sent to.
ChainInv ==
    /\ label_use.kind = "LongDelta32" =>
         \E q \in patched : q.use.kind = "Branch11" /\ label_use.offset - label_use.pc_back = q.target + 4
                            /\ q.target \in Nat
    /\ \A p \in patched : p.use.kind = "Branch11" =>
         IF label_use.kind = "LongDelta32"
         THEN p.target \in Nat /\ p.target % 2 = 0 /\ label_use = veneer_use("Branch11", p.target)
         ELSE p.use = label_use

PatchInv == UseInv /\ ChainInv /\ PatchLands

\* A fresh use and label, of any kind and at any offsets.
LEMMA InitPatchInv == PatchInit => PatchInv
BY PatchAssumption
   DEF PatchInit, PatchInv, UseInv, ChainInv, PatchLands, new_use, NoDelta, InstLabelUse,
       LabelUse, aligned

\* Writing the field for a place in range takes the processor there.
LEMMA WriteLands ==
    ASSUME UseInv, NEW t \in Nat, t % 2 = 0, aligned(label_use.kind, t),
           label_use.kind # "LongDelta32", declared(label_use.kind, label_use.offset, t)
    PROVE  goes(label_use.kind, label_use.offset, field(label_use, t)) = t
<1>1. label_use.kind \in {"Cond7", "Branch11", "Literal8"} /\ label_use.kind \in InstLabelUse
  BY DEF UseInv, LabelUse, InstLabelUse
<1>2. fits(label_use.kind, label_use.offset, t)
  BY <1>1, DeclaredFits DEF UseInv
<1>3. field(label_use, t) = disp(label_use.kind, label_use.offset, t) % Bits[label_use.kind]
  BY DEF field
<1>4. CASE label_use.kind = "Literal8"
  BY <1>2, <1>3, <1>4, LiteralFieldLands DEF UseInv, aligned
<1>5. CASE label_use.kind \in {"Cond7", "Branch11"}
  BY <1>2, <1>3, <1>5, BranchFieldLands DEF UseInv
<1> QED  BY <1>1, <1>4, <1>5

\* patch() on the label itself keeps the invariant.
LEMMA PatchPatchInv == PatchInv /\ Patch => PatchInv'
<1> SUFFICES ASSUME PatchInv, Patch PROVE PatchInv'
  OBVIOUS
<1> USE DEF PatchInv
<1> DEFINE p == [use |-> label_use, target |-> target, field |-> field(label_use, target)]
<1>1. patched' = patched \cup {p} /\ label_use' = label_use /\ target' = target
  BY DEF Patch, write
<1>2. UseInv'
  BY <1>1 DEF UseInv, aligned
<1>3. ChainInv'
  <2>1. CASE label_use.kind = "LongDelta32"
    BY <1>1, <2>1 DEF ChainInv
  <2>2. CASE label_use.kind # "LongDelta32"
    BY <1>1, <2>2 DEF ChainInv
  <2> QED  BY <2>1, <2>2
<1>4. IF p.use.kind # "LongDelta32" THEN goes(p.use.kind, p.use.offset, p.field) = p.target
      ELSE \E q \in patched : q.use.kind = "Branch11" /\ long_goes(q.target, p.field) = p.target
  <2>1. CASE label_use.kind # "LongDelta32"
    BY <2>1, WriteLands DEF UseInv, Patch
  <2>2. CASE label_use.kind = "LongDelta32"
    <3>1. PICK q \in patched : /\ q.use.kind = "Branch11" /\ q.target \in Nat
                               /\ label_use.offset - label_use.pc_back = q.target + 4
      BY <2>2 DEF ChainInv
    <3>2. field(label_use, target) = (target - (q.target + 4)) % WordMod
      BY <2>2, <3>1 DEF field
    <3>3. WordMod \in Nat /\ target \in Nat /\ target < WordMod /\ q.target + 4 \in Nat
      BY <3>1, PatchAssumption DEF UseInv
    <3>4. long_goes(q.target, field(label_use, target)) = target
      BY <3>2, <3>3, LongDeltaLands DEF long_goes
    <3> QED  BY <2>2, <3>1, <3>4
  <2> QED  BY <2>1, <2>2
<1>5. PatchLands'
  BY <1>1, <1>4 DEF PatchLands
<1> QED  BY <1>2, <1>3, <1>5

\* Going through a veneer keeps the invariant: its own use takes over.
LEMMA VeneerPatchInv == ASSUME NEW v \in Offsets PROVE PatchInv /\ Veneer(v) => PatchInv'
<1> SUFFICES ASSUME PatchInv, Veneer(v) PROVE PatchInv'
  OBVIOUS
<1> USE DEF PatchInv
<1> DEFINE p == [use |-> label_use, target |-> v, field |-> field(label_use, v)]
<1>1. patched' = patched \cup {p} /\ label_use' = veneer_use(label_use.kind, v) /\ target' = target
  BY DEF Veneer, write
<1>2. v \in Nat /\ v % 2 = 0
  BY PatchAssumption
<1>3. label_use.kind \in {"Cond7", "Branch11"} /\ \A q \in patched : q.use # label_use
  BY DEF UseInv, Veneer, veneer_kind, LabelUse
<1>4. goes(label_use.kind, label_use.offset, field(label_use, v)) = v
  BY <1>2, <1>3, WriteLands DEF Veneer, aligned
<1>5. \A q \in patched : q.use.kind # "Branch11"
  BY <1>3 DEF ChainInv
<1>6. UseInv' /\ ChainInv'
  <2>1. CASE label_use.kind = "Cond7"
    <3>1. v % 4 \in 0 .. 3
      BY <1>2
    <3>2. label_use' = [kind |-> "Branch11", offset |-> v, pc_back |-> 0]
      BY <1>1, <1>2, <2>1, <3>1
         DEF veneer_use, new_use, veneer_kind, veneer_fixup_delta, LabelUse, NoDelta
    <3>3. UseInv'
      BY <1>1, <1>2, <3>2 DEF UseInv, LabelUse, aligned
    <3>4. ChainInv'
      BY <1>1, <1>5, <2>1, <3>2 DEF ChainInv
    <3> QED  BY <3>3, <3>4
  <2>2. CASE label_use.kind = "Branch11"
    <3>1. /\ label_use' = veneer_use("Branch11", v) /\ label_use'.kind = "LongDelta32"
          /\ label_use'.offset \in Nat /\ label_use'.offset % 4 = 0 /\ label_use'.pc_back \in Int
          /\ label_use'.offset - label_use'.pc_back = v + 4
      BY <1>1, <1>2, <2>2, LongVeneerLayout
    <3>2. UseInv'
      BY <1>1, <3>1 DEF UseInv, LabelUse, aligned
    <3>3. p \in patched' /\ p.use.kind = "Branch11" /\ p.target = v
      BY <1>1, <2>2
    <3>4. \E q \in patched' : /\ q.use.kind = "Branch11" /\ q.target \in Nat
                             /\ label_use'.offset - label_use'.pc_back = q.target + 4
      BY <1>2, <3>1, <3>3
    <3>5. \A q \in patched' : q.use.kind = "Branch11" => q.target = v
      BY <1>1, <1>5
    <3>6. ChainInv'
      BY <1>2, <3>1, <3>4, <3>5 DEF ChainInv
    <3> QED  BY <3>2, <3>6
  <2> QED  BY <1>3, <2>1, <2>2
<1>7. PatchLands'
  BY <1>1, <1>3, <1>4 DEF PatchLands
<1> QED  BY <1>6, <1>7

\* The invariant of a chain of patches.
THEOREM ChainInvariant == PatchSpec => []PatchInv
<1>1. PatchInit => PatchInv
  BY InitPatchInv
<1>2. PatchInv /\ [PatchNext]_patchVars => PatchInv'
  <2> SUFFICES ASSUME PatchInv, [PatchNext]_patchVars PROVE PatchInv'
    OBVIOUS
  <2>1. CASE Patch
    BY <2>1, PatchPatchInv
  <2>2. CASE \E v \in Offsets : Veneer(v)
    BY <2>2, VeneerPatchInv
  <2>3. CASE UNCHANGED patchVars
    BY <2>3 DEF PatchInv, UseInv, ChainInv, PatchLands, patchVars
  <2> QED  BY <2>1, <2>2, <2>3 DEF PatchNext, Done
<1> QED  BY <1>1, <1>2, PTL DEF PatchSpec

\* Whatever the offsets, every instruction patch() wrote takes the processor
\* to the label or veneer it was written for.
THEOREM PatchAlwaysLands == PatchSpec => []PatchLands
<1>1. PatchInv => PatchLands
  BY DEF PatchInv
<1> QED  BY <1>1, ChainInvariant, PTL

\* max_pos_range and max_neg_range are exactly what the assert!s of patch()
\* allow, at every offset.
THEOREM RangesAlwaysExact == PatchSpec => []RangesExact
<1>1. PatchInv => RangesExact
  BY DeclaredFits DEF PatchInv, UseInv, RangesExact, LabelUse, InstLabelUse
<1> QED  BY <1>1, ChainInvariant, PTL

\* generate_veneer lays out every long veneer within veneer_size and aligned.
THEOREM VeneersAlwaysLaidOut == PatchSpec => []VeneerLayout
<1>1. PatchInv => VeneerLayout
  BY LongVeneerLayout DEF PatchInv, ChainInv, VeneerLayout
<1> QED  BY <1>1, ChainInvariant, PTL

=============================================================================
