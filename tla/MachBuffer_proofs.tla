------------------------- MODULE MachBuffer_proofs --------------------------
(***************************************************************************)
(* Proofs about MachBuffer: the inductive invariant IInv and the safety    *)
(* properties that follow from it, for every backend (the sizes and ranges *)
(* of its label uses), any number of labels and any calls of a client.     *)
(*                                                                         *)
(* The invariant is split in four groups.  Steps that only add bytes keep  *)
(* LabelInv and FixupInv by two lemmas; bind, use_label_at_offset and      *)
(* truncate_last_branch have a lemma each; then there is one lemma per     *)
(* action.  That aliases form no cycle is the one part that needs to know  *)
(* what resolve_label_offset computes: AliasRecursion shows that the       *)
(* recursion is well founded.                                              *)
(***************************************************************************)
EXTENDS MachBuffer, TLAPS, SequenceTheorems, FiniteSetTheorems

\* align_to moves an offset forward, if at all.
LEMMA AlignUpNat ==
    ASSUME NEW o \in Nat, NEW a \in Nat \ {0}
    PROVE  AlignUp(o, a) \in Nat /\ AlignUp(o, a) >= o
<1>1. o % a \in Nat
  OBVIOUS
<1>2. (a - (o % a)) \in Int
  BY <1>1
<1>3. (a - (o % a)) % a \in Nat
  BY <1>2
<1> QED  BY <1>3 DEF AlignUp

\* What the assumption on LabelUse says of one kind.
LEMMA KindType ==
    ASSUME NEW k \in Kind
    PROVE  /\ PatchSize[k] \in Nat /\ PatchSize[k] > 0 /\ VeneerSize[k] \in Nat
           /\ MaxPos[k] \in Nat /\ MaxNeg[k] \in Nat
BY KindAssumption

\* MachLabelFixup::deadline and the margin use_label_at_offset subtracts never
\* go below zero.
LEMMA DeadlineNat ==
    ASSUME NEW f \in Fixup
    PROVE  deadline(f) \in Nat /\ deadline(f) - Align \in Nat
BY SizesAssumption, KindAssumption DEF deadline, SatAdd, Fixup

\* Replacing one element of a list keeps its type, length and other elements.
LEMMA ExceptType ==
    ASSUME NEW R, NEW s \in Seq(R), NEW i \in 1 .. Len(s), NEW r \in R
    PROVE  /\ [s EXCEPT ![i] = r] \in Seq(R)
           /\ Len([s EXCEPT ![i] = r]) = Len(s)
           /\ DOMAIN [s EXCEPT ![i] = r] = DOMAIN s
           /\ \A j \in 1 .. Len(s) : [s EXCEPT ![i] = r][j] = IF j = i THEN r ELSE s[j]
BY ExceptSeq

\* truncate() on a list keeps its type and the elements it leaves.
LEMMA PrefixType ==
    ASSUME NEW R, NEW s \in Seq(R), NEW n \in Nat, n <= Len(s)
    PROVE  /\ SubSeq(s, 1, n) \in Seq(R)
           /\ Len(SubSeq(s, 1, n)) = n
           /\ DOMAIN SubSeq(s, 1, n) = 1 .. n
           /\ \A j \in 1 .. n : SubSeq(s, 1, n)[j] = s[j]
BY SubSeqProperties

(***************************************************************************)
(* The parts of the invariant an action disturbs together.                 *)
(***************************************************************************)

LabelInv == NoLabelPastTail /\ LabelsAtTail /\ LabelsAtBranch /\ BranchesOrdered
FixupInv == FixupsInBuffer /\ BranchFixup /\ HeapBeforeBranches
OtherInv == IslandPhases /\ UnusedUnbound /\ DeferredUnbound

\* A recorded branch has the type of a MachBranch.
LEMMA BranchType ==
    ASSUME TypeOK, NEW i \in DOMAIN latest_branches
    PROVE  /\ latest_branches[i] \in Branch
           /\ latest_branches[i].start \in Nat /\ latest_branches[i].end \in Nat
           /\ latest_branches[i].target \in Label /\ latest_branches[i].fixup \in Nat
           /\ latest_branches[i].cond \in BOOLEAN /\ latest_branches[i].labels \in SUBSET Label
<1>1. latest_branches[i] \in Branch
  BY DEF TypeOK
<1> QED  BY <1>1 DEF Branch

\* The labels of pending traps, and the pending constants, have their types.
LEMMA DeferredType ==
    ASSUME TypeOK
    PROVE  /\ UNKNOWN_LABEL \notin Label
           /\ \A i \in DOMAIN pending_traps : pending_traps[i] \in Label
           /\ \A i \in DOMAIN pending_constants : pending_constants[i] \in Const
           /\ \A c \in Const : upcoming_label[c] # UNKNOWN_LABEL => upcoming_label[c] \in Label
<1>1. UNKNOWN_LABEL \notin Label
  BY DEF Label, UNKNOWN_LABEL
<1>2. /\ pending_traps \in Seq(Label) /\ pending_constants \in Seq(Const)
      /\ upcoming_label \in [Const -> Label \cup {UNKNOWN_LABEL}]
  BY DEF TypeOK
<1> QED  BY <1>1, <1>2

\* put1 .. put8: bytes added at the tail disturb no label and no branch.
LEMMA GrowKeepsLabels ==
    ASSUME TypeOK, LabelInv, off' \in Nat, off' >= off,
           UNCHANGED <<labelVars, latest_branches>>
    PROVE  LabelInv'
<1>1. NoLabelPastTail'
  BY DEF TypeOK, LabelInv, NoLabelPastTail, live, labelVars, Offset, UNKNOWN_LABEL_OFFSET
<1>2. LabelsAtTail'
  BY DEF TypeOK, LabelInv, NoLabelPastTail, LabelsAtTail, lazily_cleared, labels_bound_at,
         live, labelVars, Offset, UNKNOWN_LABEL_OFFSET
<1>3. LabelsAtBranch'
  BY DEF LabelInv, LabelsAtBranch, labels_bound_at, labelVars
<1>4. BranchesOrdered'
  BY BranchType DEF TypeOK, LabelInv, BranchesOrdered, live, labelVars
<1> QED  BY <1>1, <1>2, <1>3, <1>4 DEF LabelInv

\* Bytes added at the tail disturb no fixup.
LEMMA GrowKeepsFixups ==
    ASSUME TypeOK, FixupInv, off' \in Nat, off' >= off,
           UNCHANGED <<pending_fixup_records, taken, fixup_records, latest_branches>>
    PROVE  FixupInv'
<1>0. \A f \in Fixup : end_of(f) \in Nat
  BY KindAssumption DEF Fixup, end_of
<1>1. FixupsInBuffer'
  BY <1>0 DEF TypeOK, FixupInv, FixupsInBuffer
<1>2. BranchFixup'
  BY DEF FixupInv, BranchFixup
<1>3. HeapBeforeBranches'
  BY DEF FixupInv, HeapBeforeBranches
<1> QED  BY <1>1, <1>2, <1>3 DEF FixupInv

\* The invariant in the four groups the proof treats one by one, and below the
\* same for the next state.
LEMMA IInvParts == IInv <=> TypeOK /\ LabelInv /\ FixupInv /\ NoAliasCycle /\ OtherInv
BY DEF IInv, LabelInv, FixupInv, OtherInv

\* The invariant of the next state in these groups.
LEMMA IInvParts1 ==
    IInv' <=> TypeOK' /\ LabelInv' /\ FixupInv' /\ NoAliasCycle' /\ OtherInv'
BY DEF IInv, LabelInv, FixupInv, OtherInv

\* MachBuffer::new and reserve_labels_for_blocks establish the invariant.
LEMMA InitIInv == Init => IInv
<1> SUFFICES ASSUME Init PROVE IInv
  OBVIOUS
<1>1. TypeOK
  <2>1. nlabels \in 0 .. MaxLabels
    BY SizesAssumption DEF Init
  <2>2. latest_branches \in Seq(Branch) /\ pending_fixup_records \in Seq(Fixup)
        /\ pending_traps \in Seq(Label) /\ pending_constants \in Seq(Const) /\ taken \in Seq(Fixup)
    BY DEF Init
  <2>3. IsFiniteSet(fixup_records)
    BY FS_EmptySet DEF Init
  <2> QED
    BY <2>1, <2>2, <2>3, SizesAssumption DEF Init, TypeOK, Offset, UNKNOWN_LABEL, UNKNOWN_LABEL_OFFSET
<1>2. LabelInv
  BY DEF Init, LabelInv, NoLabelPastTail, LabelsAtTail, LabelsAtBranch, BranchesOrdered,
         lazily_cleared, labels_bound_at, live, UNKNOWN_LABEL_OFFSET
<1>3. FixupInv
  BY DEF Init, FixupInv, FixupsInBuffer, BranchFixup, HeapBeforeBranches
<1>4. NoAliasCycle
  <2>1. UNKNOWN_LABEL \notin Label
    BY DEF Label, UNKNOWN_LABEL
  <2> QED  BY <2>1 DEF Init, NoAliasCycle
<1>5. OtherInv
  BY DEF Init, OtherInv, IslandPhases, UnusedUnbound, DeferredUnbound, unbound_label, live
<1> QED  BY <1>1, <1>2, <1>3, <1>4, <1>5, IInvParts

(***************************************************************************)
(* Client calls.                                                           *)
(***************************************************************************)

\* get_label keeps the invariant: the new label is unbound.
LEMMA GetLabelIInv == IInv /\ GetLabel => IInv'
<1> SUFFICES ASSUME IInv, GetLabel PROVE IInv'
  OBVIOUS
<1> USE IInvParts
<1>1. TypeOK'
  BY SizesAssumption DEF GetLabel, TypeOK, labelVars, deferVars, islandVars
<1>2. LabelInv'
  BY GrowKeepsLabels DEF GetLabel, TypeOK, labelVars
<1>3. FixupInv'
  BY GrowKeepsFixups DEF GetLabel, TypeOK, islandVars
<1>4. NoAliasCycle'
  BY DEF GetLabel, NoAliasCycle, labelVars
<1>5. OtherInv'
  BY SMTT(60) DEF GetLabel, TypeOK, OtherInv, IslandPhases, UnusedUnbound, DeferredUnbound, unbound_label, live, allocated,
         labelVars, deferVars, islandVars, Label
<1> QED  BY <1>1, <1>2, <1>3, <1>4, <1>5, IInvParts1

\* put1 .. put8, put_data and get_appended_space keep the invariant.
LEMMA PutIInv == ASSUME NEW n \in Nat PROVE IInv /\ Put(n) => IInv'
<1> SUFFICES ASSUME IInv, Put(n) PROVE IInv'
  OBVIOUS
<1> USE IInvParts
<1>0. off' \in Nat /\ off' >= off
  BY DEF Put, TypeOK
<1>1. TypeOK'
  BY <1>0 DEF Put, TypeOK, labelVars, deferVars, islandVars
<1>2. LabelInv'
  BY <1>0, GrowKeepsLabels DEF Put, labelVars
<1>3. FixupInv'
  BY <1>0, GrowKeepsFixups DEF Put, islandVars
<1>4. NoAliasCycle'
  BY DEF Put, NoAliasCycle, labelVars
<1>5. OtherInv'
  BY DEF Put, OtherInv, IslandPhases, UnusedUnbound, DeferredUnbound, unbound_label, live, allocated,
         labelVars, deferVars, islandVars
<1> QED  BY <1>1, <1>2, <1>3, <1>4, <1>5, IInvParts1

\* What bind does to the labels, at an offset no code has been put past.
LEMMA BindKeepsLabels ==
    ASSUME IInv, NEW l \in Label, label_offsets[l] = UNKNOWN_LABEL_OFFSET,
           NEW o \in Nat, o >= off, bind(l, o), off' \in Nat, off' >= o,
           UNCHANGED latest_branches
    PROVE  LabelInv' /\ NoAliasCycle'
<1> USE IInvParts
<1>0. l \in live
  BY DEF OtherInv, UnusedUnbound
<1>a. /\ \A m \in Label : label_offsets'[m] = IF m = l THEN o ELSE label_offsets[m]
      /\ \A m \in Label : label_aliases'[m] = label_aliases[m]
      /\ live' = live
  BY DEF TypeOK, live, bind
<1>b. \A m \in Label : label_offsets[m] \in Int
  BY DEF TypeOK, Offset, UNKNOWN_LABEL_OFFSET
<1>c. off \in Nat
  BY DEF TypeOK
<1>1. NoLabelPastTail'
  <2>1. \A m \in live : m \in Label /\ label_offsets[m] <= off
    BY DEF LabelInv, NoLabelPastTail, live
  <2> QED  BY <2>1, <1>a, <1>b, <1>c DEF NoLabelPastTail
<1>2. LabelsAtTail'
  <2>1. /\ labels_at_tail_off \in Nat /\ labels_at_tail_off <= off
        /\ lazily_cleared(off) = labels_bound_at(off)
        /\ \A m \in Label : m \in live => label_offsets[m] <= off
        /\ label_offsets \in [Label -> Offset]
    BY DEF TypeOK, LabelInv, LabelsAtTail, NoLabelPastTail, live
  <2>2. labels_at_tail_off' <= o
    BY <2>1 DEF bind, lazily_cleared_off, TypeOK
  <2>3. CASE off' > o
    <3>1. lazily_cleared(off)' = {}
      BY <2>2, <2>3, <2>1 DEF lazily_cleared, bind, lazily_cleared_off, TypeOK
    <3>2. labels_bound_at(off)' = {}
      BY <1>1, <2>1, <2>3 DEF labels_bound_at, bind, live, TypeOK, Offset, UNKNOWN_LABEL_OFFSET
    <3> QED  BY <2>2, <2>3, <3>1, <3>2, <2>1 DEF LabelsAtTail, bind, lazily_cleared_off, TypeOK
  <2>4. CASE off' = o
    <3>1. labels_at_tail_off' = o
      BY <2>1, <2>4 DEF bind, lazily_cleared_off, TypeOK
    <3>2. lazily_cleared(off)' = lazily_cleared(o) \cup {l}
      BY <3>1, <2>4 DEF lazily_cleared, bind
    <3>3. lazily_cleared(o) = labels_bound_at(o)
      BY SMTT(60), <2>1 DEF lazily_cleared, labels_bound_at, live, TypeOK, Offset, UNKNOWN_LABEL_OFFSET
    <3>4. labels_bound_at(off)' = labels_bound_at(o) \cup {l}
      BY <2>1, <2>4, <1>0 DEF labels_bound_at, bind, live
    <3> QED  BY <2>4, <3>1, <3>2, <3>3, <3>4 DEF LabelsAtTail
  <2> QED  BY <2>3, <2>4
<1>3. LabelsAtBranch'
  <2> SUFFICES ASSUME NEW i \in DOMAIN latest_branches
               PROVE  labels_bound_at(latest_branches[i].start)'
                        = labels_bound_at(latest_branches[i].start)
    BY DEF LabelInv, LabelsAtBranch
  <2>0. /\ latest_branches[i].start \in Nat /\ latest_branches[i].end \in Nat
        /\ latest_branches[i].start < latest_branches[i].end
        /\ latest_branches[i].end <= off
    BY BranchType DEF LabelInv, BranchesOrdered
  <2>1. latest_branches[i].start \in Nat /\ latest_branches[i].start < off
    BY <2>0, <1>c
  <2>2. \A m \in Label : label_offsets'[m] = latest_branches[i].start
                            <=> label_offsets[m] = latest_branches[i].start
    BY <2>1, <1>a, <1>c DEF UNKNOWN_LABEL_OFFSET
  <2> QED  BY <2>2, <1>a DEF labels_bound_at
<1>4. BranchesOrdered'
  <2> SUFFICES ASSUME NEW i \in DOMAIN latest_branches
               PROVE  /\ latest_branches[i].end <= off'
                      /\ \A m \in live' :
                           ~( /\ latest_branches[i].start < label_offsets'[m]
                              /\ label_offsets'[m] < latest_branches[i].end )
    BY DEF LabelInv, BranchesOrdered
  <2>1. /\ latest_branches[i].start \in Nat /\ latest_branches[i].end \in Nat
        /\ latest_branches[i].end <= off
        /\ \A m \in live : ~( /\ latest_branches[i].start < label_offsets[m]
                              /\ label_offsets[m] < latest_branches[i].end )
    BY BranchType DEF LabelInv, BranchesOrdered
  <2>2. live \subseteq Label
    BY DEF live
  <2> QED  BY <2>1, <2>2, <1>a, <1>b, <1>c
<1>5. NoAliasCycle'
  BY DEF bind, NoAliasCycle
<1> QED  BY <1>1, <1>2, <1>3, <1>4, <1>5 DEF LabelInv

\* bind_label, up to its call of optimize_branches, keeps the invariant.
LEMMA BindLabelIInv == ASSUME NEW l \in Label PROVE IInv /\ BindLabel(l) => IInv'
<1> SUFFICES ASSUME IInv, BindLabel(l) PROVE IInv'
  OBVIOUS
<1> USE IInvParts
<1>1. TypeOK'
  BY DEF BindLabel, bind, enter_optimize_branches, lazily_cleared, lazily_cleared_off,
         TypeOK, deferVars, islandVars, Offset
<1>2. LabelInv' /\ NoAliasCycle'
  <2>1. off \in Nat /\ off' = off /\ latest_branches' = latest_branches /\ bind(l, off)
        /\ label_offsets[l] = UNKNOWN_LABEL_OFFSET
    BY DEF BindLabel, bindable, TypeOK
  <2> QED  BY <2>1, BindKeepsLabels
<1>3. FixupInv'
  BY GrowKeepsFixups DEF BindLabel, TypeOK, islandVars
<1>5. OtherInv'
  <2>1. IslandPhases'
    BY DEF BindLabel, enter_optimize_branches, OtherInv, IslandPhases, islandVars
  <2>2. /\ \A m \in Label : m # l => label_offsets'[m] = label_offsets[m]
        /\ label_offsets'[l] = off /\ off # UNKNOWN_LABEL_OFFSET
        /\ allocated' = allocated /\ live' = live /\ l \in allocated
        /\ UNCHANGED <<pending_traps, pending_constants, upcoming_label>>
    BY DEF BindLabel, bind, bindable, TypeOK, allocated, live, deferVars, UNKNOWN_LABEL_OFFSET
  <2>3. UnusedUnbound'
    BY <2>2 DEF OtherInv, UnusedUnbound
  <2>4. \A m \in Label : m # l /\ unbound_label(m) => unbound_label(m)'
    BY <2>2 DEF unbound_label
  <2>5. /\ \A i \in DOMAIN pending_traps : pending_traps[i] # l
        /\ \A c \in Const : upcoming_label[c] # l
    BY DEF BindLabel, bindable, TypeOK
  <2>6. DeferredUnbound'
    BY <2>2, <2>4, <2>5, DeferredType DEF OtherInv, DeferredUnbound
  <2> QED  BY <2>1, <2>3, <2>6 DEF OtherInv
<1> QED  BY <1>1, <1>2, <1>3, <1>5, IInvParts1

\* One more pending use, of bytes that end up inside the buffer.
LEMMA UseLabelType ==
    ASSUME TypeOK, NEW o \in Nat, NEW l \in Label, NEW k \in Kind,
           use_label_at_offset(o, l, k, pending_fixup_records)
    PROVE  LET f == [label |-> l, offset |-> o, kind |-> k] IN
           /\ f \in Fixup
           /\ pending_fixup_records' = Append(pending_fixup_records, f)
           /\ pending_fixup_records' \in Seq(Fixup)
           /\ pending_fixup_deadline' \in Nat
<1> DEFINE f == [label |-> l, offset |-> o, kind |-> k]
<1>1. f \in Fixup
  BY DEF Fixup
<1>2. pending_fixup_records' = Append(pending_fixup_records, f)
      /\ pending_fixup_deadline' = Least(pending_fixup_deadline, deadline(f) - Align)
  BY DEF use_label_at_offset
<1> HIDE DEF f
<1>3. pending_fixup_deadline' \in Nat
  BY <1>1, <1>2, DeadlineNat DEF TypeOK, Least
<1>4. pending_fixup_records' \in Seq(Fixup)
  BY <1>1, <1>2 DEF TypeOK
<1> QED  BY <1>1, <1>2, <1>3, <1>4 DEF f

\* A pending use at the tail lies after every recorded branch.
LEMMA UseKeepsFixups ==
    ASSUME IInv, NEW o \in Nat, NEW l \in Label, NEW k \in Kind,
           use_label_at_offset(o, l, k, pending_fixup_records),
           o >= off, off' \in Nat, o + PatchSize[k] <= off',
           UNCHANGED <<taken, fixup_records, latest_branches>>
    PROVE  FixupInv'
<1> USE IInvParts
<1> DEFINE f == [label |-> l, offset |-> o, kind |-> k]
           n == Len(pending_fixup_records)
<1>1. /\ f \in Fixup /\ pending_fixup_records' = Append(pending_fixup_records, f)
      /\ end_of(f) <= off' /\ f.offset = o
  BY UseLabelType DEF end_of
<1> HIDE DEF f
<1>2. /\ n \in Nat /\ DOMAIN pending_fixup_records = 1 .. n
      /\ DOMAIN pending_fixup_records' = 1 .. (n + 1)
      /\ \A j \in 1 .. n : pending_fixup_records'[j] = pending_fixup_records[j]
      /\ pending_fixup_records'[n + 1] = f
  BY <1>1 DEF TypeOK
<1> HIDE DEF n
<1>3. \A g \in Fixup : end_of(g) \in Nat
  BY KindAssumption DEF Fixup, end_of
<1>4. off \in Nat /\ off' >= off
  <2>1. off \in Nat /\ PatchSize[k] \in Nat
    BY KindType DEF TypeOK
  <2> QED  BY <2>1
<1>5. FixupsInBuffer'
  <2>1. \A j \in 1 .. n : pending_fixup_records[j] \in Fixup /\ end_of(pending_fixup_records[j]) <= off
    <3>1. pending_fixup_records \in Seq(Fixup)
      BY DEF TypeOK
    <3>2. \A j \in 1 .. n : pending_fixup_records[j] \in Fixup
      BY <1>2, <3>1
    <3> QED  BY <1>2, <3>2 DEF FixupInv, FixupsInBuffer
  <2>2. \A j \in DOMAIN pending_fixup_records' : end_of(pending_fixup_records'[j]) <= off'
    BY <1>1, <1>2, <1>3, <1>4, <2>1
  <2>3. \A i \in DOMAIN taken : end_of(taken[i]) <= off'
    BY SMTT(60), <1>3, <1>4 DEF TypeOK, FixupInv, FixupsInBuffer
  <2>4. \A g \in fixup_records : end_of(g) <= off'
    BY <1>3, <1>4 DEF TypeOK, FixupInv, FixupsInBuffer
  <2> QED  BY <2>2, <2>3, <2>4 DEF FixupsInBuffer, end_of
<1>6. BranchFixup'
  <2> SUFFICES ASSUME NEW i \in DOMAIN latest_branches
               PROVE  LET br == latest_branches[i] IN
        /\ br.fixup \in DOMAIN pending_fixup_records'
        /\ pending_fixup_records'[br.fixup].label = br.target
        /\ pending_fixup_records'[br.fixup].offset = br.start
        /\ \A j \in DOMAIN pending_fixup_records' :
              /\ j < br.fixup => end_of(pending_fixup_records'[j]) <= br.start
              /\ j > br.fixup => pending_fixup_records'[j].offset >= br.end
    BY DEF BranchFixup, end_of
  <2> DEFINE br == latest_branches[i]
  <2>1. /\ br.fixup \in 1 .. n
        /\ pending_fixup_records[br.fixup].label = br.target
        /\ pending_fixup_records[br.fixup].offset = br.start
        /\ \A j \in 1 .. n :
              /\ j < br.fixup => end_of(pending_fixup_records[j]) <= br.start
              /\ j > br.fixup => pending_fixup_records[j].offset >= br.end
    BY <1>2 DEF FixupInv, BranchFixup
  <2>2. br.end \in Nat /\ br.end <= off
    BY BranchType DEF LabelInv, BranchesOrdered
  <2> HIDE DEF br
  <2>3. f.offset >= br.end
    BY <1>1, <1>4, <2>2
  <2> QED  BY <2>1, <2>3, <1>2 DEF br
<1>7. HeapBeforeBranches'
  BY DEF FixupInv, HeapBeforeBranches, end_of
<1> QED  BY <1>5, <1>6, <1>7 DEF FixupInv

\* use_label_at_offset followed by the bytes of its instruction keeps it.
LEMMA UseLabelIInv ==
    ASSUME NEW l \in Label, NEW k \in ClientKind, NEW n \in Nat
    PROVE  IInv /\ UseLabel(l, k, n) => IInv'
<1> SUFFICES ASSUME IInv, UseLabel(l, k, n) PROVE IInv'
  OBVIOUS
<1> USE IInvParts
<1>0. k \in Kind /\ off \in Nat /\ off' \in Nat /\ off' >= off /\ off + PatchSize[k] <= off'
  <2>1. k \in Kind /\ off \in Nat /\ n \in Nat
    BY KindAssumption DEF TypeOK
  <2>2. off' = off + n /\ PatchSize[k] <= n /\ PatchSize[k] \in Nat
    BY <2>1, KindType DEF UseLabel
  <2> QED  BY <2>1, <2>2
<1>1. TypeOK'
  BY <1>0, UseLabelType DEF UseLabel, TypeOK, labelVars, deferVars, islandVars
<1>2. LabelInv'
  BY <1>0, GrowKeepsLabels DEF UseLabel
<1>3. FixupInv'
  BY <1>0, UseKeepsFixups DEF UseLabel, islandVars
<1>4. NoAliasCycle'
  BY DEF UseLabel, NoAliasCycle, labelVars
<1>5. OtherInv'
  BY DEF UseLabel, OtherInv, IslandPhases, UnusedUnbound, DeferredUnbound, unbound_label, live, allocated,
         labelVars, deferVars, islandVars
<1> QED  BY <1>1, <1>2, <1>3, <1>4, <1>5, IInvParts1

\* add_uncond_branch and add_cond_branch keep the invariant: the new branch is
\* the last, owns the last fixup and takes the labels at the tail.
LEMMA AddBranchIInv ==
    ASSUME NEW l \in Label, NEW k \in ClientKind, NEW n \in Nat, NEW cond \in BOOLEAN
    PROVE  IInv /\ AddBranch(l, k, n, cond) => IInv'
<1> SUFFICES ASSUME IInv, AddBranch(l, k, n, cond) PROVE IInv'
  OBVIOUS
<1> USE IInvParts
<1> DEFINE f == [label |-> l, offset |-> off, kind |-> k]
           p == Len(pending_fixup_records)
           m == Len(latest_branches)
           new == [start |-> off, end |-> off + n, target |-> l, fixup |-> p + 1,
                   cond |-> cond, labels |-> lazily_cleared(off)]
<1>1. /\ k \in Kind /\ off \in Nat /\ n \in Nat /\ n > 0 /\ off' = off + n
      /\ off + PatchSize[k] <= off' /\ off' \in Nat /\ off' > off
  <2>1. k \in Kind /\ off \in Nat
    BY KindAssumption DEF TypeOK
  <2>2. off' = off + n /\ PatchSize[k] <= n /\ PatchSize[k] \in Nat /\ PatchSize[k] > 0
    BY <2>1, KindType DEF AddBranch
  <2> QED  BY <2>1, <2>2
<1>2. /\ p \in Nat /\ DOMAIN pending_fixup_records = 1 .. p
      /\ m \in Nat /\ DOMAIN latest_branches = 1 .. m
      /\ latest_branches \in Seq(Branch) /\ pending_fixup_records \in Seq(Fixup)
  BY DEF TypeOK
<1>3. new \in Branch
  BY <1>1, <1>2 DEF Branch, lazily_cleared, TypeOK
<1>4. latest_branches' = Append(latest_branches, new)
  BY DEF AddBranch
<1>5. /\ f \in Fixup /\ f.offset = off /\ f.label = l /\ end_of(f) <= off'
      /\ pending_fixup_records' = Append(pending_fixup_records, f)
      /\ pending_fixup_records' \in Seq(Fixup) /\ pending_fixup_deadline' \in Nat
  <2>1. use_label_at_offset(off, l, k, pending_fixup_records)
    BY DEF AddBranch
  <2> QED  BY <1>1, <2>1, UseLabelType DEF end_of
<1>6. /\ new.start = off /\ new.end = off + n /\ new.target = l /\ new.fixup = p + 1
      /\ new.labels = lazily_cleared(off)
  OBVIOUS
<1> HIDE DEF f, new, p, m
<1>7. /\ DOMAIN latest_branches' = 1 .. (m + 1) /\ latest_branches' \in Seq(Branch)
      /\ \A i \in 1 .. m : latest_branches'[i] = latest_branches[i]
      /\ latest_branches'[m + 1] = new
  BY <1>2, <1>3, <1>4 DEF m
<1>8. /\ DOMAIN pending_fixup_records' = 1 .. (p + 1)
      /\ \A j \in 1 .. p : pending_fixup_records'[j] = pending_fixup_records[j]
      /\ pending_fixup_records'[p + 1] = f
  BY <1>2, <1>5 DEF p
<1>9. \A i \in 1 .. m :
        /\ latest_branches[i].start \in Nat /\ latest_branches[i].end \in Nat
        /\ latest_branches[i].start < latest_branches[i].end
        /\ latest_branches[i].end <= off
  BY <1>2, BranchType DEF LabelInv, BranchesOrdered
<1>10. /\ label_offsets' = label_offsets /\ label_aliases' = label_aliases
       /\ live' = live /\ live \subseteq Label
       /\ \A x \in Label : label_offsets[x] \in Int
       /\ \A x \in live : label_offsets[x] <= off
  BY SMTT(60) DEF AddBranch, live, LabelInv, NoLabelPastTail, TypeOK, Offset, UNKNOWN_LABEL_OFFSET
<1>11. /\ lazily_cleared(off) = labels_bound_at(off)
       /\ labels_at_tail_off \in Nat /\ labels_at_tail_off <= off
       /\ labels_at_tail' = lazily_cleared(off)
       /\ labels_at_tail_off' \in Nat /\ labels_at_tail_off' <= off
  BY <1>1 DEF AddBranch, LabelInv, LabelsAtTail, TypeOK, lazily_cleared_off
<1>t. TypeOK'
  BY <1>1, <1>5, <1>7, <1>11 DEF AddBranch, TypeOK, lazily_cleared, deferVars, islandVars
<1>l. LabelInv'
  <2>1. NoLabelPastTail'
    BY <1>1, <1>10 DEF NoLabelPastTail
  <2>2. LabelsAtTail'
    <3>1. lazily_cleared(off)' = {}
      BY <1>1, <1>11 DEF lazily_cleared
    <3>2. labels_bound_at(off)' = {}
      BY <1>1, <1>10 DEF labels_bound_at, live
    <3> QED  BY <1>1, <1>11, <3>1, <3>2 DEF LabelsAtTail
  <2>3. LabelsAtBranch'
    <3>1. \A o \in Nat : labels_bound_at(o)' = labels_bound_at(o)
      BY <1>10 DEF labels_bound_at
    <3>2. \A i \in 1 .. m : latest_branches[i].labels = labels_bound_at(latest_branches[i].start)
      BY <1>2 DEF LabelInv, LabelsAtBranch
    <3>3. new.labels = labels_bound_at(new.start)
      BY <1>6, <1>11
    <3>4. \A i \in 1 .. m + 1 :
            latest_branches'[i].labels = labels_bound_at(latest_branches'[i].start)
      BY <1>2, <1>7, <3>2, <3>3
    <3> QED  BY <1>7, <1>10, <3>4 DEF LabelsAtBranch, labels_bound_at
  <2>4. BranchesOrdered'
    <3>1. ASSUME NEW i \in 1 .. m + 1
          PROVE  /\ latest_branches'[i].start < latest_branches'[i].end
                 /\ latest_branches'[i].end <= off'
      BY SMTT(60), <1>1, <1>2, <1>6, <1>7, <1>9
    <3>2. ASSUME NEW i \in 1 .. m + 1, NEW j \in 1 .. m + 1, i < j
          PROVE  latest_branches'[i].end <= latest_branches'[j].start
      <4>1. CASE j = m + 1
        BY SMTT(60), <3>2, <4>1, <1>2, <1>6, <1>7, <1>9
      <4>2. CASE j \in 1 .. m
        <5>1. i \in 1 .. m
          BY <3>2, <4>2, <1>2
        <5>2. latest_branches[i].end <= latest_branches[j].start
          BY <3>2, <4>2, <5>1, <1>2 DEF LabelInv, BranchesOrdered
        <5> QED  BY <4>2, <5>1, <5>2, <1>7
      <4> QED  BY <4>1, <4>2, <1>2
    <3>3. ASSUME NEW i \in 1 .. m + 1, NEW x \in live
          PROVE  ~( /\ latest_branches'[i].start < label_offsets[x]
                    /\ label_offsets[x] < latest_branches'[i].end )
      <4>1. CASE i = m + 1
        <5>1. label_offsets[x] \in Int /\ label_offsets[x] <= off
          BY <1>10
        <5> QED  BY <4>1, <5>1, <1>1, <1>6, <1>7
      <4>2. CASE i \in 1 .. m
        BY <4>2, <1>2, <1>7 DEF LabelInv, BranchesOrdered
      <4> QED  BY <4>1, <4>2, <1>2
    <3> QED  BY <1>7, <1>10, <3>1, <3>2, <3>3 DEF BranchesOrdered
  <2> QED  BY <2>1, <2>2, <2>3, <2>4 DEF LabelInv
<1>f. FixupInv'
  <2>0. \A g \in Fixup : end_of(g) \in Nat
    BY KindAssumption DEF Fixup, end_of
  <2>1. FixupsInBuffer'
    <3>1. \A j \in 1 .. p : pending_fixup_records[j] \in Fixup /\ end_of(pending_fixup_records[j]) <= off
      BY <1>2 DEF FixupInv, FixupsInBuffer
    <3>2. \A j \in DOMAIN pending_fixup_records' : end_of(pending_fixup_records'[j]) <= off'
      BY <1>1, <1>2, <1>5, <1>8, <2>0, <3>1
    <3>3. taken = <<>> /\ taken' = taken /\ fixup_records' = fixup_records
      BY DEF AddBranch, OtherInv, IslandPhases, islandVars
    <3>4. \A g \in fixup_records : end_of(g) <= off'
      BY SMTT(60), <1>1, <2>0 DEF TypeOK, FixupInv, FixupsInBuffer
    <3> QED  BY <3>2, <3>3, <3>4 DEF FixupsInBuffer, end_of
  <2>2. BranchFixup'
    <3> SUFFICES ASSUME NEW i \in 1 .. m + 1
                 PROVE  LET br == latest_branches'[i] IN
            /\ br.fixup \in 1 .. p + 1
            /\ pending_fixup_records'[br.fixup].label = br.target
            /\ pending_fixup_records'[br.fixup].offset = br.start
            /\ \A j \in 1 .. p + 1 :
                  /\ j < br.fixup => end_of(pending_fixup_records'[j]) <= br.start
                  /\ j > br.fixup => pending_fixup_records'[j].offset >= br.end
      BY <1>7, <1>8 DEF BranchFixup, end_of
    <3>1. CASE i = m + 1
      <4>1. \A j \in 1 .. p : end_of(pending_fixup_records[j]) <= off
        BY <1>2 DEF FixupInv, FixupsInBuffer
      <4> QED  BY <3>1, <4>1, <1>2, <1>5, <1>6, <1>7, <1>8
    <3>2. CASE i \in 1 .. m
      <4> DEFINE br == latest_branches[i]
      <4>1. /\ br.fixup \in 1 .. p
            /\ pending_fixup_records[br.fixup].label = br.target
            /\ pending_fixup_records[br.fixup].offset = br.start
            /\ \A j \in 1 .. p :
                  /\ j < br.fixup => end_of(pending_fixup_records[j]) <= br.start
                  /\ j > br.fixup => pending_fixup_records[j].offset >= br.end
        BY <3>2, <1>2 DEF FixupInv, BranchFixup
      <4>2. latest_branches'[i] = br /\ f.offset >= br.end
        BY <3>2, <1>1, <1>5, <1>7, <1>9
      <4> HIDE DEF br
      <4> QED  BY <4>1, <4>2, <1>2, <1>8
    <3> QED  BY <3>1, <3>2, <1>2
  <2>3. HeapBeforeBranches'
    <3>1. \A i \in 1 .. m, g \in fixup_records : end_of(g) <= latest_branches[i].start
      BY <1>2 DEF FixupInv, HeapBeforeBranches
    <3>2. \A g \in fixup_records : end_of(g) <= off
      BY DEF FixupInv, FixupsInBuffer
    <3>3. fixup_records' = fixup_records
      BY DEF AddBranch
    <3> QED  BY <1>2, <1>6, <1>7, <3>1, <3>2, <3>3 DEF HeapBeforeBranches, end_of
  <2> QED  BY <2>1, <2>2, <2>3 DEF FixupInv
<1>a. NoAliasCycle'
  BY DEF AddBranch, NoAliasCycle
<1>o. OtherInv'
  BY DEF AddBranch, OtherInv, IslandPhases, UnusedUnbound, DeferredUnbound, unbound_label, live, allocated,
         deferVars, islandVars
<1> QED  BY <1>t, <1>l, <1>f, <1>a, <1>o, IInvParts1

\* A step that changes neither code nor labels, branches or fixups.
LEMMA ControlIInv ==
    ASSUME IInv, TypeOK', IslandPhases',
           UNCHANGED <<off, nlabels, labelVars, fixup_records, pending_fixup_records,
                       taken, deferVars>>,
           latest_branches' \in {latest_branches, <<>>}
    PROVE  IInv'
<1> USE IInvParts
<1>1. LabelInv'
  <2>1. NoLabelPastTail' /\ LabelsAtTail'
    BY DEF LabelInv, NoLabelPastTail, LabelsAtTail, lazily_cleared, labels_bound_at, live, labelVars
  <2>2. LabelsAtBranch' /\ BranchesOrdered'
    BY DEF LabelInv, LabelsAtBranch, BranchesOrdered, labels_bound_at, live, labelVars
  <2> QED  BY <2>1, <2>2 DEF LabelInv
<1>2. FixupInv'
  BY DEF FixupInv, FixupsInBuffer, BranchFixup, HeapBeforeBranches, end_of
<1>3. NoAliasCycle'
  BY DEF NoAliasCycle, labelVars
<1>4. UnusedUnbound' /\ DeferredUnbound'
  BY DEF OtherInv, UnusedUnbound, DeferredUnbound, unbound_label, live, allocated, labelVars, deferVars
<1> QED  BY <1>1, <1>2, <1>3, <1>4, IInvParts1 DEF OtherInv

\* Entering optimize_branches only clears stale labels at the tail.
LEMMA OptimizeBranchesIInv == IInv /\ OptimizeBranches => IInv'
<1> SUFFICES ASSUME IInv, OptimizeBranches PROVE IInv'
  OBVIOUS
<1> USE IInvParts
<1>1. pc' \in {"idle", "optimize_branches"} /\ pc = "idle"
  BY DEF OptimizeBranches, enter_optimize_branches
<1>2. TypeOK'
  BY <1>1 DEF OptimizeBranches, TypeOK, lazily_cleared, lazily_cleared_off, deferVars, islandVars
<1>3. LabelInv'
  <2>1. NoLabelPastTail'
    BY DEF OptimizeBranches, LabelInv, NoLabelPastTail, live
  <2>2. LabelsAtTail'
    <3>1. /\ labels_at_tail_off \in Nat /\ off \in Nat /\ labels_at_tail_off <= off /\ off' = off
          /\ lazily_cleared(off) = labels_bound_at(off)
          /\ labels_bound_at(off)' = labels_bound_at(off)
      BY DEF OptimizeBranches, LabelInv, LabelsAtTail, labels_bound_at, TypeOK
    <3>2. lazily_cleared(off)' = lazily_cleared(off) /\ labels_at_tail_off' <= off
      BY <3>1 DEF OptimizeBranches, lazily_cleared, lazily_cleared_off
    <3> QED  BY <3>1, <3>2 DEF LabelsAtTail
  <2>3. LabelsAtBranch' /\ BranchesOrdered'
    BY DEF OptimizeBranches, LabelInv, LabelsAtBranch, BranchesOrdered, labels_bound_at, live
  <2> QED  BY <2>1, <2>2, <2>3 DEF LabelInv
<1>4. FixupInv'
  BY DEF OptimizeBranches, FixupInv, FixupsInBuffer, BranchFixup, HeapBeforeBranches, end_of,
         islandVars
<1>5. NoAliasCycle'
  BY DEF OptimizeBranches, NoAliasCycle
<1>6. OtherInv'
  BY <1>1 DEF OptimizeBranches, OtherInv, IslandPhases, UnusedUnbound, DeferredUnbound, unbound_label, live, allocated,
              deferVars, islandVars
<1> QED  BY <1>2, <1>3, <1>4, <1>5, <1>6, IInvParts1

\* Leaving optimize_branches may only purge the recorded branches.
LEMMA OptDoneIInv == IInv /\ OptDone => IInv'
<1> SUFFICES ASSUME IInv, OptDone PROVE IInv'
  OBVIOUS
<1>1. latest_branches' \in {latest_branches, <<>>}
  BY DEF OptDone, purge_latest_branches
<1>a. latest_branches' \in Seq(Branch)
  <2>1. latest_branches \in Seq(Branch) /\ <<>> \in Seq(Branch)
    BY IInvParts DEF TypeOK
  <2> QED  BY <1>1, <2>1
<1>2. TypeOK'
  BY <1>a, IInvParts DEF OptDone, TypeOK, labelVars, deferVars, islandVars
<1>3. IslandPhases'
  BY IInvParts DEF OptDone, OtherInv, IslandPhases, islandVars
<1> QED  BY <1>1, <1>2, <1>3, ControlIInv DEF OptDone, islandVars

\* Entering finish changes nothing the invariant is about.
LEMMA FinishIInv == ASSUME NEW force \in BOOLEAN PROVE IInv /\ Finish(force) => IInv'
<1> SUFFICES ASSUME IInv, Finish(force) PROVE IInv'
  OBVIOUS
<1>1. TypeOK'
  BY IInvParts DEF Finish, TypeOK, labelVars, deferVars
<1>2. IslandPhases'
  BY IInvParts DEF Finish, OtherInv, IslandPhases
<1> QED  BY <1>1, <1>2, ControlIInv DEF Finish

\* Leaving finish changes nothing the invariant is about.
LEMMA FinishDoneIInv == IInv /\ FinishDone => IInv'
<1> SUFFICES ASSUME IInv, FinishDone PROVE IInv'
  OBVIOUS
<1>1. TypeOK'
  BY IInvParts DEF FinishDone, TypeOK, labelVars, deferVars, islandVars
<1>2. IslandPhases'
  BY IInvParts DEF FinishDone, OtherInv, IslandPhases, islandVars
<1> QED  BY <1>1, <1>2, ControlIInv DEF FinishDone, islandVars

\* Resetting pending_fixup_deadline in emit_island keeps the invariant.
LEMMA IslandPendingDoneIInv == IInv /\ IslandPendingDone => IInv'
<1> SUFFICES ASSUME IInv, IslandPendingDone PROVE IInv'
  OBVIOUS
<1>1. TypeOK'
  BY SizesAssumption, IInvParts DEF IslandPendingDone, TypeOK, labelVars, deferVars, islandVars
<1>2. IslandPhases'
  BY IInvParts DEF IslandPendingDone, OtherInv, IslandPhases, islandVars
<1> QED  BY <1>1, <1>2, ControlIInv DEF IslandPendingDone, islandVars

\* The end of the loop over the heap keeps the invariant.
LEMMA IslandHeapDoneIInv == IInv /\ IslandHeapDone => IInv'
<1> SUFFICES ASSUME IInv, IslandHeapDone PROVE IInv'
  OBVIOUS
<1>1. TypeOK'
  BY IInvParts DEF IslandHeapDone, TypeOK, labelVars, deferVars, islandVars
<1>2. IslandPhases'
  BY IInvParts DEF IslandHeapDone, OtherInv, IslandPhases, islandVars
<1> QED  BY <1>1, <1>2, ControlIInv DEF IslandHeapDone, islandVars

\* The return from emit_island keeps the invariant.
LEMMA IslandDoneIInv == IInv /\ IslandDone => IInv'
<1> SUFFICES ASSUME IInv, IslandDone PROVE IInv'
  OBVIOUS
<1>1. TypeOK'
  BY IInvParts DEF IslandDone, TypeOK, labelVars, deferVars, islandVars
<1>2. IslandPhases'
  BY IInvParts DEF IslandDone, OtherInv, IslandPhases, islandVars
<1> QED  BY <1>1, <1>2, ControlIInv DEF IslandDone, islandVars

\* defer_trap keeps the invariant: its label is new, so nobody else has it.
LEMMA DeferTrapIInv == IInv /\ defer_trap => IInv'
<1> SUFFICES ASSUME IInv, defer_trap PROVE IInv'
  OBVIOUS
<1> USE IInvParts
<1>0. nlabels \in Label /\ nlabels' \in 0 .. MaxLabels /\ nlabels \notin allocated
  BY SizesAssumption, SMTT(60) DEF defer_trap, TypeOK, Label, allocated
<1>1. TypeOK'
  BY SMTT(60), <1>0 DEF defer_trap, TypeOK, labelVars, islandVars
<1>2. LabelInv'
  BY GrowKeepsLabels DEF defer_trap, TypeOK
<1>3. FixupInv'
  BY GrowKeepsFixups DEF defer_trap, TypeOK, islandVars
<1>4. NoAliasCycle'
  BY DEF defer_trap, NoAliasCycle, labelVars
<1>5. IslandPhases'
  BY DEF defer_trap, OtherInv, IslandPhases, islandVars
<1>6. UnusedUnbound' /\ DeferredUnbound'
  <2>1. /\ allocated' = allocated \cup {nlabels} /\ label_offsets' = label_offsets /\ live' = live
        /\ label_offsets[nlabels] = UNKNOWN_LABEL_OFFSET /\ nlabels \in live
    BY <1>0, SMTT(60) DEF defer_trap, TypeOK, OtherInv, UnusedUnbound, live, allocated, labelVars
  <2>2. UnusedUnbound'
    BY <2>1 DEF OtherInv, UnusedUnbound
  <2>3. /\ \A l \in Label : unbound_label(l) => unbound_label(l)' /\ l # nlabels
        /\ \A l \in Label : l = nlabels => unbound_label(l)'
    BY <1>0, <2>1 DEF unbound_label
  <2>4. /\ \A i \in DOMAIN pending_traps : pending_traps[i] \in Label /\ unbound_label(pending_traps[i])
        /\ \A c \in Const : upcoming_label[c] # UNKNOWN_LABEL =>
                              upcoming_label[c] \in Label /\ unbound_label(upcoming_label[c])
        /\ UNKNOWN_LABEL # nlabels
    BY <1>0, DeferredType DEF OtherInv, DeferredUnbound
  <2>5. /\ DOMAIN pending_traps' = 1 .. (Len(pending_traps) + 1)
        /\ DOMAIN pending_traps = 1 .. Len(pending_traps) /\ Len(pending_traps) \in Nat
        /\ \A i \in DOMAIN pending_traps : pending_traps'[i] = pending_traps[i]
        /\ pending_traps'[Len(pending_traps) + 1] = nlabels
        /\ UNCHANGED <<upcoming_label, pending_constants>>
    BY SMTT(60), <1>0 DEF defer_trap, TypeOK
  <2>9. DeferredUnbound'
    <3>1. \A i \in DOMAIN pending_traps' :
            \/ i \in DOMAIN pending_traps /\ pending_traps'[i] = pending_traps[i]
            \/ i \notin DOMAIN pending_traps /\ pending_traps'[i] = nlabels
      BY <2>5
    <3>2. \A i \in DOMAIN pending_traps' :
             /\ unbound_label(pending_traps[i])'
             /\ \A j \in DOMAIN pending_traps' : i # j => pending_traps'[i] # pending_traps'[j]
             /\ \A d \in Const : upcoming_label'[d] # pending_traps'[i]
      BY <3>1, <1>0, <2>3, <2>4, <2>5 DEF OtherInv, DeferredUnbound
    <3>3. \A c \in Const : upcoming_label'[c] # UNKNOWN_LABEL =>
             /\ unbound_label(upcoming_label[c])'
             /\ \A d \in Const : c # d => upcoming_label'[c] # upcoming_label'[d]
      BY <2>3, <2>4, <2>5 DEF OtherInv, DeferredUnbound
    <3> QED  BY <3>2, <3>3, <2>5 DEF OtherInv, DeferredUnbound
  <2> QED  BY <2>2, <2>9
<1> QED  BY <1>1, <1>2, <1>3, <1>4, <1>5, <1>6, IInvParts1 DEF OtherInv

\* get_label_for_constant keeps the invariant, for the same reason.
LEMMA GetLabelForConstantIInv ==
    ASSUME NEW c \in Const PROVE IInv /\ get_label_for_constant(c) => IInv'
<1> SUFFICES ASSUME IInv, get_label_for_constant(c) PROVE IInv'
  OBVIOUS
<1> USE IInvParts
<1>0. nlabels \in Label /\ nlabels' \in 0 .. MaxLabels /\ nlabels \notin allocated
  <2>1. nlabels < MaxLabels /\ nlabels \in 0 .. MaxLabels /\ nlabels' = nlabels + 1
    BY DEF get_label_for_constant, TypeOK
  <2> QED  BY <2>1, SizesAssumption DEF Label, allocated
<1>1. TypeOK'
  BY <1>0, ConstAssumption, SMTT(60) DEF get_label_for_constant, TypeOK, labelVars, islandVars
<1>2. LabelInv'
  BY GrowKeepsLabels DEF get_label_for_constant, TypeOK
<1>3. FixupInv'
  BY GrowKeepsFixups DEF get_label_for_constant, TypeOK, islandVars
<1>4. NoAliasCycle'
  BY DEF get_label_for_constant, NoAliasCycle, labelVars
<1>5. IslandPhases'
  BY DEF get_label_for_constant, OtherInv, IslandPhases, islandVars
<1>6. UnusedUnbound' /\ DeferredUnbound'
  <2>1. /\ allocated' = allocated \cup {nlabels} /\ label_offsets' = label_offsets /\ live' = live
        /\ label_offsets[nlabels] = UNKNOWN_LABEL_OFFSET /\ nlabels \in live
    BY <1>0, SMTT(60) DEF get_label_for_constant, TypeOK, OtherInv, UnusedUnbound, live, allocated, labelVars
  <2>2. UnusedUnbound'
    BY <2>1 DEF OtherInv, UnusedUnbound
  <2>3. /\ \A l \in Label : unbound_label(l) => unbound_label(l)' /\ l # nlabels
        /\ \A l \in Label : l = nlabels => unbound_label(l)'
    BY <1>0, <2>1 DEF unbound_label
  <2>4. /\ \A i \in DOMAIN pending_traps : pending_traps[i] \in Label /\ unbound_label(pending_traps[i])
        /\ \A d \in Const : upcoming_label[d] # UNKNOWN_LABEL =>
                              upcoming_label[d] \in Label /\ unbound_label(upcoming_label[d])
        /\ UNKNOWN_LABEL # nlabels
    BY <1>0, DeferredType DEF OtherInv, DeferredUnbound
  <2>5. /\ DOMAIN pending_constants' = 1 .. (Len(pending_constants) + 1)
        /\ DOMAIN pending_constants = 1 .. Len(pending_constants) /\ Len(pending_constants) \in Nat
        /\ \A i \in DOMAIN pending_constants :
              pending_constants'[i] = pending_constants[i] /\ pending_constants[i] \in Const
        /\ pending_constants'[Len(pending_constants) + 1] = c
        /\ pending_traps' = pending_traps
        /\ upcoming_label[c] = UNKNOWN_LABEL
        /\ \A d \in Const : upcoming_label'[d] = IF d = c THEN nlabels ELSE upcoming_label[d]
    BY SMTT(60), <1>0 DEF get_label_for_constant, TypeOK
  <2>6. /\ \A i \in DOMAIN pending_traps :
             /\ unbound_label(pending_traps[i])
             /\ \A j \in DOMAIN pending_traps : i # j => pending_traps[i] # pending_traps[j]
             /\ \A d \in Const : upcoming_label[d] # pending_traps[i]
        /\ \A d \in Const : upcoming_label[d] # UNKNOWN_LABEL =>
             /\ unbound_label(upcoming_label[d])
             /\ \A e \in Const : d # e => upcoming_label[d] # upcoming_label[e]
        /\ \A i \in DOMAIN pending_constants :
             /\ upcoming_label[pending_constants[i]] # UNKNOWN_LABEL
             /\ \A j \in DOMAIN pending_constants :
                  i # j => pending_constants[i] # pending_constants[j]
    BY DEF OtherInv, DeferredUnbound
  <2>7. /\ \A i \in DOMAIN pending_traps' :
             /\ unbound_label(pending_traps[i])'
             /\ \A j \in DOMAIN pending_traps' : i # j => pending_traps'[i] # pending_traps'[j]
             /\ \A d \in Const : upcoming_label'[d] # pending_traps'[i]
    BY <2>3, <2>4, <2>5, <2>6 
  <2>8. \A d \in Const : upcoming_label'[d] # UNKNOWN_LABEL =>
             /\ unbound_label(upcoming_label[d])'
             /\ \A e \in Const : d # e => upcoming_label'[d] # upcoming_label'[e]
    <3> SUFFICES ASSUME NEW d \in Const, upcoming_label'[d] # UNKNOWN_LABEL
                 PROVE  /\ unbound_label(upcoming_label[d])'
                        /\ \A e \in Const : d # e => upcoming_label'[d] # upcoming_label'[e]
      OBVIOUS
    <3>1. CASE d = c
      <4>1. upcoming_label'[d] = nlabels
        BY <3>1, <2>5
      <4>2. \A e \in Const : d # e => upcoming_label'[e] # nlabels
        BY <3>1, <2>3, <2>4, <2>5
      <4> QED  BY <4>1, <4>2, <1>0, <2>3
    <3>2. CASE d # c
      <4>1. upcoming_label'[d] = upcoming_label[d] /\ upcoming_label[d] # nlabels
        BY <3>2, <2>3, <2>4, <2>5
      <4>2. \A e \in Const : d # e => upcoming_label'[e] # upcoming_label[d]
        BY <3>2, <4>1, <2>5, <2>6
      <4> QED  BY <4>1, <4>2, <2>3, <2>4
    <3> QED  BY <3>1, <3>2
  <2>a. \A i \in DOMAIN pending_constants' :
             /\ upcoming_label'[pending_constants'[i]] # UNKNOWN_LABEL
             /\ \A j \in DOMAIN pending_constants' :
                  i # j => pending_constants'[i] # pending_constants'[j]
    BY <2>4, <2>5, <2>6
  <2>9. DeferredUnbound'
    BY <2>7, <2>8, <2>a DEF DeferredUnbound
  <2> QED  BY <2>2, <2>9
<1> QED  BY <1>1, <1>2, <1>3, <1>4, <1>5, <1>6, IInvParts1 DEF OtherInv

(***************************************************************************)
(* Islands.                                                                *)
(***************************************************************************)

\* worst_case_end_of_island is a natural number.
LEMMA WorstCaseNat ==
    ASSUME TypeOK, NEW distance \in Nat
    PROVE  worst_case_end_of_island(distance) \in Nat
<1>1. num_fixups \in Nat
  <2>1. Cardinality(fixup_records) \in Nat
    BY FS_CardinalityType DEF TypeOK
  <2> QED  BY <2>1 DEF num_fixups, TypeOK
<1>2. Len(pending_traps) \in Nat /\ pending_constants_size \in Nat /\ off \in Nat
  BY DEF TypeOK
<1>3. num_fixups * WorstVeneerSize \in Nat
  BY <1>1, KindAssumption
<1>4. Len(pending_traps) * TrapSize \in Nat
  BY <1>2, SizesAssumption
<1> QED
  BY <1>2, <1>3, <1>4, SizesAssumption DEF worst_case_end_of_island, SatAdd

\* The start of emit_island_maybe_forced keeps the invariant: it forgets every
\* branch and takes the pending fixups.
LEMMA StartIslandIInv ==
    ASSUME IInv, NEW distance \in Nat, NEW force \in BOOLEAN, pc \in {"idle", "finish"},
           start_island(distance, force),
           UNCHANGED <<off, nlabels, labelVars, pending_fixup_deadline, fixup_records,
                       deferVars, finishing>>
    PROVE  IInv'
<1> USE IInvParts
<1>0. taken = <<>>
  BY DEF OtherInv, IslandPhases
<1>1. TypeOK'
  <2>1. <<>> \in Seq(Branch) /\ <<>> \in Seq(Fixup)
    OBVIOUS
  <2>2. forced_threshold' \in Nat
    BY WorstCaseNat DEF start_island
  <2> QED  BY <2>1, <2>2 DEF start_island, TypeOK, labelVars, deferVars
<1>2. LabelInv'
  <2>1. NoLabelPastTail' /\ LabelsAtTail'
    BY DEF LabelInv, NoLabelPastTail, LabelsAtTail, lazily_cleared, labels_bound_at, live, labelVars
  <2>2. LabelsAtBranch' /\ BranchesOrdered'
    BY DEF start_island, LabelsAtBranch, BranchesOrdered
  <2> QED  BY <2>1, <2>2 DEF LabelInv
<1>3. FixupInv'
  BY DEF start_island, FixupInv, FixupsInBuffer, BranchFixup, HeapBeforeBranches, end_of
<1>4. NoAliasCycle'
  BY DEF NoAliasCycle, labelVars
<1>5. OtherInv'
  <2>1. IslandPhases'
    BY DEF start_island, IslandPhases
  <2>2. UnusedUnbound' /\ DeferredUnbound'
    BY DEF OtherInv, UnusedUnbound, DeferredUnbound, unbound_label, live, allocated,
           labelVars, deferVars
  <2> QED  BY <2>1, <2>2 DEF OtherInv
<1> QED  BY <1>1, <1>2, <1>3, <1>4, <1>5, IInvParts1

\* emit_island, called by a client.
LEMMA EmitIslandIInv ==
    ASSUME NEW distance \in Nat, NEW force \in BOOLEAN
    PROVE  IInv /\ EmitIsland(distance, force) => IInv'
BY StartIslandIInv DEF EmitIsland

\* emit_island_maybe_forced, called by finish.
LEMMA FinishIslandIInv == IInv /\ FinishIsland => IInv'
<1> SUFFICES ASSUME IInv, FinishIsland PROVE IInv'
  OBVIOUS
<1>1. force_veneers \in BOOLEAN
  BY IInvParts DEF TypeOK
<1> QED  BY <1>1, StartIslandIInv DEF FinishIsland

\* The end of a veneer is past the start of its own label use.
LEMMA VeneerFits ==
    ASSUME NEW k \in Kind, supports_veneer(k), NEW o \in Nat
    PROVE  LET at == o + VeneerFixupDelta[k][o % 4] IN
           /\ VeneerKind[k] \in Kind /\ at \in Nat /\ at >= o
           /\ at + PatchSize[VeneerKind[k]] <= o + VeneerSize[k]
<1>1. o % 4 \in 0 .. 3
  OBVIOUS
<1>2. VeneerKind[k] \in Kind
  BY KindAssumption DEF supports_veneer
<1>3. VeneerFixupDelta[k][o % 4] \in Nat
  BY <1>1, KindAssumption
<1>4. VeneerFixupDelta[k][o % 4] + PatchSize[VeneerKind[k]] <= VeneerSize[k]
  BY <1>1, KindAssumption DEF supports_veneer
<1>5. PatchSize[VeneerKind[k]] \in Nat /\ VeneerSize[k] \in Nat
  BY <1>2, KindType
<1> QED  BY <1>2, <1>3, <1>4, <1>5

\* Handling a fixup, or not: code only grows, and by whole veneers.
LEMMA HandleFixup ==
    ASSUME IInv, NEW f \in Fixup, NEW next_pc \in {"island_pending", "island_heap"},
           handle_fixup(f, next_pc)
    PROVE  /\ off' \in Nat /\ off' >= off
           /\ pending_fixup_records' \in Seq(Fixup) /\ pending_fixup_deadline' \in Nat
           /\ \A i \in DOMAIN pending_fixup_records' : end_of(pending_fixup_records'[i]) <= off'
           /\ pc' \in {next_pc, "panic"}
<1> USE IInvParts
<1>0. /\ off \in Nat /\ pending_fixup_records \in Seq(Fixup) /\ pending_fixup_deadline \in Nat
      /\ \A i \in DOMAIN pending_fixup_records : end_of(pending_fixup_records[i]) <= off
      /\ f.kind \in Kind /\ f.label \in Label
  BY DEF TypeOK, FixupInv, FixupsInBuffer, Fixup
<1>1. CASE UNCHANGED <<off, pending_fixup_records, pending_fixup_deadline>>
  BY <1>0, <1>1 DEF handle_fixup
<1>2. CASE asserts_hold(f) /\ veneer_required(f)
  <2> DEFINE o == AlignUp(off, Align)
             at == o + VeneerFixupDelta[f.kind][o % 4]
             k == VeneerKind[f.kind]
  <2>1. supports_veneer(f.kind) /\ emit_veneer(f) /\ pc' = next_pc
    BY <1>2 DEF asserts_hold, handle_fixup
  <2>2. o \in Nat /\ o >= off
    BY <1>0, AlignUpNat, SizesAssumption
  <2>3. /\ k \in Kind /\ at \in Nat /\ at >= o
        /\ at + PatchSize[k] <= o + VeneerSize[f.kind]
    BY <1>0, <2>1, <2>2, VeneerFits
  <2>4. off' = o + VeneerSize[f.kind] /\ VeneerSize[f.kind] \in Nat
    BY <1>0, <2>1, KindType DEF emit_veneer
  <2>5. use_label_at_offset(at, f.label, k, pending_fixup_records)
    BY <2>1 DEF emit_veneer
  <2> HIDE DEF o, at, k
  <2>6. off' \in Nat /\ off' >= off /\ at >= off /\ at + PatchSize[k] <= off'
    BY <1>0, <2>2, <2>3, <2>4
  <2> DEFINE g == [label |-> f.label, offset |-> at, kind |-> k]
             n == Len(pending_fixup_records)
  <2>7. /\ pending_fixup_records' = Append(pending_fixup_records, g)
        /\ g \in Fixup /\ end_of(g) <= off'
        /\ pending_fixup_records' \in Seq(Fixup) /\ pending_fixup_deadline' \in Nat
    BY <1>0, <2>3, <2>5, <2>6, UseLabelType DEF end_of
  <2> HIDE DEF g
  <2>8. /\ DOMAIN pending_fixup_records' = 1 .. (n + 1) /\ pending_fixup_records'[n + 1] = g
        /\ DOMAIN pending_fixup_records = 1 .. n /\ n \in Nat
        /\ \A i \in 1 .. n : /\ pending_fixup_records'[i] = pending_fixup_records[i]
                             /\ pending_fixup_records[i] \in Fixup
    BY <1>0, <2>7
  <2>9. \A e \in Fixup : end_of(e) \in Nat
    BY KindAssumption DEF Fixup, end_of
  <2> HIDE DEF n
  <2>10. \A i \in DOMAIN pending_fixup_records' : end_of(pending_fixup_records'[i]) <= off'
    BY <1>0, <2>6, <2>7, <2>8, <2>9
  <2> QED  BY <2>1, <2>6, <2>7, <2>10
<1> QED  BY <1>1, <1>2 DEF handle_fixup

\* What the first element of a list and the rest are made of.
LEMMA HeadTail ==
    ASSUME NEW R, NEW s \in Seq(R), s # <<>>
    PROVE  /\ Head(s) \in R /\ Tail(s) \in Seq(R) /\ 1 \in DOMAIN s /\ Head(s) = s[1]
           /\ \A i \in DOMAIN Tail(s) : i + 1 \in DOMAIN s /\ i \in Nat /\ Tail(s)[i] = s[i + 1]
OBVIOUS

\* An island's steps over fixups: everything but the fixups follows from the
\* growth of the code.
LEMMA IslandFixupIInv ==
    ASSUME IInv, TypeOK', off' >= off, FixupsInBuffer', IslandPhases',
           latest_branches = <<>>,
           UNCHANGED <<nlabels, labelVars, latest_branches, deferVars>>
    PROVE  IInv'
<1> USE IInvParts
<1>1. off' \in Nat
  BY DEF TypeOK
<1>2. LabelInv'
  BY <1>1, GrowKeepsLabels
<1>3. FixupInv'
  BY DEF FixupInv, BranchFixup, HeapBeforeBranches
<1>4. NoAliasCycle'
  BY DEF NoAliasCycle, labelVars
<1>5. UnusedUnbound' /\ DeferredUnbound'
  BY DEF OtherInv, UnusedUnbound, DeferredUnbound, unbound_label, live, allocated,
         labelVars, deferVars
<1> QED  BY <1>2, <1>3, <1>4, <1>5, IInvParts1 DEF OtherInv

\* The loop of emit_island over the pending fixups: a use is patched, sent to a
\* veneer, or kept in the heap.
LEMMA IslandPendingIInv == IInv /\ IslandPending => IInv'
<1> SUFFICES ASSUME IInv, IslandPending PROVE IInv'
  OBVIOUS
<1> USE IInvParts
<1> DEFINE f == Head(taken)
<1>0. /\ latest_branches = <<>> /\ pc = "island_pending"
      /\ UNCHANGED <<nlabels, labelVars, latest_branches, deferVars,
                     forced_threshold, force_veneers, finishing>>
  BY DEF IslandPending, OtherInv, IslandPhases
<1>1. /\ f \in Fixup /\ taken' = Tail(taken) /\ taken' \in Seq(Fixup) /\ off \in Nat
      /\ end_of(f) <= off /\ \A i \in DOMAIN taken' : end_of(taken'[i]) <= off
      /\ \A i \in DOMAIN taken' : taken'[i] \in Fixup
  <2>1. taken \in Seq(Fixup) /\ taken # <<>> /\ taken' = Tail(taken) /\ off \in Nat
    BY DEF IslandPending, TypeOK
  <2>2. \A i \in DOMAIN taken : end_of(taken[i]) <= off /\ taken[i] \in Fixup
    BY <2>1 DEF FixupInv, FixupsInBuffer
  <2> QED  BY <2>1, <2>2, HeadTail
<1>2. \A e \in Fixup : end_of(e) \in Nat
  BY KindAssumption DEF Fixup, end_of
<1>3. fixup_records \in SUBSET Fixup /\ IsFiniteSet(fixup_records)
      /\ \A g \in fixup_records : end_of(g) <= off
  BY DEF TypeOK, FixupInv, FixupsInBuffer
<1> HIDE DEF f
<1>4. /\ off' \in Nat /\ off' >= off
      /\ pending_fixup_records' \in Seq(Fixup) /\ pending_fixup_deadline' \in Nat
      /\ \A i \in DOMAIN pending_fixup_records' : end_of(pending_fixup_records'[i]) <= off'
      /\ pc' \in {"island_pending", "panic"}
      /\ fixup_records' \in {fixup_records, fixup_records \cup {f}}
  <2>1. CASE should_apply_fixup(f)
    <3>1. handle_fixup(f, "island_pending") /\ fixup_records' = fixup_records
      BY <2>1, <1>0 DEF IslandPending, f
    <3> QED  BY <3>1, <1>1, HandleFixup
  <2>2. CASE ~should_apply_fixup(f)
    <3>1. /\ fixup_records' = fixup_records \cup {f}
          /\ UNCHANGED <<off, pending_fixup_records, pending_fixup_deadline, pc>>
      BY <2>2 DEF IslandPending, f
    <3> QED  BY <3>1, <1>0, <1>1 DEF TypeOK, FixupInv, FixupsInBuffer, end_of
  <2> QED  BY <2>1, <2>2
<1>5. fixup_records' \in SUBSET Fixup /\ IsFiniteSet(fixup_records')
      /\ \A g \in fixup_records' : end_of(g) <= off
  <2>1. IsFiniteSet(fixup_records \cup {f})
    BY <1>3, FS_AddElement
  <2> QED  BY <2>1, <1>1, <1>3, <1>4
<1>6. TypeOK'
  BY <1>0, <1>1, <1>4, <1>5 DEF TypeOK, labelVars, deferVars
<1>7. FixupsInBuffer'
  <2>1. \A i \in DOMAIN taken' : end_of(taken'[i]) <= off'
    BY SMTT(60), <1>1, <1>2, <1>4
  <2>2. \A g \in fixup_records' : end_of(g) <= off'
    BY <1>1, <1>2, <1>4, <1>5
  <2> QED  BY <2>1, <2>2, <1>4 DEF FixupsInBuffer, end_of
<1>8. IslandPhases'
  BY <1>0, <1>4 DEF IslandPhases
<1> QED  BY <1>0, <1>4, <1>6, <1>7, <1>8, IslandFixupIInv

\* The loop of emit_island over the heap of fixups.
LEMMA IslandHeapIInv == ASSUME NEW f \in fixup_records PROVE IInv /\ IslandHeap(f) => IInv'
<1> SUFFICES ASSUME IInv, IslandHeap(f) PROVE IInv'
  OBVIOUS
<1> USE IInvParts
<1>0. /\ latest_branches = <<>> /\ pc = "island_heap" /\ taken = <<>>
      /\ UNCHANGED <<nlabels, labelVars, latest_branches, deferVars, taken,
                     forced_threshold, force_veneers, finishing>>
      /\ handle_fixup(f, "island_heap") /\ fixup_records' = fixup_records \ {f}
  BY DEF IslandHeap, OtherInv, IslandPhases, islandVars
<1>1. /\ f \in Fixup /\ fixup_records \in SUBSET Fixup /\ IsFiniteSet(fixup_records)
      /\ off \in Nat /\ \A g \in fixup_records : end_of(g) <= off
  BY DEF TypeOK, FixupInv, FixupsInBuffer
<1>2. \A e \in Fixup : end_of(e) \in Nat
  BY KindAssumption DEF Fixup, end_of
<1>4. /\ off' \in Nat /\ off' >= off
      /\ pending_fixup_records' \in Seq(Fixup) /\ pending_fixup_deadline' \in Nat
      /\ \A i \in DOMAIN pending_fixup_records' : end_of(pending_fixup_records'[i]) <= off'
      /\ pc' \in {"island_heap", "panic"}
  BY <1>0, <1>1, HandleFixup
<1>5. fixup_records' \in SUBSET Fixup /\ IsFiniteSet(fixup_records')
  BY <1>0, <1>1, FS_RemoveElement
<1>6. TypeOK'
  BY <1>0, <1>4, <1>5 DEF TypeOK, labelVars, deferVars
<1>7. FixupsInBuffer'
  <2>1. \A g \in fixup_records' : end_of(g) <= off'
    BY <1>0, <1>1, <1>2, <1>4
  <2> QED  BY <2>1, <1>0, <1>4 DEF FixupsInBuffer, end_of
<1>8. IslandPhases'
  BY <1>0, <1>4 DEF IslandPhases
<1> QED  BY <1>0, <1>4, <1>6, <1>7, <1>8, IslandFixupIInv

\* Binding one label leaves the others unbound.
LEMMA BindKeepsUnbound ==
    ASSUME IInv, NEW l \in Label, unbound_label(l), NEW o \in Nat, bind(l, o),
           nlabels' = nlabels
    PROVE  /\ UnusedUnbound'
           /\ \A m \in Label : m # l /\ unbound_label(m) => unbound_label(m)'
<1> USE IInvParts
<1>1. /\ \A m \in Label : label_offsets'[m] = IF m = l THEN o ELSE label_offsets[m]
      /\ o # UNKNOWN_LABEL_OFFSET /\ allocated' = allocated /\ live' = live /\ l \in allocated
  BY DEF bind, TypeOK, allocated, live, unbound_label, UNKNOWN_LABEL_OFFSET
<1>2. UnusedUnbound'
  BY <1>1 DEF OtherInv, UnusedUnbound
<1> QED  BY <1>1, <1>2 DEF unbound_label

\* The loop of emit_island over the deferred traps: each label is bound once.
LEMMA IslandTrapIInv == IInv /\ IslandTrap => IInv'
<1> SUFFICES ASSUME IInv, IslandTrap PROVE IInv'
  OBVIOUS
<1> USE IInvParts
<1>0. /\ pending_traps \in Seq(Label) /\ pending_traps # <<>> /\ off \in Nat
      /\ pending_traps' = Tail(pending_traps) /\ off' = AlignUp(off, Align) + TrapSize
      /\ bind(Head(pending_traps), AlignUp(off, Align))
      /\ UNCHANGED <<nlabels, latest_branches, pending_fixup_records,
                     pending_fixup_deadline, fixup_records, pending_constants,
                     pending_constants_size, upcoming_label, pc, islandVars>>
  BY DEF IslandTrap, TypeOK
<1> DEFINE l == Head(pending_traps)
           o == AlignUp(off, Align)
<1>1. /\ l \in Label /\ pending_traps' \in Seq(Label) /\ 1 \in DOMAIN pending_traps
      /\ l = pending_traps[1]
      /\ \A i \in DOMAIN pending_traps' :
            i + 1 \in DOMAIN pending_traps /\ i \in Nat /\ pending_traps'[i] = pending_traps[i + 1]
  <2>1. \A i \in DOMAIN Tail(pending_traps) : /\ i + 1 \in DOMAIN pending_traps /\ i \in Nat
                                              /\ Tail(pending_traps)[i] = pending_traps[i + 1]
    BY <1>0, HeadTail
  <2>2. Head(pending_traps) \in Label /\ Tail(pending_traps) \in Seq(Label)
        /\ 1 \in DOMAIN pending_traps /\ Head(pending_traps) = pending_traps[1]
    BY <1>0, HeadTail
  <2> QED  BY <1>0, <2>1, <2>2
<1>2. o \in Nat /\ o >= off /\ off' \in Nat /\ off' >= o /\ off' >= off
  <2>1. o \in Nat /\ o >= off
    BY <1>0, AlignUpNat, SizesAssumption
  <2> QED  BY <1>0, <2>1, SizesAssumption
<1>3. unbound_label(l)
  BY <1>1 DEF OtherInv, DeferredUnbound
<1> HIDE DEF o
<1>4. LabelInv' /\ NoAliasCycle'
  BY <1>0, <1>1, <1>2, <1>3, BindKeepsLabels DEF unbound_label, o
<1>5. FixupInv'
  BY <1>0, <1>2, GrowKeepsFixups DEF islandVars
<1>6. TypeOK'
  <2>1. bind(l, o)
    BY <1>0 DEF o
  <2>2. /\ label_offsets' \in [Label -> Offset] /\ labels_at_tail' \in SUBSET Label
        /\ labels_at_tail_off' \in Nat /\ label_aliases' = label_aliases
    BY <1>1, <1>2, <2>1 DEF bind, TypeOK, Offset, lazily_cleared, lazily_cleared_off
  <2> QED  BY <1>0, <1>1, <1>2, <2>2 DEF TypeOK, islandVars
<1>7. IslandPhases'
  BY <1>0 DEF OtherInv, IslandPhases, islandVars
<1>8. /\ UnusedUnbound'
      /\ \A m \in Label : m # l /\ unbound_label(m) => unbound_label(m)'
  BY <1>0, <1>1, <1>2, <1>3, BindKeepsUnbound DEF o
<1> HIDE DEF l
<1>9. DeferredUnbound'
  <2>1. /\ \A i \in DOMAIN pending_traps :
             /\ unbound_label(pending_traps[i])
             /\ \A j \in DOMAIN pending_traps : i # j => pending_traps[i] # pending_traps[j]
             /\ \A d \in Const : upcoming_label[d] # pending_traps[i]
        /\ \A d \in Const : upcoming_label[d] # UNKNOWN_LABEL =>
             /\ unbound_label(upcoming_label[d])
             /\ \A e \in Const : d # e => upcoming_label[d] # upcoming_label[e]
        /\ \A i \in DOMAIN pending_constants :
             /\ upcoming_label[pending_constants[i]] # UNKNOWN_LABEL
             /\ \A j \in DOMAIN pending_constants :
                  i # j => pending_constants[i] # pending_constants[j]
    BY DEF OtherInv, DeferredUnbound
  <2>2. \A i \in DOMAIN pending_traps' :
             /\ unbound_label(pending_traps[i])'
             /\ \A j \in DOMAIN pending_traps' : i # j => pending_traps'[i] # pending_traps'[j]
             /\ \A d \in Const : upcoming_label'[d] # pending_traps'[i]
    <3> SUFFICES ASSUME NEW i \in DOMAIN pending_traps'
                 PROVE  /\ unbound_label(pending_traps[i])'
                        /\ \A j \in DOMAIN pending_traps' : i # j => pending_traps'[i] # pending_traps'[j]
                        /\ \A d \in Const : upcoming_label'[d] # pending_traps'[i]
      OBVIOUS
    <3>1. /\ i + 1 \in DOMAIN pending_traps /\ i \in Nat /\ i + 1 # 1
          /\ pending_traps'[i] = pending_traps[i + 1] /\ pending_traps[i + 1] \in Label
          /\ pending_traps[i + 1] # l /\ unbound_label(pending_traps[i + 1])
      BY <1>0, <1>1, <2>1
    <3>2. unbound_label(pending_traps[i])'
      BY <1>8, <3>1
    <3>3. \A j \in DOMAIN pending_traps' : i # j => pending_traps'[i] # pending_traps'[j]
      BY <1>1, <2>1, <3>1
    <3>4. \A d \in Const : upcoming_label'[d] # pending_traps'[i]
      BY <1>0, <2>1, <3>1
    <3> QED  BY <3>2, <3>3, <3>4
  <2>3. \A d \in Const : upcoming_label'[d] # UNKNOWN_LABEL =>
             /\ unbound_label(upcoming_label[d])'
             /\ \A e \in Const : d # e => upcoming_label'[d] # upcoming_label'[e]
    BY <1>0, <1>1, <1>8, <2>1, DeferredType
  <2> QED  BY <1>0, <2>1, <2>2, <2>3 DEF DeferredUnbound
<1> QED  BY <1>4, <1>5, <1>6, <1>7, <1>8, <1>9, IInvParts1 DEF OtherInv

\* The loop of emit_island over the constants: each label is bound once, and
\* the constant may get a new one afterwards.
LEMMA IslandConstantIInv == IInv /\ IslandConstant => IInv'
<1> SUFFICES ASSUME IInv, IslandConstant PROVE IInv'
  OBVIOUS
<1> USE IInvParts
<1> DEFINE c == Head(pending_constants)
           o == AlignUp(off, ConstAlign[c])
           l == upcoming_label[c]
<1>0. /\ pending_constants \in Seq(Const) /\ pending_constants # <<>> /\ off \in Nat
      /\ pending_constants' = Tail(pending_constants) /\ off' = o + ConstSize[c]
      /\ bind(l, o) /\ upcoming_label' = [upcoming_label EXCEPT ![c] = UNKNOWN_LABEL]
      /\ pending_traps = <<>>
      /\ UNCHANGED <<nlabels, latest_branches, pending_fixup_records,
                     pending_fixup_deadline, fixup_records, pending_traps,
                     pending_constants_size, pc, islandVars>>
  BY DEF IslandConstant, TypeOK
<1>1. /\ c \in Const /\ pending_constants' \in Seq(Const) /\ 1 \in DOMAIN pending_constants
      /\ c = pending_constants[1]
      /\ \A i \in DOMAIN pending_constants' :
            /\ i + 1 \in DOMAIN pending_constants /\ i \in Nat
            /\ pending_constants'[i] = pending_constants[i + 1]
  <2>1. \A i \in DOMAIN Tail(pending_constants) :
            /\ i + 1 \in DOMAIN pending_constants /\ i \in Nat
            /\ Tail(pending_constants)[i] = pending_constants[i + 1]
    BY <1>0, HeadTail
  <2>2. Head(pending_constants) \in Const /\ Tail(pending_constants) \in Seq(Const)
        /\ 1 \in DOMAIN pending_constants /\ Head(pending_constants) = pending_constants[1]
    BY <1>0, HeadTail
  <2> QED  BY <1>0, <2>1, <2>2
<1>2. o \in Nat /\ o >= off /\ off' \in Nat /\ off' >= o /\ off' >= off
  <2>1. ConstAlign[c] \in Nat \ {0} /\ ConstSize[c] \in Nat
    BY <1>1, ConstAssumption
  <2>2. o \in Nat /\ o >= off
    BY <1>0, <2>1, AlignUpNat
  <2> QED  BY <1>0, <2>1, <2>2
<1>3. l # UNKNOWN_LABEL /\ unbound_label(l) /\ l \in Label
  <2>1. l # UNKNOWN_LABEL
    BY <1>1 DEF OtherInv, DeferredUnbound
  <2> QED  BY <1>1, <2>1, DeferredType DEF OtherInv, DeferredUnbound
<1>a. \A d \in Const : upcoming_label'[d] = IF d = c THEN UNKNOWN_LABEL ELSE upcoming_label[d]
  BY <1>0 DEF TypeOK
<1> HIDE DEF c, o, l
<1>4. LabelInv' /\ NoAliasCycle'
  BY <1>0, <1>2, <1>3, BindKeepsLabels DEF unbound_label
<1>5. FixupInv'
  BY <1>0, <1>2, GrowKeepsFixups DEF islandVars
<1>6. TypeOK'
  <2>2. /\ label_offsets' \in [Label -> Offset] /\ labels_at_tail' \in SUBSET Label
        /\ labels_at_tail_off' \in Nat /\ label_aliases' = label_aliases
    BY <1>0, <1>2, <1>3 DEF bind, TypeOK, Offset, lazily_cleared, lazily_cleared_off
  <2>3. upcoming_label' \in [Const -> Label \cup {UNKNOWN_LABEL}]
    BY <1>0, <1>1 DEF TypeOK
  <2> QED  BY <1>0, <1>1, <1>2, <2>2, <2>3 DEF TypeOK, islandVars
<1>7. IslandPhases'
  BY <1>0 DEF OtherInv, IslandPhases, islandVars
<1>8. /\ UnusedUnbound'
      /\ \A m \in Label : m # l /\ unbound_label(m) => unbound_label(m)'
  BY <1>0, <1>2, <1>3, BindKeepsUnbound
<1>9. DeferredUnbound'
  <2>1. /\ \A d \in Const : upcoming_label[d] # UNKNOWN_LABEL =>
             /\ unbound_label(upcoming_label[d])
             /\ \A e \in Const : d # e => upcoming_label[d] # upcoming_label[e]
        /\ \A i \in DOMAIN pending_constants :
             /\ upcoming_label[pending_constants[i]] # UNKNOWN_LABEL
             /\ \A j \in DOMAIN pending_constants :
                  i # j => pending_constants[i] # pending_constants[j]
    BY DEF OtherInv, DeferredUnbound
  <2>2. \A d \in Const : upcoming_label'[d] # UNKNOWN_LABEL =>
             /\ unbound_label(upcoming_label[d])'
             /\ \A e \in Const : d # e => upcoming_label'[d] # upcoming_label'[e]
    <3> SUFFICES ASSUME NEW d \in Const, upcoming_label'[d] # UNKNOWN_LABEL
                 PROVE  /\ unbound_label(upcoming_label[d])'
                        /\ \A e \in Const : d # e => upcoming_label'[d] # upcoming_label'[e]
      OBVIOUS
    <3>1. d # c /\ upcoming_label'[d] = upcoming_label[d] /\ upcoming_label[d] \in Label
      BY <1>a, DeferredType
    <3>2. upcoming_label[d] # l
      BY <3>1, <2>1, <1>1, <1>3 DEF l
    <3>3. unbound_label(upcoming_label[d])'
      BY <3>1, <3>2, <2>1, <1>8
    <3>4. \A e \in Const : d # e => upcoming_label'[d] # upcoming_label'[e]
      BY <1>a, <3>1, <2>1
    <3> QED  BY <3>3, <3>4
  <2>3. \A i \in DOMAIN pending_constants' :
             /\ upcoming_label'[pending_constants'[i]] # UNKNOWN_LABEL
             /\ \A j \in DOMAIN pending_constants' :
                  i # j => pending_constants'[i] # pending_constants'[j]
    <3> SUFFICES ASSUME NEW i \in DOMAIN pending_constants'
                 PROVE  /\ upcoming_label'[pending_constants'[i]] # UNKNOWN_LABEL
                        /\ \A j \in DOMAIN pending_constants' :
                             i # j => pending_constants'[i] # pending_constants'[j]
      OBVIOUS
    <3>1. /\ i + 1 \in DOMAIN pending_constants /\ i \in Nat /\ i + 1 # 1
          /\ pending_constants'[i] = pending_constants[i + 1]
          /\ pending_constants[i + 1] \in Const
      BY <1>1, DeferredType
    <3>2. pending_constants[i + 1] # c
      BY <1>1, <2>1, <3>1
    <3>3. upcoming_label'[pending_constants'[i]] # UNKNOWN_LABEL
      BY <1>a, <2>1, <3>1, <3>2
    <3>4. \A j \in DOMAIN pending_constants' :
                             i # j => pending_constants'[i] # pending_constants'[j]
      BY <1>1, <2>1, <3>1
    <3> QED  BY <3>3, <3>4
  <2>4. pending_traps' = <<>>
    BY <1>0
  <2> QED  BY <2>2, <2>3, <2>4 DEF DeferredUnbound
<1> QED  BY <1>4, <1>5, <1>6, <1>7, <1>8, <1>9, IInvParts1 DEF OtherInv

(***************************************************************************)
(* Branch editing.                                                         *)
(***************************************************************************)

\* What is known of the last branch when it may be edited.
LEMMA LastBranch ==
    ASSUME IInv, editable
    PROVE  LET n == Len(latest_branches) IN
           /\ n \in Nat /\ n >= 1 /\ DOMAIN latest_branches = 1 .. n
           /\ b = latest_branches[n] /\ b \in Branch
           /\ off \in Nat /\ b.start \in Nat /\ b.end = off /\ b.start < off
           /\ b.target \in Label
           /\ b.labels = labels_bound_at(b.start) /\ b.labels \subseteq Label
           /\ b.fixup \in 1 .. Len(pending_fixup_records)
           /\ \A j \in DOMAIN pending_fixup_records :
                 j < b.fixup => end_of(pending_fixup_records[j]) <= b.start
           /\ \A x \in live : label_offsets[x] <= b.start \/ label_offsets[x] = off
           /\ \A i \in 1 .. (n - 1) :
                 /\ latest_branches[i].start \in Nat /\ latest_branches[i].end \in Nat
                 /\ latest_branches[i].start < latest_branches[i].end
                 /\ latest_branches[i].end <= b.start
<1> USE IInvParts
<1> DEFINE n == Len(latest_branches)
<1>1. /\ n \in Nat /\ DOMAIN latest_branches = 1 .. n /\ n # 0 /\ off \in Nat
      /\ pending_fixup_records \in Seq(Fixup)
  BY DEF TypeOK, editable
<1>2. b = latest_branches[n] /\ n \in DOMAIN latest_branches
  BY <1>1 DEF b, Last
<1> HIDE DEF n
<1>3. /\ b \in Branch /\ b.start \in Nat /\ b.end \in Nat /\ b.target \in Label
      /\ b.labels \subseteq Label
  BY <1>2, BranchType
<1>4. /\ b.start < b.end /\ b.end <= off /\ b.end >= off
      /\ \A x \in live : ~(b.start < label_offsets[x] /\ label_offsets[x] < b.end)
  BY <1>2 DEF LabelInv, BranchesOrdered, editable
<1>5. b.end = off /\ b.start < off
  BY <1>1, <1>3, <1>4
<1>6. b.labels = labels_bound_at(b.start)
  BY <1>2 DEF LabelInv, LabelsAtBranch
<1>7. /\ b.fixup \in 1 .. Len(pending_fixup_records)
      /\ \A j \in DOMAIN pending_fixup_records :
            j < b.fixup => end_of(pending_fixup_records[j]) <= b.start
  BY <1>1, <1>2 DEF FixupInv, BranchFixup
<1>8. \A x \in live : label_offsets[x] \in Int /\ label_offsets[x] <= off
  BY DEF TypeOK, LabelInv, NoLabelPastTail, live, Offset, UNKNOWN_LABEL_OFFSET
<1>9. \A x \in live : label_offsets[x] <= b.start \/ label_offsets[x] = off
  BY <1>1, <1>3, <1>4, <1>5, <1>8
<1>10. \A i \in 1 .. (n - 1) :
          /\ latest_branches[i].start \in Nat /\ latest_branches[i].end \in Nat
          /\ latest_branches[i].start < latest_branches[i].end
          /\ latest_branches[i].end <= b.start
  <2> SUFFICES ASSUME NEW i \in 1 .. (n - 1)
               PROVE  /\ latest_branches[i].start \in Nat /\ latest_branches[i].end \in Nat
                      /\ latest_branches[i].start < latest_branches[i].end
                      /\ latest_branches[i].end <= b.start
    OBVIOUS
  <2>1. i \in DOMAIN latest_branches /\ i < n
    BY <1>1
  <2> QED  BY <2>1, <1>2, BranchType DEF LabelInv, BranchesOrdered
<1> QED  BY <1>1, <1>2, <1>3, <1>5, <1>6, <1>7, <1>9, <1>10 DEF n

\* truncate_last_branch moves the labels at the tail, and no other.
LEMMA TruncateLabels ==
    ASSUME IInv, editable, truncate_last_branch
    PROVE  /\ live' = live
           /\ \A x \in Label : label_offsets'[x] =
                 IF x \in live /\ label_offsets[x] = off THEN b.start ELSE label_offsets[x]
           /\ off' = b.start /\ label_aliases' = label_aliases
           /\ label_offsets' \in [Label -> Offset]
           /\ labels_at_tail' \in SUBSET Label /\ labels_at_tail_off' = off'
           /\ NoLabelPastTail' /\ LabelsAtTail'
<1> USE IInvParts
<1>1. /\ off \in Nat /\ b.start \in Nat /\ b.start < off
      /\ b.labels = labels_bound_at(b.start) /\ b.labels \subseteq Label
      /\ \A x \in live : label_offsets[x] <= b.start \/ label_offsets[x] = off
  BY LastBranch
<1>2. lazily_cleared(off) = labels_bound_at(off)
  BY DEF LabelInv, LabelsAtTail
<1>3. live' = live /\ label_aliases' = label_aliases /\ off' = b.start
  BY DEF truncate_last_branch, live
<1>4. \A x \in Label : label_offsets'[x] =
                 IF x \in live /\ label_offsets[x] = off THEN b.start ELSE label_offsets[x]
  BY <1>2 DEF truncate_last_branch, labels_bound_at, live
<1>5. label_offsets' \in [Label -> Offset]
  BY <1>1 DEF truncate_last_branch, TypeOK, Offset
<1>6. /\ labels_at_tail' = labels_bound_at(off) \cup labels_bound_at(b.start)
      /\ labels_at_tail_off' = b.start /\ labels_at_tail' \in SUBSET Label
  BY <1>1, <1>2 DEF truncate_last_branch, labels_bound_at
<1>7. NoLabelPastTail'
  <2>1. \A x \in live : label_offsets'[x] <= b.start
    BY <1>1, <1>4 DEF live
  <2> QED  BY <2>1, <1>3 DEF NoLabelPastTail
<1>8. LabelsAtTail'
  <2>1. lazily_cleared(off)' = labels_at_tail'
    BY <1>1, <1>3, <1>6 DEF lazily_cleared
  <2>2. labels_bound_at(off)' = {x \in Label : label_offsets'[x] = b.start /\ x \in live}
    BY <1>3 DEF labels_bound_at, live
  <2>3. {x \in Label : label_offsets'[x] = b.start /\ x \in live}
          = labels_bound_at(off) \cup labels_bound_at(b.start)
    BY <1>4 DEF labels_bound_at, live
  <2> QED  BY <2>1, <2>2, <2>3, <1>1, <1>3, <1>6 DEF LabelsAtTail
<1> QED  BY <1>3, <1>4, <1>5, <1>6, <1>7, <1>8

\* Different branches have different fixups, and the last branch has the last.
LEMMA BranchFixupsDiffer ==
    ASSUME IInv, NEW i \in DOMAIN latest_branches, NEW j \in DOMAIN latest_branches, i < j
    PROVE  /\ latest_branches[i].fixup \in 1 .. Len(pending_fixup_records)
           /\ latest_branches[j].fixup \in 1 .. Len(pending_fixup_records)
           /\ latest_branches[i].fixup < latest_branches[j].fixup
<1> USE IInvParts
<1> DEFINE p == latest_branches[i]
           q == latest_branches[j]
<1>1. /\ p.start \in Nat /\ p.end \in Nat /\ q.start \in Nat /\ q.end \in Nat
      /\ p.start < p.end /\ q.start < q.end /\ p.end <= q.start
  BY BranchType DEF LabelInv, BranchesOrdered
<1>2. /\ DOMAIN pending_fixup_records = 1 .. Len(pending_fixup_records)
      /\ Len(pending_fixup_records) \in Nat
  BY DEF TypeOK
<1>3. /\ p.fixup \in DOMAIN pending_fixup_records /\ q.fixup \in DOMAIN pending_fixup_records
      /\ pending_fixup_records[p.fixup].offset = p.start
      /\ pending_fixup_records[q.fixup].offset = q.start
      /\ \A x \in DOMAIN pending_fixup_records :
            x > q.fixup => pending_fixup_records[x].offset >= q.end
  BY DEF FixupInv, BranchFixup
<1> HIDE DEF p, q
<1>4. ~(p.fixup > q.fixup) /\ p.fixup # q.fixup
  BY <1>1, <1>3
<1> QED  BY <1>2, <1>3, <1>4 DEF p, q

\* The lists after the last branch and its fixup were removed; targets may
\* have been changed, as long as the branch and its fixup agree.
removed ==
    /\ latest_branches' \in Seq(Branch) /\ pending_fixup_records' \in Seq(Fixup)
    /\ Len(latest_branches') = Len(latest_branches) - 1
    /\ Len(pending_fixup_records') = b.fixup - 1
    /\ \A i \in 1 .. (Len(latest_branches) - 1) :
          /\ latest_branches'[i].start = latest_branches[i].start
          /\ latest_branches'[i].end = latest_branches[i].end
          /\ latest_branches'[i].fixup = latest_branches[i].fixup
          /\ latest_branches'[i].labels = latest_branches[i].labels
          /\ pending_fixup_records'[latest_branches[i].fixup].label = latest_branches'[i].target
    /\ \A j \in 1 .. (b.fixup - 1) :
          /\ pending_fixup_records'[j].offset = pending_fixup_records[j].offset
          /\ pending_fixup_records'[j].kind = pending_fixup_records[j].kind

\* Removing the last branch, its bytes and its fixup.
LEMMA TruncateIInv ==
    ASSUME IInv, pc = "optimize_branches", editable, truncate_last_branch, removed,
           UNCHANGED <<nlabels, pending_fixup_deadline, fixup_records, deferVars, pc, islandVars>>
    PROVE  IInv'
<1> USE IInvParts
<1> DEFINE n == Len(latest_branches)
           p == b.fixup
<1>1. /\ n \in Nat /\ n >= 1 /\ DOMAIN latest_branches = 1 .. n /\ b = latest_branches[n]
      /\ off \in Nat /\ b.start \in Nat /\ b.start < off /\ b.end = off
      /\ p \in 1 .. Len(pending_fixup_records) /\ p \in Nat
      /\ \A i \in 1 .. (n - 1) :
                 /\ latest_branches[i].start \in Nat /\ latest_branches[i].end \in Nat
                 /\ latest_branches[i].start < latest_branches[i].end
                 /\ latest_branches[i].end <= b.start
  BY LastBranch
<1>2. /\ DOMAIN latest_branches' = 1 .. (n - 1)
      /\ DOMAIN pending_fixup_records' = 1 .. (p - 1)
      /\ DOMAIN pending_fixup_records = 1 .. Len(pending_fixup_records)
      /\ \A j \in 1 .. (p - 1) : j \in DOMAIN pending_fixup_records
  <2>1. /\ Len(latest_branches') = n - 1 /\ Len(pending_fixup_records') = p - 1
        /\ latest_branches' \in Seq(Branch) /\ pending_fixup_records' \in Seq(Fixup)
    BY DEF removed
  <2>2. pending_fixup_records \in Seq(Fixup)
    BY DEF TypeOK
  <2> HIDE DEF n, p
  <2> QED  BY <1>1, <2>1, <2>2
<1>3. /\ live' = live /\ off' = b.start /\ label_aliases' = label_aliases
      /\ \A x \in Label : label_offsets'[x] =
           IF x \in live /\ label_offsets[x] = off THEN b.start ELSE label_offsets[x]
      /\ label_offsets' \in [Label -> Offset]
      /\ labels_at_tail' \in SUBSET Label /\ labels_at_tail_off' = off'
  BY TruncateLabels
<1>4. NoLabelPastTail' /\ LabelsAtTail'
  BY TruncateLabels
<1>5. /\ \A i \in 1 .. (n - 1) : /\ latest_branches'[i].start = latest_branches[i].start
                                 /\ latest_branches'[i].end = latest_branches[i].end
                                 /\ latest_branches'[i].fixup = latest_branches[i].fixup
                                 /\ latest_branches'[i].labels = latest_branches[i].labels
      /\ \A i \in 1 .. (n - 1) :
            pending_fixup_records'[latest_branches[i].fixup].label = latest_branches'[i].target
      /\ \A j \in 1 .. (p - 1) :
              /\ pending_fixup_records'[j].offset = pending_fixup_records[j].offset
              /\ end_of(pending_fixup_records'[j]) = end_of(pending_fixup_records[j])
  BY DEF end_of, removed
<1>6. \A i \in 1 .. (n - 1) : latest_branches[i].fixup \in 1 .. (p - 1)
  <2> SUFFICES ASSUME NEW i \in 1 .. (n - 1) PROVE latest_branches[i].fixup \in 1 .. (p - 1)
    OBVIOUS
  <2>1. i \in DOMAIN latest_branches /\ n \in DOMAIN latest_branches /\ i < n
    BY <1>1
  <2>2. latest_branches[i].fixup \in 1 .. Len(pending_fixup_records)
        /\ latest_branches[i].fixup < p
    BY <1>1, <2>1, BranchFixupsDiffer
  <2> QED  BY <1>1, <2>2
<1>7. pc' = "optimize_branches" /\ taken' = <<>> /\ taken = <<>> /\ fixup_records' = fixup_records
  BY DEF OtherInv, IslandPhases, islandVars
<1>8. TypeOK'
  <2>1. labels_at_tail_off' \in Nat /\ off' \in Nat
    BY <1>1, <1>3
  <2> QED  BY <2>1, <1>3 DEF TypeOK, deferVars, islandVars, removed
<1> HIDE DEF n, p
<1>9. LabelsAtBranch'
  <2> SUFFICES ASSUME NEW i \in 1 .. (n - 1)
               PROVE  latest_branches'[i].labels
                        = {x \in Label : /\ label_offsets'[x] = latest_branches'[i].start
                                         /\ label_aliases'[x] = UNKNOWN_LABEL}
    BY <1>2 DEF LabelsAtBranch, labels_bound_at
  <2>1. /\ latest_branches[i].start \in Nat /\ latest_branches[i].start < b.start
        /\ latest_branches[i].start < off
    BY SMTT(60), <1>1
  <2>2. \A x \in Label : label_offsets'[x] = latest_branches[i].start
                           <=> label_offsets[x] = latest_branches[i].start
    BY <1>1, <1>3, <2>1
  <2>3. latest_branches[i].labels = labels_bound_at(latest_branches[i].start)
    BY <1>1 DEF LabelInv, LabelsAtBranch
  <2> QED  BY <1>3, <1>5, <2>2, <2>3 DEF labels_bound_at
<1>d. n \in DOMAIN latest_branches /\ \A i \in 1 .. (n - 1) : i \in DOMAIN latest_branches
  BY <1>1
<1>10. BranchesOrdered'
  <2>1. \A i \in 1 .. (n - 1) : /\ latest_branches'[i].start < latest_branches'[i].end
                                /\ latest_branches'[i].end <= off'
    BY <1>1, <1>3, <1>5
  <2>2. \A i, j \in 1 .. (n - 1) : i < j => latest_branches'[i].end <= latest_branches'[j].start
    BY <1>d, <1>5 DEF LabelInv, BranchesOrdered
  <2>3. ASSUME NEW i \in 1 .. (n - 1), NEW x \in live
        PROVE  ~( /\ latest_branches'[i].start < label_offsets'[x]
                  /\ label_offsets'[x] < latest_branches'[i].end )
    <3>1. ~( /\ latest_branches[i].start < label_offsets[x]
             /\ label_offsets[x] < latest_branches[i].end )
      BY <1>1 DEF LabelInv, BranchesOrdered
    <3>2. latest_branches[i].end \in Nat /\ latest_branches[i].end <= b.start
      BY <1>1
    <3>3. label_offsets'[x] = b.start \/ label_offsets'[x] = label_offsets[x]
      BY <1>3 DEF live
    <3> QED  BY <1>1, <1>5, <3>1, <3>2, <3>3
  <2> QED  BY <1>2, <1>3, <2>1, <2>2, <2>3 DEF BranchesOrdered
<1>11. FixupsInBuffer'
  <2>1. \A j \in 1 .. (p - 1) : end_of(pending_fixup_records[j]) <= b.start
    BY <1>1, <1>2, LastBranch, SMTT(60) DEF p
  <2>2. \A g \in fixup_records : end_of(g) <= b.start
    BY <1>1 DEF FixupInv, HeapBeforeBranches
  <2>3. \A j \in 1 .. (p - 1) : end_of(pending_fixup_records'[j]) <= off'
    <3> SUFFICES ASSUME NEW j \in 1 .. (p - 1) PROVE end_of(pending_fixup_records'[j]) <= off'
      OBVIOUS
    <3>1. end_of(pending_fixup_records'[j]) = end_of(pending_fixup_records[j])
      BY <1>5
    <3>2. end_of(pending_fixup_records[j]) <= b.start
      BY <2>1
    <3> QED  BY <1>3, <3>1, <3>2
  <2>4. \A g \in fixup_records' : end_of(g) <= off'
    BY <1>3, <1>7, <2>2
  <2> QED  BY <1>2, <1>7, <2>3, <2>4 DEF FixupsInBuffer, end_of
<1>12. BranchFixup'
  <2> SUFFICES ASSUME NEW i \in 1 .. (n - 1)
               PROVE  LET br == latest_branches'[i] IN
            /\ br.fixup \in 1 .. (p - 1)
            /\ pending_fixup_records'[br.fixup].label = br.target
            /\ pending_fixup_records'[br.fixup].offset = br.start
            /\ \A j \in 1 .. (p - 1) :
                  /\ j < br.fixup => end_of(pending_fixup_records'[j]) <= br.start
                  /\ j > br.fixup => pending_fixup_records'[j].offset >= br.end
    BY <1>2 DEF BranchFixup, end_of
  <2> DEFINE br == latest_branches[i]
  <2>1. /\ pending_fixup_records[br.fixup].offset = br.start
        /\ \A j \in 1 .. (p - 1) :
              /\ j < br.fixup => end_of(pending_fixup_records[j]) <= br.start
              /\ j > br.fixup => pending_fixup_records[j].offset >= br.end
    <3>1. i \in DOMAIN latest_branches
      BY <1>d
    <3> QED  BY <3>1, <1>2 DEF FixupInv, BranchFixup
  <2>2. br.fixup \in 1 .. (p - 1)
    BY <1>6
  <2> QED  BY <1>5, <2>1, <2>2
<1>13. HeapBeforeBranches'
  BY <1>1, <1>2, <1>5, <1>7 DEF FixupInv, HeapBeforeBranches, end_of
<1>14. IslandPhases'
  BY <1>7 DEF IslandPhases
<1>15. UnusedUnbound' /\ DeferredUnbound'
  <2>1. /\ \A x \in Label : label_offsets'[x] = UNKNOWN_LABEL_OFFSET
                              <=> label_offsets[x] = UNKNOWN_LABEL_OFFSET
        /\ allocated' = allocated
        /\ UNCHANGED <<pending_traps, pending_constants, upcoming_label>>
    BY <1>1, <1>3 DEF allocated, deferVars, UNKNOWN_LABEL_OFFSET
  <2>2. \A x \in Label : unbound_label(x)' <=> unbound_label(x)
    BY <1>3, <2>1 DEF unbound_label
  <2>3. UnusedUnbound'
    BY <1>3, <2>1 DEF OtherInv, UnusedUnbound
  <2> QED  BY <2>1, <2>2, <2>3, DeferredType DEF OtherInv, DeferredUnbound
<1>16. NoAliasCycle'
  BY <1>3 DEF NoAliasCycle
<1> QED
  BY <1>4, <1>8, <1>9, <1>10, <1>11, <1>12, <1>13, <1>14, <1>15, <1>16, IInvParts1
     DEF LabelInv, FixupInv, OtherInv

\* The shortened lists, before any target is changed.
LEMMA TruncatedLists ==
    ASSUME IInv, editable
    PROVE  LET n == Len(latest_branches) IN
           /\ truncated_branches \in Seq(Branch) /\ Len(truncated_branches) = n - 1
           /\ truncated_fixups \in Seq(Fixup) /\ Len(truncated_fixups) = b.fixup - 1
           /\ \A i \in 1 .. (n - 1) :
                 /\ truncated_branches[i] = latest_branches[i]
                 /\ latest_branches[i].fixup \in 1 .. (b.fixup - 1)
                 /\ truncated_fixups[latest_branches[i].fixup].label = latest_branches[i].target
           /\ \A j \in 1 .. (b.fixup - 1) : truncated_fixups[j] = pending_fixup_records[j]
<1> USE IInvParts
<1> DEFINE n == Len(latest_branches)
           p == b.fixup
           len == Len(pending_fixup_records)
<1>1. /\ n \in Nat /\ n >= 1 /\ DOMAIN latest_branches = 1 .. n /\ b = latest_branches[n]
      /\ p \in 1 .. len
  BY LastBranch
<1>2. /\ latest_branches \in Seq(Branch) /\ pending_fixup_records \in Seq(Fixup)
      /\ len \in Nat
  BY DEF TypeOK
<1>3. /\ n - 1 \in Nat /\ n - 1 <= n /\ p - 1 \in Nat /\ p - 1 <= len
  <2> HIDE DEF n, p, len
  <2> QED  BY <1>1, <1>2
<1>4. /\ truncated_branches \in Seq(Branch) /\ Len(truncated_branches) = n - 1
      /\ \A i \in 1 .. (n - 1) : truncated_branches[i] = latest_branches[i]
  BY <1>2, <1>3, PrefixType DEF truncated_branches, Front
<1>5. /\ truncated_fixups \in Seq(Fixup) /\ Len(truncated_fixups) = p - 1
      /\ \A j \in 1 .. (p - 1) : truncated_fixups[j] = pending_fixup_records[j]
  BY <1>2, <1>3, PrefixType DEF truncated_fixups
<1>6. ASSUME NEW i \in 1 .. (n - 1)
      PROVE  /\ latest_branches[i].fixup \in 1 .. (p - 1)
             /\ truncated_fixups[latest_branches[i].fixup].label = latest_branches[i].target
  <2> HIDE DEF n, p, len
  <2>1. i \in DOMAIN latest_branches /\ n \in DOMAIN latest_branches /\ i < n
    BY <1>1
  <2>2. latest_branches[i].fixup \in 1 .. len /\ latest_branches[i].fixup < p
    BY <1>1, <2>1, BranchFixupsDiffer DEF p, len
  <2>3. latest_branches[i].fixup \in 1 .. (p - 1)
    BY <1>1, <1>2, <2>2
  <2>4. pending_fixup_records[latest_branches[i].fixup].label = latest_branches[i].target
    BY <2>1 DEF FixupInv, BranchFixup
  <2> QED  BY <2>3, <2>4, <1>5
<1> QED  BY <1>4, <1>5, <1>6

\* optimize_branches: a branch to the tail, or one that follows an unconditional
\* branch and has no label, is dropped.
LEMMA OptTruncateIInv == IInv /\ OptTruncate => IInv'
<1> SUFFICES ASSUME IInv, OptTruncate PROVE IInv'
  OBVIOUS
<1>1. editable
  BY DEF OptTruncate, branch_to_tail, uncond_after_uncond, has_prev, redirectable
<1>2. removed
  <2>1. latest_branches' = truncated_branches /\ pending_fixup_records' = truncated_fixups
    BY DEF OptTruncate
  <2> QED  BY <1>1, <2>1, TruncatedLists DEF removed
<1> QED  BY <1>1, <1>2, TruncateIInv DEF OptTruncate

\* optimize_branches: a conditional branch around the last branch is inverted
\* and takes over its target; so does its fixup.
LEMMA OptInvertIInv == IInv /\ OptInvert => IInv'
<1> SUFFICES ASSUME IInv, OptInvert PROVE IInv'
  OBVIOUS
<1> DEFINE n == Len(latest_branches)
           m == n - 1
           T == truncated_branches
           F == truncated_fixups
           q == prev_b.fixup
           newb == [T[m] EXCEPT !.target = b.target]
           newf == [F[q] EXCEPT !.label = b.target]
<1>1. editable /\ n > 1
  BY DEF OptInvert, cond_around_uncond, has_prev, redirectable
<1>2. /\ T \in Seq(Branch) /\ Len(T) = m /\ F \in Seq(Fixup) /\ Len(F) = b.fixup - 1
      /\ \A i \in 1 .. m :
            /\ T[i] = latest_branches[i] /\ latest_branches[i].fixup \in 1 .. (b.fixup - 1)
            /\ F[latest_branches[i].fixup].label = latest_branches[i].target
      /\ \A j \in 1 .. (b.fixup - 1) : F[j] = pending_fixup_records[j]
  BY <1>1, TruncatedLists
<1>3. n \in Nat /\ DOMAIN latest_branches = 1 .. n /\ b.target \in Label /\ b.fixup \in Nat
  BY <1>1, LastBranch, IInvParts DEF TypeOK
<1>4. m \in Nat /\ m \in 1 .. m /\ m \in 1 .. Len(T)
  <2>1. m \in Nat /\ m >= 1
    BY <1>1, <1>3
  <2> HIDE DEF m
  <2> QED  BY <2>1, <1>2
<1>5. /\ prev_b = latest_branches[m] /\ T[m] = prev_b /\ prev_b \in Branch
      /\ q \in 1 .. (b.fixup - 1) /\ q \in 1 .. Len(F) /\ F[q] \in Fixup
  <2>1. prev_b = latest_branches[m]
    BY DEF prev_b
  <2>2. T[m] = prev_b /\ q \in 1 .. (b.fixup - 1) /\ q \in 1 .. Len(F)
    BY <1>2, <1>4, <2>1
  <2>3. T[m] \in Branch /\ F[q] \in Fixup
    BY <1>2, <1>4, <2>2
  <2> QED  BY <2>1, <2>2, <2>3
<1>6. /\ newb \in Branch /\ newb.start = prev_b.start /\ newb.end = prev_b.end
      /\ newb.fixup = q /\ newb.labels = prev_b.labels /\ newb.target = b.target
  BY <1>3, <1>5 DEF Branch
<1>7. /\ newf \in Fixup /\ newf.offset = F[q].offset /\ newf.kind = F[q].kind
      /\ newf.label = b.target
  BY <1>3, <1>5 DEF Fixup
<1>8. /\ latest_branches' = [T EXCEPT ![m] = newb]
      /\ pending_fixup_records' = [F EXCEPT ![q] = newf]
  BY DEF OptInvert
<1> HIDE DEF newb, newf, T, F, q
<1>9. /\ latest_branches' \in Seq(Branch) /\ Len(latest_branches') = m
      /\ \A i \in 1 .. m : latest_branches'[i] = IF i = m THEN newb ELSE T[i]
  BY <1>2, <1>4, <1>6, <1>8, ExceptType
<1>10. /\ pending_fixup_records' \in Seq(Fixup) /\ Len(pending_fixup_records') = b.fixup - 1
       /\ \A j \in 1 .. (b.fixup - 1) :
             pending_fixup_records'[j] = IF j = q THEN newf ELSE F[j]
  BY <1>2, <1>5, <1>7, <1>8, ExceptType
<1> HIDE DEF m
<1>11. removed
  <2>1. \A i \in 1 .. m :
          /\ latest_branches'[i].start = latest_branches[i].start
          /\ latest_branches'[i].end = latest_branches[i].end
          /\ latest_branches'[i].fixup = latest_branches[i].fixup
          /\ latest_branches'[i].labels = latest_branches[i].labels
    BY <1>2, <1>5, <1>6, <1>9 DEF q
  <2>2. ASSUME NEW i \in 1 .. m
        PROVE  pending_fixup_records'[latest_branches[i].fixup].label = latest_branches'[i].target
    <3>1. CASE i = m
      BY <3>1, <1>4, <1>5, <1>6, <1>7, <1>9, <1>10 DEF q
    <3>2. CASE i # m
      <4>1. i \in DOMAIN latest_branches /\ m \in DOMAIN latest_branches /\ i < m
        <5> HIDE DEF n
        <5>1. i \in 1 .. n /\ m \in 1 .. n /\ i < m
          BY <3>2, <1>3, <1>4 DEF m
        <5> QED  BY <5>1, <1>3
      <4>2. latest_branches[i].fixup # q
        <5>1. /\ latest_branches[i].fixup \in 1 .. Len(pending_fixup_records)
              /\ latest_branches[i].fixup < latest_branches[m].fixup
          BY <4>1, BranchFixupsDiffer
        <5>2. latest_branches[m].fixup = q /\ q \in 1 .. (b.fixup - 1)
          BY <1>5 DEF q
        <5> QED  BY <5>1, <5>2
      <4>3. latest_branches[i].fixup \in 1 .. (b.fixup - 1)
        BY <1>2
      <4>4. pending_fixup_records'[latest_branches[i].fixup] = F[latest_branches[i].fixup]
        BY <4>2, <4>3, <1>10
      <4>5. latest_branches'[i] = latest_branches[i]
        BY <3>2, <1>2, <1>9
      <4> QED  BY <4>4, <4>5, <1>2
    <3> QED  BY <3>1, <3>2
  <2>3. \A j \in 1 .. (b.fixup - 1) :
          /\ pending_fixup_records'[j].offset = pending_fixup_records[j].offset
          /\ pending_fixup_records'[j].kind = pending_fixup_records[j].kind
    BY <1>2, <1>7, <1>10
  <2> QED  BY <2>1, <2>2, <2>3, <1>9, <1>10 DEF removed, m
<1> QED  BY <1>1, <1>11, TruncateIInv DEF OptInvert

(***************************************************************************)
(* Aliases.                                                                *)
(***************************************************************************)

\* Aliases that form no cycle, and a recursion along them.
Aliases(alias) ==
    /\ alias \in [Label -> Label \cup {UNKNOWN_LABEL}]
    /\ \A S \in SUBSET Label : S # {} => \E l \in S : alias[l] \notin S
Along(alias, base, r) ==
    r = [l \in Label |-> IF alias[l] = UNKNOWN_LABEL THEN base[l] ELSE r[alias[l]]]

\* The recursion is well founded: it defines a value for every label.
LEMMA AliasRecursion ==
    ASSUME NEW alias, Aliases(alias), NEW Value, NEW base \in [Label -> Value]
    PROVE  \E r : Along(alias, base, r)
<1>1. /\ UNKNOWN_LABEL \notin Label /\ alias \in [Label -> Label \cup {UNKNOWN_LABEL}]
      /\ \A S \in SUBSET Label : S # {} => \E l \in S : alias[l] \notin S
  BY DEF Label, UNKNOWN_LABEL, Aliases
\* r gives every label of S its value, and S is closed under aliases.
<1> DEFINE Solves(r, S) ==
              \A l \in S : \/ /\ alias[l] = UNKNOWN_LABEL /\ r[l] = base[l]
                           \/ /\ alias[l] \in S /\ r[l] = r[alias[l]]
           Good == {S \in SUBSET Label : \E r \in [Label -> Value] : Solves(r, S)}
           G == UNION Good
<1>2. ASSUME NEW S \in SUBSET Label, NEW T \in SUBSET Label,
             NEW r, NEW q, Solves(r, S), Solves(q, T), NEW l \in S \cap T
      PROVE  r[l] = q[l]
  <2> DEFINE D == {x \in S \cap T : r[x] # q[x]}
  <2>1. \A x \in D : alias[x] \in D
    BY <1>1, <1>2
  <2>2. D = {}
    <3>1. D \in SUBSET Label
      OBVIOUS
    <3> HIDE DEF D
    <3> QED  BY <1>1, <2>1, <3>1
  <2> QED  BY <2>2
<1> DEFINE value(l) == CHOOSE v \in Value :
                          \E S \in Good : l \in S /\ \E r \in [Label -> Value] :
                                                        Solves(r, S) /\ v = r[l]
           g == [l \in Label |-> IF l \in G THEN value(l) ELSE base[l]]
<1>3. ASSUME NEW S \in SUBSET Label, NEW r \in [Label -> Value], Solves(r, S), NEW l \in S
      PROVE  l \in G /\ g[l] = r[l]
  <2>1. S \in Good /\ l \in G /\ l \in Label
    BY <1>3
  <2>2. r[l] \in Value
    BY <2>1
  <2>3. \E v \in Value : \E T \in Good : l \in T /\ \E q \in [Label -> Value] :
                                                        Solves(q, T) /\ v = q[l]
    BY <1>3, <2>1, <2>2
  <2>4. PICK T \in Good, q \in [Label -> Value] : l \in T /\ Solves(q, T) /\ value(l) = q[l]
    <3> HIDE DEF Good, Solves
    <3> QED  BY <2>3
  <2>5. q[l] = r[l]
    <3>1. T \in SUBSET Label /\ l \in T /\ Solves(q, T)
      BY <2>4
    <3> HIDE DEF Solves
    <3> QED  BY <3>1, <1>2, <1>3
  <2> QED  BY <2>1, <2>4, <2>5
<1>4. Solves(g, G)
  <2> SUFFICES ASSUME NEW l \in G
               PROVE  \/ /\ alias[l] = UNKNOWN_LABEL /\ g[l] = base[l]
                      \/ /\ alias[l] \in G /\ g[l] = g[alias[l]]
    OBVIOUS
  <2>1. PICK S \in Good : l \in S
    OBVIOUS
  <2>2. PICK r \in [Label -> Value] : Solves(r, S)
    OBVIOUS
  <2>3. \A x \in S : x \in G /\ g[x] = r[x]
    <3> HIDE DEF Solves, g, G
    <3>1. S \in SUBSET Label
      OBVIOUS
    <3> QED  BY <2>2, <3>1, <1>3
  <2> HIDE DEF g, G, Good
  <2> QED  BY <2>1, <2>2, <2>3
<1>5. G = Label
  <2> SUFFICES ASSUME Label \ G # {} PROVE FALSE
    OBVIOUS
  <2>1. PICK l \in Label \ G : alias[l] \notin Label \ G
    <3> HIDE DEF G
    <3>1. Label \ G \in SUBSET Label
      OBVIOUS
    <3> QED  BY <1>1, <3>1
  <2>2. alias[l] = UNKNOWN_LABEL \/ alias[l] \in G
    BY <1>1, <2>1
  <2> DEFINE h == [g EXCEPT ![l] = IF alias[l] = UNKNOWN_LABEL
                                   THEN base[l] ELSE g[alias[l]]]
             H == G \cup {l}
  <2>3. G \in SUBSET Label
    OBVIOUS
  <2>4. g \in [Label -> Value]
    <3>1. \A x \in Label : x \in G => value(x) \in Value
      <4> SUFFICES ASSUME NEW x \in Label, x \in G PROVE value(x) \in Value
        OBVIOUS
      <4>1. PICK S \in Good : x \in S
        OBVIOUS
      <4>2. PICK r \in [Label -> Value] : Solves(r, S)
        OBVIOUS
      <4>3. g[x] = r[x] /\ r[x] \in Value
        <5> HIDE DEF Solves, g, G
        <5>1. S \in SUBSET Label
          OBVIOUS
        <5> QED  BY <4>1, <4>2, <5>1, <1>3
      <4>4. g[x] = value(x)
        <5> HIDE DEF value, G
        <5> QED  OBVIOUS
      <4> HIDE DEF value, g
      <4> QED  BY <4>3, <4>4
    <3> HIDE DEF value, G
    <3> QED  BY <3>1
  <2> HIDE DEF g, G, Good
  <2>5. h \in [Label -> Value]
    BY <1>1, <2>1, <2>2, <2>3, <2>4
  <2>6. h[l] = IF alias[l] = UNKNOWN_LABEL
               THEN base[l] ELSE g[alias[l]]
    BY <2>1, <2>4
  <2>7. \A x \in G : h[x] = g[x] /\ x # l
    BY <2>1, <2>3, <2>4
  <2> HIDE DEF h
  <2>8. Solves(h, H)
    BY <1>1, <1>4, <2>2, <2>6, <2>7
  <2>9. H \in Good
    BY <2>1, <2>3, <2>5, <2>8 DEF Good
  <2> QED  BY <2>1, <2>9 DEF G
<1>6. g = [l \in Label |-> IF alias[l] = UNKNOWN_LABEL
                           THEN base[l] ELSE g[alias[l]]]
  <2>1. \A l \in Label : g[l] = IF alias[l] = UNKNOWN_LABEL
                                THEN base[l] ELSE g[alias[l]]
    <3> HIDE DEF g, G
    <3> QED  BY <1>1, <1>4, <1>5
  <2>2. g = [l \in Label |-> g[l]]
    <3> HIDE DEF value, G
    <3> QED  OBVIOUS
  <2> HIDE DEF g
  <2> QED  BY <2>1, <2>2
<1> HIDE DEF g
<1> QED  BY <1>6 DEF Along

\* The equation resolve_label_offset satisfies when no aliases form a cycle.
LEMMA ResolveValue ==
    ASSUME TypeOK, NoAliasCycle
    PROVE  \A l \in Label :
             resolve_label_offset[l] = IF label_aliases[l] = UNKNOWN_LABEL
                                       THEN label_offsets[l]
                                       ELSE resolve_label_offset[label_aliases[l]]
<1>1. Aliases(label_aliases) /\ label_offsets \in [Label -> Offset]
  BY DEF Aliases, TypeOK, NoAliasCycle
<1>2. \E r : Along(label_aliases, label_offsets, r)
  BY <1>1, AliasRecursion
<1>3. resolve_label_offset = CHOOSE r : Along(label_aliases, label_offsets, r)
  BY DEF resolve_label_offset, Along
<1>4. Along(label_aliases, label_offsets, resolve_label_offset)
  BY <1>2, <1>3
<1> QED  BY <1>4 DEF Along

\* optimize_branches: labels of an unconditional branch become aliases of its
\* target.  No cycle arises, since the target does not resolve to the branch.
LEMMA OptRedirectIInv == IInv /\ OptRedirect => IInv'
<1> SUFFICES ASSUME IInv, OptRedirect PROVE IInv'
  OBVIOUS
<1> USE IInvParts
<1> DEFINE n == Len(latest_branches)
           newb == [b EXCEPT !.labels = {}]
<1>0. /\ editable /\ resolve_label_offset[b.target] # b.start
      /\ UNCHANGED <<off, nlabels, label_offsets, labels_at_tail, labels_at_tail_off,
                     pending_fixup_records, pending_fixup_deadline, fixup_records,
                     deferVars, pc, islandVars>>
      /\ pc = "optimize_branches"
  BY DEF OptRedirect, redirects, redirectable
<1>1. /\ n \in Nat /\ n >= 1 /\ DOMAIN latest_branches = 1 .. n
      /\ b = latest_branches[n] /\ b \in Branch
      /\ off \in Nat /\ b.start \in Nat /\ b.end = off /\ b.start < off
      /\ b.target \in Label
      /\ b.labels = labels_bound_at(b.start) /\ b.labels \subseteq Label
      /\ \A i \in 1 .. (n - 1) :
                 /\ latest_branches[i].start \in Nat /\ latest_branches[i].end \in Nat
                 /\ latest_branches[i].start < latest_branches[i].end
                 /\ latest_branches[i].end <= b.start
  BY <1>0, LastBranch
<1>2. /\ newb \in Branch /\ newb.start = b.start /\ newb.end = b.end /\ newb.target = b.target
      /\ newb.fixup = b.fixup /\ newb.labels = {}
  BY <1>1 DEF Branch
<1>3. latest_branches \in Seq(Branch)
      /\ latest_branches' = [latest_branches EXCEPT ![n] = newb]
  BY <1>1 DEF OptRedirect, TypeOK
<1> HIDE DEF newb
<1>4. /\ latest_branches' \in Seq(Branch) /\ DOMAIN latest_branches' = 1 .. n
      /\ \A i \in 1 .. n : latest_branches'[i] = IF i = n THEN newb ELSE latest_branches[i]
  BY <1>1, <1>2, <1>3, ExceptType
<1> HIDE DEF n
<1>5. \A x \in Label : label_aliases'[x] = IF x \in b.labels THEN b.target ELSE label_aliases[x]
  BY DEF OptRedirect
<1>6. label_aliases' \in [Label -> Label \cup {UNKNOWN_LABEL}]
  BY <1>1 DEF OptRedirect, TypeOK
<1>7. UNKNOWN_LABEL \notin Label
  BY DEF Label, UNKNOWN_LABEL
<1>8. live' = live \ b.labels
  BY <1>1, <1>5, <1>7 DEF live
<1>9. \A o \in Nat : o # b.start => labels_bound_at(o)' = labels_bound_at(o)
  <2> SUFFICES ASSUME NEW o \in Nat, o # b.start
               PROVE  \A x \in Label : label_offsets'[x] = o /\ label_aliases'[x] = UNKNOWN_LABEL
                         <=> label_offsets[x] = o /\ label_aliases[x] = UNKNOWN_LABEL
    BY DEF labels_bound_at
  <2>1. \A x \in b.labels : label_offsets[x] = b.start
    BY <1>1 DEF labels_bound_at
  <2> QED  BY <1>0, <1>1, <1>5, <1>7, <2>1
<1>10. TypeOK'
  BY <1>0, <1>4, <1>6 DEF TypeOK, deferVars, islandVars
<1>11. LabelInv'
  <2>1. NoLabelPastTail'
    BY <1>0, <1>8 DEF LabelInv, NoLabelPastTail
  <2>2. LabelsAtTail'
    <3>1. labels_bound_at(off)' = labels_bound_at(off)
      BY <1>0, <1>1, <1>9
    <3>2. lazily_cleared(off)' = lazily_cleared(off)
      BY <1>0 DEF lazily_cleared
    <3> QED  BY <1>0, <3>1, <3>2 DEF LabelInv, LabelsAtTail
  <2>3. LabelsAtBranch'
    <3> SUFFICES ASSUME NEW i \in 1 .. n
                 PROVE  latest_branches'[i].labels
                          = {x \in Label : /\ label_offsets'[x] = latest_branches'[i].start
                                           /\ label_aliases'[x] = UNKNOWN_LABEL}
      BY <1>4 DEF LabelsAtBranch, labels_bound_at
    <3>1. CASE i = n
      <4>1. latest_branches'[i].labels = {} /\ latest_branches'[i].start = b.start
        BY <3>1, <1>2, <1>4
      <4>2. \A x \in Label : label_offsets'[x] = b.start /\ label_aliases'[x] = UNKNOWN_LABEL
                                => FALSE
        BY <1>0, <1>1, <1>5, <1>7 DEF labels_bound_at
      <4> QED  BY <4>1, <4>2
    <3>2. CASE i # n
      <4>1. i \in 1 .. (n - 1) /\ latest_branches'[i] = latest_branches[i]
        BY <3>2, <1>1, <1>4
      <4>2. latest_branches[i].start \in Nat /\ latest_branches[i].start # b.start
        BY <4>1, <1>1
      <4>3. latest_branches[i].labels = labels_bound_at(latest_branches[i].start)
        BY <1>1 DEF LabelInv, LabelsAtBranch
      <4>4. \A x \in Label :
               label_offsets'[x] = latest_branches[i].start /\ label_aliases'[x] = UNKNOWN_LABEL
               <=> label_offsets[x] = latest_branches[i].start /\ label_aliases[x] = UNKNOWN_LABEL
        <5>1. \A x \in b.labels : label_offsets[x] = b.start
          BY <1>1 DEF labels_bound_at
        <5> QED  BY <1>0, <1>5, <1>7, <1>1, <4>2, <5>1
      <4> QED  BY <4>1, <4>3, <4>4 DEF labels_bound_at
    <3> QED  BY <3>1, <3>2
  <2>4. BranchesOrdered'
    <3>1. \A i \in 1 .. n : /\ latest_branches'[i].start = latest_branches[i].start
                            /\ latest_branches'[i].end = latest_branches[i].end
      BY <1>1, <1>2, <1>4
    <3>2. \A i \in 1 .. n :
            /\ latest_branches[i].start < latest_branches[i].end
            /\ latest_branches[i].end <= off
            /\ \A j \in 1 .. n : i < j => latest_branches[i].end <= latest_branches[j].start
            /\ \A x \in live : ~( /\ latest_branches[i].start < label_offsets[x]
                                  /\ label_offsets[x] < latest_branches[i].end )
      BY <1>1 DEF LabelInv, BranchesOrdered
    <3> QED  BY <1>0, <1>4, <1>8, <3>1, <3>2 DEF BranchesOrdered
  <2> QED  BY <2>1, <2>2, <2>3, <2>4 DEF LabelInv
<1>12. FixupInv'
  <2>1. \A i \in 1 .. n : /\ latest_branches'[i].start = latest_branches[i].start
                          /\ latest_branches'[i].end = latest_branches[i].end
                          /\ latest_branches'[i].fixup = latest_branches[i].fixup
                          /\ latest_branches'[i].target = latest_branches[i].target
    BY <1>1, <1>2, <1>4
  <2>2. FixupsInBuffer'
    BY <1>0 DEF FixupInv, FixupsInBuffer, end_of, islandVars
  <2>3. BranchFixup'
    <3>1. \A i \in 1 .. n :
            LET br == latest_branches[i] IN
            /\ br.fixup \in DOMAIN pending_fixup_records
            /\ pending_fixup_records[br.fixup].label = br.target
            /\ pending_fixup_records[br.fixup].offset = br.start
            /\ \A j \in DOMAIN pending_fixup_records :
                  /\ j < br.fixup => end_of(pending_fixup_records[j]) <= br.start
                  /\ j > br.fixup => pending_fixup_records[j].offset >= br.end
      BY <1>1 DEF FixupInv, BranchFixup
    <3>2. pending_fixup_records' = pending_fixup_records
      BY <1>0
    <3> QED  BY <1>4, <2>1, <3>1, <3>2 DEF BranchFixup, end_of
  <2>4. HeapBeforeBranches'
    BY <1>0, <1>1, <1>4, <2>1 DEF FixupInv, HeapBeforeBranches, end_of
  <2> QED  BY <2>2, <2>3, <2>4 DEF FixupInv
<1>13. OtherInv'
  <2>1. IslandPhases'
    BY <1>0 DEF OtherInv, IslandPhases, islandVars
  <2>2. \A x \in b.labels : label_offsets[x] # UNKNOWN_LABEL_OFFSET
    BY <1>1 DEF labels_bound_at, UNKNOWN_LABEL_OFFSET
  <2>3. UnusedUnbound'
    BY <1>0, <1>8, <2>2 DEF OtherInv, UnusedUnbound, allocated
  <2>4. \A x \in Label : unbound_label(x) => unbound_label(x)'
    BY <1>0, <1>8, <2>2 DEF unbound_label, allocated
  <2>5. UNCHANGED <<pending_traps, pending_constants, upcoming_label>>
    BY <1>0 DEF deferVars
  <2>6. DeferredUnbound'
    BY <2>4, <2>5, DeferredType DEF OtherInv, DeferredUnbound
  <2> QED  BY <2>1, <2>3, <2>6 DEF OtherInv
<1>14. NoAliasCycle'
  <2> SUFFICES ASSUME NEW S \in SUBSET Label, S # {}, \A x \in S : label_aliases'[x] \in S
               PROVE  FALSE
    BY DEF NoAliasCycle
  <2> DEFINE t == b.target
             D == {x \in S : resolve_label_offset[x] # b.start}
  <2>1. \A x \in Label : resolve_label_offset[x] = IF label_aliases[x] = UNKNOWN_LABEL
                                       THEN label_offsets[x]
                                       ELSE resolve_label_offset[label_aliases[x]]
    BY ResolveValue
  <2>2. \A x \in b.labels : resolve_label_offset[x] = b.start
    BY <1>1, <2>1 DEF labels_bound_at
  <2>3. t \in S
    <3>1. CASE S \cap b.labels = {}
      <4>1. \A x \in S : label_aliases[x] \in S
        BY <3>1, <1>5
      <4> QED  BY <4>1 DEF NoAliasCycle
    <3>2. CASE S \cap b.labels # {}
      BY <3>2, <1>5
    <3> QED  BY <3>1, <3>2
  <2>4. t \in D
    BY <2>3, <1>0
  <2>5. \A x \in D : label_aliases[x] \in D
    BY <2>1, <2>2, <1>5, <1>7
  <2>6. D \in SUBSET Label
    OBVIOUS
  <2> HIDE DEF D
  <2> QED  BY <2>4, <2>5, <2>6 DEF NoAliasCycle
<1> QED  BY <1>10, <1>11, <1>12, <1>13, <1>14, IInvParts1

(***************************************************************************)
(* The invariant, and what follows from it.                                *)
(***************************************************************************)

\* A step that changes nothing keeps the invariant.
LEMMA StutterIInv == IInv /\ UNCHANGED vars => IInv'
<1> SUFFICES ASSUME IInv, UNCHANGED vars PROVE IInv'
  OBVIOUS
<1>1. TypeOK'
  BY IInvParts DEF vars, TypeOK, labelVars, deferVars, islandVars
<1>2. IslandPhases'
  BY IInvParts DEF vars, OtherInv, IslandPhases, islandVars
<1> QED  BY <1>1, <1>2, ControlIInv DEF vars, islandVars

\* Every step of the buffer keeps the invariant.
LEMMA NextIInv == IInv /\ [Next]_vars => IInv'
<1> SUFFICES ASSUME IInv, [Next]_vars PROVE IInv'
  OBVIOUS
<1>1. CASE ClientCall
  <2>1. CASE GetLabel \/ defer_trap \/ OptimizeBranches
    BY <2>1, GetLabelIInv, DeferTrapIInv, OptimizeBranchesIInv
  <2>2. CASE \E l \in Label : BindLabel(l)
    BY <2>2, BindLabelIInv
  <2>3. CASE \E n \in Sizes : Put(n)
    BY <2>3, PutIInv, SizesAssumption
  <2>4. ASSUME NEW l \in Label, NEW k \in ClientKind, NEW n \in Sizes,
               \/ UseLabel(l, k, n) \/ add_uncond_branch(l, k, n) \/ add_cond_branch(l, k, n)
        PROVE  IInv'
    BY <2>4, UseLabelIInv, AddBranchIInv, SizesAssumption DEF add_uncond_branch, add_cond_branch
  <2>5. CASE \E c \in Const : get_label_for_constant(c)
    BY <2>5, GetLabelForConstantIInv
  <2>6. CASE \E d \in Distances, force \in Forces : EmitIsland(d, force)
    BY <2>6, EmitIslandIInv, SizesAssumption
  <2>7. CASE \E force \in Forces : Finish(force)
    BY <2>7, FinishIInv, SizesAssumption
  <2> QED  BY <1>1, <2>1, <2>2, <2>3, <2>4, <2>5, <2>6, <2>7 DEF ClientCall
<1>2. CASE OptStep
  BY <1>2, OptTruncateIInv, OptRedirectIInv, OptInvertIInv, OptDoneIInv DEF OptStep
<1>3. CASE IslandStep
  BY <1>3, IslandPendingIInv, IslandPendingDoneIInv, IslandHeapIInv, IslandHeapDoneIInv,
     IslandTrapIInv, IslandConstantIInv, IslandDoneIInv DEF IslandStep
<1>4. CASE FinishStep
  BY <1>4, FinishIslandIInv, FinishDoneIInv DEF FinishStep
<1>5. CASE UNCHANGED vars
  BY <1>5, StutterIInv
<1> QED  BY <1>1, <1>2, <1>3, <1>4, <1>5 DEF Next, Internal, Stopped

(***************************************************************************)
(* A finished buffer has a place for every label.                          *)
(***************************************************************************)

\* Labels handed out stay handed out.
LEMMA AllocatedGrows ==
    ASSUME nlabels \in Int, nlabels' \in Int, nlabels' >= nlabels
    PROVE  \A x \in allocated : x \in allocated'
<1>1. \A x : x \in allocated <=> x \in Int /\ 0 <= x /\ x <= nlabels - 1
  BY DEF allocated
<1>2. \A x : x \in allocated' <=> x \in Int /\ 0 <= x /\ x <= nlabels' - 1
  BY DEF allocated
<1> QED  BY <1>1, <1>2

\* What branches and aliases lead to stays handed out.
LEMMA TargetsKept ==
    ASSUME TypeOK, TargetsAllocated, nlabels' \in Int, nlabels' >= nlabels,
           UNCHANGED label_aliases, latest_branches' \in {latest_branches, <<>>}
    PROVE  TargetsAllocated'
<1>1. nlabels \in Int
  BY SizesAssumption DEF TypeOK
<1>2. \A x \in allocated : x \in allocated'
  BY <1>1, AllocatedGrows
<1> QED  BY <1>2 DEF TargetsAllocated

\* Branches and aliases lead to labels that were handed out, after every step.
LEMMA NextTargets == IInv /\ TargetsAllocated /\ [Next]_vars => TargetsAllocated'
<1> SUFFICES ASSUME IInv, TargetsAllocated, [Next]_vars PROVE TargetsAllocated'
  OBVIOUS
<1> USE IInvParts
<1>0. nlabels \in Nat /\ latest_branches \in Seq(Branch)
  BY DEF TypeOK
<1>1. CASE ClientCall
  <2>1. ASSUME NEW l \in Label, NEW k \in ClientKind, NEW n \in Sizes, NEW cond,
               AddBranch(l, k, n, cond)
        PROVE  TargetsAllocated'
    <3>1. l \in allocated /\ allocated' = allocated /\ label_aliases' = label_aliases
      BY <2>1 DEF AddBranch, allocated
    <3>2. PICK br : br.target = l /\ latest_branches' = Append(latest_branches, br)
      BY <2>1 DEF AddBranch
    <3>3. \A i \in DOMAIN latest_branches' :
             \/ i \in DOMAIN latest_branches /\ latest_branches'[i] = latest_branches[i]
             \/ latest_branches'[i] = br
      BY <1>0, <3>2
    <3> QED  BY <3>1, <3>2, <3>3 DEF TargetsAllocated
  <2>2. CASE \E l \in Label, k \in ClientKind, n \in Sizes :
                add_uncond_branch(l, k, n) \/ add_cond_branch(l, k, n)
    BY <2>1, <2>2 DEF add_uncond_branch, add_cond_branch
  <2>3. CASE GetLabel \/ defer_trap \/ \E c \in Const : get_label_for_constant(c)
    BY <1>0, <2>3, TargetsKept DEF GetLabel, defer_trap, get_label_for_constant, labelVars
  <2>4. CASE OptimizeBranches \/ \E l \in Label : BindLabel(l)
    BY <1>0, <2>4, TargetsKept DEF OptimizeBranches, BindLabel, bind
  <2>5. CASE \/ \E n \in Sizes : Put(n)
             \/ \E l \in Label, k \in ClientKind, n \in Sizes : UseLabel(l, k, n)
    BY <1>0, <2>5, TargetsKept DEF Put, UseLabel, labelVars
  <2>6. CASE \/ \E d \in Distances, force \in Forces : EmitIsland(d, force)
             \/ \E force \in Forces : Finish(force)
    BY <1>0, <2>6, TargetsKept DEF EmitIsland, start_island, Finish, labelVars
  <2> QED  BY <1>1, <2>2, <2>3, <2>4, <2>5, <2>6 DEF ClientCall
<1>2. ASSUME editable PROVE b.target \in allocated
  <2>1. Len(latest_branches) \in DOMAIN latest_branches
    BY <1>0, <1>2 DEF editable
  <2> QED  BY <2>1 DEF TargetsAllocated, b, Last
<1>3. CASE OptTruncate
  <2>1. /\ allocated' = allocated /\ label_aliases' = label_aliases
        /\ latest_branches' = SubSeq(latest_branches, 1, Len(latest_branches) - 1)
        /\ latest_branches # <<>>
    BY <1>3 DEF OptTruncate, truncate_last_branch, truncated_branches, Front, allocated,
                branch_to_tail, uncond_after_uncond, has_prev, redirectable, editable
  <2>2. Len(latest_branches) - 1 \in Nat
    BY <1>0, <2>1
  <2>3. \A i \in DOMAIN latest_branches' :
           i \in DOMAIN latest_branches /\ latest_branches'[i] = latest_branches[i]
    BY <1>0, <2>1, <2>2, PrefixType
  <2> QED  BY <2>1, <2>3 DEF TargetsAllocated
<1>4. CASE OptRedirect
  <2>1. b.target \in allocated /\ latest_branches # <<>>
    BY <1>2, <1>4 DEF OptRedirect, redirects, redirectable, editable
  <2>2. allocated' = allocated
    BY <1>4 DEF OptRedirect, allocated
  <2>3. \A i \in DOMAIN latest_branches' :
           i \in DOMAIN latest_branches /\ latest_branches'[i].target = latest_branches[i].target
    <3>1. \A i \in DOMAIN latest_branches : latest_branches[i] \in Branch
      BY BranchType
    <3> QED  BY <1>0, <1>4, <3>1 DEF OptRedirect, Branch
  <2>4. \A l \in Label : label_aliases'[l] \in {label_aliases[l], b.target}
    BY <1>4 DEF OptRedirect, TypeOK
  <2> QED  BY <2>1, <2>2, <2>3, <2>4 DEF TargetsAllocated
<1>5. CASE OptInvert
  <2>1. /\ b.target \in allocated /\ allocated' = allocated /\ label_aliases' = label_aliases
        /\ Len(latest_branches) > 1
        /\ latest_branches' =
             [SubSeq(latest_branches, 1, Len(latest_branches) - 1) EXCEPT
                 ![Len(latest_branches) - 1].target = b.target]
    BY <1>2, <1>5 DEF OptInvert, truncate_last_branch, truncated_branches, Front, allocated,
                      cond_around_uncond, has_prev, redirectable
  <2> DEFINE m == Len(latest_branches) - 1
             s == SubSeq(latest_branches, 1, m)
  <2>2. m \in Nat /\ m > 0 /\ m <= Len(latest_branches)
    BY <1>0, <2>1
  <2>3. /\ s \in Seq(Branch) /\ Len(s) = m /\ DOMAIN s = 1 .. m
        /\ \A i \in 1 .. m : s[i] = latest_branches[i] /\ i \in DOMAIN latest_branches
    BY <1>0, <2>2, PrefixType
  <2>4. latest_branches' = [s EXCEPT ![m].target = b.target]
    BY <2>1
  <2> HIDE DEF s, m
  <2>5. s[m] \in Branch
    BY <2>2, <2>3
  <2>6. \A i \in DOMAIN latest_branches' :
           i \in 1 .. m /\ latest_branches'[i].target \in {s[i].target, b.target}
    BY <2>2, <2>3, <2>4, <2>5 DEF Branch
  <2> QED  BY <2>1, <2>3, <2>6 DEF TargetsAllocated
<1>6. CASE OptDone
  BY <1>0, <1>6, TargetsKept DEF OptDone, purge_latest_branches, labelVars
<1>7. CASE IslandStep
  BY <1>0, <1>7, TargetsKept
     DEF IslandStep, IslandPending, IslandPendingDone, IslandHeap, IslandHeapDone, IslandTrap,
         IslandConstant, IslandDone, bind, labelVars
<1>8. CASE FinishStep \/ UNCHANGED vars
  BY <1>0, <1>8, TargetsKept DEF FinishStep, FinishIsland, FinishDone, start_island, vars, labelVars
<1> QED  BY <1>1, <1>3, <1>4, <1>5, <1>6, <1>7, <1>8 DEF Next, Internal, OptStep, Stopped

\* The list without its first element still holds every other one.
LEMMA TailKeeps ==
    ASSUME NEW R, NEW s \in Seq(R), s # <<>>, NEW i \in DOMAIN s, i # 1
    PROVE  i - 1 \in DOMAIN Tail(s) /\ Tail(s)[i - 1] = s[i]
OBVIOUS

\* A constant that was given a label is on the list of the next island, after
\* every step: get_label_for_constant adds both, the island removes both.
LEMMA NextConstants == IInv /\ ConstantsPending /\ [Next]_vars => ConstantsPending'
<1> SUFFICES ASSUME IInv, ConstantsPending, [Next]_vars PROVE ConstantsPending'
  OBVIOUS
<1> USE IInvParts
<1>0. pending_constants \in Seq(Const) /\ upcoming_label \in [Const -> Label \cup {UNKNOWN_LABEL}]
  BY DEF TypeOK
<1>1. ASSUME UNCHANGED <<pending_constants, upcoming_label>> PROVE ConstantsPending'
  BY <1>1 DEF ConstantsPending
<1>2. ASSUME NEW c \in Const, get_label_for_constant(c) PROVE ConstantsPending'
  <2>1. /\ pending_constants' = Append(pending_constants, c)
        /\ upcoming_label' = [upcoming_label EXCEPT ![c] = nlabels]
    BY <1>2 DEF get_label_for_constant
  <2>2. /\ Len(pending_constants) + 1 \in DOMAIN pending_constants'
        /\ pending_constants'[Len(pending_constants) + 1] = c
        /\ \A i \in DOMAIN pending_constants :
              i \in DOMAIN pending_constants' /\ pending_constants'[i] = pending_constants[i]
    BY <1>0, <2>1
  <2>3. \A d \in Const : d # c => upcoming_label'[d] = upcoming_label[d]
    BY <1>0, <2>1
  <2> QED  BY <2>2, <2>3 DEF ConstantsPending
<1>3. CASE IslandConstant
  <2> DEFINE c == Head(pending_constants)
  <2>1. /\ pending_constants # <<>> /\ pending_constants' = Tail(pending_constants)
        /\ upcoming_label' = [upcoming_label EXCEPT ![c] = UNKNOWN_LABEL]
    BY <1>3 DEF IslandConstant
  <2>2. c \in Const /\ c = pending_constants[1]
    BY <1>0, <2>1, HeadTail
  <2> HIDE DEF c
  <2>3. ASSUME NEW d \in Const, upcoming_label'[d] # UNKNOWN_LABEL
        PROVE  \E i \in DOMAIN pending_constants' : pending_constants'[i] = d
    <3>1. d # c /\ upcoming_label[d] # UNKNOWN_LABEL
      BY <1>0, <2>1, <2>2, <2>3
    <3>2. PICK i \in DOMAIN pending_constants : pending_constants[i] = d
      BY <3>1 DEF ConstantsPending
    <3>3. i # 1
      BY <2>2, <3>1, <3>2
    <3>4. i - 1 \in DOMAIN pending_constants' /\ pending_constants'[i - 1] = d
      BY <1>0, <2>1, <3>2, <3>3, TailKeeps
    <3> QED  BY <3>4
  <2> QED  BY <2>3 DEF ConstantsPending
<1>4. CASE ClientCall
  BY <1>1, <1>2, <1>4, ZenonT(60)
     DEF ClientCall, GetLabel, defer_trap, OptimizeBranches, BindLabel, Put, UseLabel,
         AddBranch, add_uncond_branch, add_cond_branch, EmitIsland, Finish, deferVars
<1>5. CASE OptStep
  BY <1>1, <1>5 DEF OptStep, OptTruncate, OptRedirect, OptInvert, OptDone, deferVars
<1>6. CASE IslandStep
  BY <1>1, <1>3, <1>6
     DEF IslandStep, IslandPending, IslandPendingDone, IslandHeap, IslandHeapDone, IslandTrap,
         IslandDone, deferVars
<1>7. CASE FinishStep \/ UNCHANGED vars
  BY <1>1, <1>7 DEF FinishStep, FinishIsland, FinishDone, vars, deferVars
<1> QED  BY <1>4, <1>5, <1>6, <1>7 DEF Next, Internal, Stopped

\* Whether the client may bind a label depends on these variables only.
LEMMA BindableKept ==
    ASSUME \A l \in allocated : ~bindable(l),
           UNCHANGED <<nlabels, label_offsets, pending_traps, upcoming_label>>
    PROVE  \A l \in allocated' : ~bindable(l)'
BY DEF bindable, allocated

\* An island that binds the label of a deferred trap or of a constant leaves no
\* other label to the client.
LEMMA IslandBinds ==
    ASSUME IInv, \A l \in allocated : ~bindable(l), IslandTrap \/ IslandConstant
    PROVE  \A l \in allocated' : ~bindable(l)'
<1> USE IInvParts
<1>0. /\ label_offsets \in [Label -> Offset] /\ pending_traps \in Seq(Label)
      /\ pending_constants \in Seq(Const) /\ off \in Nat
      /\ upcoming_label \in [Const -> Label \cup {UNKNOWN_LABEL}]
  BY DEF TypeOK
<1>1. CASE IslandTrap
  <2> DEFINE t == Head(pending_traps)
             o == AlignUp(off, Align)
  <2>1. /\ pending_traps # <<>> /\ pending_traps' = Tail(pending_traps)
        /\ label_offsets' = [label_offsets EXCEPT ![t] = o]
        /\ UNCHANGED <<nlabels, upcoming_label>>
    BY <1>1 DEF IslandTrap, bind
  <2>2. t \in Label /\ t = pending_traps[1]
    BY <1>0, <2>1, HeadTail
  <2>3. o # UNKNOWN_LABEL_OFFSET
    BY <1>0, AlignUpNat, SizesAssumption DEF UNKNOWN_LABEL_OFFSET
  <2> HIDE DEF t, o
  <2>4. ASSUME NEW l \in allocated, bindable(l)' PROVE FALSE
    <3>1. l \in Label
      BY <1>0, SizesAssumption DEF allocated, Label, TypeOK
    <3>2. label_offsets'[l] = UNKNOWN_LABEL_OFFSET /\ l \in allocated'
      BY <2>4 DEF bindable
    <3>3. l # t /\ label_offsets[l] = UNKNOWN_LABEL_OFFSET
      BY <1>0, <2>1, <2>2, <2>3, <3>1, <3>2
    <3>4. \A c \in Const : upcoming_label[c] # l
      BY <2>1, <2>4 DEF bindable
    <3>5. PICK i \in 1 .. Len(pending_traps) : pending_traps[i] = l
      BY <3>3, <3>4 DEF bindable
    <3>6. i \in DOMAIN pending_traps /\ i # 1
      BY <1>0, <2>2, <3>3, <3>5
    <3>7. i - 1 \in DOMAIN Tail(pending_traps) /\ Tail(pending_traps)[i - 1] = l
      BY <1>0, <2>1, <3>5, <3>6, TailKeeps
    <3>8. DOMAIN pending_traps' = 1 .. Len(pending_traps')
      BY <1>0, <2>1
    <3> QED  BY <2>1, <2>4, <3>7, <3>8 DEF bindable
  <2>5. allocated' = allocated
    BY <2>1 DEF allocated
  <2> QED  BY <2>4, <2>5
<1>2. CASE IslandConstant
  <2> DEFINE c == Head(pending_constants)
             o == AlignUp(off, ConstAlign[c])
  <2>1. /\ pending_constants # <<>>
        /\ label_offsets' = [label_offsets EXCEPT ![upcoming_label[c]] = o]
        /\ upcoming_label' = [upcoming_label EXCEPT ![c] = UNKNOWN_LABEL]
        /\ UNCHANGED <<nlabels, pending_traps>>
    BY <1>2 DEF IslandConstant, bind
  <2>2. c \in Const /\ c = pending_constants[1] /\ 1 \in DOMAIN pending_constants
    BY <1>0, <2>1, HeadTail
  <2>3. o # UNKNOWN_LABEL_OFFSET
    <3>1. ConstAlign[c] \in Nat \ {0}
      BY <2>2, ConstAssumption
    <3>2. o \in Nat
      BY <1>0, <3>1, AlignUpNat
    <3> QED  BY <3>2 DEF UNKNOWN_LABEL_OFFSET
  <2> HIDE DEF c, o
  <2>4. upcoming_label[c] \in Label
    BY <1>0, <2>2 DEF OtherInv, DeferredUnbound
  <2>5. ASSUME NEW l \in allocated, bindable(l)' PROVE FALSE
    <3>1. l \in Label
      BY <1>0, SizesAssumption DEF allocated, Label, TypeOK
    <3>2. label_offsets'[l] = UNKNOWN_LABEL_OFFSET
      BY <2>5 DEF bindable
    <3>3. l # upcoming_label[c] /\ label_offsets[l] = UNKNOWN_LABEL_OFFSET
      BY <1>0, <2>1, <2>3, <2>4, <3>1, <3>2
    <3>4. \A d \in Const : upcoming_label[d] # l
      BY <1>0, <2>1, <2>2, <2>5, <3>3 DEF bindable
    <3>5. \A i \in 1 .. Len(pending_traps) : pending_traps[i] # l
      BY <2>1, <2>5 DEF bindable
    <3> QED  BY <3>3, <3>4, <3>5 DEF bindable
  <2>6. allocated' = allocated
    BY <2>1 DEF allocated
  <2> QED  BY <2>5, <2>6
<1> QED  BY <1>1, <1>2

\* Only finish() makes a buffer finishing; from then on it runs islands until
\* nothing is left, and no label is left to the client.
LEMMA NextFinish == IInv /\ FinishPhases /\ [Next]_vars => FinishPhases'
<1> SUFFICES ASSUME IInv, FinishPhases, [Next]_vars PROVE FinishPhases'
  OBVIOUS
<1>1. CASE pc = "idle" /\ ClientCall
  <2>1. ~finishing
    BY <1>1 DEF FinishPhases
  <2>2. ASSUME NEW force \in Forces, Finish(force) PROVE FinishPhases'
    <3>1. /\ pc' = "finish" /\ finishing' /\ \A l \in allocated : ~bindable(l)
          /\ UNCHANGED <<nlabels, label_offsets, pending_traps, upcoming_label>>
      BY <2>2 DEF Finish, labelVars, deferVars
    <3> QED  BY <3>1, BindableKept DEF FinishPhases
  <2>3. ASSUME UNCHANGED finishing, pc' \notin {"finish", "done"} PROVE FinishPhases'
    BY <2>1, <2>3 DEF FinishPhases
  <2> QED
    BY <1>1, <2>2, <2>3, ZenonT(60)
       DEF ClientCall, GetLabel, defer_trap, OptimizeBranches, BindLabel, Put, UseLabel,
           AddBranch, add_uncond_branch, add_cond_branch, get_label_for_constant, EmitIsland,
           start_island, enter_optimize_branches, islandVars
<1>2. CASE OptStep
  <2>1. ~finishing /\ finishing' = finishing /\ pc' \notin {"finish", "done"}
    BY <1>2 DEF FinishPhases, OptStep, OptTruncate, OptRedirect, OptInvert, OptDone, islandVars
  <2> QED  BY <2>1 DEF FinishPhases
<1>3. CASE IslandTrap \/ IslandConstant
  <2>1. finishing' = finishing /\ pc' = "island_traps"
    BY <1>3 DEF IslandTrap, IslandConstant, islandVars
  <2> QED  BY <1>3, <2>1, IslandBinds DEF FinishPhases
<1>4. CASE IslandStep /\ ~IslandTrap /\ ~IslandConstant
  <2>1. /\ finishing' = finishing
        /\ UNCHANGED <<nlabels, label_offsets, pending_traps, upcoming_label>>
        /\ pc' \in {"island_pending", "island_heap", "island_traps", "panic"} \/ IslandDone
    BY <1>4 DEF IslandStep, IslandPending, IslandPendingDone, IslandHeap, IslandHeapDone,
                IslandDone, handle_fixup, labelVars, deferVars, islandVars
  <2>2. finishing => \A l \in allocated' : ~bindable(l)'
    BY <2>1, BindableKept DEF FinishPhases
  <2>3. IslandDone => pc' = IF finishing THEN "finish" ELSE "idle"
    BY DEF IslandDone
  <2> QED  BY <2>1, <2>2, <2>3 DEF FinishPhases
<1>5. CASE FinishStep
  <2>1. /\ finishing /\ finishing' = finishing
        /\ UNCHANGED <<nlabels, label_offsets, pending_traps, upcoming_label>>
        /\ pc' \in {"island_pending", "done"} /\ (pc' = "done" => nothing_left')
    BY <1>5 DEF FinishPhases, FinishStep, FinishIsland, FinishDone, start_island, nothing_left,
                labelVars, deferVars, islandVars
  <2>2. \A l \in allocated' : ~bindable(l)'
    BY <2>1, BindableKept DEF FinishPhases
  <2> QED  BY <2>1, <2>2 DEF FinishPhases
<1>6. CASE UNCHANGED vars
  BY <1>6 DEF FinishPhases, bindable, allocated, nothing_left, vars, labelVars, deferVars,
              islandVars
<1>7. ClientCall => pc = "idle"
  BY ZenonT(60) DEF ClientCall, GetLabel, defer_trap, OptimizeBranches, BindLabel, Put, UseLabel,
         AddBranch, add_uncond_branch, add_cond_branch, get_label_for_constant, EmitIsland,
         Finish
<1> QED  BY <1>1, <1>2, <1>3, <1>4, <1>5, <1>6, <1>7 DEF Next, Internal, Stopped

\* A new buffer satisfies what finish() relies on.
LEMMA InitFInv == Init => FInv
<1> SUFFICES ASSUME Init PROVE FInv
  OBVIOUS
<1>1. TargetsAllocated
  BY DEF Init, TargetsAllocated
<1>2. ConstantsPending
  BY DEF Init, ConstantsPending
<1>3. FinishPhases
  BY DEF Init, FinishPhases
<1> QED  BY <1>1, <1>2, <1>3, InitIInv DEF FInv

\* In a finished buffer every label that was handed out was bound.
LEMMA DoneBound ==
    ASSUME FInv, pc = "done"
    PROVE  \A l \in allocated : l \in Label /\ label_offsets[l] \in Nat
<1> SUFFICES ASSUME NEW l \in allocated PROVE l \in Label /\ label_offsets[l] \in Nat
  OBVIOUS
<1>0. TypeOK
  BY DEF FInv, IInv
<1>1. l \in Label /\ l # UNKNOWN_LABEL
  BY <1>0, SizesAssumption DEF TypeOK, allocated, Label, UNKNOWN_LABEL
<1>2. ~bindable(l) /\ pending_traps = <<>> /\ pending_constants = <<>>
  BY DEF FInv, FinishPhases, nothing_left
<1>3. \A c \in Const : upcoming_label[c] # l
  BY <1>1, <1>2 DEF FInv, ConstantsPending
<1>4. label_offsets[l] # UNKNOWN_LABEL_OFFSET
  BY <1>2, <1>3 DEF bindable
<1> QED  BY <1>0, <1>1, <1>4 DEF TypeOK, Offset

\* A finished buffer has an offset inside the code for every label: aliases end
\* at a label that is bound and still live.
LEMMA FInvResolved == FInv => AllLabelsResolved
<1> SUFFICES ASSUME FInv, pc = "done"
             PROVE  \A l \in allocated : resolve_label_offset[l] \in 0 .. off
  BY DEF AllLabelsResolved
<1>0. TypeOK /\ NoAliasCycle /\ NoLabelPastTail /\ TargetsAllocated
  BY DEF FInv, IInv
<1> DEFINE S == {l \in allocated : resolve_label_offset[l] \notin 0 .. off}
<1> SUFFICES ASSUME S # {} PROVE FALSE
  OBVIOUS
<1>1. S \in SUBSET Label
  BY DoneBound
<1>2. PICK l \in S : label_aliases[l] \notin S
  BY <1>0, <1>1 DEF NoAliasCycle
<1>3. l \in Label /\ l \in allocated /\ resolve_label_offset[l] \notin 0 .. off
  BY <1>1, <1>2
<1>4. CASE label_aliases[l] = UNKNOWN_LABEL
  <2>1. resolve_label_offset[l] = label_offsets[l]
    BY <1>0, <1>3, <1>4, ResolveValue
  <2>2. label_offsets[l] \in Nat /\ label_offsets[l] <= off
    BY <1>0, <1>3, <1>4, DoneBound DEF NoLabelPastTail, live
  <2>3. off \in Nat
    BY <1>0 DEF TypeOK
  <2> QED  BY <1>3, <2>1, <2>2, <2>3
<1>5. CASE label_aliases[l] # UNKNOWN_LABEL
  <2>1. resolve_label_offset[l] = resolve_label_offset[label_aliases[l]]
    BY <1>0, <1>3, <1>5, ResolveValue
  <2>2. label_aliases[l] \in allocated
    BY <1>0, <1>3, <1>5 DEF TargetsAllocated
  <2> QED  BY <1>2, <1>3, <2>1, <2>2
<1> QED  BY <1>4, <1>5

\* The inductive invariant of the buffer.
THEOREM Invariant == Spec => []IInv
<1>1. Init => IInv
  BY InitIInv
<1>2. IInv /\ [Next]_vars => IInv'
  BY NextIInv
<1> QED  BY <1>1, <1>2, PTL DEF Spec

\* Every method of MachBuffer keeps the types of its fields.
THEOREM TypeCorrect == Spec => []TypeOK
<1>1. IInv => TypeOK
  BY DEF IInv
<1> QED  BY <1>1, Invariant, PTL

\* No live label is bound past the tail, also when optimize_branches moved the
\* tail back.
THEOREM LabelsStayInBuffer == Spec => []NoLabelPastTail
<1>1. IInv => NoLabelPastTail
  BY DEF IInv
<1> QED  BY <1>1, Invariant, PTL

\* labels_at_tail is complete and precise whenever it is read: bind_label,
\* add_*_branch and truncate_last_branch maintain it.
THEOREM LabelsAtTailPrecise == Spec => []LabelsAtTail
<1>1. IInv => LabelsAtTail
  BY DEF IInv
<1> QED  BY <1>1, Invariant, PTL

\* labels_at_this_branch of every recorded branch is complete and precise.
THEOREM LabelsAtBranchPrecise == Spec => []LabelsAtBranch
<1>1. IInv => LabelsAtBranch
  BY DEF IInv
<1> QED  BY <1>1, Invariant, PTL

\* The recorded branches lie in the buffer, in order and apart, with no label
\* inside one: what optimize_branches drops is a whole branch.
THEOREM BranchesStayOrdered == Spec => []BranchesOrdered
<1>1. IInv => BranchesOrdered
  BY DEF IInv
<1> QED  BY <1>1, Invariant, PTL

\* No outstanding label use refers to bytes that were truncated.
THEOREM FixupsStayInBuffer == Spec => []FixupsInBuffer
<1>1. IInv => FixupsInBuffer
  BY DEF IInv
<1> QED  BY <1>1, Invariant, PTL

\* The fixup index in a MachBranch is the fixup of that branch: truncating the
\* list and retargeting through the index touch no other use.
THEOREM BranchesKeepTheirFixup == Spec => []BranchFixup
<1>1. IInv => BranchFixup
  BY DEF IInv
<1> QED  BY <1>1, Invariant, PTL

\* Label aliases never form a cycle, whatever optimize_branches redirects:
\* resolve_label_offset terminates.
THEOREM AliasesAcyclic == Spec => []NoAliasCycle
<1>1. IInv => NoAliasCycle
  BY DEF IInv
<1> QED  BY <1>1, Invariant, PTL

\* The invariant with what finish() relies on.
THEOREM FinishInvariant == Spec => []FInv
<1>1. Init => FInv
  BY InitFInv
<1>2. FInv /\ [Next]_vars => FInv'
  BY NextIInv, NextTargets, NextConstants, NextFinish DEF FInv
<1> QED  BY <1>1, <1>2, PTL DEF Spec

\* When finish() returns, every label that was ever handed out stands for an
\* offset inside the code: no island forgot a deferred trap or a constant, and
\* no chain of aliases ends at a label that was never bound.
THEOREM LabelsResolvedAtTheEnd == Spec => []AllLabelsResolved
<1>1. FInv => AllLabelsResolved
  BY FInvResolved
<1> QED  BY <1>1, FinishInvariant, PTL

\* bind gives an offset to a label that had none.
LEMMA BindStep ==
    ASSUME NEW l \in Label, NEW o, label_offsets \in [Label -> Offset],
           label_offsets[l] = UNKNOWN_LABEL_OFFSET, bind(l, o)
    PROVE  label_step
BY DEF bind, label_step

\* The steps of the buffer that touch labels: bind_label, the truncation of the
\* last branch and the redirection of its labels.
LEMMA NextLabelStep == IInv /\ [Next]_vars => [label_step]_vars
<1> SUFFICES ASSUME IInv, Next PROVE label_step
  BY DEF label_step, vars, labelVars
<1> USE IInvParts
<1>0. label_offsets \in [Label -> Offset]
  BY DEF TypeOK
<1>1. ASSUME UNCHANGED <<label_offsets, label_aliases>> PROVE label_step
  BY <1>1 DEF label_step
<1>2. CASE ClientCall
  <2>1. CASE \E l \in Label : BindLabel(l)
    BY <1>0, <2>1, BindStep DEF BindLabel, bindable
  <2> QED
    BY <1>1, <1>2, <2>1, ZenonT(60)
       DEF ClientCall, GetLabel, defer_trap, OptimizeBranches, Put, UseLabel, AddBranch,
           add_uncond_branch, add_cond_branch, get_label_for_constant, EmitIsland, Finish,
           labelVars
<1>3. CASE OptTruncate \/ OptInvert
  <2>1. editable /\ truncate_last_branch
    BY <1>3 DEF OptTruncate, OptInvert, branch_to_tail, uncond_after_uncond,
                cond_around_uncond, has_prev, redirectable
  <2>2. b.start < off
    BY <2>1, LastBranch
  <2> QED  BY <2>1, <2>2, TruncateLabels DEF label_step
<1>4. CASE OptRedirect
  <2>1. b.labels = labels_bound_at(b.start)
    BY <1>4, LastBranch DEF OptRedirect, redirects, redirectable
  <2> QED  BY <1>4, <2>1 DEF OptRedirect, label_step, labels_bound_at
<1>5. CASE OptDone
  BY <1>1, <1>5 DEF OptDone, labelVars
<1>6. CASE IslandStep
  <2>1. CASE IslandTrap
    <3>1. pending_traps # <<>> /\ pending_traps \in Seq(Label)
      BY <2>1 DEF IslandTrap, TypeOK
    <3>2. 1 \in DOMAIN pending_traps /\ Head(pending_traps) = pending_traps[1]
      BY <3>1
    <3>3. Head(pending_traps) \in Label /\ unbound_label(Head(pending_traps))
      BY <3>1, <3>2 DEF OtherInv, DeferredUnbound
    <3> QED  BY <1>0, <2>1, <3>3, BindStep DEF IslandTrap, unbound_label
  <2>2. CASE IslandConstant
    <3>1. pending_constants # <<>> /\ pending_constants \in Seq(Const)
      BY <2>2 DEF IslandConstant, TypeOK
    <3>2. 1 \in DOMAIN pending_constants /\ Head(pending_constants) = pending_constants[1]
      BY <3>1
    <3>3. Head(pending_constants) \in Const
      BY <3>1
    <3>4. upcoming_label[Head(pending_constants)] # UNKNOWN_LABEL
      BY <3>2 DEF OtherInv, DeferredUnbound
    <3>5. /\ upcoming_label[Head(pending_constants)] \in Label
          /\ unbound_label(upcoming_label[Head(pending_constants)])
      BY <3>3, <3>4 DEF TypeOK, OtherInv, DeferredUnbound
    <3> QED  BY <1>0, <2>2, <3>5, BindStep DEF IslandConstant, unbound_label
  <2> QED
    BY <1>1, <1>6, <2>1, <2>2
       DEF IslandStep, IslandPending, IslandPendingDone, IslandHeap, IslandHeapDone,
           IslandDone, labelVars
<1>7. CASE FinishStep \/ Stopped
  BY <1>1, <1>7 DEF FinishStep, FinishIsland, FinishDone, Stopped, vars, labelVars
<1> QED  BY <1>2, <1>3, <1>4, <1>5, <1>6, <1>7 DEF Next, Internal, OptStep

\* A bound label moves only when its tail is truncated, and then backwards; a
\* redirected label stays redirected.
THEOREM LabelsMoveBackOnly == Spec => LabelsNeverAdvance
<1>1. IInv /\ [Next]_vars => [label_step]_vars
  BY NextLabelStep
<1> QED  BY <1>1, Invariant, PTL DEF Spec, LabelsNeverAdvance

=============================================================================
