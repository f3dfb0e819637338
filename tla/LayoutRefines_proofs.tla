------------------------ MODULE LayoutRefines_proofs ------------------------
(***************************************************************************)
(* LInv is an invariant of Layout, and the lists of Layout behave as the   *)
(* sequences of LayoutSpec.                                                *)
(***************************************************************************)
EXTENDS LayoutRefines, TLAPS, SequenceTheorems, FiniteSetTheorems, FunctionTheorems,
        WellFoundedInduction

(***************************************************************************)
(* The invariant LInv.                                                     *)
(***************************************************************************)

\* What only the lists of instructions and their numbers are about.
InstInv == InstLinks /\ Acyclic /\ InstBlocks /\ SplitPoint /\ SeqIncreasing

\* Steps that change the list of blocks alone preserve all about instructions.
LEMMA BlockStepKeepsInsts ==
    ASSUME LInv, UNCHANGED <<instVars, inst_block, inst_seq>>, stays_idle
    PROVE  InstInv'
<1>1. /\ InstLinks /\ Acyclic /\ InstBlocks /\ SplitPoint /\ SeqIncreasing
      /\ pc' = pc /\ cur' = cur /\ arg' = arg /\ seq' = seq
      /\ inst_block' = inst_block /\ inst_prev' = inst_prev /\ inst_next' = inst_next
      /\ inst_seq' = inst_seq /\ first_inst' = first_inst /\ last_inst' = last_inst
  BY DEF LInv, instVars, stays_idle, loopVars
<1>2. InstLinks' BY <1>1 DEF InstLinks
<1>3. Acyclic' BY <1>1 DEF Acyclic
<1>4. InstBlocks' BY <1>1 DEF InstBlocks, splitting
<1>5. SplitPoint' BY <1>1 DEF SplitPoint, splitting
<1>6. SeqIncreasing' BY <1>1 DEF SeqIncreasing, in_order, numbered
<1>7. QED BY <1>2, <1>3, <1>4, <1>5, <1>6 DEF InstInv

\* append_block keeps the list of blocks well formed.
LEMMA AppendBlockKeepsInv ==
    ASSUME LInv, NEW b \in Block, append_block(b)
    PROVE  LInv'
<1>1. InstInv' BY BlockStepKeepsInsts DEF append_block
<1>2. TypeOK'
  BY LayoutAssumption DEF LInv, TypeOK, append_block, relinked, stays_idle, instVars, loopVars, OrNone
<1>3. BlockLinks'
  BY LayoutAssumption DEF LInv, TypeOK, BlockLinks, append_block, relinked, stays_idle, instVars, loopVars,
     OrNone, is_block_inserted
<1>4. RemovedBlock' BY DEF RemovedBlock, append_block, stays_idle, loopVars
<1>5. QED BY <1>1, <1>2, <1>3, <1>4 DEF LInv, InstInv

\* So does insert_block.
LEMMA InsertBlockKeepsInv ==
    ASSUME LInv, NEW b \in Block, NEW before \in Block, insert_block(b, before)
    PROVE  LInv'
<1>1. InstInv' BY BlockStepKeepsInsts DEF insert_block
<1>2. TypeOK'
  BY LayoutAssumption DEF LInv, TypeOK, insert_block, relinked, stays_idle, instVars, loopVars, OrNone
<1>3. BlockLinks'
  BY LayoutAssumption DEF LInv, TypeOK, BlockLinks, insert_block, relinked, stays_idle, instVars, loopVars,
     OrNone, is_block_inserted
<1>4. RemovedBlock' BY DEF RemovedBlock, insert_block, stays_idle, loopVars
<1>5. QED BY <1>1, <1>2, <1>3, <1>4 DEF LInv, InstInv

\* So does insert_block_after.
LEMMA InsertBlockAfterKeepsInv ==
    ASSUME LInv, NEW b \in Block, NEW after \in Block, insert_block_after(b, after)
    PROVE  LInv'
<1>1. InstInv' BY BlockStepKeepsInsts DEF insert_block_after
<1>2. TypeOK'
  BY LayoutAssumption DEF LInv, TypeOK, insert_block_after, relinked, stays_idle, instVars, loopVars, OrNone
<1>3. BlockLinks'
  BY LayoutAssumption DEF LInv, TypeOK, BlockLinks, insert_block_after, relinked, stays_idle, instVars, loopVars,
     OrNone, is_block_inserted
<1>4. RemovedBlock' BY DEF RemovedBlock, insert_block_after, stays_idle, loopVars
<1>5. QED BY <1>1, <1>2, <1>3, <1>4 DEF LInv, InstInv

\* Removing an empty block keeps the list well formed.
LEMMA UnlinkBlockKeepsLinks ==
    ASSUME LInv, NEW b \in Block, unlink_block(b)
    PROVE  BlockLinks'
BY LayoutAssumption DEF LInv, TypeOK, BlockLinks, InstLinks, unlink_block, relinked, instVars,
     OrNone, is_block_inserted

\* So does remove_block, which changes nothing else.
LEMMA RemoveBlockKeepsInv ==
    ASSUME LInv, NEW b \in Block, remove_block(b)
    PROVE  LInv'
<1>1. InstInv' BY BlockStepKeepsInsts DEF remove_block, unlink_block
<1>2. TypeOK'
  BY LayoutAssumption DEF LInv, TypeOK, remove_block, unlink_block, relinked, stays_idle, instVars,
     loopVars, OrNone
<1>3. BlockLinks' BY UnlinkBlockKeepsLinks DEF remove_block
<1>4. RemovedBlock' BY DEF RemovedBlock, remove_block, stays_idle, loopVars
<1>5. QED BY <1>1, <1>2, <1>3, <1>4 DEF LInv, InstInv

\* set_cold touches no list.
LEMMA SetColdKeepsInv ==
    ASSUME LInv, NEW b \in Block, set_cold(b)
    PROVE  LInv'
<1>1. InstInv' BY BlockStepKeepsInsts DEF set_cold
<1>2. TypeOK' BY DEF LInv, TypeOK, set_cold, stays_idle, blockVars, instVars, loopVars
<1>3. BlockLinks'
  BY DEF LInv, BlockLinks, set_cold, blockVars, instVars, is_block_inserted
<1>4. RemovedBlock' BY DEF RemovedBlock, set_cold, stays_idle, loopVars
<1>5. QED BY <1>1, <1>2, <1>3, <1>4 DEF LInv, InstInv

\* An empty layout is well formed, at the start and after clear.
LEMMA InitInv == Init => LInv
<1> SUFFICES ASSUME Init PROVE LInv
  OBVIOUS
<1>1. TypeOK BY DEF Init, TypeOK, OrNone
<1>2. BlockLinks BY LayoutAssumption DEF Init, BlockLinks, is_block_inserted
<1>3. InstLinks BY LayoutAssumption DEF Init, InstLinks
<1>4. Acyclic
  <2> SUFFICES ASSUME NEW S \in SUBSET Inst, NEW i \in S PROVE inst_prev[i] \notin S
    BY DEF Acyclic
  <2>1. QED BY LayoutAssumption DEF Init
<1>5. InstBlocks /\ SplitPoint
  BY LayoutAssumption DEF Init, InstBlocks, SplitPoint, splitting
<1>6. SeqIncreasing /\ RemovedBlock BY DEF Init, SeqIncreasing, RemovedBlock
<1>7. QED BY <1>1, <1>2, <1>3, <1>4, <1>5, <1>6 DEF LInv

\* clear gives the empty layout again.
LEMMA ClearKeepsInv ==
    ASSUME LInv, clear
    PROVE  LInv'
<1>0. pc' = "idle" /\ cur' = cur /\ arg' = arg /\ seq' = seq /\ limit' = limit
  BY DEF clear, stays_idle, loopVars
<1>1. TypeOK' BY <1>0 DEF LInv, clear, TypeOK, OrNone
<1>2. BlockLinks' BY LayoutAssumption DEF clear, BlockLinks, is_block_inserted
<1>3. InstLinks' BY LayoutAssumption DEF clear, InstLinks
<1>4. Acyclic'
  <2> SUFFICES ASSUME NEW S \in SUBSET Inst, NEW i \in S PROVE inst_prev'[i] \notin S
    BY DEF Acyclic
  <2>1. QED BY LayoutAssumption DEF clear
<1>5. InstBlocks' /\ SplitPoint'
  BY <1>0, LayoutAssumption DEF clear, InstBlocks, SplitPoint, splitting
<1>6. SeqIncreasing' /\ RemovedBlock' BY <1>0 DEF clear, SeqIncreasing, RemovedBlock
<1>7. QED BY <1>1, <1>2, <1>3, <1>4, <1>5, <1>6 DEF LInv

(***************************************************************************)
(* Lists of instructions.                                                  *)
(***************************************************************************)

\* A block that holds an instruction has a first one, and is in the layout:
\* else its instructions would be a circle.
LEMMA NonEmpty ==
    ASSUME LInv, ~splitting, NEW i \in Inst, inst_block[i] # None
    PROVE  first_inst[inst_block[i]] # None /\ is_block_inserted(inst_block[i])
<1> DEFINE S == {k \in Inst : inst_block[k] = inst_block[i]}
<1>1. PICK k \in S : inst_prev[k] \notin S BY DEF LInv, Acyclic
<1>2. inst_prev[k] = None
  <2> SUFFICES ASSUME inst_prev[k] # None PROVE FALSE
    OBVIOUS
  <2>1. inst_prev[k] \in Inst /\ inst_next[inst_prev[k]] = k
    BY DEF LInv, TypeOK, OrNone, InstLinks
  <2>2. inst_block[inst_prev[k]] = inst_block[k] BY <2>1 DEF LInv, InstBlocks
  <2>3. QED BY <1>1, <2>1, <2>2
<1>3. first_inst[inst_block[i]] = k BY <1>2 DEF LInv, InstBlocks
<1>4. inst_block[i] \in Block BY DEF LInv, TypeOK, OrNone
<1>5. QED BY <1>3, <1>4, LayoutAssumption DEF LInv, BlockLinks

\* A new instruction i between a and c, either of which may be missing, does
\* not close a circle.
LEMMA InsertKeepsAcyclic ==
    ASSUME TypeOK, InstLinks, Acyclic, NEW i \in Inst, NEW a \in OrNone(Inst), NEW c \in OrNone(Inst),
           inst_block[i] = None, i # a, i # c, c # None => inst_prev[c] = a,
           inst_prev' = relinked([inst_prev EXCEPT ![i] = a], c, i)
    PROVE  Acyclic'
<1> SUFFICES ASSUME NEW S \in SUBSET Inst, S # {}
             PROVE  \E k \in S : inst_prev'[k] \notin S
  BY DEF Acyclic
<1>0. \A k \in Inst : inst_prev'[k] = IF k = c THEN i ELSE IF k = i THEN a ELSE inst_prev[k]
  BY LayoutAssumption DEF relinked, TypeOK, OrNone
<1>1. CASE i \notin S
  <2>1. PICK k \in S : inst_prev[k] \notin S BY DEF Acyclic
  <2>2. QED BY <1>0, <1>1, <2>1
<1>2. CASE S = {i} BY <1>0, <1>2
<1>3. CASE i \in S /\ S # {i}
  <2>1. PICK k \in S \ {i} : inst_prev[k] \notin S \ {i} BY <1>3 DEF Acyclic
  <2>2. inst_prev[k] # i
    BY LayoutAssumption DEF InstLinks, TypeOK, OrNone
  <2>3. CASE k = c BY <1>0, <1>3, <2>1, <2>2, <2>3, LayoutAssumption
  <2>4. CASE k # c BY <1>0, <1>3, <2>1, <2>2, <2>4
  <2>5. QED BY <2>3, <2>4
<1>4. QED BY <1>1, <1>2, <1>3

\* Nor does leaving an instruction out.
LEMMA RemoveKeepsAcyclic ==
    ASSUME TypeOK, InstLinks, Acyclic, NEW i \in Inst,
           inst_prev' = relinked([inst_prev EXCEPT ![i] = None], inst_next[i], inst_prev[i])
    PROVE  Acyclic'
<1> SUFFICES ASSUME NEW S \in SUBSET Inst, S # {}
             PROVE  \E k \in S : inst_prev'[k] \notin S
  BY DEF Acyclic
<1> DEFINE n == inst_next[i]
<1>a. n # i
  <2> SUFFICES ASSUME n = i PROVE FALSE
    OBVIOUS
  <2>1. inst_prev[i] = i BY DEF InstLinks
  <2>2. {i} \in SUBSET Inst /\ {i} # {} OBVIOUS
  <2>3. QED BY <2>1, <2>2 DEF Acyclic
<1>0. \A k \in Inst : inst_prev'[k] = IF k = n THEN inst_prev[i] ELSE IF k = i THEN None ELSE inst_prev[k]
  BY LayoutAssumption DEF relinked, TypeOK, OrNone
<1>1. CASE i \in S BY <1>0, <1>1, <1>a, LayoutAssumption
<1>2. CASE i \notin S /\ n \notin S
  <2>1. PICK k \in S : inst_prev[k] \notin S BY DEF Acyclic
  <2>2. QED BY <1>0, <1>2, <2>1
<1>3. CASE i \notin S /\ n \in S
  <2>1. PICK k \in S \cup {i} : inst_prev[k] \notin S \cup {i} BY DEF Acyclic
  <2>2. inst_prev[n] = i BY <1>3 DEF InstLinks
  <2>3. CASE k = i BY <1>0, <1>3, <2>1, <2>3
  <2>4. CASE k # i BY <1>0, <1>3, <2>1, <2>2, <2>4
  <2>5. QED BY <2>3, <2>4
<1>4. QED BY <1>1, <1>2, <1>3

\* An appended instruction: its number is larger than that of the last one.
LEMMA AppendInstKeepsInv ==
    ASSUME LInv, NEW i \in Inst, NEW b \in Block, append_inst(i, b)
    PROVE  LInv'
<1> DEFINE last == last_inst[b]
<1> USE LayoutAssumption
<1>0. /\ TypeOK /\ BlockLinks /\ InstLinks /\ Acyclic /\ InstBlocks /\ SeqIncreasing
      /\ pc = "idle" /\ inst_block[i] = None /\ is_block_inserted(b) /\ last \in OrNone(Inst)
      /\ UNCHANGED loopVars /\ pc' = "idle" /\ UNCHANGED blockVars
  BY DEF LInv, append_inst, assign_last_seq, loopVars, TypeOK
<1>1. /\ first_inst[b] = None <=> last = None
      /\ i # last
      /\ last # None => inst_block[last] = b /\ inst_next[last] = None
  BY <1>0 DEF InstLinks, InstBlocks, splitting, TypeOK, OrNone
<1>2. /\ \A k \in Inst : inst_block'[k] = IF k = i THEN b ELSE inst_block[k]
      /\ \A k \in Inst : inst_prev'[k] = IF k = i THEN last ELSE inst_prev[k]
      /\ \A k \in Inst : inst_next'[k] = IF k = last THEN i ELSE inst_next[k]
      /\ \A c \in Block : first_inst'[c] = IF c = b /\ last = None THEN i ELSE first_inst[c]
      /\ \A c \in Block : last_inst'[c] = IF c = b THEN i ELSE last_inst[c]
  BY <1>0, <1>1 DEF append_inst, relinked, TypeOK, OrNone
<1>3. inst_prev[i] = None /\ inst_next[i] = None BY <1>0 DEF InstLinks
<1>4. TypeOK'
  BY <1>0 DEF TypeOK, OrNone, append_inst, assign_last_seq, relinked, seq_of, blockVars, loopVars
<1>5. BlockLinks'
  <2>1. \A c \in Block : is_block_inserted(c)' <=> is_block_inserted(c)
    BY <1>0 DEF is_block_inserted, blockVars
  <2>2. QED BY <1>0, <1>2, <2>1 DEF BlockLinks, blockVars, is_block_inserted
<1>6. InstLinks' BY <1>0, <1>1, <1>2, <1>3 DEF InstLinks, TypeOK, OrNone, InstBlocks, splitting
<1>7. Acyclic'
  <2>1. inst_prev' = relinked([inst_prev EXCEPT ![i] = last], None, i) BY DEF append_inst, relinked
  <2>2. QED BY <1>0, <1>1, <2>1, InsertKeepsAcyclic DEF OrNone
<1>8. InstBlocks' BY SMTT(60), <1>0, <1>1, <1>2, <1>3 DEF InstBlocks, InstLinks, splitting, TypeOK, OrNone
<1>9. SplitPoint' /\ RemovedBlock' BY <1>0 DEF SplitPoint, splitting, RemovedBlock
<1>10. SeqIncreasing'
  <2>1. \A k \in Inst : inst_seq'[k] = IF k = i THEN seq_of(last) + MAJOR_STRIDE ELSE inst_seq[k]
    BY <1>0 DEF append_inst, assign_last_seq, TypeOK
  <2>2. \A k \in Inst : inst_block'[k] # None => in_order(k)'
    BY <1>0, <1>1, <1>2, <1>3, <2>1 DEF SeqIncreasing, in_order, seq_of, TypeOK, OrNone, InstLinks
  <2>3. QED BY <1>0, <2>2 DEF SeqIncreasing
<1>11. QED BY <1>4, <1>5, <1>6, <1>7, <1>8, <1>9, <1>10 DEF LInv

\* An inserted instruction gets a number between its neighbours', or starts a
\* renumbering.
LEMMA InsertInstKeepsInv ==
    ASSUME LInv, NEW i \in Inst, NEW before \in Inst, insert_inst(i, before)
    PROVE  LInv'
<1> DEFINE b == inst_block[before]
           after == inst_prev[before]
<1> USE LayoutAssumption
<1>0. /\ TypeOK /\ BlockLinks /\ InstLinks /\ Acyclic /\ InstBlocks /\ SeqIncreasing
      /\ pc = "idle" /\ inst_block[i] = None /\ b \in Block /\ after \in OrNone(Inst)
      /\ UNCHANGED <<blockVars, last_inst, cold>>
  BY DEF LInv, insert_inst, TypeOK, OrNone
<1>1. /\ i # before /\ i # after /\ after # before
      /\ after # None => inst_block[after] = b /\ inst_next[after] = before
      /\ after = None => first_inst[b] = before
      /\ first_inst[b] # None /\ is_block_inserted(b)
  <2>1. i # before BY <1>0
  <2>2. after # before
    <3> SUFFICES ASSUME after = before PROVE FALSE
      OBVIOUS
    <3>1. {before} \in SUBSET Inst /\ {before} # {} OBVIOUS
    <3>2. QED BY <1>0, <3>1 DEF Acyclic
  <2>3. after # None => inst_block[after] = b /\ inst_next[after] = before
    BY <1>0 DEF InstLinks, InstBlocks, splitting, OrNone
  <2>4. i # after BY <1>0, <2>3 DEF OrNone
  <2>5. after = None => first_inst[b] = before BY <1>0 DEF InstBlocks, splitting
  <2>6. ~splitting /\ inst_block[before] # None BY <1>0 DEF splitting
  <2>7. first_inst[b] # None /\ is_block_inserted(b) BY <2>6, NonEmpty
  <2>8. QED BY <2>1, <2>2, <2>3, <2>4, <2>5, <2>7
<1>2. /\ \A k \in Inst : inst_block'[k] = IF k = i THEN b ELSE inst_block[k]
      /\ \A k \in Inst : inst_prev'[k] = IF k = i THEN after ELSE IF k = before THEN i ELSE inst_prev[k]
      /\ \A k \in Inst : inst_next'[k] = IF k = i THEN before ELSE IF k = after THEN i ELSE inst_next[k]
      /\ \A c \in Block : first_inst'[c] = IF c = b /\ after = None THEN i ELSE first_inst[c]
      /\ \A c \in Block : last_inst'[c] = last_inst[c]
  BY <1>0, <1>1 DEF insert_inst, relinked, TypeOK, OrNone
<1>3. inst_prev[i] = None /\ inst_next[i] = None BY <1>0 DEF InstLinks
<1>4. TypeOK'
  <2>1. midpoint(seq_of(after), inst_seq[before]) \in Int /\ seq_of(after) \in Nat
    BY <1>0 DEF midpoint, seq_of, TypeOK, OrNone
  <2>2. /\ inst_seq' \in [Inst -> Nat] /\ seq' \in Nat /\ limit' \in Nat /\ cur' \in OrNone(Inst)
        /\ arg' = arg /\ pc' \in {"idle", "renumber"}
    BY <1>0, <2>1 DEF insert_inst, assign_inner_seq, TypeOK, OrNone, loopVars
  <2>3. QED BY <1>0, <2>2 DEF TypeOK, OrNone, insert_inst, relinked, blockVars
<1>5. BlockLinks'
  <2>1. \A c \in Block : is_block_inserted(c)' <=> is_block_inserted(c)
    BY <1>0 DEF is_block_inserted, blockVars
  <2>2. QED BY <1>0, <1>1, <1>2, <2>1 DEF BlockLinks, blockVars, is_block_inserted
<1>6. InstLinks' BY <1>0, <1>1, <1>2, <1>3 DEF InstLinks, TypeOK, OrNone, InstBlocks, splitting
<1>7. Acyclic'
  <2>1. inst_prev' = relinked([inst_prev EXCEPT ![i] = after], before, i)
    BY <1>0 DEF insert_inst, relinked, TypeOK
  <2>2. QED BY <1>0, <1>1, <2>1, InsertKeepsAcyclic DEF OrNone
<1>8. ~splitting' /\ pc' # "remove" /\ pc' # "full"
  BY <1>0 DEF insert_inst, assign_inner_seq, splitting, loopVars
<1>9. InstBlocks' BY <1>0, <1>1, <1>2, <1>3, <1>8 DEF InstBlocks, InstLinks, splitting, TypeOK, OrNone
<1>10. SplitPoint' /\ RemovedBlock' BY <1>8 DEF SplitPoint, RemovedBlock
<1>11. SeqIncreasing'
  <2> DEFINE mid == midpoint(seq_of(after), inst_seq[before])
  <2>0. /\ seq_of(after) \in Nat /\ inst_seq[before] \in Nat /\ mid \in Int
        /\ seq_of(after) < inst_seq[before]
    BY <1>0, <1>1 DEF midpoint, seq_of, TypeOK, OrNone, SeqIncreasing, in_order
  <2>1. CASE mid > seq_of(after)
    <3>1. mid < inst_seq[before] BY <2>0 DEF midpoint
    <3>2. pc' = "idle" /\ inst_seq' = [inst_seq EXCEPT ![i] = mid]
      BY <1>0, <2>0, <2>1 DEF insert_inst, assign_inner_seq, loopVars
    <3>3. \A k \in Inst : inst_seq'[k] = IF k = i THEN mid ELSE inst_seq[k]
      BY <1>0, <3>2 DEF TypeOK
    <3>4. \A k \in Inst : inst_block'[k] # None => in_order(k)'
      BY <1>0, <1>1, <1>2, <1>3, <2>0, <2>1, <3>1, <3>3
      DEF SeqIncreasing, in_order, seq_of, TypeOK, OrNone, InstLinks
    <3>5. QED BY <3>2, <3>4 DEF SeqIncreasing
  <2>2. CASE mid <= seq_of(after)
    <3>1. /\ pc' = "renumber" /\ cur' = i /\ seq' = seq_of(after) + MINOR_STRIDE
          /\ inst_seq' = inst_seq
      BY <1>0, <2>0, <2>2 DEF insert_inst, assign_inner_seq
    <3>2. \A k \in Inst \ {i} : inst_block'[k] # None =>
              inst_seq'[k] > 0 /\ (inst_next'[k] # i => in_order(k)')
      BY <1>0, <1>1, <1>2, <1>3, <3>1 DEF SeqIncreasing, in_order, TypeOK, OrNone, InstLinks
    <3>3. seq' > 0 /\ (after # None => inst_seq[after] < seq')
      BY <1>0, <2>0, <3>1 DEF seq_of, TypeOK, OrNone
    <3>4. QED BY <1>0, <1>1, <1>2, <3>1, <3>2, <3>3 DEF SeqIncreasing
  <2>3. QED BY <2>0, <2>1, <2>2
<1>12. QED BY <1>4, <1>5, <1>6, <1>7, <1>9, <1>10, <1>11 DEF LInv

\* Taking an instruction out, by remove_inst or by remove_block_and_insts.
LEMMA UnlinkInstKeepsInv ==
    ASSUME LInv, NEW i \in Inst, unlink_inst(i), UNCHANGED loopVars, pc \in {"idle", "remove"}
    PROVE  LInv'
<1> DEFINE b == inst_block[i]
           prev == inst_prev[i]
           next == inst_next[i]
<1> USE LayoutAssumption
<1>0. /\ TypeOK /\ BlockLinks /\ InstLinks /\ Acyclic /\ InstBlocks /\ SeqIncreasing
      /\ b \in Block /\ prev \in OrNone(Inst) /\ next \in OrNone(Inst)
      /\ UNCHANGED <<blockVars, cold, inst_seq>> /\ pc' = pc /\ pc # "split" /\ ~splitting /\ ~splitting'
      /\ cur' = cur /\ arg' = arg /\ seq' = seq /\ limit' = limit
  BY DEF LInv, unlink_inst, TypeOK, OrNone, splitting, loopVars
<1>1. /\ prev # i /\ next # i
      /\ prev # None => inst_next[prev] = i /\ inst_block[prev] = b
      /\ next # None => inst_prev[next] = i /\ inst_block[next] = b
      /\ prev = None => first_inst[b] = i
      /\ next = None => last_inst[b] = i
      /\ first_inst[b] # None /\ last_inst[b] # None
  <2>1. prev # i
    <3> SUFFICES ASSUME prev = i PROVE FALSE
      OBVIOUS
    <3>1. {i} \in SUBSET Inst /\ {i} # {} OBVIOUS
    <3>2. QED BY <1>0, <3>1 DEF Acyclic
  <2>2. first_inst[b] # None /\ last_inst[b] # None BY <1>0, NonEmpty DEF InstLinks
  <2>3. QED BY <1>0, <2>1, <2>2 DEF InstLinks, InstBlocks, OrNone
<1>2. /\ \A k \in Inst : inst_block'[k] = IF k = i THEN None ELSE inst_block[k]
      /\ \A k \in Inst : inst_prev'[k] = IF k = i THEN None ELSE IF k = next THEN prev ELSE inst_prev[k]
      /\ \A k \in Inst : inst_next'[k] = IF k = i THEN None ELSE IF k = prev THEN next ELSE inst_next[k]
      /\ \A c \in Block : first_inst'[c] = IF c = b /\ prev = None THEN next ELSE first_inst[c]
      /\ \A c \in Block : last_inst'[c] = IF c = b /\ next = None THEN prev ELSE last_inst[c]
  BY <1>0, <1>1 DEF unlink_inst, relinked, TypeOK, OrNone
<1>4. TypeOK'
  BY <1>0 DEF TypeOK, OrNone, unlink_inst, relinked, blockVars
<1>5. BlockLinks'
  <2>1. \A c \in Block : is_block_inserted(c)' <=> is_block_inserted(c)
    BY <1>0 DEF is_block_inserted, blockVars
  <2>2. QED BY <1>0, <1>1, <1>2, <2>1 DEF BlockLinks, blockVars, is_block_inserted
<1>6. InstLinks' BY <1>0, <1>1, <1>2 DEF InstLinks, TypeOK, OrNone, InstBlocks
<1>7. Acyclic' BY <1>0, RemoveKeepsAcyclic DEF unlink_inst
<1>8. InstBlocks' BY <1>0, <1>1, <1>2 DEF InstBlocks, InstLinks, TypeOK, OrNone
<1>9. SplitPoint' BY <1>0 DEF SplitPoint
<1>10. RemovedBlock' BY <1>0 DEF LInv, RemovedBlock, is_block_inserted, blockVars
<1>11. SeqIncreasing'
  <2>1. \A k \in Inst : inst_block'[k] # None => in_order(k)'
    BY <1>0, <1>1, <1>2 DEF SeqIncreasing, in_order, TypeOK, OrNone, InstLinks
  <2>2. QED BY <1>0, <2>1 DEF SeqIncreasing
<1>12. QED BY <1>4, <1>5, <1>6, <1>7, <1>8, <1>9, <1>10, <1>11 DEF LInv

\* split_block cuts the list of the old block in two; the instructions behind
\* the cut still name the old block.
LEMMA SplitBlockKeepsInv ==
    ASSUME LInv, NEW new \in Block, NEW before \in Inst, split_block(new, before)
    PROVE  LInv'
<1> DEFINE old == inst_block[before]
           prev == inst_prev[before]
           next == block_next[old]
<1> USE LayoutAssumption
<1>0. /\ TypeOK /\ BlockLinks /\ InstLinks /\ Acyclic /\ InstBlocks /\ SeqIncreasing
      /\ pc = "idle" /\ ~splitting /\ splitting' /\ old \in Block /\ prev \in OrNone(Inst)
      /\ ~is_block_inserted(new) /\ next \in OrNone(Block)
      /\ pc' = "split" /\ cur' = before /\ arg' = new
      /\ UNCHANGED <<first_block, cold, inst_block, inst_seq, seq, limit>>
  BY DEF LInv, split_block, TypeOK, OrNone, splitting
<1>1. /\ first_inst[old] # None /\ last_inst[old] # None /\ is_block_inserted(old) /\ old # new
      /\ prev # before
      /\ prev # None => inst_next[prev] = before /\ inst_block[prev] = old /\ first_inst[old] # before
      /\ prev = None => first_inst[old] = before
      /\ first_inst[new] = None /\ last_inst[new] = None /\ block_next[new] = None
      /\ block_prev[new] = None /\ new # first_block
      /\ next = None <=> old = last_block
  <2>1. prev # before
    <3> SUFFICES ASSUME prev = before PROVE FALSE
      OBVIOUS
    <3>1. {before} \in SUBSET Inst /\ {before} # {} OBVIOUS
    <3>2. QED BY <1>0, <3>1 DEF Acyclic
  <2>2. first_inst[old] # None /\ last_inst[old] # None /\ is_block_inserted(old)
    BY <1>0, NonEmpty DEF InstLinks
  <2>3. old # new BY <1>0, <2>2
  <2>4. /\ prev # None => inst_next[prev] = before /\ inst_block[prev] = old /\ first_inst[old] # before
        /\ prev = None => first_inst[old] = before
    BY <1>0 DEF InstLinks, InstBlocks, OrNone
  <2>5. /\ first_inst[new] = None /\ last_inst[new] = None /\ block_next[new] = None
        /\ block_prev[new] = None /\ new # first_block
    BY <1>0 DEF BlockLinks, is_block_inserted
  <2>6. next = None <=> old = last_block BY <1>0, <2>2 DEF BlockLinks
  <2>7. QED BY <2>1, <2>2, <2>3, <2>4, <2>5, <2>6
<1>2. /\ \A k \in Inst : inst_block'[k] = inst_block[k]
      /\ \A k \in Inst : inst_prev'[k] = IF k = before THEN None ELSE inst_prev[k]
      /\ \A k \in Inst : inst_next'[k] = IF k = prev THEN None ELSE inst_next[k]
      /\ \A c \in Block : first_inst'[c] =
            IF c = new THEN before ELSE IF c = old /\ prev = None THEN None ELSE first_inst[c]
      /\ \A c \in Block : last_inst'[c] =
            IF c = new THEN last_inst[old] ELSE IF c = old THEN prev ELSE last_inst[c]
  BY <1>0, <1>1 DEF split_block, relinked, TypeOK, OrNone
<1>3. /\ \A c \in Block : block_prev'[c] = IF c = new THEN old ELSE IF c = next THEN new ELSE block_prev[c]
      /\ \A c \in Block : block_next'[c] = IF c = new THEN next ELSE IF c = old THEN new ELSE block_next[c]
      /\ last_block' = IF old = last_block THEN new ELSE last_block
      /\ first_block' = first_block
  BY <1>0, <1>1 DEF split_block, TypeOK, OrNone
<1>4. TypeOK'
  BY <1>0, <1>1 DEF TypeOK, OrNone, split_block, relinked
<1>5. BlockLinks'
  BY <1>0, <1>1, <1>2, <1>3 DEF BlockLinks, is_block_inserted, TypeOK, OrNone
<1>6. InstLinks' BY <1>0, <1>1, <1>2 DEF InstLinks, TypeOK, OrNone, InstBlocks
<1>7. Acyclic'
  <2> SUFFICES ASSUME NEW S \in SUBSET Inst, S # {}
               PROVE  \E k \in S : inst_prev'[k] \notin S
    BY DEF Acyclic
  <2>1. PICK k \in S : inst_prev[k] \notin S BY <1>0 DEF Acyclic
  <2>2. QED BY <1>2, <2>1
<1>8. InstBlocks' BY <1>0, <1>1, <1>2 DEF InstBlocks, InstLinks, TypeOK, OrNone
<1>9. SeqIncreasing'
  <2>1. \A k \in Inst : inst_block'[k] # None => in_order(k)'
    BY <1>0, <1>1, <1>2 DEF SeqIncreasing, in_order, TypeOK, OrNone, InstLinks
  <2>2. QED BY <1>0, <2>1 DEF SeqIncreasing
<1>10. SplitPoint'
  <2>1. inst_block[last_inst[old]] = old BY <1>0, <1>1 DEF InstBlocks
  <2>2. prev # None => inst_seq[prev] < inst_seq[before]
    BY <1>0, <1>1 DEF SeqIncreasing, in_order, OrNone
  <2>3. QED BY <1>0, <1>1, <1>2, <2>1, <2>2 DEF SplitPoint
<1>11. RemovedBlock' BY <1>0 DEF RemovedBlock
<1>12. QED BY <1>4, <1>5, <1>6, <1>7, <1>8, <1>9, <1>10, <1>11 DEF LInv

(***************************************************************************)
(* The loops.                                                              *)
(***************************************************************************)

\* The list of blocks is not disturbed by a step that changes none of it.
LEMMA BlocksUnchanged ==
    ASSUME BlockLinks, UNCHANGED <<blockVars, instVars>>
    PROVE  BlockLinks'
BY DEF BlockLinks, blockVars, instVars, is_block_inserted

\* One more instruction moves to the new block; the last one ends the split.
LEMMA MoveInstsKeepsInv ==
    ASSUME LInv, move_insts
    PROVE  LInv'
<1> USE LayoutAssumption
<1>0. /\ TypeOK /\ BlockLinks /\ InstLinks /\ Acyclic /\ InstBlocks /\ SeqIncreasing /\ SplitPoint
      /\ pc = "split"
      /\ UNCHANGED <<blockVars, instVars, cold, inst_seq>>
      /\ inst_prev' = inst_prev /\ inst_next' = inst_next
      /\ first_inst' = first_inst /\ last_inst' = last_inst
  BY DEF LInv, move_insts, instVars
<1>1. BlockLinks' BY <1>0, BlocksUnchanged
<1>2. Acyclic' BY <1>0 DEF Acyclic
<1>3. CASE cur = None
  <2>1. /\ inst_block' = inst_block /\ pc' = "idle" /\ cur' = None /\ arg' = None /\ seq' = 0 /\ limit' = 0
        /\ ~splitting /\ ~splitting'
    BY <1>3 DEF move_insts, returns, splitting
  <2>2. TypeOK' BY <1>0, <2>1 DEF TypeOK, OrNone, blockVars
  <2>3. InstLinks' BY <1>0, <2>1 DEF InstLinks
  <2>4. InstBlocks' BY <1>0, <2>1 DEF InstBlocks
  <2>5. SplitPoint' /\ RemovedBlock' BY <2>1 DEF SplitPoint, RemovedBlock
  <2>6. SeqIncreasing' BY <1>0, <2>1 DEF SeqIncreasing, in_order
  <2>7. QED BY <1>1, <1>2, <2>2, <2>3, <2>4, <2>5, <2>6 DEF LInv
<1>4. CASE cur # None
  <2> DEFINE n == inst_next[cur]
  <2>1. /\ pc' = "split" /\ cur' = n /\ arg' = arg /\ seq' = seq /\ limit' = limit
        /\ splitting /\ cur \in Inst /\ n \in OrNone(Inst) /\ arg \in Block
        /\ inst_block' = [inst_block EXCEPT ![cur] = arg]
    BY <1>0, <1>4 DEF move_insts, splitting, TypeOK, OrNone, SplitPoint
  <2>2. \A k \in Inst : inst_block'[k] = IF k = cur THEN arg ELSE inst_block[k]
    BY <1>0, <2>1 DEF TypeOK
  <2> DEFINE old == inst_block[cur]
  <2>3. /\ old \in Block /\ old # arg
        /\ n # None => /\ inst_seq[cur] < inst_seq[n] /\ n # cur /\ inst_prev[n] = cur
                       /\ inst_block[n] = old
        /\ last_inst[old] # cur /\ last_inst[arg] \in Inst /\ first_inst[arg] \in Inst
        /\ first_inst[old] # cur
    BY <1>0, <2>1 DEF SplitPoint, SeqIncreasing, in_order, InstLinks, InstBlocks, TypeOK, OrNone
  <2>4. n = None <=> cur = last_inst[arg]
    BY <1>0, <2>1, <2>3 DEF InstBlocks, InstLinks, OrNone
  <2>5. TypeOK' BY <1>0, <2>1 DEF TypeOK, OrNone, blockVars
  <2>6. InstLinks' BY <1>0, <2>1, <2>2 DEF InstLinks
  <2>7. splitting' <=> n # None BY <2>1 DEF splitting
  <2>8. InstBlocks'
    BY <1>0, <2>1, <2>2, <2>3, <2>4, <2>7 DEF InstBlocks, InstLinks, SplitPoint, TypeOK, OrNone
  <2>9. SplitPoint'
    BY <1>0, <2>1, <2>2, <2>3, <2>4, <2>7 DEF SplitPoint, InstLinks, TypeOK, OrNone
  <2>10. SeqIncreasing' /\ RemovedBlock'
    BY <1>0, <2>1, <2>2, <2>3 DEF SeqIncreasing, in_order, RemovedBlock
  <2>11. QED BY <1>1, <1>2, <2>5, <2>6, <2>8, <2>9, <2>10 DEF LInv
<1>5. QED BY <1>3, <1>4

\* remove_block_and_insts only removes.
LEMMA RemoveInstsKeepsInv ==
    ASSUME LInv, remove_insts
    PROVE  LInv'
<1> USE LayoutAssumption
<1>0. pc = "remove" /\ arg \in Block BY DEF remove_insts, LInv, RemovedBlock
<1>1. CASE first_inst[arg] # None
  <2>1. first_inst[arg] \in Inst BY <1>0, <1>1 DEF LInv, TypeOK, OrNone
  <2>2. QED BY <1>0, <1>1, <2>1, UnlinkInstKeepsInv DEF remove_insts
<1>2. CASE first_inst[arg] = None
  <2>1. unlink_block(arg) /\ returns BY <1>2 DEF remove_insts
  <2>2. BlockLinks' BY <1>0, <2>1, UnlinkBlockKeepsLinks
  <2>3. TypeOK'
    BY <1>0, <2>1 DEF LInv, TypeOK, OrNone, unlink_block, relinked, returns, instVars
  <2>4. /\ InstLinks /\ Acyclic /\ InstBlocks /\ SeqIncreasing
        /\ inst_block' = inst_block /\ inst_prev' = inst_prev /\ inst_next' = inst_next
        /\ inst_seq' = inst_seq /\ first_inst' = first_inst /\ last_inst' = last_inst
        /\ pc' = "idle" /\ ~splitting /\ ~splitting'
    BY <1>0, <2>1 DEF LInv, unlink_block, returns, instVars, splitting
  <2>5. InstLinks' /\ Acyclic' BY <2>4 DEF InstLinks, Acyclic
  <2>6. InstBlocks' BY <2>4 DEF InstBlocks
  <2>7. SplitPoint' /\ RemovedBlock' BY <2>4 DEF SplitPoint, RemovedBlock
  <2>8. SeqIncreasing' BY <1>0, <2>4 DEF SeqIncreasing, in_order
  <2>9. QED BY <2>2, <2>3, <2>5, <2>6, <2>7, <2>8 DEF LInv
<1>3. QED BY <1>1, <1>2

\* The call of remove_block_and_insts only starts its loop.
LEMMA RemoveBlockAndInstsKeepsInv ==
    ASSUME LInv, NEW b \in Block, remove_block_and_insts(b)
    PROVE  LInv'
<1>1. /\ TypeOK /\ BlockLinks /\ InstLinks /\ Acyclic /\ InstBlocks /\ SeqIncreasing
      /\ inst_block' = inst_block /\ inst_prev' = inst_prev /\ inst_next' = inst_next
      /\ inst_seq' = inst_seq /\ first_inst' = first_inst /\ last_inst' = last_inst
      /\ pc = "idle" /\ pc' = "remove" /\ ~splitting /\ ~splitting' /\ cur' = cur /\ arg' = b
      /\ seq' = seq /\ limit' = limit /\ cold' = cold
      /\ UNCHANGED <<blockVars, instVars>> /\ is_block_inserted(b)
  BY DEF LInv, remove_block_and_insts, instVars, splitting
<1>2. TypeOK' BY <1>1 DEF TypeOK, OrNone, blockVars
<1>3. BlockLinks' BY <1>1, BlocksUnchanged
<1>4. InstLinks' /\ Acyclic' BY <1>1 DEF InstLinks, Acyclic
<1>5. InstBlocks' /\ SplitPoint' BY <1>1 DEF InstBlocks, SplitPoint
<1>6. SeqIncreasing' BY <1>1 DEF SeqIncreasing, in_order
<1>7. RemovedBlock' BY <1>1 DEF RemovedBlock, is_block_inserted, blockVars
<1>8. QED BY <1>2, <1>3, <1>4, <1>5, <1>6, <1>7 DEF LInv

\* What every turn of the two renumbering loops leaves alone: they change
\* numbers only.
LEMMA NumberingKeepsLists ==
    ASSUME LInv, UNCHANGED <<blockVars, instVars, inst_block>>, ~splitting, ~splitting',
           pc' # "remove"
    PROVE  /\ BlockLinks' /\ InstLinks' /\ Acyclic' /\ InstBlocks' /\ SplitPoint' /\ RemovedBlock'
<1>1. /\ BlockLinks /\ InstLinks /\ Acyclic /\ InstBlocks
      /\ inst_block' = inst_block /\ inst_prev' = inst_prev /\ inst_next' = inst_next
      /\ first_inst' = first_inst /\ last_inst' = last_inst
  BY DEF LInv, instVars
<1>2. BlockLinks' BY <1>1, BlocksUnchanged
<1>3. InstLinks' /\ Acyclic' BY <1>1 DEF InstLinks, Acyclic
<1>4. InstBlocks' /\ SplitPoint' BY <1>1 DEF InstBlocks, SplitPoint
<1>5. RemovedBlock' BY DEF RemovedBlock
<1>6. QED BY <1>2, <1>3, <1>4, <1>5

\* A turn of renumber_insts, whichever way it ends.
LEMMA RenumberInstsKeepsInv ==
    ASSUME LInv, renumber_insts
    PROVE  LInv'
<1> DEFINE n == inst_next[cur]
<1> USE LayoutAssumption
<1>0. /\ TypeOK /\ InstLinks /\ Acyclic /\ InstBlocks /\ SeqIncreasing /\ pc = "renumber"
      /\ UNCHANGED <<blockVars, instVars, cold, inst_block>>
      /\ inst_block' = inst_block /\ inst_prev' = inst_prev /\ inst_next' = inst_next
      /\ first_inst' = first_inst /\ last_inst' = last_inst /\ renumber(n)
      /\ pc' \in {"idle", "renumber", "full"} /\ ~splitting /\ ~splitting'
  BY DEF LInv, renumber_insts, instVars, splitting, renumber, returns
<1>1. /\ cur \in Inst /\ inst_block[cur] \in Block /\ n \in OrNone(Inst) /\ seq \in Nat /\ seq > 0
      /\ inst_prev[cur] # None => inst_seq[inst_prev[cur]] < seq
      /\ n # None => inst_block[n] = inst_block[cur] /\ inst_prev[n] = cur
  BY <1>0 DEF SeqIncreasing, TypeOK, OrNone, InstLinks, InstBlocks
<1>2. \A k \in Inst : inst_seq'[k] = IF k = cur THEN seq ELSE inst_seq[k]
  BY <1>0 DEF renumber_insts, TypeOK
<1>3. n # cur
  <2> SUFFICES ASSUME n = cur PROVE FALSE
    OBVIOUS
  <2>1. {cur} \in SUBSET Inst /\ {cur} # {} /\ inst_prev[cur] = cur BY <1>1
  <2>2. QED BY <1>0, <2>1 DEF Acyclic
<1>4. \A k \in Inst : k # cur /\ inst_block[k] # None => in_order(k)'
  BY <1>0, <1>1, <1>2 DEF SeqIncreasing, in_order, InstLinks, TypeOK, OrNone
<1>5. first_inst[inst_block[cur]] # None BY <1>0, <1>1, NonEmpty
<1>6. /\ TypeOK' /\ SeqIncreasing'
  <2>1. CASE caught_up(n) /\ returns
    <3>1. TypeOK' BY <1>0, <1>1, <2>1 DEF TypeOK, OrNone, returns, blockVars, renumber_insts
    <3>2. \A k \in Inst : k = cur => in_order(k)' BY <1>0, <1>1, <1>2, <1>3, <2>1 DEF in_order, caught_up, OrNone
    <3>3. QED BY <1>0, <1>4, <2>1, <3>1, <3>2 DEF SeqIncreasing, returns
  <2>2. CASE /\ ~caught_up(n) /\ pc' = "full" /\ arg' = inst_block[n]
             /\ cur' = first_inst[inst_block[n]] /\ seq' = MAJOR_STRIDE /\ UNCHANGED limit
    <3>1. n \in Inst /\ arg' = inst_block[cur] /\ arg' \in Block /\ cur' = first_inst[arg'] /\ cur' \in Inst
      BY <1>0, <1>1, <1>5, <2>2 DEF caught_up, OrNone, TypeOK
    <3>2. TypeOK' BY <1>0, <1>1, <2>2, <3>1 DEF TypeOK, OrNone, blockVars, renumber_insts
    <3>3. \A k \in Inst : inst_block'[k] \notin {None, arg'} => in_order(k)'
      BY <1>0, <1>4, <3>1
    <3>4. inst_block[cur'] = arg' /\ inst_prev[cur'] = None
      BY <1>0, <3>1 DEF InstLinks, InstBlocks
    <3>5. numbered({})' BY <1>0, <3>1, <3>4 DEF numbered
    <3>6. QED BY <1>0, <2>2, <3>1, <3>2, <3>3, <3>5 DEF SeqIncreasing
  <2>3. CASE /\ ~caught_up(n) /\ cur' = n /\ seq' = seq + MINOR_STRIDE /\ UNCHANGED <<pc, arg, limit>>
    <3>1. n \in Inst BY <1>1, <2>3 DEF caught_up, OrNone
    <3>2. TypeOK' BY <1>0, <1>1, <2>3, <3>1 DEF TypeOK, OrNone, blockVars, renumber_insts
    <3>3. seq' > 0 /\ inst_seq'[inst_prev'[n]] < seq' /\ inst_block'[n] # None
      BY <1>0, <1>1, <1>2, <2>3, <3>1
    <3>4. \A k \in Inst \ {n} : inst_block'[k] # None =>
             inst_seq'[k] > 0 /\ (inst_next'[k] # n => in_order(k)')
      BY <1>0, <1>1, <1>2, <1>4 DEF in_order
    <3>5. QED BY <1>0, <2>3, <3>1, <3>2, <3>3, <3>4 DEF SeqIncreasing
  <2>4. QED BY <1>0, <2>1, <2>2, <2>3 DEF renumber
<1>7. QED BY <1>0, <1>6, NumberingKeepsLists DEF LInv

\* A turn of full_block_renumber: one more instruction is numbered.  When the
\* list ends none is left, because the rest of the block would be a circle.
LEMMA FullBlockRenumberKeepsInv ==
    ASSUME LInv, full_block_renumber
    PROVE  LInv'
<1> DEFINE n == inst_next[cur]
<1> USE LayoutAssumption
<1>0. /\ TypeOK /\ InstLinks /\ Acyclic /\ InstBlocks /\ SeqIncreasing /\ pc = "full"
      /\ UNCHANGED <<blockVars, instVars, cold, inst_block>>
      /\ inst_block' = inst_block /\ inst_prev' = inst_prev /\ inst_next' = inst_next
      /\ first_inst' = first_inst /\ last_inst' = last_inst
      /\ pc' \in {"idle", "full"} /\ ~splitting /\ ~splitting'
  BY DEF LInv, full_block_renumber, instVars, splitting, returns
<1>1. /\ arg \in Block /\ first_inst[arg] \in Inst /\ seq \in Nat /\ seq > 0 /\ cur \in OrNone(Inst)
      /\ \A i \in Inst : inst_block[i] \notin {None, arg} => in_order(i)
  BY <1>0 DEF SeqIncreasing, TypeOK, OrNone
<1>2. PICK D \in SUBSET Inst : numbered(D) BY <1>0 DEF SeqIncreasing
<1>3. CASE cur # None
  <2>1. /\ cur \in Inst /\ n \in OrNone(Inst) /\ inst_block[cur] = arg /\ cur \notin D
        /\ pc' = "full" /\ cur' = n /\ seq' = seq + MAJOR_STRIDE /\ arg' = arg /\ limit' = limit
        /\ n # None => inst_prev[n] = cur /\ inst_block[n] = arg
    BY <1>0, <1>1, <1>2, <1>3 DEF numbered, full_block_renumber, TypeOK, OrNone, InstLinks, InstBlocks
  <2>2. \A k \in Inst : inst_seq'[k] = IF k = cur THEN seq ELSE inst_seq[k]
    BY <1>0, <1>3 DEF full_block_renumber, TypeOK
  <2>3. n # cur
    <3> SUFFICES ASSUME n = cur PROVE FALSE
      OBVIOUS
    <3>1. {cur} \in SUBSET Inst /\ {cur} # {} /\ inst_prev[cur] = cur BY <2>1
    <3>2. QED BY <1>0, <3>1 DEF Acyclic
  <2>4. n \notin D BY <1>2, <2>1 DEF numbered, OrNone
  <2>5. TypeOK' BY <1>0, <1>1, <1>3, <2>1 DEF TypeOK, OrNone, blockVars, full_block_renumber
  <2>6. \A k \in Inst : inst_block'[k] \notin {None, arg'} => in_order(k)'
    BY <1>0, <1>1, <2>1, <2>2 DEF in_order, InstBlocks, OrNone, TypeOK
  <2>7. \A E \in SUBSET Inst : E = D \cup {cur} => numbered(E)'
    <3> SUFFICES ASSUME NEW E \in SUBSET Inst, E = D \cup {cur} PROVE numbered(E)'
      OBVIOUS
    <3>1. ASSUME NEW i \in E
          PROVE  /\ inst_block'[i] = arg' /\ 0 < inst_seq'[i] /\ inst_seq'[i] < seq'
                 /\ inst_prev'[i] \in OrNone(E)
      BY <1>0, <1>1, <1>2, <2>1, <2>2 DEF numbered, OrNone, TypeOK
    <3>2. ASSUME NEW i \in E, inst_next'[i] # cur'
          PROVE  inst_next'[i] \in E /\ in_order(i)'
      BY <1>0, <1>1, <1>2, <2>1, <2>2, <3>2 DEF numbered, in_order, OrNone, TypeOK
    <3>3. cur' # first_inst'[arg'] => first_inst'[arg'] \in E
      BY <1>0, <1>2, <2>1 DEF numbered
    <3>4. cur' # None => /\ cur' \notin E /\ inst_block'[cur'] = arg'
                         /\ inst_prev'[cur'] # None => inst_prev'[cur'] \in E
      BY <1>0, <2>1, <2>3, <2>4
    <3>5. QED BY <3>1, <3>2, <3>3, <3>4 DEF numbered, OrNone
  <2>8. SeqIncreasing'
    <3>1. PICK E \in SUBSET Inst : E = D \cup {cur} BY <2>1
    <3>2. numbered(E)' BY <2>7, <3>1
    <3>3. QED BY <1>0, <1>1, <2>1, <2>6, <3>2 DEF SeqIncreasing
  <2>9. QED BY <1>0, <2>5, <2>8, NumberingKeepsLists DEF LInv
<1>4. CASE cur = None
  <2>1. /\ pc' = "idle" /\ cur' = None /\ arg' = None /\ seq' = 0 /\ limit' = 0 /\ inst_seq' = inst_seq
    BY <1>4 DEF full_block_renumber, returns
  <2>2. \A i \in Inst : inst_block[i] = arg => i \in D
    <3> DEFINE S == {i \in Inst : inst_block[i] = arg} \ D
    <3> SUFFICES ASSUME S # {} PROVE FALSE
      OBVIOUS
    <3>1. PICK i \in S : inst_prev[i] \notin S BY <1>0 DEF Acyclic
    <3>2. inst_prev[i] # None
      BY <1>0, <1>1, <1>2, <1>4, <3>1 DEF numbered, InstBlocks
    <3>3. inst_prev[i] \in Inst /\ inst_next[inst_prev[i]] = i /\ inst_block[inst_prev[i]] = arg
      BY <1>0, <3>1, <3>2 DEF TypeOK, OrNone, InstLinks, InstBlocks
    <3>4. QED BY <1>2, <1>4, <3>1, <3>3 DEF numbered
  <2>3. \A i \in D : in_order(i)
    BY <1>0, <1>2, <1>4 DEF numbered, in_order
  <2>4. \A i \in Inst : inst_block[i] # None => in_order(i) BY <1>1, <2>2, <2>3
  <2>5. SeqIncreasing' BY <1>0, <2>1, <2>4 DEF SeqIncreasing, in_order
  <2>6. TypeOK' BY <1>0, <2>1 DEF TypeOK, OrNone, blockVars
  <2>7. QED BY <1>0, <2>1, <2>5, <2>6, NumberingKeepsLists DEF LInv
<1>5. QED BY <1>3, <1>4

(***************************************************************************)
(* All steps together.                                                     *)
(***************************************************************************)

\* Every call, every turn of a loop and every stuttering step preserves LInv.
LEMMA NextKeepsInv == LInv /\ [Next]_vars => LInv'
<1> SUFFICES ASSUME LInv, [Next]_vars PROVE LInv'
  OBVIOUS
<1>1. CASE \E b \in Block : \/ append_block(b) \/ remove_block(b)
                            \/ remove_block_and_insts(b) \/ set_cold(b)
  BY <1>1, AppendBlockKeepsInv, RemoveBlockKeepsInv, RemoveBlockAndInstsKeepsInv, SetColdKeepsInv
<1>2. CASE \E b, at \in Block : insert_block(b, at) \/ insert_block_after(b, at)
  BY <1>2, InsertBlockKeepsInv, InsertBlockAfterKeepsInv
<1>3. CASE \E i \in Inst, b \in Block : append_inst(i, b) \/ split_block(b, i)
  BY <1>3, AppendInstKeepsInv, SplitBlockKeepsInv
<1>4. CASE \E i, before \in Inst : insert_inst(i, before)
  BY <1>4, InsertInstKeepsInv
<1>5. CASE \E i \in Inst : remove_inst(i)
  BY <1>5, UnlinkInstKeepsInv DEF remove_inst, stays_idle
<1>6. CASE clear BY <1>6, ClearKeepsInv
<1>7. CASE Loop
  BY <1>7, RenumberInstsKeepsInv, FullBlockRenumberKeepsInv, MoveInstsKeepsInv, RemoveInstsKeepsInv
  DEF Loop
<1>8. CASE UNCHANGED vars
  <2>1. /\ UNCHANGED <<blockVars, instVars, cold, inst_block, inst_seq>>
        /\ pc' = pc /\ cur' = cur /\ arg' = arg /\ seq' = seq /\ limit' = limit
        /\ inst_block' = inst_block /\ inst_prev' = inst_prev /\ inst_next' = inst_next
        /\ inst_seq' = inst_seq /\ first_inst' = first_inst /\ last_inst' = last_inst
    BY <1>8 DEF vars, loopVars, instVars
  <2>2. TypeOK' BY <2>1 DEF LInv, TypeOK, blockVars
  <2>3. BlockLinks' BY <2>1, BlocksUnchanged DEF LInv
  <2>4. InstLinks' /\ Acyclic' BY <2>1 DEF LInv, InstLinks, Acyclic
  <2>5. InstBlocks' /\ SplitPoint' BY <2>1 DEF LInv, InstBlocks, SplitPoint, splitting
  <2>6. SeqIncreasing' BY <2>1 DEF LInv, SeqIncreasing, in_order, numbered
  <2>7. RemovedBlock' BY <2>1 DEF LInv, RemovedBlock, is_block_inserted, blockVars
  <2>8. QED BY <2>2, <2>3, <2>4, <2>5, <2>6, <2>7 DEF LInv
<1>9. QED BY <1>1, <1>2, <1>3, <1>4, <1>5, <1>6, <1>7, <1>8 DEF Next

\* Whatever the client calls, for any numbers of blocks and instructions and
\* any strides, the lists of the layout are well formed and the sequence
\* numbers that pp_cmp compares increase along them.
THEOREM LayoutInvariant == Spec => []LInv
BY InitInv, NextKeepsInv, PTL DEF Spec

(***************************************************************************)
(* Least numbers.                                                          *)
(***************************************************************************)

\* A set of naturals that is not empty has a least member.
LEMMA NatMin ==
    ASSUME NEW T, T \subseteq Nat, T # {}
    PROVE  \E x \in T : \A y \in T : x <= y
<1> DEFINE R == {ss \in Nat \X Nat : ss[1] < ss[2]}
<1>1. OpToRel(<, Nat) = R
  BY Zenon DEF OpToRel
<1>2. IsWellFoundedOn(R, Nat)
  BY <1>1, NatLessThanWellFounded
<1>3. \E x \in T : \A y \in T : ~(<<y, x>> \in R)
  <2> HIDE DEF R
  <2> QED  BY <1>2, WFMin
<1>4. PICK x \in T : \A y \in T : ~(<<y, x>> \in R)
  BY <1>3
<1>5. ASSUME NEW y \in T PROVE x <= y
  <2>1. ~(<<y, x>> \in R)
    BY <1>4
  <2>2. x \in Nat /\ y \in Nat
    OBVIOUS
  <2>3. ~(y < x)
    BY <2>1, <2>2
  <2> QED  BY <2>2, <2>3
<1> QED  BY <1>5

(***************************************************************************)
(* Lists.                                                                  *)
(***************************************************************************)

\* Following `next' from `first' to `last', and `prev' back, one meets the
\* elements of s.
IsList(s, first, last, next, prev, U) ==
    /\ s \in Seq(U)
    /\ \A j, k \in 1 .. Len(s) : s[j] = s[k] => j = k
    /\ first = IF Len(s) = 0 THEN None ELSE s[1]
    /\ last = IF Len(s) = 0 THEN None ELSE s[Len(s)]
    /\ \A k \in 1 .. Len(s) : next[s[k]] = IF k = Len(s) THEN None ELSE s[k + 1]
    /\ \A k \in 1 .. Len(s) : prev[s[k]] = IF k = 1 THEN None ELSE s[k - 1]

\* What a list is, for its uses.
LEMMA ListFacts ==
    ASSUME NEW U, NEW s, NEW first, NEW last, NEW next, NEW prev,
           IsList(s, first, last, next, prev, U)
    PROVE  /\ s \in Seq(U) /\ Len(s) \in Nat /\ DOMAIN s = 1 .. Len(s)
           /\ \A j \in 1 .. Len(s) : s[j] \in U
           /\ \A j, k \in 1 .. Len(s) : s[j] = s[k] => j = k
           /\ first = IF Len(s) = 0 THEN None ELSE s[1]
           /\ last = IF Len(s) = 0 THEN None ELSE s[Len(s)]
           /\ \A k \in 1 .. Len(s) : next[s[k]] = IF k = Len(s) THEN None ELSE s[k + 1]
           /\ \A k \in 1 .. Len(s) : prev[s[k]] = IF k = 1 THEN None ELSE s[k - 1]
BY DEF IsList

\* A list read from its end is a list.
LEMMA ReversedIsList ==
    ASSUME NEW U, NEW s, NEW first, NEW last, NEW next, NEW prev,
           IsList(s, first, last, next, prev, U)
    PROVE  /\ IsList(reversed(s), last, first, prev, next, U)
           /\ Len(reversed(s)) = Len(s)
<1> DEFINE r == reversed(s)
           n == Len(s)
<1>1. s \in Seq(U) /\ n \in Nat /\ DOMAIN s = 1 .. n
  BY DEF IsList
<1>2. r = [k \in 1 .. n |-> s[n + 1 - k]]
  BY <1>1 DEF reversed
<1>3. \A k \in 1 .. n : n + 1 - k \in 1 .. n /\ s[n + 1 - k] \in U
  BY <1>1
<1> HIDE DEF n, r
<1>4. r \in Seq(U) /\ Len(r) = n
  BY <1>1, <1>2, <1>3
<1>5. \A k \in 1 .. n : r[k] = s[n + 1 - k]
  BY <1>2
<1>6. \A j, k \in 1 .. n : r[j] = r[k] => j = k
  <2> SUFFICES ASSUME NEW j \in 1 .. n, NEW k \in 1 .. n, r[j] = r[k] PROVE j = k
    OBVIOUS
  <2> DEFINE a == n + 1 - j
             c == n + 1 - k
  <2>1. a \in 1 .. n /\ c \in 1 .. n /\ s[a] = s[c]
    BY <1>3, <1>5
  <2>2. a = c
    <3> HIDE DEF a, c
    <3> QED  BY <2>1 DEF IsList, n
  <2> QED  BY <1>1, <2>2
<1>7. last = IF Len(r) = 0 THEN None ELSE r[1]
  <2>1. last = IF n = 0 THEN None ELSE s[n]
    BY DEF IsList, n
  <2>2. n # 0 => r[1] = s[n]
    BY <1>1, <1>5
  <2> QED  BY <1>4, <2>1, <2>2
<1>8. first = IF Len(r) = 0 THEN None ELSE r[Len(r)]
  <2>1. first = IF n = 0 THEN None ELSE s[1]
    BY DEF IsList, n
  <2>2. n # 0 => r[n] = s[1]
    BY <1>1, <1>5
  <2> QED  BY <1>4, <2>1, <2>2
<1>9. ASSUME NEW k \in 1 .. n
      PROVE  /\ prev[r[k]] = IF k = n THEN None ELSE r[k + 1]
             /\ next[r[k]] = IF k = 1 THEN None ELSE r[k - 1]
  <2> DEFINE m == n + 1 - k
  <2>1. m \in 1 .. n /\ r[k] = s[m] /\ (m = n <=> k = 1) /\ (m = 1 <=> k = n)
    BY SMTT(60), <1>1, <1>3, <1>5
  <2>2. k # n => r[k + 1] = s[m - 1]
    <3> SUFFICES ASSUME k # n PROVE r[k + 1] = s[m - 1]
      OBVIOUS
    <3>1. k + 1 \in 1 .. n /\ n + 1 - (k + 1) = m - 1
      BY <1>1
    <3> QED  BY <1>5, <3>1
  <2>3. k # 1 => r[k - 1] = s[m + 1]
    <3> SUFFICES ASSUME k # 1 PROVE r[k - 1] = s[m + 1]
      OBVIOUS
    <3>1. k - 1 \in 1 .. n /\ n + 1 - (k - 1) = m + 1
      BY <1>1
    <3> QED  BY <1>5, <3>1
  <2> HIDE DEF m
  <2>4. /\ next[s[m]] = IF m = n THEN None ELSE s[m + 1]
        /\ prev[s[m]] = IF m = 1 THEN None ELSE s[m - 1]
    BY <2>1 DEF IsList, n
  <2> QED  BY <2>1, <2>2, <2>3, <2>4
<1> QED  BY <1>4, <1>6, <1>7, <1>8, <1>9 DEF IsList, r, n

\* The elements of a sequence with one more.
LEMMA InsertedElements ==
    ASSUME NEW U, NEW s \in Seq(U), NEW x \in U, NEW k \in 1 .. (Len(s) + 1)
    PROVE  LET t == Abstract!InsertAt(s, k, x)
           IN  /\ t \in Seq(U) /\ Len(t) = Len(s) + 1
               /\ \A j \in 1 .. (Len(s) + 1) :
                     t[j] = IF j < k THEN s[j] ELSE IF j = k THEN x ELSE s[j - 1]
<1> DEFINE a == SubSeq(s, 1, k - 1)
           c == SubSeq(s, k, Len(s))
           t == Abstract!InsertAt(s, k, x)
<1>1. Len(s) \in Nat /\ k \in Nat
  OBVIOUS
<1>2. a \in Seq(U) /\ Len(a) = k - 1 /\ \A j \in 1 .. (k - 1) : a[j] = s[j]
  BY <1>1
<1>3. c \in Seq(U) /\ Len(c) = Len(s) - k + 1 /\ \A j \in 1 .. (Len(s) - k + 1) : c[j] = s[k + j - 1]
  BY <1>1
<1>4. t = a \o <<x>> \o c
  BY DEF Abstract!InsertAt
<1> HIDE DEF a, c, t
<1> DEFINE d == a \o <<x>>
<1>5. d \in Seq(U) /\ Len(d) = k /\ \A j \in 1 .. k : d[j] = IF j < k THEN s[j] ELSE x
  BY <1>1, <1>2
<1> HIDE DEF d
<1>6. t = d \o c
  BY <1>4 DEF d
<1>7. t \in Seq(U) /\ Len(t) = Len(s) + 1
  <2>1. t \in Seq(U) /\ Len(t) = Len(d) + Len(c)
    BY <1>3, <1>5, <1>6, ConcatProperties
  <2> QED  BY <1>1, <1>3, <1>5, <2>1
<1>8. ASSUME NEW j \in 1 .. (Len(s) + 1)
      PROVE  t[j] = IF j < k THEN s[j] ELSE IF j = k THEN x ELSE s[j - 1]
  <2>1. CASE j <= k
    <3>1. j \in 1 .. k /\ t[j] = d[j]
      BY <1>1, <1>3, <1>5, <1>6, <2>1
    <3> QED  BY <1>1, <1>5, <2>1, <3>1
  <2>2. CASE j > k
    <3>1. t[j] = c[j - k]
      BY SMTT(60), <1>1, <1>3, <1>5, <1>6, <2>2
    <3> DEFINE m == j - k
    <3>2. m \in 1 .. (Len(s) - k + 1) /\ k + m - 1 = j - 1
      BY <1>1, <2>2
    <3>3. c[m] = s[k + m - 1]
      <4> HIDE DEF m
      <4> QED  BY <1>3, <3>2
    <3> QED  BY <1>1, <2>2, <3>1, <3>2, <3>3
  <2> QED  BY <1>1, <2>1, <2>2
<1> QED  BY <1>7, <1>8 DEF t

\* The elements of a sequence with one less.
LEMMA RemovedElements ==
    ASSUME NEW U, NEW s \in Seq(U), NEW k \in 1 .. Len(s)
    PROVE  LET t == Abstract!RemoveAt(s, k)
           IN  /\ t \in Seq(U) /\ Len(t) = Len(s) - 1
               /\ \A j \in 1 .. (Len(s) - 1) : t[j] = IF j < k THEN s[j] ELSE s[j + 1]
<1> DEFINE a == SubSeq(s, 1, k - 1)
           c == SubSeq(s, k + 1, Len(s))
           t == Abstract!RemoveAt(s, k)
<1>1. Len(s) \in Nat /\ k \in Nat
  OBVIOUS
<1>2. a \in Seq(U) /\ Len(a) = k - 1 /\ \A j \in 1 .. (k - 1) : a[j] = s[j]
  BY <1>1
<1>3. c \in Seq(U) /\ Len(c) = Len(s) - k /\ \A j \in 1 .. (Len(s) - k) : c[j] = s[k + j]
  BY <1>1
<1>4. t = a \o c
  BY DEF Abstract!RemoveAt
<1> HIDE DEF a, c, t
<1>5. t \in Seq(U) /\ Len(t) = Len(s) - 1
  <2>1. t \in Seq(U) /\ Len(t) = Len(a) + Len(c)
    BY <1>2, <1>3, <1>4, ConcatProperties
  <2> QED  BY <1>1, <1>2, <1>3, <2>1
<1>6. ASSUME NEW j \in 1 .. (Len(s) - 1)
      PROVE  t[j] = IF j < k THEN s[j] ELSE s[j + 1]
  <2>1. CASE j < k
    <3>1. j \in 1 .. (k - 1) /\ t[j] = a[j]
      BY <1>1, <1>2, <1>3, <1>4, <2>1
    <3> QED  BY <1>1, <1>2, <2>1, <3>1
  <2>2. CASE j >= k
    <3> DEFINE m == j - k + 1
    <3>1. t[j] = c[m] /\ m \in 1 .. (Len(s) - k) /\ k + m = j + 1
      BY <1>1, <1>2, <1>3, <1>4, <2>2
    <3>2. c[m] = s[k + m]
      <4> HIDE DEF m
      <4> QED  BY <1>3, <3>1
    <3> QED  BY <1>1, <2>2, <3>1, <3>2
  <2> QED  BY <1>1, <2>1, <2>2
<1> QED  BY <1>5, <1>6 DEF t

\* A list into which x is linked at place k is the list with x there.
LEMMA InsertIntoList ==
    ASSUME NEW U, None \notin U, NEW s, NEW x \in U, NEW k \in 1 .. (Len(s) + 1),
           NEW first, NEW last, NEW next, NEW prev, NEW first2, NEW last2, NEW next2, NEW prev2,
           IsList(s, first, last, next, prev, U),
           \A j \in 1 .. Len(s) : s[j] # x,
           first2 = IF k = 1 THEN x ELSE first,
           last2 = IF k = Len(s) + 1 THEN x ELSE last,
           next2[x] = IF k = Len(s) + 1 THEN None ELSE s[k],
           prev2[x] = IF k = 1 THEN None ELSE s[k - 1],
           \A j \in 1 .. Len(s) : next2[s[j]] = IF j = k - 1 THEN x ELSE next[s[j]],
           \A j \in 1 .. Len(s) : prev2[s[j]] = IF j = k THEN x ELSE prev[s[j]]
    PROVE  IsList(Abstract!InsertAt(s, k, x), first2, last2, next2, prev2, U)
<1> DEFINE t == Abstract!InsertAt(s, k, x)
           n == Len(s)
<1>1. s \in Seq(U) /\ n \in Nat /\ k \in Nat /\ k \in 1 .. (n + 1)
  BY DEF IsList
<1>2. /\ t \in Seq(U) /\ Len(t) = n + 1
      /\ \A j \in 1 .. (n + 1) : t[j] = IF j < k THEN s[j] ELSE IF j = k THEN x ELSE s[j - 1]
  BY <1>1, InsertedElements
<1> HIDE DEF t
<1>3a. \A i, j \in 1 .. n : s[i] = s[j] => i = j
  BY DEF IsList
<1>3. /\ first = IF n = 0 THEN None ELSE s[1]
      /\ last = IF n = 0 THEN None ELSE s[n]
      /\ \A j \in 1 .. n : next[s[j]] = IF j = n THEN None ELSE s[j + 1]
      /\ \A j \in 1 .. n : prev[s[j]] = IF j = 1 THEN None ELSE s[j - 1]
  BY DEF IsList
<1> HIDE DEF n
<1>4. /\ first2 = IF k = 1 THEN x ELSE first
      /\ last2 = IF k = n + 1 THEN x ELSE last
      /\ next2[x] = IF k = n + 1 THEN None ELSE s[k]
      /\ prev2[x] = IF k = 1 THEN None ELSE s[k - 1]
      /\ \A j \in 1 .. n : next2[s[j]] = IF j = k - 1 THEN x ELSE next[s[j]]
      /\ \A j \in 1 .. n : prev2[s[j]] = IF j = k THEN x ELSE prev[s[j]]
      /\ \A j \in 1 .. n : s[j] # x
  BY DEF n
<1>5. \A i, j \in 1 .. (n + 1) : t[i] = t[j] => i = j
  <2> SUFFICES ASSUME NEW i \in 1 .. (n + 1), NEW j \in 1 .. (n + 1), t[i] = t[j], i < j
               PROVE  FALSE
    BY <1>1
  <2>1. CASE j < k
    <3>1. i \in 1 .. n /\ j \in 1 .. n /\ t[i] = s[i] /\ t[j] = s[j]
      BY <1>1, <1>2, <2>1
    <3>2. s[i] = s[j]
      BY <3>1
    <3>3. i = j
      BY <1>3a, <3>1, <3>2
    <3> QED  BY <1>1, <3>3
  <2>2. CASE j = k
    <3>1. i \in 1 .. n /\ t[i] = s[i] /\ t[j] = x
      BY <1>1, <1>2, <2>2
    <3> QED  BY <1>4, <3>1
  <2>3. CASE j > k /\ i = k
    <3>1. j - 1 \in 1 .. n /\ t[i] = x /\ t[j] = s[j - 1]
      BY <1>1, <1>2, <2>3
    <3> QED  BY <1>4, <3>1
  <2>4. CASE j > k /\ i # k
    <3> DEFINE a == IF i < k THEN i ELSE i - 1
               c == j - 1
    <3>1. a \in 1 .. n /\ c \in 1 .. n /\ t[i] = s[a] /\ t[j] = s[c] /\ a # c
      BY SMTT(60), <1>1, <1>2, <2>4
    <3> HIDE DEF a, c
    <3>2. s[a] = s[c]
      BY <3>1
    <3> QED  BY <1>3a, <3>1, <3>2
  <2> QED  BY <1>1, <2>1, <2>2, <2>3, <2>4
<1>6. first2 = t[1]
  BY <1>1, <1>2, <1>3, <1>4
<1>7. last2 = t[n + 1]
  <2>1. CASE k = n + 1
    BY <1>1, <1>2, <1>4, <2>1
  <2>2. CASE k # n + 1
    BY <1>1, <1>2, <1>3, <1>4, <2>2
  <2> QED  BY <2>1, <2>2
<1>8. ASSUME NEW j \in 1 .. (n + 1)
      PROVE  /\ next2[t[j]] = IF j = n + 1 THEN None ELSE t[j + 1]
             /\ prev2[t[j]] = IF j = 1 THEN None ELSE t[j - 1]
  <2>0. /\ j # n + 1 => j + 1 \in 1 .. (n + 1)
        /\ j # 1 => j - 1 \in 1 .. (n + 1)
    BY <1>1
  <2>1. CASE j = k
    <3>1. t[j] = x
      BY <1>2, <2>1
    <3>2. ASSUME j # n + 1 PROVE t[j + 1] = s[k]
      <4> DEFINE m == j + 1
      <4>1. m \in 1 .. (n + 1) /\ ~(m < k) /\ m # k /\ m - 1 = k
        BY <1>1, <2>1, <3>2
      <4>2. t[m] = s[m - 1]
        <5> HIDE DEF m
        <5> QED  BY <1>2, <4>1
      <4> QED  BY <4>1, <4>2
    <3>3. ASSUME j # 1 PROVE t[j - 1] = s[k - 1]
      <4> DEFINE m == j - 1
      <4>1. m \in 1 .. (n + 1) /\ m < k /\ m = k - 1
        BY <1>1, <2>1, <3>3
      <4>2. t[m] = s[m]
        <5> HIDE DEF m
        <5> QED  BY <1>2, <4>1
      <4> QED  BY <4>1, <4>2
    <3> QED  BY <1>4, <2>1, <3>1, <3>2, <3>3
  <2>2. CASE j < k
    <3>1. /\ j \in 1 .. n /\ t[j] = s[j] /\ j # n + 1 /\ j # k
          /\ t[j + 1] = IF j = k - 1 THEN x ELSE s[j + 1]
          /\ j # 1 => t[j - 1] = s[j - 1]
          /\ j # k - 1 => j # n
      BY SMTT(60), <1>1, <1>2, <2>0, <2>2
    <3> QED  BY <1>3, <1>4, <3>1
  <2>3. CASE j > k
    <3> DEFINE m == j - 1
    <3>1. /\ m \in 1 .. n /\ t[j] = s[m] /\ j # 1 /\ m # k - 1
          /\ j # n + 1 => m # n /\ t[j + 1] = s[m + 1]
          /\ j = n + 1 => m = n
          /\ t[j - 1] = IF m = k THEN x ELSE s[m - 1]
          /\ m # k => m # 1
      BY SMTT(60), <1>1, <1>2, <2>0, <2>3
    <3> HIDE DEF m
    <3> QED  BY <1>3, <1>4, <3>1
  <2> QED  BY <1>1, <2>1, <2>2, <2>3
<1>9. n + 1 # 0
  BY <1>1
<1> QED  BY <1>2, <1>5, <1>6, <1>7, <1>8, <1>9 DEF IsList, t

\* A list out of which the element at place k is linked is the list without it.
LEMMA RemoveFromList ==
    ASSUME NEW U, None \notin U, NEW s, NEW k \in 1 .. Len(s),
           NEW first, NEW last, NEW next, NEW prev, NEW first2, NEW last2, NEW next2, NEW prev2,
           IsList(s, first, last, next, prev, U),
           first2 = IF k = 1 THEN next[s[k]] ELSE first,
           last2 = IF k = Len(s) THEN prev[s[k]] ELSE last,
           \A j \in 1 .. Len(s) : j # k =>
              next2[s[j]] = IF j = k - 1 THEN next[s[k]] ELSE next[s[j]],
           \A j \in 1 .. Len(s) : j # k =>
              prev2[s[j]] = IF j = k + 1 THEN prev[s[k]] ELSE prev[s[j]]
    PROVE  IsList(Abstract!RemoveAt(s, k), first2, last2, next2, prev2, U)
<1> DEFINE t == Abstract!RemoveAt(s, k)
           n == Len(s)
<1>1. s \in Seq(U) /\ n \in Nat /\ k \in Nat /\ k \in 1 .. n
  BY DEF IsList
<1>2. /\ t \in Seq(U) /\ Len(t) = n - 1
      /\ \A j \in 1 .. (n - 1) : t[j] = IF j < k THEN s[j] ELSE s[j + 1]
  BY <1>1, RemovedElements
<1> HIDE DEF t
<1>3. /\ \A i, j \in 1 .. n : s[i] = s[j] => i = j
      /\ first = s[1] /\ last = s[n]
      /\ \A j \in 1 .. n : next[s[j]] = IF j = n THEN None ELSE s[j + 1]
      /\ \A j \in 1 .. n : prev[s[j]] = IF j = 1 THEN None ELSE s[j - 1]
  BY <1>1 DEF IsList
<1>4. /\ first2 = IF k = 1 THEN next[s[k]] ELSE first
      /\ last2 = IF k = n THEN prev[s[k]] ELSE last
      /\ \A j \in 1 .. n : j # k => next2[s[j]] = IF j = k - 1 THEN next[s[k]] ELSE next[s[j]]
      /\ \A j \in 1 .. n : j # k => prev2[s[j]] = IF j = k + 1 THEN prev[s[k]] ELSE prev[s[j]]
  OBVIOUS
<1> HIDE DEF n
<1> DEFINE at(j) == IF j < k THEN j ELSE j + 1
<1>5. \A j \in 1 .. (n - 1) : at(j) \in 1 .. n /\ at(j) # k /\ t[j] = s[at(j)]
  BY <1>1, <1>2
<1>6. \A i, j \in 1 .. (n - 1) : t[i] = t[j] => i = j
  <2> SUFFICES ASSUME NEW i \in 1 .. (n - 1), NEW j \in 1 .. (n - 1), t[i] = t[j]
               PROVE  i = j
    OBVIOUS
  <2>1. at(i) = at(j)
    <3> HIDE DEF at
    <3> QED  BY SMTT(60), <1>3, <1>5
  <2> QED  BY <1>1, <2>1
<1>7. first2 = IF n - 1 = 0 THEN None ELSE t[1]
  <2>1. CASE n = 1
    BY <1>1, <1>3, <1>4, <2>1
  <2>2. CASE n # 1 /\ k = 1
    <3>1. next[s[1]] = s[2]
      BY <1>1, <1>3, <2>2
    <3>2. t[1] = s[2]
      BY <1>1, <1>2, <2>2
    <3> QED  BY <1>1, <1>4, <2>2, <3>1, <3>2
  <2>3. CASE n # 1 /\ k # 1
    <3>1. 1 \in 1 .. (n - 1) /\ 1 < k
      BY <1>1, <2>3
    <3>2. t[1] = s[1]
      BY <1>2, <3>1
    <3> QED  BY <1>1, <1>3, <1>4, <2>3, <3>2
  <2> QED  BY <2>1, <2>2, <2>3
<1>8. last2 = IF n - 1 = 0 THEN None ELSE t[n - 1]
  <2>1. CASE n = 1
    BY <1>1, <1>3, <1>4, <2>1
  <2>2. CASE n # 1 /\ k = n
    <3>1. prev[s[n]] = s[n - 1]
      BY <1>1, <1>3, <2>2
    <3>2. t[n - 1] = s[n - 1]
      BY <1>1, <1>2, <2>2
    <3> QED  BY <1>1, <1>4, <2>2, <3>1, <3>2
  <2>3. CASE n # 1 /\ k # n
    <3> DEFINE m == n - 1
    <3>1. m \in 1 .. (n - 1) /\ ~(m < k) /\ m + 1 = n
      BY <1>1, <2>3
    <3>2. t[m] = s[m + 1]
      <4> HIDE DEF m
      <4> QED  BY <1>2, <3>1
    <3> QED  BY <1>1, <1>3, <1>4, <2>3, <3>1, <3>2
  <2> QED  BY <2>1, <2>2, <2>3
<1>9. ASSUME NEW j \in 1 .. (n - 1)
      PROVE  /\ next2[t[j]] = IF j = n - 1 THEN None ELSE t[j + 1]
             /\ prev2[t[j]] = IF j = 1 THEN None ELSE t[j - 1]
  <2>0. /\ j # n - 1 => j + 1 \in 1 .. (n - 1)
        /\ j # 1 => j - 1 \in 1 .. (n - 1)
    BY SMTT(60), <1>1
  <2>1. CASE j < k
    <3>1. /\ j \in 1 .. n /\ j # k /\ t[j] = s[j] /\ j # n /\ j # k + 1
          /\ j # 1 => t[j - 1] = s[j - 1]
          /\ j # n - 1 => t[j + 1] = IF j = k - 1 THEN s[j + 2] ELSE s[j + 1]
          /\ j = n - 1 => k = n /\ j = k - 1
      BY <1>1, <1>2, <2>0, <2>1
    <3>2. prev2[t[j]] = IF j = 1 THEN None ELSE t[j - 1]
      BY <1>3, <1>4, <3>1
    <3>3. next2[s[j]] = IF j = k - 1 THEN next[s[k]] ELSE s[j + 1]
      BY <1>3, <1>4, <3>1
    <3>4. CASE j = k - 1
      <4>1. next[s[k]] = IF k = n THEN None ELSE s[k + 1]
        BY <1>1, <1>3
      <4>2. k + 1 = j + 2 /\ (k = n <=> j = n - 1)
        BY <1>1, <3>4
      <4> QED  BY <3>1, <3>2, <3>3, <3>4, <4>1, <4>2
    <3>5. CASE j # k - 1
      BY <3>1, <3>2, <3>3, <3>5
    <3> QED  BY <3>4, <3>5
  <2>2. CASE j >= k
    <3> DEFINE m == j + 1
    <3>1. /\ m \in 1 .. n /\ m # k /\ t[j] = s[m] /\ m # 1 /\ m # k - 1
          /\ j # n - 1 => m # n /\ t[j + 1] = s[m + 1]
          /\ j = n - 1 => m = n
          /\ j # 1 => t[j - 1] = IF m = k + 1 THEN s[k - 1] ELSE s[m - 1]
          /\ j = 1 => k = 1 /\ m = k + 1
          /\ m = k + 1 => j = k
      BY <1>1, <1>2, <2>0, <2>2
    <3> HIDE DEF m
    <3>2. next2[t[j]] = IF j = n - 1 THEN None ELSE t[j + 1]
      BY <1>3, <1>4, <3>1
    <3>3. prev2[s[m]] = IF m = k + 1 THEN prev[s[k]] ELSE s[m - 1]
      BY <1>3, <1>4, <3>1
    <3>4. prev[s[k]] = IF k = 1 THEN None ELSE s[k - 1]
      BY <1>1, <1>3
    <3>5. CASE m = k + 1
      BY <3>1, <3>2, <3>3, <3>4, <3>5
    <3>6. CASE m # k + 1
      BY <3>1, <3>2, <3>3, <3>6
    <3> QED  BY <3>5, <3>6
  <2> QED  BY <1>1, <2>1, <2>2
<1> QED  BY <1>1, <1>2, <1>6, <1>7, <1>8, <1>9 DEF IsList, t

\* Links elsewhere do not matter to a list.
LEMMA SameList ==
    ASSUME NEW U, NEW s, NEW first, NEW last, NEW next, NEW prev, NEW next2, NEW prev2,
           IsList(s, first, last, next, prev, U),
           \A j \in 1 .. Len(s) : next2[s[j]] = next[s[j]] /\ prev2[s[j]] = prev[s[j]]
    PROVE  IsList(s, first, last, next2, prev2, U)
BY DEF IsList

\* A list whose elements other than x, which is not among them, are linked as
\* before but for x between p and n, the elements at places k - 1 and k.
LEMMA LinkIn ==
    ASSUME NEW U, None \notin U, NEW s, NEW x \in U, NEW k \in 1 .. (Len(s) + 1), NEW p, NEW n,
           NEW first, NEW last, NEW next, NEW prev, NEW first2, NEW last2, NEW next2, NEW prev2,
           IsList(s, first, last, next, prev, U),
           \A j \in 1 .. Len(s) : s[j] # x,
           p = IF k = 1 THEN None ELSE s[k - 1],
           n = IF k = Len(s) + 1 THEN None ELSE s[k],
           first2 = IF p = None THEN x ELSE first,
           last2 = IF n = None THEN x ELSE last,
           next2[x] = n, prev2[x] = p,
           \A y \in U \ {x} : next2[y] = IF y = p THEN x ELSE next[y],
           \A y \in U \ {x} : prev2[y] = IF y = n THEN x ELSE prev[y]
    PROVE  IsList(Abstract!InsertAt(s, k, x), first2, last2, next2, prev2, U)
<1>1. s \in Seq(U) /\ Len(s) \in Nat /\ k \in Nat
  BY DEF IsList
<1>2. \A i, j \in 1 .. Len(s) : s[i] = s[j] => i = j
  BY DEF IsList
<1>3. \A j \in 1 .. Len(s) : s[j] \in U \ {x} /\ s[j] # None
  BY <1>1
<1>4. k # 1 => k - 1 \in 1 .. Len(s)
  BY <1>1
<1>5. k # Len(s) + 1 => k \in 1 .. Len(s)
  BY <1>1
<1>6. p = None <=> k = 1
  BY <1>3, <1>4
<1>7. n = None <=> k = Len(s) + 1
  BY <1>3, <1>5
<1>8. ASSUME NEW j \in 1 .. Len(s)
      PROVE  next2[s[j]] = IF j = k - 1 THEN x ELSE next[s[j]]
  <2>1. s[j] = p <=> j = k - 1
    <3>1. CASE k = 1
      BY <1>1, <1>3, <3>1
    <3>2. CASE k # 1
      <4> DEFINE m == k - 1
      <4>1. m \in 1 .. Len(s) /\ p = s[m]
        BY <1>4, <3>2
      <4> HIDE DEF m
      <4>2. s[j] = p <=> j = m
        BY <1>2, <4>1
      <4> QED  BY <4>2 DEF m
    <3> QED  BY <3>1, <3>2
  <2> QED  BY <1>3, <2>1
<1>9. ASSUME NEW j \in 1 .. Len(s)
      PROVE  prev2[s[j]] = IF j = k THEN x ELSE prev[s[j]]
  <2>1. s[j] = n <=> j = k
    <3>1. CASE k = Len(s) + 1
      BY <1>1, <1>3, <3>1
    <3>2. CASE k # Len(s) + 1
      BY <1>2, <1>5, <3>2
    <3> QED  BY <3>1, <3>2
  <2> QED  BY <1>3, <2>1
<1> QED  BY <1>6, <1>7, <1>8, <1>9, InsertIntoList

\* A list whose elements are linked as before but that the neighbours of
\* the element x at place k are linked to each other.
LEMMA LinkOut ==
    ASSUME NEW U, None \notin U, NEW s, NEW k \in 1 .. Len(s), NEW p, NEW n,
           NEW first, NEW last, NEW next, NEW prev, NEW first2, NEW last2, NEW next2, NEW prev2,
           IsList(s, first, last, next, prev, U),
           p = prev[s[k]], n = next[s[k]],
           first2 = IF p = None THEN n ELSE first,
           last2 = IF n = None THEN p ELSE last,
           \A y \in U \ {s[k]} : next2[y] = IF y = p THEN n ELSE next[y],
           \A y \in U \ {s[k]} : prev2[y] = IF y = n THEN p ELSE prev[y]
    PROVE  IsList(Abstract!RemoveAt(s, k), first2, last2, next2, prev2, U)
<1>1. s \in Seq(U) /\ Len(s) \in Nat /\ k \in Nat
  BY DEF IsList
<1>2. \A i, j \in 1 .. Len(s) : s[i] = s[j] => i = j
  BY DEF IsList
<1>3. \A j \in 1 .. Len(s) : s[j] \in U /\ s[j] # None
  BY <1>1
<1>4. p = (IF k = 1 THEN None ELSE s[k - 1]) /\ (k # 1 => k - 1 \in 1 .. Len(s))
  BY <1>1 DEF IsList
<1>5. n = (IF k = Len(s) THEN None ELSE s[k + 1]) /\ (k # Len(s) => k + 1 \in 1 .. Len(s))
  BY <1>1 DEF IsList
<1>6. p = None <=> k = 1
  BY <1>3, <1>4
<1>7. n = None <=> k = Len(s)
  BY <1>3, <1>5
<1>8. ASSUME NEW j \in 1 .. Len(s), j # k
      PROVE  next2[s[j]] = IF j = k - 1 THEN next[s[k]] ELSE next[s[j]]
  <2>1. s[j] = p <=> j = k - 1
    <3>1. CASE k = 1
      BY <1>1, <1>3, <1>4, <3>1
    <3>2. CASE k # 1
      <4> DEFINE m == k - 1
      <4>1. m \in 1 .. Len(s) /\ p = s[m]
        BY <1>4, <3>2
      <4> HIDE DEF m
      <4>2. s[j] = p <=> j = m
        BY <1>2, <4>1
      <4> QED  BY <4>2 DEF m
    <3> QED  BY <3>1, <3>2
  <2>2. s[j] # s[k]
    BY <1>2, <1>8
  <2> QED  BY <1>3, <2>1, <2>2
<1>9. ASSUME NEW j \in 1 .. Len(s), j # k
      PROVE  prev2[s[j]] = IF j = k + 1 THEN prev[s[k]] ELSE prev[s[j]]
  <2>1. s[j] = n <=> j = k + 1
    <3>1. CASE k = Len(s)
      BY <1>1, <1>3, <1>5, <3>1
    <3>2. CASE k # Len(s)
      <4> DEFINE m == k + 1
      <4>1. m \in 1 .. Len(s) /\ n = s[m]
        BY <1>5, <3>2
      <4> HIDE DEF m
      <4>2. s[j] = n <=> j = m
        BY <1>2, <4>1
      <4> QED  BY <4>2 DEF m
    <3> QED  BY <3>1, <3>2
  <2>2. s[j] # s[k]
    BY <1>2, <1>9
  <2> QED  BY <1>3, <2>1, <2>2
<1> QED  BY <1>6, <1>7, <1>8, <1>9, RemoveFromList

\* A list cut before place k gives two.
LEMMA CutList ==
    ASSUME NEW U, None \notin U, NEW s, NEW k \in 1 .. Len(s),
           NEW first, NEW last, NEW next, NEW prev, NEW first2, NEW next2, NEW prev2,
           IsList(s, first, last, next, prev, U),
           first2 = IF prev[s[k]] = None THEN None ELSE first,
           \A y \in U : next2[y] = IF y = prev[s[k]] THEN None ELSE next[y],
           \A y \in U : prev2[y] = IF y = s[k] THEN None ELSE prev[y]
    PROVE  /\ IsList(SubSeq(s, 1, k - 1), first2, prev[s[k]], next2, prev2, U)
           /\ IsList(SubSeq(s, k, Len(s)), s[k], last, next2, prev2, U)
<1> DEFINE n == Len(s)
           a == SubSeq(s, 1, k - 1)
           c == SubSeq(s, k, n)
           p == prev[s[k]]
<1>1. s \in Seq(U) /\ n \in Nat /\ k \in Nat /\ k \in 1 .. n
  BY DEF IsList
<1>2. \A i, j \in 1 .. n : s[i] = s[j] => i = j
  BY DEF IsList
<1>3. \A j \in 1 .. n : s[j] \in U /\ s[j] # None
  BY <1>1
<1>4. /\ first = s[1] /\ last = s[n]
      /\ \A j \in 1 .. n : next[s[j]] = IF j = n THEN None ELSE s[j + 1]
      /\ \A j \in 1 .. n : prev[s[j]] = IF j = 1 THEN None ELSE s[j - 1]
  BY <1>1 DEF IsList
<1>5. p = (IF k = 1 THEN None ELSE s[k - 1]) /\ (k # 1 => k - 1 \in 1 .. n)
  BY <1>1, <1>4
<1>6. a \in Seq(U) /\ Len(a) = k - 1 /\ \A j \in 1 .. (k - 1) : a[j] = s[j]
  BY <1>1
<1>7. c \in Seq(U) /\ Len(c) = n - k + 1 /\ \A j \in 1 .. (n - k + 1) : c[j] = s[k + j - 1]
  BY <1>1
<1> HIDE DEF a, c, p, n
<1>8. \A j \in 1 .. n : /\ next2[s[j]] = IF j = k - 1 THEN None ELSE next[s[j]]
                        /\ prev2[s[j]] = IF j = k THEN None ELSE prev[s[j]]
  <2> SUFFICES ASSUME NEW j \in 1 .. n
               PROVE  /\ next2[s[j]] = IF j = k - 1 THEN None ELSE next[s[j]]
                      /\ prev2[s[j]] = IF j = k THEN None ELSE prev[s[j]]
    OBVIOUS
  <2>1. s[j] = p <=> j = k - 1
    <3>1. CASE k = 1
      BY <1>1, <1>3, <1>5, <3>1
    <3>2. CASE k # 1
      <4> DEFINE m == k - 1
      <4>1. m \in 1 .. n /\ p = s[m]
        BY <1>5, <3>2
      <4> HIDE DEF m
      <4>2. s[j] = p <=> j = m
        BY <1>2, <4>1
      <4> QED  BY <4>2 DEF m
    <3> QED  BY <3>1, <3>2
  <2>2. s[j] = s[k] <=> j = k
    BY <1>1, <1>2
  <2> QED  BY <1>3, <2>1, <2>2 DEF p
<1>9. IsList(a, first2, p, next2, prev2, U)
  <2>1. \A i, j \in 1 .. (k - 1) : a[i] = a[j] => i = j
    <3> SUFFICES ASSUME NEW i \in 1 .. (k - 1), NEW j \in 1 .. (k - 1), a[i] = a[j] PROVE i = j
      OBVIOUS
    <3>1. i \in 1 .. n /\ j \in 1 .. n /\ s[i] = s[j]
      BY <1>1, <1>6
    <3> QED  BY <1>2, <3>1
  <2>2. p = None <=> k = 1
    BY <1>3, <1>5
  <2>3. first2 = IF k - 1 = 0 THEN None ELSE a[1]
    <3>1. k # 1 => 1 \in 1 .. (k - 1)
      BY <1>1
    <3>2. k # 1 => a[1] = first
      BY <1>4, <1>6, <3>1
    <3> QED  BY <1>1, <2>2, <3>2 DEF p
  <2>4. p = IF k - 1 = 0 THEN None ELSE a[k - 1]
    <3>1. k # 1 => k - 1 \in 1 .. (k - 1)
      BY <1>1
    <3> QED  BY <1>1, <1>5, <1>6, <3>1
  <2>5. ASSUME NEW j \in 1 .. (k - 1)
        PROVE  /\ next2[a[j]] = IF j = k - 1 THEN None ELSE a[j + 1]
               /\ prev2[a[j]] = IF j = 1 THEN None ELSE a[j - 1]
    <3>1. j \in 1 .. n /\ j # k /\ j # n /\ a[j] = s[j]
      BY <1>1, <1>6
    <3>2. next2[s[j]] = IF j = k - 1 THEN None ELSE s[j + 1]
      BY <1>4, <1>8, <3>1
    <3>3. prev2[s[j]] = IF j = 1 THEN None ELSE s[j - 1]
      BY <1>4, <1>8, <3>1
    <3>4. ASSUME j # k - 1 PROVE a[j + 1] = s[j + 1]
      <4>1. j + 1 \in 1 .. (k - 1)
        BY <1>1, <3>4
      <4> QED  BY <1>6, <4>1
    <3>5. ASSUME j # 1 PROVE a[j - 1] = s[j - 1]
      <4>1. j - 1 \in 1 .. (k - 1)
        BY <1>1, <3>5
      <4> QED  BY <1>6, <4>1
    <3> QED  BY <3>1, <3>2, <3>3, <3>4, <3>5
  <2> QED  BY <1>6, <2>1, <2>3, <2>4, <2>5 DEF IsList
<1>10. IsList(c, s[k], last, next2, prev2, U)
  <2> DEFINE l == n - k + 1
  <2>0. l \in Nat /\ l # 0 /\ Len(c) = l
    BY <1>1, <1>7
  <2>1. \A i, j \in 1 .. l : c[i] = c[j] => i = j
    <3> SUFFICES ASSUME NEW i \in 1 .. l, NEW j \in 1 .. l, c[i] = c[j] PROVE i = j
      OBVIOUS
    <3> DEFINE x == k + i - 1
               y == k + j - 1
    <3>1. x \in 1 .. n /\ y \in 1 .. n /\ s[x] = s[y]
      BY <1>1, <1>7
    <3>2. x = y
      <4> HIDE DEF x, y
      <4> QED  BY <1>2, <3>1
    <3> QED  BY <1>1, <3>2
  <2>2. s[k] = c[1]
    <3>1. 1 \in 1 .. l /\ k + 1 - 1 = k
      BY <1>1
    <3> QED  BY <1>7, <3>1
  <2>3. last = c[l]
    <3>1. l \in 1 .. l /\ k + l - 1 = n
      BY <1>1
    <3>2. c[l] = s[k + l - 1]
      <4> HIDE DEF l
      <4> QED  BY <1>7, <3>1 DEF l
    <3> QED  BY <1>4, <3>1, <3>2
  <2>4. ASSUME NEW j \in 1 .. l
        PROVE  /\ next2[c[j]] = IF j = l THEN None ELSE c[j + 1]
               /\ prev2[c[j]] = IF j = 1 THEN None ELSE c[j - 1]
    <3> DEFINE m == k + j - 1
    <3>1. m \in 1 .. n /\ m # k - 1 /\ c[j] = s[m] /\ (m = n <=> j = l) /\ (m = k <=> j = 1) /\ (j # 1 => m # 1)
      BY SMTT(60), <1>1, <1>7
    <3>2. ASSUME j # l PROVE c[j + 1] = s[m + 1]
      <4>1. j + 1 \in 1 .. l /\ k + (j + 1) - 1 = m + 1
        BY SMTT(60), <1>1, <3>2
      <4> QED  BY <1>7, <4>1
    <3>3. ASSUME j # 1 PROVE c[j - 1] = s[m - 1]
      <4>1. j - 1 \in 1 .. l /\ k + (j - 1) - 1 = m - 1
        BY <1>1, <3>3
      <4> QED  BY <1>7, <4>1
    <3> HIDE DEF m
    <3>4. next2[s[m]] = IF m = n THEN None ELSE s[m + 1]
      BY <1>4, <1>8, <3>1
    <3>5. prev2[s[m]] = IF m = k THEN None ELSE prev[s[m]]
      BY <1>8, <3>1
    <3>6. prev[s[m]] = IF m = 1 THEN None ELSE s[m - 1]
      BY <1>4, <3>1
    <3> QED  BY <3>1, <3>2, <3>3, <3>4, <3>5, <3>6
  <2> HIDE DEF l
  <2> QED  BY <1>7, <2>0, <2>1, <2>2, <2>3, <2>4 DEF IsList
<1> QED  BY <1>9, <1>10 DEF a, c, p, n


\* What `nth' of listing is defined by.
IsNth(f, first, stop, next, most) ==
    f = [n \in 0 .. most |-> IF n = 0 THEN first
            ELSE IF f[n - 1] \in {None, stop} THEN None ELSE next[f[n - 1]]]

\* An iterator that starts at the first element of a list and stops where the
\* links end, or behind the last element, yields the list.
LEMMA ListingIs ==
    ASSUME NEW U, None \notin U, NEW s, NEW first, NEW last, NEW next, NEW prev,
           NEW stop \in {None, last}, NEW most \in Nat,
           IsList(s, first, last, next, prev, U), Len(s) <= most
    PROVE  listing(first, stop, next, most) = s
<1> DEFINE l == Len(s)
           g == [n \in 0 .. most |-> IF n < l THEN s[n + 1] ELSE None]
           Eq(f) == IsNth(f, first, stop, next, most)
           nth == CHOOSE f : Eq(f)
<1>1. s \in Seq(U) /\ l \in Nat /\ l <= most
  BY DEF IsList
<1>2. \A i, j \in 1 .. l : s[i] = s[j] => i = j
  BY DEF IsList
<1>3. \A j \in 1 .. l : s[j] \in U /\ s[j] # None
  BY <1>1
<1>4. /\ first = IF l = 0 THEN None ELSE s[1]
      /\ last = IF l = 0 THEN None ELSE s[l]
      /\ \A j \in 1 .. l : next[s[j]] = IF j = l THEN None ELSE s[j + 1]
  BY DEF IsList
<1>5. l # 0 => l \in 1 .. l
  BY <1>1
<1> HIDE DEF l
<1>6. ASSUME NEW n \in 0 .. most
      PROVE  g[n] = IF n = 0 THEN first
                    ELSE IF g[n - 1] \in {None, stop} THEN None ELSE next[g[n - 1]]
  <2>1. CASE n = 0
    <3>1. g[0] = first
      BY <1>1, <1>4
    <3> QED  BY <2>1, <3>1
  <2>2. CASE n # 0 /\ n > l
    <3>1. g[n] = None /\ g[n - 1] = None
      BY <1>1, <2>2
    <3> QED  BY <2>2, <3>1
  <2>3. CASE n # 0 /\ n <= l
    <3>1. n \in 1 .. l /\ g[n - 1] = s[n]
      BY <1>1, <2>3
    <3>2. g[n] = IF n = l THEN None ELSE s[n + 1]
      BY <1>1, <2>3
    <3>3. next[s[n]] = (IF n = l THEN None ELSE s[n + 1]) /\ s[n] # None
      BY <1>3, <1>4, <3>1
    <3>4. n # l => s[n] # stop
      BY <1>1, <1>2, <1>3, <1>4, <1>5, <3>1
    <3> HIDE DEF g
    <3> QED  BY <2>3, <3>1, <3>2, <3>3, <3>4
  <2> QED  BY <1>1, <2>1, <2>2, <2>3
<1>7. Eq(g)
  <2>1. g = [n \in 0 .. most |-> g[n]]
    OBVIOUS
  <2> HIDE DEF g
  <2> QED  BY <1>6, <2>1 DEF IsNth
<1>8. Eq(nth)
  <2> HIDE DEF Eq, g
  <2> QED  BY <1>7
<1>9. nth = g
  <2> DEFINE T == {n \in 0 .. most : nth[n] # g[n]}
  <2>0. /\ nth = [n \in 0 .. most |-> nth[n]]
        /\ \A n \in 0 .. most : nth[n] = IF n = 0 THEN first
              ELSE IF nth[n - 1] \in {None, stop} THEN None ELSE next[nth[n - 1]]
    <3> HIDE DEF nth
    <3> QED  BY <1>8 DEF IsNth
  <2> HIDE DEF nth
  <2>1. T = {}
    <3> SUFFICES ASSUME T # {} PROVE FALSE
      OBVIOUS
    <3>1. T \subseteq Nat
      OBVIOUS
    <3>2. PICK n \in T : \A m \in T : n <= m
      <4> HIDE DEF T
      <4> QED  BY <3>1, NatMin
    <3>3. n \in 0 .. most /\ nth[n] # g[n]
      OBVIOUS
    <3> HIDE DEF g
    <3>4. n # 0
      <4>1. 0 \in 0 .. most
        OBVIOUS
      <4> QED  BY <1>6, <2>0, <3>3, <4>1
    <3>5. n - 1 \in 0 .. most /\ ~(n <= n - 1)
      BY <3>3, <3>4
    <3>6. nth[n - 1] = g[n - 1]
      BY <3>2, <3>5
    <3> QED  BY <1>6, <2>0, <3>3, <3>4, <3>6
  <2>2. \A n \in 0 .. most : nth[n] = g[n]
    BY <2>1
  <2>3. g = [n \in 0 .. most |-> g[n]]
    OBVIOUS
  <2> HIDE DEF g
  <2> QED  BY <2>0, <2>2, <2>3
<1>10. listing(first, stop, next, most) =
         [k \in 1 .. Cardinality({n \in 0 .. most : nth[n] # None}) |-> nth[k - 1]]
  BY Zenon DEF listing, IsNth
<1>11. {n \in 0 .. most : g[n] # None} = 0 .. (l - 1)
  <2>1. \A n \in 0 .. most : g[n] # None <=> n < l
    BY <1>1, <1>3
  <2> HIDE DEF g
  <2> QED  BY <1>1, <2>1
<1>12. Cardinality(0 .. (l - 1)) = l
  BY <1>1, FS_Interval
<1>13. listing(first, stop, next, most) = [k \in 1 .. l |-> g[k - 1]]
  <2> HIDE DEF g, nth
  <2> QED  BY <1>9, <1>10, <1>11, <1>12
<1>14. \A k \in 1 .. l : g[k - 1] = s[k]
  BY <1>1
<1>15. s = [k \in 1 .. l |-> s[k]]
  BY <1>1 DEF l
<1> HIDE DEF g
<1> QED  BY <1>13, <1>14, <1>15

\* A list is not longer than there are elements.
LEMMA ListLength ==
    ASSUME NEW U, IsFiniteSet(U), NEW s, NEW first, NEW last, NEW next, NEW prev,
           IsList(s, first, last, next, prev, U)
    PROVE  Len(s) <= Cardinality(U) /\ Cardinality(U) \in Nat
<1>1. s \in Seq(U) /\ Len(s) \in Nat
  BY DEF IsList
<1>2. s \in [1 .. Len(s) -> U]
  BY <1>1
<1>3. \A i, j \in 1 .. Len(s) : s[i] = s[j] => i = j
  BY DEF IsList
<1>4. s \in Injection(1 .. Len(s), U)
  BY <1>2, <1>3 DEF Injection, IsInjective
<1>5. Cardinality(1 .. Len(s)) <= Cardinality(U)
  BY <1>4, FS_Injection
<1>6. Cardinality(1 .. Len(s)) = Len(s)
  BY SMTT(60), <1>1, FS_Interval
<1>7. Cardinality(U) \in Nat
  BY FS_CardinalityType
<1> QED  BY <1>1, <1>5, <1>6, <1>7


\* The members of a sequence are still there when it has one more.
LEMMA InsertedMembers ==
    ASSUME NEW U, NEW s \in Seq(U), NEW x \in U, NEW k \in 1 .. (Len(s) + 1),
           NEW t, t = Abstract!InsertAt(s, k, x)
    PROVE  /\ \E j \in 1 .. Len(t) : t[j] = x
           /\ \A m \in 1 .. Len(s) : \E j \in 1 .. Len(t) : t[j] = s[m]
<1> DEFINE n == Len(s)
<1>2. s \in Seq(U) /\ n \in Nat /\ k \in Nat /\ k \in 1 .. (n + 1)
  OBVIOUS
<1>1. /\ t \in Seq(U) /\ Len(t) = n + 1
      /\ \A j \in 1 .. (n + 1) : t[j] = IF j < k THEN s[j] ELSE IF j = k THEN x ELSE s[j - 1]
  <2> DEFINE r == Abstract!InsertAt(s, k, x)
  <2>1. /\ r \in Seq(U) /\ Len(r) = n + 1
        /\ \A j \in 1 .. (n + 1) : r[j] = IF j < k THEN s[j] ELSE IF j = k THEN x ELSE s[j - 1]
    BY SMTT(60), <1>2, InsertedElements
  <2> QED  BY <2>1
<1> HIDE DEF n
<1>4. \E j \in 1 .. (n + 1) : t[j] = x
  BY <1>1, <1>2
<1>5. ASSUME NEW m \in 1 .. n PROVE \E j \in 1 .. (n + 1) : t[j] = s[m]
  <2>1. CASE m < k
    <3>1. m \in 1 .. (n + 1) /\ t[m] = s[m]
      BY <1>1, <1>2, <2>1
    <3> QED  BY <3>1
  <2>2. CASE m >= k
    <3> DEFINE j == m + 1
    <3>1. j \in 1 .. (n + 1) /\ ~(j < k) /\ j # k /\ j - 1 = m
      BY <1>2, <2>2
    <3>2. t[j] = s[j - 1]
      <4> HIDE DEF j
      <4> QED  BY <1>1, <3>1
    <3> QED  BY <3>1, <3>2
  <2> QED  BY <1>2, <2>1, <2>2
<1> QED  BY <1>1, <1>4, <1>5 DEF n

\* The members of a sequence other than the one at place k are still there when
\* that one is left out.
LEMMA RemovedMembers ==
    ASSUME NEW U, NEW s \in Seq(U), NEW k \in 1 .. Len(s), NEW m \in 1 .. Len(s), m # k
    PROVE  LET t == Abstract!RemoveAt(s, k)
           IN  \E j \in 1 .. Len(t) : t[j] = s[m]
<1> DEFINE t == Abstract!RemoveAt(s, k)
           n == Len(s)
<1>1. /\ t \in Seq(U) /\ Len(t) = n - 1
      /\ \A j \in 1 .. (n - 1) : t[j] = IF j < k THEN s[j] ELSE s[j + 1]
  BY RemovedElements
<1>2. n \in Nat /\ k \in Nat /\ m \in Nat /\ k \in 1 .. n /\ m \in 1 .. n
  OBVIOUS
<1> HIDE DEF t, n
<1>3. CASE m < k
  <2>1. m \in 1 .. (n - 1)
    BY <1>2, <1>3
  <2> QED  BY <1>1, <1>3, <2>1 DEF t
<1>4. CASE m > k
  <2> DEFINE j == m - 1
  <2>1. j \in 1 .. (n - 1) /\ ~(j < k) /\ j + 1 = m
    BY <1>2, <1>4
  <2>2. t[j] = s[j + 1]
    <3> HIDE DEF j
    <3> QED  BY <1>1, <2>1
  <2> QED  BY <1>1, <2>1, <2>2 DEF t
<1> QED  BY <1>2, <1>3, <1>4

\* The one place of an element of a list.
LEMMA PositionIs ==
    ASSUME NEW U, NEW s, NEW first, NEW last, NEW next, NEW prev,
           IsList(s, first, last, next, prev, U), NEW k \in 1 .. Len(s)
    PROVE  Abstract!position(s, s[k]) = k
<1>1. s \in Seq(U) /\ DOMAIN s = 1 .. Len(s)
  BY DEF IsList
<1>2. \A i, j \in 1 .. Len(s) : s[i] = s[j] => i = j
  BY DEF IsList
<1> QED  BY <1>1, <1>2 DEF Abstract!position

(***************************************************************************)
(* The invariant.                                                          *)
(***************************************************************************)

\* The blocks in the layout are a list, and those its iterator yields.
BlocksListed ==
    /\ IsList(blocks, first_block, last_block, block_next, block_prev, Block)
    /\ \A b \in Block : is_block_inserted(b) => \E k \in 1 .. Len(blocks) : blocks[k] = b

\* So are the instructions of every block.
InstsListed ==
    \A b \in Block :
        IsList(block_insts[b], first_inst[b], last_inst[b], inst_next, inst_prev, Inst)

\* The inductive invariant of the refinement.
RInv == LInv /\ BlocksListed /\ InstsListed

\* A list of blocks is what the iterators yield, forwards and backwards.
LEMMA ListedBlocks ==
    ASSUME NEW s, NEW first, NEW last, NEW next, NEW prev,
           IsList(s, first, last, next, prev, Block)
    PROVE  /\ listing(first, None, next, Cardinality(Block)) = s
           /\ listing(last, None, prev, Cardinality(Block)) = reversed(s)
<1>1. None \notin Block /\ IsFiniteSet(Block)
  BY LayoutAssumption, EntityAssumption
<1>2. Len(s) <= Cardinality(Block) /\ Cardinality(Block) \in Nat
  BY <1>1, ListLength
<1>3. IsList(reversed(s), last, first, prev, next, Block) /\ Len(reversed(s)) = Len(s)
  BY ReversedIsList
<1>4. listing(first, None, next, Cardinality(Block)) = s
  BY <1>1, <1>2, ListingIs
<1>5. listing(last, None, prev, Cardinality(Block)) = reversed(s)
  BY <1>1, <1>2, <1>3, ListingIs
<1> QED  BY <1>4, <1>5

\* So is a list of instructions.
LEMMA ListedInsts ==
    ASSUME NEW s, NEW first, NEW last, NEW next, NEW prev,
           IsList(s, first, last, next, prev, Inst)
    PROVE  /\ listing(first, last, next, Cardinality(Inst)) = s
           /\ listing(last, first, prev, Cardinality(Inst)) = reversed(s)
<1>1. None \notin Inst /\ IsFiniteSet(Inst)
  BY LayoutAssumption, EntityAssumption
<1>2. Len(s) <= Cardinality(Inst) /\ Cardinality(Inst) \in Nat
  BY <1>1, ListLength
<1>3. IsList(reversed(s), last, first, prev, next, Inst) /\ Len(reversed(s)) = Len(s)
  BY ReversedIsList
<1>4. listing(first, last, next, Cardinality(Inst)) = s
  BY <1>1, <1>2, ListingIs
<1>5. listing(last, first, prev, Cardinality(Inst)) = reversed(s)
  BY <1>1, <1>2, <1>3, ListingIs
<1> QED  BY <1>4, <1>5

\* Iterating backwards yields the reverse.
LEMMA RInvBothWays ==
    ASSUME RInv PROVE BothWays
<1>1. reversed(blocks) = blocks_back
  BY ListedBlocks DEF RInv, BlocksListed, blocks_back
<1>2. ASSUME NEW b \in Block PROVE reversed(block_insts[b]) = block_insts_back[b]
  <2>1. IsList(block_insts[b], first_inst[b], last_inst[b], inst_next, inst_prev, Inst)
    BY DEF RInv, InstsListed
  <2>2. block_insts_back[b] = listing(last_inst[b], first_inst[b], inst_prev, Cardinality(Inst))
    BY DEF block_insts_back
  <2> QED  BY <2>1, <2>2, ListedInsts
<1> QED  BY <1>1, <1>2 DEF BothWays

\* While no block is being split, the instructions in the list of a block
\* know that they are in it.
LEMMA InstsKnowBlock ==
    ASSUME RInv, ~splitting, NEW b \in Block, NEW k \in 1 .. Len(block_insts[b])
    PROVE  block_insts[b][k] \in Inst /\ inst_block[block_insts[b][k]] = b
<1> DEFINE s == block_insts[b]
           n == Len(s)
<1>1. IsList(s, first_inst[b], last_inst[b], inst_next, inst_prev, Inst)
  BY DEF RInv, InstsListed
<1>2. /\ s \in Seq(Inst) /\ n \in Nat /\ \A j \in 1 .. n : s[j] \in Inst
      /\ first_inst[b] = IF n = 0 THEN None ELSE s[1]
      /\ \A j \in 1 .. n : inst_next[s[j]] = IF j = n THEN None ELSE s[j + 1]
  <2> HIDE DEF s
  <2> QED  BY <1>1, ListFacts
<1>3. TypeOK /\ InstBlocks
  BY DEF RInv, LInv
<1> DEFINE T == {j \in 1 .. n : inst_block[s[j]] # b}
<1> HIDE DEF s, n
<1>4. T = {}
  <2> SUFFICES ASSUME T # {} PROVE FALSE
    OBVIOUS
  <2>1. T \subseteq Nat
    BY <1>2
  <2>2. PICK j \in T : \A m \in T : j <= m
    <3> HIDE DEF T
    <3> QED  BY <2>1, NatMin
  <2>3. j \in 1 .. n /\ inst_block[s[j]] # b /\ s[j] \in Inst
    BY <1>2
  <2>4. CASE j = 1
    <3>1. first_inst[b] = s[1] /\ s[1] # None
      BY <1>2, <2>3, <2>4, LayoutAssumption
    <3> QED  BY <1>3, <2>3, <2>4, <3>1 DEF InstBlocks
  <2>5. CASE j # 1
    <3> DEFINE m == j - 1
    <3>1. m \in 1 .. n /\ m # n /\ m + 1 = j /\ ~(j <= m)
      BY <1>2, <2>3, <2>5
    <3> HIDE DEF m
    <3>2. m \notin T /\ s[m] \in Inst /\ inst_next[s[m]] = s[j]
      BY <1>2, <2>2, <3>1
    <3>3. inst_block[s[m]] = b
      BY <3>1, <3>2
    <3> QED  BY <1>3, <2>3, <3>2, <3>3 DEF InstBlocks
  <2> QED  BY <2>4, <2>5
<1> QED  BY <1>2, <1>4 DEF s, n

\* An instruction that names a block is in this block's list: else those like it
\* would be a circle.
LEMMA InstsComplete ==
    ASSUME RInv, ~splitting, NEW i \in Inst, inst_block[i] # None
    PROVE  /\ inst_block[i] \in Block
           /\ \E k \in 1 .. Len(block_insts[inst_block[i]]) : block_insts[inst_block[i]][k] = i
<1> DEFINE In(j) == \E k \in 1 .. Len(block_insts[inst_block[j]]) : block_insts[inst_block[j]][k] = j
           S == {j \in Inst : inst_block[j] # None /\ ~In(j)}
<1>1. TypeOK /\ InstLinks /\ InstBlocks /\ Acyclic
  BY DEF RInv, LInv
<1>2. \A j \in Inst : inst_block[j] # None => inst_block[j] \in Block
  BY <1>1 DEF TypeOK, OrNone
<1>3. S = {}
  <2> SUFFICES ASSUME S # {} PROVE FALSE
    OBVIOUS
  <2>1. PICK j \in S : inst_prev[j] \notin S
    <3>1. S \in SUBSET Inst
      OBVIOUS
    <3> HIDE DEF S
    <3> QED  BY <1>1, <3>1 DEF Acyclic
  <2>2. j \in Inst /\ inst_block[j] # None /\ ~In(j)
    OBVIOUS
  <2> DEFINE b == inst_block[j]
             s == block_insts[b]
             p == inst_prev[j]
  <2>3. b \in Block
    BY <1>2, <2>2
  <2>4. IsList(s, first_inst[b], last_inst[b], inst_next, inst_prev, Inst)
    BY <2>3 DEF RInv, InstsListed
  <2>5. /\ Len(s) \in Nat
        /\ first_inst[b] = IF Len(s) = 0 THEN None ELSE s[1]
        /\ \A k \in 1 .. Len(s) : inst_next[s[k]] = IF k = Len(s) THEN None ELSE s[k + 1]
    BY <2>4 DEF IsList
  <2>6. CASE p = None
    <3>1. first_inst[b] = j /\ j # None
      BY <1>1, <2>2, <2>6, LayoutAssumption DEF InstBlocks
    <3>2. 1 \in 1 .. Len(s) /\ s[1] = j
      BY <2>5, <3>1
    <3> QED  BY <2>2, <3>2
  <2>7. CASE p # None
    <3>1. p \in Inst /\ inst_next[p] = j
      BY <1>1, <2>2, <2>7 DEF TypeOK, OrNone, InstLinks
    <3>2. inst_block[p] = b
      BY <1>1, <2>2, <3>1 DEF InstBlocks
    <3>3. In(p)
      BY <2>1, <2>2, <3>1, <3>2
    <3>4. PICK k \in 1 .. Len(s) : s[k] = p
      BY <3>2, <3>3
    <3>5. k # Len(s) /\ s[k + 1] = j
      BY <2>2, <2>5, <3>1, <3>4, LayoutAssumption
    <3>6. k + 1 \in 1 .. Len(s)
      BY <2>5, <3>5
    <3> QED  BY <2>2, <3>5, <3>6
  <2> QED  BY <2>6, <2>7
<1> QED  BY <1>2, <1>3

\* A block without a first instruction has none.
LEMMA EmptyBlock ==
    ASSUME RInv, NEW b \in Block, first_inst[b] = None
    PROVE  block_insts[b] = <<>>
<1> DEFINE q == block_insts[b]
<1>1. IsList(q, first_inst[b], last_inst[b], inst_next, inst_prev, Inst)
  BY DEF RInv, InstsListed
<1> HIDE DEF q
<1>2. /\ q \in Seq(Inst) /\ Len(q) \in Nat /\ \A j \in 1 .. Len(q) : q[j] \in Inst
      /\ first_inst[b] = IF Len(q) = 0 THEN None ELSE q[1]
  BY <1>1, ListFacts
<1>3. Len(q) # 0 => 1 \in 1 .. Len(q)
  BY <1>2
<1>4. Len(q) = 0
  BY <1>2, <1>3, LayoutAssumption
<1>5. q = <<>>
  BY <1>2, <1>4
<1> QED  BY <1>5 DEF q

\* The numbers of the instructions of a block increase along its list.
LEMMA ListNumbered ==
    ASSUME RInv, pc = "idle", NEW b \in Block, NEW j \in 1 .. Len(block_insts[b]),
           NEW k \in 1 .. Len(block_insts[b]), j < k
    PROVE  inst_seq[block_insts[b][j]] < inst_seq[block_insts[b][k]]
<1> DEFINE s == block_insts[b]
           n == Len(s)
           T == {m \in 1 .. n : j < m /\ ~(inst_seq[s[j]] < inst_seq[s[m]])}
<1>1. /\ n \in Nat /\ \A m \in 1 .. n : s[m] \in Inst
      /\ \A m \in 1 .. n : inst_next[s[m]] = IF m = n THEN None ELSE s[m + 1]
  <2>1. IsList(s, first_inst[b], last_inst[b], inst_next, inst_prev, Inst)
    BY DEF RInv, InstsListed
  <2> HIDE DEF s
  <2> QED  BY <2>1, ListFacts
<1>2. TypeOK /\ SeqIncreasing /\ ~splitting
  BY DEF RInv, LInv, splitting
<1>3. \A m \in 1 .. n : inst_block[s[m]] = b /\ b # None
  BY <1>2, InstsKnowBlock, LayoutAssumption
<1>4. j \in 1 .. n /\ k \in 1 .. n /\ j \in Nat
  BY <1>1
<1> HIDE DEF s, n
<1>5. \A m \in 1 .. n : m # n => inst_seq[s[m]] < inst_seq[s[m + 1]]
  <2> SUFFICES ASSUME NEW m \in 1 .. n, m # n PROVE inst_seq[s[m]] < inst_seq[s[m + 1]]
    OBVIOUS
  <2>1. s[m] \in Inst /\ inst_block[s[m]] # None /\ inst_next[s[m]] = s[m + 1]
    BY <1>1, <1>3
  <2>2. in_order(s[m])
    BY <1>2, <2>1 DEF SeqIncreasing
  <2>3. m + 1 \in 1 .. n
    BY <1>1
  <2>4. s[m + 1] # None
    BY <1>1, <2>3, LayoutAssumption
  <2> QED  BY <2>1, <2>2, <2>4 DEF in_order
<1>6. \A m \in 1 .. n : inst_seq[s[m]] \in Nat
  BY <1>1, <1>2 DEF TypeOK
<1>7. T = {}
  <2> SUFFICES ASSUME T # {} PROVE FALSE
    OBVIOUS
  <2>1. T \subseteq Nat
    BY <1>1
  <2>2. PICK m \in T : \A q \in T : m <= q
    <3> HIDE DEF T
    <3> QED  BY <2>1, NatMin
  <2>3. m \in 1 .. n /\ j < m /\ ~(inst_seq[s[j]] < inst_seq[s[m]])
    OBVIOUS
  <2> DEFINE q == m - 1
  <2>4. q \in 1 .. n /\ q # n /\ q + 1 = m /\ ~(m <= q) /\ (j = q \/ j < q)
    BY <1>1, <1>4, <2>3
  <2> HIDE DEF q
  <2>5. inst_seq[s[q]] < inst_seq[s[m]]
    BY <1>5, <2>4
  <2>6. q \notin T
    BY <2>2, <2>4
  <2>7. j = q \/ inst_seq[s[j]] < inst_seq[s[q]]
    BY <2>4, <2>6
  <2> QED  BY <1>4, <1>6, <2>3, <2>4, <2>5, <2>7
<1> QED  BY <1>4, <1>7 DEF s

\* pp_cmp agrees with the lists.
LEMMA RInvPpCmpAgrees ==
    ASSUME RInv PROVE PpCmpAgrees
<1> SUFFICES ASSUME pc = "idle"
             PROVE  /\ \A b \in Block : \A j, k \in DOMAIN block_insts[b] :
                          j < k => pp_less(block_insts[b][j], block_insts[b][k])
                    /\ \A b \in Block : \A k \in DOMAIN block_insts[b] :
                          inst_block[block_insts[b][k]] = b /\ pp_less(b, block_insts[b][k])
                    /\ \A i \in Inst : inst_block[i] # None =>
                          \E k \in DOMAIN block_insts[inst_block[i]] : block_insts[inst_block[i]][k] = i
  BY DEF PpCmpAgrees
<1>1. ~splitting /\ TypeOK /\ SeqIncreasing
  BY DEF splitting, RInv, LInv
<1>2. \A b \in Block : DOMAIN block_insts[b] = 1 .. Len(block_insts[b])
  BY DEF RInv, InstsListed, IsList
<1>3. ASSUME NEW b \in Block, NEW k \in DOMAIN block_insts[b]
      PROVE  /\ block_insts[b][k] \in Inst /\ block_insts[b][k] \notin Block
             /\ inst_block[block_insts[b][k]] = b
             /\ 0 < inst_seq[block_insts[b][k]]
  <2>1. k \in 1 .. Len(block_insts[b])
    BY <1>2
  <2>2. block_insts[b][k] \in Inst /\ inst_block[block_insts[b][k]] = b
    BY <1>1, <2>1, InstsKnowBlock
  <2>3. in_order(block_insts[b][k])
    BY <1>1, <2>2, LayoutAssumption DEF SeqIncreasing
  <2>4. inst_seq[block_insts[b][k]] \in Nat
    BY <1>1, <2>2 DEF TypeOK
  <2> QED  BY <2>2, <2>3, <2>4, EntityAssumption DEF in_order
<1>4. ASSUME NEW b \in Block, NEW j \in DOMAIN block_insts[b], NEW k \in DOMAIN block_insts[b], j < k
      PROVE  pp_less(block_insts[b][j], block_insts[b][k])
  <2>1. inst_seq[block_insts[b][j]] < inst_seq[block_insts[b][k]]
    BY <1>2, <1>4, ListNumbered
  <2> QED  BY <1>3, <2>1 DEF pp_less
<1>5. ASSUME NEW b \in Block, NEW k \in DOMAIN block_insts[b]
      PROVE  pp_less(b, block_insts[b][k])
  BY <1>3 DEF pp_less
<1>6. ASSUME NEW i \in Inst, inst_block[i] # None
      PROVE  \E k \in DOMAIN block_insts[inst_block[i]] : block_insts[inst_block[i]][k] = i
  BY <1>1, <1>2, <1>6, InstsComplete
<1> QED  BY <1>3, <1>4, <1>5, <1>6


(***************************************************************************)
(* Steps that change the list of blocks.                                   *)
(***************************************************************************)

\* A step of the sequences, or none.
Simulated == Abstract!Next \/ UNCHANGED <<blocks, block_insts, cold>>

\* What a step of the layout has to do for the refinement.
Refined == BlocksListed' /\ InstsListed' /\ Simulated

\* Steps that leave the blocks' links alone leave their list alone,
LEMMA SameBlocks ==
    ASSUME BlocksListed, UNCHANGED blockVars
    PROVE  blocks' = blocks /\ BlocksListed'
<1>1. /\ first_block' = first_block /\ last_block' = last_block
      /\ block_next' = block_next /\ block_prev' = block_prev
  BY DEF blockVars
<1>2. blocks' = blocks
  BY <1>1 DEF blocks
<1> QED  BY <1>1, <1>2 DEF BlocksListed, is_block_inserted

\* and so do those that leave the instructions' links alone.
LEMMA SameInsts ==
    ASSUME InstsListed, UNCHANGED instVars
    PROVE  block_insts' = block_insts /\ InstsListed'
<1>1. /\ first_inst' = first_inst /\ last_inst' = last_inst
      /\ inst_next' = inst_next /\ inst_prev' = inst_prev
  BY DEF instVars
<1>2. block_insts' = block_insts
  BY <1>1 DEF block_insts
<1> QED  BY <1>1, <1>2 DEF InstsListed

\* Steps that leave the links alone are steps that the sequences do not take.
LEMMA LinksKept ==
    ASSUME RInv, UNCHANGED <<blockVars, instVars, cold>>
    PROVE  Refined
<1>1. BlocksListed /\ InstsListed
  BY DEF RInv
<1> QED  BY <1>1, SameBlocks, SameInsts DEF Refined, Simulated

\* The blocks in the list are those that is_block_inserted tells.
LEMMA ListedInserted ==
    ASSUME RInv, NEW b \in Block
    PROVE  is_block_inserted(b) <=> \E k \in 1 .. Len(blocks) : blocks[k] = b
<1>1. IsList(blocks, first_block, last_block, block_next, block_prev, Block)
  BY DEF RInv, BlocksListed
<1> DEFINE s == blocks
<1> HIDE DEF s
<1>2. /\ Len(s) \in Nat /\ \A j \in 1 .. Len(s) : s[j] \in Block
      /\ first_block = IF Len(s) = 0 THEN None ELSE s[1]
      /\ \A k \in 1 .. Len(s) : block_prev[s[k]] = IF k = 1 THEN None ELSE s[k - 1]
  BY <1>1, ListFacts DEF s
<1>3. ASSUME NEW k \in 1 .. Len(s), s[k] = b PROVE is_block_inserted(b)
  <2>1. CASE k = 1
    BY <1>2, <1>3, <2>1 DEF is_block_inserted
  <2>2. CASE k # 1
    <3>1. k - 1 \in 1 .. Len(s)
      BY <1>2, <2>2
    <3>2. s[k - 1] # None
      BY <1>2, <3>1, LayoutAssumption
    <3> QED  BY <1>2, <1>3, <2>2, <3>2 DEF is_block_inserted
  <2> QED  BY <2>1, <2>2
<1>4. is_block_inserted(b) => \E k \in 1 .. Len(blocks) : blocks[k] = b
  BY DEF RInv, BlocksListed
<1> QED  BY <1>3, <1>4 DEF s

\* A step that links the block b in at place k, between p and n.
BlockLinkedAt(b, k, p, n) ==
    /\ ~is_block_inserted(b) /\ k \in 1 .. (Len(blocks) + 1)
    /\ p = IF k = 1 THEN None ELSE blocks[k - 1]
    /\ n = IF k = Len(blocks) + 1 THEN None ELSE blocks[k]
    /\ first_block' = IF p = None THEN b ELSE first_block
    /\ last_block' = IF n = None THEN b ELSE last_block
    /\ \A y \in Block : block_next'[y] = IF y = b THEN n ELSE IF y = p THEN b ELSE block_next[y]
    /\ \A y \in Block : block_prev'[y] = IF y = b THEN p ELSE IF y = n THEN b ELSE block_prev[y]

\* It puts b into the sequence there.
LEMMA BlockLinkedIn ==
    ASSUME RInv, NEW b \in Block, NEW k, NEW p, NEW n, BlockLinkedAt(b, k, p, n)
    PROVE  /\ ~Abstract!laid_out(b)
           /\ blocks' = Abstract!InsertAt(blocks, k, b)
           /\ BlocksListed'
<1> DEFINE s == blocks
           t == Abstract!InsertAt(s, k, b)
<1>1. IsList(s, first_block, last_block, block_next, block_prev, Block)
  BY DEF RInv, BlocksListed
<1>2. /\ \A j \in 1 .. Len(s) : s[j] # b
      /\ k \in 1 .. (Len(s) + 1)
      /\ p = IF k = 1 THEN None ELSE s[k - 1]
      /\ n = IF k = Len(s) + 1 THEN None ELSE s[k]
  BY ListedInserted DEF BlockLinkedAt
<1>3. \A c \in Block : is_block_inserted(c) => \E j \in 1 .. Len(s) : s[j] = c
  BY ListedInserted
<1>4. ~Abstract!laid_out(b)
  BY <1>2 DEF Abstract!laid_out, Abstract!Contains
<1> HIDE DEF s
<1>5. s \in Seq(Block) /\ Len(s) \in Nat /\ \A j \in 1 .. Len(s) : s[j] \in Block
  BY <1>1, ListFacts
<1>6. /\ \A y \in Block \ {b} : block_next'[y] = IF y = p THEN b ELSE block_next[y]
      /\ \A y \in Block \ {b} : block_prev'[y] = IF y = n THEN b ELSE block_prev[y]
      /\ block_next'[b] = n /\ block_prev'[b] = p
      /\ first_block' = IF p = None THEN b ELSE first_block
      /\ last_block' = IF n = None THEN b ELSE last_block
  BY DEF BlockLinkedAt
<1>7. IsList(t, first_block', last_block', block_next', block_prev', Block)
  BY <1>1, <1>2, <1>6, LinkIn, LayoutAssumption
<1>7a. t = Abstract!InsertAt(s, k, b)
  OBVIOUS
<1> HIDE DEF t
<1>8. /\ \E j \in 1 .. Len(t) : t[j] = b
      /\ \A m \in 1 .. Len(s) : \E j \in 1 .. Len(t) : t[j] = s[m]
  BY <1>2, <1>5, <1>7a, InsertedMembers
<1>9. blocks' = t
  BY <1>7, ListedBlocks DEF blocks
<1>10. ASSUME NEW c \in Block, is_block_inserted(c)' PROVE \E j \in 1 .. Len(t) : t[j] = c
  <2> SUFFICES ASSUME c # b PROVE \E j \in 1 .. Len(s) : s[j] = c
    BY <1>8
  <2>1. CASE is_block_inserted(c)
    BY <1>3, <2>1
  <2>2. CASE c = n
    <3>1. k # Len(s) + 1
      BY <1>2, <2>2, LayoutAssumption
    <3>2. k \in 1 .. Len(s)
      BY <1>2, <1>5, <3>1
    <3> QED  BY <1>2, <2>2, <3>1, <3>2
  <2>3. is_block_inserted(c) \/ c = n
    BY <1>6, <1>10 DEF is_block_inserted
  <2> QED  BY <2>1, <2>2, <2>3
<1>11. BlocksListed'
  BY <1>7, <1>9, <1>10 DEF BlocksListed
<1> QED  BY <1>4, <1>9, <1>11 DEF s, t

\* A step that lays b out at place k and changes nothing else.
LEMMA BlockPlaced ==
    ASSUME RInv, NEW b \in Block, NEW k \in 1 .. (Len(blocks) + 1), ~Abstract!laid_out(b),
           blocks' = Abstract!InsertAt(blocks, k, b), BlocksListed', UNCHANGED <<instVars, cold>>
    PROVE  Refined
<1>1. block_insts' = block_insts /\ InstsListed'
  BY SameInsts DEF RInv
<1>2. Abstract!PlaceBlock(b, k)
  BY <1>1 DEF Abstract!PlaceBlock
<1> QED  BY <1>1, <1>2 DEF Refined, Simulated, Abstract!Next

\* append_block lays out a block behind all others.
LEMMA AppendBlockRefines ==
    ASSUME RInv, NEW b \in Block, append_block(b)
    PROVE  Refined
<1> DEFINE s == blocks
           k == Len(s) + 1
<1>1. IsList(s, first_block, last_block, block_next, block_prev, Block)
  BY DEF RInv, BlocksListed
<1> HIDE DEF s
<1>2. /\ Len(s) \in Nat /\ \A j \in 1 .. Len(s) : s[j] \in Block
      /\ first_block = IF Len(s) = 0 THEN None ELSE s[1]
      /\ last_block = IF Len(s) = 0 THEN None ELSE s[Len(s)]
  BY <1>1, ListFacts
<1>3. k \in 1 .. (Len(s) + 1) /\ last_block = IF k = 1 THEN None ELSE s[k - 1]
  BY <1>2
<1>4. /\ TypeOK /\ ~is_block_inserted(b)
      /\ block_prev' = [block_prev EXCEPT ![b] = last_block]
      /\ block_next' = relinked([block_next EXCEPT ![b] = None], last_block, b)
      /\ first_block' = IF last_block = None THEN b ELSE first_block
      /\ last_block' = b
      /\ UNCHANGED <<instVars, cold>>
  BY DEF append_block, RInv, LInv
<1>5. last_block # b
  <2>1. last_block # None => is_block_inserted(last_block)
    BY DEF RInv, LInv, BlockLinks
  <2> QED  BY <1>4, <2>1, LayoutAssumption
<1>6. /\ \A y \in Block : block_next'[y] = IF y = b THEN None ELSE IF y = last_block THEN b ELSE block_next[y]
      /\ \A y \in Block : block_prev'[y] = IF y = b THEN last_block ELSE IF y = None THEN b ELSE block_prev[y]
  BY <1>4, <1>5, LayoutAssumption DEF TypeOK, relinked, OrNone
<1>7. None = IF k = Len(s) + 1 THEN None ELSE s[k]
  OBVIOUS
<1> HIDE DEF k
<1>8. BlockLinkedAt(b, k, last_block, None)
  BY <1>3, <1>4, <1>6, <1>7 DEF s, BlockLinkedAt
<1>9. ~Abstract!laid_out(b) /\ blocks' = Abstract!InsertAt(blocks, k, b) /\ BlocksListed'
  BY <1>8, BlockLinkedIn
<1> QED  BY <1>3, <1>4, <1>9, BlockPlaced DEF s

\* insert_block lays it out before another one.
LEMMA InsertBlockRefines ==
    ASSUME RInv, NEW b \in Block, NEW before \in Block, insert_block(b, before)
    PROVE  Refined
<1> DEFINE s == blocks
           p == block_prev[before]
<1>1. IsList(s, first_block, last_block, block_next, block_prev, Block)
  BY DEF RInv, BlocksListed
<1>2. /\ TypeOK /\ ~is_block_inserted(b) /\ is_block_inserted(before)
      /\ block_next' = relinked([block_next EXCEPT ![b] = before], p, b)
      /\ block_prev' = [block_prev EXCEPT ![b] = p, ![before] = b]
      /\ first_block' = IF p = None THEN b ELSE first_block
      /\ last_block' = last_block
      /\ UNCHANGED <<instVars, cold>>
  BY DEF insert_block, RInv, LInv
<1>3. PICK k \in 1 .. Len(s) : s[k] = before
  BY <1>2, ListedInserted
<1> HIDE DEF s
<1>4. /\ Len(s) \in Nat /\ \A j \in 1 .. Len(s) : s[j] \in Block
      /\ \A j \in 1 .. Len(s) : block_prev[s[j]] = IF j = 1 THEN None ELSE s[j - 1]
  BY <1>1, ListFacts
<1>5. /\ k \in 1 .. (Len(s) + 1) /\ p = (IF k = 1 THEN None ELSE s[k - 1])
      /\ before = IF k = Len(s) + 1 THEN None ELSE s[k]
  BY <1>3, <1>4
<1>6. b # before /\ p # b
  <2>1. k # 1 => k - 1 \in 1 .. Len(s)
    BY <1>3, <1>4
  <2>2. k # 1 => is_block_inserted(s[k - 1])
    BY <1>4, <2>1, ListedInserted DEF s
  <2> QED  BY <1>2, <1>5, <2>2, LayoutAssumption
<1>7. /\ \A y \in Block : block_next'[y] = IF y = b THEN before ELSE IF y = p THEN b ELSE block_next[y]
      /\ \A y \in Block : block_prev'[y] = IF y = b THEN p ELSE IF y = before THEN b ELSE block_prev[y]
  BY <1>2, <1>6, LayoutAssumption DEF TypeOK, relinked, OrNone
<1>8. last_block' = IF before = None THEN b ELSE last_block
  BY <1>2, LayoutAssumption
<1> HIDE DEF p
<1>9. BlockLinkedAt(b, k, p, before)
  BY <1>2, <1>5, <1>7, <1>8 DEF s, BlockLinkedAt
<1>10. ~Abstract!laid_out(b) /\ blocks' = Abstract!InsertAt(blocks, k, b) /\ BlocksListed'
  BY <1>9, BlockLinkedIn
<1> QED  BY <1>2, <1>5, <1>10, BlockPlaced DEF s

\* A block linked in behind another one.
LEMMA BlockLinkedBehind ==
    ASSUME RInv, NEW b \in Block, NEW after \in Block, NEW n,
           ~is_block_inserted(b), is_block_inserted(after), n = block_next[after],
           block_next' = [block_next EXCEPT ![b] = n, ![after] = b],
           block_prev' = relinked([block_prev EXCEPT ![b] = after], n, b),
           last_block' = (IF n = None THEN b ELSE last_block), first_block' = first_block
    PROVE  \E k \in 1 .. (Len(blocks) + 1) :
              /\ k = Abstract!position(blocks, after) + 1
              /\ ~Abstract!laid_out(b) /\ Abstract!laid_out(after)
              /\ blocks' = Abstract!InsertAt(blocks, k, b) /\ BlocksListed'
<1> DEFINE s == blocks
<1>1. IsList(s, first_block, last_block, block_next, block_prev, Block)
  BY DEF RInv, BlocksListed
<1>2. TypeOK
  BY DEF RInv, LInv
<1>3. PICK j \in 1 .. Len(s) : s[j] = after
  BY <1>2, ListedInserted
<1>4. Abstract!laid_out(after)
  BY <1>3 DEF Abstract!laid_out, Abstract!Contains
<1> HIDE DEF s
<1>5. /\ Len(s) \in Nat /\ \A i \in 1 .. Len(s) : s[i] \in Block
      /\ \A i \in 1 .. Len(s) : block_next[s[i]] = IF i = Len(s) THEN None ELSE s[i + 1]
  BY <1>1, ListFacts
<1>6. Abstract!position(s, after) = j
  BY <1>1, <1>3, PositionIs
<1> DEFINE k == j + 1
<1>7. /\ k \in 1 .. (Len(s) + 1) /\ after = (IF k = 1 THEN None ELSE s[k - 1])
      /\ n = IF k = Len(s) + 1 THEN None ELSE s[k]
  BY <1>3, <1>5
<1>8. b # after /\ n # b
  <2>1. k # Len(s) + 1 => k \in 1 .. Len(s)
    BY <1>3, <1>5
  <2>2. k # Len(s) + 1 => is_block_inserted(s[k])
    BY <1>5, <2>1, ListedInserted DEF s
  <2> QED  BY <1>2, <1>7, <2>2, LayoutAssumption
<1>9. /\ \A y \in Block : block_next'[y] = IF y = b THEN n ELSE IF y = after THEN b ELSE block_next[y]
      /\ \A y \in Block : block_prev'[y] = IF y = b THEN after ELSE IF y = n THEN b ELSE block_prev[y]
  BY <1>2, <1>8, LayoutAssumption DEF TypeOK, relinked, OrNone
<1>10. first_block' = IF after = None THEN b ELSE first_block
  BY LayoutAssumption
<1>11. k = Abstract!position(s, after) + 1
  BY <1>6
<1> HIDE DEF k
<1>12. BlockLinkedAt(b, k, after, n)
  BY <1>7, <1>9, <1>10 DEF s, BlockLinkedAt
<1>13. ~Abstract!laid_out(b) /\ blocks' = Abstract!InsertAt(blocks, k, b) /\ BlocksListed'
  BY <1>12, BlockLinkedIn
<1> QED  BY <1>4, <1>7, <1>11, <1>13 DEF s

\* insert_block_after lays it out behind another one.
LEMMA InsertBlockAfterRefines ==
    ASSUME RInv, NEW b \in Block, NEW after \in Block, insert_block_after(b, after)
    PROVE  Refined
<1> DEFINE n == block_next[after]
<1>1. /\ ~is_block_inserted(b) /\ is_block_inserted(after)
      /\ block_next' = [block_next EXCEPT ![b] = n, ![after] = b]
      /\ block_prev' = relinked([block_prev EXCEPT ![b] = after], n, b)
      /\ last_block' = (IF n = None THEN b ELSE last_block) /\ first_block' = first_block
      /\ UNCHANGED <<instVars, cold>>
  BY DEF insert_block_after
<1>2. n = block_next[after]
  OBVIOUS
<1> HIDE DEF n
<1>3. PICK k \in 1 .. (Len(blocks) + 1) :
        ~Abstract!laid_out(b) /\ blocks' = Abstract!InsertAt(blocks, k, b) /\ BlocksListed'
  BY <1>1, <1>2, BlockLinkedBehind
<1> QED  BY <1>1, <1>3, BlockPlaced

\* Unlinking an empty block takes it out of the order.
LEMMA UnlinkBlockRefines ==
    ASSUME RInv, NEW b \in Block, unlink_block(b)
    PROVE  Refined
<1> DEFINE s == blocks
           p == block_prev[b]
           n == block_next[b]
<1>1. IsList(s, first_block, last_block, block_next, block_prev, Block)
  BY DEF RInv, BlocksListed
<1>2. /\ TypeOK /\ is_block_inserted(b) /\ first_inst[b] = None
      /\ block_prev' = relinked([block_prev EXCEPT ![b] = None], n, p)
      /\ block_next' = relinked([block_next EXCEPT ![b] = None], p, n)
      /\ first_block' = IF p = None THEN n ELSE first_block
      /\ last_block' = IF n = None THEN p ELSE last_block
      /\ UNCHANGED <<instVars, cold>>
  BY DEF unlink_block, RInv, LInv
<1>3. PICK k \in 1 .. Len(s) : s[k] = b
  BY <1>2, ListedInserted
<1>3a. \A c \in Block : is_block_inserted(c) <=> \E j \in 1 .. Len(s) : s[j] = c
  BY ListedInserted
<1> HIDE DEF s
<1>4. /\ s \in Seq(Block) /\ Len(s) \in Nat /\ \A j \in 1 .. Len(s) : s[j] \in Block
      /\ \A i, j \in 1 .. Len(s) : s[i] = s[j] => i = j
      /\ \A j \in 1 .. Len(s) : block_prev[s[j]] = IF j = 1 THEN None ELSE s[j - 1]
      /\ \A j \in 1 .. Len(s) : block_next[s[j]] = IF j = Len(s) THEN None ELSE s[j + 1]
  BY <1>1, ListFacts
<1>5. /\ p = block_prev[s[k]] /\ n = block_next[s[k]]
      /\ p = (IF k = 1 THEN None ELSE s[k - 1]) /\ n = IF k = Len(s) THEN None ELSE s[k + 1]
  BY <1>3, <1>4
<1>6. p # b /\ n # b
  <2>1. k # 1 => k - 1 \in 1 .. Len(s) /\ k - 1 # k
    BY <1>4
  <2>2. k # Len(s) => k + 1 \in 1 .. Len(s) /\ k + 1 # k
    BY <1>4
  <2>3. k # 1 => s[k - 1] # s[k]
    BY <1>4, <2>1
  <2>4. k # Len(s) => s[k + 1] # s[k]
    BY <1>4, <2>2
  <2> QED  BY <1>3, <1>5, <2>3, <2>4, LayoutAssumption
<1>7. /\ \A y \in Block \ {b} : block_next'[y] = IF y = p THEN n ELSE block_next[y]
      /\ \A y \in Block \ {b} : block_prev'[y] = IF y = n THEN p ELSE block_prev[y]
      /\ block_prev'[b] = None
  BY <1>2, <1>6, LayoutAssumption DEF TypeOK, relinked, OrNone
<1>7a. p # None => first_block # b
  BY LayoutAssumption DEF RInv, LInv, BlockLinks
<1> HIDE DEF p, n
<1> DEFINE t == Abstract!RemoveAt(s, k)
<1>7b. /\ \A y \in Block \ {s[k]} : block_next'[y] = IF y = p THEN n ELSE block_next[y]
       /\ \A y \in Block \ {s[k]} : block_prev'[y] = IF y = n THEN p ELSE block_prev[y]
       /\ p = block_prev[s[k]] /\ n = block_next[s[k]]
       /\ first_block' = IF p = None THEN n ELSE first_block
       /\ last_block' = IF n = None THEN p ELSE last_block
       /\ None \notin Block
  BY <1>2, <1>3, <1>5, <1>7, LayoutAssumption
<1>8. IsList(t, first_block', last_block', block_next', block_prev', Block)
  BY <1>1, <1>7b, LinkOut
<1>9. \A m \in 1 .. Len(s) : m # k => \E j \in 1 .. Len(t) : t[j] = s[m]
  BY <1>4, RemovedMembers
<1> HIDE DEF t
<1>10. blocks' = t
  BY <1>8, ListedBlocks DEF blocks
<1>11. ASSUME NEW c \in Block, is_block_inserted(c)' PROVE \E j \in 1 .. Len(t) : t[j] = c
  <2>1. c # b
    BY <1>2, <1>6, <1>7, <1>7a, <1>11 DEF is_block_inserted
  <2>2. is_block_inserted(c) \/ c = n
    BY <1>2, <1>7, <1>11, <2>1 DEF is_block_inserted
  <2>3. \E m \in 1 .. Len(s) : s[m] = c
    <3>1. CASE is_block_inserted(c)
      BY <1>3a, <3>1
    <3>2. CASE c = n
      <4>1. k # Len(s)
        BY <1>5, <3>2, LayoutAssumption
      <4>2. k + 1 \in 1 .. Len(s)
        BY <1>4, <4>1
      <4> QED  BY <1>5, <3>2, <4>1, <4>2
    <3> QED  BY <2>2, <3>1, <3>2
  <2>4. PICK m \in 1 .. Len(s) : s[m] = c
    BY <2>3
  <2>5. m # k
    BY <1>3, <2>1, <2>4
  <2> QED  BY <1>9, <2>4, <2>5
<1>12. BlocksListed'
  BY <1>8, <1>10, <1>11 DEF BlocksListed
<1>13. block_insts' = block_insts /\ InstsListed'
  BY <1>2, SameInsts DEF RInv
<1>14. block_insts[b] = <<>>
  BY <1>2, EmptyBlock
<1>15. Abstract!laid_out(b) /\ Abstract!position(blocks, b) = k
  BY <1>1, <1>3, PositionIs DEF Abstract!laid_out, Abstract!Contains, s
<1>16. Abstract!RemoveBlock(b)
  BY <1>2, <1>10, <1>13, <1>14, <1>15 DEF Abstract!RemoveBlock, s, t
<1> QED  BY <1>12, <1>13, <1>16 DEF Refined, Simulated, Abstract!Next


(***************************************************************************)
(* Steps that change the lists of instructions.                            *)
(***************************************************************************)

\* Lists of the instructions of every block are what the iterators yield.
LEMMA InstsAre ==
    ASSUME NEW t, t = [c \in Block |-> t[c]],
           \A c \in Block : IsList(t[c], first_inst'[c], last_inst'[c], inst_next', inst_prev', Inst)
    PROVE  block_insts' = t /\ InstsListed'
<1>1. \A c \in Block :
         listing(first_inst'[c], last_inst'[c], inst_next', Cardinality(Inst)) = t[c]
  BY ListedInsts
<1>2. block_insts' =
         [c \in Block |-> listing(first_inst'[c], last_inst'[c], inst_next', Cardinality(Inst))]
  BY DEF block_insts
<1>3. block_insts' = t
  BY <1>1, <1>2
<1> QED  BY <1>3 DEF InstsListed

\* A step that links the instruction i into block b at place k, between p and n.
InstLinkedAt(i, b, k, p, n) ==
    /\ inst_block[i] = None /\ b \in Block /\ k \in 1 .. (Len(block_insts[b]) + 1)
    /\ p = IF k = 1 THEN None ELSE block_insts[b][k - 1]
    /\ n = IF k = Len(block_insts[b]) + 1 THEN None ELSE block_insts[b][k]
    /\ \A c \in Block : first_inst'[c] = IF c = b /\ p = None THEN i ELSE first_inst[c]
    /\ \A c \in Block : last_inst'[c] = IF c = b /\ n = None THEN i ELSE last_inst[c]
    /\ \A y \in Inst : inst_next'[y] = IF y = i THEN n ELSE IF y = p THEN i ELSE inst_next[y]
    /\ \A y \in Inst : inst_prev'[y] = IF y = i THEN p ELSE IF y = n THEN i ELSE inst_prev[y]

\* It puts i into the sequence of b there, and leaves the others.
LEMMA InstLinkedIn ==
    ASSUME RInv, ~splitting, NEW i \in Inst, NEW b, NEW k, NEW p, NEW n,
           InstLinkedAt(i, b, k, p, n), is_block_inserted(b), UNCHANGED <<blockVars, cold>>
    PROVE  Refined
<1> DEFINE s == block_insts[b]
           r == Abstract!InsertAt(s, k, i)
           t == [c \in Block |-> IF c = b THEN r ELSE block_insts[c]]
<1>1. b \in Block /\ inst_block[i] = None
  BY DEF InstLinkedAt
<1>2. IsList(s, first_inst[b], last_inst[b], inst_next, inst_prev, Inst)
  BY <1>1 DEF RInv, InstsListed
<1>3. \A c \in Block : \A j \in 1 .. Len(block_insts[c]) :
         block_insts[c][j] \in Inst /\ inst_block[block_insts[c][j]] = c /\ block_insts[c][j] # i
  BY <1>1, InstsKnowBlock, LayoutAssumption
<1>4. /\ k \in 1 .. (Len(s) + 1)
      /\ p = IF k = 1 THEN None ELSE s[k - 1]
      /\ n = IF k = Len(s) + 1 THEN None ELSE s[k]
      /\ first_inst'[b] = IF p = None THEN i ELSE first_inst[b]
      /\ last_inst'[b] = IF n = None THEN i ELSE last_inst[b]
      /\ inst_next'[i] = n /\ inst_prev'[i] = p
      /\ \A y \in Inst \ {i} : inst_next'[y] = IF y = p THEN i ELSE inst_next[y]
      /\ \A y \in Inst \ {i} : inst_prev'[y] = IF y = n THEN i ELSE inst_prev[y]
  BY <1>1 DEF InstLinkedAt
<1>5. \A j \in 1 .. Len(s) : s[j] # i /\ s[j] \in Inst /\ inst_block[s[j]] = b
  BY <1>1, <1>3
<1>6. \A c \in Block \ {b} : first_inst'[c] = first_inst[c] /\ last_inst'[c] = last_inst[c]
  BY DEF InstLinkedAt
<1> HIDE DEF s
<1>7. Len(s) \in Nat
  BY <1>2, ListFacts
<1>8. IsList(r, first_inst'[b], last_inst'[b], inst_next', inst_prev', Inst)
  BY <1>2, <1>4, <1>5, LinkIn, LayoutAssumption
<1>9. /\ p # None => inst_block[p] = b
      /\ n # None => inst_block[n] = b
  <2>1. k # 1 => k - 1 \in 1 .. Len(s)
    BY <1>4, <1>7
  <2>2. k # Len(s) + 1 => k \in 1 .. Len(s)
    BY <1>4, <1>7
  <2> QED  BY <1>4, <1>5, <2>1, <2>2
<1> HIDE DEF r
<1>10. ASSUME NEW c \in Block
       PROVE  IsList(t[c], first_inst'[c], last_inst'[c], inst_next', inst_prev', Inst)
  <2>1. CASE c = b
    BY <1>8, <2>1
  <2>2. CASE c # b
    <3> DEFINE q == block_insts[c]
    <3>1. IsList(q, first_inst[c], last_inst[c], inst_next, inst_prev, Inst)
      BY DEF RInv, InstsListed
    <3>2. \A j \in 1 .. Len(q) : q[j] \in Inst /\ q[j] # i /\ inst_block[q[j]] = c
      BY <1>3
    <3>3. \A j \in 1 .. Len(q) : q[j] # None /\ q[j] # p /\ q[j] # n
      BY <1>9, <2>2, <3>2, LayoutAssumption
    <3>4. t[c] = q
      BY <2>2
    <3> HIDE DEF q, t
    <3>5. \A j \in 1 .. Len(q) :
             inst_next'[q[j]] = inst_next[q[j]] /\ inst_prev'[q[j]] = inst_prev[q[j]]
      BY <1>4, <3>2, <3>3
    <3>6. IsList(q, first_inst[c], last_inst[c], inst_next', inst_prev', Inst)
      BY <3>1, <3>5, SameList
    <3> QED  BY <1>6, <2>2, <3>4, <3>6
  <2> QED  BY <2>1, <2>2
<1>11. t = [c \in Block |-> t[c]]
  OBVIOUS
<1>12. block_insts' = t /\ InstsListed'
  <2> HIDE DEF t
  <2> QED  BY <1>10, <1>11, InstsAre
<1>13. block_insts' = [block_insts EXCEPT ![b] = r]
  <2>1. block_insts = [c \in Block |-> block_insts[c]]
    BY DEF block_insts
  <2> QED  BY <1>1, <1>12, <2>1
<1>14. blocks' = blocks /\ BlocksListed'
  BY SameBlocks DEF RInv
<1>15. Abstract!laid_out(b) /\ ~Abstract!inserted(i)
  <2>1. Abstract!laid_out(b)
    BY <1>1, ListedInserted DEF Abstract!laid_out, Abstract!Contains
  <2>2. ~Abstract!inserted(i)
    BY <1>3 DEF Abstract!inserted, Abstract!Contains
  <2> QED  BY <2>1, <2>2
<1>16. Abstract!PlaceInst(i, b, k)
  BY <1>13, <1>14, <1>15 DEF Abstract!PlaceInst, r, s
<1>17. Abstract!Next
  BY <1>1, <1>4, <1>16 DEF Abstract!Next, s
<1> QED  BY <1>12, <1>14, <1>17 DEF Refined, Simulated

\* append_inst puts an instruction behind those of a block.
LEMMA AppendInstRefines ==
    ASSUME RInv, NEW i \in Inst, NEW b \in Block, append_inst(i, b)
    PROVE  Refined
<1> DEFINE s == block_insts[b]
           k == Len(s) + 1
           last == last_inst[b]
<1>1. IsList(s, first_inst[b], last_inst[b], inst_next, inst_prev, Inst)
  BY DEF RInv, InstsListed
<1>2. /\ TypeOK /\ InstLinks /\ InstBlocks /\ ~splitting /\ inst_block[i] = None
      /\ is_block_inserted(b) /\ UNCHANGED <<blockVars, cold>>
      /\ inst_prev' = [inst_prev EXCEPT ![i] = last]
      /\ inst_next' = IF first_inst[b] = None THEN inst_next ELSE relinked(inst_next, last, i)
      /\ first_inst' = IF first_inst[b] = None THEN [first_inst EXCEPT ![b] = i] ELSE first_inst
      /\ last_inst' = [last_inst EXCEPT ![b] = i]
  BY DEF RInv, LInv, append_inst, splitting
<1> HIDE DEF s
<1>3. Len(s) \in Nat /\ last = IF Len(s) = 0 THEN None ELSE s[Len(s)]
  BY <1>1, ListFacts
<1>4. /\ first_inst[b] = None <=> last = None
      /\ inst_next[i] = None /\ last \in OrNone(Inst)
      /\ last # None => inst_block[last] = b
  BY <1>2 DEF InstLinks, InstBlocks, TypeOK
<1>5. i # last
  BY <1>2, <1>4, LayoutAssumption
<1>6. /\ \A y \in Inst : inst_next'[y] = IF y = i THEN None ELSE IF y = last THEN i ELSE inst_next[y]
      /\ \A y \in Inst : inst_prev'[y] = IF y = i THEN last ELSE IF y = None THEN i ELSE inst_prev[y]
  BY <1>2, <1>4, <1>5, LayoutAssumption DEF TypeOK, relinked, OrNone
<1>7. /\ \A c \in Block : first_inst'[c] = IF c = b /\ last = None THEN i ELSE first_inst[c]
      /\ \A c \in Block : last_inst'[c] = IF c = b /\ None = None THEN i ELSE last_inst[c]
  BY <1>2, <1>4 DEF TypeOK
<1>8. /\ k \in 1 .. (Len(s) + 1) /\ last = (IF k = 1 THEN None ELSE s[k - 1])
      /\ None = IF k = Len(s) + 1 THEN None ELSE s[k]
  BY <1>3
<1> HIDE DEF k, last
<1>9. InstLinkedAt(i, b, k, last, None)
  BY <1>2, <1>6, <1>7, <1>8 DEF InstLinkedAt, s
<1> QED  BY <1>2, <1>9, InstLinkedIn

\* insert_inst puts it before another one, whatever becomes of the numbers.
LEMMA InsertInstRefines ==
    ASSUME RInv, NEW i \in Inst, NEW before \in Inst, insert_inst(i, before)
    PROVE  Refined
<1> DEFINE b == inst_block[before]
           s == block_insts[b]
           p == inst_prev[before]
<1>1. /\ LInv /\ TypeOK /\ InstLinks /\ InstBlocks /\ Acyclic /\ ~splitting /\ inst_block[i] = None
      /\ b # None /\ UNCHANGED <<blockVars, cold>>
      /\ inst_next' = relinked([inst_next EXCEPT ![i] = before], p, i)
      /\ inst_prev' = [inst_prev EXCEPT ![i] = p, ![before] = i]
      /\ first_inst' = IF p = None THEN [first_inst EXCEPT ![b] = i] ELSE first_inst
      /\ last_inst' = last_inst
  BY DEF RInv, LInv, insert_inst, splitting
<1>2. b \in Block /\ is_block_inserted(b)
  BY <1>1, NonEmpty DEF TypeOK, OrNone
<1>3. PICK k \in 1 .. Len(s) : s[k] = before
  BY <1>1, InstsComplete
<1>4. IsList(s, first_inst[b], last_inst[b], inst_next, inst_prev, Inst)
  BY <1>2 DEF RInv, InstsListed
<1> HIDE DEF s
<1>5. /\ Len(s) \in Nat /\ \A j \in 1 .. Len(s) : s[j] \in Inst
      /\ \A j \in 1 .. Len(s) : inst_prev[s[j]] = IF j = 1 THEN None ELSE s[j - 1]
  BY <1>4, ListFacts
<1>6. /\ k \in 1 .. (Len(s) + 1) /\ p = (IF k = 1 THEN None ELSE s[k - 1])
      /\ before = IF k = Len(s) + 1 THEN None ELSE s[k]
  BY <1>3, <1>5
<1>7. i # before /\ p # i /\ p \in OrNone(Inst)
  <2>1. p \in OrNone(Inst)
    BY <1>1 DEF TypeOK
  <2>2. p # None => inst_block[p] = b
    BY <1>1, <2>1 DEF InstLinks, InstBlocks, OrNone
  <2> QED  BY <1>1, <2>1, <2>2, LayoutAssumption
<1>8. /\ \A y \in Inst : inst_next'[y] = IF y = i THEN before ELSE IF y = p THEN i ELSE inst_next[y]
      /\ \A y \in Inst : inst_prev'[y] = IF y = i THEN p ELSE IF y = before THEN i ELSE inst_prev[y]
  BY <1>1, <1>7, LayoutAssumption DEF TypeOK, relinked, OrNone
<1>9. /\ \A c \in Block : first_inst'[c] = IF c = b /\ p = None THEN i ELSE first_inst[c]
      /\ \A c \in Block : last_inst'[c] = IF c = b /\ before = None THEN i ELSE last_inst[c]
  BY <1>1, LayoutAssumption DEF TypeOK
<1> HIDE DEF p, b
<1>10. InstLinkedAt(i, b, k, p, before)
  BY <1>1, <1>2, <1>6, <1>8, <1>9 DEF InstLinkedAt, s
<1> QED  BY <1>1, <1>2, <1>10, InstLinkedIn

\* Unlinking an instruction takes it out of its block's sequence.
LEMMA UnlinkInstRefines ==
    ASSUME RInv, ~splitting, NEW i \in Inst, unlink_inst(i)
    PROVE  Refined
<1> DEFINE b == inst_block[i]
           s == block_insts[b]
           p == inst_prev[i]
           n == inst_next[i]
<1>1. /\ TypeOK /\ InstLinks /\ InstBlocks /\ b # None /\ UNCHANGED <<blockVars, cold>>
      /\ inst_prev' = relinked([inst_prev EXCEPT ![i] = None], n, p)
      /\ inst_next' = relinked([inst_next EXCEPT ![i] = None], p, n)
      /\ first_inst' = IF p = None THEN [first_inst EXCEPT ![b] = n] ELSE first_inst
      /\ last_inst' = IF n = None THEN [last_inst EXCEPT ![b] = p] ELSE last_inst
  BY DEF RInv, LInv, unlink_inst
<1>2. b \in Block
  BY <1>1 DEF TypeOK, OrNone
<1>3. PICK k \in 1 .. Len(s) : s[k] = i
  BY <1>1, InstsComplete
<1>4. IsList(s, first_inst[b], last_inst[b], inst_next, inst_prev, Inst)
  BY <1>2 DEF RInv, InstsListed
<1>5. \A c \in Block : \A j \in 1 .. Len(block_insts[c]) :
         block_insts[c][j] \in Inst /\ inst_block[block_insts[c][j]] = c
  BY InstsKnowBlock
<1> HIDE DEF s
<1>6. /\ p \in OrNone(Inst) /\ n \in OrNone(Inst)
      /\ p # None => inst_block[p] = b /\ inst_next[p] = i
      /\ n # None => inst_block[n] = b /\ inst_prev[n] = i
  BY <1>1 DEF TypeOK, InstLinks, InstBlocks, OrNone
<1>7. \A y \in Inst \ {i} : /\ inst_next'[y] = IF y = p THEN n ELSE inst_next[y]
                            /\ inst_prev'[y] = IF y = n THEN p ELSE inst_prev[y]
  BY <1>1, <1>6, LayoutAssumption DEF TypeOK, relinked, OrNone
<1>8. /\ first_inst'[b] = IF p = None THEN n ELSE first_inst[b]
      /\ last_inst'[b] = IF n = None THEN p ELSE last_inst[b]
      /\ \A c \in Block \ {b} : first_inst'[c] = first_inst[c] /\ last_inst'[c] = last_inst[c]
  BY <1>1, <1>2 DEF TypeOK
<1> DEFINE r == Abstract!RemoveAt(s, k)
           t == [c \in Block |-> IF c = b THEN r ELSE block_insts[c]]
<1>9. IsList(r, first_inst'[b], last_inst'[b], inst_next', inst_prev', Inst)
  <2>1. /\ \A y \in Inst \ {s[k]} : inst_next'[y] = IF y = p THEN n ELSE inst_next[y]
        /\ \A y \in Inst \ {s[k]} : inst_prev'[y] = IF y = n THEN p ELSE inst_prev[y]
        /\ p = inst_prev[s[k]] /\ n = inst_next[s[k]]
        /\ None \notin Inst
    BY <1>3, <1>7, LayoutAssumption
  <2> HIDE DEF p, n, b
  <2> QED  BY <1>4, <1>8, <2>1, LinkOut
<1> HIDE DEF r
<1>10. ASSUME NEW c \in Block
       PROVE  IsList(t[c], first_inst'[c], last_inst'[c], inst_next', inst_prev', Inst)
  <2>1. CASE c = b
    BY <1>9, <2>1
  <2>2. CASE c # b
    <3> DEFINE q == block_insts[c]
    <3>1. IsList(q, first_inst[c], last_inst[c], inst_next, inst_prev, Inst)
      BY DEF RInv, InstsListed
    <3>2. \A j \in 1 .. Len(q) : q[j] \in Inst /\ inst_block[q[j]] = c
      BY <1>5
    <3>3. \A j \in 1 .. Len(q) : q[j] # None /\ q[j] # i /\ q[j] # p /\ q[j] # n
      BY <1>6, <2>2, <3>2, LayoutAssumption
    <3>4. t[c] = q
      BY <2>2
    <3> HIDE DEF q, t, p, n
    <3>5. \A j \in 1 .. Len(q) :
             inst_next'[q[j]] = inst_next[q[j]] /\ inst_prev'[q[j]] = inst_prev[q[j]]
      BY <1>7, <3>2, <3>3
    <3>6. IsList(q, first_inst[c], last_inst[c], inst_next', inst_prev', Inst)
      BY <3>1, <3>5, SameList
    <3> QED  BY <1>8, <2>2, <3>4, <3>6
  <2> QED  BY <2>1, <2>2
<1>11. t = [c \in Block |-> t[c]]
  OBVIOUS
<1>12. block_insts' = t /\ InstsListed'
  <2> HIDE DEF t
  <2> QED  BY <1>10, <1>11, InstsAre
<1> HIDE DEF b, p, n
<1>13. block_insts' = [block_insts EXCEPT ![b] = r]
  <2>1. block_insts = [c \in Block |-> block_insts[c]]
    BY DEF block_insts
  <2> QED  BY <1>2, <1>12, <2>1
<1>14. blocks' = blocks /\ BlocksListed'
  BY <1>1, SameBlocks DEF RInv
<1>15. Abstract!Contains(block_insts[b], i) /\ Abstract!position(block_insts[b], i) = k
  BY <1>3, <1>4, PositionIs DEF Abstract!Contains, s
<1>16. Abstract!RemoveInst(i, b)
  BY <1>1, <1>13, <1>14, <1>15 DEF Abstract!RemoveInst, r, s
<1>17. Abstract!Next
  BY <1>2, <1>16 DEF Abstract!Next
<1> QED  BY <1>12, <1>14, <1>17 DEF Refined, Simulated


\* split_block moves the instructions from `before' on to a new block, at once
\* as far as the lists go.
LEMMA SplitBlockRefines ==
    ASSUME RInv, NEW i \in Inst, NEW new \in Block, split_block(new, i)
    PROVE  Refined
<1> DEFINE b == inst_block[i]
           s == block_insts[b]
           p == inst_prev[i]
           n == block_next[b]
<1>1. /\ LInv /\ TypeOK /\ BlockLinks /\ InstLinks /\ InstBlocks /\ ~splitting
      /\ b # None /\ ~is_block_inserted(new) /\ cold' = cold /\ first_block' = first_block
      /\ block_prev' = IF b = last_block THEN [block_prev EXCEPT ![new] = b]
                       ELSE [block_prev EXCEPT ![new] = b, ![n] = new]
      /\ block_next' = [block_next EXCEPT ![new] = n, ![b] = new]
      /\ last_block' = IF b = last_block THEN new ELSE last_block
      /\ first_inst' = IF p = None THEN [first_inst EXCEPT ![new] = i, ![b] = None]
                       ELSE [first_inst EXCEPT ![new] = i]
      /\ last_inst' = [last_inst EXCEPT ![new] = last_inst[b], ![b] = p]
      /\ inst_prev' = [inst_prev EXCEPT ![i] = None]
      /\ inst_next' = relinked(inst_next, p, None)
  BY DEF RInv, LInv, split_block, splitting
<1>2. b \in Block /\ is_block_inserted(b)
  BY <1>1, NonEmpty DEF TypeOK, OrNone
<1>3. b # new
  BY <1>1, <1>2
<1>4. n = None <=> b = last_block
  BY <1>1, <1>2, LayoutAssumption DEF BlockLinks
<1>5. PICK m \in 1 .. (Len(blocks) + 1) :
        /\ m = Abstract!position(blocks, b) + 1
        /\ ~Abstract!laid_out(new) /\ Abstract!laid_out(b)
        /\ blocks' = Abstract!InsertAt(blocks, m, new) /\ BlocksListed'
  <2>1. /\ n = block_next[b]
        /\ block_next' = [block_next EXCEPT ![new] = n, ![b] = new]
        /\ block_prev' = relinked([block_prev EXCEPT ![new] = b], n, new)
        /\ last_block' = (IF n = None THEN new ELSE last_block) /\ first_block' = first_block
    BY <1>1, <1>4 DEF relinked
  <2> HIDE DEF n, b
  <2> QED  BY <1>1, <1>2, <2>1, BlockLinkedBehind
<1>6. PICK k \in 1 .. Len(s) : s[k] = i
  BY <1>1, InstsComplete
<1>7. IsList(s, first_inst[b], last_inst[b], inst_next, inst_prev, Inst)
  BY <1>2 DEF RInv, InstsListed
<1>8. \A c \in Block : \A j \in 1 .. Len(block_insts[c]) :
         block_insts[c][j] \in Inst /\ inst_block[block_insts[c][j]] = c
  BY <1>1, InstsKnowBlock
<1>9. first_inst[new] = None /\ block_insts[new] = <<>>
  BY <1>1, EmptyBlock DEF BlockLinks
<1> HIDE DEF s
<1>10. p \in OrNone(Inst) /\ (p # None => inst_block[p] = b /\ p # i)
  <2>1. p # i
    <3> SUFFICES ASSUME p = i PROVE FALSE
      OBVIOUS
    <3>1. {i} \in SUBSET Inst /\ {i} # {}
      OBVIOUS
    <3> QED  BY <1>1, <3>1 DEF LInv, Acyclic
  <2> QED  BY <1>1, <2>1 DEF TypeOK, InstLinks, InstBlocks, OrNone
<1>11. /\ \A y \in Inst : inst_next'[y] = IF y = p THEN None ELSE inst_next[y]
       /\ \A y \in Inst : inst_prev'[y] = IF y = i THEN None ELSE inst_prev[y]
  BY <1>1, <1>10, LayoutAssumption DEF TypeOK, relinked, OrNone
<1>12. /\ first_inst'[b] = (IF p = None THEN None ELSE first_inst[b]) /\ last_inst'[b] = p
       /\ first_inst'[new] = i /\ last_inst'[new] = last_inst[b]
       /\ \A c \in Block \ {b, new} : first_inst'[c] = first_inst[c] /\ last_inst'[c] = last_inst[c]
  BY <1>1, <1>2, <1>3 DEF TypeOK
<1> DEFINE head == SubSeq(s, 1, k - 1)
           tail == SubSeq(s, k, Len(s))
           t == [c \in Block |-> IF c = b THEN head ELSE IF c = new THEN tail ELSE block_insts[c]]
<1>13. /\ IsList(head, first_inst'[b], last_inst'[b], inst_next', inst_prev', Inst)
       /\ IsList(tail, first_inst'[new], last_inst'[new], inst_next', inst_prev', Inst)
  <2>1. /\ \A y \in Inst : inst_next'[y] = IF y = inst_prev[s[k]] THEN None ELSE inst_next[y]
        /\ \A y \in Inst : inst_prev'[y] = IF y = s[k] THEN None ELSE inst_prev[y]
        /\ first_inst'[b] = IF inst_prev[s[k]] = None THEN None ELSE first_inst[b]
        /\ None \notin Inst
    BY <1>6, <1>11, <1>12, LayoutAssumption
  <2>2. last_inst'[b] = inst_prev[s[k]] /\ first_inst'[new] = s[k] /\ last_inst'[new] = last_inst[b]
    BY <1>6, <1>12
  <2> HIDE DEF b
  <2>3. /\ IsList(head, first_inst'[b], inst_prev[s[k]], inst_next', inst_prev', Inst)
        /\ IsList(tail, s[k], last_inst[b], inst_next', inst_prev', Inst)
    BY <1>7, <2>1, CutList
  <2> HIDE DEF head, tail
  <2> QED  BY <2>2, <2>3
<1> HIDE DEF head, tail
<1>14. ASSUME NEW c \in Block
       PROVE  IsList(t[c], first_inst'[c], last_inst'[c], inst_next', inst_prev', Inst)
  <2>1. CASE c = b
    BY <1>13, <2>1
  <2>2. CASE c = new
    BY <1>3, <1>13, <2>2
  <2>3. CASE c # b /\ c # new
    <3> DEFINE q == block_insts[c]
    <3>1. IsList(q, first_inst[c], last_inst[c], inst_next, inst_prev, Inst)
      BY DEF RInv, InstsListed
    <3>2. \A j \in 1 .. Len(q) : q[j] \in Inst /\ inst_block[q[j]] = c
      BY <1>8
    <3>3. \A j \in 1 .. Len(q) : q[j] # None /\ q[j] # i /\ q[j] # p
      BY <1>10, <2>3, <3>2, LayoutAssumption
    <3>4. t[c] = q
      BY <2>3
    <3> HIDE DEF q, t, p
    <3>5. \A j \in 1 .. Len(q) :
             inst_next'[q[j]] = inst_next[q[j]] /\ inst_prev'[q[j]] = inst_prev[q[j]]
      BY <1>11, <3>2, <3>3
    <3>6. IsList(q, first_inst[c], last_inst[c], inst_next', inst_prev', Inst)
      BY <3>1, <3>5, SameList
    <3> QED  BY <1>12, <2>3, <3>4, <3>6
  <2> QED  BY <2>1, <2>2, <2>3
<1>15. t = [c \in Block |-> t[c]]
  OBVIOUS
<1>16. block_insts' = t /\ InstsListed'
  <2> HIDE DEF t
  <2> QED  BY <1>14, <1>15, InstsAre
<1> HIDE DEF b, p, n
<1>17. block_insts' = [block_insts EXCEPT ![b] = head, ![new] = tail]
  <2>1. block_insts = [c \in Block |-> block_insts[c]]
    BY DEF block_insts
  <2> QED  BY <1>2, <1>3, <1>16, <2>1
<1>18. Abstract!SplitBlock(b, new, k)
  BY <1>1, <1>5, <1>9, <1>17 DEF Abstract!SplitBlock, head, tail, s
<1>19. k \in DOMAIN block_insts[b]
  <2>1. DOMAIN s = 1 .. Len(s)
    BY <1>7, ListFacts
  <2> QED  BY <1>6, <2>1 DEF s
<1>20. Abstract!Next
  BY <1>2, <1>18, <1>19 DEF Abstract!Next
<1> QED  BY <1>5, <1>16, <1>20 DEF Refined, Simulated

(***************************************************************************)
(* All steps together.                                                     *)
(***************************************************************************)

\* The empty layout: an empty list is empty.
LEMMA EmptyList ==
    ASSUME NEW U, NEW next, NEW prev
    PROVE  IsList(<<>>, None, None, next, prev, U)
BY DEF IsList

\* The empty layout holds the empty sequences.
LEMMA InitRefines ==
    ASSUME Init PROVE RInv /\ Abstract!Init
<1>1. LInv
  BY InitInv
<1>2. blocks = <<>>
  <2>1. IsList(<<>>, first_block, last_block, block_next, block_prev, Block)
    BY EmptyList DEF Init
  <2> QED  BY <2>1, ListedBlocks DEF blocks
<1>3. ASSUME NEW b \in Block
      PROVE  /\ IsList(<<>>, first_inst[b], last_inst[b], inst_next, inst_prev, Inst)
             /\ block_insts[b] = <<>>
  <2>1. first_inst[b] = None /\ last_inst[b] = None
    BY DEF Init
  <2>2. IsList(<<>>, first_inst[b], last_inst[b], inst_next, inst_prev, Inst)
    BY <2>1, EmptyList
  <2>3. block_insts[b] = listing(first_inst[b], last_inst[b], inst_next, Cardinality(Inst))
    BY DEF block_insts
  <2> QED  BY <2>2, <2>3, ListedInsts
<1>4. block_insts = [b \in Block |-> <<>>]
  <2>1. block_insts = [b \in Block |-> block_insts[b]]
    BY DEF block_insts
  <2> QED  BY <1>3, <2>1
<1>5. BlocksListed
  <2>1. IsList(blocks, first_block, last_block, block_next, block_prev, Block)
    BY <1>2, EmptyList DEF Init
  <2>2. \A b \in Block : ~is_block_inserted(b)
    BY LayoutAssumption DEF Init, is_block_inserted
  <2> QED  BY <2>1, <2>2 DEF BlocksListed
<1>6. InstsListed
  BY <1>3 DEF InstsListed
<1> QED  BY <1>1, <1>2, <1>4, <1>5, <1>6 DEF RInv, Init, Abstract!Init

\* clear empties the sequences.
LEMMA ClearRefines ==
    ASSUME RInv, clear PROVE Refined
<1>1. /\ first_block' = None /\ last_block' = None /\ cold' = {}
      /\ block_prev' = [b \in Block |-> None]
      /\ first_inst' = [b \in Block |-> None] /\ last_inst' = [b \in Block |-> None]
  BY DEF clear
<1>2. IsList(<<>>, first_block', last_block', block_next', block_prev', Block)
  BY <1>1, EmptyList
<1>3. blocks' = <<>>
  BY <1>2, ListedBlocks DEF blocks
<1>4. BlocksListed'
  <2>1. \A b \in Block : ~is_block_inserted(b)'
    BY <1>1, LayoutAssumption DEF is_block_inserted
  <2> QED  BY <1>2, <1>3, <2>1 DEF BlocksListed
<1> DEFINE t == [b \in Block |-> <<>>]
<1>5. t = [b \in Block |-> t[b]]
  OBVIOUS
<1>6. \A c \in Block : IsList(t[c], first_inst'[c], last_inst'[c], inst_next', inst_prev', Inst)
  <2> SUFFICES ASSUME NEW c \in Block
               PROVE  IsList(t[c], first_inst'[c], last_inst'[c], inst_next', inst_prev', Inst)
    OBVIOUS
  <2>1. t[c] = <<>> /\ first_inst'[c] = None /\ last_inst'[c] = None
    BY <1>1
  <2> QED  BY <2>1, EmptyList
<1>7. block_insts' = t /\ InstsListed'
  <2> HIDE DEF t
  <2> QED  BY <1>5, <1>6, InstsAre
<1>8. Abstract!Clear
  BY <1>1, <1>3, <1>7 DEF Abstract!Clear
<1> QED  BY <1>4, <1>7, <1>8 DEF Refined, Simulated, Abstract!Next

\* set_cold marks a block.
LEMMA SetColdRefines ==
    ASSUME RInv, NEW b \in Block, set_cold(b) PROVE Refined
<1>1. /\ blocks' = blocks /\ BlocksListed' /\ block_insts' = block_insts /\ InstsListed'
  BY SameBlocks, SameInsts DEF RInv, set_cold
<1>2. Abstract!SetCold(b)
  BY <1>1 DEF Abstract!SetCold, set_cold
<1> QED  BY <1>1, <1>2 DEF Refined, Simulated, Abstract!Next

\* Every step of the layout is one of the sequences, or none.
LEMMA NextRefines ==
    ASSUME RInv, [Next]_vars PROVE RInv' /\ Refined
<1>1. LInv'
  BY NextKeepsInv DEF RInv
<1>2. Refined
  <2>1. ASSUME NEW b \in Block, append_block(b) PROVE Refined
    BY <2>1, AppendBlockRefines
  <2>2. ASSUME NEW b \in Block, remove_block(b) PROVE Refined
    BY <2>2, UnlinkBlockRefines DEF remove_block
  <2>3. ASSUME NEW b \in Block, remove_block_and_insts(b) PROVE Refined
    BY <2>3, LinksKept DEF remove_block_and_insts
  <2>4. ASSUME NEW b \in Block, set_cold(b) PROVE Refined
    BY <2>4, SetColdRefines
  <2>5. ASSUME NEW b \in Block, NEW at \in Block, insert_block(b, at) PROVE Refined
    BY <2>5, InsertBlockRefines
  <2>6. ASSUME NEW b \in Block, NEW at \in Block, insert_block_after(b, at) PROVE Refined
    BY <2>6, InsertBlockAfterRefines
  <2>7. ASSUME NEW i \in Inst, NEW b \in Block, append_inst(i, b) PROVE Refined
    BY <2>7, AppendInstRefines
  <2>8. ASSUME NEW i \in Inst, NEW b \in Block, split_block(b, i) PROVE Refined
    BY <2>8, SplitBlockRefines
  <2>9. ASSUME NEW i \in Inst, NEW before \in Inst, insert_inst(i, before) PROVE Refined
    BY <2>9, InsertInstRefines
  <2>10. ASSUME NEW i \in Inst, remove_inst(i) PROVE Refined
    <3>1. ~splitting /\ unlink_inst(i)
      BY <2>10 DEF remove_inst, stays_idle, splitting
    <3> QED  BY <3>1, UnlinkInstRefines
  <2>11. CASE clear
    BY <2>11, ClearRefines
  <2>12. CASE renumber_insts
    BY <2>12, LinksKept DEF renumber_insts
  <2>13. CASE full_block_renumber
    BY <2>13, LinksKept DEF full_block_renumber
  <2>14. CASE move_insts
    BY <2>14, LinksKept DEF move_insts
  <2>15. CASE remove_insts
    <3>1. ~splitting /\ arg \in Block /\ TypeOK
      BY <2>15 DEF remove_insts, splitting, RInv, LInv, RemovedBlock
    <3>2. CASE first_inst[arg] # None /\ unlink_inst(first_inst[arg])
      <4>1. first_inst[arg] \in Inst
        BY <3>1, <3>2 DEF TypeOK, OrNone
      <4> QED  BY <3>1, <3>2, <4>1, UnlinkInstRefines
    <3>3. CASE unlink_block(arg)
      BY <3>1, <3>3, UnlinkBlockRefines
    <3> QED  BY <2>15, <3>2, <3>3 DEF remove_insts
  <2>16. CASE UNCHANGED vars
    <3>1. UNCHANGED <<blockVars, instVars, cold>>
      BY <2>16 DEF vars
    <3> QED  BY <3>1, LinksKept
  <2> QED
    BY <2>1, <2>2, <2>3, <2>4, <2>5, <2>6, <2>7, <2>8, <2>9, <2>10, <2>11, <2>12, <2>13, <2>14,
       <2>15, <2>16 DEF Next, Loop
<1> QED  BY <1>1, <1>2 DEF RInv, Refined

\* The invariant of the refinement: whatever the client calls, the links are
\* those of lists, and these hold all blocks and instructions in the layout.
THEOREM ListsInvariant == Spec => []RInv
<1>1. Init => RInv
  BY InitRefines
<1>2. RInv /\ [Next]_vars => RInv'
  BY NextRefines
<1> QED  BY <1>1, <1>2, PTL DEF Spec

\* Whatever the client calls, iterating over the blocks, or over the
\* instructions of a block, from the end yields the reverse of iterating from
\* the start.
THEOREM IteratorsAgree == Spec => []BothWays
<1>1. RInv => BothWays
  BY RInvBothWays
<1> QED  BY <1>1, ListsInvariant, PTL

\* Between two calls, comparing sequence numbers as pp_cmp does answers
\* which instruction of a block comes first, and inst_block which block.
THEOREM PpCmpIsListOrder == Spec => []PpCmpAgrees
<1>1. RInv => PpCmpAgrees
  BY RInvPpCmpAgrees
<1> QED  BY <1>1, ListsInvariant, PTL

\* For any number of blocks and instructions the linked lists of Layout
\* implement the sequences of LayoutSpec: every call is one insertion, removal
\* or split of a sequence, and the turns of the loops change none.
THEOREM LayoutImplementsSequences == Spec => ImplementsSequences
<1>1. Init => Abstract!Init
  BY InitRefines
<1>2. RInv /\ [Next]_vars => [Abstract!Next]_(Abstract!vars)
  BY NextRefines DEF Refined, Simulated, Abstract!vars
<1> QED  BY <1>1, <1>2, ListsInvariant, PTL DEF Spec, ImplementsSequences, Abstract!Spec

=============================================================================
