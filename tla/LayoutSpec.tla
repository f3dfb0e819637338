----------------------------- MODULE LayoutSpec -----------------------------
(***************************************************************************)
(* What a Layout (cranelift/codegen/src/ir/layout.rs) promises: an order   *)
(* of blocks, and an order of instructions in each of them.                *)
(***************************************************************************)
EXTENDS SequencesExt

CONSTANTS Block, Inst

VARIABLES
    order,     \* the blocks in the layout
    contents,  \* the instructions of each block
    cold       \* the blocks marked cold

vars == <<order, contents, cold>>

Init == order = <<>> /\ contents = [b \in Block |-> <<>>] /\ cold = {}

laid_out(b) == Contains(order, b)
inserted(i) == \E b \in Block : Contains(contents[b], i)

position(s, x) == CHOOSE k \in DOMAIN s : s[k] = x

\* A block is laid out at any place in the order.
PlaceBlock(b, k) ==
    /\ ~laid_out(b)
    /\ order' = InsertAt(order, k, b)
    /\ UNCHANGED <<contents, cold>>

\* An empty block leaves the order.
RemoveBlock(b) ==
    /\ laid_out(b) /\ contents[b] = <<>>
    /\ order' = RemoveAt(order, position(order, b))
    /\ UNCHANGED <<contents, cold>>

\* An instruction is placed at any place of a block in the layout.
PlaceInst(i, b, k) ==
    /\ ~inserted(i) /\ laid_out(b)
    /\ contents' = [contents EXCEPT ![b] = InsertAt(@, k, i)]
    /\ UNCHANGED <<order, cold>>

RemoveInst(i, b) ==
    /\ Contains(contents[b], i)
    /\ contents' = [contents EXCEPT ![b] = RemoveAt(@, position(@, i))]
    /\ UNCHANGED <<order, cold>>

\* The instructions of a block from the k-th on move to a new block behind it.
SplitBlock(b, new, k) ==
    /\ laid_out(b) /\ ~laid_out(new) /\ contents[new] = <<>>
    /\ order' = InsertAt(order, position(order, b) + 1, new)
    /\ contents' = [contents EXCEPT
          ![b] = SubSeq(@, 1, k - 1), ![new] = SubSeq(contents[b], k, Len(contents[b]))]
    /\ UNCHANGED cold

SetCold(b) == cold' = cold \cup {b} /\ UNCHANGED <<order, contents>>

Clear == order' = <<>> /\ contents' = [b \in Block |-> <<>>] /\ cold' = {}

Next ==
    \/ \E b \in Block : RemoveBlock(b) \/ SetCold(b)
    \/ \E b \in Block, k \in 1 .. Len(order) + 1 : PlaceBlock(b, k)
    \/ \E i \in Inst, b \in Block :
          RemoveInst(i, b) \/ \E k \in 1 .. Len(contents[b]) + 1 : PlaceInst(i, b, k)
    \/ \E b, new \in Block : \E k \in DOMAIN contents[b] : SplitBlock(b, new, k)
    \/ Clear

Spec == Init /\ [][Next]_vars

=============================================================================
