---------------------------- MODULE LayoutRefines ---------------------------
(***************************************************************************)
(* The lists of Layout, walked as its iterators do, against the sequences  *)
(* of LayoutSpec.                                                          *)
(***************************************************************************)
EXTENDS Layout

\* A function has finitely many blocks and instructions, entities of two types.
ASSUME EntityAssumption == IsFiniteSet(Block) /\ IsFiniteSet(Inst) /\ Block \cap Inst = {}

\* What an iterator yields that starts at `first' and ends behind `last', or
\* where the links end; one element too many if they never do.
listing(first, last, next, most) ==
    LET nth[n \in 0 .. most] == IF n = 0 THEN first
                                ELSE IF nth[n - 1] \in {None, last} THEN None ELSE next[nth[n - 1]]
    IN  [k \in 1 .. Cardinality({n \in 0 .. most : nth[n] # None}) |-> nth[k - 1]]

blocks == listing(first_block, None, block_next, Cardinality(Block))
block_insts == [b \in Block |-> listing(first_inst[b], last_inst[b], inst_next, Cardinality(Inst))]

blocks_back == listing(last_block, None, block_prev, Cardinality(Block))
block_insts_back == [b \in Block |-> listing(last_inst[b], first_inst[b], inst_prev, Cardinality(Inst))]

\* pp_cmp gives Less; a program point is a block or an instruction.
pp_less(p, q) ==
    LET pp_seq(pp) == IF pp \in Block THEN 0 ELSE inst_seq[pp]
    IN  pp_seq(p) < pp_seq(q)

reversed(s) == [k \in DOMAIN s |-> s[Len(s) + 1 - k]]

\* Iterating backwards yields the reverse of iterating forwards, over blocks
\* and over the instructions of every block.
BothWays ==
    /\ reversed(blocks) = blocks_back
    /\ \A b \in Block : reversed(block_insts[b]) = block_insts_back[b]

\* Between two calls, pp_cmp on instructions of one block agrees with their
\* order in it, and puts the block's own program point before all of them;
\* and inst_block agrees with the lists.
PpCmpAgrees ==
    pc = "idle" =>
        /\ \A b \in Block : \A j, k \in DOMAIN block_insts[b] :
              j < k => pp_less(block_insts[b][j], block_insts[b][k])
        /\ \A b \in Block : \A k \in DOMAIN block_insts[b] :
              inst_block[block_insts[b][k]] = b /\ pp_less(b, block_insts[b][k])
        /\ \A i \in Inst : inst_block[i] # None =>
              \E k \in DOMAIN block_insts[inst_block[i]] : block_insts[inst_block[i]][k] = i

\* The lists behave as the sequences of LayoutSpec: insertions, removals and
\* splits happen at once, and renumbering changes nothing.
Abstract == INSTANCE LayoutSpec WITH order <- blocks, contents <- block_insts
ImplementsSequences == Abstract!Spec

=============================================================================
