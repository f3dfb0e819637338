--------------------------- MODULE Sia32LabelUse ----------------------------
(***************************************************************************)
(* The label uses of the SIA32 backend (isa/sia32/label.rs) and the sizes  *)
(* it declares to the MachBuffer (isa/sia32/inst.rs).                      *)
(***************************************************************************)
EXTENDS Integers

\* Stands for u32::MAX: TLC's integers are too narrow for the real one, and no
\* offset of an instance comes near it.
Unlimited == 1000000

LabelUse == {"Cond7", "Branch11", "Literal8", "LongDelta32"}
\* LongDelta32 occurs in veneers only.
InstLabelUse == LabelUse \ {"LongDelta32"}
LABEL_USE_ALIGN == 2

\* Mutant: forgets that displacements count from the next instruction.
max_pos_range_from_next ==
    [Cond7 |-> 130, Branch11 |-> 2050, Literal8 |-> 508, LongDelta32 |-> Unlimited]

max_pos_range ==
    [Cond7 |-> 128, Branch11 |-> 2048, Literal8 |-> 508, LongDelta32 |-> Unlimited]
max_neg_range ==
    [Cond7 |-> 126, Branch11 |-> 2046, Literal8 |-> 508, LongDelta32 |-> Unlimited]
patch_size == [Cond7 |-> 2, Branch11 |-> 2, Literal8 |-> 2, LongDelta32 |-> 4]
veneer_size == [Cond7 |-> 2, Branch11 |-> 24, Literal8 |-> 0, LongDelta32 |-> 0]
worst_case_veneer_size == 24

\* supports_veneer and generate_veneer: Cond7 becomes a `b'; Branch11 becomes a
\* sequence that adds a literal to the PC.  The other two support no veneer.
veneer_kind ==
    [Cond7 |-> "Branch11", Branch11 |-> "LongDelta32", Literal8 |-> "none",
     LongDelta32 |-> "none"]

\* Mutant: the literal follows the instructions at once, unaligned.
unaligned_literal(r) == 12

\* Where the literal of a long veneer is, behind its instructions and aligned
\* to 4, relative to the veneer's offset, which is r modulo 4.
literal_delta(r) == ((r + 19) \div 4) * 4 - r

\* Where the label use of a veneer is, by the veneer's offset modulo 4.
veneer_fixup_delta == [k \in LabelUse |-> [r \in 0 .. 3 |->
    IF k = "Branch11" THEN literal_delta(r) ELSE 0]]

TRAP_OPCODE_len == 2
worst_case_size == 24
worst_case_island_growth == 34

=============================================================================
