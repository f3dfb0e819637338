------------------------------ MODULE MCLayout ------------------------------
(* A small Layout; strides small enough that numbers run out. *)
EXTENDS LayoutRefines, TLC

MCSymmetry == Permutations(Block) \cup Permutations(Inst)
=============================================================================
