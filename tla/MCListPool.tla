----------------------------- MODULE MCListPool -----------------------------
(* Two lists that move between blocks of three sizes. *)
EXTENDS ListPool, TLC

MCSymmetry == Permutations(Handle)
=============================================================================
