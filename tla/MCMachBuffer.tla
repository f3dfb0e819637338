---------------------------- MODULE MCMachBuffer ----------------------------
(* Small instances of MachBuffer with a client that calls it in any order. *)
EXTENDS MachBuffer

\* A short branch, whose veneer is a long one without a range limit, in the
\* proportions of a two-byte instruction set.
MCKind == {"short", "long"}
MCMaxPos == [k \in MCKind |-> IF k = "short" THEN 6 ELSE 1000]
MCMaxNeg == [k \in MCKind |-> IF k = "short" THEN 4 ELSE 1000]
MCPatchSize == [k \in MCKind |-> IF k = "short" THEN 1 ELSE 2]
MCVeneerSize == [k \in MCKind |-> IF k = "short" THEN 3 ELSE 0]
MCVeneerKind == [k \in MCKind |-> IF k = "short" THEN "long" ELSE "none"]
MCVeneerFixupDelta == [k \in MCKind |-> [r \in 0 .. 3 |-> IF k = "short" THEN 1 ELSE 0]]
MCConstSize == [c \in Const |-> 2]
MCConstAlign == [c \in Const |-> 4]
=============================================================================
