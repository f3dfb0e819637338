-------------------------- MODULE MCMachBufferSem ---------------------------
(* Small instances of MachBufferSem. *)
EXTENDS MachBufferSem

\* As in MCMachBuffer: a short branch whose veneer holds a long one.
MCKind == {"short", "long"}
MCMaxPos == [k \in MCKind |-> IF k = "short" THEN 10 ELSE 1000]
MCMaxNeg == [k \in MCKind |-> IF k = "short" THEN 2 ELSE 1000]
MCPatchSize == [k \in MCKind |-> IF k = "short" THEN 1 ELSE 2]
MCVeneerSize == [k \in MCKind |-> IF k = "short" THEN 3 ELSE 0]
MCVeneerKind == [k \in MCKind |-> IF k = "short" THEN "long" ELSE "none"]
MCVeneerFixupDelta == [k \in MCKind |-> [r \in 0 .. 3 |-> IF k = "short" THEN 1 ELSE 0]]
MCConstSize == [c \in Const |-> 2]
MCConstAlign == [c \in Const |-> 4]
=============================================================================
