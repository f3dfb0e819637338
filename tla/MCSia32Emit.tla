---------------------------- MODULE MCSia32Emit -----------------------------
(* Functions of a few blocks whose branches cross islands. *)
EXTENDS Sia32Emit

simple(n) == [op |-> "Simple", n |-> n]
jmp(l) == [op |-> "Jump", l |-> l]
brnz(l, m) == [op |-> "BrNz", l |-> l, not_taken |-> m]
op(o) == [op |-> o]
table(n, l) == [op |-> "BrTable", n |-> n, l |-> l]
NoConsts == [c \in {} |-> 1]
MCPrologue == <<2, 2>>

last == NumBlocks - 1

\* Code that fills the range of a conditional branch as tightly as it can.
tight(cold, pad, n) == [cold |-> cold, insts |-> n, padding |-> pad, menu |-> [nth \in 1 .. NumBlocks |->
    {simple(2), simple(24), op("Ret"), brnz(last, next_block)}
    \cup (IF nth = NumBlocks THEN {brnz(0, last)} ELSE {})]]
\* Every instruction that uses labels.
every(cold, pad, n) == [cold |-> cold, insts |-> n, padding |-> pad, menu |-> [nth \in 1 .. NumBlocks |->
    {simple(24), op("Call"), op("Select"), op("TrapIfZ"), op("TrapIfNz"),
     op("LoadExtName"), brnz(last, next_block)}
    \cup (IF nth = 1 THEN {table(3, last)} ELSE {})]]
\* A table that is longer than the range of its own branches.
long_table(cold, pad, n) == [cold |-> cold, insts |-> n, padding |-> pad, menu |-> [nth \in 1 .. NumBlocks |->
    IF nth = 1 THEN {simple(24), op("Call"), op("TrapIfZ"), table(18, last)}
    ELSE {simple(24), op("Call"), op("Select"), op("Ret"), brnz(0, last)}]]
\* Control flow only.
flow(cold, n) == [cold |-> cold, insts |-> n, padding |-> 0, menu |-> [nth \in 1 .. NumBlocks |->
    {simple(2), op("Ret")} \cup {jmp(l) : l \in 0 .. last}
    \cup {brnz(l, m) : l, m \in 0 .. last}]]

\* A cold block that jumps back to the block emitted before it.
cold_tail == [cold |-> {1}, insts |-> 4, padding |-> 0, menu |-> [nth \in 1 .. NumBlocks |->
    IF nth = 1 THEN {brnz(1, 2)} ELSE IF nth = 2 THEN {simple(2), op("Ret")} ELSE {jmp(2)}]]

MCFamilies ==
    {tight({}, 0, 9), every({}, 16, 6), long_table({}, 16, 5), flow({}, 5), flow({1}, 5)}
FamilyFlow == {flow({}, 5)}
FamilyPadding == {tight({}, 2048, 5)}
FamilyCold == {cold_tail}
=============================================================================
