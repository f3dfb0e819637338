------------------------------- MODULE MCFlow -------------------------------
(* Small functions: nested, irreducible and unreachable flow, tables, edits. *)
EXTENDS BlockOrder

ret == [op |-> "return", dests |-> <<>>]
jump(x) == [op |-> "jump", dests |-> <<x>>]
brif(x, y) == [op |-> "brif", dests |-> <<x, y>>]
br_table(ds) == [op |-> "br_table", dests |-> ds]

Target == Block \ {0}
last == NumBlocks - 1

\* Blocks in a row, each of which may also go anywhere else.
step(b) == IF b = last THEN {ret, jump(1)}
           ELSE {jump(b + 1)} \cup {brif(b + 1, x) : x \in Target}
                \cup {brif(x, b + 1) : x \in IF b \in {1, 2} THEN {last} ELSE {}}
Rows == {[edits |-> 0, term |-> [b \in Block |-> <<t0, t1, t2, t3, t4>>[b + 1]]] :
            t0 \in step(0), t1 \in step(1), t2 \in step(2), t3 \in step(3), t4 \in step(4)}

\* Loops in loops, each with a back edge from the innermost.
Nests == {[edits |-> 0, term |-> [b \in Block |->
            <<jump(1), t1, t2, jump(4), br_table(ds)>>[b + 1]]] :
            t1 \in {jump(2), brif(2, 4)}, t2 \in {jump(3), brif(4, 3)},
            ds \in {<<1, 2, 3>>, <<3, 1, 2>>}}

\* Three blocks with any terminator, a return, and a block nothing leads to.
any == {ret, br_table(<<1>>), brif(1, 2), brif(2, 3), br_table(<<3, 1, 3>>)}
few == [{0, 1, 2} -> any]
Mixed == {[edits |-> 1, term |-> [b \in Block |->
            CASE b \in {0, 1, 2} -> f[b] [] b = last -> jump(1) [] OTHER -> ret]] : f \in few}

MCFunctions == Rows \cup Nests \cup Mixed
MCEdits == {jump(2), brif(1, 3)}
=============================================================================
