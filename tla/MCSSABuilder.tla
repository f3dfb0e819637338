---------------------------- MODULE MCSSABuilder ----------------------------
(* Functions of a few blocks: joins, loops, cycles nothing leads to. *)
EXTENDS SSABuilder, TLC

graph_of(a, b, c, d) == [n \in Block |-> <<a, b, c, d>>[n + 1]]

MCGraphs == {
    graph_of(<<1>>, <<2, 3, 2>>, <<1, 1>>, <<>>),    \* a loop, repeated destinations
    graph_of(<<2>>, <<2>>, <<1, 3>>, <<>>),          \* a loop, body first
    graph_of(<<1, 2>>, <<2, 3>>, <<1>>, <<>>),       \* a loop with two entries
    graph_of(<<3>>, <<2>>, <<1, 3>>, <<>>)}          \* an unreachable cycle
=============================================================================
