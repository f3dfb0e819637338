---------------------------- MODULE LoopAnalysis ----------------------------
(***************************************************************************)
(* LoopAnalysis::compute of codegen/src/loop_analysis.rs: loops are the    *)
(* blocks that dominate a predecessor, numbered in reverse postorder; a    *)
(* backward search from the back edges of each, the innermost first, finds *)
(* the blocks and the loops it contains.                                   *)
(***************************************************************************)
EXTENDS DominatorTree

CONSTANT INVALID   \* LoopLevel::INVALID, 255 in the code

ASSUME LoopAssumption == INVALID \in Nat \ {0, 1}

VARIABLES
    loops,            \* header, parent and level of each loop
    block_loop_map,   \* innermost loop of each block, 0 if there is none
    lp,               \* the loop whose blocks are being discovered
    stack

loopVars == <<loops, block_loop_map, lp, stack>>

no_loop == 0

is_block_loop_header(b) == \E i \in DOMAIN pred_iter(b) : block_dominates(b, pred_iter(b)[i])

FindLoopHeaders ==
    LET headers == SelectSeq(cfg_rpo, is_block_loop_header) IN
    /\ pc = "loops" /\ pc' = "loop_blocks"
    /\ loops' = [l \in DOMAIN headers |->
                    [header |-> headers[l], parent |-> no_loop, level |-> INVALID]]
    /\ block_loop_map' = [b \in Block |->
          IF Contains(headers, b) THEN CHOOSE l \in DOMAIN headers : headers[l] = b ELSE no_loop]
    /\ lp' = Len(headers) + 1 /\ stack' = <<>>
    /\ UNCHANGED <<flowVars, domVars>>

\* The next loop: its back edges.
DiscoverNext ==
    LET h == loops[lp - 1].header IN
    /\ pc = "loop_blocks" /\ stack = <<>> /\ lp > 1
    /\ lp' = lp - 1
    /\ stack' = SelectSeq(pred_iter(h), LAMBDA p : block_dominates(h, p))
    /\ UNCHANGED <<flowVars, domVars, pc, loops, block_loop_map>>

\* Mutant: the loop found at a block is taken for the outermost one.
outermost_is_innermost(l) == l

\* The outermost loop found so far around l, short of lp.
outermost(l) ==
    LET up[k \in DOMAIN loops] ==
            IF loops[k].parent \in {no_loop, lp} THEN k ELSE up[loops[k].parent]
    IN  up[l]

\* A block on the way back to the header: a new one joins the loop, one of a
\* loop found earlier makes that an inner loop, and the search goes on from
\* its header.
DiscoverBlock ==
    LET node == Last(stack)
        rest == Front(stack)
        l == block_loop_map[node]
        goes_on(b) == stack' = rest \o pred_iter(b)
    IN
    /\ pc = "loop_blocks" /\ stack # <<>>
    /\ \/ /\ l = no_loop
          /\ block_loop_map' = [block_loop_map EXCEPT ![node] = lp]
          /\ goes_on(node) /\ UNCHANGED loops
       \/ /\ l # no_loop /\ outermost(l) # lp /\ loops[outermost(l)].parent = no_loop
          /\ loops' = [loops EXCEPT ![outermost(l)].parent = lp]
          /\ goes_on(loops[outermost(l)].header) /\ UNCHANGED block_loop_map
       \/ /\ l # no_loop /\ (outermost(l) = lp \/ loops[outermost(l)].parent # no_loop)
          /\ stack' = rest /\ UNCHANGED <<loops, block_loop_map>>
    /\ UNCHANGED <<flowVars, domVars, pc, lp>>

\* LoopLevel::inc saturates below INVALID.
inc(level) == IF level = INVALID - 1 THEN level ELSE level + 1

AssignLoopLevels ==
    LET level[l \in DOMAIN loops] ==
            IF loops[l].parent = no_loop THEN inc(0) ELSE inc(level[loops[l].parent])
    IN
    /\ pc = "loop_blocks" /\ stack = <<>> /\ lp = 1
    /\ loops' = [l \in DOMAIN loops |-> [loops[l] EXCEPT !.level = level[l]]]
    /\ pc' = "order"
    /\ UNCHANGED <<flowVars, domVars, block_loop_map, lp, stack>>

is_child_loop(child, parent) ==
    LET within[k \in DOMAIN loops] ==
            k = parent \/ (loops[k].parent # no_loop /\ within[loops[k].parent])
    IN  within[child]

is_in_loop(b, l) == block_loop_map[b] # no_loop /\ is_child_loop(block_loop_map[b], l)
loop_level(b) == IF block_loop_map[b] = no_loop THEN 0 ELSE loops[block_loop_map[b]].level

LoopInit ==
    loops = <<>> /\ block_loop_map = [b \in Block |-> no_loop] /\ lp = 0 /\ stack = <<>>

LoopNext == FindLoopHeaders \/ DiscoverNext \/ DiscoverBlock \/ AssignLoopLevels

(***************************************************************************)
(* Properties.                                                             *)
(***************************************************************************)

\* The reachable blocks of the natural loop of header h: h, and the blocks it
\* dominates from which a back edge is reached without going through h.
natural_loop(h) ==
    LET body == {b \in Block : dominates(h, b)}
        back == {b \in body : h \in ToSet(dests(func, b))}
        r[k \in 0 .. NumBlocks] ==
            IF k = 0 THEN back
            ELSE LET q == r[k - 1]
                 IN  q \cup {b \in body \ {h} : ToSet(dests(func, b)) \cap (q \ {h}) # {}}
    IN  IF back = {} THEN {} ELSE {h} \cup r[NumBlocks]

\* There is a loop for every natural loop of the graph and no other; a reachable
\* block is in it exactly if it is in the natural loop, through however many
\* inner loops; its level is the number of loops around it, up to the limit.
LoopsNatural ==
    pc = "done" =>
        /\ {loops[l].header : l \in DOMAIN loops} = {h \in Block : natural_loop(h) # {}}
        /\ \A b \in reached({}) :
              /\ \A l \in DOMAIN loops : is_in_loop(b, l) <=> b \in natural_loop(loops[l].header)
              /\ loop_level(b) = Min({INVALID - 1,
                    Cardinality({l \in DOMAIN loops : b \in natural_loop(loops[l].header)})})
=============================================================================
