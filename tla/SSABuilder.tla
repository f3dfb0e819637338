----------------------------- MODULE SSABuilder -----------------------------
(***************************************************************************)
(* The SSABuilder of cranelift/frontend/src/ssa.rs behind the              *)
(* FunctionBuilder of frontend.rs: a client defines and uses variables     *)
(* while it builds blocks in any order, and gets SSA values.  A block may  *)
(* be used before all its predecessors are known; sealing it then settles  *)
(* the parameters that were added on suspicion.                            *)
(*                                                                         *)
(* Every loop of the builder (the walk of find_var, the copying in         *)
(* use_var_nonlocal, run_state_machine, the loop of seal_one_block) is     *)
(* unrolled; while one runs, pc is not "idle".  A block has one branch,    *)
(* its terminator, so that a block also stands for its branch instruction. *)
(* Types are left out.  When the function is finished it is executed, both *)
(* as the client wrote it and in SSA form.                                 *)
(***************************************************************************)
EXTENDS Integers, SequencesExt

CONSTANTS
    NumBlocks,     \* block 0 is the entry
    NumVars,
    StackMapVars,  \* variables declared with declare_var_needs_stack_map
    Graphs,        \* the successors of each block, in the order of the branch
    MaxStmts       \* bound: definitions and uses in the function

Block == 0 .. (NumBlocks - 1)
Variable == 0 .. (NumVars - 1)

ASSUME SSAAssumption ==
    /\ NumBlocks \in Nat \ {0} /\ NumVars \in Nat /\ MaxStmts \in Nat /\ StackMapVars \subseteq Variable
    /\ \A g \in Graphs : g \in [Block -> Seq(Block)]

None == 0

VARIABLES
    (* FunctionBuilder *)
    graph,               \* the function the client is about to build
    position,            \* the block instructions are added to
    status,              \* "empty", "partial" or "filled"
    body,                \* the definitions and uses in each block
    (* SSABuilder *)
    variables,           \* value of a variable at the end of a block, so far
    sealed,
    undef_variables,     \* of an unsealed block: variables of placeholders
    predecessors,        \* branches declared to lead to a block
    single_predecessor,
    calls,               \* stack of run_state_machine, top first
    results,             \* stack of its values, top last
    stack_map_values,
    (* the Function *)
    block_params,
    args,                \* arguments of each destination of a branch
    alias,               \* of each value; None if it is none
    zeros,               \* constants 0 at the start of a block
    (* which loop runs *)
    pc,
    look,                \* the lookup in progress
    seal,                \* seal_one_block in progress and blocks to follow
    (* execution *)
    at, env, regs

clientVars == <<graph, position, status, body>>
sealVars == <<sealed, undef_variables, predecessors, single_predecessor>>
funcVars == <<block_params, args, alias, zeros>>
runVars == <<at, env, regs>>
vars == <<clientVars, variables, sealVars, calls, results, stack_map_values, funcVars,
          pc, look, seal, runVars>>

Value == 1 .. Len(alias)
new_value == Len(alias) + 1

\* dfg.resolve_aliases.
resolve_aliases(v) ==
    LET nth[n \in 0 .. Len(alias)] ==
            IF n = 0 THEN v
            ELSE LET w == nth[n - 1] IN IF alias[w] = None THEN w ELSE alias[w]
    IN  nth[Len(alias)]

to_stack(s) == Append(results, s)

\* Mutant: the parameters a lookup adds are forgotten.
binding_of_definitions(x, v) ==
    IF x \in StackMapVars /\ pc = "idle" THEN stack_map_values \cup {v} ELSE stack_map_values

\* record_stack_map_binding
stack_map_binding(x, v) ==
    IF x \in StackMapVars THEN stack_map_values \cup {v} ELSE stack_map_values

no_lookup == [var |-> 0, start |-> 0, block |-> 0,
              visited |-> {}, val |-> None, from |-> 0]

Init ==
    /\ graph \in Graphs
    /\ position = 0
    /\ status = [b \in Block |-> "empty"]
    /\ body = [b \in Block |-> <<>>]
    /\ variables = [x \in Variable |-> [b \in Block |-> None]]
    /\ sealed = {} /\ undef_variables = [b \in Block |-> <<>>]
    /\ predecessors = [b \in Block |-> <<>>]
    /\ single_predecessor = [b \in Block |-> {}]
    /\ calls = <<>> /\ results = <<>> /\ stack_map_values = {}
    /\ block_params = [b \in Block |-> <<>>]
    /\ args = [b \in Block |-> <<>>]
    /\ alias = <<>> /\ zeros = [b \in Block |-> {}]
    /\ pc = "idle" /\ look = no_lookup
    /\ seal = [todo |-> {}, open |-> FALSE, idx |-> 0]
    /\ at = 0 /\ env = <<>> /\ regs = <<>>

(***************************************************************************)
(* use_var_nonlocal and find_var.                                          *)
(***************************************************************************)

\* use_var_nonlocal(x, b) is entered: the block may know the variable itself.
enter_use_var(x, b) ==
    IF variables[x][b] # None
    THEN results' = to_stack(variables[x][b]) /\ pc' = "machine" /\ look' = [look EXCEPT !.var = x]
    ELSE /\ pc' = "find_var" /\ UNCHANGED results
         /\ look' = [look EXCEPT !.var = x, !.start = b, !.block = b, !.visited = {}]

\* Mutant: a cycle of single predecessors is walked for ever.
walks_round == single_predecessor[look.block] # {}

\* The walk goes on to the single predecessor.
walks == single_predecessor[look.block] # {} /\ look.block \notin look.visited

\* use_var_nonlocal goes on with the definition v found in block `from'.
found(v, from) ==
    /\ pc' = IF from = look.start THEN "machine" ELSE "copy"
    /\ look' = [look EXCEPT !.val = v, !.from = from, !.block = look.start]

FindStep ==
    /\ pc = "find_var" /\ walks
    /\ \E pred \in single_predecessor[look.block] :
        IF variables[look.var][pred] # None
        THEN /\ results' = to_stack(variables[look.var][pred])
             /\ found(variables[look.var][pred], pred)
        ELSE /\ look' = [look EXCEPT !.block = pred, !.visited = @ \cup {look.block}]
             /\ UNCHANGED <<results, pc>>
    /\ UNCHANGED <<clientVars, variables, sealVars, calls, stack_map_values, funcVars,
                   seal, runVars>>

\* Mutant: the values arrive in the opposite order of the predecessors.
lookup_not_reversed(sentinel, b, cs) ==
    [i \in 1 .. Len(predecessors[b]) |->
        [op |-> "use", block |-> predecessors[b][Len(predecessors[b]) - i + 1]]]
    \o <<[op |-> "finish", sentinel |-> sentinel, block |-> b]>> \o cs

\* begin_predecessors_lookup on top of the calls cs.
begin_predecessors_lookup(sentinel, b, cs) ==
    [i \in 1 .. Len(predecessors[b]) |-> [op |-> "use", block |-> predecessors[b][i]]]
    \o <<[op |-> "finish", sentinel |-> sentinel, block |-> b]>> \o cs

\* No definition: the block gets a parameter, and its predecessors are asked
\* for its argument, at once or when the block is sealed.
FindParam ==
    LET b == look.block IN
    /\ pc = "find_var" /\ ~walks
    /\ alias' = Append(alias, None)
    /\ block_params' = [block_params EXCEPT ![b] = Append(@, new_value)]
    /\ variables' = [variables EXCEPT ![look.var][b] = new_value]
    /\ stack_map_values' = stack_map_binding(look.var, new_value)
    /\ IF b \in sealed
       THEN /\ calls' = begin_predecessors_lookup(new_value, b, calls)
            /\ UNCHANGED <<undef_variables, results>>
       ELSE /\ undef_variables' = [undef_variables EXCEPT ![b] = Append(@, look.var)]
            /\ results' = to_stack(new_value)
            /\ UNCHANGED calls
    /\ found(new_value, b)
    /\ UNCHANGED <<clientVars, sealed, predecessors, single_predecessor, args, zeros,
                   seal, runVars>>

\* The blocks walked through get the definition, too.
CopyStep ==
    /\ pc = "copy"
    /\ variables' = [variables EXCEPT ![look.var][look.block] = look.val]
    /\ \E pred \in single_predecessor[look.block] :
        /\ look' = [look EXCEPT !.block = pred]
        /\ pc' = IF pred = look.from THEN "machine" ELSE pc
    /\ UNCHANGED <<clientVars, sealVars, calls, results, stack_map_values, funcVars,
                   seal, runVars>>

(***************************************************************************)
(* run_state_machine and finish_predecessors_lookup.                       *)
(***************************************************************************)

MachineUse ==
    /\ pc = "machine" /\ calls # <<>> /\ Head(calls).op = "use"
    /\ calls' = Tail(calls)
    /\ enter_use_var(look.var, Head(calls).block)
    /\ UNCHANGED <<clientVars, variables, sealVars, stack_map_values, funcVars, seal, runVars>>

drained(n) == SubSeq(results, Len(results) - n + 1, Len(results))

\* Mutant: one of them is left behind.
undrained_but_one(n) == SubSeq(results, 1, Len(results) - n + (IF n = 0 THEN 0 ELSE 1))

undrained(n) == SubSeq(results, 1, Len(results) - n)

\* Mutant: values are compared without resolving aliases.
distinct_unresolved(vals, sentinel) == {vals[i] : i \in DOMAIN vals} \ {sentinel}

\* The values other than the sentinel itself that reach a block.
distinct_values(vals, sentinel) ==
    {resolve_aliases(vals[i]) : i \in DOMAIN vals} \ {sentinel}

\* The sentinel is no longer a parameter but another name of v.
replaced(sentinel, b, v, aliases) ==
    /\ \E k \in DOMAIN block_params[b] :
          block_params[b][k] = sentinel /\ block_params' = [block_params EXCEPT ![b] = RemoveAt(@, k)]
    /\ alias' = [aliases EXCEPT ![sentinel] = v]
    /\ UNCHANGED args

\* No predecessor has a value: the variable is 0 here.
finish_with_zero(sentinel, b) ==
    /\ replaced(sentinel, b, new_value, Append(alias, None))
    /\ zeros' = [zeros EXCEPT ![b] = @ \cup {new_value}]
    /\ status' = [status EXCEPT ![b] = IF @ = "empty" THEN "partial" ELSE @]
    /\ results' = Append(undrained(Len(predecessors[b])), new_value)

finish_with_value(sentinel, b, v) ==
    /\ replaced(sentinel, b, v, alias)
    /\ results' = Append(undrained(Len(predecessors[b])), v)
    /\ UNCHANGED <<zeros, status>>

\* The predecessors disagree: each passes its value, to every destination of
\* its branch that is this block.
finish_with_param(sentinel, b, vals) ==
    /\ args' = [p \in Block |-> [d \in DOMAIN args[p] |->
          LET i == {j \in DOMAIN vals : predecessors[b][j] = p}
          IN  IF graph[p][d] = b /\ i # {}
              THEN Append(args[p][d], vals[CHOOSE j \in i : TRUE]) ELSE args[p][d]]]
    /\ results' = Append(undrained(Len(vals)), sentinel)
    /\ UNCHANGED <<block_params, alias, zeros, status>>

MachineFinish ==
    /\ pc = "machine" /\ calls # <<>> /\ Head(calls).op = "finish"
    /\ LET sentinel == Head(calls).sentinel
           b == Head(calls).block
           vals == drained(Len(predecessors[b]))
           seen == distinct_values(vals, sentinel)
       IN  \/ seen = {} /\ finish_with_zero(sentinel, b)
           \/ \E v \in seen : seen = {v} /\ finish_with_value(sentinel, b, v)
           \/ Cardinality(seen) > 1 /\ finish_with_param(sentinel, b, vals)
    /\ calls' = Tail(calls)
    /\ UNCHANGED <<graph, position, body, variables, sealVars, stack_map_values,
                   pc, look, seal, runVars>>

(***************************************************************************)
(* Sealing.                                                                *)
(***************************************************************************)

\* Of the blocks to seal, the one that is being sealed.
sealing == CHOOSE b \in seal.todo : \A c \in seal.todo : b <= c

\* The parameter of the idx-th variable, counted from the last one.
placeholder(b) ==
    block_params[b][Len(block_params[b]) - (Len(undef_variables[b]) - seal.idx) + 1]

\* The next block of seal_all_blocks, if there is one.
next_block ==
    /\ seal' = [todo |-> seal.todo \ {sealing}, open |-> FALSE, idx |-> 0]
    /\ pc' = IF seal.todo = {sealing} THEN "idle" ELSE "seal"

\* seal_one_block begins; a block without placeholders needs nothing else.
SealBegin ==
    LET b == sealing IN
    /\ pc = "seal" /\ ~seal.open
    /\ sealed' = sealed \cup {b}
    /\ single_predecessor' = [single_predecessor EXCEPT ![b] =
          IF Len(predecessors[b]) = 1 THEN {predecessors[b][1]} ELSE {}]
    /\ IF undef_variables[b] = <<>> THEN next_block
       ELSE seal' = [seal EXCEPT !.open = TRUE] /\ UNCHANGED pc
    /\ UNCHANGED <<clientVars, variables, undef_variables, predecessors, calls, results,
                   stack_map_values, funcVars, look, runVars>>

\* The next variable that was used before the block was sealed.
SealVariable ==
    LET b == sealing IN
    /\ pc = "seal" /\ seal.open /\ seal.idx < Len(undef_variables[b])
    /\ calls' = begin_predecessors_lookup(placeholder(b), b, <<>>)
    /\ look' = [look EXCEPT !.var = undef_variables[b][seal.idx + 1]]
    /\ seal' = [seal EXCEPT !.idx = @ + 1]
    /\ pc' = "machine"
    /\ UNCHANGED <<clientVars, variables, sealVars, results, stack_map_values, funcVars, runVars>>

SealEnd ==
    LET b == sealing IN
    /\ pc = "seal" /\ seal.open /\ seal.idx = Len(undef_variables[b])
    /\ undef_variables' = [undef_variables EXCEPT ![b] = <<>>]
    /\ next_block
    /\ UNCHANGED <<clientVars, variables, sealed, predecessors, single_predecessor, calls,
                   results, stack_map_values, funcVars, look, runVars>>

\* run_state_machine returns the one value left: to use_var, whose caller
\* uses it in an instruction, or to seal_one_block, which ignores it.
MachineReturn ==
    /\ pc = "machine" /\ calls = <<>> /\ Len(results) = 1
    /\ results' = <<>> /\ look' = no_lookup
    /\ IF seal.todo # {}
       THEN pc' = "seal" /\ UNCHANGED body
       ELSE /\ pc' = "idle"
            /\ body' = [body EXCEPT ![position] =
                  Append(@, [op |-> "use", var |-> look.var, val |-> results[1]])]
    /\ UNCHANGED <<graph, position, status, variables, sealVars, calls, stack_map_values,
                   funcVars, seal, runVars>>

Internal ==
    \/ FindStep \/ FindParam \/ CopyStep
    \/ MachineUse \/ MachineFinish \/ MachineReturn
    \/ SealBegin \/ SealVariable \/ SealEnd

(***************************************************************************)
(* The client.                                                             *)
(***************************************************************************)

statements(n) ==
    LET sum[b \in -1 .. n] == IF b = -1 THEN 0 ELSE Len(body[b]) + sum[b - 1]
    IN  sum[n]

building == pc = "idle" /\ status[position] # "filled"
room == statements(NumBlocks - 1) < MaxStmts

\* Variables are numbered in the order the client first mentions them.
mentioned == UNION {{body[b][i].var : i \in DOMAIN body[b]} : b \in Block}
declared(x) == \A w \in 0 .. (x - 1) : w \in mentioned

\* ensure_inserted_block.
partial == status' = [status EXCEPT ![position] = "partial"]

UseVar(x) ==
    /\ building /\ room /\ declared(x) /\ partial
    /\ enter_use_var(x, position)
    /\ UNCHANGED <<graph, position, body, variables, sealVars, calls, stack_map_values,
                   funcVars, seal, runVars>>

defines(x, v, op) ==
    /\ variables' = [variables EXCEPT ![x][position] = v]
    /\ stack_map_values' = stack_map_binding(x, v)
    /\ body' = [body EXCEPT ![position] = Append(@, [op |-> op, var |-> x, val |-> v])]

\* An instruction and def_var with its result.
DefVar(x) ==
    /\ building /\ room /\ declared(x) /\ partial
    /\ alias' = Append(alias, None)
    /\ defines(x, new_value, "def")
    /\ UNCHANGED <<graph, position, sealVars, calls, results, block_params, args, zeros,
                   pc, look, seal, runVars>>

\* def_var with the value of a variable that was just used.
CopyVar(x) ==
    /\ building /\ room /\ declared(x)
    /\ body[position] # <<>>
    /\ LET last == body[position][Len(body[position])]
       IN  last.op = "use" /\ last.var # x /\ defines(x, last.val, "copy")
    /\ UNCHANGED <<graph, position, status, sealVars, calls, results, funcVars,
                   pc, look, seal, runVars>>

leads_to(p, b) == \E i \in DOMAIN graph[p] : graph[p][i] = b

\* A jump, brif, br_table or return: FuncInstBuilder::build declares the block
\* as a predecessor of each successor, once.
Terminate ==
    /\ building
    /\ predecessors' = [b \in Block |->
          IF leads_to(position, b) THEN Append(predecessors[b], position) ELSE predecessors[b]]
    /\ args' = [args EXCEPT ![position] = [i \in DOMAIN graph[position] |-> <<>>]]
    /\ status' = [status EXCEPT ![position] = "filled"]
    /\ UNCHANGED <<graph, position, body, variables, sealed, undef_variables,
                   single_predecessor, calls, results, stack_map_values, block_params,
                   alias, zeros, pc, look, seal, runVars>>

\* The client builds the blocks in the order of their numbers.
SwitchToBlock ==
    /\ pc = "idle" /\ status[position] = "filled" /\ position + 1 \in Block
    /\ position' = position + 1
    /\ UNCHANGED <<graph, status, body, variables, sealVars, calls, results,
                   stack_map_values, funcVars, pc, look, seal, runVars>>

starts_sealing(bs) ==
    /\ pc = "idle" /\ pc' = "seal"
    /\ seal' = [todo |-> bs, open |-> FALSE, idx |-> 0]
    /\ UNCHANGED <<clientVars, variables, sealVars, calls, results, stack_map_values,
                   funcVars, look, runVars>>

\* The client may seal a block every branch to which exists: the one it fills at
\* any time, another one between two blocks.
SealBlock(b) ==
    /\ b \notin sealed
    /\ b = position \/ status[position] = "filled" \/ statements(position) = 0
    /\ \E c \in Block : status[c] # "filled"
    /\ \A p \in Block : leads_to(p, b) => status[p] = "filled"
    /\ starts_sealing({b})

\* Sealing a sealed block again does nothing.
SealAllBlocks ==
    /\ sealed # Block /\ \A b \in Block : status[b] = "filled"
    /\ starts_sealing(Block \ sealed)

(***************************************************************************)
(* Execution, one block per step.  A run-time value is the result of one   *)
(* execution of a definition; two in a row of the same one differ.         *)
(***************************************************************************)

Zero == <<0, 0>>
Undef == <<0, 1>>
result_of(v, before) == <<v, IF before = <<v, 0>> THEN 1 ELSE 0>>

\* The registers in block b once its parameters have their values.
zeroed(b, rs) == [v \in Value |-> IF v \in zeros[b] THEN Zero ELSE rs[v]]

\* The state of variables and registers after each statement of block b.
trace(b) ==
    LET after[k \in 0 .. Len(body[b])] ==
            IF k = 0 THEN [env |-> env, regs |-> regs]
            ELSE LET s == body[b][k]
                     old == after[k - 1]
                     new == result_of(s.val, old.regs[s.val])
                 IN  CASE s.op = "use" -> old
                       [] s.op = "def" -> [env |-> [old.env EXCEPT ![s.var] = new],
                                           regs |-> [old.regs EXCEPT ![s.val] = new]]
                       [] s.op = "copy" ->
                            [old EXCEPT !.env[s.var] = old.env[body[b][k - 1].var]]
    IN  after

Finalize ==
    /\ pc = "idle" /\ sealed = Block /\ \A b \in Block : status[b] = "filled"
    /\ pc' = "run" /\ at' = 0
    /\ env' = [x \in Variable |-> Zero]
    /\ regs' = zeroed(0, [v \in Value |-> Undef])
    /\ UNCHANGED <<clientVars, variables, sealVars, calls, results, stack_map_values,
                   funcVars, look, seal>>

\* The branch at the end of a block passes its arguments.
Branch(i) ==
    LET last == trace(at)[Len(body[at])]
        b == graph[at][i]
        passed(v) == {j \in DOMAIN block_params[b] : block_params[b][j] = v /\ j <= Len(args[at][i])}
    IN
    /\ pc = "run" /\ at' = b
    /\ env' = last.env
    /\ regs' = zeroed(b, [v \in Value |->
          IF passed(v) = {} THEN last.regs[v]
          ELSE last.regs[resolve_aliases(args[at][i][CHOOSE j \in passed(v) : TRUE])]])
    /\ UNCHANGED <<clientVars, variables, sealVars, calls, results, stack_map_values,
                   funcVars, pc, look, seal>>

Return == pc = "run" /\ graph[at] = <<>> /\ UNCHANGED vars

Next ==
    \/ \E x \in Variable : UseVar(x) \/ DefVar(x) \/ CopyVar(x)
    \/ \E b \in Block : SealBlock(b)
    \/ SwitchToBlock \/ Terminate \/ SealAllBlocks \/ Finalize \/ Return
    \/ Internal
    \/ \E i \in DOMAIN graph[at] : Branch(i)

\* The builder's loops are sequential code: once entered they keep running.
Spec == Init /\ [][Next]_vars /\ WF_vars(Internal)

(***************************************************************************)
(* Properties.                                                             *)
(***************************************************************************)

\* In every execution every use yields the value most recently assigned to the
\* variable, or 0 if there was none: however late blocks were sealed, and
\* whichever parameters were added, kept or turned into aliases.
UsesSeeLastDef ==
    pc = "run" => \A k \in DOMAIN body[at] :
        LET s == body[at][k] IN
        s.op = "use" =>
            trace(at)[k - 1].regs[resolve_aliases(s.val)] = trace(at)[k - 1].env[s.var]

\* Between two calls every branch to a sealed block passes one argument per
\* parameter, to an unsealed one none; and a value that became an alias is no
\* parameter and leads to a value that is none.
WellFormed ==
    pc \in {"idle", "run"} =>
        /\ \A p \in Block : \A i \in DOMAIN args[p] :
              Len(args[p][i]) = IF graph[p][i] \in sealed
                                THEN Len(block_params[graph[p][i]]) ELSE 0
        /\ \A v \in Value :
              /\ alias[resolve_aliases(v)] = None
              /\ alias[v] # None => \A b \in Block, i \in 1 .. Len(alias) :
                    i \in DOMAIN block_params[b] => block_params[b][i] # v

\* The debug assertions of run_state_machine and seal_one_block: between lookups
\* both stacks are empty, a finish finds a value of each predecessor, and one
\* value is left at the end, whatever lookups were started by lookups.
StacksBalanced ==
    /\ pc \in {"idle", "seal"} => calls = <<>> /\ results = <<>>
    /\ pc = "machine" => IF calls = <<>> THEN Len(results) = 1
                         ELSE Head(calls).op = "finish" =>
                                Len(results) >= Len(predecessors[Head(calls).block])

\* declare_var_needs_stack_map: "all uses of the given variable must be included
\* in stack map metadata".  The safepoint pass looks a value up after it
\* resolved its aliases; a 0 the builder made up needs no entry.
StackMapsComplete ==
    pc = "run" => \A b \in Block : \A k \in DOMAIN body[b] :
        LET v == resolve_aliases(body[b][k].val) IN
        body[b][k].op = "use" /\ body[b][k].var \in StackMapVars =>
            v \in stack_map_values \/ \E z \in Block : v \in zeros[z]

\* A lookup ends, also around a loop, and in a cycle of unreachable blocks.
LookupsEnd == []<>(pc \in {"idle", "run"})

=============================================================================
