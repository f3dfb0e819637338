------------------------------ MODULE ListPool ------------------------------
(***************************************************************************)
(* EntityList and ListPool of cranelift/entity/src/list.rs: lists of       *)
(* entity references in blocks of one vector, whose sizes are powers of    *)
(* two.  A list is an index into the vector; it moves between blocks as it *)
(* grows and shrinks, and blocks that are not in use form free lists that  *)
(* run through the vector itself.                                          *)
(*                                                                         *)
(* Cells hold indices, as T does: a length, an element, or the next free   *)
(* block.  A client owns a few handles, never copies one and never loses a *)
(* list it did not clear (the "Safety" section of EntityList).  Every      *)
(* method is an action; `lists' follows the same calls in ListsSpec.       *)
(***************************************************************************)
EXTENDS Integers, FiniteSets, Sequences

CONSTANTS
    Handle,     \* the lists a client owns
    Elem,       \* elements it stores
    Reserved,   \* T::reserved_value()
    MaxLen,     \* bound: the longest list
    MaxData,    \* bound: the size of the pool
    MaxAdd      \* bound: elements added by one call

ASSUME ListAssumption ==
    /\ Elem \subseteq Nat /\ Reserved \in Nat
    /\ MaxLen \in Nat /\ MaxData \in Nat /\ MaxAdd \in 0 .. MaxLen

VARIABLES
    pool,    \* ListPool: its vector, from 0, and the head of each free list
    index,   \* EntityList::index of each handle
    lists    \* history: what the calls so far should have left in each list

vars == <<pool, index, lists>>

Contract == INSTANCE ListsSpec

(***************************************************************************)
(* Size classes.                                                           *)
(***************************************************************************)

\* 4 << c.
sclass_size[c \in Nat] == IF c = 0 THEN 4 ELSE 2 * sclass_size[c - 1]

Class == {c \in 0 .. MaxLen : c = 0 \/ sclass_size[c] <= 2 * MaxLen}

\* The class of the smallest block with room for the length and len elements.
sclass_for_length(len) ==
    CHOOSE c \in Class : len < sclass_size[c] /\ (c = 0 \/ sclass_size[c] \div 2 <= len)

is_sclass_min_length(len) == len > 3 /\ \E c \in Class : 2 * len = sclass_size[c]

(***************************************************************************)
(* The pool.                                                               *)
(***************************************************************************)

\* The vector with the sequence s written from cell `at' on.
written(p, at, s) ==
    [p EXCEPT !.data = [i \in DOMAIN p.data |->
        IF i >= at /\ i < at + Len(s) THEN s[i - at + 1] ELSE p.data[i]]]

cells(p, at, n) == [i \in 1 .. n |-> p.data[at + i - 1]]

size(p) == Cardinality(DOMAIN p.data)

\* The vector with n cells, the new ones reserved.
resized(p, n) ==
    [p EXCEPT !.data = [i \in 0 .. (n - 1) |-> IF i < size(p) THEN p.data[i] ELSE Reserved]]

\* A block of class c: the head of its free list, or new cells at the end.
alloc(p, c) ==
    IF p.free[c] > 0
    THEN [pool |-> [p EXCEPT !.free[c] = p.data[p.free[c]]], block |-> p.free[c] - 1]
    ELSE [pool |-> resized(p, size(p) + sclass_size[c]), block |-> size(p)]

\* The block becomes the head of its free list: [0, next].
free(p, block, c) ==
    [written(p, block, <<0, p.free[c]>>) EXCEPT !.free[c] = block + 1]

\* Mutant: the old block goes to the free list of the new class.
realloc_frees_as_new(p, block, from, to, n) ==
    LET a == alloc(p, to)
    IN  [pool |-> free(written(a.pool, a.block, cells(p, block, n)), block, to),
         block |-> a.block]

\* Mutant: the length cell is not counted among the cells to copy.
realloc_copies_less(p, block, from, to, n) ==
    LET a == alloc(p, to)
    IN  [pool |-> free(written(a.pool, a.block, cells(p, block, n - 1)), block, from),
         block |-> a.block]

\* Move the first n cells of a block to a block of another class.
realloc(p, block, from, to, n) ==
    LET a == alloc(p, to)
    IN  [pool |-> free(written(a.pool, a.block, cells(p, block, n)), block, from),
         block |-> a.block]

(***************************************************************************)
(* EntityList: each operator gives the pool and the index after the call.  *)
(***************************************************************************)

\* len_of, 0 for the None of the empty list.
len_of(p, idx) == IF idx = 0 THEN 0 ELSE p.data[idx - 1]
as_slice(p, idx) == cells(p, idx, len_of(p, idx))

\* The list is the block's, with this length and these cells written after
\* the first `kept' elements.
holds(r, len, kept, s) ==
    [pool |-> written(written(r.pool, r.block + 1 + kept, s), r.block, <<len>>),
     index |-> r.block + 1]

in_place(p, idx) == [pool |-> p, block |-> idx - 1]
empty(p) == [pool |-> p, index |-> 0]

from_slice(p, s) ==
    IF s = <<>> THEN empty(p)
    ELSE holds(alloc(p, sclass_for_length(Len(s))), Len(s), 0, s)

deep_clone(p, idx) == from_slice(p, as_slice(p, idx))

clear(p, idx) ==
    empty(IF idx = 0 THEN p ELSE free(p, idx - 1, sclass_for_length(len_of(p, idx))))

push(p, idx, e) ==
    LET len == len_of(p, idx)
        sclass == sclass_for_length(len)
    IN  IF idx = 0 THEN holds(alloc(p, sclass_for_length(1)), 1, 0, <<e>>)
        ELSE holds(IF is_sclass_min_length(len + 1)
                   THEN realloc(p, idx - 1, sclass, sclass + 1, len + 1)
                   ELSE in_place(p, idx), len + 1, len, <<e>>)

\* n more elements, whatever the cells hold.
grow(p, idx, n) ==
    LET len == len_of(p, idx)
        from == sclass_for_length(len)
        to == sclass_for_length(len + n)
    IN  IF idx = 0
        THEN IF n = 0 THEN empty(p) ELSE holds(alloc(p, to), n, 0, <<>>)
        ELSE holds(IF to # from THEN realloc(p, idx - 1, from, to, len + 1)
                   ELSE in_place(p, idx), len + n, 0, <<>>)

\* Write cells of a list that keeps its block.
overwritten(r, i, s) == [r EXCEPT !.pool = written(r.pool, r.index + i, s)]

extend(p, idx, s) == overwritten(grow(p, idx, Len(s)), len_of(p, idx), s)

\* grow_at: the elements from i on move up, backwards one by one.
grow_at(p, idx, i, n) ==
    LET r == grow(p, idx, n)
        tail == cells(r.pool, r.index + i, len_of(p, idx) - i)
    IN  overwritten(r, i + n, tail)

insert(p, idx, i, e) ==
    LET r == push(p, idx, e)
    IN  overwritten(r, i, <<e>> \o cells(r.pool, r.index + i, len_of(p, idx) - i))

\* Elements lo .. hi - 1 of `other' go before element i.  The range was turned
\* into cells before the pool changed.
copy_from(p, idx, other, lo, hi, i) ==
    LET r == grow_at(p, idx, i, hi - lo)
    IN  overwritten(r, i, cells(r.pool, other + lo, hi - lo))

remove_last(p, idx, len) ==
    LET sclass == sclass_for_length(len) IN
    IF len = 1 THEN clear(p, idx)
    ELSE holds(IF is_sclass_min_length(len) THEN realloc(p, idx - 1, sclass, sclass - 1, len)
               ELSE in_place(p, idx), len - 1, 0, <<>>)

remove(p, idx, i) ==
    LET len == len_of(p, idx)
    IN  remove_last(written(p, idx + i, cells(p, idx + i + 1, len - 1 - i)), idx, len)

swap_remove(p, idx, i) ==
    LET len == len_of(p, idx)
        swapped == written(written(p, idx + i, cells(p, idx + len - 1, 1)),
                           idx + len - 1, cells(p, idx + i, 1))
    IN  remove_last(swapped, idx, len)

truncate(p, idx, n) ==
    LET len == len_of(p, idx)
        from == sclass_for_length(len)
        to == sclass_for_length(n)
    IN  IF n = 0 THEN clear(p, idx)
        ELSE IF len <= n THEN [pool |-> p, index |-> idx]
        ELSE holds(IF from # to THEN realloc(p, idx - 1, from, to, n + 1)
                   ELSE in_place(p, idx), n, 0, <<>>)

(***************************************************************************)
(* The client's calls.                                                     *)
(***************************************************************************)

len(h) == len_of(pool, index[h])

\* The call on h gives r.
returns(h, r) ==
    /\ size(r.pool) <= MaxData
    /\ pool' = r.pool /\ index' = [index EXCEPT ![h] = r.index]

Slices == UNION {[1 .. n -> Elem] : n \in 0 .. MaxAdd}

FromSlice(h, s) ==
    index[h] = 0 /\ returns(h, from_slice(pool, s)) /\ Contract!Extend(h, s)

DeepClone(h, g) ==
    index[h] = 0 /\ returns(h, deep_clone(pool, index[g])) /\ Contract!Copy(h, g)

Clear(h) == returns(h, clear(pool, index[h])) /\ Contract!Drop(h)

\* h gets what g held.
Take(h, g) ==
    /\ h # g /\ index[h] = 0
    /\ index' = [index EXCEPT ![h] = index[g], ![g] = 0]
    /\ UNCHANGED pool /\ Contract!Move(h, g)

Push(h, e) ==
    len(h) < MaxLen /\ returns(h, push(pool, index[h], e)) /\ Contract!Extend(h, <<e>>)

Extend(h, s) ==
    /\ len(h) + Len(s) <= MaxLen
    /\ returns(h, extend(pool, index[h], s)) /\ Contract!Extend(h, s)

Insert(h, i, e) ==
    /\ len(h) < MaxLen
    /\ returns(h, insert(pool, index[h], i, e)) /\ Contract!Splice(h, i, <<e>>)

\* The assert! that h and g are different lists fails on two empty ones, too.
\* The other one bounds the number of elements alone; the client takes a range
\* that lies within g.
CopyFrom(h, g, lo, hi, i) ==
    /\ index[h] # index[g]
    /\ lo <= hi /\ len(h) + hi - lo <= MaxLen
    /\ returns(h, copy_from(pool, index[h], index[g], lo, hi, i))
    /\ Contract!Splice(h, i, SubSeq(lists[g], lo + 1, hi))

\* The new elements are not initialised; the client assigns s to them.
GrowAt(h, i, s) ==
    /\ len(h) + Len(s) <= MaxLen
    /\ returns(h, overwritten(grow_at(pool, index[h], i, Len(s)), i, s))
    /\ Contract!Splice(h, i, s)

Remove(h, i) ==
    i < len(h) /\ returns(h, remove(pool, index[h], i)) /\ Contract!Delete(h, i)

SwapRemove(h, i) ==
    i < len(h) /\ returns(h, swap_remove(pool, index[h], i)) /\ Contract!SwapDelete(h, i)

Truncate(h, n) == returns(h, truncate(pool, index[h], n)) /\ Contract!Shorten(h, n)

\* as_mut_slice, get_mut: an element is assigned to.
Assign(h, i, e) ==
    /\ i < len(h)
    /\ pool' = written(pool, index[h] + i, <<e>>) /\ UNCHANGED index
    /\ Contract!Set(h, i, e)

new_pool == [data |-> [i \in {} |-> 0], free |-> [c \in Class |-> 0]]

\* ListPool::clear: the client drops its lists.
PoolClear ==
    pool' = new_pool /\ index' = [h \in Handle |-> 0] /\ Contract!DropAll

Init == pool = new_pool /\ index = [h \in Handle |-> 0] /\ Contract!Init

Next ==
    \/ PoolClear
    \/ \E h \in Handle, s \in Slices : FromSlice(h, s) \/ Extend(h, s)
    \/ \E h \in Handle, e \in Elem : Push(h, e)
    \/ \E h \in Handle : Clear(h)
    \/ \E h, g \in Handle : DeepClone(h, g) \/ Take(h, g)
    \/ \E h \in Handle : \E i \in 0 .. len(h) :
        \/ Remove(h, i) \/ SwapRemove(h, i)
        \/ \E e \in Elem : Insert(h, i, e) \/ Assign(h, i, e)
        \/ \E s \in Slices : GrowAt(h, i, s)
        \/ \E g \in Handle \ {h} : \E lo, hi \in 0 .. len(g) : CopyFrom(h, g, lo, hi, i)
    \/ \E h \in Handle, n \in 0 .. MaxLen : Truncate(h, n)

Spec == Init /\ [][Next]_vars

(***************************************************************************)
(* Properties.                                                             *)
(***************************************************************************)

in_use == {h \in Handle : index[h] # 0}

\* The links of the free list of class c, from its head on; the walk stops
\* after as many steps as the pool can have blocks.
free_links(c) ==
    LET nth[n \in 0 .. MaxData \div 4] ==
            IF n = 0 THEN pool.free[c]
            ELSE IF nth[n - 1] > 0 THEN pool.data[nth[n - 1]] ELSE 0
    IN  nth

\* The first cell and the class of the block of each list, and of the n-th
\* block of each free list.
list_blocks == {<<h, index[h] - 1, sclass_for_length(len(h))>> : h \in in_use}
free_blocks ==
    UNION {LET links == free_links(c)
           IN  {<<n, links[n] - 1, c>> : n \in {m \in DOMAIN links : links[m] > 0}} : c \in Class}

\* The blocks of the lists and of the free lists tile the pool: no cell has two
\* owners or none, so that no call on one list writes into another or into a
\* free list, no free list runs in circles, and nothing leaks; and every list
\* sits in the smallest class of block that holds it.
BlocksTilePool ==
    LET blocks == list_blocks \cup free_blocks IN
    /\ \A h \in in_use : len(h) \in 1 .. MaxLen
    /\ \A blk \in blocks : blk[2] + sclass_size[blk[3]] <= size(pool)
    /\ \A i \in DOMAIN pool.data :
          \E blk \in blocks :
              /\ i \in blk[2] .. (blk[2] + sclass_size[blk[3]] - 1)
              /\ \A other \in blocks \ {blk} :
                    i \notin other[2] .. (other[2] + sclass_size[other[3]] - 1)

\* Every list holds what the calls on it alone put there, whatever was done to
\* the other lists of the pool.
ListsIndependent == \A h \in Handle : as_slice(pool, index[h]) = lists[h]

=============================================================================
