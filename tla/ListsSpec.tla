------------------------------ MODULE ListsSpec -----------------------------
(***************************************************************************)
(* What entity lists promise (cranelift/entity/src/list.rs): every handle  *)
(* names a sequence of its own, as a Vec would, although all of them live  *)
(* in one pool.                                                            *)
(***************************************************************************)
EXTENDS SequencesExt

CONSTANT Handle

VARIABLE lists   \* the contents of each list

Init == lists = [h \in Handle |-> <<>>]

becomes(h, s) == lists' = [lists EXCEPT ![h] = s]

Drop(h) == becomes(h, <<>>)
DropAll == lists' = [h \in Handle |-> <<>>]
Copy(h, g) == becomes(h, lists[g])
Move(h, g) == lists' = [lists EXCEPT ![h] = lists[g], ![g] = <<>>]
Set(h, i, e) == becomes(h, [lists[h] EXCEPT ![i + 1] = e])
Splice(h, i, s) ==
    becomes(h, SubSeq(lists[h], 1, i) \o s \o SubSeq(lists[h], i + 1, Len(lists[h])))
Extend(h, s) == becomes(h, lists[h] \o s)
Delete(h, i) == becomes(h, RemoveAt(lists[h], i + 1))
SwapDelete(h, i) == becomes(h, Front([lists[h] EXCEPT ![i + 1] = Last(lists[h])]))
Shorten(h, n) == becomes(h, SubSeq(lists[h], 1, IF n < Len(lists[h]) THEN n ELSE Len(lists[h])))
=============================================================================
