--------------------------- MODULE MCSia32Patch -----------------------------
(* Offsets around the ends of every range, both ways. *)
EXTENDS Sia32Patch

even(lo, hi) == {o \in lo .. hi : o % 2 = 0}
MCOffsets == even(0, 4) \cup even(122, 136) \cup even(504, 514)
             \cup even(2042, 2056) \cup even(4094, 4100)
=============================================================================
