----------------------------- MODULE Sia32Patch -----------------------------
(***************************************************************************)
(* LabelUse::patch and generate_veneer of isa/sia32/label.rs: the field    *)
(* written into an instruction, read back the way the processor reads it.  *)
(*                                                                         *)
(* One label use is resolved: it is patched to its label, or to a veneer   *)
(* whose own label use is resolved next.  Where a use may be patched to is *)
(* decided, as in MachBuffer, by the declared ranges alone.                *)
(***************************************************************************)
EXTENDS Sia32LabelUse

CONSTANTS
    WordMod,  \* 2^32, the modulus of the wrapping_sub for LongDelta32
    Offsets   \* offsets of uses, labels and veneers: even, as ALIGN demands

ASSUME PatchAssumption ==
    /\ WordMod \in Nat \ {0}
    /\ \A o \in Offsets : o \in Nat /\ o % 2 = 0 /\ o < WordMod

VARIABLES
    label_use,  \* the use to patch: its kind, offset and pc_back
    target,     \* the label's offset
    patched     \* the uses patched so far, with what was written

patchVars == <<label_use, target, patched>>

NoDelta == 0
Bits == [Cond7 |-> 128, Branch11 |-> 2048, Literal8 |-> 256]

branch_disp_halfwords(o, t) == (t - (o + 2)) \div 2
literal_disp_words(o, t) == (t - ((o + 4) - (o % 4))) \div 4
disp(k, o, t) == IF k = "Literal8" THEN literal_disp_words(o, t) ELSE branch_disp_halfwords(o, t)

\* The assert! of patch: the displacement fits its field.
fits(k, o, t) == -(Bits[k] \div 2) <= disp(k, o, t) /\ disp(k, o, t) < Bits[k] \div 2

\* What patch writes for a use u of a label at t.
field(u, t) ==
    IF u.kind = "LongDelta32" THEN (t - (u.offset - u.pc_back)) % WordMod
    ELSE disp(u.kind, u.offset, t) % Bits[u.kind]

\* The ranges MachBuffer goes by.
declared(k, o, t) == IF t >= o THEN t - o <= max_pos_range[k] ELSE o - t <= max_neg_range[k]

\* Literals are words, at multiples of 4.
aligned(k, t) == k = "Literal8" => t % 4 = 0

new_use(k, o, pc_back) == [kind |-> k, offset |-> o, pc_back |-> pc_back]

PatchInit ==
    /\ label_use \in {new_use(k, o, NoDelta) : k \in InstLabelUse, o \in Offsets}
    /\ target \in {t \in Offsets : aligned(label_use.kind, t)}
    /\ patched = {}

write(t) == patched' = patched \cup {[use |-> label_use, target |-> t, field |-> field(label_use, t)]}

Patch ==
    /\ \A p \in patched : p.use # label_use
    /\ declared(label_use.kind, label_use.offset, target)
    /\ write(target)
    /\ UNCHANGED <<label_use, target>>

\* Mutant: the delta is taken from the start of the veneer.
veneer_use_from_start(k, v) ==
    new_use(veneer_kind[k], v + veneer_fixup_delta[k][v % 4],
            IF k = "Branch11" THEN veneer_fixup_delta[k][v % 4] ELSE NoDelta)

\* generate_veneer at offset v.
veneer_use(k, v) ==
    new_use(veneer_kind[k], v + veneer_fixup_delta[k][v % 4],
            IF k = "Branch11" THEN veneer_fixup_delta[k][v % 4] - 4 ELSE NoDelta)

Veneer(v) ==
    /\ \A p \in patched : p.use # label_use
    /\ veneer_kind[label_use.kind] # "none" /\ v > label_use.offset
    /\ declared(label_use.kind, label_use.offset, v)
    /\ write(v)
    /\ label_use' = veneer_use(label_use.kind, v)
    /\ UNCHANGED target

Done == (\E p \in patched : p.use = label_use) /\ UNCHANGED patchVars

PatchNext == Patch \/ (\E v \in Offsets : Veneer(v)) \/ Done

PatchSpec == PatchInit /\ [][PatchNext]_patchVars

(***************************************************************************)
(* The processor.                                                          *)
(***************************************************************************)

signed(n, w) == IF w >= n \div 2 THEN w - n ELSE w

\* Where control, or a literal load, goes for a field w of a use of kind k at
\* offset o.
goes(k, o, w) ==
    IF k = "Literal8" THEN ((o + 4) - (o % 4)) + 4 * signed(Bits[k], w)
    ELSE (o + 2) + 2 * signed(Bits[k], w)

\* A long veneer at v adds its literal to LR, which its BL at v + 2 set.
long_goes(v, w) == ((v + 4) + w) % WordMod

(***************************************************************************)
(* Properties.                                                             *)
(***************************************************************************)

\* Every patched instruction takes the processor to the place it was patched
\* to, and every chain of veneers ends at the label.
PatchLands ==
    \A p \in patched :
        IF p.use.kind # "LongDelta32" THEN goes(p.use.kind, p.use.offset, p.field) = p.target
        ELSE \E q \in patched : /\ q.use.kind = "Branch11"
                                /\ long_goes(q.target, p.field) = p.target

\* The ranges declared to MachBuffer are those of the encodings: within them
\* the assertions of patch hold, and for branches beyond them they do not.
RangesExact ==
    label_use.kind # "LongDelta32" =>
        /\ declared(label_use.kind, label_use.offset, target)
             => fits(label_use.kind, label_use.offset, target)
        /\ label_use.kind # "Literal8" /\ fits(label_use.kind, label_use.offset, target)
             => declared(label_use.kind, label_use.offset, target)

\* The literal of a long veneer is aligned, behind its six instructions and
\* inside the bytes reserved for the veneer, and in reach of its LDPC.W.
VeneerLayout ==
    \A p \in patched : p.use.kind = "Branch11" /\ label_use.kind = "LongDelta32" =>
        LET v == p.target IN
        /\ label_use.offset % 4 = 0 /\ v + 12 <= label_use.offset
        /\ label_use.offset + patch_size["LongDelta32"] <= v + veneer_size["Branch11"]
        /\ fits("Literal8", v + 4, label_use.offset)

=============================================================================
