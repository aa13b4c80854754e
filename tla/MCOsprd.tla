------------------------------ MODULE MCOsprd ------------------------------
(* Small instances of Osprd: who uses which file slot.                     *)
EXTENDS OsprdRefines, TLC

CONSTANTS p1, p2, p3, w1, w2, r1, r2

\* p1 has a read slot and a write slot, p2 a write slot, p3 a read slot.
MixedUsers == (r1 :> {p1}) @@ (w1 :> {p1}) @@ (w2 :> {p2}) @@ (r2 :> {p3})

\* Each process has one slot.
SingleUsers == (w1 :> {p1}) @@ (w2 :> {p2}) @@ (r1 :> {p3})

=============================================================================
