------------------------------ MODULE MCOspfs ------------------------------
(* Small instances of Ospfs.                                               *)
EXTENDS Ospfs

\* The text of a conditional link; one word, it lies over oi_mode only.
OneWord == {<<30>>}

\* A write inside the first block, and one up to the last word that needs no
\* doubly indirect block.
Places == {<<0, 1>>, <<5, 3>>}

\* The proofs are about instances like these.
ASSUME InstanceAssumption == BelowIndirect2 /\ TextsOverMode
=============================================================================
