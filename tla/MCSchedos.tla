----------------------------- MODULE MCSchedos -----------------------------
(* Small instances of Schedos.                                             *)
EXTENDS Schedos, TLC

\* Three equal priorities, a high one between two equal ones, and three
\* different ones, of which the highest exits first.
Priorities == {(1 :> 3) @@ (2 :> 3) @@ (3 :> 3),
               (1 :> 3) @@ (2 :> 1) @@ (3 :> 3),
               (1 :> 1) @@ (2 :> 3) @@ (3 :> 2)}
=============================================================================
