--------------------------- MODULE MCOsprdAccess ---------------------------
(* osprdaccess processes: writers and readers, with one device or several. *)
EXTENDS OsprdAccess, TLC

CONSTANTS p1, p2, p3, p4, f1, f2, f3, f4, f5

Owner   == (f1 :> p1) @@ (f2 :> p2) @@ (f3 :> p3) @@ (f4 :> p4) @@ (f5 :> p3)
MCUsers == [f \in File |-> {Owner[f]}]
Sectors == (p1 :> 3) @@ (p2 :> 1) @@ (p3 :> 2) @@ (p4 :> 1)
MCSize  == [p \in Proc |-> Sectors[p]]

Dev(f, l) == [file |-> f, lock |-> l]

\* p1: -w -l a; p2: -w b -L a (b is another ramdisk);
\* p3: -r -l a -w a, that is with -l in force for both; p4: -r -L a.
MixedArgs ==
    (p1 :> <<Dev(f1, "ACQUIRE")>>)
        @@ (p2 :> <<Dev(Nil, "none"), Dev(f2, "TRYACQUIRE")>>)
        @@ (p3 :> <<Dev(f3, "ACQUIRE"), Dev(f5, "ACQUIRE")>>)
        @@ (p4 :> <<Dev(f4, "TRYACQUIRE")>>)
=============================================================================
