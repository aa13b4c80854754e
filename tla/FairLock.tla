------------------------------ MODULE FairLock ------------------------------
(***************************************************************************)
(* What the comment at lab2/osprd.c:263-296 promises of the ramdisk lock:  *)
(* a request waits until nobody holds a conflicting lock and no earlier    *)
(* request is still waiting; or it is refused; a request that may not wait *)
(* is granted only if it would not have to.                                *)
(***************************************************************************)
CONSTANTS Proc, File, Writable, Nil

VARIABLES
    asked,   \* asked[p]: the file p waits to lock, or Nil
    before,  \* <<q, p>>: q and p wait, and q asked first
    held     \* the locked files

vars == <<asked, before, held>>

Init ==
    /\ asked = [p \in Proc |-> Nil]
    /\ before = {}
    /\ held = {}

Waiters == {q \in Proc : asked[q] # Nil}

\* No lock that is held conflicts with a lock on f.
Free(f) == held \cap Writable = {} /\ (f \in Writable => held = {})

Leave(p) ==
    /\ asked' = [asked EXCEPT ![p] = Nil]
    /\ before' = {e \in before : e[1] # p /\ e[2] # p}

Ask(p, f) ==
    /\ asked[p] = Nil
    /\ asked' = [asked EXCEPT ![p] = f]
    /\ before' = before \cup (Waiters \X {p})
    /\ UNCHANGED held

Serve(p) ==
    /\ asked[p] # Nil
    /\ \A q \in Proc : <<q, p>> \notin before
    /\ Free(asked[p])
    /\ held' = held \cup {asked[p]}
    /\ Leave(p)

Refuse(p) ==
    /\ asked[p] # Nil
    /\ Leave(p)
    /\ UNCHANGED held

Try(f) ==
    /\ Waiters = {}
    /\ Free(f)
    /\ held' = held \cup {f}
    /\ UNCHANGED <<asked, before>>

Drop(f) ==
    /\ f \in held
    /\ held' = held \ {f}
    /\ UNCHANGED <<asked, before>>

Next ==
    \/ \E p \in Proc : Serve(p) \/ Refuse(p) \/ \E f \in File : Ask(p, f)
    \/ \E f \in File : Try(f) \/ Drop(f)

Spec == Init /\ [][Next]_vars
=============================================================================
