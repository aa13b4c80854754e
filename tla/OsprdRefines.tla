---------------------------- MODULE OsprdRefines ----------------------------
(* The driver, seen as a FairLock: the requests are the processes between  *)
(* taking a ticket and being granted, ordered by their tickets.            *)
EXTENDS Osprd

AskedBar == [p \in Proc |-> IF Waiting(p) THEN filp[p] ELSE Nil]

BeforeBar ==
    {e \in Proc \X Proc : /\ Waiting(e[1])
                          /\ Waiting(e[2])
                          /\ my_ticket[e[1]] < my_ticket[e[2]]}

FL == INSTANCE FairLock WITH asked <- AskedBar, before <- BeforeBar,
                             held <- locked

\* With serialised ioctls, every behaviour of the driver is a behaviour of
\* the lock its comment describes.
ImplementsFairLock == FL!Spec
=============================================================================
