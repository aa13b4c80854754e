------------------------- MODULE OsprdRefinesProofs -------------------------
(* The driver implements FairLock when the kernel serialises its ioctls.   *)
EXTENDS OsprdRefines, OsprdProofs

USE DEF device, files, vars

\* A step that leaves the waiting processes, their files and their tickets
\* alone leaves the requests of the abstract lock alone.
SameWaiters ==
    \A q \in Proc : /\ Waiting(q)' <=> Waiting(q)
                    /\ Waiting(q) => /\ filp'[q] = filp[q]
                                     /\ my_ticket'[q] = my_ticket[q]

LEMMA SameRequests ==
    ASSUME SameWaiters
    PROVE  /\ AskedBar' = AskedBar /\ BeforeBar' = BeforeBar
           /\ locked' = locked => UNCHANGED FL!vars
<1> USE DEF SameWaiters
<1>1. AskedBar' = AskedBar
  BY DEF AskedBar
<1>2. BeforeBar' = BeforeBar
  BY DEF BeforeBar
<1> QED BY <1>1, <1>2 DEF FL!vars

\* A process that stops waiting takes its request with it.
LEMMA OneLeaves ==
    ASSUME TypeOK, TypeOK', NEW p \in Proc, Waiting(p), ~Waiting(p)',
           \A q \in Proc \ {p} : /\ Waiting(q)' <=> Waiting(q)
                                 /\ filp'[q] = filp[q]
                                 /\ my_ticket'[q] = my_ticket[q]
    PROVE  FL!Leave(p) /\ AskedBar[p] = filp[p] /\ filp[p] # Nil
<1>1. AskedBar' = [AskedBar EXCEPT ![p] = Nil]
  BY DEF AskedBar
<1>2. BeforeBar' = {e \in BeforeBar : e[1] # p /\ e[2] # p}
  BY DEF BeforeBar
<1>3. filp[p] # Nil
  BY ProcAssumption DEF TypeOK, Waiting
<1> QED BY <1>1, <1>2, <1>3 DEF FL!Leave, AskedBar

\* Every step of the driver is a step of the abstract lock, or none.
LEMMA StepImplements ==
    ASSUME Bkl, IInv, IInv', Next
    PROVE  FL!Next \/ UNCHANGED FL!vars
<1>0. TypeOK /\ TypeOK'
  BY DEF IInv
<1>1. ASSUME NEW p \in Proc, KernelStep(p)
      PROVE  FL!Next \/ UNCHANGED FL!vars
  <2>1. CASE AcquireWarCheck(p) /\ Contains(read_lock_pid_list, p)
    <3>1. FL!Leave(p) /\ AskedBar[p] # Nil
      BY <1>0, <2>1, OneLeaves DEF AcquireWarCheck, At, Return, GoTo, Waiting,
            TypeOK
    <3>2. locked' = locked
      BY <2>1 DEF AcquireWarCheck
    <3>3. FL!Refuse(p)
      BY <3>1, <3>2 DEF FL!Refuse
    <3> QED BY <3>3 DEF FL!Next
  <2>2. CASE AcquireWarCheck(p) /\ ~Contains(read_lock_pid_list, p)
    <3>1. SameWaiters
      BY <1>0, <2>2 DEF SameWaiters, AcquireWarCheck, At, GoTo, Waiting,
            TypeOK
    <3>2. locked' = locked
      BY <2>2 DEF AcquireWarCheck
    <3> QED BY <3>1, <3>2, SameRequests
  <2>3. CASE LoadNRead(p) \/ LoadNWrite(p) \/ LoadTicket(p)
    <3>1. SameWaiters
      BY <1>0, <2>3 DEF SameWaiters, LoadNRead, LoadNWrite, LoadTicket,
            Load, At, Wait, GoTo, Waiting, TypeOK
    <3>2. locked' = locked
      BY <2>3 DEF LoadNRead, LoadNWrite, LoadTicket, Load
    <3> QED BY <3>1, <3>2, SameRequests
  <2>4. CASE Reschedule(p)
    <3>1. SameWaiters
      BY <1>0, <2>4 DEF SameWaiters, Reschedule, GoTo, Waiting, TypeOK
    <3>2. locked' = locked
      BY <2>4 DEF Reschedule
    <3> QED BY <3>1, <3>2, SameRequests
  <2>5. CASE Grant(p)
    <3>1. FL!Leave(p) /\ AskedBar[p] = filp[p] /\ filp[p] # Nil
      BY <1>0, <2>5, OneLeaves DEF Grant, At, GoTo, Waiting, TypeOK
    <3>2. pc[p] = "grant" /\ locked' = locked \cup {filp[p]}
      BY <2>5 DEF Grant, At
    <3>3. /\ filp[p] \in Writable => n_read_lock = 0
          /\ n_write_lock = 0 /\ my_ticket[p] = ticket_tail
      BY <3>2 DEF IInv, TestInv
    <3>4. locked \cap Writable = {}
      BY <1>0, <3>3, LockedCount DEF IInv, CountsSound
    <3>5. filp[p] \in Writable => locked = {}
      <4> SUFFICES ASSUME filp[p] \in Writable PROVE locked \ Writable = {}
        BY <3>4
      <4> QED BY <1>0, <3>3, LockedCount DEF IInv, CountsSound, TypeOK
    <3>6. \A q \in Proc : <<q, p>> \notin BeforeBar
      BY <1>0, <3>3 DEF BeforeBar, IInv, TicketInv, Ticketed, TypeOK
    <3>7. FL!Free(AskedBar[p])
      BY <3>1, <3>4, <3>5 DEF FL!Free
    <3>8. FL!Serve(p)
      BY <3>1, <3>2, <3>6, <3>7 DEF FL!Serve
    <3> QED BY <3>8 DEF FL!Next
  <2>6. CASE AdvanceTail(p)
    <3>1. SameWaiters
      BY <1>0, <2>6 DEF SameWaiters, AdvanceTail, At, Return, GoTo,
            Waiting, TypeOK
    <3>2. locked' = locked
      BY <2>6 DEF AdvanceTail
    <3> QED BY <3>1, <3>2, SameRequests
  <2>7. CASE ReleaseSection(p)
    <3>1. /\ filp[p] \in locked /\ filp[p] \in File
          /\ locked' = locked \ {filp[p]}
      BY <1>0, <2>7 DEF ReleaseSection, At, IInv, FileInv, TypeOK
    <3>2. AskedBar' = AskedBar /\ BeforeBar' = BeforeBar
      <4>1. SameWaiters
        BY <1>0, <2>7 DEF SameWaiters, ReleaseSection, At, Return, GoTo,
              Waiting, TypeOK
      <4> QED BY <4>1, SameRequests
    <3>3. FL!Drop(filp[p])
      BY <3>1, <3>2 DEF FL!Drop
    <3> QED BY <3>1, <3>3 DEF FL!Next
  <2> QED BY <1>1, <2>1, <2>2, <2>3, <2>4, <2>5, <2>6, <2>7 DEF KernelStep
<1>2. ASSUME NEW p \in Proc, NEW f \in File, UserCall(p, f)
      PROVE  FL!Next \/ UNCHANGED FL!vars
  <2>1. CASE Open(p, f)
    <3>1. locked' = locked
      BY <2>1 DEF Open, IInv, FileInv
    <3>2. SameWaiters
      BY <2>1 DEF SameWaiters, Open, Waiting
    <3> QED BY <3>1, <3>2, SameRequests
  <2>2. CASE AcquireOwnWrite(p, f)
    <3>1. SameWaiters
      BY <1>0, <2>2 DEF SameWaiters, AcquireOwnWrite, MayCall, Return,
            GoTo, Waiting, TypeOK
    <3>2. locked' = locked
      BY <2>2 DEF AcquireOwnWrite
    <3> QED BY <3>1, <3>2, SameRequests
  <2>3. CASE AcquireTicket(p, f)
    <3>1. /\ pc[p] = "user" /\ filp' = [filp EXCEPT ![p] = f]
          /\ pc' = [pc EXCEPT ![p] =
                        IF f \in Writable THEN "war" ELSE "ld_nwrite"]
          /\ my_ticket' = [my_ticket EXCEPT ![p] = ticket_head]
          /\ locked' = locked
      BY <2>3 DEF AcquireTicket, MayCall, GoTo
    <3>2. /\ ~Waiting(p) /\ Waiting(p)' /\ filp'[p] = f
          /\ my_ticket'[p] = ticket_head
      BY <1>0, <3>1 DEF Waiting, TypeOK
    <3>3. \A q \in Proc \ {p} : /\ Waiting(q)' <=> Waiting(q)
                                /\ filp'[q] = filp[q]
                                /\ my_ticket'[q] = my_ticket[q]
      BY <1>0, <3>1 DEF Waiting, TypeOK
    <3>4. AskedBar' = [AskedBar EXCEPT ![p] = f] /\ AskedBar[p] = Nil
      BY <3>2, <3>3 DEF AskedBar
    <3>5. FL!Waiters = {q \in Proc : Waiting(q)}
      BY <1>0, ProcAssumption DEF FL!Waiters, AskedBar, Waiting, TypeOK
    <3>6. \A q \in Proc : Waiting(q) => my_ticket[q] < ticket_head
      BY DEF IInv, TicketInv, Ticketed
    <3>7. BeforeBar' = BeforeBar \cup (FL!Waiters \X {p})
      <4>1. ASSUME NEW a \in Proc, NEW b \in Proc
            PROVE  <<a, b>> \in BeforeBar' <=>
                      \/ <<a, b>> \in BeforeBar
                      \/ Waiting(a) /\ b = p
        <5>1. /\ <<a, b>> \in BeforeBar <=>
                    Waiting(a) /\ Waiting(b) /\ my_ticket[a] < my_ticket[b]
              /\ <<a, b>> \in BeforeBar' <=>
                    Waiting(a)' /\ Waiting(b)' /\ my_ticket'[a] < my_ticket'[b]
          BY DEF BeforeBar
        <5>2. my_ticket[a] \in Nat /\ ticket_head \in Nat
          BY <1>0, EnvAssumption DEF TypeOK
        <5>3. CASE a = p
          <6>1. ~(ticket_head < my_ticket'[b]) \/ ~Waiting(b)'
            <7>1. my_ticket[b] \in Nat
              BY <1>0 DEF TypeOK
            <7>2. CASE b = p
              BY <3>2, <5>2, <7>2
            <7>3. CASE b # p
              BY <3>3, <3>6, <5>2, <7>1, <7>3
            <7> QED BY <7>2, <7>3
          <6> QED BY <3>2, <3>3, <5>1, <5>3, <6>1
        <5>4. CASE a # p
          BY <3>2, <3>3, <3>6, <5>1, <5>4
        <5> QED BY <5>3, <5>4
      <4>2. BeforeBar \subseteq Proc \X Proc /\ BeforeBar' \subseteq Proc \X Proc
        BY DEF BeforeBar
      <4> HIDE DEF BeforeBar
      <4> QED BY <3>5, <4>1, <4>2
    <3>8. FL!Ask(p, f)
      BY <3>1, <3>4, <3>7 DEF FL!Ask
    <3> QED BY <3>8 DEF FL!Next
  <2>4. CASE TryAcquire(p, f)
    <3>1. AskedBar' = AskedBar /\ BeforeBar' = BeforeBar
      <4>1. \E r : Return(p, r) /\ pc[p] = "user"
        BY <2>4 DEF TryAcquire, MayCall
      <4>2. SameWaiters
        BY <1>0, <4>1 DEF SameWaiters, Return, GoTo, Waiting, TypeOK
      <4> QED BY <4>2, SameRequests
    <3>2. CASE Busy(f)
      BY <2>4, <3>1, <3>2 DEF TryAcquire, FL!vars
    <3>3. CASE ~Busy(f)
      <4>1. /\ locked' = locked \cup {f} /\ ticket_head = ticket_tail
            /\ n_write_lock <= 0 /\ (f \in Writable => n_read_lock <= 0)
        BY <1>0, <2>4, <3>3 DEF TryAcquire, Busy, TypeOK
      <4>2. FL!Waiters = {}
        <5>1. \A q \in Proc : ~Waiting(q)
          BY <1>0, <4>1 DEF IInv, TicketInv, Ticketed, TypeOK
        <5> QED BY <5>1 DEF FL!Waiters, AskedBar
      <4>3. locked \cap Writable = {}
        BY <1>0, <4>1, LockedCount DEF IInv, CountsSound
      <4>4. f \in Writable => locked = {}
        <5> SUFFICES ASSUME f \in Writable PROVE locked \ Writable = {}
          BY <4>3
        <5> DEFINE n == Cardinality(locked \ Writable)
        <5>1. n \in Nat /\ n_read_lock >= n /\ n_read_lock \in Int
          BY <1>0, LockedCount DEF IInv, CountsSound, TypeOK
        <5> HIDE DEF n
        <5>2. n = 0
          BY <4>1, <5>1
        <5> QED BY <1>0, <5>2, LockedCount DEF n
      <4> QED BY <3>1, <4>1, <4>2, <4>3, <4>4 DEF FL!Next, FL!Try, FL!Free
    <3> QED BY <3>2, <3>3
  <2>5. CASE ReleaseTest(p, f)
    <3>1. SameWaiters
      BY <1>0, <2>5 DEF SameWaiters, ReleaseTest, MayCall, Return, GoTo,
            Waiting, TypeOK
    <3>2. locked' = locked
      BY <2>5 DEF ReleaseTest
    <3> QED BY <3>1, <3>2, SameRequests
  <2>6. CASE CloseLast(p, f)
    <3>1. AskedBar' = AskedBar /\ BeforeBar' = BeforeBar
      <4>1. SameWaiters
        BY <2>6 DEF SameWaiters, CloseLast, Waiting
      <4> QED BY <4>1, SameRequests
    <3>2. locked' = locked \ {f}
      BY <2>6 DEF CloseLast
    <3>3. CASE f \in locked
      BY <3>1, <3>2, <3>3 DEF FL!Next, FL!Drop
    <3>4. CASE f \notin locked
      BY <3>1, <3>2, <3>4 DEF FL!vars
    <3> QED BY <3>3, <3>4
  <2> QED BY <1>2, <2>1, <2>2, <2>3, <2>4, <2>5, <2>6 DEF UserCall
<1> QED BY <1>1, <1>2 DEF Next

\* The driver implements the lock its comment describes.
THEOREM DriverIsFairLock == ASSUME Bkl PROVE Spec => ImplementsFairLock
<1>1. Init => FL!Init
  BY DEF Init, FL!Init, AskedBar, BeforeBar, Waiting
<1>2. IInv /\ IInv' /\ [Next]_vars => [FL!Next]_(FL!vars)
  <2> SUFFICES ASSUME IInv, IInv', [Next]_vars
               PROVE  FL!Next \/ UNCHANGED FL!vars
    OBVIOUS
  <2>1. CASE Next
    BY <2>1, StepImplements
  <2>2. CASE UNCHANGED vars
    <3>1. SameWaiters /\ locked' = locked
      BY <2>2 DEF SameWaiters, Waiting
    <3> QED BY <3>1, SameRequests
  <2> QED BY <2>1, <2>2
<1> QED BY <1>1, <1>2, InvInit, InvStep, PTL DEF Spec, FL!Spec, ImplementsFairLock
=============================================================================
