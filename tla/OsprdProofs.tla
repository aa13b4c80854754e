---------------------------- MODULE OsprdProofs ----------------------------
(* Proofs about Osprd, for every set of processes, files and tickets.      *)
EXTENDS Osprd, FiniteSetTheorems, TLAPS

USE DEF device, files, vars

\* The removal loop of osprd_close_last() leaves a list of pids.
LEMMA RemovePidType ==
    ASSUME NEW s \in Seq(Proc), NEW p \in Proc
    PROVE  RemovePid(s, p) \in Seq(Proc)
<1> DEFINE first == {i \in 2..Len(s) :
                        s[i] = p /\ \A j \in 1..(i - 1) : s[j] # p}
<1>1. CASE first = {}
  BY <1>1 DEF RemovePid
<1>2. CASE first # {}
  <2>1. PICK i \in 2..Len(s) : RemovePid(s, p) = RemoveAt(s, i)
    BY <1>2 DEF RemovePid
  <2>2. RemoveAt(s, i) \in Seq(Proc)
    BY DEF RemoveAt
  <2> QED BY <2>1, <2>2
<1> QED BY <1>1, <1>2

\* Returning from an ioctl keeps the types of what a process owns.
LEMMA ReturnType ==
    ASSUME TypeOK, NEW p \in Proc, NEW r \in Results, Return(p, r)
    PROVE  /\ pc' \in [Proc -> Labels]
           /\ filp' \in [Proc -> File \cup {Nil}]
           /\ \A q \in Proc : pc'[q] # "user" => filp'[q] \in File
           /\ my_ticket' \in [Proc -> Nat]
           /\ ret' \in [Proc -> {"ok", "error"}]
           /\ bkl' \in Proc \cup {Nil}
  BY DEF TypeOK, Return, GoTo, Labels

\* Types are preserved by every step.
LEMMA TypeStep == TypeOK /\ [Next]_vars => TypeOK'
<1> SUFFICES ASSUME TypeOK, [Next]_vars PROVE TypeOK'
  OBVIOUS
<1> USE FileAssumption, ProcAssumption, EnvAssumption DEF TypeOK, Labels, Results
<1>1. ASSUME NEW p \in Proc, KernelStep(p) PROVE TypeOK'
  <2>1. CASE AcquireWarCheck(p)
    <3>1. CASE Contains(read_lock_pid_list, p)
      BY <2>1, <3>1, ReturnType DEF AcquireWarCheck
    <3>2. CASE ~Contains(read_lock_pid_list, p)
      BY <2>1, <3>2 DEF AcquireWarCheck, At, GoTo
    <3> QED BY <3>1, <3>2
  <2>2. CASE LoadNRead(p)
    BY <2>2 DEF LoadNRead, Load, At, Wait, GoTo
  <2>3. CASE LoadNWrite(p)
    BY <2>3 DEF LoadNWrite, Load, At, Wait, GoTo
  <2>4. CASE LoadTicket(p)
    BY <2>4 DEF LoadTicket, Load, At, Wait, GoTo
  <2>5. CASE Reschedule(p)
    BY <2>5 DEF Reschedule, KernelLock, GoTo
  <2>6. CASE Grant(p)
    <3>1. filp[p] \in File
      BY <2>6 DEF Grant, At
    <3>2. CASE filp[p] \in Writable
      BY <2>6, <3>1, <3>2 DEF Grant, At, GoTo
    <3>3. CASE filp[p] \notin Writable
      <4>0. read_lock_pid_list' = Append(read_lock_pid_list, p)
        BY <2>6, <3>3 DEF Grant
      <4>1. read_lock_pid_list' \in Seq(Proc)
        BY <4>0
      <4> QED BY <2>6, <3>1, <3>3, <4>1 DEF Grant, At, GoTo
    <3> QED BY <3>2, <3>3
  <2>7. CASE AdvanceTail(p)
    BY <2>7, ReturnType DEF AdvanceTail
  <2>8. CASE ReleaseSection(p)
    <3>1. Return(p, "ok") /\ locked' \in SUBSET File
      BY <2>8 DEF ReleaseSection
    <3>2. n_write_lock' \in Int /\ n_read_lock' \in Int
      BY <2>8 DEF ReleaseSection, Uncount
    <3> QED BY <2>8, <3>1, <3>2, ReturnType DEF ReleaseSection
  <2> QED BY <1>1, <2>1, <2>2, <2>3, <2>4, <2>5, <2>6, <2>7, <2>8 DEF KernelStep
<1>2. ASSUME NEW p \in Proc, NEW f \in File, UserCall(p, f) PROVE TypeOK'
  <2>1. CASE Open(p, f)
    BY <2>1 DEF Open
  <2>2. CASE AcquireOwnWrite(p, f)
    BY <2>2 DEF AcquireOwnWrite, Return, GoTo
  <2>3. CASE AcquireTicket(p, f)
    BY <2>3 DEF AcquireTicket, KernelLock, GoTo
  <2>4. CASE TryAcquire(p, f)
    <3>1. CASE Busy(f)
      BY <2>4, <3>1, ReturnType DEF TryAcquire
    <3>2. CASE ~Busy(f)
      <4>1. /\ Return(p, "ok")
            /\ locked' = locked \cup {f}
            /\ UNCHANGED <<ticket_head, ticket_tail, write_lock_pid,
                           read_lock_pid_list, opened>>
        BY <2>4, <3>2 DEF TryAcquire
      <4>2. n_write_lock' \in Int /\ n_read_lock' \in Int
        BY <2>4, <3>2 DEF TryAcquire
      <4> QED BY <4>1, <4>2, ReturnType
    <3> QED BY <3>1, <3>2
  <2>5. CASE ReleaseTest(p, f)
    <3>1. CASE f \notin locked
      BY <2>5, <3>1, ReturnType DEF ReleaseTest
    <3>2. CASE f \in locked
      <4>1. /\ GoTo(p, "release") /\ KernelLock(p)
            /\ filp' = [filp EXCEPT ![p] = f]
            /\ UNCHANGED <<device, files, my_ticket, ret>>
        BY <2>5, <3>2 DEF ReleaseTest
      <4>2. bkl' \in Proc \cup {Nil}
        BY <4>1 DEF KernelLock
      <4> QED BY <4>1, <4>2 DEF GoTo
    <3> QED BY <3>1, <3>2
  <2>6. CASE CloseLast(p, f)
    <3>1. RemovePid(read_lock_pid_list, p) \in Seq(Proc)
      BY RemovePidType
    <3> QED BY <2>6, <3>1 DEF CloseLast, Uncount
  <2> QED BY <1>2, <2>1, <2>2, <2>3, <2>4, <2>5, <2>6 DEF UserCall
<1>3. CASE UNCHANGED vars
  BY <1>3
<1> QED BY <1>1, <1>2, <1>3 DEF Next

\* Every variable of the driver keeps its type, whatever the kernel does.
THEOREM TypeCorrect == Spec => []TypeOK
<1>1. Init => TypeOK
  BY FileAssumption, EnvAssumption DEF Init, TypeOK, Labels, Results
<1> QED BY <1>1, TypeStep, PTL DEF Spec

-----------------------------------------------------------------------------
(* Serialised ioctls: the inductive invariant.                             *)

\* Only one process at a time is inside the driver and not in schedule().
LEMMA OneInDriver ==
    ASSUME TypeOK, KernelInv
    PROVE  /\ bkl = Nil => \A q \in Proc : pc[q] \in {"user", "spin"}
           /\ \A p \in Proc : bkl = p =>
                 \A q \in Proc \ {p} : pc[q] \in {"user", "spin"}
  BY ProcAssumption DEF TypeOK, KernelInv

\* Adding a file to, or taking one from, the locked files moves the number
\* of locked files of its kind by one, and of the other kind not at all.
LEMMA LockedCount ==
    ASSUME TypeOK
    PROVE  /\ Cardinality(locked \cap Writable) \in Nat
           /\ Cardinality(locked \ Writable) \in Nat
           /\ Cardinality(locked \cap Writable) = 0 <=> locked \cap Writable = {}
           /\ Cardinality(locked \ Writable) = 0 <=> locked \ Writable = {}
  BY FileAssumption, FS_Subset, FS_CardinalityType, FS_EmptySet DEF TypeOK

LEMMA LockedMore ==
    ASSUME TypeOK, NEW f \in File
    PROVE  /\ f \in Writable \ locked =>
                Cardinality((locked \cup {f}) \cap Writable)
                    = Cardinality(locked \cap Writable) + 1
           /\ f \notin Writable =>
                Cardinality((locked \cup {f}) \ Writable)
                    <= Cardinality(locked \ Writable) + 1
<1>1. IsFiniteSet(locked \cap Writable) /\ IsFiniteSet(locked \ Writable)
  BY FileAssumption, FS_Subset DEF TypeOK
<1>2. ASSUME f \in Writable \ locked
      PROVE  Cardinality((locked \cup {f}) \cap Writable)
                = Cardinality(locked \cap Writable) + 1
  <2>1. (locked \cup {f}) \cap Writable = (locked \cap Writable) \cup {f}
    BY <1>2
  <2> QED BY <1>1, <1>2, <2>1, FS_AddElement
<1>3. ASSUME f \notin Writable
      PROVE  Cardinality((locked \cup {f}) \ Writable)
                <= Cardinality(locked \ Writable) + 1
  <2>1. (locked \cup {f}) \ Writable = (locked \ Writable) \cup {f}
    BY <1>3
  <2>2. Cardinality(locked \ Writable) \in Nat
    BY <1>1, FS_CardinalityType
  <2>3. Cardinality((locked \ Writable) \cup {f})
            = IF f \in locked \ Writable THEN Cardinality(locked \ Writable)
                                        ELSE Cardinality(locked \ Writable) + 1
    BY <1>1, FS_AddElement
  <2> DEFINE n == Cardinality(locked \ Writable)
             m == Cardinality((locked \ Writable) \cup {f})
  <2>4. m <= n + 1
    <3> HIDE DEF n
    <3>1. m = n \/ m = n + 1
      BY <2>3 DEF n
    <3>2. n \in Nat
      BY <2>2 DEF n
    <3> HIDE DEF m
    <3> QED BY <3>1, <3>2
  <2> QED BY <2>1, <2>4
<1> QED BY <1>2, <1>3

LEMMA LockedLess ==
    ASSUME TypeOK, NEW f \in locked
    PROVE  /\ f \in Writable =>
                /\ Cardinality((locked \ {f}) \cap Writable)
                    = Cardinality(locked \cap Writable) - 1
                /\ (locked \ {f}) \ Writable = locked \ Writable
           /\ f \notin Writable =>
                /\ Cardinality((locked \ {f}) \ Writable)
                    = Cardinality(locked \ Writable) - 1
                /\ (locked \ {f}) \cap Writable = locked \cap Writable
<1>1. IsFiniteSet(locked \cap Writable) /\ IsFiniteSet(locked \ Writable)
  BY FileAssumption, FS_Subset DEF TypeOK
<1>2. ASSUME f \in Writable
      PROVE  Cardinality((locked \ {f}) \cap Writable)
                    = Cardinality(locked \cap Writable) - 1
  <2>1. (locked \ {f}) \cap Writable = (locked \cap Writable) \ {f}
    OBVIOUS
  <2> QED BY <1>1, <1>2, <2>1, FS_RemoveElement
<1>3. ASSUME f \notin Writable
      PROVE  Cardinality((locked \ {f}) \ Writable)
                    = Cardinality(locked \ Writable) - 1
  <2>1. (locked \ {f}) \ Writable = (locked \ Writable) \ {f}
    OBVIOUS
  <2> QED BY <1>1, <1>3, <2>1, FS_RemoveElement
<1> QED BY <1>2, <1>3

\* A step inside the driver that changes neither counts, nor tail, nor files.
LEMMA QuietStep ==
    ASSUME Bkl, IInv, TypeOK',
           NEW p \in Proc,
           \/ AcquireWarCheck(p) \/ LoadNRead(p) \/ LoadNWrite(p)
           \/ LoadTicket(p) \/ Reschedule(p)
    PROVE  IInv'
<1> USE DEF IInv
<1>1. UNCHANGED <<device, files>>
  BY DEF AcquireWarCheck, LoadNRead, LoadNWrite, LoadTicket, Reschedule, Load
<1>2. CountsSound' /\ MutualExclusion'
  BY <1>1 DEF CountsSound, MutualExclusion
<1>3. \A q \in Proc \ {p} : pc[q] \in {"user", "spin"}
  BY OneInDriver DEF AcquireWarCheck, LoadNRead, LoadNWrite, LoadTicket,
        Reschedule, Load, At
<1>4. \A q \in Proc \ {p} : pc'[q] = pc[q] /\ filp'[q] = filp[q]
                            /\ my_ticket'[q] = my_ticket[q]
  BY DEF TypeOK, AcquireWarCheck, LoadNRead, LoadNWrite, LoadTicket,
        Reschedule, Load, Return, Wait, GoTo
<1>5. pc'[p] # "user" => filp'[p] = filp[p] /\ my_ticket'[p] = my_ticket[p]
  BY DEF TypeOK, AcquireWarCheck, LoadNRead, LoadNWrite, LoadTicket,
        Reschedule, Load, Return, Wait, GoTo
<1>6. Ticketed(p) /\ pc'[p] \notin {"advance", "release"}
  BY DEF TypeOK, Ticketed, Waiting, AcquireWarCheck, LoadNRead, LoadNWrite,
        LoadTicket, Reschedule, Load, At, Return, Wait, GoTo
<1>7. KernelInv'
  BY <1>3, <1>4, ProcAssumption DEF KernelInv, TypeOK, AcquireWarCheck,
        LoadNRead, LoadNWrite, LoadTicket, Reschedule, Load, At, Return, Wait,
        GoTo, KernelLock
<1>8. FileInv'
  BY <1>1, <1>4, <1>5, <1>6 DEF FileInv, Ticketed, Waiting
<1>9. TicketInv'
  BY <1>1, <1>4, <1>5, <1>6 DEF TicketInv, Ticketed, Waiting
<1>10. TestInv'
  <2>1. \A q \in Proc \ {p} : pc'[q] \in {"user", "spin"}
    BY <1>3, <1>4
  <2>2. /\ pc'[p] \in {"ld_nwrite", "ld_ticket", "grant"}
              /\ filp'[p] \in Writable => n_read_lock' = 0
        /\ pc'[p] \in {"ld_ticket", "grant"} => n_write_lock' = 0
        /\ pc'[p] = "grant" => my_ticket'[p] = ticket_tail'
    BY <1>1, <1>5 DEF TestInv, TypeOK, AcquireWarCheck, LoadNRead, LoadNWrite,
        LoadTicket, Reschedule, Load, At, Return, Wait, GoTo
  <2> QED BY <1>6, <2>1, <2>2 DEF TestInv
<1> QED BY <1>2, <1>7, <1>8, <1>9, <1>10

\* The grant: the counts that were loaded are still zero, so the new lock
\* conflicts with none.
LEMMA GrantStep ==
    ASSUME Bkl, IInv, TypeOK', NEW p \in Proc, Grant(p)
    PROVE  IInv'
<1> USE DEF IInv
<1>1. /\ pc[p] = "grant" /\ bkl = p /\ pc' = [pc EXCEPT ![p] = "advance"]
      /\ locked' = locked \cup {filp[p]}
      /\ UNCHANGED <<ticket_head, ticket_tail, opened, filp, my_ticket, bkl>>
  BY DEF Grant, At, GoTo
<1>2. \A q \in Proc \ {p} : pc[q] \in {"user", "spin"}
  BY <1>1, OneInDriver
<1>3. filp[p] \in File /\ filp[p] \in opened
  BY <1>1 DEF TypeOK, FileInv
<1>4. /\ filp[p] \in Writable => n_read_lock = 0
      /\ n_write_lock = 0 /\ my_ticket[p] = ticket_tail
  BY <1>1 DEF TestInv
<1>5. locked \cap Writable = {}
  BY <1>4, LockedCount DEF CountsSound
<1>6. filp[p] \in Writable => locked = {}
  <2> SUFFICES ASSUME filp[p] \in Writable PROVE locked \ Writable = {}
    BY <1>5
  <2> QED BY <1>4, LockedCount DEF CountsSound, TypeOK
<1>7. KernelInv' /\ FileInv' /\ TicketInv' /\ TestInv'
  <2>1. KernelInv' /\ FileInv'
    BY <1>1, <1>3 DEF KernelInv, FileInv, TypeOK
  <2>2. TicketInv'
    BY <1>1 DEF TicketInv, Ticketed, Waiting, TypeOK
  <2>3. TestInv'
    BY <1>1, <1>2, <1>4 DEF TestInv, TypeOK
  <2> QED BY <2>1, <2>2, <2>3
<1>8. MutualExclusion'
  BY <1>1, <1>5, <1>6 DEF MutualExclusion
<1>9. CountsSound'
  <2>1. CASE filp[p] \in Writable
    <3>1. /\ n_write_lock' = n_write_lock + 1 /\ n_read_lock' = n_read_lock
          /\ locked' \ Writable = locked \ Writable
      BY <1>1, <2>1 DEF Grant
    <3>2. Cardinality(locked' \cap Writable)
              = Cardinality(locked \cap Writable) + 1
      BY <1>1, <1>3, <1>6, <2>1, LockedMore
    <3> QED BY <3>1, <3>2 DEF CountsSound
  <2>2. CASE filp[p] \notin Writable
    <3>1. /\ n_read_lock' = n_read_lock + 1 /\ n_write_lock' = n_write_lock
          /\ locked' \cap Writable = locked \cap Writable
      BY <1>1, <2>2 DEF Grant
    <3>2. Cardinality(locked' \ Writable)
              <= Cardinality(locked \ Writable) + 1
      BY <1>1, <1>3, <2>2, LockedMore
    <3>3. Cardinality(locked' \ Writable) \in Nat
      BY LockedCount, FileAssumption, FS_Subset, FS_CardinalityType DEF TypeOK
    <3>4. n_write_lock' = Cardinality(locked' \cap Writable)
      BY <3>1 DEF CountsSound
    <3>5. n_read_lock' >= Cardinality(locked' \ Writable)
      <4> DEFINE n == Cardinality(locked \ Writable)
                 m == Cardinality(locked' \ Writable)
      <4>1. n_read_lock \in Int /\ n \in Nat /\ m \in Nat
        BY <3>3, LockedCount DEF TypeOK
      <4>2. n_read_lock >= n /\ m <= n + 1
        BY <3>2 DEF CountsSound
      <4> HIDE DEF n, m
      <4>3. n_read_lock' >= m
        BY <3>1, <4>1, <4>2
      <4> QED BY <4>3 DEF m
    <3> QED BY <3>4, <3>5 DEF CountsSound
  <2> QED BY <2>1, <2>2
<1> QED BY <1>7, <1>8, <1>9

\* Serving the next ticket: every other outstanding ticket is a later one.
LEMMA AdvanceStep ==
    ASSUME Bkl, IInv, TypeOK', NEW p \in Proc, AdvanceTail(p)
    PROVE  IInv'
<1> USE DEF IInv
<1>1. /\ pc[p] = "advance" /\ bkl = p /\ pc' = [pc EXCEPT ![p] = "user"]
      /\ ticket_tail' = ticket_tail + 1
      /\ my_ticket' = [my_ticket EXCEPT ![p] = 0]
      /\ filp' = [filp EXCEPT ![p] = Nil]
      /\ UNCHANGED <<ticket_head, n_write_lock, n_read_lock, files>>
  BY DEF AdvanceTail, At, Return, GoTo
<1>2. \A q \in Proc \ {p} : pc[q] \in {"user", "spin"}
  BY <1>1, OneInDriver
<1>3. my_ticket[p] = ticket_tail
  BY <1>1 DEF TestInv
<1>4. KernelInv' /\ FileInv' /\ TestInv'
  BY <1>1, <1>2 DEF KernelInv, FileInv, TestInv, TypeOK
<1>5. TicketInv'
  <2>1. ticket_tail' <= ticket_head'
    BY <1>1, <1>3 DEF TicketInv, Ticketed, TypeOK
  <2>2. \A q \in Proc : Ticketed(q)' => q # p /\ Ticketed(q)
                                        /\ my_ticket'[q] = my_ticket[q]
    BY <1>1 DEF Ticketed, Waiting, TypeOK
  <2>3. \A q \in Proc \ {p} : Ticketed(q) => ticket_tail + 1 <= my_ticket[q]
    BY <1>1, <1>3 DEF TicketInv, Ticketed, TypeOK
  <2> QED BY <1>1, <2>1, <2>2, <2>3 DEF TicketInv
<1>6. CountsSound' /\ MutualExclusion'
  BY <1>1 DEF CountsSound, MutualExclusion
<1> QED BY <1>4, <1>5, <1>6

\* A held lock goes: the counts and the set of locked files move together,
\* and a count that a waiting process has found zero stays zero.
LEMMA DropLock ==
    ASSUME IInv, TypeOK', NEW f \in locked, Uncount(f), locked' = locked \ {f}
    PROVE  /\ CountsSound' /\ MutualExclusion'
           /\ n_read_lock = 0 => n_read_lock' = 0
           /\ n_write_lock = 0 => n_write_lock' = 0
<1> USE DEF IInv
<1>1. MutualExclusion'
  BY DEF MutualExclusion
<1>2. CASE f \in Writable
  <2>1. n_write_lock' = n_write_lock - 1 /\ n_read_lock' = n_read_lock
    BY <1>2 DEF Uncount
  <2>2. n_write_lock # 0
    BY <1>2, LockedCount DEF CountsSound
  <2>3. Cardinality(locked' \cap Writable)
            = Cardinality(locked \cap Writable) - 1
    BY <1>2, LockedLess
  <2>4. locked' \ Writable = locked \ Writable
    BY <1>2
  <2> QED BY <1>1, <2>1, <2>2, <2>3, <2>4 DEF CountsSound
<1>3. CASE f \notin Writable
  <2>1. n_read_lock' = n_read_lock - 1 /\ n_write_lock' = n_write_lock
    BY <1>3 DEF Uncount
  <2>2. n_read_lock # 0
    BY <1>3, LockedCount DEF CountsSound, TypeOK
  <2>3. Cardinality(locked' \ Writable)
            = Cardinality(locked \ Writable) - 1
    BY <1>3, LockedLess
  <2>4. locked' \cap Writable = locked \cap Writable
    BY <1>3
  <2>5. n_write_lock' = Cardinality(locked' \cap Writable)
    BY <2>1, <2>4 DEF CountsSound
  <2>6. n_read_lock' >= Cardinality(locked' \ Writable)
    <3> DEFINE n == Cardinality(locked \ Writable)
    <3>1. n_read_lock \in Int /\ n \in Nat /\ n_read_lock >= n
      BY LockedCount DEF TypeOK, CountsSound
    <3>2. Cardinality(locked' \ Writable) = n - 1
      BY <2>3
    <3> HIDE DEF n
    <3> QED BY <2>1, <3>1, <3>2
  <2> QED BY <1>1, <2>1, <2>2, <2>5, <2>6 DEF CountsSound
<1> QED BY <1>2, <1>3

LEMMA ReleaseStep ==
    ASSUME Bkl, IInv, TypeOK', NEW p \in Proc, ReleaseSection(p)
    PROVE  IInv'
<1> USE DEF IInv
<1>1. /\ pc[p] = "release" /\ bkl = p /\ pc' = [pc EXCEPT ![p] = "user"]
      /\ my_ticket' = [my_ticket EXCEPT ![p] = 0]
      /\ filp' = [filp EXCEPT ![p] = Nil]
      /\ locked' = locked \ {filp[p]}
      /\ UNCHANGED <<ticket_head, ticket_tail, opened>>
  BY DEF ReleaseSection, At, Return, GoTo
<1>2. \A q \in Proc \ {p} : pc[q] \in {"user", "spin"}
  BY <1>1, OneInDriver
<1>3. CountsSound' /\ MutualExclusion'
  BY <1>1, DropLock DEF ReleaseSection, FileInv
<1>4. KernelInv' /\ FileInv' /\ TestInv'
  BY <1>1, <1>2 DEF KernelInv, FileInv, TestInv, TypeOK
<1>5. TicketInv'
  BY <1>1 DEF TicketInv, Ticketed, Waiting, TypeOK
<1> QED BY <1>3, <1>4, <1>5

\* A new ticket is later than every outstanding one.
LEMMA TicketStep ==
    ASSUME Bkl, IInv, TypeOK', NEW p \in Proc, NEW f \in File,
           AcquireTicket(p, f)
    PROVE  IInv'
<1> USE DEF IInv
<1>1. /\ pc[p] = "user" /\ bkl = Nil /\ bkl' = p /\ f \in opened
      /\ pc' = [pc EXCEPT ![p] = IF f \in Writable THEN "war" ELSE "ld_nwrite"]
      /\ my_ticket' = [my_ticket EXCEPT ![p] = ticket_head]
      /\ ticket_head' = ticket_head + 1
      /\ filp' = [filp EXCEPT ![p] = f]
      /\ UNCHANGED <<ticket_tail, n_write_lock, n_read_lock, files>>
  BY DEF AcquireTicket, MayCall, KernelLock, GoTo
<1>2. \A q \in Proc : pc[q] \in {"user", "spin"}
  BY <1>1, OneInDriver
<1>3. KernelInv' /\ FileInv' /\ TestInv'
  BY <1>1, <1>2 DEF KernelInv, FileInv, TestInv, TypeOK
<1>4. TicketInv'
  <2>1. \A q \in Proc \ {p} : Ticketed(q)' =>
            Ticketed(q) /\ my_ticket'[q] = my_ticket[q]
    BY <1>1 DEF Ticketed, Waiting, TypeOK
  <2>2. my_ticket'[p] = ticket_head
    BY <1>1 DEF TypeOK
  <2> QED BY <1>1, <2>1, <2>2 DEF TicketInv, TypeOK
<1>5. CountsSound' /\ MutualExclusion'
  BY <1>1 DEF CountsSound, MutualExclusion
<1> QED BY <1>3, <1>4, <1>5

\* The other calls that leave counts and locked files alone.
LEMMA QuietCall ==
    ASSUME Bkl, IInv, TypeOK', NEW p \in Proc, NEW f \in File,
           Open(p, f) \/ AcquireOwnWrite(p, f) \/ ReleaseTest(p, f)
    PROVE  IInv'
<1> USE DEF IInv
<1>1. CASE Open(p, f)
  <2>1. /\ f \notin opened /\ opened' = opened \cup {f}
        /\ UNCHANGED <<device, pc, filp, my_ticket, bkl>>
    BY <1>1 DEF Open
  <2>2. locked' = locked
    BY <1>1, <2>1 DEF Open, FileInv
  <2>3. KernelInv' /\ FileInv' /\ TestInv'
    BY <2>1, <2>2 DEF KernelInv, FileInv, TestInv
  <2>4. TicketInv' /\ CountsSound' /\ MutualExclusion'
    BY <2>1, <2>2 DEF TicketInv, Ticketed, Waiting, CountsSound, MutualExclusion
  <2> QED BY <2>3, <2>4
<1>2. ASSUME NEW r, Return(p, r), pc[p] = "user", bkl = Nil,
             UNCHANGED <<device, files>>
      PROVE  IInv'
  <2>1. pc' = pc /\ filp' = [filp EXCEPT ![p] = Nil] /\ bkl' = Nil
        /\ my_ticket' = [my_ticket EXCEPT ![p] = 0]
    BY <1>2 DEF Return, GoTo, TypeOK
  <2>2. FileInv' /\ TestInv' /\ TicketInv'
    BY <1>2, <2>1 DEF FileInv, TestInv, TicketInv, Ticketed, Waiting, TypeOK
  <2>3. CountsSound' /\ MutualExclusion'
    BY <1>2 DEF CountsSound, MutualExclusion
  <2>4. KernelInv'
    BY <1>2, <2>1 DEF KernelInv
  <2> QED BY <2>2, <2>3, <2>4
<1>3. CASE AcquireOwnWrite(p, f)
  BY <1>2, <1>3 DEF AcquireOwnWrite, MayCall
<1>4. CASE ReleaseTest(p, f) /\ f \notin locked
  BY <1>2, <1>4 DEF ReleaseTest, MayCall
<1>5. CASE ReleaseTest(p, f) /\ f \in locked
  <2>1. /\ pc[p] = "user" /\ bkl = Nil /\ bkl' = p /\ f \in opened
        /\ pc' = [pc EXCEPT ![p] = "release"]
        /\ filp' = [filp EXCEPT ![p] = f]
        /\ UNCHANGED <<device, files, my_ticket>>
    BY <1>5 DEF ReleaseTest, MayCall, KernelLock, GoTo
  <2>2. \A q \in Proc : pc[q] \in {"user", "spin"}
    BY <2>1, OneInDriver
  <2>3. KernelInv' /\ FileInv' /\ TestInv'
    BY <1>5, <2>1, <2>2 DEF KernelInv, FileInv, TestInv, TypeOK
  <2>4. TicketInv'
    BY <2>1 DEF TicketInv, Ticketed, Waiting, TypeOK
  <2>5. CountsSound' /\ MutualExclusion'
    BY <2>1 DEF CountsSound, MutualExclusion
  <2> QED BY <2>3, <2>4, <2>5
<1> QED BY <1>1, <1>3, <1>4, <1>5

\* TRYACQUIRE decides and locks in one section, with nobody else in the
\* driver: the lock it takes conflicts with none.
LEMMA TryStep ==
    ASSUME Bkl, IInv, TypeOK', NEW p \in Proc, NEW f \in File,
           TryAcquire(p, f)
    PROVE  IInv'
<1> USE DEF IInv
<1>1. /\ pc[p] = "user" /\ bkl = Nil /\ f \in opened
      /\ UNCHANGED <<ticket_head, ticket_tail, opened>>
      /\ \E r : Return(p, r)
  BY DEF TryAcquire, MayCall
<1>2. /\ pc' = pc /\ bkl' = Nil
      /\ filp' = [filp EXCEPT ![p] = Nil]
      /\ my_ticket' = [my_ticket EXCEPT ![p] = 0]
  BY <1>1 DEF Return, GoTo, TypeOK
<1>3. \A q \in Proc : pc[q] \in {"user", "spin"}
  BY <1>1, OneInDriver
<1>4. locked' \subseteq opened
  BY <1>1 DEF TryAcquire, FileInv
<1>5. KernelInv' /\ FileInv' /\ TestInv'
  BY <1>1, <1>2, <1>3, <1>4 DEF KernelInv, FileInv, TestInv, TypeOK
<1>6. TicketInv'
  BY <1>1, <1>2 DEF TicketInv, Ticketed, Waiting, TypeOK
<1>7. CountsSound' /\ MutualExclusion'
  <2>1. CASE Busy(f)
    BY <2>1 DEF TryAcquire, CountsSound, MutualExclusion
  <2>2. CASE ~Busy(f)
    <3>1. n_write_lock = 0 /\ (f \in Writable => n_read_lock <= 0)
      BY <2>2, LockedCount DEF Busy, CountsSound, TypeOK
    <3>2. locked \cap Writable = {}
      BY <3>1, LockedCount DEF CountsSound
    <3>3. f \in Writable => locked = {}
      <4> SUFFICES ASSUME f \in Writable PROVE locked \ Writable = {}
        BY <3>2
      <4> DEFINE n == Cardinality(locked \ Writable)
      <4>1. n \in Nat /\ n_read_lock >= n /\ n_read_lock \in Int
        BY LockedCount DEF CountsSound, TypeOK
      <4> HIDE DEF n
      <4>2. n = 0
        BY <3>1, <4>1
      <4> QED BY <4>2, LockedCount DEF n
    <3>4. locked' = locked \cup {f}
      BY <2>2 DEF TryAcquire
    <3>5. MutualExclusion'
      BY <3>2, <3>3, <3>4 DEF MutualExclusion
    <3>6. CASE f \in Writable
      <4>1. /\ n_write_lock' = n_write_lock + 1 /\ n_read_lock' = n_read_lock
            /\ locked' \ Writable = locked \ Writable
        BY <2>2, <3>4, <3>6 DEF TryAcquire
      <4>2. Cardinality(locked' \cap Writable)
                = Cardinality(locked \cap Writable) + 1
        BY <3>3, <3>4, <3>6, LockedMore
      <4> QED BY <3>5, <4>1, <4>2 DEF CountsSound
    <3>7. CASE f \notin Writable
      <4>1. /\ n_read_lock' = n_read_lock + 1 /\ n_write_lock' = n_write_lock
            /\ locked' \cap Writable = locked \cap Writable
        BY <2>2, <3>4, <3>7 DEF TryAcquire
      <4>2. n_write_lock' = Cardinality(locked' \cap Writable)
        BY <4>1 DEF CountsSound
      <4> DEFINE n == Cardinality(locked \ Writable)
                 m == Cardinality(locked' \ Writable)
      <4>3. m <= n + 1
        BY <3>4, <3>7, LockedMore
      <4>4. n \in Nat /\ n_read_lock >= n /\ n_read_lock \in Int
        BY LockedCount DEF CountsSound, TypeOK
      <4>5. m \in Nat
        BY FileAssumption, FS_Subset, FS_CardinalityType DEF TypeOK
      <4> HIDE DEF n, m
      <4>6. n_read_lock' >= m
        BY <4>1, <4>3, <4>4, <4>5
      <4> QED BY <3>5, <4>2, <4>6 DEF CountsSound, m
    <3> QED BY <3>6, <3>7
  <2> QED BY <2>1, <2>2
<1> QED BY <1>5, <1>6, <1>7

\* close() is not serialised with the ioctls, but it only lowers counts.
LEMMA CloseStep ==
    ASSUME Bkl, IInv, TypeOK', NEW p \in Proc, NEW f \in File,
           CloseLast(p, f)
    PROVE  IInv'
<1> USE DEF IInv
<1>1. /\ pc[p] = "user" /\ opened' = opened \ {f} /\ locked' = locked \ {f}
      /\ \A q \in Proc : filp[q] # f
      /\ UNCHANGED <<ticket_head, ticket_tail, pc, filp, my_ticket, bkl>>
  BY DEF CloseLast
<1>2. /\ CountsSound' /\ MutualExclusion'
      /\ n_read_lock = 0 => n_read_lock' = 0
      /\ n_write_lock = 0 => n_write_lock' = 0
  <2>1. CASE f \in locked
    BY <2>1, <1>1, DropLock DEF CloseLast
  <2>2. CASE f \notin locked
    <3>1. locked' = locked /\ UNCHANGED device
      BY <2>2, <1>1 DEF CloseLast
    <3> QED BY <3>1 DEF CountsSound, MutualExclusion
  <2> QED BY <2>1, <2>2
<1>3. KernelInv' /\ FileInv'
  BY <1>1 DEF KernelInv, FileInv
<1>4. TicketInv'
  BY <1>1 DEF TicketInv, Ticketed, Waiting
<1>5. TestInv'
  BY <1>1, <1>2 DEF TestInv
<1> QED BY <1>2, <1>3, <1>4, <1>5

LEMMA InvStep == ASSUME Bkl PROVE IInv /\ [Next]_vars => IInv'
<1> SUFFICES ASSUME IInv, [Next]_vars PROVE IInv'
  OBVIOUS
<1>0. TypeOK'
  BY TypeStep DEF IInv
<1>1. ASSUME NEW p \in Proc, KernelStep(p) PROVE IInv'
  BY <1>0, <1>1, QuietStep, GrantStep, AdvanceStep, ReleaseStep DEF KernelStep
<1>2. ASSUME NEW p \in Proc, NEW f \in File, UserCall(p, f) PROVE IInv'
  BY <1>0, <1>2, TicketStep, QuietCall, TryStep, CloseStep DEF UserCall
<1>3. CASE UNCHANGED vars
  BY <1>0, <1>3 DEF IInv, KernelInv, FileInv, TicketInv, TestInv,
        CountsSound, MutualExclusion, Ticketed, Waiting
<1> QED BY <1>1, <1>2, <1>3 DEF Next

\* The driver starts with everything free.
LEMMA InvInit == Init => IInv
<1> SUFFICES ASSUME Init PROVE IInv
  OBVIOUS
<1>1. TypeOK
  BY FileAssumption, EnvAssumption DEF Init, TypeOK, Labels, Results
<1>2. CountsSound
  <2>1. locked \cap Writable = {} /\ locked \ Writable = {}
    BY DEF Init
  <2> QED BY <2>1, FS_EmptySet DEF Init, CountsSound
<1>3. KernelInv /\ FileInv /\ TicketInv /\ TestInv /\ MutualExclusion
  BY DEF Init, KernelInv, FileInv, TicketInv, TestInv, MutualExclusion,
        Ticketed, Waiting
<1> QED BY <1>1, <1>2, <1>3 DEF IInv

\* On the kernel the driver was written for, a write lock excludes every
\* other lock of the ramdisk, whatever calls the processes make, on shared
\* descriptors too.
THEOREM WriteLockExcludes == ASSUME Bkl PROVE Spec => []MutualExclusion
<1>1. IInv => MutualExclusion
  BY DEF IInv
<1> QED BY <1>1, InvInit, InvStep, PTL DEF Spec

\* And the two counts never miss a lock that some file holds.
THEOREM CountsNeverMissALock == ASSUME Bkl PROVE Spec => []CountsSound
<1>1. IInv => CountsSound
  BY DEF IInv
<1> QED BY <1>1, InvInit, InvStep, PTL DEF Spec

-----------------------------------------------------------------------------
(* Ticket order, with or without a kernel lock around the ioctls.          *)

\* Tickets are distinct, and who has passed the test holds the one served.
OrderInv ==
    /\ TypeOK
    /\ TicketInv
    /\ \A p \in Proc :
          pc[p] \in {"grant", "advance"} => my_ticket[p] = ticket_tail

\* A step that hands out no ticket, serves none and moves no other process
\* keeps the order, unless it lets a process pass the test.
LEMMA OrderKept ==
    ASSUME OrderInv, TypeOK', NEW p \in Proc,
           UNCHANGED <<ticket_head, ticket_tail>>,
           \A q \in Proc \ {p} :
              pc'[q] = pc[q] /\ my_ticket'[q] = my_ticket[q],
           Ticketed(p)' => Ticketed(p) /\ my_ticket'[p] = my_ticket[p],
           pc'[p] \in {"grant", "advance"} => my_ticket[p] = ticket_tail
    PROVE  OrderInv'
<1>1. \A q \in Proc : Ticketed(q)' => Ticketed(q) /\ my_ticket'[q] = my_ticket[q]
  BY DEF Ticketed, Waiting
<1>2. TicketInv'
  BY <1>1 DEF OrderInv, TicketInv
<1>3. \A q \in Proc :
          pc'[q] \in {"grant", "advance"} => my_ticket'[q] = ticket_tail'
  BY DEF OrderInv, Ticketed, Waiting
<1> QED BY <1>2, <1>3 DEF OrderInv

LEMMA OrderStep == OrderInv /\ [Next]_vars => OrderInv'
<1> SUFFICES ASSUME OrderInv, [Next]_vars PROVE OrderInv'
  OBVIOUS
<1>0. TypeOK /\ TypeOK'
  BY TypeStep DEF OrderInv
<1>1. ASSUME NEW p \in Proc, KernelStep(p) PROVE OrderInv'
  <2>1. CASE AcquireWarCheck(p)
    BY <1>0, <2>1, OrderKept DEF AcquireWarCheck, At, Return, GoTo, TypeOK,
          Ticketed, Waiting
  <2>2. CASE LoadNRead(p) \/ LoadNWrite(p) \/ LoadTicket(p)
    BY <1>0, <2>2, OrderKept DEF LoadNRead, LoadNWrite, LoadTicket, Load, At,
          Wait, GoTo, TypeOK, Ticketed, Waiting
  <2>3. CASE Reschedule(p)
    BY <1>0, <2>3, OrderKept DEF Reschedule, GoTo, TypeOK, Ticketed, Waiting
  <2>4. CASE Grant(p)
    BY <1>0, <2>4, OrderKept DEF Grant, At, GoTo, TypeOK, Ticketed, Waiting,
          OrderInv
  <2>5. CASE AdvanceTail(p)
    <3>1. /\ pc[p] = "advance" /\ pc' = [pc EXCEPT ![p] = "user"]
          /\ ticket_tail' = ticket_tail + 1 /\ ticket_head' = ticket_head
          /\ my_ticket' = [my_ticket EXCEPT ![p] = 0]
          /\ my_ticket[p] = ticket_tail
      BY <2>5 DEF AdvanceTail, At, Return, GoTo, OrderInv
    <3>2. \A q \in Proc : Ticketed(q)' =>
             q # p /\ Ticketed(q) /\ my_ticket'[q] = my_ticket[q]
      BY <1>0, <3>1 DEF Ticketed, Waiting, TypeOK
    <3>3. \A q \in Proc \ {p} : Ticketed(q) =>
             my_ticket[q] # ticket_tail /\ ticket_tail + 1 <= my_ticket[q]
      BY <1>0, <3>1 DEF OrderInv, TicketInv, Ticketed, TypeOK
    <3>4. TicketInv'
      <4>1. ticket_tail' <= ticket_head'
        BY <1>0, <3>1 DEF OrderInv, TicketInv, Ticketed, TypeOK
      <4> QED BY <3>1, <3>2, <3>3, <4>1 DEF OrderInv, TicketInv
    <3>5. \A q \in Proc : pc'[q] \notin {"grant", "advance"}
      BY <1>0, <3>1, <3>3 DEF OrderInv, Ticketed, Waiting, TypeOK
    <3> QED BY <1>0, <3>4, <3>5 DEF OrderInv
  <2>6. CASE ReleaseSection(p)
    BY <1>0, <2>6, OrderKept DEF ReleaseSection, At, Return, GoTo, TypeOK,
          Ticketed, Waiting
  <2> QED BY <1>1, <2>1, <2>2, <2>3, <2>4, <2>5, <2>6 DEF KernelStep
<1>2. ASSUME NEW p \in Proc, NEW f \in File, UserCall(p, f) PROVE OrderInv'
  <2>1. CASE Open(p, f) \/ CloseLast(p, f)
    BY <1>0, <2>1, OrderKept DEF Open, CloseLast, Ticketed, Waiting
  <2>2. CASE AcquireOwnWrite(p, f)
    BY <1>0, <2>2, OrderKept DEF AcquireOwnWrite, Return, GoTo, TypeOK,
          Ticketed, Waiting
  <2>3. CASE AcquireTicket(p, f)
    <3>1. /\ pc' = [pc EXCEPT ![p] =
                        IF f \in Writable THEN "war" ELSE "ld_nwrite"]
          /\ my_ticket' = [my_ticket EXCEPT ![p] = ticket_head]
          /\ ticket_head' = ticket_head + 1 /\ ticket_tail' = ticket_tail
      BY <2>3 DEF AcquireTicket, GoTo
    <3>2. \A q \in Proc \ {p} :
             /\ pc'[q] = pc[q] /\ my_ticket'[q] = my_ticket[q]
             /\ Ticketed(q)' => Ticketed(q)
      BY <1>0, <3>1 DEF Ticketed, Waiting, TypeOK
    <3>3. my_ticket'[p] = ticket_head /\ pc'[p] \notin {"grant", "advance"}
      BY <1>0, <3>1 DEF TypeOK
    <3>4. TicketInv'
      BY <1>0, <3>1, <3>2, <3>3 DEF OrderInv, TicketInv, TypeOK
    <3> QED BY <1>0, <3>1, <3>2, <3>3, <3>4 DEF OrderInv
  <2>4. CASE TryAcquire(p, f)
    <3>1. \E r : Return(p, r)
      BY <2>4 DEF TryAcquire
    <3> QED BY <1>0, <2>4, <3>1, OrderKept DEF TryAcquire, Return, GoTo,
          TypeOK, Ticketed, Waiting
  <2>5. CASE ReleaseTest(p, f)
    BY <1>0, <2>5, OrderKept DEF ReleaseTest, Return, GoTo, TypeOK,
          Ticketed, Waiting
  <2> QED BY <1>2, <2>1, <2>2, <2>3, <2>4, <2>5 DEF UserCall
<1>3. CASE UNCHANGED vars
  BY <1>0, <1>3 DEF OrderInv, TicketInv, Ticketed, Waiting
<1> QED BY <1>1, <1>2, <1>3 DEF Next

\* Requests are served in ticket order on every kernel: the test of
\* CONDITION is unsynchronised, but nobody else can advance the tail while
\* the process it serves has not.
THEOREM ServedInOrder == Spec => NoOvertaking
<1>1. Init => OrderInv
  <2> SUFFICES ASSUME Init PROVE OrderInv
    OBVIOUS
  <2>1. TypeOK
    BY FileAssumption, EnvAssumption DEF Init, TypeOK, Labels, Results
  <2> QED BY <2>1 DEF Init, OrderInv, TicketInv, Ticketed, Waiting
<1>2. OrderInv /\ [Next]_vars => [GrantsOldest]_vars
  <2> SUFFICES ASSUME OrderInv, Next PROVE GrantsOldest
    OBVIOUS
  <2>1. TypeOK
    BY DEF OrderInv
  <2>2. ASSUME NEW p \in Proc, pc[p] = "grant",
               NEW q \in Proc \ {p}, Waiting(q)
        PROVE  my_ticket[p] < my_ticket[q]
    <3>1. my_ticket[p] = ticket_tail /\ Ticketed(p) /\ Ticketed(q)
      BY <2>2 DEF OrderInv, Ticketed, Waiting
    <3>2. ticket_tail <= my_ticket[q] /\ my_ticket[q] # my_ticket[p]
      BY <2>2, <3>1 DEF OrderInv, TicketInv
    <3> QED BY <2>1, <3>1, <3>2 DEF TypeOK
  <2>3. ASSUME n_write_lock' + n_read_lock' > n_write_lock + n_read_lock,
               pc' = pc, NEW q \in Proc
        PROVE  ~Waiting(q)
    <3>1. ASSUME NEW p \in Proc, KernelStep(p) PROVE FALSE
      BY <2>1, <2>3, <3>1 DEF KernelStep, AcquireWarCheck, LoadNRead,
            LoadNWrite, LoadTicket, Load, At, Wait, Reschedule, Grant,
            AdvanceTail, ReleaseSection, Return, GoTo, TypeOK
    <3>2. ASSUME NEW p \in Proc, NEW f \in File, UserCall(p, f)
          PROVE  ticket_head = ticket_tail
      <4>1. CASE CloseLast(p, f)
        BY <2>1, <2>3, <4>1 DEF CloseLast, Uncount, TypeOK
      <4>2. CASE Open(p, f) \/ AcquireOwnWrite(p, f) \/ AcquireTicket(p, f)
                 \/ ReleaseTest(p, f)
        BY <2>1, <2>3, <4>2 DEF Open, AcquireOwnWrite, AcquireTicket,
              ReleaseTest, TypeOK
      <4>3. CASE TryAcquire(p, f)
        BY <2>1, <2>3, <4>3 DEF TryAcquire, Busy, TypeOK
      <4> QED BY <3>2, <4>1, <4>2, <4>3 DEF UserCall
    <3>4. ticket_head = ticket_tail
      BY <3>1, <3>2 DEF Next
    <3>5. Waiting(q) => ticket_tail <= my_ticket[q] /\ my_ticket[q] < ticket_head
      BY DEF OrderInv, TicketInv, Ticketed
    <3> QED BY <2>1, <3>4, <3>5 DEF TypeOK
  <2> QED BY <2>2, <2>3 DEF GrantsOldest
<1> QED BY <1>1, <1>2, OrderStep, PTL DEF Spec, NoOvertaking

-----------------------------------------------------------------------------
(* The two -EDEADLK checks, with or without a kernel lock.                 *)

\* The removal loop adds nobody to the list.
LEMMA RemovePidContains ==
    ASSUME NEW s \in Seq(Proc), NEW p \in Proc, NEW q \in Proc,
           Contains(RemovePid(s, p), q)
    PROVE  Contains(s, q)
<1> DEFINE first == {i \in 2..Len(s) :
                        s[i] = p /\ \A j \in 1..(i - 1) : s[j] # p}
<1>1. CASE first = {}
  BY <1>1 DEF RemovePid
<1>2. CASE first # {}
  <2>1. PICK i \in 2..Len(s) : RemovePid(s, p) = RemoveAt(s, i)
    BY <1>2 DEF RemovePid
  <2>2. PICK j \in 1..Len(RemoveAt(s, i)) : RemoveAt(s, i)[j] = q
    BY <2>1 DEF Contains
  <2>3. \E k \in 1..Len(s) : s[k] = q
    BY <2>2 DEF RemoveAt
  <2> QED BY <2>3 DEF Contains
<1> QED BY <1>1, <1>2

\* A process that waits passed the first check when it took its ticket, and
\* the second one if it is a writer: both still hold.
ChecksInv ==
    \A p \in Proc : Waiting(p) =>
        /\ write_lock_pid # p
        /\ filp[p] \in Writable /\ pc[p] # "war" =>
              ~Contains(read_lock_pid_list, p)

\* A step that records no holder keeps the checks of everybody but p, and of
\* p as well unless p takes a ticket or passes the second check.
LEMMA ChecksKept ==
    ASSUME TypeOK, ChecksInv, NEW p \in Proc,
           UNCHANGED <<write_lock_pid, read_lock_pid_list>>,
           \A q \in Proc \ {p} : pc'[q] = pc[q] /\ filp'[q] = filp[q],
           Waiting(p)' => /\ Waiting(p) /\ filp'[p] = filp[p]
                          /\ pc[p] = "war" => pc'[p] = "war"
    PROVE  ChecksInv'
  BY DEF ChecksInv, Waiting

LEMMA ChecksStep == TypeOK /\ ChecksInv /\ [Next]_vars => ChecksInv'
<1> SUFFICES ASSUME TypeOK, ChecksInv, [Next]_vars PROVE ChecksInv'
  OBVIOUS
<1>1. ASSUME NEW p \in Proc, KernelStep(p) PROVE ChecksInv'
  <2>1. CASE AcquireWarCheck(p)
    <3>1. CASE Contains(read_lock_pid_list, p)
      BY <2>1, <3>1, ChecksKept DEF AcquireWarCheck, Return, GoTo, TypeOK,
            Waiting
    <3>2. CASE ~Contains(read_lock_pid_list, p)
      BY <2>1, <3>2 DEF AcquireWarCheck, At, GoTo, TypeOK, ChecksInv, Waiting
    <3> QED BY <3>1, <3>2
  <2>2. CASE LoadNRead(p) \/ LoadNWrite(p) \/ LoadTicket(p)
    BY <2>2, ChecksKept DEF LoadNRead, LoadNWrite, LoadTicket, Load, At, Wait,
          GoTo, TypeOK, Waiting
  <2>3. CASE Reschedule(p)
    BY <2>3, ChecksKept DEF Reschedule, GoTo, TypeOK, Waiting
  <2>4. CASE Grant(p)
    <3>1. /\ pc' = [pc EXCEPT ![p] = "advance"] /\ filp' = filp
          /\ write_lock_pid' \in {write_lock_pid, p}
          /\ read_lock_pid_list'
                \in {read_lock_pid_list, Append(read_lock_pid_list, p)}
      BY <2>4 DEF Grant, GoTo
    <3>2. \A q \in Proc \ {p} : Contains(read_lock_pid_list', q)
                                    => Contains(read_lock_pid_list, q)
      BY <3>1 DEF Contains, TypeOK
    <3>3. \A q \in Proc : Waiting(q)' =>
             q # p /\ Waiting(q) /\ pc'[q] = pc[q]
      BY <3>1 DEF Waiting, TypeOK
    <3> QED BY <3>1, <3>2, <3>3 DEF ChecksInv
  <2>5. CASE AdvanceTail(p)
    BY <2>5, ChecksKept DEF AdvanceTail, Return, GoTo, TypeOK, Waiting
  <2>6. CASE ReleaseSection(p)
    BY <2>6, ChecksKept DEF ReleaseSection, Return, GoTo, TypeOK, Waiting
  <2> QED BY <1>1, <2>1, <2>2, <2>3, <2>4, <2>5, <2>6 DEF KernelStep
<1>2. ASSUME NEW p \in Proc, NEW f \in File, UserCall(p, f) PROVE ChecksInv'
  <2>1. CASE Open(p, f)
    BY <2>1, ChecksKept DEF Open, Waiting
  <2>2. CASE AcquireOwnWrite(p, f)
    BY <2>2, ChecksKept DEF AcquireOwnWrite, Return, GoTo, TypeOK, Waiting
  <2>3. CASE AcquireTicket(p, f)
    <3>1. /\ filp' = [filp EXCEPT ![p] = f]
          /\ pc' = [pc EXCEPT ![p] =
                        IF f \in Writable THEN "war" ELSE "ld_nwrite"]
          /\ write_lock_pid # p
          /\ UNCHANGED <<write_lock_pid, read_lock_pid_list>>
      BY <2>3 DEF AcquireTicket, GoTo
    <3> QED BY <3>1 DEF ChecksInv, Waiting, TypeOK
  <2>4. CASE TryAcquire(p, f)
    <3>1. \E r : Return(p, r)
      BY <2>4 DEF TryAcquire
    <3> QED BY <2>4, <3>1, ChecksKept DEF TryAcquire, Return, GoTo, TypeOK,
          Waiting
  <2>5. CASE ReleaseTest(p, f)
    BY <2>5, ChecksKept DEF ReleaseTest, Return, GoTo, TypeOK, Waiting
  <2>6. CASE CloseLast(p, f)
    <3>1. /\ pc' = pc /\ filp' = filp
          /\ write_lock_pid' \in {write_lock_pid, Nil}
          /\ read_lock_pid_list'
                \in {read_lock_pid_list, RemovePid(read_lock_pid_list, p)}
      BY <2>6 DEF CloseLast
    <3>2. \A q \in Proc : Contains(read_lock_pid_list', q)
                              => Contains(read_lock_pid_list, q)
      BY <3>1, RemovePidContains DEF TypeOK
    <3> QED BY <3>1, <3>2, ProcAssumption DEF ChecksInv, Waiting
  <2> QED BY <1>2, <2>1, <2>2, <2>3, <2>4, <2>5, <2>6 DEF UserCall
<1>3. CASE UNCHANGED vars
  BY <1>3 DEF ChecksInv, Waiting
<1> QED BY <1>1, <1>2, <1>3 DEF Next

\* On every kernel: the driver never lets a process wait for a lock that its
\* own pid bookkeeping says the process has, although other processes are
\* recorded and removed while it waits.
THEOREM NoKnownSelfDeadlock == Spec => []KnownHolderNeverWaits
<1>1. Init => TypeOK
  BY FileAssumption, EnvAssumption DEF Init, TypeOK, Labels, Results
<1>2. Init => ChecksInv
  BY DEF Init, ChecksInv, Waiting
<1>3. ChecksInv => KnownHolderNeverWaits
  BY DEF ChecksInv, KnownHolderNeverWaits
<1> QED BY <1>1, <1>2, <1>3, TypeStep, ChecksStep, PTL DEF Spec
=============================================================================
