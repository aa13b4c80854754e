------------------------- MODULE OsprdAccessProofs -------------------------
(* Proofs about OsprdAccess: what osprdaccess processes may rely on, for   *)
(* every number of them, every mix of options and every size of the disk.  *)
EXTENDS OsprdAccess, OsprdProofs

USE DEF device, files, vars, client, avars

\* The files a client uses, and what is known of them.
Mine(p) == {Args[p][i].file : i \in DOMAIN Args[p]}

LEMMA ArgFacts ==
    ASSUME NEW p \in Proc
    PROVE  /\ \A i \in DOMAIN Args[p] : /\ i \in Nat \ {0} /\ i <= Len(Args[p])
                                       /\ Args[p][i].file \in File \cup {Nil}
           /\ Len(Args[p]) \in Nat \ {0} /\ DOMAIN Args[p] = 1..Len(Args[p])
           /\ Mine(p) \subseteq File \cup {Nil}
<1>1. Args[p] \in Seq(Argument) /\ Args[p] # <<>>
  BY ClientAssumption
<1>2. Len(Args[p]) \in Nat \ {0} /\ DOMAIN Args[p] = 1..Len(Args[p])
  BY <1>1
<1>3. \A i \in 1..Len(Args[p]) : Args[p][i].file \in File \cup {Nil}
  <2>1. \A a \in Argument : a.file \in File \cup {Nil}
    BY DEF Argument
  <2>2. \A i \in 1..Len(Args[p]) : Args[p][i] \in Argument
    BY <1>1, <1>2
  <2> QED BY <2>1, <2>2
<1> QED BY <1>2, <1>3 DEF Mine

\* A client is always at one of its arguments.
LEMMA HereFacts ==
    ASSUME ATypeOK, NEW p \in Proc
    PROVE  round[p] \in DOMAIN Args[p] /\ Here(p) \in Mine(p)
           /\ Here(p) \in File \cup {Nil}
<1>1. round[p] \in Nat \ {0} /\ round[p] <= Len(Args[p])
  BY DEF ATypeOK
<1>2. round[p] \in DOMAIN Args[p]
  BY <1>1, ArgFacts
<1> QED BY <1>2, ArgFacts DEF Mine, Here

\* Every client step is a step, or a stutter, of the driver, so the driver's
\* invariants hold here as well.
LEMMA StepOfDriver == TypeOK /\ ATypeOK /\ [ANext]_avars => [Next]_vars
<1> SUFFICES ASSUME TypeOK, ATypeOK, [ANext]_avars PROVE [Next]_vars
  OBVIOUS
<1>1. ASSUME NEW p \in Proc, InDriver(p) PROVE Next
  BY <1>1 DEF InDriver, Next
<1>2. ASSUME NEW p \in Proc, Program(p) PROVE [Next]_vars
  <2>1. CASE LockResult(p) \/ TransferSector(p) \/ TransferEnd(p)
    BY <2>1 DEF LockResult, TransferSector, TransferEnd
  <2>2. CASE OpenDevice(p)
    BY <2>2, HereFacts DEF OpenDevice, Next, UserCall
  <2>3. CASE LockDevice(p)
    <3>1. CASE UNCHANGED vars
      BY <3>1
    <3>2. CASE \/ AcquireOwnWrite(p, Here(p)) \/ AcquireTicket(p, Here(p))
               \/ TryAcquire(p, Here(p))
      <4>1. Here(p) \in File
        BY <3>2 DEF AcquireOwnWrite, AcquireTicket, TryAcquire, MayCall, TypeOK
      <4> QED BY <3>2, <4>1 DEF Next, UserCall
    <3> QED BY <2>3, <3>1, <3>2 DEF LockDevice
  <2>4. CASE ExitClose(p)
    <3>1. CASE UNCHANGED vars
      BY <3>1
    <3>2. ASSUME NEW i \in StillOpen(p), CloseLast(p, Args[p][i].file)
          PROVE  Next
      <4>1. Args[p][i].file \in File
        BY DEF StillOpen, TypeOK
      <4> QED BY <3>2, <4>1 DEF Next, UserCall
    <3> QED BY <2>4, <3>1, <3>2 DEF ExitClose
  <2> QED BY <1>2, <2>1, <2>2, <2>3, <2>4 DEF Program
<1>3. ASSUME NEW p \in Proc, Kill(p) \/ Elsewhere(p) PROVE UNCHANGED vars
  BY <1>3 DEF Kill, Elsewhere
<1> QED BY <1>1, <1>2, <1>3 DEF ANext

\* A file belongs to one client.
LEMMA OwnFile ==
    ASSUME NEW p \in Proc, NEW q \in Proc, NEW f \in File,
           f \in Mine(p), f \in Mine(q)
    PROVE  p = q
<1>1. \A r \in Proc : \A i \in DOMAIN Args[r] :
         Args[r][i].file # Nil => Users[Args[r][i].file] = {r}
  BY ClientAssumption
<1>2. f # Nil
  BY ProcAssumption
<1>3. Users[f] = {p} /\ Users[f] = {q}
  BY <1>1, <1>2 DEF Mine
<1> QED BY <1>3

-----------------------------------------------------------------------------
(* Types.                                                                   *)

\* Going around keeps a client at one of its arguments.
LEMMA NextDeviceType ==
    ASSUME ATypeOK, NEW p \in Proc, NextDevice(p)
    PROVE  /\ phase' \in [Proc -> Phases] /\ round' \in [Proc -> Nat \ {0}]
           /\ \A q \in Proc : round'[q] <= Len(Args[q])
           /\ \A q \in Proc \ {p} :
                 phase'[q] = phase[q] /\ round'[q] = round[q]
           /\ \/ phase'[p] = "open"
              \/ /\ phase'[p] = "transfer" /\ round'[p] = round[p]
                 /\ round[p] = Len(Args[p])
<1>1. CASE round[p] < Len(Args[p]) /\ round' = [round EXCEPT ![p] = @ + 1]
           /\ MoveTo(p, "open")
  BY <1>1, ArgFacts DEF ATypeOK, MoveTo, Phases
<1>2. CASE UNCHANGED round /\ MoveTo(p, "transfer") /\ round[p] = Len(Args[p])
  BY <1>2 DEF ATypeOK, MoveTo, Phases
<1> QED BY <1>1, <1>2 DEF NextDevice

LEMMA ATypeStep == TypeOK /\ ATypeOK /\ [ANext]_avars => ATypeOK'
<1> SUFFICES ASSUME TypeOK, ATypeOK, [ANext]_avars PROVE ATypeOK'
  OBVIOUS
<1>1. ASSUME NEW p \in Proc, InDriver(p) PROVE ATypeOK'
  BY <1>1 DEF InDriver, ATypeOK, TypeOK
<1>2. ASSUME NEW p \in Proc, NextDevice(p), UNCHANGED <<data, pos, buf, abandoned>>
      PROVE  ATypeOK'
  BY <1>2, NextDeviceType DEF ATypeOK
<1>3. ASSUME NEW p \in Proc, NEW ph \in Phases, MoveTo(p, ph) \/ UNCHANGED phase,
             UNCHANGED <<data, round, pos, buf, abandoned>>
      PROVE  ATypeOK'
  BY <1>3 DEF ATypeOK, MoveTo
<1>4. ASSUME NEW p \in Proc, OpenDevice(p) \/ LockDevice(p) \/ LockResult(p)
             \/ TransferEnd(p) \/ ExitClose(p) \/ Elsewhere(p) \/ Kill(p)
      PROVE  ATypeOK'
  BY <1>2, <1>3, <1>4 DEF OpenDevice, LockDevice, LockResult, TransferEnd,
        ExitClose, Elsewhere, Kill, Phases
<1>5. ASSUME NEW p \in Proc, TransferSector(p) PROVE ATypeOK'
  <2>1. /\ pos[p] \in Nat /\ pos[p] + 1 <= nsectors
        /\ pos' = [pos EXCEPT ![p] = @ + 1] /\ phase' = phase
        /\ round' = round /\ abandoned' = abandoned
    BY <1>5, ClientAssumption DEF TransferSector, ProcessRequest, ATypeOK
  <2>2. pos' \in [Proc -> 0..nsectors] /\ pos[p] \in Sector
    BY <2>1, ClientAssumption DEF Sector, ATypeOK
  <2>3. CASE Here(p) \in Writable
    BY <1>5, <2>1, <2>2, <2>3 DEF TransferSector, ProcessRequest, ATypeOK
  <2>4. CASE Here(p) \notin Writable
    <3>1. /\ buf' = [buf EXCEPT ![p] = Append(@, data[pos[p]])]
          /\ data' = data /\ data[pos[p]] \in Proc \cup {Nil}
      BY <1>5, <2>2, <2>4 DEF TransferSector, ProcessRequest, ATypeOK
    <3>2. Append(buf[p], data[pos[p]]) \in Seq(Proc \cup {Nil})
      BY <3>1 DEF ATypeOK
    <3> QED BY <2>1, <2>2, <3>1, <3>2 DEF ATypeOK
  <2> QED BY <2>3, <2>4
<1>6. CASE UNCHANGED avars
  BY <1>6 DEF ATypeOK
<1> QED BY <1>1, <1>4, <1>5, <1>6 DEF ANext, Program

LEMMA AInitTypes == AInit => TypeOK /\ ATypeOK
<1> SUFFICES ASSUME AInit PROVE TypeOK /\ ATypeOK
  OBVIOUS
<1>1. TypeOK
  BY FileAssumption, EnvAssumption DEF AInit, Init, TypeOK, Labels, Results
<1>2. \A p \in Proc : Len(Args[p]) \in Nat \ {0}
  BY ArgFacts
<1>3. ATypeOK
  BY <1>2, ClientAssumption DEF AInit, ATypeOK, Phases
<1> QED BY <1>1, <1>3

\* The clients' variables keep their types: no transfer leaves the disk.
THEOREM AccessTypes == ASpec => []ATypeOK
<1>1. AInit => TypeOK /\ ATypeOK
  BY AInitTypes
<1>2. TypeOK /\ ATypeOK /\ [ANext]_avars => TypeOK' /\ ATypeOK'
  BY StepOfDriver, TypeStep, ATypeStep
<1> QED BY <1>1, <1>2, PTL DEF ASpec

-----------------------------------------------------------------------------
(* The two counts.                                                          *)

\* Locking a file that is not locked keeps the counts exact.
LEMMA CountLock ==
    ASSUME TypeOK, CountsExact, NEW f \in File \ locked,
           locked' = locked \cup {f},
           IF f \in Writable
              THEN n_write_lock' = n_write_lock + 1 /\ UNCHANGED n_read_lock
              ELSE n_read_lock' = n_read_lock + 1 /\ UNCHANGED n_write_lock
    PROVE  CountsExact'
<1>1. IsFiniteSet(locked \cap Writable) /\ IsFiniteSet(locked \ Writable)
  BY FileAssumption, FS_Subset DEF TypeOK
<1>2. CASE f \in Writable
  <2>1. /\ locked' \cap Writable = (locked \cap Writable) \cup {f}
        /\ locked' \ Writable = locked \ Writable
        /\ f \notin locked \cap Writable
    BY <1>2
  <2>2. Cardinality(locked' \cap Writable) = Cardinality(locked \cap Writable) + 1
    BY <1>1, <2>1, FS_AddElement
  <2> QED BY <1>2, <2>1, <2>2 DEF CountsExact
<1>3. CASE f \notin Writable
  <2>1. /\ locked' \ Writable = (locked \ Writable) \cup {f}
        /\ locked' \cap Writable = locked \cap Writable
        /\ f \notin locked \ Writable
    BY <1>3
  <2>2. Cardinality(locked' \ Writable) = Cardinality(locked \ Writable) + 1
    BY <1>1, <2>1, FS_AddElement
  <2> QED BY <1>3, <2>1, <2>2 DEF CountsExact
<1> QED BY <1>2, <1>3

\* So does unlocking a locked one.
LEMMA CountUnlock ==
    ASSUME TypeOK, CountsExact, NEW f \in locked, locked' = locked \ {f},
           Uncount(f)
    PROVE  CountsExact'
<1>1. CASE f \in Writable
  <2>1. /\ n_write_lock' = n_write_lock - 1 /\ n_read_lock' = n_read_lock
    BY <1>1 DEF Uncount
  <2> QED BY <1>1, <2>1, LockedLess DEF CountsExact
<1>2. CASE f \notin Writable
  <2>1. /\ n_read_lock' = n_read_lock - 1 /\ n_write_lock' = n_write_lock
    BY <1>2 DEF Uncount
  <2> QED BY <1>2, <2>1, LockedLess DEF CountsExact
<1> QED BY <1>1, <1>2

-----------------------------------------------------------------------------
(* The inductive invariant.                                                 *)

\* A step of p, or of the driver for p, does not touch the other clients.
LEMMA OthersKept ==
    ASSUME \A r \in Proc : ClientInv(r), ATypeOK, NEW p \in Proc,
           TypeOK, opened' \subseteq File, locked' \subseteq File,
           \A r \in Proc \ {p} :
              /\ pc'[r] = pc[r] /\ filp'[r] = filp[r] /\ ret'[r] = ret[r]
              /\ phase'[r] = phase[r] /\ pos'[r] = pos[r] /\ buf'[r] = buf[r]
              /\ round'[r] = round[r],
           \A f \in File \ Mine(p) :
              /\ f \in opened' <=> f \in opened
              /\ f \in locked' <=> f \in locked,
           NEW q \in Proc \ {p}
    PROVE  ClientInv(q)'
<1>1. \A i \in DOMAIN Args[q] :
         /\ Args[q][i].file \in opened' <=> Args[q][i].file \in opened
         /\ Args[q][i].file \in locked' <=> Args[q][i].file \in locked
  <2> TAKE i \in DOMAIN Args[q]
  <2>1. CASE Args[q][i].file \in File
    <3>1. Args[q][i].file \in Mine(q)
      BY DEF Mine
    <3>2. Args[q][i].file \notin Mine(p)
      BY <2>1, <3>1, OwnFile
    <3> QED BY <2>1, <3>2
  <2>2. CASE Args[q][i].file \notin File
    BY <2>2 DEF TypeOK
  <2> QED BY <2>1, <2>2
<1>2. round[q] \in DOMAIN Args[q] /\ round'[q] = round[q]
  BY HereFacts
<1>3. /\ Here(q)' = Here(q) /\ LockOf(q)' = LockOf(q)
      /\ Here(q) \in opened' <=> Here(q) \in opened
      /\ Here(q) \in locked' <=> Here(q) \in locked
  BY <1>1, <1>2 DEF Here, LockOf
<1>4. StillOpen(q)' = StillOpen(q)
  BY <1>1 DEF StillOpen
<1> QED BY <1>3, <1>4 DEF ClientInv, Waiting

\* A step that gives nobody a ticket and takes nobody's away.
LEMMA TicketsKept ==
    ASSUME TicketsOwned, UNCHANGED <<ticket_head, ticket_tail, abandoned>>,
           \A q \in Proc : Ticketed(q) =>
              Ticketed(q)' /\ my_ticket'[q] = my_ticket[q]
    PROVE  TicketsOwned'
  BY DEF TicketsOwned

\* Going around, with the lock if one was asked for.
LEMMA NextDeviceStep ==
    ASSUME TypeOK, AInv, ATypeOK', NEW p \in Proc, NextDevice(p), pc[p] = "user",
           phase[p] \in {"open", "opened", "locking"}, phase[p] = "open" =>
              round[p] < Len(Args[p]),
           LockOf(p) # "none" /\ phase[p] # "open" => Here(p) \in locked,
           UNCHANGED <<vars, data, pos, buf, abandoned>>
    PROVE  AInv'
<1> USE DEF AInv
<1>1. /\ ClientFiles' /\ CountsExact'
      /\ \A q \in Proc : Ticketed(q)' <=> Ticketed(q)
  BY DEF ClientFiles, CountsExact, Ticketed, Waiting
<1>2. TicketsOwned'
  BY <1>1, TicketsKept
<1>3. \A q \in Proc \ {p} : ClientInv(q)'
  BY NextDeviceType, OthersKept DEF TypeOK
<1>4. ClientInv(p) /\ pos[p] = 0 /\ buf[p] = <<>>
  BY DEF ClientInv
<1>5. ClientInv(p)'
  <2>1. CASE phase'[p] = "open"
    BY <1>4, <2>1 DEF ClientInv, Waiting
  <2>2. CASE phase'[p] = "transfer" /\ round'[p] = round[p] /\ phase[p] # "open"
             /\ round[p] = Len(Args[p])
    <3>1. Here(p)' = Here(p) /\ LockOf(p)' = LockOf(p) /\ Len(buf[p]) = pos[p]
      BY <1>4, <2>2 DEF Here, LockOf
    <3> QED BY <1>4, <2>2, <3>1 DEF ClientInv, Waiting
  <2>3. phase[p] = "open" => phase'[p] = "open"
    BY ArgFacts DEF NextDevice, MoveTo, ATypeOK
  <2> QED BY <2>1, <2>2, <2>3, NextDeviceType
<1> QED BY <1>1, <1>2, <1>3, <1>5

\* An error, the end of the transfer, or kill -9: on to the exit.
LEMMA ToExitStep ==
    ASSUME TypeOK, AInv, ATypeOK', NEW p \in Proc, MoveTo(p, "exit"),
           phase[p] # "done", pc[p] # "user" => phase[p] \in {"locking", "exit"},
           UNCHANGED <<vars, data, round, pos, buf, abandoned>>
    PROVE  AInv'
<1> USE DEF AInv
<1>1. /\ ClientFiles' /\ CountsExact'
      /\ \A q \in Proc : Ticketed(q)' <=> Ticketed(q)
  BY DEF ClientFiles, CountsExact, Ticketed, Waiting
<1>2. TicketsOwned'
  BY <1>1, TicketsKept
<1>3. phase' = [phase EXCEPT ![p] = "exit"]
  BY DEF MoveTo
<1>4. \A q \in Proc \ {p} : ClientInv(q)'
  BY <1>3, OthersKept DEF TypeOK, ATypeOK
<1>5. ClientInv(p) /\ Here(p)' = Here(p) /\ phase'[p] = "exit"
  BY <1>3 DEF Here, ATypeOK
<1>6. ClientInv(p)'
  BY <1>5 DEF ClientInv, Waiting
<1> QED BY <1>1, <1>2, <1>4, <1>6

\* Steps of the program alone: the driver is not called.
LEMMA ProgramStep ==
    ASSUME TypeOK, AInv, ATypeOK', NEW p \in Proc,
           \/ LockDevice(p) /\ LockOf(p) = "none"
           \/ OpenDevice(p) /\ UNCHANGED vars /\ MoveTo(p, "exit")
           \/ LockResult(p) \/ TransferEnd(p) \/ Elsewhere(p) \/ Kill(p)
    PROVE  AInv'
<1>0. ClientInv(p)
  BY DEF AInv
<1>1. CASE LockDevice(p) /\ LockOf(p) = "none"
  BY <1>0, <1>1, NextDeviceStep DEF LockDevice, ClientInv
<1>2. CASE OpenDevice(p) /\ UNCHANGED vars /\ MoveTo(p, "exit")
  BY <1>0, <1>2, ToExitStep DEF OpenDevice, ClientInv
<1>3. CASE LockResult(p)
  BY <1>0, <1>3, NextDeviceStep, ToExitStep DEF LockResult, ClientInv
<1>4. CASE TransferEnd(p) \/ Kill(p)
  BY <1>0, <1>4, ToExitStep DEF TransferEnd, Kill, ClientInv
<1>5. CASE Elsewhere(p)
  BY <1>0, <1>5, NextDeviceStep, ToExitStep DEF Elsewhere, ClientInv
<1> QED BY <1>1, <1>2, <1>3, <1>4, <1>5

\* One sector of the last device.
LEMMA TransferStep ==
    ASSUME TypeOK, AInv, ATypeOK', NEW p \in Proc, TransferSector(p)
    PROVE  AInv'
<1> USE DEF AInv
<1>1. /\ phase[p] = "transfer" /\ phase' = phase /\ round' = round
      /\ UNCHANGED <<vars, abandoned>>
      /\ \A r \in Proc \ {p} : pos'[r] = pos[r] /\ buf'[r] = buf[r]
  BY DEF TransferSector, ProcessRequest, ATypeOK
<1>2. /\ ClientFiles' /\ CountsExact'
      /\ \A q \in Proc : Ticketed(q)' <=> Ticketed(q)
  BY <1>1 DEF ClientFiles, CountsExact, Ticketed, Waiting
<1>3. TicketsOwned'
  BY <1>1, <1>2, TicketsKept
<1>4. \A q \in Proc \ {p} : ClientInv(q)'
  BY <1>1, OthersKept DEF TypeOK
<1>5. ClientInv(p) /\ Here(p)' = Here(p) /\ LockOf(p)' = LockOf(p)
  BY <1>1 DEF Here, LockOf
<1>6. /\ pos'[p] = pos[p] + 1
      /\ Here(p) \notin Writable => Len(buf'[p]) = Len(buf[p]) + 1
  BY DEF TransferSector, ProcessRequest, ATypeOK
<1>7. ClientInv(p)'
  BY <1>1, <1>5, <1>6 DEF ClientInv, Waiting
<1> QED BY <1>2, <1>3, <1>4, <1>7

\* open() of a device.
LEMMA OpenStep ==
    ASSUME TypeOK, AInv, ATypeOK', NEW p \in Proc, OpenDevice(p),
           Open(p, Here(p)), MoveTo(p, "opened")
    PROVE  AInv'
<1> USE DEF AInv
<1>1. /\ phase[p] = "open" /\ phase' = [phase EXCEPT ![p] = "opened"]
      /\ Here(p) \notin opened
      /\ opened' = opened \cup {Here(p)} /\ locked' = locked \ {Here(p)}
      /\ pc[p] = "user"
      /\ UNCHANGED <<device, pc, filp, my_ticket, ret, data, round, pos, buf,
                     abandoned>>
  BY DEF OpenDevice, Open, MoveTo
<1>2. /\ Here(p) \in File /\ Here(p) \in Mine(p) /\ round[p] \in DOMAIN Args[p]
      /\ ClientInv(p) /\ Here(p)' = Here(p)
  BY <1>1, HereFacts DEF OpenDevice, Here
<1>3. locked' = locked /\ Here(p) \notin locked
  BY <1>1 DEF ClientFiles
<1>4. ClientFiles' /\ CountsExact'
  BY <1>1, <1>2, <1>3 DEF ClientFiles, CountsExact, Here
<1>5. TicketsOwned'
  BY <1>1, TicketsKept DEF Ticketed, Waiting
<1>6. \A q \in Proc \ {p} : ClientInv(q)'
  BY <1>1, <1>2, <1>3, OthersKept DEF ATypeOK, TypeOK
<1>7. phase'[p] = "opened"
  BY <1>1 DEF ATypeOK
<1>8. ClientInv(p)'
  BY <1>1, <1>2, <1>3, <1>7 DEF ClientInv, Waiting
<1> QED BY <1>4, <1>5, <1>6, <1>8

\* The request of -l by the holder of the write lock: refused at once.
LEMMA OwnWriteStep ==
    ASSUME TypeOK, AInv, ATypeOK', NEW p \in Proc, LockDevice(p),
           LockOf(p) = "ACQUIRE", AcquireOwnWrite(p, Here(p))
    PROVE  AInv'
<1> USE DEF AInv
<1>1. /\ phase[p] = "opened" /\ phase' = [phase EXCEPT ![p] = "locking"]
      /\ pc[p] = "user" /\ Return(p, "EDEADLK")
      /\ UNCHANGED <<device, files, data, round, pos, buf, abandoned>>
  BY DEF LockDevice, AcquireOwnWrite, MayCall, MoveTo
<1>2. /\ pc' = pc /\ my_ticket' = [my_ticket EXCEPT ![p] = 0]
      /\ filp' = [filp EXCEPT ![p] = Nil]
      /\ ret' = [ret EXCEPT ![p] = "error"]
  BY <1>1 DEF Return, GoTo, TypeOK
<1>3. ClientFiles' /\ CountsExact'
  BY <1>1 DEF ClientFiles, CountsExact
<1>4. TicketsOwned'
  BY <1>1, <1>2, TicketsKept DEF Ticketed, Waiting, TypeOK
<1>5. \A q \in Proc \ {p} : ClientInv(q)'
  BY <1>1, <1>2, OthersKept DEF ATypeOK, TypeOK
<1>6. ClientInv(p) /\ Here(p)' = Here(p) /\ phase'[p] = "locking"
      /\ ret'[p] = "error"
  BY <1>1, <1>2 DEF Here, ATypeOK, TypeOK
<1>7. ClientInv(p)'
  BY <1>1, <1>2, <1>6 DEF ClientInv, Waiting
<1> QED BY <1>3, <1>4, <1>5, <1>7

\* The lock request of -l: a new ticket, with an owner.
LEMMA RequestStep ==
    ASSUME TypeOK, AInv, ATypeOK', NEW p \in Proc, LockDevice(p),
           LockOf(p) = "ACQUIRE", AcquireTicket(p, Here(p))
    PROVE  AInv'
<1> USE DEF AInv
<1>1. /\ phase[p] = "opened" /\ phase' = [phase EXCEPT ![p] = "locking"]
      /\ pc[p] = "user" /\ filp' = [filp EXCEPT ![p] = Here(p)]
      /\ pc' = [pc EXCEPT ![p] =
                    IF Here(p) \in Writable THEN "war" ELSE "ld_nwrite"]
      /\ my_ticket' = [my_ticket EXCEPT ![p] = ticket_head]
      /\ ticket_head' = ticket_head + 1
      /\ UNCHANGED <<ticket_tail, n_write_lock, n_read_lock, write_lock_pid,
                     read_lock_pid_list, files, ret, data, round, pos, buf,
                     abandoned>>
  BY DEF LockDevice, AcquireTicket, MayCall, MoveTo, GoTo
<1>2. /\ ClientInv(p) /\ Here(p)' = Here(p) /\ phase'[p] = "locking"
      /\ pc'[p] \in {"war", "ld_nwrite"} /\ filp'[p] = Here(p)
  BY <1>1 DEF Here, ATypeOK, TypeOK
<1>3. ClientFiles' /\ CountsExact'
  BY <1>1 DEF ClientFiles, CountsExact
<1>4. TicketsOwned'
  <2> SUFFICES ASSUME NEW t \in ticket_tail..ticket_head
               PROVE  \/ \E q \in Proc : Ticketed(q)' /\ my_ticket'[q] = t
                      \/ t \in abandoned'
    <3>1. ticket_tail'..(ticket_head' - 1) = ticket_tail..ticket_head
      BY <1>1 DEF TypeOK
    <3> QED BY <3>1 DEF TicketsOwned
  <2>1. CASE t = ticket_head
    <3>1. Ticketed(p)' /\ my_ticket'[p] = t
      BY <1>1, <2>1 DEF Ticketed, Waiting, TypeOK
    <3> QED BY <3>1
  <2>2. CASE t # ticket_head
    <3>1. t \in ticket_tail..(ticket_head - 1)
      BY <2>2 DEF TypeOK
    <3>2. CASE t \in abandoned
      BY <1>1, <3>2
    <3>3. ASSUME NEW q \in Proc, Ticketed(q) /\ my_ticket[q] = t
          PROVE  Ticketed(q)' /\ my_ticket'[q] = t
      <4>1. q # p
        BY <1>1, <3>3 DEF Ticketed, Waiting
      <4> QED BY <1>1, <3>3, <4>1 DEF Ticketed, Waiting, TypeOK
    <3> QED BY <3>1, <3>2, <3>3 DEF TicketsOwned
  <2> QED BY <2>1, <2>2
<1>5. \A q \in Proc \ {p} : ClientInv(q)'
  BY <1>1, OthersKept DEF ATypeOK, TypeOK
<1>6. ClientInv(p)'
  BY <1>1, <1>2 DEF ClientInv, Waiting
<1> QED BY <1>3, <1>4, <1>5, <1>6

\* The lock request of -L: refused, or granted on a file not locked before.
LEMMA TryRequestStep ==
    ASSUME TypeOK, AInv, ATypeOK', NEW p \in Proc,
           LockDevice(p), LockOf(p) = "TRYACQUIRE"
    PROVE  AInv'
<1> USE DEF AInv
<1>1. /\ phase[p] = "opened" /\ phase' = [phase EXCEPT ![p] = "locking"]
      /\ TryAcquire(p, Here(p))
      /\ UNCHANGED <<data, round, pos, buf, abandoned>>
  BY DEF LockDevice, MoveTo
<1>2. PICK r \in {"ok", "EBUSY"} :
        /\ Return(p, r) /\ pc[p] = "user"
        /\ r = "ok" <=> ~Busy(Here(p))
        /\ UNCHANGED <<ticket_head, ticket_tail, write_lock_pid,
                       read_lock_pid_list, opened>>
  BY <1>1 DEF TryAcquire, MayCall
<1>3. /\ pc' = pc /\ my_ticket' = [my_ticket EXCEPT ![p] = 0]
      /\ filp' = [filp EXCEPT ![p] = Nil]
      /\ ret' = [ret EXCEPT ![p] = IF r = "ok" THEN "ok" ELSE "error"]
  BY <1>2 DEF Return, GoTo, TypeOK
<1>4. ClientInv(p) /\ Here(p) \notin locked /\ Here(p) \in opened
      /\ Here(p) \in File /\ Here(p) \in Mine(p) /\ Here(p)' = Here(p)
  BY <1>1, HereFacts DEF ClientInv, Here, TypeOK
<1>5. TicketsOwned'
  <2>1. \A q \in Proc : Ticketed(q) =>
           Ticketed(q)' /\ my_ticket'[q] = my_ticket[q]
    BY <1>2, <1>3 DEF Ticketed, Waiting, TypeOK
  <2> QED BY <1>1, <1>2, <2>1, TicketsKept
<1>6. /\ r = "ok" => locked' = locked \cup {Here(p)}
      /\ r # "ok" => locked' = locked
      /\ CountsExact'
  <2>1. CASE r # "ok"
    <3>1. UNCHANGED <<n_write_lock, n_read_lock, locked>>
      BY <1>1, <1>2, <2>1 DEF TryAcquire
    <3> QED BY <2>1, <3>1 DEF CountsExact
  <2>2. CASE r = "ok"
    <3>1. /\ locked' = locked \cup {Here(p)}
          /\ IF Here(p) \in Writable
                THEN n_write_lock' = n_write_lock + 1 /\ UNCHANGED n_read_lock
                ELSE n_read_lock' = n_read_lock + 1 /\ UNCHANGED n_write_lock
      BY <1>1, <1>2, <2>2 DEF TryAcquire
    <3> QED BY <1>4, <2>2, <3>1, CountLock
  <2> QED BY <2>1, <2>2
<1>7. ClientFiles'
  BY <1>2, <1>4, <1>6 DEF ClientFiles
<1>8. \A q \in Proc \ {p} : ClientInv(q)'
  BY <1>1, <1>2, <1>3, <1>4, <1>6, OthersKept DEF ATypeOK, TypeOK
<1>9. phase'[p] = "locking" /\ ret'[p] = (IF r = "ok" THEN "ok" ELSE "error")
  BY <1>1, <1>3 DEF ATypeOK, TypeOK
<1>10. ClientInv(p)'
  BY <1>1, <1>2, <1>3, <1>4, <1>6, <1>9 DEF ClientInv, Waiting
<1> QED BY <1>5, <1>6, <1>7, <1>8, <1>10

\* The exit closes a file and gives its lock back.
LEMMA CloseDeviceStep ==
    ASSUME TypeOK, AInv, ATypeOK', NEW p \in Proc, ExitClose(p),
           NEW i \in StillOpen(p), CloseLast(p, Args[p][i].file), UNCHANGED phase
    PROVE  AInv'
<1> USE DEF AInv
<1> DEFINE f == Args[p][i].file
<1>1. /\ phase[p] = "exit" /\ pc[p] = "user" /\ f \in opened
      /\ opened' = opened \ {f} /\ locked' = locked \ {f}
      /\ UNCHANGED <<ticket_head, ticket_tail, pc, filp, my_ticket, ret,
                     data, round, pos, buf, abandoned>>
  BY DEF ExitClose, CloseLast
<1>2. f \in File /\ f \in Mine(p)
  BY <1>1 DEF StillOpen, Mine, TypeOK
<1>3. CountsExact'
  <2>1. CASE f \in locked
    BY <1>1, <2>1, CountUnlock DEF CloseLast
  <2>2. CASE f \notin locked
    <3>1. locked' = locked /\ UNCHANGED device
      BY <1>1, <2>2 DEF CloseLast
    <3> QED BY <3>1 DEF CountsExact
  <2> QED BY <2>1, <2>2
<1>4. TicketsOwned'
  BY <1>1, TicketsKept DEF Ticketed, Waiting
<1>5. ClientFiles'
  BY <1>1 DEF ClientFiles
<1>6. \A q \in Proc \ {p} : ClientInv(q)'
  BY <1>1, <1>2, OthersKept DEF ATypeOK, TypeOK
<1>7. ClientInv(p) /\ Here(p)' = Here(p)
  BY <1>1 DEF Here
<1>8. ClientInv(p)'
  BY <1>1, <1>7 DEF ClientInv, Waiting
<1> QED BY <1>3, <1>4, <1>5, <1>6, <1>8

\* Nothing is open any more.
LEMMA ExitedStep ==
    ASSUME TypeOK, AInv, ATypeOK', NEW p \in Proc, ExitClose(p),
           StillOpen(p) = {}, MoveTo(p, "done"), UNCHANGED vars
    PROVE  AInv'
<1> USE DEF AInv
<1>1. /\ phase[p] = "exit" /\ phase' = [phase EXCEPT ![p] = "done"]
      /\ UNCHANGED <<vars, data, round, pos, buf, abandoned>>
  BY DEF ExitClose, MoveTo
<1>2. /\ ClientFiles' /\ CountsExact'
      /\ \A q \in Proc : Ticketed(q)' <=> Ticketed(q)
  BY <1>1 DEF ClientFiles, CountsExact, Ticketed, Waiting
<1>3. TicketsOwned'
  BY <1>1, <1>2, TicketsKept
<1>4. \A q \in Proc \ {p} : ClientInv(q)'
  BY <1>1, OthersKept DEF TypeOK, ATypeOK
<1>5. /\ ClientInv(p) /\ Here(p)' = Here(p) /\ phase'[p] = "done"
      /\ StillOpen(p)' = {} /\ Here(p) \notin opened
  BY <1>1, HereFacts DEF Here, StillOpen, ATypeOK
<1>6. ClientInv(p)'
  BY <1>1, <1>5 DEF ClientInv, Waiting
<1> QED BY <1>2, <1>3, <1>4, <1>6

\* A step inside the driver that grants nothing and serves nobody.
LEMMA QuietDriverStep ==
    ASSUME TypeOK, AInv, ATypeOK', NEW p \in Proc, InDriver(p),
           \/ AcquireWarCheck(p) /\ ~Contains(read_lock_pid_list, p)
           \/ LoadNRead(p) \/ LoadNWrite(p) \/ LoadTicket(p) \/ Reschedule(p)
    PROVE  AInv'
<1> USE DEF AInv
<1>1. ClientInv(p) /\ UNCHANGED <<device, files, client>>
  BY DEF InDriver, AcquireWarCheck, LoadNRead, LoadNWrite, LoadTicket, Load,
        Reschedule
<1>2. PICK l \in {"ld_nread", "ld_nwrite", "ld_ticket", "spin", "grant"} :
         pc' = [pc EXCEPT ![p] = l]
  BY DEF AcquireWarCheck, LoadNRead, LoadNWrite, LoadTicket, Load, Wait,
        Reschedule, GoTo
<1>3. Waiting(p) /\ UNCHANGED <<filp, my_ticket, ret>>
  BY DEF AcquireWarCheck, LoadNRead, LoadNWrite, LoadTicket, Load, At,
        Reschedule, Waiting
<1>4. abandoned' = abandoned /\ pc'[p] = l
  BY <1>2 DEF InDriver, TypeOK
<1>5. ClientFiles' /\ CountsExact'
  BY <1>1 DEF ClientFiles, CountsExact
<1>6. TicketsOwned'
  <2>1. \A q \in Proc : Ticketed(q) => Ticketed(q)'
    BY <1>2 DEF Ticketed, Waiting, TypeOK
  <2> QED BY <1>1, <1>3, <1>4, <2>1, TicketsKept
<1>7. \A q \in Proc \ {p} : ClientInv(q)'
  BY <1>1, <1>2, <1>3, OthersKept DEF TypeOK
<1>8. Here(p)' = Here(p)
  BY <1>1 DEF Here
<1>9. ClientInv(p)'
  BY <1>1, <1>3, <1>4, <1>8 DEF ClientInv, Waiting
<1> QED BY <1>5, <1>6, <1>7, <1>9

\* The -EDEADLK return that leaves a ticket behind.
LEMMA RefusedStep ==
    ASSUME TypeOK, AInv, ATypeOK', NEW p \in Proc, InDriver(p),
           AcquireWarCheck(p), Contains(read_lock_pid_list, p)
    PROVE  AInv'
<1> USE DEF AInv
<1>1. /\ pc[p] = "war" /\ Return(p, "EDEADLK")
      /\ UNCHANGED <<device, files, client>>
  BY DEF InDriver, AcquireWarCheck, At
<1>2. /\ pc' = [pc EXCEPT ![p] = "user"] /\ pc'[p] = "user"
      /\ my_ticket' = [my_ticket EXCEPT ![p] = 0]
      /\ filp' = [filp EXCEPT ![p] = Nil]
      /\ ret' = [ret EXCEPT ![p] = "error"] /\ ret'[p] = "error"
  BY <1>1 DEF Return, GoTo, TypeOK
<1>3. abandoned' = abandoned \cup {my_ticket[p]}
  BY <1>1, <1>2 DEF InDriver
<1>4. ClientFiles' /\ CountsExact'
  BY <1>1 DEF ClientFiles, CountsExact
<1>5. TicketsOwned'
  <2> SUFFICES ASSUME NEW t \in ticket_tail..(ticket_head - 1), t \notin abandoned'
               PROVE  \E q \in Proc : Ticketed(q)' /\ my_ticket'[q] = t
    BY <1>1 DEF TicketsOwned
  <2>1. PICK q \in Proc : Ticketed(q) /\ my_ticket[q] = t
    BY <1>3 DEF TicketsOwned
  <2>2. q # p
    BY <1>3, <2>1
  <2>3. Ticketed(q)' /\ my_ticket'[q] = t
    BY <1>2, <2>1, <2>2 DEF Ticketed, Waiting, TypeOK
  <2> QED BY <2>3
<1>6. \A q \in Proc \ {p} : ClientInv(q)'
  BY <1>1, <1>2, OthersKept DEF TypeOK
<1>7. ClientInv(p) /\ Here(p)' = Here(p)
  BY <1>1 DEF Here
<1>8. ClientInv(p)'
  BY <1>1, <1>2, <1>7 DEF ClientInv, Waiting
<1> QED BY <1>4, <1>5, <1>6, <1>8

\* The grant locks a file that was not locked.
LEMMA GrantedStep ==
    ASSUME TypeOK, AInv, ATypeOK', NEW p \in Proc, InDriver(p), Grant(p)
    PROVE  AInv'
<1> USE DEF AInv
<1>1. /\ pc[p] = "grant" /\ pc' = [pc EXCEPT ![p] = "advance"]
      /\ locked' = locked \cup {filp[p]}
      /\ UNCHANGED <<ticket_head, ticket_tail, opened, filp, my_ticket, ret,
                     client>>
      /\ abandoned' = abandoned
  BY DEF InDriver, Grant, At, GoTo
<1>2. /\ ClientInv(p) /\ filp[p] = Here(p)
      /\ Here(p) \in File \ locked /\ Here(p) \in opened
      /\ Here(p) \in Mine(p) /\ Here(p)' = Here(p) /\ pc'[p] = "advance"
  BY <1>1, HereFacts DEF ClientInv, Waiting, Here, TypeOK
<1>3. CountsExact'
  BY <1>1, <1>2, CountLock DEF Grant
<1>4. ClientFiles'
  BY <1>1, <1>2 DEF ClientFiles
<1>5. TicketsOwned'
  <2>1. \A q \in Proc : Ticketed(q) => Ticketed(q)'
    BY <1>1 DEF Ticketed, Waiting, TypeOK
  <2> QED BY <1>1, <2>1, TicketsKept
<1>6. \A q \in Proc \ {p} : ClientInv(q)'
  BY <1>1, <1>2, OthersKept DEF TypeOK
<1>7. ClientInv(p)'
  BY <1>1, <1>2 DEF ClientInv, Waiting
<1> QED BY <1>3, <1>4, <1>5, <1>6, <1>7

\* The next ticket is served; the one served so far was p's.
LEMMA ServedStep ==
    ASSUME OrderInv, AInv, ATypeOK', NEW p \in Proc, InDriver(p), AdvanceTail(p)
    PROVE  AInv'
<1> USE DEF AInv
<1>0. TypeOK
  BY DEF OrderInv
<1>1. /\ pc[p] = "advance" /\ pc' = [pc EXCEPT ![p] = "user"]
      /\ ticket_tail' = ticket_tail + 1
      /\ my_ticket' = [my_ticket EXCEPT ![p] = 0]
      /\ filp' = [filp EXCEPT ![p] = Nil]
      /\ ret' = [ret EXCEPT ![p] = "ok"]
      /\ UNCHANGED <<ticket_head, n_write_lock, n_read_lock,
                     read_lock_pid_list, files, client>>
      /\ abandoned' = abandoned
  BY DEF InDriver, AdvanceTail, At, Return, GoTo
<1>2. ClientInv(p) /\ my_ticket[p] = ticket_tail /\ Here(p)' = Here(p)
      /\ pc'[p] = "user"
  BY <1>0, <1>1 DEF OrderInv, Here, TypeOK
<1>3. ClientFiles' /\ CountsExact'
  BY <1>1 DEF ClientFiles, CountsExact
<1>4. TicketsOwned'
  <2> SUFFICES ASSUME NEW t \in (ticket_tail + 1)..(ticket_head - 1),
                      t \notin abandoned
               PROVE  \E q \in Proc : Ticketed(q)' /\ my_ticket'[q] = t
    BY <1>1 DEF TicketsOwned
  <2>1. t \in ticket_tail..(ticket_head - 1) /\ t # ticket_tail
    BY <1>0 DEF TypeOK
  <2>2. PICK q \in Proc : Ticketed(q) /\ my_ticket[q] = t
    BY <2>1 DEF TicketsOwned
  <2>3. q # p
    BY <1>2, <2>1, <2>2
  <2>4. Ticketed(q)' /\ my_ticket'[q] = t
    BY <1>0, <1>1, <2>2, <2>3 DEF Ticketed, Waiting, TypeOK
  <2> QED BY <2>4
<1>5. \A q \in Proc \ {p} : ClientInv(q)'
  BY <1>0, <1>1, OthersKept DEF TypeOK
<1>6. ClientInv(p)'
  BY <1>1, <1>2 DEF ClientInv, Waiting
<1> QED BY <1>3, <1>4, <1>5, <1>6

LEMMA AInvStep == OrderInv /\ AInv /\ [ANext]_avars => AInv'
<1> SUFFICES ASSUME OrderInv, AInv, [ANext]_avars PROVE AInv'
  OBVIOUS
<1>0. TypeOK /\ ATypeOK /\ ATypeOK'
  BY ATypeStep DEF OrderInv, AInv
<1>1. ASSUME NEW p \in Proc, InDriver(p) PROVE AInv'
  <2>1. ~ReleaseSection(p)
    BY DEF ReleaseSection, At, AInv, ClientInv
  <2>2. KernelStep(p)
    BY <1>1 DEF InDriver
  <2> QED BY <1>0, <1>1, <2>1, <2>2, QuietDriverStep, RefusedStep, GrantedStep,
             ServedStep DEF KernelStep
<1>2. ASSUME NEW p \in Proc, Program(p) PROVE AInv'
  <2>1. CASE LockDevice(p)
    BY <1>0, <2>1, OwnWriteStep, RequestStep, TryRequestStep, ProgramStep
       DEF LockDevice
  <2>2. CASE ExitClose(p)
    <3>1. \/ \E i \in StillOpen(p) : CloseLast(p, Args[p][i].file) /\ UNCHANGED phase
          \/ StillOpen(p) = {} /\ MoveTo(p, "done") /\ UNCHANGED vars
      BY <2>2 DEF ExitClose
    <3> QED BY <1>0, <2>2, <3>1, CloseDeviceStep, ExitedStep
  <2>3. CASE OpenDevice(p)
    BY <1>0, <2>3, OpenStep, ProgramStep DEF OpenDevice
  <2> QED BY <1>0, <1>2, <2>1, <2>2, <2>3, ProgramStep, TransferStep DEF Program
<1>3. ASSUME NEW p \in Proc, Kill(p) \/ Elsewhere(p) PROVE AInv'
  BY <1>0, <1>3, ProgramStep
<1>4. CASE UNCHANGED avars
  <2>1. /\ ClientFiles' /\ CountsExact'
        /\ \A q \in Proc : ClientInv(q)'
    BY <1>4 DEF AInv, ClientFiles, CountsExact, ClientInv, Waiting, Here, LockOf,
          StillOpen
  <2>2. TicketsOwned'
    BY <1>4, TicketsKept DEF AInv, Ticketed, Waiting
  <2> QED BY <1>0, <2>1, <2>2 DEF AInv
<1> QED BY <1>1, <1>2, <1>3, <1>4 DEF ANext

\* At the start no client has opened the device.
LEMMA AInvInit == AInit => AInv /\ OrderInv
<1> SUFFICES ASSUME AInit PROVE AInv /\ OrderInv
  OBVIOUS
<1>1. TypeOK /\ ATypeOK
  BY AInitTypes
<1>2. OrderInv
  BY <1>1 DEF AInit, Init, OrderInv, TicketInv, Ticketed, Waiting
<1>4. \A p \in Proc : ClientInv(p)
  BY DEF AInit, Init, ClientInv, Waiting
<1>5. ClientFiles /\ TicketsOwned
  BY DEF AInit, Init, ClientFiles, TicketsOwned
<1>6. CountsExact
  <2>1. locked \cap Writable = {} /\ locked \ Writable = {}
    BY DEF AInit, Init
  <2> QED BY <2>1, FS_EmptySet DEF AInit, Init, CountsExact
<1> QED BY <1>1, <1>2, <1>4, <1>5, <1>6 DEF AInv

\* OrderInv and AInv together are inductive.
LEMMA BothStep == OrderInv /\ AInv /\ [ANext]_avars => OrderInv' /\ AInv'
<1> SUFFICES ASSUME OrderInv, AInv, [ANext]_avars PROVE OrderInv' /\ AInv'
  OBVIOUS
<1>1. TypeOK /\ ATypeOK
  BY DEF OrderInv, AInv
<1> QED BY <1>1, StepOfDriver, OrderStep, AInvStep

-----------------------------------------------------------------------------
(* What the clients may rely on.                                            *)

\* On every kernel, for every list of arguments of every client: the ticket
\* being served is that of a client still in ACQUIRE, which no kill takes out
\* of the queue, or one that the -EDEADLK return at osprd.c:321 left behind.
THEOREM TicketsAccounted == ASpec => []ServedTicketAccounted
<1>1. OrderInv /\ AInv => ServedTicketAccounted
  <2> SUFFICES ASSUME OrderInv, AInv, ticket_head # ticket_tail
               PROVE  \/ \E p \in Proc : Ticketed(p) /\ my_ticket[p] = ticket_tail
                      \/ ticket_tail \in abandoned
    BY DEF ServedTicketAccounted
  <2>1. ticket_tail \in ticket_tail..(ticket_head - 1)
    BY DEF OrderInv, TicketInv, TypeOK
  <2> QED BY <2>1 DEF AInv, TicketsOwned
<1> QED BY <1>1, AInvInit, BothStep, PTL DEF ASpec

\* On every kernel: when all clients are gone, whatever they asked for and
\* whichever of them were killed, the ramdisk is as free as at the start, but
\* for the tickets that refused requests left behind.
THEOREM NothingLeftBehind == ASpec => []AllReturned
<1>1. OrderInv /\ AInv => AllReturned
  <2> SUFFICES ASSUME OrderInv, AInv, \A p \in Proc : phase[p] = "done"
               PROVE  /\ locked = {} /\ n_write_lock = 0 /\ n_read_lock = 0
                      /\ ticket_tail..(ticket_head - 1) \subseteq abandoned
    BY DEF AllReturned
  <2>1. \A p \in Proc : StillOpen(p) = {} /\ pc[p] = "user"
    BY DEF AInv, ClientInv
  <2>2. locked = {}
    BY <2>1 DEF AInv, ClientFiles, StillOpen
  <2>3. locked \cap Writable = {} /\ locked \ Writable = {}
    BY <2>2
  <2>4. n_write_lock = 0 /\ n_read_lock = 0
    BY <2>3, FS_EmptySet DEF AInv, CountsExact
  <2>5. \A t \in ticket_tail..(ticket_head - 1) : t \in abandoned
    BY <2>1 DEF AInv, TicketsOwned, Ticketed, Waiting
  <2> QED BY <2>2, <2>4, <2>5
<1> QED BY <1>1, AInvInit, BothStep, PTL DEF ASpec

\* The locks are advisory: this is about disks that nobody writes unlocked.
WritersLock ==
    \A p \in Proc : LET last == Args[p][Len(Args[p])] IN
        last.file \in Writable => last.lock # "none"

\* A client that writes holds the only lock, so it disturbs no other one that
\* transfers under a lock.
LEMMA WriterAlone ==
    ASSUME IInv, AInv, WritersLock,
           NEW p \in Proc, phase[p] = "transfer", LockOf(p) # "none",
           NEW q \in Proc, phase[q] = "transfer", Here(q) \in Writable
    PROVE  p = q
<1>1. LockOf(q) # "none"
  BY DEF WritersLock, AInv, ClientInv, Here, LockOf
<1>2. Here(p) \in locked /\ Here(q) \in locked
  BY <1>1 DEF AInv, ClientInv
<1>3. locked = {Here(q)}
  BY <1>2 DEF IInv, MutualExclusion
<1>4. Here(p) \in Mine(p) /\ Here(q) \in Mine(q) /\ Here(q) \in File
  BY <1>2, HereFacts DEF AInv, IInv, TypeOK
<1> QED BY <1>2, <1>3, <1>4, OwnFile

\* A client that transfers after a step did so before it, in the same round,
\* or was still about to.
LEMMA AroundOrNot ==
    ASSUME ATypeOK, [ANext]_avars, NEW p \in Proc, phase'[p] = "transfer"
    PROVE  \/ phase[p] = "transfer" /\ round'[p] = round[p]
           \/ phase[p] \in {"open", "opened", "locking"}
<1>1. ASSUME NEW q \in Proc, NextDevice(q),
             phase[q] \in {"open", "opened", "locking"}
      PROVE  \/ phase[p] = "transfer" /\ round'[p] = round[p]
             \/ phase[p] \in {"open", "opened", "locking"}
  BY <1>1, NextDeviceType
<1>2. ASSUME NEW q \in Proc, NEW ph \in {"opened", "locking", "exit", "done"},
             MoveTo(q, ph) \/ UNCHANGED phase, UNCHANGED round
      PROVE  phase[p] = "transfer" /\ round'[p] = round[p]
  BY <1>2 DEF MoveTo, ATypeOK
<1>3. ASSUME NEW q \in Proc, OpenDevice(q) \/ ExitClose(q) \/ TransferEnd(q)
             \/ Kill(q) \/ TransferSector(q) \/ InDriver(q)
      PROVE  phase[p] = "transfer" /\ round'[p] = round[p]
  BY <1>2, <1>3 DEF OpenDevice, ExitClose, TransferEnd, Kill, TransferSector,
        InDriver
<1>4. ASSUME NEW q \in Proc, LockDevice(q) \/ LockResult(q) \/ Elsewhere(q)
      PROVE  \/ phase[p] = "transfer" /\ round'[p] = round[p]
             \/ phase[p] \in {"open", "opened", "locking"}
  BY <1>1, <1>2, <1>4 DEF LockDevice, LockResult, Elsewhere
<1> QED BY <1>3, <1>4 DEF ANext, Program

LEMMA IsolatedStep ==
    ASSUME WritersLock
    PROVE  IInv /\ AInv /\ LockedIoIsolated /\ [ANext]_avars => LockedIoIsolated'
<1> SUFFICES ASSUME IInv, AInv, LockedIoIsolated, [ANext]_avars,
                    NEW p \in Proc, phase'[p] = "transfer", LockOf(p)' # "none",
                    NEW s \in 0..(pos'[p] - 1)
             PROVE  data'[s] = IF Here(p)' \in Writable THEN p
                                                           ELSE buf'[p][s + 1]
  BY DEF LockedIoIsolated
<1>1. ATypeOK
  BY DEF AInv
<1>2. ASSUME NEW q \in Proc, TransferSector(q)
      PROVE  data'[s] = IF Here(p)' \in Writable THEN p ELSE buf'[p][s + 1]
  <2>0. Here(p)' = Here(p) /\ LockOf(p)' = LockOf(p)
    BY <1>2 DEF TransferSector, Here, LockOf
  <2>1. /\ phase[q] = "transfer" /\ phase' = phase
        /\ pos' = [pos EXCEPT ![q] = @ + 1] /\ ProcessRequest(q, pos[q])
        /\ pos[q] \in Nat /\ pos[q] + 1 <= nsectors
    BY <1>1, <1>2 DEF TransferSector, ProcessRequest, ATypeOK
  <2>2. pos[q] \in Sector
    BY <2>1, ClientAssumption DEF Sector
  <2>3. CASE Here(q) \in Writable
    <3>1. p = q
      BY <2>0, <2>1, <2>3, WriterAlone
    <3>2. data' = [data EXCEPT ![pos[p]] = p] /\ s \in 0..pos[p]
      BY <1>1, <2>1, <2>3, <3>1 DEF ProcessRequest, ATypeOK
    <3>3. CASE s = pos[p]
      BY <1>1, <2>0, <2>2, <2>3, <3>1, <3>2, <3>3 DEF ATypeOK
    <3>4. CASE s # pos[p]
      <4>1. s \in 0..(pos[p] - 1)
        BY <2>1, <3>1, <3>2, <3>4
      <4>2. data[s] = p
        BY <2>0, <2>1, <2>3, <3>1, <4>1 DEF LockedIoIsolated
      <4>3. data'[s] = data[s]
        BY <1>1, <2>1, <2>2, <3>1, <3>2, <3>4, <4>1, ClientAssumption
              DEF ATypeOK, Sector
      <4> QED BY <2>0, <2>3, <3>1, <4>2, <4>3
    <3> QED BY <3>3, <3>4
  <2>4. CASE Here(q) \notin Writable
    <3>1. data' = data /\ buf' = [buf EXCEPT ![q] = Append(@, data[pos[q]])]
      BY <2>1, <2>4 DEF ProcessRequest
    <3>2. CASE p # q
      <4>1. pos'[p] = pos[p] /\ buf'[p] = buf[p]
        BY <1>1, <2>1, <3>1, <3>2 DEF ATypeOK
      <4> QED BY <2>0, <2>1, <3>1, <4>1 DEF LockedIoIsolated
    <3>3. CASE p = q
      <4>1. /\ buf'[p] = Append(buf[p], data[pos[p]]) /\ s \in 0..pos[p]
            /\ buf[p] \in Seq(Proc \cup {Nil}) /\ Len(buf[p]) = pos[p]
        BY <1>1, <2>1, <2>4, <3>1, <3>3 DEF ATypeOK, AInv, ClientInv
      <4>2. CASE s = pos[p]
        BY <2>0, <2>4, <3>1, <3>3, <4>1, <4>2
      <4>3. CASE s # pos[p]
        <5>1. s \in 0..(pos[p] - 1) /\ s + 1 \in 1..Len(buf[p])
          BY <2>1, <3>3, <4>1, <4>3
        <5>2. data[s] = buf[p][s + 1]
          BY <2>0, <2>1, <2>4, <3>3, <5>1 DEF LockedIoIsolated
        <5> QED BY <2>0, <2>4, <3>1, <3>3, <4>1, <5>1, <5>2
      <4> QED BY <4>2, <4>3
    <3> QED BY <3>2, <3>3
  <2> QED BY <2>3, <2>4
<1>3. CASE UNCHANGED <<data, pos, buf>>
  <2>1. \/ phase[p] = "transfer" /\ round'[p] = round[p]
        \/ phase[p] \in {"open", "opened", "locking"}
    BY <1>1, AroundOrNot
  <2>2. CASE phase[p] = "transfer" /\ round'[p] = round[p]
    <3>1. Here(p)' = Here(p) /\ LockOf(p)' = LockOf(p)
      BY <2>2 DEF Here, LockOf
    <3> QED BY <1>3, <2>2, <3>1 DEF LockedIoIsolated
  <2>3. CASE phase[p] \in {"open", "opened", "locking"}
    <3>1. pos[p] = 0
      BY <2>3 DEF AInv, ClientInv
    <3> QED BY <1>3, <3>1
  <2> QED BY <2>1, <2>2, <2>3
<1>4. \/ \E q \in Proc : TransferSector(q)
      \/ UNCHANGED <<data, pos, buf>>
  BY DEF ANext, InDriver, Program, OpenDevice, LockDevice, LockResult,
        TransferEnd, ExitClose, Elsewhere, Kill
<1> QED BY <1>2, <1>3, <1>4

\* On the kernel the driver was written for, and if nobody writes without a
\* lock: what a process has read or written under its lock stays as it is
\* until it gives the lock up, whoever else is killed half way.
THEOREM LockedIoStays ==
    ASSUME Bkl, WritersLock
    PROVE  ASpec => []LockedIoIsolated
<1>1. AInit => IInv /\ LockedIoIsolated
  BY InvInit DEF AInit, LockedIoIsolated
<1>2. IInv /\ AInv /\ [ANext]_avars => IInv'
  BY StepOfDriver, InvStep DEF IInv, AInv
<1> QED BY <1>1, <1>2, AInvInit, BothStep, IsolatedStep, PTL DEF ASpec
=============================================================================
