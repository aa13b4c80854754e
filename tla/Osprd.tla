------------------------------- MODULE Osprd -------------------------------
(***************************************************************************)
(* The lock of one OSP ramdisk (lab2/osprd.c): a ticketed reader/writer    *)
(* lock that processes drive through ioctl() and close().                  *)
(*                                                                         *)
(* Grain of atomicity.  Every section under d->mutex is one step.  The     *)
(* test of CONDITION is made outside the mutex, so each of its loads is a  *)
(* step of its own, in the order in which && evaluates them.               *)
(*                                                                         *)
(* What surrounds the driver is the constant Bkl.  TRUE is the kernel the  *)
(* driver was written for: the bodies of two ioctls overlap only at        *)
(* schedule() (one non-preemptive CPU, or the big kernel lock that the     *)
(* block layer of that generation holds around ioctl()); close() is not    *)
(* serialised with them.  FALSE leaves only what the driver itself         *)
(* guarantees: its mutex.                                                  *)
(***************************************************************************)
EXTENDS Integers, Sequences, FiniteSets, SequencesExt

CONSTANTS
    Proc,        \* processes (pids)
    File,        \* open-file slots (struct file) on this ramdisk
    Writable,    \* the slots opened with FMODE_WRITE
    Users,       \* Users[f]: who has a descriptor of f (several after a fork)
    Ops,         \* which calls the environment makes
    Bkl,         \* are ioctl bodies serialised by the kernel?
    MaxTickets,  \* bound: tickets handed out in a behaviour
    MaxReads,    \* bound: read count up to which TRYACQUIRE is called
    Nil          \* no process, no file; also the pids 0 and -1 of the code

ASSUME ProcAssumption == Nil \notin Proc /\ Nil \notin File
ASSUME FileAssumption ==
    /\ IsFiniteSet(File)
    /\ Writable \subseteq File
    /\ Users \in [File -> SUBSET Proc]
ASSUME EnvAssumption == Bkl \in BOOLEAN /\ MaxTickets \in Nat /\ MaxReads \in Nat

VARIABLES
    ticket_head, ticket_tail,   \* next ticket to hand out, ticket being served
    n_write_lock, n_read_lock,  \* the counts CONDITION is about
    write_lock_pid,             \* last process granted a write lock
    read_lock_pid_list,         \* processes granted a read lock by ACQUIRE
    opened,                     \* slots that are open
    locked,                     \* slots with F_OSPRD_LOCKED in f_flags
    pc, filp, my_ticket, ret,   \* per process: where in the driver, on which
                                \* file, its ticket, whether its last call failed
    bkl                         \* who holds the big kernel lock, or Nil

device == <<ticket_head, ticket_tail, n_write_lock, n_read_lock,
            write_lock_pid, read_lock_pid_list>>
files  == <<opened, locked>>
vars   == <<ticket_head, ticket_tail, n_write_lock, n_read_lock,
            write_lock_pid, read_lock_pid_list, opened, locked,
            pc, filp, my_ticket, ret, bkl>>

Labels == {"user", "war", "ld_nread", "ld_nwrite", "ld_ticket", "spin",
           "grant", "advance", "release"}
Results == {"ok", "EDEADLK", "EBUSY", "EINVAL"}

TypeOK ==
    /\ ticket_head \in 0..MaxTickets
    /\ ticket_tail \in Nat
    /\ n_write_lock \in Int
    /\ n_read_lock \in Int
    /\ write_lock_pid \in Proc \cup {Nil}
    /\ read_lock_pid_list \in Seq(Proc)
    /\ opened \in SUBSET File
    /\ locked \in SUBSET File
    /\ pc \in [Proc -> Labels]
    /\ filp \in [Proc -> File \cup {Nil}]
    /\ \A p \in Proc : pc[p] # "user" => filp[p] \in File
    /\ my_ticket \in [Proc -> Nat]
    /\ ret \in [Proc -> {"ok", "error"}]
    /\ bkl \in Proc \cup {Nil}

\* setup_device() clears the structure, osprd_setup() the counters.
Init ==
    /\ ticket_head = 0
    /\ ticket_tail = 0
    /\ n_write_lock = 0
    /\ n_read_lock = 0
    /\ write_lock_pid = Nil
    /\ read_lock_pid_list = <<>>
    /\ opened = {}
    /\ locked = {}
    /\ pc = [p \in Proc |-> "user"]
    /\ filp = [p \in Proc |-> Nil]
    /\ my_ticket = [p \in Proc |-> 0]
    /\ ret = [p \in Proc |-> "ok"]
    /\ bkl = Nil

-----------------------------------------------------------------------------
(* Entering, leaving and being rescheduled.                                *)

\* p may make the call op on its open file f now: the kernel enters
\* osprd_ioctl() with the big kernel lock, if there is one.
MayCall(p, f, op) ==
    /\ op \in Ops
    /\ pc[p] = "user"
    /\ f \in opened
    /\ p \in Users[f]
    /\ bkl = Nil

KernelLock(p) == bkl' = IF Bkl THEN p ELSE Nil

\* p is inside the driver at label l and is the one allowed to run there.
At(p, l) == pc[p] = l /\ (Bkl => bkl = p)

GoTo(p, l) == pc' = [pc EXCEPT ![p] = l]

\* The ioctl of p returns r to user space, where callers tell 0 from an error.
Return(p, r) ==
    /\ GoTo(p, "user")
    /\ ret' = [ret EXCEPT ![p] = IF r = "ok" THEN "ok" ELSE "error"]
    /\ filp' = [filp EXCEPT ![p] = Nil]
    /\ my_ticket' = [my_ticket EXCEPT ![p] = 0]
    /\ bkl' = Nil

\* Mutant: the CPU is not given away.
WaitKeepsLock(p) == GoTo(p, "spin") /\ UNCHANGED bkl

\* The condition handed to wait_event_interruptible() is the constant 1: it
\* returns 0 at once, without sleeping and without looking at signals.  The
\* wait is the schedule() after it, which gives the big kernel lock away.
Wait(p) == GoTo(p, "spin") /\ bkl' = Nil

-----------------------------------------------------------------------------
(* OSPRDIOCACQUIRE                                                          *)

\* The caller is the last process that got a write lock: -EDEADLK.
AcquireOwnWrite(p, f) ==
    /\ MayCall(p, f, "ACQUIRE")
    /\ write_lock_pid = p
    /\ Return(p, "EDEADLK")
    /\ UNCHANGED <<device, files>>

\* Mutant: the caller's file is not recorded.
AcquireTicketNoFile(p, f) ==
    /\ MayCall(p, f, "ACQUIRE")
    /\ write_lock_pid # p
    /\ ticket_head < MaxTickets
    /\ my_ticket' = [my_ticket EXCEPT ![p] = ticket_head]
    /\ ticket_head' = ticket_head + 1
    /\ GoTo(p, IF f \in Writable THEN "war" ELSE "ld_nwrite")
    /\ KernelLock(p)
    /\ UNCHANGED <<ticket_tail, n_write_lock, n_read_lock, write_lock_pid,
                   read_lock_pid_list, files, filp, ret>>

\* Otherwise take a ticket.
AcquireTicket(p, f) ==
    /\ MayCall(p, f, "ACQUIRE")
    /\ write_lock_pid # p
    /\ ticket_head < MaxTickets
    /\ my_ticket' = [my_ticket EXCEPT ![p] = ticket_head]
    /\ ticket_head' = ticket_head + 1
    /\ filp' = [filp EXCEPT ![p] = f]
    /\ GoTo(p, IF f \in Writable THEN "war" ELSE "ld_nwrite")
    /\ KernelLock(p)
    /\ UNCHANGED <<ticket_tail, n_write_lock, n_read_lock, write_lock_pid,
                   read_lock_pid_list, files, ret>>

\* Mutant: the check is left out.
AcquireWarUnchecked(p) ==
    /\ At(p, "war")
    /\ GoTo(p, "ld_nread")
    /\ UNCHANGED <<device, files, filp, my_ticket, ret, bkl>>

\* A writer looks for itself among the readers; its ticket is taken already
\* and the -EDEADLK return does not give it back.
AcquireWarCheck(p) ==
    /\ At(p, "war")
    /\ \/ /\ Contains(read_lock_pid_list, p)
          /\ Return(p, "EDEADLK")
       \/ /\ ~Contains(read_lock_pid_list, p)
          /\ GoTo(p, "ld_nread")
          /\ UNCHANGED <<filp, my_ticket, ret, bkl>>
    /\ UNCHANGED <<device, files>>

\* One load of CONDITION: on to the next one if it holds, else wait.
Load(p, at, holds, next) ==
    /\ At(p, at)
    /\ \/ holds /\ GoTo(p, next) /\ UNCHANGED bkl
       \/ ~holds /\ Wait(p)
    /\ UNCHANGED <<device, files, filp, my_ticket, ret>>

\* Mutants: one of the tests is left out.
LoadNReadUntested(p)  == Load(p, "ld_nread", TRUE, "ld_nwrite")
LoadNWriteUntested(p) == Load(p, "ld_nwrite", TRUE, "ld_ticket")

LoadNRead(p)  == Load(p, "ld_nread", n_read_lock = 0, "ld_nwrite")
LoadNWrite(p) == Load(p, "ld_nwrite", n_write_lock = 0, "ld_ticket")
LoadTicket(p) == Load(p, "ld_ticket", my_ticket[p] = ticket_tail, "grant")

\* schedule() returns and CONDITION is evaluated again, from its first load.
Reschedule(p) ==
    /\ pc[p] = "spin"
    /\ bkl = Nil
    /\ KernelLock(p)
    /\ GoTo(p, IF filp[p] \in Writable THEN "ld_nread" ELSE "ld_nwrite")
    /\ UNCHANGED <<device, files, filp, my_ticket, ret>>

\* CONDITION held when it was loaded; it is not tested again.
Grant(p) ==
    /\ At(p, "grant")
    /\ locked' = locked \cup {filp[p]}
    /\ \/ /\ filp[p] \in Writable
          /\ n_write_lock' = n_write_lock + 1
          /\ write_lock_pid' = p
          /\ UNCHANGED <<n_read_lock, read_lock_pid_list>>
       \/ /\ filp[p] \notin Writable
          /\ n_read_lock' = n_read_lock + 1
          /\ read_lock_pid_list' = Append(read_lock_pid_list, p)
          /\ UNCHANGED <<n_write_lock, write_lock_pid>>
    /\ GoTo(p, "advance")
    /\ UNCHANGED <<ticket_head, ticket_tail, opened, filp, my_ticket, ret,
                   bkl>>

\* Mutant: the next ticket is not served.
AdvanceTailForgotten(p) ==
    /\ At(p, "advance")
    /\ Return(p, "ok")
    /\ UNCHANGED <<device, files>>

\* A second section serves the next ticket.  invalid_pid_list is empty (only
\* the unreachable -ERESTARTSYS branch fills it), so nothing is skipped.
AdvanceTail(p) ==
    /\ At(p, "advance")
    /\ ticket_tail' = ticket_tail + 1
    /\ Return(p, "ok")
    /\ UNCHANGED <<ticket_head, n_write_lock, n_read_lock, write_lock_pid,
                   read_lock_pid_list, files>>

-----------------------------------------------------------------------------
(* OSPRDIOCTRYACQUIRE and OSPRDIOCRELEASE                                   *)

\* Mutant: outstanding tickets are not looked at.
BusyNoTickets(f) ==
    \/ n_write_lock > 0
    \/ f \in Writable /\ n_read_lock > 0

\* One section; neither write_lock_pid nor read_lock_pid_list is updated.
Busy(f) ==
    \/ n_write_lock > 0
    \/ f \in Writable /\ n_read_lock > 0
    \/ ticket_head # ticket_tail

TryAcquire(p, f) ==
    /\ MayCall(p, f, "TRYACQUIRE")
    /\ n_read_lock < MaxReads
    /\ \/ /\ Busy(f)
          /\ Return(p, "EBUSY")
          /\ UNCHANGED <<n_write_lock, n_read_lock, locked>>
       \/ /\ ~Busy(f)
          /\ Return(p, "ok")
          /\ locked' = locked \cup {f}
          /\ IF f \in Writable
                THEN n_write_lock' = n_write_lock + 1 /\ UNCHANGED n_read_lock
                ELSE n_read_lock' = n_read_lock + 1 /\ UNCHANGED n_write_lock
    /\ UNCHANGED <<ticket_head, ticket_tail, write_lock_pid,
                   read_lock_pid_list, opened>>

\* Mutant: always a read lock fewer.
UncountRead(f) == n_read_lock' = n_read_lock - 1 /\ UNCHANGED n_write_lock

\* One lock fewer, of the kind that f holds.
Uncount(f) ==
    IF f \in Writable
       THEN n_write_lock' = n_write_lock - 1 /\ UNCHANGED n_read_lock
       ELSE n_read_lock' = n_read_lock - 1 /\ UNCHANGED n_write_lock

\* f_flags is tested before the mutex is taken.
ReleaseTest(p, f) ==
    /\ MayCall(p, f, "RELEASE")
    /\ \/ f \notin locked /\ Return(p, "EINVAL")
       \/ /\ f \in locked
          /\ GoTo(p, "release")
          /\ filp' = [filp EXCEPT ![p] = f]
          /\ KernelLock(p)
          /\ UNCHANGED <<my_ticket, ret>>
    /\ UNCHANGED <<device, files>>

\* The section itself; the pid bookkeeping of the lock is left as it is.
ReleaseSection(p) ==
    /\ At(p, "release")
    /\ Uncount(filp[p])
    /\ locked' = locked \ {filp[p]}
    /\ Return(p, "ok")
    /\ UNCHANGED <<ticket_head, ticket_tail, write_lock_pid,
                   read_lock_pid_list, opened>>

-----------------------------------------------------------------------------
(* open() and the last close()                                              *)

Open(p, f) ==
    /\ pc[p] = "user"
    /\ p \in Users[f]
    /\ f \notin opened
    /\ opened' = opened \cup {f}
    /\ locked' = locked \ {f}
    /\ UNCHANGED <<device, pc, filp, my_ticket, ret, bkl>>

\* The removal loop of osprd_close_last(): slow starts at the head like fast,
\* so a match at the head unlinks nothing; elsewhere the first match goes.
RemovePid(list, p) ==
    LET first == {i \in 2..Len(list) :
                     list[i] = p /\ \A j \in 1..(i - 1) : list[j] # p}
    IN  IF first = {} THEN list ELSE RemoveAt(list, CHOOSE i \in first : TRUE)

\* osprd_close_last() runs when nobody is inside an ioctl on f any more.
CloseLast(p, f) ==
    /\ "CLOSE" \in Ops
    /\ pc[p] = "user"
    /\ p \in Users[f]
    /\ f \in opened
    /\ \A q \in Proc : filp[q] # f
    /\ opened' = opened \ {f}
    /\ locked' = locked \ {f}
    /\ \/ /\ f \notin locked
          /\ UNCHANGED device
       \/ /\ f \in locked
          /\ Uncount(f)
          /\ write_lock_pid' = IF f \in Writable THEN Nil ELSE write_lock_pid
          /\ read_lock_pid_list' =
                IF f \in Writable THEN read_lock_pid_list
                                  ELSE RemovePid(read_lock_pid_list, p)
          /\ UNCHANGED <<ticket_head, ticket_tail>>
    /\ UNCHANGED <<pc, filp, my_ticket, ret, bkl>>

-----------------------------------------------------------------------------

\* What p does inside the driver, without being asked again.
KernelStep(p) ==
    \/ AcquireWarCheck(p)
    \/ LoadNRead(p)
    \/ LoadNWrite(p)
    \/ LoadTicket(p)
    \/ Reschedule(p)
    \/ Grant(p)
    \/ AdvanceTail(p)
    \/ ReleaseSection(p)

\* What p may ask for in user mode.
UserCall(p, f) ==
    \/ Open(p, f)
    \/ AcquireOwnWrite(p, f)
    \/ AcquireTicket(p, f)
    \/ TryAcquire(p, f)
    \/ ReleaseTest(p, f)
    \/ CloseLast(p, f)

Next ==
    \E p \in Proc :
        \/ KernelStep(p)
        \/ \E f \in File : UserCall(p, f)

Spec == Init /\ [][Next]_vars

-----------------------------------------------------------------------------
(* Properties.  The comment at osprd.c:263-296 says what the lock promises. *)

\* p has taken a ticket and has not been granted the lock yet.
Waiting(p) ==
    pc[p] \in {"war", "ld_nread", "ld_nwrite", "ld_ticket", "spin", "grant"}

\* p has a ticket that it will still have served.
Ticketed(p) == Waiting(p) \/ pc[p] = "advance"

\* A write-locked file is the only locked file of the ramdisk.
MutualExclusion == \A f \in locked \cap Writable : locked = {f}

\* The counts that CONDITION tests never miss a lock that is held: the write
\* count is exact, the read count at least the number of read-locked files.
CountsSound ==
    /\ n_write_lock = Cardinality(locked \cap Writable)
    /\ n_read_lock >= Cardinality(locked \ Writable)

\* The counts are the numbers of files that hold a lock (osprd.c:279): so for
\* clients that lock each file once.
CountsExact ==
    /\ n_write_lock = Cardinality(locked \cap Writable)
    /\ n_read_lock = Cardinality(locked \ Writable)

\* A step that grants the lock grants it to the oldest outstanding ticket;
\* TRYACQUIRE, which takes none, succeeds only if none is outstanding.
GrantsOldest ==
    /\ \A p \in Proc :
          pc[p] = "grant" /\ pc'[p] = "advance" =>
             \A q \in Proc \ {p} : Waiting(q) => my_ticket[p] < my_ticket[q]
    /\ n_write_lock' + n_read_lock' > n_write_lock + n_read_lock /\ pc' = pc
          => \A q \in Proc : ~Waiting(q)

\* Requests are served in the order of their tickets: nobody is granted the
\* lock, by ACQUIRE or by TRYACQUIRE, before a process with an older ticket.
NoOvertaking == [][GrantsOldest]_vars

\* A process that the driver knows to hold a conflicting lock never waits for
\* it: the checks made when it asked still hold as long as it waits.
KnownHolderNeverWaits ==
    \A p \in Proc : Waiting(p) /\ pc[p] # "war" =>
        /\ write_lock_pid # p
        /\ filp[p] \in Writable => ~Contains(read_lock_pid_list, p)

-----------------------------------------------------------------------------
(* The inductive invariant behind MutualExclusion, CountsSound and          *)
(* NoOvertaking when the kernel serialises the ioctls (Bkl).                *)

\* Whoever is inside the driver, and not in schedule(), has the kernel lock.
KernelInv == \A p \in Proc : pc[p] \notin {"user", "spin"} => bkl = p

\* Locks and ioctls are on open files; RELEASE works on a locked one.
FileInv ==
    /\ locked \subseteq opened
    /\ \A p \in Proc :
          /\ pc[p] # "user" => filp[p] \in opened
          /\ pc[p] = "release" => filp[p] \in locked

\* Outstanding tickets are distinct and lie between tail and head.
TicketInv ==
    /\ ticket_tail <= ticket_head
    /\ \A p \in Proc : Ticketed(p) =>
          /\ ticket_tail <= my_ticket[p] /\ my_ticket[p] < ticket_head
          /\ \A q \in Proc \ {p} : Ticketed(q) => my_ticket[p] # my_ticket[q]

\* What the loads of CONDITION found is still so when it is relied upon.
TestInv ==
    \A p \in Proc :
        /\ pc[p] \in {"ld_nwrite", "ld_ticket", "grant"}
              /\ filp[p] \in Writable => n_read_lock = 0
        /\ pc[p] \in {"ld_ticket", "grant"} => n_write_lock = 0
        /\ pc[p] \in {"grant", "advance"} => my_ticket[p] = ticket_tail

IInv ==
    /\ TypeOK
    /\ KernelInv
    /\ FileInv
    /\ TicketInv
    /\ TestInv
    /\ CountsSound
    /\ MutualExclusion
=============================================================================
