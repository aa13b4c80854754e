---------------------------- MODULE OsprdAccess ----------------------------
(***************************************************************************)
(* osprdaccess processes at work on one ramdisk.  Each goes through its    *)
(* arguments: it opens a device and locks it as the options so far say,    *)
(* goes around for the next one, transfers sector after sector of the last *)
(* one and exits, which closes all its files.  A process may name this     *)
(* ramdisk several times, and others ("elsewhere") in between.  Any of     *)
(* them may be killed on the way.                                          *)
(* Composes the driver's lock (Osprd) with its request function            *)
(* osprd_process_request() and with the program lab2/osprdaccess.c.        *)
(***************************************************************************)
EXTENDS Osprd

CONSTANTS
    Args,      \* Args[p]: for each device p names, the file slot it gets and
               \* the lock it asks for: -l, -L or neither.  The slot says
               \* whether -w or -r is in force; Nil is another ramdisk
    Size,      \* Size[p]: sectors to transfer
    nsectors   \* sectors of the ramdisk (32 in the code)

Argument == [file : File \cup {Nil}, lock : {"ACQUIRE", "TRYACQUIRE", "none"}]

\* Each open() makes a file of its own, and no option takes back -l or -L.
ASSUME ClientAssumption ==
    /\ Args \in [Proc -> Seq(Argument)]
    /\ \A p \in Proc : Args[p] # <<>>
    /\ \A p \in Proc : \A i \in DOMAIN Args[p] :
          /\ Args[p][i].file # Nil => Users[Args[p][i].file] = {p}
          /\ \A j \in 1..(i - 1) :
                /\ Args[p][i].file # Nil => Args[p][j].file # Args[p][i].file
                /\ Args[p][i].lock = "none" => Args[p][j].lock = "none"
    /\ Size \in [Proc -> Nat]
    /\ nsectors \in Nat

VARIABLES
    data,      \* the disk: which process last wrote each sector, or Nil
    phase,     \* where osprdaccess's main() is
    round,     \* which of its devices main() is about
    pos,       \* next sector to transfer
    buf,       \* what a reader has read so far
    abandoned  \* history: the tickets of requests refused after taking one

client == <<data, phase, round, pos, buf>>
avars  == <<vars, client, abandoned>>

Sector == 0..(nsectors - 1)
Phases == {"open", "opened", "locking", "transfer", "exit", "done"}

ATypeOK ==
    /\ data \in [Sector -> Proc \cup {Nil}]
    /\ phase \in [Proc -> Phases]
    /\ round \in [Proc -> Nat \ {0}]
    /\ \A p \in Proc : round[p] <= Len(Args[p])
    /\ pos \in [Proc -> 0..nsectors]
    /\ buf \in [Proc -> Seq(Proc \cup {Nil})]
    /\ abandoned \subseteq Nat

AInit ==
    /\ Init
    /\ data = [s \in Sector |-> Nil]
    /\ phase = [p \in Proc |-> "open"]
    /\ round = [p \in Proc |-> 1]
    /\ pos = [p \in Proc |-> 0]
    /\ buf = [p \in Proc |-> <<>>]
    /\ abandoned = {}

\* devfd and the lock option of the round p is in.
Here(p)   == Args[p][round[p]].file
LockOf(p) == Args[p][round[p]].lock

\* The files of p that are still open, as indices of its arguments.
StillOpen(p) == {i \in DOMAIN Args[p] : Args[p][i].file \in opened}

MoveTo(p, ph) == phase' = [phase EXCEPT ![p] = ph]

\* More arguments: go around for the next ramdisk; else the transfer starts.
NextDevice(p) ==
    \/ /\ round[p] < Len(Args[p])
       /\ MoveTo(p, "open")
       /\ round' = [round EXCEPT ![p] = @ + 1]
    \/ /\ round[p] = Len(Args[p])
       /\ MoveTo(p, "transfer")
       /\ UNCHANGED round

-----------------------------------------------------------------------------

\* open() gives a file, or fails for want of memory or permission: exit(1).
OpenDevice(p) ==
    /\ phase[p] = "open"
    /\ Here(p) # Nil
    /\ \/ Open(p, Here(p)) /\ MoveTo(p, "opened")
       \/ MoveTo(p, "exit") /\ UNCHANGED vars
    /\ UNCHANGED <<data, round, pos, buf, abandoned>>

\* A round on another ramdisk: it may fail there, wait there for ever, or
\* come back; if that device is the last one it is the one transferred.
Elsewhere(p) ==
    /\ phase[p] = "open"
    /\ Here(p) = Nil
    /\ \/ round[p] < Len(Args[p]) /\ NextDevice(p)
       \/ MoveTo(p, "exit") /\ UNCHANGED round
    /\ UNCHANGED <<vars, data, pos, buf, abandoned>>

\* -l or -L: the ioctl; without either p goes on unlocked.
LockDevice(p) ==
    /\ phase[p] = "opened"
    /\ \/ /\ LockOf(p) = "ACQUIRE"
          /\ AcquireOwnWrite(p, Here(p)) \/ AcquireTicket(p, Here(p))
          /\ MoveTo(p, "locking")
          /\ UNCHANGED round
       \/ /\ LockOf(p) = "TRYACQUIRE"
          /\ TryAcquire(p, Here(p))
          /\ MoveTo(p, "locking")
          /\ UNCHANGED round
       \/ /\ LockOf(p) = "none"
          /\ NextDevice(p)
          /\ UNCHANGED vars
    /\ UNCHANGED <<data, pos, buf, abandoned>>

\* The ioctl is back in main(): exit(1) on an error.
LockResult(p) ==
    /\ phase[p] = "locking"
    /\ pc[p] = "user"
    /\ \/ ret[p] = "ok" /\ NextDevice(p)
       \/ ret[p] # "ok" /\ MoveTo(p, "exit") /\ UNCHANGED round
    /\ UNCHANGED <<vars, data, pos, buf, abandoned>>

\* Mutant: the end of the device is checked for reads only.
ProcessRequestPastEnd(p, sector) ==
    \/ /\ Here(p) \in Writable
       /\ data' = [data EXCEPT ![sector] = p]
       /\ UNCHANGED buf
    \/ /\ Here(p) \notin Writable
       /\ sector + 1 <= nsectors
       /\ buf' = [buf EXCEPT ![p] = Append(@, data[sector])]
       /\ UNCHANGED data

\* osprd_process_request() for one sector of p's last file, in range.
ProcessRequest(p, sector) ==
    /\ sector + 1 <= nsectors
    /\ \/ /\ Here(p) \in Writable
          /\ data' = [data EXCEPT ![sector] = p]
          /\ UNCHANGED buf
       \/ /\ Here(p) \notin Writable
          /\ buf' = [buf EXCEPT ![p] = Append(@, data[sector])]
          /\ UNCHANGED data

TransferSector(p) ==
    /\ phase[p] = "transfer"
    /\ pos[p] < Size[p]
    /\ ProcessRequest(p, pos[p])
    /\ pos' = [pos EXCEPT ![p] = @ + 1]
    /\ UNCHANGED <<vars, phase, round, abandoned>>

\* All transferred, or the end of the device: ENOSPC ends a write and a
\* read returns 0; a request past the end moves no data either way.
TransferEnd(p) ==
    /\ phase[p] = "transfer"
    /\ pos[p] = Size[p] \/ pos[p] + 1 > nsectors
    /\ MoveTo(p, "exit")
    /\ UNCHANGED <<vars, data, round, pos, buf, abandoned>>

\* Mutant: only the file of the last device is closed.
ExitCloseLast(p) ==
    /\ phase[p] = "exit"
    /\ \/ Here(p) \in opened /\ CloseLast(p, Here(p)) /\ UNCHANGED phase
       \/ Here(p) \notin opened /\ MoveTo(p, "done") /\ UNCHANGED vars
    /\ UNCHANGED <<data, round, pos, buf, abandoned>>

\* The kernel closes the files of a process that has ended, in the order of
\* their descriptors.
ExitClose(p) ==
    /\ phase[p] = "exit"
    /\ \/ /\ \E i \in StillOpen(p) :
                /\ \A j \in StillOpen(p) : i <= j
                /\ CloseLast(p, Args[p][i].file)
          /\ UNCHANGED phase
       \/ /\ StillOpen(p) = {}
          /\ MoveTo(p, "done")
          /\ UNCHANGED vars
    /\ UNCHANGED <<data, round, pos, buf, abandoned>>

\* kill -9.  A process spinning in ACQUIRE does not notice: it ends when the
\* ioctl has returned, with the lock it then has.
Kill(p) ==
    /\ "KILL" \in Ops
    /\ phase[p] \in {"open", "opened", "locking", "transfer"}
    /\ MoveTo(p, "exit")
    /\ UNCHANGED <<vars, data, round, pos, buf, abandoned>>

\* The driver goes on; a request it refuses here leaves its ticket behind.
InDriver(p) ==
    /\ KernelStep(p)
    /\ abandoned' = IF pc[p] = "war" /\ pc'[p] = "user"
                       THEN abandoned \cup {my_ticket[p]} ELSE abandoned
    /\ UNCHANGED client

Program(p) ==
    \/ OpenDevice(p)
    \/ LockDevice(p)
    \/ LockResult(p)
    \/ TransferSector(p)
    \/ TransferEnd(p)
    \/ ExitClose(p)

ANext == \E p \in Proc : InDriver(p) \/ Program(p) \/ Elsewhere(p) \/ Kill(p)

ASpec == AInit /\ [][ANext]_avars

\* Fairness is the scheduler's: a process that can run again and again, in
\* the driver or in the program, does run.  None is assumed of other ramdisks.
AFairSpec == ASpec /\ \A p \in Proc : SF_avars(InDriver(p) \/ Program(p))

-----------------------------------------------------------------------------

\* What a process has read or written under its lock stays as it is until it
\* gives the lock up, also when other processes are killed half way.
LockedIoIsolated ==
    \A p \in Proc :
        phase[p] = "transfer" /\ LockOf(p) # "none" =>
            \A s \in 0..(pos[p] - 1) :
                data[s] = IF Here(p) \in Writable THEN p ELSE buf[p][s + 1]

\* While tickets are outstanding, the one being served belongs to a process
\* that is still in ACQUIRE and will pass it on; or to a request refused
\* after it took its ticket (osprd.c:319-322), and then nobody passes it on.
ServedTicketAccounted ==
    ticket_head # ticket_tail =>
        \/ \E p \in Proc : Ticketed(p) /\ my_ticket[p] = ticket_tail
        \/ ticket_tail \in abandoned

\* When all are gone the ramdisk is free, and no ticket is outstanding but
\* those of refused requests.
AllReturned ==
    (\A p \in Proc : phase[p] = "done") =>
        /\ locked = {}
        /\ n_write_lock = 0
        /\ n_read_lock = 0
        /\ ticket_tail..(ticket_head - 1) \subseteq abandoned

\* p waits here for a lock while it holds one on the same ramdisk.
Nested(p) == Waiting(p) /\ \E i \in DOMAIN Args[p] : Args[p][i].file \in locked

Away(p) == phase[p] = "open" /\ Here(p) = Nil

\* Every osprdaccess ends, whoever is refused, killed or overtaken in the
\* scheduler's queues, unless the queue stands at a refused request's ticket,
\* somebody waits for a second lock of the ramdisk while it has one (for
\* itself, osprd.c:284, or behind a writer that waits for it), or somebody
\* stays at another ramdisk for ever.
EveryoneEnds ==
    <>[](\/ \A p \in Proc : phase[p] = "done"
         \/ ticket_tail \in abandoned
         \/ \E p \in Proc : Nested(p) \/ Away(p))

-----------------------------------------------------------------------------
(* The inductive invariant behind these properties.                         *)

\* What the program of p, where it is, knows about its file and its lock.
ClientInv(p) ==
    /\ phase[p] \in {"opened", "locking", "transfer"} => Here(p) \in opened
    /\ phase[p] = "transfer" => round[p] = Len(Args[p])
    /\ phase[p] = "done" => StillOpen(p) = {}
    /\ pc[p] # "user" => /\ filp[p] = Here(p)
                         /\ Here(p) \in opened
                         /\ phase[p] \in {"locking", "exit"}
                         /\ pc[p] # "release"
    /\ phase[p] = "opened" \/ Waiting(p) => Here(p) \notin locked
    /\ pc[p] = "advance" => Here(p) \in locked
    /\ phase[p] = "locking" /\ pc[p] = "user" /\ ret[p] = "ok" =>
          Here(p) \in locked
    /\ phase[p] = "transfer" /\ LockOf(p) # "none" => Here(p) \in locked
    /\ phase[p] \in {"open", "opened", "locking"} =>
          pos[p] = 0 /\ buf[p] = <<>>
    /\ phase[p] = "transfer" /\ Here(p) \notin Writable =>
          Len(buf[p]) = pos[p]

\* Files are open, and locked, for a client.
ClientFiles ==
    /\ \A f \in opened : \E p \in Proc : \E i \in DOMAIN Args[p] :
          f = Args[p][i].file
    /\ locked \subseteq opened

\* Each outstanding ticket has its owner in ACQUIRE or was left behind.
TicketsOwned ==
    \A t \in ticket_tail..(ticket_head - 1) :
        \/ \E p \in Proc : Ticketed(p) /\ my_ticket[p] = t
        \/ t \in abandoned

AInv ==
    /\ ATypeOK
    /\ \A p \in Proc : ClientInv(p)
    /\ ClientFiles
    /\ CountsExact
    /\ TicketsOwned
=============================================================================
