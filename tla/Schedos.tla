------------------------------ MODULE Schedos ------------------------------
(***************************************************************************)
(* SchedOS (weensyos2): the preemptive kernel of schedos-kern.c with its   *)
(* three scheduling algorithms, running the applications of schedos-1.c,   *)
(* which print to the shared console under a spin lock.                    *)
(*                                                                         *)
(* The kernel runs with interrupts off, so a system call or a clock tick   *)
(* is one step.  Applications are preempted between any two accesses to    *)
(* shared memory.                                                          *)
(***************************************************************************)
EXTENDS Integers, FiniteSets

CONSTANTS
    NPROCS,         \* size of proc_array; descriptor 0 is never used
    RUNCOUNT,       \* characters each application prints
    Algorithms,     \* values of scheduling_algorithm to consider
    StartPriority,  \* priorities start() may set: a set of functions on Apps
    LockMemory,     \* what memory may hold at &lock when the applications start
    Settable        \* priorities an application may ask for

Pids == 0..(NPROCS - 1)
Apps == 1..(NPROCS - 1)

ASSUME SchedosAssumption ==
    /\ NPROCS \in Nat /\ NPROCS > 1
    /\ RUNCOUNT \in Nat
    /\ Algorithms \subseteq {0, 1, 2}
    /\ StartPriority \subseteq [Apps -> Nat]
    /\ LockMemory \subseteq {0, 1}
    /\ Settable \subseteq Nat

VARIABLES
    scheduling_algorithm,
    p_state, p_priority,  \* per process descriptor
    current,              \* running process; 0 when schedule() spins for ever
    lock, cursorpos,      \* the variables the applications share
    console,              \* the cells of the console that hold a character
    at, i, tmp            \* per application: next instruction, loop counter,
                          \* the copy of cursorpos it works on

app    == <<lock, cursorpos, console, at, i, tmp>>
kernel == <<scheduling_algorithm, p_state, p_priority, current>>
vars   == <<scheduling_algorithm, p_state, p_priority, current,
            lock, cursorpos, console, at, i, tmp>>

Cells == 0..((NPROCS - 1) * RUNCOUNT)

TypeOK ==
    /\ scheduling_algorithm \in Algorithms
    /\ p_state \in [Pids -> {"EMPTY", "RUNNABLE", "ZOMBIE"}]
    /\ p_priority \in [Pids -> Nat]
    /\ current \in Pids
    /\ lock \in {0, 1}
    /\ cursorpos \in Cells
    /\ console \subseteq Cells
    /\ at \in [Apps -> {"swap", "load", "put", "inc", "unlock", "yield"}]
    /\ i \in [Apps -> 0..RUNCOUNT]
    /\ tmp \in [Apps -> Cells]

\* start(): run() does not return, so the assignment lock = 0 after it is
\* never executed and the applications find whatever memory held.
Init ==
    /\ scheduling_algorithm \in Algorithms
    /\ p_state = [p \in Pids |-> IF p = 0 THEN "EMPTY" ELSE "RUNNABLE"]
    /\ \E start \in StartPriority :
          p_priority = [p \in Pids |-> IF p = 0 THEN 0 ELSE start[p]]
    /\ current = 1
    /\ lock \in LockMemory
    /\ cursorpos = 0
    /\ console = {}
    /\ at = [p \in Apps |-> "swap"]
    /\ i = [p \in Apps |-> 0]
    /\ tmp = [p \in Apps |-> 0]

-----------------------------------------------------------------------------
(* schedule(): whom it runs, given the process states st after the call.    *)

Runnable(st) == {p \in Pids : st[p] = "RUNNABLE"}

\* How many processes a scan that starts after pid passes before q.
Distance(pid, q) == (q - pid - 1) % NPROCS

\* The first runnable process after pid, going round the table.
RoundRobin(pid, ready) ==
    CHOOSE q \in ready : \A r \in ready : Distance(pid, q) <= Distance(pid, r)

\* The lowest-numbered process of the highest priority (the smallest value).
Highest(ready) ==
    CHOOSE p \in ready : \A q \in ready :
        \/ p_priority[p] < p_priority[q]
        \/ p_priority[p] = p_priority[q] /\ p <= q

\* Mutant: equal priority comes before higher priority.
PriorityPassEqualFirst(pid, ready) ==
    LET equals == {p \in ready : p_priority[p] = p_priority[pid]}
    IN  IF equals # {} THEN RoundRobin(pid, equals) ELSE Highest(ready)

\* One pass of algorithm 2's loop from pid: a process of strictly higher
\* priority; else the next one of the same priority; else the next process if
\* it is runnable; else none (0).
PriorityPass(pid, ready) ==
    LET equals == {p \in ready : p_priority[p] = p_priority[pid]}
        next   == (pid + 1) % NPROCS
    IN  IF p_priority[Highest(ready)] < p_priority[pid] THEN Highest(ready)
        ELSE IF equals # {} THEN RoundRobin(pid, equals)
        ELSE IF next \in ready THEN next
        ELSE 0

\* The loop goes on from pid + 1 until a pass finds somebody.
PrioritySearch(pid, ready) ==
    LET pass(k) == PriorityPass((pid + k) % NPROCS, ready)
        rounds  == CHOOSE k \in 0..NPROCS : pass(k) # 0 /\ \A j \in 0..(k - 1) : pass(j) = 0
    IN  pass(rounds)

\* With nobody runnable all three loops spin for ever.  (An algorithm it does
\* not know, which schedule() reports on the console before it spins, is left
\* out by SchedosAssumption.)
Pick(ready) ==
    CASE ready # {} /\ scheduling_algorithm = 0 -> RoundRobin(current, ready)
      [] ready # {} /\ scheduling_algorithm = 1 -> RoundRobin(0, ready)
      [] ready # {} /\ scheduling_algorithm = 2 -> PrioritySearch(current, ready)
      [] OTHER -> 0

schedule(st) == \E ready \in {Runnable(st)} : current' = Pick(ready)

-----------------------------------------------------------------------------
(* interrupt()                                                              *)

\* INT_CLOCK: the running application is preempted where it is.
Clock ==
    /\ current # 0
    /\ schedule(p_state)
    /\ UNCHANGED <<scheduling_algorithm, p_state, p_priority, app>>

\* INT_SYS_EXIT
SysExit(p) ==
    /\ current = p
    /\ at[p] = "swap"
    /\ i[p] = RUNCOUNT
    /\ p_state' = [p_state EXCEPT ![p] = "ZOMBIE"]
    /\ schedule(p_state')
    /\ UNCHANGED <<scheduling_algorithm, p_priority, app>>

\* INT_SYS_USER1 with priority v in %eax.  (INT_SYS_USER2, which the library's
\* sys_set_priority() raises instead, does nothing.)
SysUser1(p, v) ==
    /\ current = p
    /\ at[p] = "swap"
    /\ p_priority' = [p_priority EXCEPT ![p] = v]
    /\ UNCHANGED <<scheduling_algorithm, p_state, current, app>>

-----------------------------------------------------------------------------
(* The application: start() of schedos-1.c.                                 *)

Goto(p, l) == at' = [at EXCEPT ![p] = l]

\* Mutant: the loop runs once too often.
SwapOneMore(p) ==
    /\ at[p] = "swap"
    /\ i[p] <= RUNCOUNT
    /\ lock' = 1
    /\ Goto(p, IF lock = 0 THEN "load" ELSE "swap")
    /\ UNCHANGED <<cursorpos, console, i, tmp>>

\* Mutant: the result of the swap is not tested.
SwapUntested(p) ==
    /\ at[p] = "swap"
    /\ i[p] < RUNCOUNT
    /\ lock' = 1
    /\ Goto(p, "load")
    /\ UNCHANGED <<cursorpos, console, i, tmp>>

\* while(atomic_swap(&lock,1)!=0) continue;
Swap(p) ==
    /\ at[p] = "swap"
    /\ i[p] < RUNCOUNT
    /\ lock' = 1
    /\ Goto(p, IF lock = 0 THEN "load" ELSE "swap")
    /\ UNCHANGED <<cursorpos, console, i, tmp>>

\* *cursorpos++ = PRINTCHAR is three accesses to shared memory.
LoadCursor(p) ==
    /\ at[p] = "load"
    /\ tmp' = [tmp EXCEPT ![p] = cursorpos]
    /\ Goto(p, "put")
    /\ UNCHANGED <<lock, cursorpos, console, i>>

PutChar(p) ==
    /\ at[p] = "put"
    /\ console' = console \cup {tmp[p]}
    /\ Goto(p, "inc")
    /\ UNCHANGED <<lock, cursorpos, i, tmp>>

StoreCursor(p) ==
    /\ at[p] = "inc"
    /\ cursorpos' = tmp[p] + 1
    /\ tmp' = [tmp EXCEPT ![p] = 0]
    /\ Goto(p, "unlock")
    /\ UNCHANGED <<lock, console, i>>

\* Mutant: the lock is not given back.
UnlockForgotten(p) ==
    /\ at[p] = "unlock"
    /\ Goto(p, "yield")
    /\ UNCHANGED <<lock, cursorpos, console, i, tmp>>

Unlock(p) ==
    /\ at[p] = "unlock"
    /\ lock' = 0
    /\ Goto(p, "yield")
    /\ UNCHANGED <<cursorpos, console, i, tmp>>

\* sys_yield(), INT_SYS_YIELD, and the loop's i++.
Yield(p) ==
    /\ at[p] = "yield"
    /\ i' = [i EXCEPT ![p] = @ + 1]
    /\ Goto(p, "swap")
    /\ schedule(p_state)
    /\ UNCHANGED <<scheduling_algorithm, p_state, p_priority, lock, cursorpos,
                   console, tmp>>

Instruction(p) ==
    /\ current = p
    /\ \/ /\ Swap(p) \/ LoadCursor(p) \/ PutChar(p) \/ StoreCursor(p) \/ Unlock(p)
          /\ UNCHANGED kernel
       \/ Yield(p)

Run(p) == Instruction(p) \/ SysExit(p)

Next ==
    \/ Clock
    \/ \E p \in Apps :
          \/ Run(p)
          \/ \E v \in Settable : SysUser1(p, v)

Spec == Init /\ [][Next]_vars

\* A process that gets the CPU again and again executes instructions: the
\* clock ticks every 10 ms, an instruction takes nanoseconds.  And the clock
\* never stops.
FairSpec ==
    /\ Spec
    /\ WF_vars(Clock)
    /\ \A p \in Apps : SF_vars(Run(p))

-----------------------------------------------------------------------------

\* Characters p has put on the console for good.
Printed(p) == i[p] + IF at[p] \in {"unlock", "yield"} THEN 1 ELSE 0

\* <<p, k>> stands for the k-th character that p has printed.
PrintedChars == {c \in Apps \X (1..RUNCOUNT) : c[2] <= Printed(c[1])}

\* Every character printed has a cell of its own and the cursor is behind the
\* last one: no update of cursorpos and no cell is lost however the clock
\* interrupts the applications.
NoLostOutput ==
    /\ cursorpos = Cardinality(PrintedChars)
    /\ 0..(cursorpos - 1) \subseteq console

\* A switch of algorithm 2, by the clock, a yield or an exit, is to a process
\* of the highest priority among the runnable ones, but for one case: when a
\* process exits that outranks all the others, whoever comes next in the table
\* may run (schedos-kern.c:242-246).
BestOfAll ==
    \A q \in Runnable(p_state') : p_priority[current'] <= p_priority[q]

OutrankedAllAndExits ==
    /\ p_state'[current] = "ZOMBIE"
    /\ \A q \in Runnable(p_state') : p_priority[current] < p_priority[q]

PicksHighest ==
    [][scheduling_algorithm = 2 /\ current' # current
          => BestOfAll \/ OutrankedAllAndExits]_vars

\* Each application prints its RUNCOUNT characters and exits.
AllFinish == \A p \in Apps : <>(p_state[p] = "ZOMBIE" /\ i[p] = RUNCOUNT)

\* So it is under round robin, under strict order, and under priorities as
\* long as all are equal.
AllFinishUnlessPriorities ==
    [](scheduling_algorithm = 2 =>
          \A p, q \in Apps : p_priority[p] = p_priority[q]) => AllFinish

-----------------------------------------------------------------------------
(* The inductive invariant behind TypeOK, NoLostOutput and PicksHighest.    *)

\* p is between the swap that took the lock and the store that frees it.
Critical(p) == at[p] \in {"load", "put", "inc", "unlock"}

\* One application at a time is there, and the lock says so.
LockInv ==
    \A p \in Apps : Critical(p) =>
        /\ lock = 1
        /\ \A q \in Apps : Critical(q) => q = p

\* Inside, nobody else moves the cursor and the loop has a round to go.
CursorInv ==
    \A p \in Apps :
        /\ at[p] \in {"put", "inc"} => tmp[p] = cursorpos
        /\ at[p] = "inc" => cursorpos \in console
        /\ at[p] # "swap" => i[p] < RUNCOUNT

\* The scheduler runs runnable applications only.
CurrentInv ==
    /\ p_state[0] = "EMPTY"
    /\ current # 0 => p_state[current] = "RUNNABLE"

IInv ==
    /\ TypeOK
    /\ LockInv
    /\ CursorInv
    /\ CurrentInv
    /\ NoLostOutput
=============================================================================
