-------------------------------- MODULE Mpos --------------------------------
(***************************************************************************)
(* MiniprocOS (weensyos1): the cooperative kernel of mpos-kern.c with its  *)
(* system calls fork, yield, exit and wait.  Processes are arbitrary: the  *)
(* running one makes any call.  The kernel runs with interrupts off and    *)
(* nothing preempts a process, so a system call is one step.               *)
(***************************************************************************)
EXTENDS Integers, FiniteSets

CONSTANTS
    NPROCS,    \* size of proc_array; descriptor 0 is never used
    Status,    \* exit statuses processes use
    PROC1_STACK_ADDR, PROC_STACK_SIZE,   \* the stacks: a region per process
    Depths,    \* how deep in its stack a process may be when it forks
    MaxForks,  \* bound: calls of fork in a behaviour
    OneRound   \* do the processes fork only as long as none has exited?

Pids  == 0..(NPROCS - 1)
Procs == 1..(NPROCS - 1)
Null  == 0

ASSUME MposAssumption ==
    /\ NPROCS \in Nat /\ NPROCS > 2
    /\ Status \subseteq Int
    /\ MaxForks \in Nat
    /\ {PROC1_STACK_ADDR, PROC_STACK_SIZE} \subseteq Nat
    /\ Depths \subseteq 1..PROC_STACK_SIZE
    /\ OneRound \in BOOLEAN

VARIABLES
    p_state,     \* descriptor state; ZOMBIE never survives the exit call
    reg_eax,     \* saved %eax: the result of the call the process is in
    reg_esp,     \* saved %esp: where the process is in its stack
    queue,       \* the process to wake on exit, or Null
    current,     \* the running process; Null when schedule() spins for ever
    call,        \* the system call each process made last ("child" in a child
                 \* that has not made one)
    awaited,     \* the process it waits, or waited, for
    forks,       \* number of forks so far
    exited,      \* has any process exited yet?
    intact       \* nothing was written outside proc_array

kernel == <<p_state, reg_eax, reg_esp, queue, current, intact>>
vars   == <<kernel, call, awaited, forks, exited>>

stack_top(p) == PROC1_STACK_ADDR + p * PROC_STACK_SIZE

\* p is in the stack that belongs to its descriptor.
InStack(p) == reg_esp[p] \in (stack_top(p) - PROC_STACK_SIZE)..stack_top(p)

TypeOK ==
    /\ p_state \in [Pids -> {"EMPTY", "RUNNABLE", "BLOCKED"}]
    /\ p_state[0] = "EMPTY"
    /\ reg_eax \in [Pids -> Int]
    /\ reg_esp \in [Pids -> Int]
    /\ \A p \in Procs : p_state[p] # "EMPTY" => InStack(p)
    /\ queue \in [Pids -> Pids]
    /\ current \in Pids
    /\ call \in [Pids -> {"none", "getpid", "fork", "child", "yield", "exit", "wait"}]
    /\ awaited \in [Pids -> Pids]
    /\ forks \in Nat
    /\ exited \in BOOLEAN
    /\ intact \in BOOLEAN

\* start(): all descriptors empty, process 1 running.
Init ==
    /\ p_state = [p \in Pids |-> IF p = 1 THEN "RUNNABLE" ELSE "EMPTY"]
    /\ reg_eax = [p \in Pids |-> 0]
    /\ reg_esp = [p \in Pids |-> IF p = 1 THEN PROC1_STACK_ADDR + PROC_STACK_SIZE ELSE 0]
    /\ queue = [p \in Pids |-> Null]
    /\ current = 1
    /\ call = [p \in Pids |-> "none"]
    /\ awaited = [p \in Pids |-> Null]
    /\ forks = 0
    /\ exited = FALSE
    /\ intact = TRUE

-----------------------------------------------------------------------------

\* How many descriptors a scan that starts after pid passes before q.
Distance(pid, q) == (q - pid - 1) % NPROCS

\* The first process of set S after pid, going round the table.
FirstAfter(pid, S) ==
    CHOOSE q \in S : \A r \in S : Distance(pid, q) <= Distance(pid, r)

\* Mutant: the search always starts at the first descriptor.
scheduleFromStart(st) ==
    \E ready \in {{p \in Pids : st[p] = "RUNNABLE"}} :
        current' = IF ready = {} THEN Null ELSE FirstAfter(0, ready)

\* schedule(), given the process states st the call leaves behind.
schedule(st) ==
    \E ready \in {{p \in Pids : st[p] = "RUNNABLE"}} :
        current' = IF ready = {} THEN Null ELSE FirstAfter(current, ready)

\* p is running user code.  A process that was made runnable again after its
\* exit call is in the endless loop behind it instead.
Running(p) == current = p /\ intact /\ call[p] # "exit"

Enter(p, c) == call' = [call EXCEPT ![p] = c]

\* INT_SYS_GETPID
SysGetpid(p) ==
    /\ Running(p)
    /\ Enter(p, "getpid")
    /\ reg_eax' = [reg_eax EXCEPT ![p] = p]
    /\ UNCHANGED <<p_state, reg_esp, queue, current, intact, awaited, forks, exited>>

\* INT_SYS_YIELD
SysYield(p) ==
    /\ Running(p)
    /\ Enter(p, "yield")
    /\ schedule(p_state)
    /\ UNCHANGED <<p_state, reg_eax, reg_esp, queue, intact, awaited, forks, exited>>

\* Mutant: descriptor 0 is not skipped.
ForkScanFromZero(p) ==
    FirstAfter(p, {q \in Pids : p_state[q] = "EMPTY"} \cup {p})

\* The descriptor do_fork() finds for a child of p, or p itself if there is
\* none.  The scan starts at p + 1 without "% NPROCS": the last process starts
\* it behind the array, where this build keeps the task state segment, whose
\* word at the offset of p_state is always 0, that is P_EMPTY.
ForkScan(p) ==
    IF p = NPROCS - 1 THEN NPROCS
    ELSE FirstAfter(p, {q \in Procs : p_state[q] = "EMPTY"} \cup {p})

\* Where the child's stack pointer is, the parent's being at bottom; the words
\* between bottom and the top of the parent's stack are copied above it.
copy_stack(child, p, bottom) == stack_top(child) + (bottom - stack_top(p))

\* Only the registers, pid and state of the child are set: a queue pointer that
\* the descriptor's last owner left behind stays.
NewChild(p, child, bottom) ==
    /\ reg_esp' = [reg_esp EXCEPT ![p] = bottom, ![child] = copy_stack(child, p, bottom)]
    /\ call' = [call EXCEPT ![p] = "fork", ![child] = "child"]
    /\ reg_eax' = [reg_eax EXCEPT ![p] = child, ![child] = 0]
    /\ p_state' = [p_state EXCEPT ![child] = "RUNNABLE"]

\* INT_SYS_FORK, made by a process that is depth words into its stack.
SysFork(p) == \E depth \in Depths :
    /\ Running(p)
    /\ forks' = forks + 1
    /\ LET child == ForkScan(p)
           bottom == stack_top(p) - depth
       IN  \/ /\ child = p
              /\ Enter(p, "fork")
              /\ reg_eax' = [reg_eax EXCEPT ![p] = -1]
              /\ reg_esp' = [reg_esp EXCEPT ![p] = bottom]
              /\ UNCHANGED <<p_state, intact>>
           \/ /\ child = NPROCS
              /\ Enter(p, "fork")
              /\ reg_eax' = [reg_eax EXCEPT ![p] = child]
              /\ intact' = FALSE
              /\ reg_esp' = [reg_esp EXCEPT ![p] = bottom]
              /\ UNCHANGED p_state
           \/ /\ child \notin {p, NPROCS}
              /\ NewChild(p, child, bottom)
              /\ UNCHANGED intact
    /\ UNCHANGED <<queue, current, awaited, exited>>

\* Mutant: every blocked process is woken.
EndWakesAll(p, status) ==
    /\ p_state' = [q \in Pids |-> IF q = p THEN "EMPTY"
                                  ELSE IF p_state[q] = "BLOCKED" THEN "RUNNABLE"
                                  ELSE p_state[q]]
    /\ reg_eax' = [reg_eax EXCEPT ![p] = status]

\* Mutant: the waiting process is not woken.
EndWakesNobody(p, status) ==
    /\ p_state' = [p_state EXCEPT ![p] = "EMPTY"]
    /\ reg_eax' = [reg_eax EXCEPT ![p] = status]

\* p ends with status.  Whoever the queue pointer names gets the status and
\* becomes runnable, whatever it is doing; the pointer stays as it is.
End(p, status) ==
    \/ /\ queue[p] = Null
       /\ p_state' = [p_state EXCEPT ![p] = "EMPTY"]
       /\ reg_eax' = [reg_eax EXCEPT ![p] = status]
    \/ /\ queue[p] # Null
       /\ p_state' = [p_state EXCEPT ![queue[p]] = "RUNNABLE", ![p] = "EMPTY"]
       /\ reg_eax' = [reg_eax EXCEPT ![p] = status, ![queue[p]] = status]

\* INT_SYS_EXIT
SysExit(p, status) ==
    /\ Running(p)
    /\ Enter(p, "exit")
    /\ exited' = TRUE
    /\ End(p, status)
    /\ schedule(p_state')
    /\ UNCHANGED <<reg_esp, queue, intact, awaited, forks>>

\* The pids it is no error for p to wait for.
Waitable(p, q) == q \in Procs /\ q # p /\ p_state[q] # "EMPTY"

\* INT_SYS_WAIT: -1 in case of an error; otherwise the caller blocks and
\* overwrites the queue pointer of q.
SysWait(p, q) ==
    /\ Running(p)
    /\ Enter(p, "wait")
    /\ \/ /\ ~Waitable(p, q)
          /\ reg_eax' = [reg_eax EXCEPT ![p] = -1]
          /\ UNCHANGED <<p_state, queue, awaited>>
       \/ /\ Waitable(p, q)
          /\ p_state' = [p_state EXCEPT ![p] = "BLOCKED"]
          /\ queue' = [queue EXCEPT ![q] = p]
          /\ awaited' = [awaited EXCEPT ![p] = q]
          /\ UNCHANGED reg_eax
    /\ schedule(p_state')
    /\ UNCHANGED <<reg_esp, intact, forks, exited>>

Next ==
    \E p \in Procs :
        \/ SysGetpid(p)
        \/ SysYield(p)
        \/ SysFork(p) /\ forks < MaxForks /\ (OneRound => ~exited)
        \/ \E s \in Status : SysExit(p, s)
        \/ \E q \in 0..NPROCS : SysWait(p, q)

Spec == Init /\ [][Next]_vars

\* The running process leaves the CPU.
Leave(p) ==
    \/ SysYield(p)
    \/ \E s \in Status : SysExit(p, s)
    \/ \E q \in 0..NPROCS : SysWait(p, q)

-----------------------------------------------------------------------------

\* exit is final: a process that has called it never becomes runnable again.
ExitIsFinal == \A p \in Procs : call[p] = "exit" => p_state[p] = "EMPTY"

\* A blocked process is woken by the exit of the process it waits for, and by
\* no other.
WokenByAwaited ==
    [][\A p \in Procs : p_state[p] = "BLOCKED" /\ p_state'[p] = "RUNNABLE"
          => current = awaited[p] /\ call'[current] = "exit"]_vars

\* Round robin: a runnable process gets the CPU, however the others use it
\* (until a fork has written over kernel memory outside the table).
RunnableRuns ==
    \A p \in Procs : p_state[p] = "RUNNABLE" ~> current = p \/ ~intact

-----------------------------------------------------------------------------
(* Inductive invariants.                                                    *)

\* The running process is runnable, and whoever a queue pointer names, alive
\* or not, has a stack.
KernelInv ==
    /\ TypeOK
    /\ current # Null => p_state[current] = "RUNNABLE"
    /\ \A p \in Pids : queue[p] # Null => InStack(queue[p])

\* If no descriptor is used twice: a process whose exit is still to come is
\* the queue's only for a process that is blocked on it.
WaitInv ==
    /\ ~exited => \A p \in Procs : call[p] # "exit"
    /\ \A p, c \in Procs : queue[c] = p /\ call[c] # "exit" =>
           p_state[p] = "BLOCKED" /\ awaited[p] = c
    /\ ExitIsFinal
=============================================================================
