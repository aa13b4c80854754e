------------------------------ MODULE MposApps ------------------------------
(***************************************************************************)
(* The programs the MiniprocOS kernel of module Mpos may load: mpos-app    *)
(* (one child, which yields and exits with status 1000), mpos-app2 (which  *)
(* runs 1025 children, as many at a time as the process table holds), and  *)
(* any other program, whose processes make any calls.  Between two system  *)
(* calls a process is alone: such a stretch of code belongs to the step of *)
(* the call that ends it.                                                  *)
(***************************************************************************)
EXTENDS Mpos

CONSTANTS
    Total,     \* children mpos-app2 runs (1025)
    Yields     \* times the child of mpos-app yields (20)

ASSUME AppsAssumption == Total \in Nat /\ Yields \in Nat

VARIABLES
    whichprocess,  \* the program: 1 mpos-app, 2 mpos-app2, 3 another one
    main,          \* where process 1 is in start()
    p_var,         \* its variable p
    n_started,     \* its variable n_started
    status,        \* its variable status, or Null
    counter,       \* the counter all processes share
    i_var          \* the child's variable i

apps  == <<whichprocess, main, p_var, n_started, status, counter, i_var>>
avars == <<vars, apps>>

ATypeOK ==
    /\ TypeOK
    /\ whichprocess \in 1..3
    /\ main \in {"fork", "forked", "wait", "waited", "exit", "gone"}
    /\ p_var \in -1..NPROCS
    /\ n_started \in 0..Total
    /\ status \in Int
    /\ counter \in 0..Total
    /\ i_var \in 0..Yields

\* start() of the kernel reads the digit and loads the application.
AInit ==
    /\ Init
    /\ whichprocess \in 1..3
    /\ main = "fork"
    /\ p_var = 0
    /\ n_started = 0
    /\ status = Null
    /\ counter = 0
    /\ i_var = 0

Main(from, to) == current = 1 /\ main = from /\ main' = to

-----------------------------------------------------------------------------
(* mpos-app                                                                 *)

AppFork ==
    /\ whichprocess = 1
    /\ Main("fork", "forked")
    /\ SysFork(1)
    /\ p_var' = reg_eax'[1]
    /\ UNCHANGED <<whichprocess, n_started, status, counter, i_var>>

\* Only a child is waited for; -1 from fork ends in exit(1).
AppWait ==
    /\ whichprocess = 1
    /\ IF p_var > 0
          THEN Main("forked", "waited") /\ SysWait(1, p_var)
          ELSE Main("forked", "gone") /\ SysExit(1, 1)
    /\ UNCHANGED <<whichprocess, p_var, n_started, status, counter, i_var>>

\* status is what wait left in %eax; then exit(0).
AppEnd ==
    /\ whichprocess = 1
    /\ Main("waited", "gone")
    /\ status' = reg_eax[1]
    /\ SysExit(1, 0)
    /\ UNCHANGED <<whichprocess, p_var, n_started, counter, i_var>>

AppChild(p) ==
    /\ whichprocess = 1
    /\ p # 1
    /\ \/ /\ i_var < Yields
          /\ i_var' = i_var + 1
          /\ SysYield(p)
       \/ /\ i_var = Yields
          /\ SysExit(p, 1000)
          /\ UNCHANGED i_var
    /\ UNCHANGED <<whichprocess, main, p_var, n_started, status, counter>>

-----------------------------------------------------------------------------
(* mpos-app2                                                                *)

\* The inner loop: fork until it fails or all are started.
App2Fork ==
    /\ whichprocess = 2
    /\ current = 1 /\ main = "fork"
    /\ counter + n_started < Total
    /\ SysFork(1)
    /\ n_started' = IF reg_eax'[1] > 0 THEN n_started + 1 ELSE n_started
    /\ main' = IF reg_eax'[1] > 0 THEN "fork" ELSE "forked"
    /\ UNCHANGED <<whichprocess, p_var, status, counter, i_var>>

\* Behind the inner loop: nothing started ends the outer loop as well;
\* otherwise wait for process 2, then 3, ..., and start again.
App2Wait ==
    /\ whichprocess = 2
    /\ current = 1
    /\ \/ /\ main = "forked" \/ (main = "fork" /\ counter + n_started = Total)
          /\ n_started > 0
          /\ p_var' = 3
          /\ SysWait(1, 2)
       \/ /\ main = "wait" /\ p_var < NPROCS
          /\ p_var' = p_var + 1
          /\ SysWait(1, p_var)
    /\ main' = "wait"
    /\ UNCHANGED <<whichprocess, n_started, status, counter, i_var>>

\* Mutant: n_started is not reset.
App2RoundNoReset ==
    /\ whichprocess = 2
    /\ p_var = NPROCS
    /\ counter < Total
    /\ Main("wait", "fork")
    /\ p_var' = 0
    /\ UNCHANGED <<vars, whichprocess, n_started, status, counter, i_var>>

\* The head of the outer loop.
App2Round ==
    /\ whichprocess = 2
    /\ p_var = NPROCS
    /\ counter < Total
    /\ Main("wait", "fork")
    /\ p_var' = 0
    /\ n_started' = 0
    /\ UNCHANGED <<vars, whichprocess, status, counter, i_var>>

App2End ==
    /\ whichprocess = 2
    /\ \/ Main("wait", "gone") /\ p_var = NPROCS /\ counter >= Total
       \/ Main("forked", "gone") /\ n_started = 0
    /\ SysExit(1, 0)
    /\ UNCHANGED <<whichprocess, p_var, n_started, status, counter, i_var>>

App2Child(p) ==
    /\ whichprocess = 2
    /\ p # 1
    /\ counter' = counter + 1
    /\ SysExit(p, counter)
    /\ UNCHANGED <<whichprocess, main, p_var, n_started, status, i_var>>

-----------------------------------------------------------------------------

Apps ==
    \/ AppFork \/ AppWait \/ AppEnd
    \/ App2Fork \/ App2Wait \/ App2Round \/ App2End
    \/ \E p \in Procs : AppChild(p) \/ App2Child(p)

\* Another program's processes.
Other(Step) == whichprocess = 3 /\ Step /\ UNCHANGED apps

ANext == Apps \/ Other(Next)

\* The kernel is cooperative: the two applications go on when they can, and the
\* processes of another program are assumed to leave the CPU in the end.
ASpec ==
    /\ AInit
    /\ [][ANext]_avars
    /\ WF_avars(Apps)
    /\ \A p \in Procs : WF_avars(Other(Leave(p)))

-----------------------------------------------------------------------------

\* mpos-app gets the child's status 1000, mpos-app2 runs every one of its
\* children, the process table being reused again and again; and in the end
\* no process is left.
AppsComplete ==
    <>[](\/ whichprocess = 3
         \/ /\ main = "gone"
            /\ \A p \in Procs : p_state[p] = "EMPTY"
            /\ IF whichprocess = 1 THEN status = 1000 ELSE counter = Total)

Children == {p \in Procs \ {1} : p_state[p] # "EMPTY"}

\* As many children are alive as this round has started: those of earlier
\* rounds are all gone and none of this one has run before its time.
ChildrenCounted ==
    whichprocess = 2 /\ main \in {"fork", "forked"} =>
        Cardinality(Children) = n_started

\* When an application is gone it has done its work: the child's status has
\* reached its parent, every child has run, and no process is left.
AppsExact ==
    main = "gone" =>
        /\ \A p \in Procs : p_state[p] = "EMPTY"
        /\ whichprocess = 1 => status = 1000
        /\ whichprocess = 2 => counter = Total

-----------------------------------------------------------------------------
(* The inductive invariants of the two applications.                        *)

\* mpos-app: process 2 is the child, waited for once.
App1Inv ==
    /\ intact
    /\ Children \subseteq {2}
    /\ queue[1] = Null
    /\ main \in {"fork", "forked", "waited", "gone"}
    /\ main = "fork" => current = 1 /\ Children = {} /\ queue[2] = Null
    /\ main = "forked" => /\ current = 1 /\ p_var = 2
                          /\ p_state[2] = "RUNNABLE" /\ queue[2] = Null
    /\ main = "waited" =>
          /\ queue[2] = 1 /\ awaited[1] = 2
          /\ \/ current = 2 /\ p_state[1] = "BLOCKED"
             \/ current = 1 /\ Children = {} /\ reg_eax[1] = 1000
    /\ main = "gone" => /\ current = Null /\ p_state[1] = "EMPTY"
                        /\ Children = {} /\ status = 1000

\* mpos-app2: the children are 2, 3, ..., n_started + 1; they run and exit in
\* this order when process 1 waits for the first of them, which wakes it.
App2Inv ==
    /\ intact
    /\ queue \in [Pids -> {Null, 1}]
    /\ queue[1] = Null
    /\ \A p \in Children : p_state[p] = "RUNNABLE"
    /\ n_started <= NPROCS - 2
    /\ main \in {"fork", "forked", "wait", "gone"}
    /\ main \in {"fork", "forked"} =>
          /\ current = 1
          /\ Children = 2..(n_started + 1)
          /\ counter + n_started <= Total
    /\ main = "forked" => n_started = NPROCS - 2
    /\ main = "wait" =>
          /\ p_var >= 3 /\ p_state[1] # "EMPTY" /\ current # Null
          /\ current = 1 => Children = {}
          /\ current > 1 => /\ Children = current..(n_started + 1)
                            /\ counter + n_started + 2 - current <= Total
          /\ p_state[1] = "BLOCKED" =>
                current = 2 /\ queue[2] = 1 /\ awaited[1] = 2
    /\ main = "gone" => /\ current = Null /\ p_state[1] = "EMPTY"
                        /\ Children = {} /\ counter = Total

AppInv ==
    /\ ATypeOK
    /\ KernelInv
    /\ whichprocess = 1 => App1Inv
    /\ whichprocess = 2 => App2Inv
    /\ whichprocess = 3 => main = "fork"
=============================================================================
