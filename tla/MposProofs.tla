----------------------------- MODULE MposProofs -----------------------------
(* Proofs about Mpos and MposApps, for every size of the process table.    *)
EXTENDS MposApps, FiniteSetTheorems, WellFoundedInduction, TLAPS

USE DEF kernel, vars, Null, apps, avars

-----------------------------------------------------------------------------
(* The table scans.                                                         *)

\* A non-empty set of natural numbers has a least element.
LEMMA LeastNat ==
    ASSUME NEW T \in SUBSET Nat, T # {}
    PROVE  \E m \in T : \A n \in T : m <= n
<1> DEFINE R == {ss \in Nat \X Nat : ss[1] < ss[2]}
<1>1. IsWellFoundedOn(R, Nat)
  BY NatLessThanWellFounded DEF OpToRel
<1>2. PICK m \in T : \A n \in T : ~(<<n, m>> \in R)
  <2> HIDE DEF R
  <2> QED BY <1>1, WFMin
<1>3. \A n \in T : n < m => <<n, m>> \in R
  OBVIOUS
<1>4. m \in Nat /\ \A n \in T : n \in Nat /\ ~(n < m)
  <2> HIDE DEF R
  <2> QED BY <1>2, <1>3
<1> QED BY <1>4

\* How far q is behind pid, in terms of their numbers.
LEMMA DistanceValue ==
    ASSUME NEW pid \in Pids, NEW q \in Pids
    PROVE  /\ Distance(pid, q) \in Nat
           /\ Distance(pid, q) = IF q > pid THEN q - pid - 1
                                            ELSE q - pid - 1 + NPROCS
<1>0. NPROCS \in Nat /\ NPROCS > 2 /\ pid \in 0..(NPROCS - 1) /\ q \in 0..(NPROCS - 1)
  BY MposAssumption DEF Pids
<1>1. CASE q > pid
  <2>1. q - pid - 1 \in 0..(NPROCS - 1)
    BY <1>0, <1>1
  <2>2. (q - pid - 1) % NPROCS = q - pid - 1
    BY <1>0, <2>1
  <2> QED BY <1>1, <2>1, <2>2 DEF Distance
<1>2. CASE ~(q > pid)
  <2>1. q - pid - 1 + NPROCS \in 0..(NPROCS - 1)
    BY <1>0, <1>2
  <2>2. (q - pid - 1) % NPROCS = q - pid - 1 + NPROCS
    BY <1>0, <1>2, <2>1
  <2> QED BY <1>2, <2>1, <2>2 DEF Distance
<1> QED BY <1>1, <1>2

\* A scan finds one of the descriptors it looks for: the nearest.
LEMMA ScanFinds ==
    ASSUME NEW pid \in Pids, NEW S \in SUBSET Pids, S # {}
    PROVE  /\ FirstAfter(pid, S) \in S
           /\ \A r \in S : Distance(pid, FirstAfter(pid, S)) <= Distance(pid, r)
<1> DEFINE T == {Distance(pid, q) : q \in S}
<1>1. T \in SUBSET Nat /\ T # {}
  BY DistanceValue
<1>2. PICK m \in T : \A n \in T : m <= n
  BY <1>1, LeastNat
<1>3. \E q \in S : \A r \in S : Distance(pid, q) <= Distance(pid, r)
  BY <1>2
<1> QED BY <1>3 DEF FirstAfter

\* The descriptor right behind pid is found first, if it is looked for.
LEMMA NextFound ==
    ASSUME NEW pid \in Pids, NEW S \in SUBSET Pids, pid + 1 \in S
    PROVE  FirstAfter(pid, S) = pid + 1
<1> DEFINE q == FirstAfter(pid, S)
<1>1. q \in Pids /\ pid + 1 \in Pids /\ Distance(pid, q) <= Distance(pid, pid + 1)
  BY ScanFinds
<1>2. NPROCS \in Nat /\ pid \in 0..(NPROCS - 1) /\ q \in 0..(NPROCS - 1)
  BY <1>1, MposAssumption DEF Pids
<1>3. Distance(pid, pid + 1) = 0
  BY <1>1, <1>2, DistanceValue
<1>4. Distance(pid, q) = 0
  BY <1>1, <1>3, DistanceValue
<1> HIDE DEF q
<1>5. q = pid + 1
  BY <1>1, <1>2, <1>4, DistanceValue
<1> QED BY <1>5 DEF q

\* The only descriptor looked for is found.
LEMMA OnlyFound ==
    ASSUME NEW pid \in Pids, NEW q \in Pids
    PROVE  FirstAfter(pid, {q}) = q
  BY ScanFinds

-----------------------------------------------------------------------------
(* The kernel.                                                              *)

\* A stack is a range of addresses.
LEMMA StackTop == ASSUME NEW p \in Pids PROVE stack_top(p) \in Int
  BY MposAssumption DEF stack_top, Pids

\* Descriptor 0 and the first two processes exist.
LEMMA Table == 0 \in Pids /\ 1 \in Procs /\ 2 \in Procs /\ Procs \subseteq Pids
               /\ 0 \notin Procs /\ NPROCS \notin Pids
  BY MposAssumption DEF Pids, Procs

\* Descriptor 0 and the processes are all there are.
LEMMA AllPids == Pids = Procs \cup {0}
  BY MposAssumption DEF Pids, Procs

\* schedule() runs a runnable process, or nobody if there is none.
LEMMA ScheduleStep ==
    ASSUME NEW st \in [Pids -> {"EMPTY", "RUNNABLE", "BLOCKED"}],
           current \in Pids, st[0] = "EMPTY", schedule(st)
    PROVE  /\ current' \in Pids
           /\ current' # Null => st[current'] = "RUNNABLE"
           /\ LET ready == {p \in Pids : st[p] = "RUNNABLE"}
              IN  /\ current' = Null <=> ready = {}
                  /\ ready # {} => current' = FirstAfter(current, ready)
<1> DEFINE ready == {p \in Pids : st[p] = "RUNNABLE"}
<1>1. current' = IF ready = {} THEN Null ELSE FirstAfter(current, ready)
  BY DEF schedule
<1>2. ready # {} => FirstAfter(current, ready) \in ready
  BY ScanFinds
<1>3. 0 \notin ready /\ 0 \in Pids
  BY Table
<1> QED BY <1>1, <1>2, <1>3

\* The free descriptor fork finds is another process's, or none is found.
LEMMA ForkScanFinds ==
    ASSUME TypeOK, NEW p \in Procs
    PROVE  \/ ForkScan(p) = p
           \/ ForkScan(p) = NPROCS /\ p = NPROCS - 1
           \/ ForkScan(p) \in Procs \ {p} /\ p_state[ForkScan(p)] = "EMPTY"
<1> DEFINE S == {q \in Procs : p_state[q] = "EMPTY"} \cup {p}
<1>1. p \in Pids /\ S \in SUBSET Pids /\ S # {}
  BY Table
<1>2. FirstAfter(p, S) \in S
  BY <1>1, ScanFinds
<1> QED BY <1>2 DEF ForkScan

LEMMA ForkKeeps ==
    ASSUME KernelInv, NEW p \in Procs, SysFork(p)
    PROVE  KernelInv'
<1> USE DEF KernelInv
<1>0. /\ TypeOK /\ p \in Pids /\ current = p
      /\ PROC_STACK_SIZE \in Nat /\ Depths \subseteq 1..PROC_STACK_SIZE
  BY Table, MposAssumption DEF SysFork, Running
<1> DEFINE bottom(d) == stack_top(p) - d
<1>1. PICK depth \in Depths, child \in {ForkScan(p)} :
        /\ forks' = forks + 1
        /\ \/ /\ child = p
              /\ Enter(p, "fork")
              /\ reg_eax' = [reg_eax EXCEPT ![p] = -1]
              /\ reg_esp' = [reg_esp EXCEPT ![p] = bottom(depth)]
              /\ UNCHANGED <<p_state, intact>>
           \/ /\ child = NPROCS
              /\ Enter(p, "fork")
              /\ reg_eax' = [reg_eax EXCEPT ![p] = child]
              /\ intact' = FALSE
              /\ reg_esp' = [reg_esp EXCEPT ![p] = bottom(depth)]
              /\ UNCHANGED p_state
           \/ /\ child \notin {p, NPROCS}
              /\ NewChild(p, child, bottom(depth))
              /\ UNCHANGED intact
        /\ UNCHANGED <<queue, current, awaited, exited>>
  BY DEF SysFork
<1>2. /\ depth \in Int /\ 1 <= depth /\ depth <= PROC_STACK_SIZE
      /\ bottom(depth) \in (stack_top(p) - PROC_STACK_SIZE)..stack_top(p)
  BY <1>0, StackTop
<1>3. CASE child \in {p, NPROCS}
  <2>1. /\ reg_esp' = [reg_esp EXCEPT ![p] = bottom(depth)] /\ p_state' = p_state
        /\ call' = [call EXCEPT ![p] = "fork"] /\ intact' \in BOOLEAN
        /\ reg_eax' \in {[reg_eax EXCEPT ![p] = -1], [reg_eax EXCEPT ![p] = NPROCS]}
    BY <1>0, <1>1, <1>3, MposAssumption DEF Enter, TypeOK
  <2>2. \A q \in Pids : InStack(q) => InStack(q)'
    BY <1>0, <1>2, <2>1 DEF InStack, TypeOK
  <2>3. reg_esp' \in [Pids -> Int]
    BY <1>0, <1>2, <2>1 DEF TypeOK
  <2>4. TypeOK'
    BY <1>0, <1>1, <2>1, <2>2, <2>3, Table, MposAssumption DEF TypeOK
  <2> QED BY <1>0, <1>1, <2>1, <2>2, <2>4 DEF TypeOK
<1>4. CASE child \notin {p, NPROCS}
  <2>0. child \in Procs \ {p} /\ child \in Pids /\ p_state[child] = "EMPTY"
    BY <1>0, <1>4, ForkScanFinds, Table
  <2>1. /\ reg_esp' = [reg_esp EXCEPT ![p] = bottom(depth),
                                      ![child] = copy_stack(child, p, bottom(depth))]
        /\ call' = [call EXCEPT ![p] = "fork", ![child] = "child"]
        /\ reg_eax' = [reg_eax EXCEPT ![p] = child, ![child] = 0]
        /\ p_state' = [p_state EXCEPT ![child] = "RUNNABLE"]
        /\ intact' = intact
    BY <1>1, <1>4 DEF NewChild
  <2>2. /\ copy_stack(child, p, bottom(depth)) = stack_top(child) - depth
        /\ copy_stack(child, p, bottom(depth))
              \in (stack_top(child) - PROC_STACK_SIZE)..stack_top(child)
    BY <1>0, <1>2, <2>0, StackTop DEF copy_stack
  <2>3. reg_esp' \in [Pids -> Int] /\ InStack(p)' /\ InStack(child)'
    BY <1>0, <1>2, <2>0, <2>1, <2>2 DEF InStack, TypeOK
  <2>4. \A q \in Pids : InStack(q) => InStack(q)'
    BY <1>0, <2>0, <2>1, <2>3 DEF InStack, TypeOK
  <2>5. child \in Int
    BY <2>0 DEF Procs
  <2>6. TypeOK'
    BY <1>0, <1>1, <2>0, <2>1, <2>3, <2>4, <2>5, Table DEF TypeOK
  <2> QED BY <1>0, <1>1, <2>0, <2>1, <2>4, <2>6 DEF TypeOK
<1> QED BY <1>3, <1>4

LEMMA GetpidKeeps ==
    ASSUME KernelInv, NEW p \in Procs, SysGetpid(p)
    PROVE  KernelInv'
<1>1. /\ call' = [call EXCEPT ![p] = "getpid"]
      /\ reg_eax' = [reg_eax EXCEPT ![p] = p]
      /\ UNCHANGED <<p_state, reg_esp, queue, current, intact, awaited, forks, exited>>
  BY DEF SysGetpid, Enter
<1>2. p \in Int /\ p \in Pids
  BY Table DEF Procs
<1> QED BY <1>1, <1>2 DEF KernelInv, TypeOK, InStack

LEMMA YieldKeeps ==
    ASSUME KernelInv, NEW p \in Procs, SysYield(p)
    PROVE  KernelInv'
<1>1. /\ call' = [call EXCEPT ![p] = "yield"] /\ schedule(p_state)
      /\ UNCHANGED <<p_state, reg_eax, reg_esp, queue, intact, awaited, forks, exited>>
  BY DEF SysYield, Enter
<1>2. current' \in Pids /\ (current' # Null => p_state[current'] = "RUNNABLE")
  BY <1>1, ScheduleStep DEF KernelInv, TypeOK
<1> QED BY <1>1, <1>2 DEF KernelInv, TypeOK, InStack

LEMMA ExitKeeps ==
    ASSUME KernelInv, NEW p \in Procs, NEW s \in Int, SysExit(p, s)
    PROVE  KernelInv'
<1>0. TypeOK /\ p \in Pids /\ p # 0 /\ queue[p] \in Pids
  BY Table DEF KernelInv, TypeOK
<1>1. /\ call' = [call EXCEPT ![p] = "exit"] /\ exited' = TRUE
      /\ End(p, s) /\ schedule(p_state')
      /\ UNCHANGED <<reg_esp, queue, intact, awaited, forks>>
  BY DEF SysExit, Enter
<1>2. \A q \in Pids : InStack(q)' <=> InStack(q)
  BY <1>1 DEF InStack
<1>3. /\ p_state' \in [Pids -> {"EMPTY", "RUNNABLE", "BLOCKED"}]
      /\ p_state'[0] = "EMPTY" /\ reg_eax' \in [Pids -> Int]
  BY <1>0, <1>1, Table DEF End, TypeOK
<1>4. \A q \in Procs : p_state'[q] # "EMPTY" => p_state[q] # "EMPTY" \/ q = queue[p]
  BY <1>0, <1>1, Table DEF End, TypeOK
<1>5. \A q \in Procs : p_state'[q] # "EMPTY" => InStack(q)'
  BY <1>0, <1>2, <1>4, Table DEF KernelInv, TypeOK
<1>6. current' \in Pids /\ (current' # Null => p_state'[current'] = "RUNNABLE")
  BY <1>0, <1>1, <1>3, ScheduleStep DEF TypeOK
<1>7. TypeOK'
  BY <1>0, <1>1, <1>3, <1>5, <1>6 DEF TypeOK
<1> QED BY <1>0, <1>1, <1>2, <1>6, <1>7 DEF KernelInv, TypeOK

LEMMA WaitKeeps ==
    ASSUME KernelInv, NEW p \in Procs, NEW q \in Int, SysWait(p, q)
    PROVE  KernelInv'
<1>0. /\ TypeOK /\ p \in Pids /\ p # 0 /\ p_state[p] = "RUNNABLE" /\ InStack(p)
  BY Table DEF KernelInv, TypeOK, SysWait, Running
<1>1. /\ call' = [call EXCEPT ![p] = "wait"] /\ schedule(p_state')
      /\ UNCHANGED <<reg_esp, intact, forks, exited>>
  BY DEF SysWait, Enter
<1>2. \A r \in Pids : InStack(r)' <=> InStack(r)
  BY <1>1 DEF InStack
<1>3. /\ p_state' \in [Pids -> {"EMPTY", "RUNNABLE", "BLOCKED"}]
      /\ p_state'[0] = "EMPTY" /\ reg_eax' \in [Pids -> Int]
      /\ queue' \in [Pids -> Pids] /\ awaited' \in [Pids -> Pids]
      /\ \A r \in Procs : p_state'[r] # "EMPTY" => p_state[r] # "EMPTY"
      /\ \A r \in Pids : queue'[r] \in {queue[r], p}
  <2>1. CASE ~Waitable(p, q)
    BY <1>0, <2>1 DEF SysWait, TypeOK
  <2>2. CASE Waitable(p, q)
    <3>1. q \in Procs /\ q \in Pids
      BY <2>2, Table DEF Waitable
    <3> QED BY <1>0, <2>2, <3>1, Table DEF SysWait, TypeOK
  <2> QED BY <2>1, <2>2
<1>4. current' \in Pids /\ (current' # Null => p_state'[current'] = "RUNNABLE")
  BY <1>0, <1>1, <1>3, ScheduleStep DEF TypeOK
<1>5. TypeOK'
  BY <1>0, <1>1, <1>2, <1>3, <1>4, Table DEF TypeOK
<1> QED BY <1>0, <1>1, <1>2, <1>3, <1>4, <1>5 DEF KernelInv, TypeOK

LEMMA KernelStep == KernelInv /\ [Next]_vars => KernelInv'
<1> SUFFICES ASSUME KernelInv, [Next]_vars PROVE KernelInv'
  OBVIOUS
<1>1. ASSUME NEW p \in Procs, SysGetpid(p) \/ SysYield(p) \/ SysFork(p)
      PROVE  KernelInv'
  BY <1>1, GetpidKeeps, YieldKeeps, ForkKeeps
<1>2. ASSUME NEW p \in Procs, NEW s \in Status, SysExit(p, s)
      PROVE  KernelInv'
  BY <1>2, ExitKeeps, MposAssumption
<1>3. ASSUME NEW p \in Procs, NEW q \in 0..NPROCS, SysWait(p, q)
      PROVE  KernelInv'
  BY <1>3, WaitKeeps
<1>4. CASE UNCHANGED vars
  BY <1>4 DEF KernelInv, TypeOK, InStack
<1> QED BY <1>1, <1>2, <1>3, <1>4 DEF Next

LEMMA KernelInit == Init => KernelInv
<1> SUFFICES ASSUME Init PROVE KernelInv
  OBVIOUS
<1>1. /\ 0 \in Pids /\ 1 \in Pids /\ 1 \in Procs
      /\ {PROC1_STACK_ADDR, PROC_STACK_SIZE} \subseteq Nat
  BY Table, MposAssumption
<1>2. reg_esp \in [Pids -> Int]
  BY <1>1 DEF Init
<1>3. InStack(1)
  <2>1. stack_top(1) = PROC1_STACK_ADDR + PROC_STACK_SIZE
    BY <1>1 DEF stack_top
  <2> QED BY <1>1, <2>1 DEF Init, InStack
<1>4. TypeOK
  BY <1>1, <1>2, <1>3, Table DEF Init, TypeOK
<1> QED BY <1>1, <1>4 DEF Init, KernelInv

\* For every size of the table and every use of the calls: a process that is
\* not gone is inside its own stack (also a child, whose stack pointer fork
\* computes, and a process that a stale queue pointer has made runnable
\* again), and descriptor 0 stays unused.
THEOREM KernelTypes == Spec => []TypeOK
<1>1. KernelInv => TypeOK
  BY DEF KernelInv
<1> QED BY <1>1, KernelInit, KernelStep, PTL DEF Spec

-----------------------------------------------------------------------------
(* Descriptors used once: exit is final and wait waits for whom it names.   *)

\* A step by which nobody exits or blocks, and only a free descriptor that
\* has had no owner yet may be taken.
LEMMA WaitInvKept ==
    ASSUME KernelInv, WaitInv, NEW p \in Procs, p_state[p] # "EMPTY",
           call[p] # "exit", call'[p] # "exit",
           \A q \in Procs \ {p} :
              \/ call'[q] = call[q] /\ p_state'[q] = p_state[q]
              \/ /\ p_state[q] = "EMPTY" /\ call[q] # "exit"
                 /\ call'[q] # "exit",
           p_state'[p] = p_state[p],
           UNCHANGED <<queue, awaited, exited>>
    PROVE  WaitInv'
<1>1. \A q \in Procs : call'[q] = "exit" <=> call[q] = "exit"
  OBVIOUS
<1>2. \A q \in Procs : p_state[q] # "EMPTY" => p_state'[q] = p_state[q]
  OBVIOUS
<1>3. ExitIsFinal'
  BY DEF WaitInv, ExitIsFinal
<1> QED BY <1>1, <1>2, <1>3 DEF WaitInv

LEMMA WaitInvStep ==
    ASSUME OneRound
    PROVE  KernelInv /\ WaitInv /\ [Next]_vars => WaitInv'
<1> SUFFICES ASSUME KernelInv, WaitInv, [Next]_vars PROVE WaitInv'
  OBVIOUS
<1>0. TypeOK
  BY DEF KernelInv
<1>a. ASSUME NEW p \in Procs, Running(p)
      PROVE  /\ p \in Pids /\ p_state[p] = "RUNNABLE" /\ call[p] # "exit"
             /\ \A c \in Procs : queue[c] = p => call[c] = "exit"
  BY <1>a, Table DEF Running, KernelInv, WaitInv
<1>1. ASSUME NEW p \in Procs, SysGetpid(p) \/ SysYield(p) PROVE WaitInv'
  <2>1. /\ Running(p) /\ \E c \in {"getpid", "yield"} : call' = [call EXCEPT ![p] = c]
        /\ UNCHANGED <<p_state, queue, awaited, exited>>
    BY <1>1 DEF SysGetpid, SysYield, Enter
  <2> QED BY <1>0, <1>a, <2>1, WaitInvKept DEF TypeOK
<1>2. ASSUME NEW p \in Procs, SysFork(p), ~exited PROVE WaitInv'
  <2>1. Running(p) /\ UNCHANGED <<queue, awaited, exited>>
    BY <1>2 DEF SysFork
  <2>2. PICK child \in {ForkScan(p)} :
          \/ /\ child \in {p, NPROCS}
             /\ call' = [call EXCEPT ![p] = "fork"] /\ p_state' = p_state
          \/ /\ child \notin {p, NPROCS}
             /\ call' = [call EXCEPT ![p] = "fork", ![child] = "child"]
             /\ p_state' = [p_state EXCEPT ![child] = "RUNNABLE"]
    BY <1>2 DEF SysFork, Enter, NewChild
  <2>3. child \notin {p, NPROCS} => /\ child \in Procs /\ child \in Pids
                                    /\ p_state[child] = "EMPTY"
    BY <1>0, ForkScanFinds, Table
  <2>4. \A q \in Procs : call[q] # "exit"
    BY <1>2 DEF WaitInv
  <2>5. call'[p] # "exit" /\ p_state'[p] = p_state[p]
    BY <1>0, <1>a, <2>1, <2>2, <2>3 DEF TypeOK
  <2>6. \A q \in Procs \ {p} :
           \/ call'[q] = call[q] /\ p_state'[q] = p_state[q]
           \/ p_state[q] = "EMPTY" /\ call'[q] # "exit"
    BY <1>0, <2>2, <2>3, Table DEF TypeOK
  <2> QED BY <1>a, <2>1, <2>4, <2>5, <2>6, WaitInvKept
<1>3. ASSUME NEW p \in Procs, NEW s \in Status, SysExit(p, s) PROVE WaitInv'
  <2>1. /\ Running(p) /\ exited' = TRUE /\ call' = [call EXCEPT ![p] = "exit"]
        /\ UNCHANGED <<queue, awaited>> /\ End(p, s) /\ queue[p] \in Pids
    BY <1>0, <1>3, Table DEF SysExit, Enter, TypeOK
  <2>2. queue[p] # Null =>
           p_state[queue[p]] = "BLOCKED" /\ awaited[queue[p]] = p
    BY <1>a, <2>1 DEF WaitInv, Procs, Pids
  <2>3. /\ p_state'[p] = "EMPTY" /\ call'[p] = "exit"
        /\ \A q \in Procs \ {p} : call'[q] = call[q]
        /\ \A q \in Procs \ {p} :
              \/ p_state'[q] = p_state[q]
              \/ q = queue[p] /\ p_state'[q] = "RUNNABLE"
    BY <1>0, <1>a, <2>1, Table DEF End, TypeOK
  <2>4. ExitIsFinal'
    BY <2>2, <2>3, Table DEF WaitInv, ExitIsFinal
  <2>5. ASSUME NEW q \in Procs, NEW c \in Procs, queue'[c] = q, call'[c] # "exit"
        PROVE  p_state'[q] = "BLOCKED" /\ awaited'[q] = c
    <3>1. /\ c # p /\ queue[c] = q /\ call[c] # "exit"
          /\ p_state[q] = "BLOCKED" /\ awaited[q] = c /\ q # p
      BY <1>a, <2>1, <2>3, <2>5 DEF WaitInv
    <3> QED BY <2>1, <2>2, <2>3, <3>1, Table
  <2> QED BY <2>1, <2>4, <2>5 DEF WaitInv
<1>4. ASSUME NEW p \in Procs, NEW q \in 0..NPROCS, SysWait(p, q) PROVE WaitInv'
  <2>1. /\ Running(p) /\ exited' = exited /\ call' = [call EXCEPT ![p] = "wait"]
    BY <1>4 DEF SysWait, Enter
  <2>2. CASE ~Waitable(p, q)
    <3>1. UNCHANGED <<p_state, queue, awaited>>
      BY <1>4, <2>2 DEF SysWait
    <3> QED BY <1>0, <1>a, <2>1, <3>1, WaitInvKept DEF TypeOK
  <2>3. CASE Waitable(p, q)
    <3>1. /\ p_state' = [p_state EXCEPT ![p] = "BLOCKED"]
          /\ queue' = [queue EXCEPT ![q] = p]
          /\ awaited' = [awaited EXCEPT ![p] = q]
          /\ q \in Procs /\ q \in Pids /\ p \in Pids
      BY <1>4, <2>3, Table DEF SysWait, Waitable
    <3>2. \A r \in Procs : call'[r] = "exit" <=> call[r] = "exit"
      BY <1>0, <1>a, <2>1 DEF TypeOK
    <3>3. ExitIsFinal'
      BY <1>0, <1>a, <2>1, <3>1, <3>2 DEF WaitInv, ExitIsFinal, TypeOK
    <3>4. ASSUME NEW r \in Procs, NEW c \in Procs, queue'[c] = r, call'[c] # "exit"
          PROVE  p_state'[r] = "BLOCKED" /\ awaited'[r] = c
      <4>1. CASE c = q
        BY <1>0, <3>1, <3>4, <4>1, Table DEF TypeOK
      <4>2. CASE c # q
        <5>1. queue[c] = r /\ call[c] # "exit"
          BY <1>0, <3>1, <3>2, <3>4, <4>2, Table DEF TypeOK
        <5>2. r # p /\ p_state[r] = "BLOCKED" /\ awaited[r] = c
          BY <1>a, <2>1, <5>1 DEF WaitInv
        <5> QED BY <1>0, <3>1, <5>2, Table DEF TypeOK
      <4> QED BY <4>1, <4>2
    <3>5. ~exited' => \A r \in Procs : call'[r] # "exit"
      BY <2>1, <3>2 DEF WaitInv
    <3> QED BY <3>3, <3>4, <3>5 DEF WaitInv
  <2> QED BY <2>2, <2>3
<1>5. CASE UNCHANGED vars
  BY <1>5 DEF WaitInv, ExitIsFinal
<1> QED BY <1>1, <1>2, <1>3, <1>4, <1>5 DEF Next

\* Nobody has made a call at the start.
LEMMA WaitInvInit == Init => WaitInv
  BY Table DEF Init, WaitInv, ExitIsFinal

\* As long as no descriptor is used a second time, exit is final: the stale
\* queue pointers of the finding about exit do no harm.
THEOREM ExitFinalInOneRound == ASSUME OneRound PROVE Spec => []ExitIsFinal
<1>1. WaitInv => ExitIsFinal
  BY DEF WaitInv
<1> QED BY <1>1, KernelInit, KernelStep, WaitInvInit, WaitInvStep, PTL DEF Spec

\* What WokenByAwaited says of one step.
Awakening ==
    \A p \in Procs : p_state[p] = "BLOCKED" /\ p_state'[p] = "RUNNABLE"
        => current = awaited[p] /\ call'[current] = "exit"

\* A step of an arbitrary program wakes a blocked process only when the one
\* it waits for exits.
LEMMA WokenStep ==
    ASSUME KernelInv, WaitInv, Next
    PROVE  Awakening
<1>0. TypeOK
  BY DEF KernelInv
<1> SUFFICES ASSUME NEW q \in Procs, p_state[q] = "BLOCKED", p_state'[q] = "RUNNABLE"
             PROVE  current = awaited[q] /\ call'[current] = "exit"
  BY DEF Awakening
<1>1. ASSUME NEW p \in Procs, SysGetpid(p) \/ SysYield(p) PROVE FALSE
  BY <1>1 DEF SysGetpid, SysYield
<1>2. ASSUME NEW p \in Procs, SysFork(p) PROVE FALSE
  <2>1. \/ p_state' = p_state
        \/ /\ ForkScan(p) \notin {p, NPROCS}
           /\ p_state' = [p_state EXCEPT ![ForkScan(p)] = "RUNNABLE"]
    BY <1>2 DEF SysFork, NewChild
  <2> QED BY <1>0, <2>1, ForkScanFinds, Table DEF TypeOK
<1>3. ASSUME NEW p \in Procs, NEW s \in Status, SysExit(p, s)
      PROVE  current = awaited[q] /\ call'[current] = "exit"
  <2>1. /\ current = p /\ call[p] # "exit" /\ call' = [call EXCEPT ![p] = "exit"]
        /\ End(p, s) /\ p \in Pids /\ queue[p] \in Pids
    BY <1>0, <1>3, Table DEF SysExit, Running, Enter, TypeOK
  <2>2. queue[p] = q
    BY <1>0, <2>1, Table DEF End, TypeOK
  <2> QED BY <1>0, <2>1, <2>2 DEF WaitInv, TypeOK
<1>4. ASSUME NEW p \in Procs, NEW r \in 0..NPROCS, SysWait(p, r) PROVE FALSE
  BY <1>0, <1>4, Table DEF SysWait, Waitable, TypeOK
<1> QED BY <1>1, <1>2, <1>3, <1>4 DEF Next

-----------------------------------------------------------------------------
(* The applications.                                                        *)

\* When process 1 forks it gets the first descriptor behind its children.
LEMMA FirstFree ==
    ASSUME KernelInv, p_state[1] = "RUNNABLE",
           NEW n \in Nat, Children = 2..(n + 1), n <= NPROCS - 2
    PROVE  ForkScan(1) = IF n = NPROCS - 2 THEN 1 ELSE n + 2
<1> DEFINE S == {q \in Procs : p_state[q] = "EMPTY"} \cup {1}
           c == FirstAfter(1, S)
<1>0. NPROCS \in Nat /\ NPROCS > 2 /\ 1 \in Pids /\ Procs = 1..(NPROCS - 1)
  BY MposAssumption DEF Pids, Procs
<1>1. S = ((n + 2)..(NPROCS - 1)) \cup {1}
  <2>1. \A q \in Procs \ {1} : p_state[q] = "EMPTY" <=> q \notin 2..(n + 1)
    BY DEF Children
  <2>2. \A q : q \in Procs \ {1} <=> q \in 2..(NPROCS - 1)
    BY <1>0
  <2>3. \A q \in 2..(NPROCS - 1) : q \notin 2..(n + 1) <=> q \in (n + 2)..(NPROCS - 1)
    BY <1>0
  <2>4. \A q \in (n + 2)..(NPROCS - 1) : q \in 2..(NPROCS - 1)
    BY <1>0
  <2> QED BY <1>0, <2>1, <2>2, <2>3, <2>4
<1>2. S \in SUBSET Pids
  BY Table
<1>3. c \in S /\ \A r \in S : Distance(1, c) <= Distance(1, r)
  BY <1>0, <1>2, ScanFinds
<1>4. ForkScan(1) = c
  BY <1>0 DEF ForkScan
<1> HIDE DEF c, S
<1>5. CASE n = NPROCS - 2
  <2>1. (n + 2)..(NPROCS - 1) = {}
    BY <1>0, <1>5
  <2> QED BY <1>1, <1>3, <1>4, <1>5, <2>1
<1>6. CASE n # NPROCS - 2
  <2>1. n + 2 \in S /\ n + 2 \in Pids /\ c \in Pids
    BY <1>0, <1>1, <1>2, <1>3, <1>6 DEF Pids
  <2>2. Distance(1, n + 2) = n
    BY <1>0, <2>1, DistanceValue
  <2>3. Distance(1, c) <= n
    BY <1>3, <2>1, <2>2
  <2>4. c # 1
    <3>1. Distance(1, 1) = NPROCS - 1
      BY <1>0, DistanceValue
    <3> QED BY <1>0, <1>6, <2>3, <3>1
  <2>5. c \in (n + 2)..(NPROCS - 1)
    BY <1>1, <1>3, <2>4
  <2>6. Distance(1, c) = c - 2
    BY <1>0, <2>1, <2>5, DistanceValue
  <2>7. c = n + 2
    BY <1>0, <2>3, <2>5, <2>6
  <2> QED BY <1>4, <1>6, <2>7
<1> QED BY <1>5, <1>6

\* What fork does for process 1.
LEMMA ForkByMain ==
    ASSUME TypeOK, SysFork(1)
    PROVE  /\ UNCHANGED <<queue, current, awaited>>
           /\ ForkScan(1) = 1 =>
                 reg_eax'[1] = -1 /\ UNCHANGED <<p_state, intact>>
           /\ ForkScan(1) \notin {1, NPROCS} =>
                 /\ reg_eax'[1] = ForkScan(1) /\ intact' = intact
                 /\ p_state' = [p_state EXCEPT ![ForkScan(1)] = "RUNNABLE"]
<1>1. 1 \in Procs /\ 1 \in Pids /\ 1 # NPROCS
  BY MposAssumption, Table
<1>2. ForkScan(1) \notin {1, NPROCS} => ForkScan(1) \in Pids \ {1}
  BY <1>1, ForkScanFinds, Table
<1> QED BY <1>1, <1>2 DEF SysFork, NewChild, TypeOK

\* Who is runnable: process 1 perhaps, and the runnable children.
LEMMA ReadySet ==
    ASSUME NEW st \in [Pids -> {"EMPTY", "RUNNABLE", "BLOCKED"}], st[0] = "EMPTY",
           NEW C, C = {p \in Procs \ {1} : st[p] # "EMPTY"},
           \A p \in C : st[p] = "RUNNABLE"
    PROVE  {p \in Pids : st[p] = "RUNNABLE"}
              = C \cup (IF st[1] = "RUNNABLE" THEN {1} ELSE {})
<1>1. Pids = Procs \cup {0} /\ 1 \in Procs /\ 0 \notin Procs
  BY MposAssumption DEF Pids, Procs
<1> QED BY <1>1

\* The kernel part of the invariant, for every step of every program.
LEMMA AppKernelStep ==
    ASSUME AppInv, [ANext]_avars
    PROVE  KernelInv'
<1>0. KernelInv /\ p_var \in Int /\ counter \in Int /\ 1 \in Procs
  BY Table, MposAssumption, AppsAssumption DEF AppInv, ATypeOK
<1>1. CASE AppFork \/ App2Fork
  BY <1>0, <1>1, ForkKeeps DEF AppFork, App2Fork
<1>2. CASE AppWait \/ AppEnd
  BY <1>0, <1>2, WaitKeeps, ExitKeeps DEF AppWait, AppEnd
<1>3. CASE App2Wait \/ App2End
  BY <1>0, <1>3, WaitKeeps, ExitKeeps DEF App2Wait, App2End
<1>4. CASE App2Round
  BY <1>0, <1>4, KernelStep DEF App2Round
<1>5. ASSUME NEW p \in Procs, AppChild(p) \/ App2Child(p) PROVE KernelInv'
  BY <1>0, <1>5, YieldKeeps, ExitKeeps DEF AppChild, App2Child
<1>6. CASE Other(Next) \/ UNCHANGED avars
  BY <1>0, <1>6, KernelStep DEF Other
<1> QED BY <1>1, <1>2, <1>3, <1>4, <1>5, <1>6 DEF ANext, Apps

-----------------------------------------------------------------------------
(* mpos-app.                                                                *)

\* The parts of the invariant a step of mpos-app must keep, besides the
\* kernel's.
LEMMA App1Rest ==
    ASSUME AppInv, whichprocess = 1, KernelInv', App1Inv', whichprocess' = 1,
           p_var' \in -1..NPROCS, status' \in Int, i_var' \in 0..Yields,
           UNCHANGED <<n_started, counter>>
    PROVE  AppInv'
<1>1. main' \in {"fork", "forked", "wait", "waited", "exit", "gone"}
  BY DEF App1Inv
<1> QED BY <1>1 DEF AppInv, ATypeOK, KernelInv

LEMMA AppForkKeeps == ASSUME AppInv, AppFork PROVE AppInv'
<1>0. /\ KernelInv /\ TypeOK /\ App1Inv /\ ATypeOK /\ KernelInv'
      /\ main = "fork" /\ main' = "forked" /\ SysFork(1) /\ current = 1
      /\ p_var' = reg_eax'[1] /\ whichprocess = 1 /\ whichprocess' = 1
      /\ UNCHANGED <<n_started, status, counter, i_var>>
  BY AppKernelStep DEF AppInv, KernelInv, AppFork, Main, ANext, Apps
<1>1. /\ Children = {} /\ queue[2] = Null /\ queue[1] = Null /\ intact
  BY <1>0 DEF App1Inv
<1>2. ForkScan(1) = 2
  <2>1. NPROCS \in Nat /\ NPROCS > 2
    BY MposAssumption
  <2>2. p_state[1] = "RUNNABLE"
    BY <1>0 DEF KernelInv
  <2>3. Children = 2..(0 + 1) /\ 0 <= NPROCS - 2 /\ 0 # NPROCS - 2
    BY <1>1, <2>1
  <2>4. ForkScan(1) = IF 0 = NPROCS - 2 THEN 1 ELSE 0 + 2
    BY <1>0, <2>2, <2>3, FirstFree
  <2> QED BY <2>3, <2>4
<1>3. /\ UNCHANGED <<queue, current, awaited>> /\ reg_eax'[1] = 2 /\ intact' = intact
      /\ p_state' = [p_state EXCEPT ![2] = "RUNNABLE"]
  BY <1>0, <1>2, MposAssumption, ForkByMain
<1>4. Children' \subseteq {2} /\ p_state'[2] = "RUNNABLE"
  BY <1>0, <1>1, <1>3, Table DEF Children, TypeOK
<1>5. App1Inv'
  BY <1>0, <1>1, <1>3, <1>4 DEF App1Inv
<1>6. p_var' \in -1..NPROCS /\ status' \in Int /\ i_var' \in 0..Yields
  BY <1>0, <1>3, MposAssumption DEF ATypeOK
<1> QED BY <1>0, <1>5, <1>6, App1Rest

\* Nobody but process 2 is a child of process 1.
LEMMA App1Ready ==
    ASSUME NEW st \in [Pids -> {"EMPTY", "RUNNABLE", "BLOCKED"}], st[0] = "EMPTY",
           {p \in Procs \ {1} : st[p] # "EMPTY"} \subseteq {2}
    PROVE  \A p \in Pids : st[p] # "EMPTY" => p \in {1, 2}
  BY DEF Pids, Procs

LEMMA AppWaitKeeps == ASSUME AppInv, AppWait PROVE AppInv'
<1>0. /\ KernelInv /\ TypeOK /\ App1Inv /\ ATypeOK /\ KernelInv' /\ TypeOK'
      /\ main = "forked" /\ current = 1
      /\ whichprocess = 1 /\ whichprocess' = 1
      /\ UNCHANGED <<p_var, n_started, status, counter, i_var>>
  BY AppKernelStep DEF AppInv, KernelInv, AppWait, Main, ANext, Apps
<1>1. /\ p_var = 2 /\ p_state[2] = "RUNNABLE" /\ queue[2] = Null
      /\ queue[1] = Null /\ intact /\ Children \subseteq {2}
  BY <1>0 DEF App1Inv
<1>2. main' = "waited" /\ SysWait(1, 2) /\ 2 \in Pids /\ 1 \in Pids
  BY <1>1, Table DEF AppWait, Main
<1>3. Waitable(1, 2)
  BY <1>1, Table DEF Waitable
<1>4. /\ p_state' = [p_state EXCEPT ![1] = "BLOCKED"]
      /\ queue' = [queue EXCEPT ![2] = 1]
      /\ awaited' = [awaited EXCEPT ![1] = 2]
      /\ intact' = intact /\ schedule(p_state')
  BY <1>2, <1>3 DEF SysWait
<1>5. Children' \subseteq {2}
  BY <1>0, <1>1, <1>4 DEF Children, TypeOK
<1>6. current' = 2
  <2>1. p_state'[2] = "RUNNABLE" /\ p_state'[1] = "BLOCKED"
    BY <1>0, <1>1, <1>2, <1>4 DEF TypeOK
  <2>2. \A p \in Pids : p_state'[p] # "EMPTY" => p \in {1, 2}
    BY <1>0, <1>5, App1Ready DEF Children, TypeOK
  <2>3. {p \in Pids : p_state'[p] = "RUNNABLE"} # {}
    BY <1>2, <2>1
  <2>4. current' \in Pids /\ p_state'[current'] = "RUNNABLE"
    BY <1>0, <1>4, <2>3, ScheduleStep DEF TypeOK
  <2> QED BY <2>1, <2>2, <2>4
<1>7. App1Inv'
  BY <1>0, <1>1, <1>2, <1>4, <1>5, <1>6 DEF App1Inv, TypeOK
<1> QED BY <1>0, <1>7, App1Rest DEF ATypeOK

LEMMA AppEndKeeps == ASSUME AppInv, AppEnd PROVE AppInv'
<1>0. /\ KernelInv /\ TypeOK /\ App1Inv /\ ATypeOK /\ KernelInv' /\ TypeOK'
      /\ main = "waited" /\ main' = "gone" /\ current = 1
      /\ status' = reg_eax[1] /\ SysExit(1, 0)
      /\ whichprocess = 1 /\ whichprocess' = 1
      /\ UNCHANGED <<p_var, n_started, counter, i_var>>
  BY AppKernelStep DEF AppInv, KernelInv, AppEnd, Main, ANext, Apps
<1>1. /\ Children = {} /\ reg_eax[1] = 1000 /\ queue[1] = Null /\ intact
  BY <1>0 DEF App1Inv
<1>2. /\ p_state' = [p_state EXCEPT ![1] = "EMPTY"]
      /\ UNCHANGED <<queue, intact>> /\ schedule(p_state') /\ 1 \in Pids
  BY <1>0, <1>1, Table DEF SysExit, End
<1>3. Children' = {} /\ p_state'[1] = "EMPTY"
  BY <1>0, <1>1, <1>2 DEF Children, TypeOK
<1>4. current' = Null
  <2>1. \A p \in Pids : p_state'[p] = "EMPTY"
    BY <1>0, <1>3, AllPids DEF Children, TypeOK
  <2> QED BY <1>0, <1>2, <2>1, ScheduleStep DEF TypeOK
<1>5. App1Inv'
  BY <1>0, <1>1, <1>2, <1>3, <1>4 DEF App1Inv
<1> QED BY <1>0, <1>1, <1>5, App1Rest DEF ATypeOK

LEMMA AppChildKeeps == ASSUME AppInv, NEW p \in Procs, AppChild(p) PROVE AppInv'
<1>0. /\ KernelInv /\ TypeOK /\ App1Inv /\ ATypeOK /\ KernelInv' /\ TypeOK'
      /\ current = p /\ p # 1 /\ whichprocess = 1 /\ whichprocess' = 1
      /\ UNCHANGED <<main, p_var, n_started, status, counter>>
      /\ (i_var < Yields /\ i_var' = i_var + 1) \/ UNCHANGED i_var
  BY AppKernelStep DEF AppInv, KernelInv, AppChild, SysYield, SysExit,
     Running, ANext, Apps
<1>a. i_var' \in 0..Yields
  BY <1>0, AppsAssumption DEF ATypeOK
<1>1. /\ main = "waited" /\ p = 2 /\ p_state[1] = "BLOCKED" /\ queue[2] = 1
      /\ awaited[1] = 2 /\ queue[1] = Null /\ intact /\ Children \subseteq {2}
  BY <1>0, Table DEF App1Inv
<1>2. p_state[2] = "RUNNABLE" /\ 2 \in Pids /\ 1 \in Pids
  BY <1>0, <1>1, Table DEF KernelInv
<1>3. CASE SysYield(p)
  <2>1. UNCHANGED <<p_state, reg_eax, queue, intact, awaited>> /\ schedule(p_state)
    BY <1>3 DEF SysYield
  <2>2. \A q \in Pids : p_state[q] # "EMPTY" => q \in {1, 2}
    BY <1>0, <1>1, App1Ready DEF Children, TypeOK
  <2>3. {q \in Pids : p_state[q] = "RUNNABLE"} # {}
    BY <1>2
  <2>4. current' \in Pids /\ p_state[current'] = "RUNNABLE"
    BY <1>0, <2>1, <2>3, ScheduleStep DEF TypeOK
  <2>5. current' = 2
    BY <1>1, <2>2, <2>4
  <2>6. App1Inv'
    BY <1>0, <1>1, <2>1, <2>5 DEF App1Inv, Children
  <2> QED BY <1>0, <1>a, <2>6, App1Rest DEF ATypeOK
<1>4. CASE SysExit(p, 1000)
  <2>1. /\ p_state' = [p_state EXCEPT ![1] = "RUNNABLE", ![2] = "EMPTY"]
        /\ reg_eax' = [reg_eax EXCEPT ![2] = 1000, ![1] = 1000]
        /\ UNCHANGED <<queue, intact, awaited>> /\ schedule(p_state')
    BY <1>1, <1>4 DEF SysExit, End
  <2>2. p_state'[1] = "RUNNABLE" /\ p_state'[2] = "EMPTY" /\ reg_eax'[1] = 1000
    BY <1>0, <1>2, <2>1 DEF TypeOK
  <2>3. Children' = {}
    <3>1. \A q \in Procs \ {1} : p_state[q] # "EMPTY" => q = 2
      BY <1>1 DEF Children
    <3>2. \A q \in Procs \ {1, 2} : p_state'[q] = p_state[q]
      BY <1>0, <2>1, Table DEF TypeOK
    <3> QED BY <2>2, <3>1, <3>2 DEF Children
  <2>4. \A q \in Pids : p_state'[q] # "EMPTY" => q = 1
    BY <1>0, <2>3, AllPids DEF Children, TypeOK
  <2>5. {q \in Pids : p_state'[q] = "RUNNABLE"} # {}
    BY <1>2, <2>2
  <2>6. current' \in Pids /\ p_state'[current'] = "RUNNABLE"
    <3>1. schedule(p_state') /\ current \in Pids /\ p_state'[0] = "EMPTY"
          /\ p_state' \in [Pids -> {"EMPTY", "RUNNABLE", "BLOCKED"}]
      BY <1>0, <2>1 DEF TypeOK
    <3> QED BY <2>5, <3>1, ScheduleStep
  <2>7. current' = 1
    BY <2>4, <2>6
  <2>8. App1Inv'
    BY <1>0, <1>1, <2>1, <2>2, <2>3, <2>7 DEF App1Inv
  <2> QED BY <1>0, <1>a, <2>8, App1Rest DEF ATypeOK
<1> QED BY <1>3, <1>4 DEF AppChild

-----------------------------------------------------------------------------
(* mpos-app2.                                                               *)

\* The parts of the invariant a step of mpos-app2 must keep, besides the
\* kernel's.
LEMMA App2Rest ==
    ASSUME AppInv, whichprocess = 2, KernelInv', App2Inv', whichprocess' = 2,
           p_var' \in -1..NPROCS, n_started' \in 0..Total, counter' \in 0..Total,
           UNCHANGED <<status, i_var>>
    PROVE  AppInv'
<1>1. main' \in {"fork", "forked", "wait", "waited", "exit", "gone"}
  BY DEF App2Inv
<1> QED BY <1>1 DEF AppInv, ATypeOK, KernelInv

LEMMA App2ForkKeeps == ASSUME AppInv, App2Fork PROVE AppInv'
<1>0. /\ KernelInv /\ TypeOK /\ App2Inv /\ ATypeOK /\ KernelInv'
      /\ main = "fork" /\ SysFork(1) /\ current = 1 /\ counter + n_started < Total
      /\ whichprocess = 2 /\ whichprocess' = 2
      /\ UNCHANGED <<p_var, status, counter, i_var>>
  BY AppKernelStep DEF AppInv, KernelInv, App2Fork, ANext, Apps
<1>1. /\ Children = 2..(n_started + 1) /\ intact /\ queue \in [Pids -> {Null, 1}]
      /\ queue[1] = Null /\ n_started <= NPROCS - 2
      /\ \A p \in Children : p_state[p] = "RUNNABLE"
  BY <1>0 DEF App2Inv
<1>2. /\ NPROCS \in Nat /\ NPROCS > 2 /\ Total \in Nat /\ n_started \in Nat /\ counter \in Nat
      /\ n_started <= Total
  BY <1>0, MposAssumption, AppsAssumption DEF ATypeOK
<1>3. ForkScan(1) = IF n_started = NPROCS - 2 THEN 1 ELSE n_started + 2
  <2>1. p_state[1] = "RUNNABLE"
    BY <1>0 DEF KernelInv
  <2> QED BY <1>0, <1>1, <1>2, <2>1, FirstFree
<1>4. UNCHANGED <<queue, current, awaited>>
  BY <1>0, ForkByMain
<1>5. CASE n_started = NPROCS - 2
  <2>1. reg_eax'[1] = -1 /\ UNCHANGED <<p_state, intact>>
    BY <1>0, <1>3, <1>5, ForkByMain
  <2>2. main' = "forked" /\ n_started' = n_started
    BY <2>1 DEF App2Fork
  <2>3. App2Inv'
    BY <1>0, <1>1, <1>2, <1>4, <1>5, <2>1, <2>2 DEF App2Inv, Children
  <2> QED BY <1>0, <2>2, <2>3, App2Rest DEF ATypeOK
<1>6. CASE n_started # NPROCS - 2
  <2>0. /\ ForkScan(1) = n_started + 2 /\ n_started + 2 \notin {1, NPROCS}
        /\ n_started + 2 \in Procs /\ n_started + 2 \in Pids
    BY <1>1, <1>2, <1>3, <1>6 DEF Pids, Procs
  <2>1. /\ reg_eax'[1] = n_started + 2 /\ intact' = intact
        /\ p_state' = [p_state EXCEPT ![n_started + 2] = "RUNNABLE"]
    BY <1>0, <2>0, ForkByMain
  <2>2. main' = "fork" /\ n_started' = n_started + 1
    BY <1>2, <2>1 DEF App2Fork
  <2>3. \A q \in Procs \ {1} :
           p_state'[q] # "EMPTY" <=> p_state[q] # "EMPTY" \/ q = n_started + 2
    BY <1>0, <2>0, <2>1, Table DEF TypeOK
  <2>4. Children' = Children \cup {n_started + 2}
    BY <2>0, <2>3, Table DEF Children
  <2>5. Children' = 2..(n_started' + 1)
    BY <1>1, <1>2, <2>2, <2>4
  <2>6. \A p \in Children' : p_state'[p] = "RUNNABLE"
    BY <1>0, <1>1, <2>0, <2>1, <2>4, Table DEF TypeOK, Children
  <2>7. n_started' <= NPROCS - 2 /\ counter' + n_started' <= Total /\ n_started' \in 0..Total
    BY <1>0, <1>1, <1>2, <1>6, <2>2
  <2>8. App2Inv'
    BY <1>0, <1>1, <1>4, <2>1, <2>2, <2>5, <2>6, <2>7 DEF App2Inv
  <2> QED BY <1>0, <2>7, <2>8, App2Rest DEF ATypeOK
<1> QED BY <1>5, <1>6

\* The first disjunct of App2Wait: process 2 is the first child and gets
\* the CPU.
LEMMA App2WaitFirst ==
    ASSUME AppInv, App2Wait, main # "wait"
    PROVE  AppInv'
<1>0. /\ KernelInv /\ TypeOK /\ App2Inv /\ ATypeOK /\ KernelInv' /\ TypeOK'
      /\ current = 1 /\ main' = "wait" /\ p_var' = 3 /\ SysWait(1, 2)
      /\ main \in {"fork", "forked"} /\ n_started > 0
      /\ whichprocess = 2 /\ whichprocess' = 2
      /\ UNCHANGED <<n_started, status, counter, i_var>>
  BY AppKernelStep DEF AppInv, KernelInv, App2Wait, ANext, Apps
<1>1. /\ Children = 2..(n_started + 1) /\ intact /\ queue \in [Pids -> {Null, 1}]
      /\ queue[1] = Null /\ n_started <= NPROCS - 2
      /\ \A p \in Children : p_state[p] = "RUNNABLE"
      /\ counter + n_started <= Total
  BY <1>0 DEF App2Inv
<1>2. /\ NPROCS \in Nat /\ NPROCS > 2 /\ Total \in Nat /\ n_started \in Nat /\ counter \in Nat
      /\ 1 \in Pids /\ 2 \in Pids
  BY <1>0, MposAssumption, AppsAssumption, Table DEF ATypeOK
<1>3. 2 \in Children /\ p_state[2] = "RUNNABLE"
  BY <1>0, <1>1, <1>2
<1>4. Waitable(1, 2)
  BY <1>3, Table DEF Waitable
<1>5. /\ p_state' = [p_state EXCEPT ![1] = "BLOCKED"]
      /\ queue' = [queue EXCEPT ![2] = 1]
      /\ awaited' = [awaited EXCEPT ![1] = 2]
      /\ intact' = intact /\ schedule(p_state')
  BY <1>0, <1>4 DEF SysWait
<1>6. \A q \in Procs \ {1} : p_state'[q] = p_state[q]
  BY <1>0, <1>5, Table DEF TypeOK
<1>7. Children' = Children
  BY <1>6 DEF Children
<1>8. \A p \in Children' : p_state'[p] = "RUNNABLE"
  BY <1>1, <1>6, <1>7 DEF Children
<1>9. current' = 2
  <2> DEFINE ready == {p \in Pids : p_state'[p] = "RUNNABLE"}
  <2>1. ready \in SUBSET Pids /\ 1 + 1 \in ready
    BY <1>2, <1>3, <1>7, <1>8
  <2>2. schedule(p_state') /\ current \in Pids /\ p_state'[0] = "EMPTY"
        /\ p_state' \in [Pids -> {"EMPTY", "RUNNABLE", "BLOCKED"}]
    BY <1>0, <1>5 DEF TypeOK
  <2>3. current' = FirstAfter(current, ready)
    BY <2>1, <2>2, ScheduleStep
  <2> HIDE DEF ready
  <2>4. FirstAfter(1, ready) = 1 + 1
    BY <1>2, <2>1, NextFound
  <2> QED BY <1>0, <2>3, <2>4
<1>10. queue' \in [Pids -> {Null, 1}] /\ queue'[1] = Null /\ queue'[2] = 1
       /\ awaited'[1] = 2 /\ p_state'[1] = "BLOCKED"
  BY <1>0, <1>1, <1>2, <1>5 DEF TypeOK
<1>11. App2Inv'
  BY <1>0, <1>1, <1>2, <1>5, <1>7, <1>8, <1>9, <1>10 DEF App2Inv
<1> QED BY <1>0, <1>2, <1>11, App2Rest DEF ATypeOK

\* The second disjunct: no child is left, and the call fails at once.
LEMMA App2WaitMore ==
    ASSUME AppInv, App2Wait, main = "wait"
    PROVE  AppInv'
<1>0. /\ KernelInv /\ TypeOK /\ App2Inv /\ ATypeOK /\ KernelInv' /\ TypeOK'
      /\ current = 1 /\ main' = "wait" /\ p_var' = p_var + 1 /\ SysWait(1, p_var)
      /\ p_var < NPROCS /\ whichprocess = 2 /\ whichprocess' = 2
      /\ UNCHANGED <<n_started, status, counter, i_var>>
  BY AppKernelStep DEF AppInv, KernelInv, App2Wait, ANext, Apps
<1>1. /\ Children = {} /\ intact /\ queue \in [Pids -> {Null, 1}]
      /\ queue[1] = Null /\ n_started <= NPROCS - 2 /\ p_var >= 3
  BY <1>0 DEF App2Inv
<1>2. NPROCS \in Nat /\ p_var \in Int
  BY <1>0, MposAssumption DEF ATypeOK
<1>3. p_state[1] = "RUNNABLE" /\ 1 \in Pids
  BY <1>0, Table DEF KernelInv
<1>4. ~Waitable(1, p_var)
  BY <1>1 DEF Waitable, Children
<1>5. UNCHANGED <<p_state, queue, awaited, intact>> /\ schedule(p_state')
  BY <1>0, <1>4 DEF SysWait
<1>6. \A p \in Pids : p_state'[p] # "EMPTY" => p = 1
  BY <1>0, <1>1, <1>5, AllPids DEF Children, TypeOK
<1>7. current' = 1
  <2>1. {q \in Pids : p_state'[q] = "RUNNABLE"} # {}
    BY <1>3, <1>5
  <2>2. schedule(p_state') /\ current \in Pids /\ p_state'[0] = "EMPTY"
        /\ p_state' \in [Pids -> {"EMPTY", "RUNNABLE", "BLOCKED"}]
    BY <1>0, <1>5 DEF TypeOK
  <2>3. current' \in Pids /\ p_state'[current'] = "RUNNABLE"
    BY <2>1, <2>2, ScheduleStep
  <2> QED BY <1>6, <2>3
<1>8. p_var' \in -1..NPROCS /\ p_var' >= 3
  BY <1>0, <1>1, <1>2
<1>9. App2Inv'
  BY <1>0, <1>1, <1>3, <1>5, <1>7, <1>8 DEF App2Inv, Children
<1> QED BY <1>0, <1>8, <1>9, App2Rest DEF ATypeOK

LEMMA App2RoundKeeps == ASSUME AppInv, App2Round PROVE AppInv'
<1>0. /\ KernelInv /\ App2Inv /\ ATypeOK /\ KernelInv'
      /\ current = 1 /\ main = "wait" /\ main' = "fork" /\ counter < Total
      /\ p_var' = 0 /\ n_started' = 0
      /\ whichprocess = 2 /\ whichprocess' = 2
      /\ UNCHANGED vars /\ UNCHANGED <<status, counter, i_var>>
  BY AppKernelStep DEF AppInv, App2Round, Main, ANext, Apps
<1>1. /\ NPROCS \in Nat /\ NPROCS > 2 /\ Total \in Nat /\ counter \in Nat
  BY <1>0, MposAssumption, AppsAssumption DEF ATypeOK
<1>2. Children = {} /\ Children' = Children
  BY <1>0 DEF App2Inv, Children
<1>3. Children' = 2..(n_started' + 1) /\ n_started' <= NPROCS - 2
      /\ counter' + n_started' <= Total
  BY <1>0, <1>1, <1>2
<1>4. App2Inv'
  BY <1>0, <1>2, <1>3 DEF App2Inv
<1> QED BY <1>0, <1>1, <1>4, App2Rest DEF ATypeOK

LEMMA App2EndKeeps == ASSUME AppInv, App2End PROVE AppInv'
<1>0. /\ KernelInv /\ TypeOK /\ App2Inv /\ ATypeOK /\ KernelInv' /\ TypeOK'
      /\ current = 1 /\ main' = "gone" /\ SysExit(1, 0)
      /\ whichprocess = 2 /\ whichprocess' = 2
      /\ UNCHANGED <<p_var, n_started, status, counter, i_var>>
  BY AppKernelStep DEF AppInv, KernelInv, App2End, Main, ANext, Apps
<1>1. main = "wait" /\ counter = Total
  BY <1>0, MposAssumption, AppsAssumption DEF App2End, Main, App2Inv, ATypeOK
<1>2. /\ Children = {} /\ queue[1] = Null /\ intact /\ queue \in [Pids -> {Null, 1}]
      /\ n_started <= NPROCS - 2
  BY <1>0, <1>1 DEF App2Inv
<1>3. /\ p_state' = [p_state EXCEPT ![1] = "EMPTY"]
      /\ UNCHANGED <<queue, intact>> /\ schedule(p_state') /\ 1 \in Pids
  BY <1>0, <1>2, Table DEF SysExit, End
<1>4. Children' = {} /\ p_state'[1] = "EMPTY"
  BY <1>0, <1>2, <1>3 DEF Children, TypeOK
<1>5. current' = Null
  <2>1. \A p \in Pids : p_state'[p] = "EMPTY"
    BY <1>0, <1>4, AllPids DEF Children, TypeOK
  <2> QED BY <1>0, <1>3, <2>1, ScheduleStep DEF TypeOK
<1>6. App2Inv'
  BY <1>0, <1>1, <1>2, <1>3, <1>4, <1>5 DEF App2Inv
<1> QED BY <1>0, <1>6, App2Rest DEF ATypeOK

\* A child exits: process 1 is runnable, and the next child is the next to
\* run, or process 1 if it was the last.
LEMMA App2ChildKeeps == ASSUME AppInv, NEW p \in Procs, App2Child(p) PROVE AppInv'
<1>0. /\ KernelInv /\ TypeOK /\ App2Inv /\ ATypeOK /\ KernelInv' /\ TypeOK'
      /\ current = p /\ p # 1 /\ p # 0 /\ whichprocess = 2 /\ whichprocess' = 2
      /\ SysExit(p, counter) /\ counter' = counter + 1
      /\ UNCHANGED <<main, p_var, n_started, status, i_var>>
  BY AppKernelStep, Table DEF AppInv, KernelInv, App2Child, SysExit, Running, ANext, Apps
<1>1. /\ NPROCS \in Nat /\ NPROCS > 2 /\ Total \in Nat /\ n_started \in Nat /\ counter \in Nat
      /\ 1 \in Pids /\ p \in Pids /\ p \in Nat /\ p > 1
  BY <1>0, MposAssumption, AppsAssumption, Table DEF ATypeOK, Procs
<1>2. /\ main = "wait" /\ intact /\ queue \in [Pids -> {Null, 1}]
      /\ queue[1] = Null /\ n_started <= NPROCS - 2
      /\ \A q \in Children : p_state[q] = "RUNNABLE"
      /\ p_var >= 3 /\ p_state[1] # "EMPTY"
      /\ Children = p..(n_started + 1)
      /\ counter + n_started + 2 - p <= Total
      /\ p_state[1] = "BLOCKED" => p = 2 /\ queue[2] = 1
  BY <1>0, <1>1 DEF App2Inv
<1>3. p \in Children /\ p <= n_started + 1
  <2>1. p_state[p] = "RUNNABLE"
    BY <1>0 DEF KernelInv
  <2>2. p \in Children
    BY <1>0, <2>1 DEF Children
  <2> QED BY <1>1, <1>2, <2>2
<1>4. /\ UNCHANGED <<queue, intact, awaited>> /\ schedule(p_state')
      /\ \/ /\ queue[p] = Null
            /\ p_state' = [p_state EXCEPT ![p] = "EMPTY"]
         \/ /\ queue[p] = 1
            /\ p_state' = [p_state EXCEPT ![1] = "RUNNABLE", ![p] = "EMPTY"]
  <2>1. End(p, counter) /\ UNCHANGED <<queue, intact, awaited>> /\ schedule(p_state')
    BY <1>0 DEF SysExit
  <2>2. queue[p] \in {Null, 1}
    BY <1>1, <1>2
  <2> QED BY <2>1, <2>2 DEF End
<1>5. /\ p_state'[1] = "RUNNABLE" /\ p_state'[p] = "EMPTY"
      /\ \A q \in Procs \ {1, p} : p_state'[q] = p_state[q]
  <2>0. p_state \in [Pids -> {"EMPTY", "RUNNABLE", "BLOCKED"}]
    BY <1>0 DEF TypeOK
  <2>1. CASE queue[p] = Null
    <3>1. p_state' = [p_state EXCEPT ![p] = "EMPTY"]
      BY <1>4, <2>1
    <3>2. p_state[1] = "RUNNABLE"
      BY <1>1, <1>2, <2>0, <2>1
    <3> QED BY <1>0, <1>1, <2>0, <3>1, <3>2, Table
  <2>2. CASE queue[p] # Null
    <3>1. p_state' = [p_state EXCEPT ![1] = "RUNNABLE", ![p] = "EMPTY"]
      BY <1>4, <2>2
    <3> QED BY <1>0, <1>1, <2>0, <3>1, Table
  <2> QED BY <2>1, <2>2
<1>6. Children' = (p + 1)..(n_started + 1)
  <2>1. Children' = Children \ {p}
    BY <1>5 DEF Children
  <2> QED BY <1>1, <1>2, <2>1
<1>7. \A q \in Children' : p_state'[q] = "RUNNABLE"
  <2>1. \A q \in Children' : q \in Children /\ q \in Procs \ {1, p}
    BY <1>5 DEF Children
  <2> QED BY <1>2, <1>5, <2>1
<1>8. current' = IF p = n_started + 1 THEN 1 ELSE p + 1
  <2>0. schedule(p_state') /\ current \in Pids /\ p_state'[0] = "EMPTY"
        /\ p_state' \in [Pids -> {"EMPTY", "RUNNABLE", "BLOCKED"}]
    BY <1>0, <1>4 DEF TypeOK
  <2> DEFINE ready == {q \in Pids : p_state'[q] = "RUNNABLE"}
  <2>1. 1 \in ready /\ ready \in SUBSET Pids
    BY <1>1, <1>5
  <2>2. current' = FirstAfter(current, ready) /\ current' \in ready
    BY <2>0, <2>1, ScheduleStep, Table
  <2>3. CASE p = n_started + 1
    <3>1. Children' = {}
      BY <1>1, <1>6, <2>3
    <3>2. \A q \in Pids : p_state'[q] # "EMPTY" => q = 1
      BY <2>0, <3>1, AllPids DEF Children
    <3> QED BY <2>2, <2>3, <3>2
  <2>4. CASE p # n_started + 1
    <3>1. p + 1 \in Children' /\ p + 1 \in Pids
      BY <1>1, <1>2, <1>3, <1>6, <2>4 DEF Pids
    <3>2. p + 1 \in ready
      BY <1>7, <3>1
    <3> HIDE DEF ready
    <3>3. FirstAfter(p, ready) = p + 1
      BY <1>1, <2>1, <3>2, NextFound
    <3> QED BY <1>0, <2>2, <2>4, <3>3
  <2> QED BY <2>3, <2>4
<1>9. /\ current' # Null
      /\ current' = 1 => Children' = {}
      /\ current' > 1 => /\ Children' = current'..(n_started + 1)
                         /\ counter' + n_started + 2 - current' <= Total
  BY <1>0, <1>1, <1>2, <1>3, <1>6, <1>8
<1>10. counter' \in 0..Total
  BY <1>0, <1>1, <1>2, <1>3
<1>11. App2Inv'
  BY <1>0, <1>2, <1>4, <1>5, <1>7, <1>9 DEF App2Inv
<1> QED BY <1>0, <1>10, <1>11, App2Rest DEF ATypeOK

-----------------------------------------------------------------------------
(* The theorems about the applications.                                     *)

LEMMA AppInvInit == AInit => AppInv
<1> SUFFICES ASSUME AInit PROVE AppInv
  OBVIOUS
<1>1. KernelInv /\ TypeOK /\ NPROCS \in Nat /\ NPROCS > 2
      /\ Total \in Nat /\ Yields \in Nat
  BY KernelInit, MposAssumption, AppsAssumption DEF AInit, KernelInv
<1>2. ATypeOK
  BY <1>1 DEF AInit, ATypeOK
<1>3. Children = {} /\ Children = 2..(n_started + 1)
  BY <1>1, Table DEF AInit, Init, Children
<1>4. App1Inv
  BY <1>3, Table DEF AInit, Init, App1Inv
<1>5. App2Inv
  <2>1. n_started = 0 /\ counter = 0 /\ current = 1 /\ main = "fork" /\ intact
        /\ queue \in [Pids -> {Null, 1}] /\ queue[1] = Null
    BY Table DEF AInit, Init
  <2> QED BY <1>1, <1>3, <2>1 DEF App2Inv
<1> QED BY <1>1, <1>2, <1>4, <1>5 DEF AppInv, AInit

LEMMA AppInvStep == AppInv /\ [ANext]_avars => AppInv'
<1> SUFFICES ASSUME AppInv, [ANext]_avars PROVE AppInv'
  OBVIOUS
<1>1. CASE AppFork \/ AppWait \/ AppEnd
  BY <1>1, AppForkKeeps, AppWaitKeeps, AppEndKeeps
<1>2. CASE App2Fork \/ App2Wait \/ App2Round \/ App2End
  BY <1>2, App2ForkKeeps, App2WaitFirst, App2WaitMore, App2RoundKeeps, App2EndKeeps
<1>3. ASSUME NEW p \in Procs, AppChild(p) \/ App2Child(p) PROVE AppInv'
  BY <1>3, AppChildKeeps, App2ChildKeeps
<1>4. CASE Other(Next)
  <2>1. KernelInv' /\ TypeOK'
    BY AppKernelStep DEF KernelInv
  <2>2. whichprocess = 3 /\ UNCHANGED apps
    BY <1>4 DEF Other
  <2> QED BY <2>1, <2>2 DEF AppInv, ATypeOK
<1>5. CASE UNCHANGED avars
  <2>1. KernelInv' /\ TypeOK'
    BY AppKernelStep DEF KernelInv
  <2>2. Children' = Children
    BY <1>5 DEF Children
  <2>3. App1Inv' <=> App1Inv
    BY <1>5, <2>2 DEF App1Inv
  <2>4. App2Inv' <=> App2Inv
    BY <1>5, <2>2 DEF App2Inv
  <2> QED BY <1>5, <2>1, <2>3, <2>4 DEF AppInv, ATypeOK
<1> QED BY <1>1, <1>2, <1>3, <1>4, <1>5 DEF ANext, Apps

LEMMA AppInvHolds == ASpec => []AppInv
  BY AppInvInit, AppInvStep, PTL DEF ASpec

\* The type invariant of the applications, for every size of the table, every
\* number of children and of yields.
THEOREM AppTypes == ASpec => []ATypeOK
<1>1. AppInv => ATypeOK
  BY DEF AppInv
<1> QED BY <1>1, AppInvHolds, PTL

\* mpos-app2 never loses count of its children, however often the process
\* table fills and is used again.
THEOREM ChildrenExact == ASpec => []ChildrenCounted
<1>1. AppInv => ChildrenCounted
  <2> SUFFICES ASSUME AppInv, whichprocess = 2, main \in {"fork", "forked"}
               PROVE  Cardinality(Children) = n_started
    BY DEF ChildrenCounted
  <2>1. Children = 2..(n_started + 1) /\ n_started \in Nat
    BY AppsAssumption DEF AppInv, App2Inv, ATypeOK
  <2>2. Cardinality(2..(n_started + 1)) =
           IF 2 > n_started + 1 THEN 0 ELSE n_started + 1 - 2 + 1
    BY <2>1, FS_Interval
  <2> QED BY <2>1, <2>2
<1> QED BY <1>1, AppInvHolds, PTL

\* When an application has ended its work is done: the status of mpos-app's
\* child has reached its parent, mpos-app2 has run every one of its children,
\* and no process is left.
THEOREM AppsEndComplete == ASpec => []AppsExact
<1>1. AppInv => AppsExact
  <2> SUFFICES ASSUME AppInv, main = "gone"
               PROVE  /\ \A p \in Procs : p_state[p] = "EMPTY"
                      /\ whichprocess = 1 => status = 1000
                      /\ whichprocess = 2 => counter = Total
    BY DEF AppsExact
  <2>1. whichprocess \in {1, 2}
    BY DEF AppInv, ATypeOK
  <2>2. Children = {} /\ p_state[1] = "EMPTY"
    BY <2>1 DEF AppInv, App1Inv, App2Inv
  <2>3. \A p \in Procs : p_state[p] = "EMPTY"
    BY <2>2 DEF Children
  <2> QED BY <2>3 DEF AppInv, App1Inv, App2Inv
<1> QED BY <1>1, AppInvHolds, PTL

\* What the invariants of the applications say of a process that a step wakes.
LEMMA AppsWoken ==
    ASSUME AppInv, Apps
    PROVE  Awakening
<1>0. KernelInv /\ TypeOK /\ p_var \in Int
  BY MposAssumption DEF AppInv, KernelInv, ATypeOK
<1> SUFFICES ASSUME NEW q \in Procs, p_state[q] = "BLOCKED", p_state'[q] = "RUNNABLE"
             PROVE  current = awaited[q] /\ call'[current] = "exit"
  BY DEF Awakening
<1>1. CASE AppFork \/ App2Fork
  <2>1. SysFork(1)
    BY <1>1 DEF AppFork, App2Fork
  <2>2. \/ p_state' = p_state
        \/ /\ ForkScan(1) \notin {1, NPROCS}
           /\ p_state' = [p_state EXCEPT ![ForkScan(1)] = "RUNNABLE"]
    BY <2>1 DEF SysFork, NewChild
  <2> QED BY <1>0, <2>2, ForkScanFinds, Table DEF TypeOK
<1>2. ASSUME NEW r \in Int, SysWait(1, r) PROVE FALSE
  BY <1>0, <1>2, Table DEF SysWait, Waitable, TypeOK
<1>3. CASE AppEnd \/ App2End \/ (AppWait /\ ~(p_var > 0))
  <2>1. PICK s \in {0, 1} : SysExit(1, s)
    BY <1>3 DEF AppEnd, App2End, AppWait
  <2>2. queue[1] = Null
    BY <1>3 DEF AppInv, AppEnd, App2End, AppWait, App1Inv, App2Inv
  <2>3. p_state' = [p_state EXCEPT ![1] = "EMPTY"]
    BY <2>1, <2>2 DEF SysExit, End
  <2> QED BY <1>0, <2>3, Table DEF TypeOK
<1>4. CASE App2Round
  BY <1>4 DEF App2Round
<1>5. ASSUME NEW p \in Procs, AppChild(p)
      PROVE  current = awaited[q] /\ call'[current] = "exit"
  <2>1. App1Inv /\ p # 1
    BY <1>5 DEF AppInv, AppChild
  <2>2. SysExit(p, 1000)
    BY <1>5 DEF AppChild, SysYield
  <2>3. /\ current = p /\ call' = [call EXCEPT ![p] = "exit"] /\ End(p, 1000) /\ p \in Pids
    BY <2>2, Table DEF SysExit, Running, Enter
  <2>4. p = 2 /\ awaited[1] = 2 /\ queue[2] = 1
    BY <2>1, <2>3, Table DEF App1Inv
  <2>5. q = 1
    BY <1>0, <2>3, <2>4, Table DEF End, TypeOK
  <2> QED BY <1>0, <2>3, <2>4, <2>5 DEF TypeOK
<1>6. ASSUME NEW p \in Procs, App2Child(p)
      PROVE  current = awaited[q] /\ call'[current] = "exit"
  <2>1. App2Inv /\ p # 1 /\ SysExit(p, counter)
    BY <1>6 DEF AppInv, App2Child
  <2>2. /\ current = p /\ call' = [call EXCEPT ![p] = "exit"] /\ End(p, counter)
        /\ p \in Pids /\ p # 0
    BY <2>1, Table DEF SysExit, Running, Enter
  <2>3. main = "wait" /\ queue[p] \in {Null, 1}
    BY <2>1, <2>2 DEF App2Inv
  <2>4. q = 1
    BY <1>0, <2>2, <2>3, Table DEF End, TypeOK
  <2>5. p = 2 /\ awaited[1] = 2
    BY <2>1, <2>2, <2>3, <2>4 DEF App2Inv
  <2> QED BY <1>0, <2>2, <2>4, <2>5 DEF TypeOK
<1> QED BY <1>0, <1>1, <1>2, <1>3, <1>4, <1>5, <1>6
    DEF Apps, AppWait, App2Wait

\* A process in wait is woken by the exit of the process it waits for and by
\* no other, in both applications and, as long as no descriptor is used twice,
\* in every program.
THEOREM WaitNotSpurious == ASSUME OneRound PROVE ASpec => WokenByAwaited
<1> DEFINE OtherInv == whichprocess = 3 => WaitInv
<1>1. AInit => OtherInv
  BY WaitInvInit DEF AInit
<1>2. AppInv /\ OtherInv /\ [ANext]_avars => OtherInv'
  <2> SUFFICES ASSUME AppInv, OtherInv, [ANext]_avars, whichprocess' = 3 PROVE WaitInv'
    OBVIOUS
  <2>1. whichprocess = 3 /\ [Next]_vars
    BY DEF ANext, Apps, AppFork, AppWait, AppEnd, AppChild, App2Fork, App2Wait,
       App2Round, App2End, App2Child, Other
  <2>2. KernelInv /\ WaitInv
    BY <2>1 DEF AppInv
  <2> QED BY <2>1, <2>2, WaitInvStep
<1>3. AppInv /\ OtherInv /\ [ANext]_avars => [Awakening]_vars
  <2> SUFFICES ASSUME AppInv, OtherInv, [ANext]_avars PROVE [Awakening]_vars
    OBVIOUS
  <2>1. CASE Apps
    BY <2>1, AppsWoken
  <2>2. CASE Other(Next)
    BY <2>2, WokenStep DEF Other, AppInv
  <2> QED BY <2>1, <2>2 DEF ANext
<1>4. WokenByAwaited <=> [][Awakening]_vars
  BY DEF WokenByAwaited, Awakening
<1> HIDE DEF OtherInv
<1> QED BY <1>1, <1>2, <1>3, <1>4, AppInvHolds, PTL DEF ASpec
=============================================================================
