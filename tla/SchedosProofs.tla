--------------------------- MODULE SchedosProofs ---------------------------
(* Proofs about Schedos, for every number of processes and of characters,  *)
(* every scheduling algorithm and every start value of the lock.           *)
EXTENDS Schedos, FiniteSetTheorems, WellFoundedInduction, TLAPS

USE DEF app, kernel, vars

-----------------------------------------------------------------------------
(* Whom the scheduler picks.                                               *)

\* A non-empty set of natural numbers has a least element.
LEMMA LeastNat ==
    ASSUME NEW T \in SUBSET Nat, T # {}
    PROVE  \E m \in T : \A n \in T : m <= n
<1> DEFINE R == {ss \in Nat \X Nat : ss[1] < ss[2]}
<1>1. IsWellFoundedOn(R, Nat)
  BY NatLessThanWellFounded DEF OpToRel
<1>2. PICK m \in T : \A n \in T : ~(<<n, m>> \in R)
  <2> HIDE DEF R
  <2> QED BY <1>1, WFMin
<1>3. \A n \in T : n < m => <<n, m>> \in R
  OBVIOUS
<1>4. m \in Nat /\ \A n \in T : n \in Nat /\ ~(n < m)
  <2> HIDE DEF R
  <2> QED BY <1>2, <1>3
<1> QED BY <1>4

\* A distance is a number of processes passed, fewer than there are.
LEMMA DistanceType ==
    ASSUME NEW pid \in Pids, NEW q \in Pids
    PROVE  Distance(pid, q) \in Nat
  BY SchedosAssumption DEF Distance, Pids

\* The round-robin scan finds one of the processes it looks for.
LEMMA RoundRobinFinds ==
    ASSUME NEW pid \in Pids, NEW ready \in SUBSET Pids, ready # {}
    PROVE  RoundRobin(pid, ready) \in ready
<1> DEFINE T == {Distance(pid, q) : q \in ready}
<1>1. T \in SUBSET Nat /\ T # {}
  BY DistanceType
<1>2. PICK m \in T : \A n \in T : m <= n
  BY <1>1, LeastNat
<1>3. \E q \in ready : \A r \in ready : Distance(pid, q) <= Distance(pid, r)
  BY <1>2
<1> QED BY <1>3 DEF RoundRobin

\* The priority scan finds a process that none precedes.
LEMMA HighestFinds ==
    ASSUME TypeOK, NEW ready \in SUBSET Pids, ready # {}
    PROVE  /\ Highest(ready) \in ready
           /\ \A q \in ready : p_priority[Highest(ready)] <= p_priority[q]
<1> DEFINE T == {p_priority[q] : q \in ready}
<1>1. T \in SUBSET Nat /\ T # {}
  BY DEF TypeOK
<1>2. PICK m \in T : \A n \in T : m <= n
  BY <1>1, LeastNat
<1> DEFINE best == {q \in ready : p_priority[q] = m}
<1>3. best \in SUBSET Nat /\ best # {}
  <2>1. ready \subseteq Nat
    BY SchedosAssumption DEF Pids
  <2> QED BY <1>2, <2>1
<1>4. PICK p \in best : \A q \in best : p <= q
  BY <1>3, LeastNat
<1>5. \A q \in ready : \/ p_priority[p] < p_priority[q]
                       \/ p_priority[p] = p_priority[q] /\ p <= q
  <2> SUFFICES ASSUME NEW q \in ready, p_priority[p] # p_priority[q]
               PROVE  p_priority[p] < p_priority[q]
    BY <1>4
  <2> QED BY <1>1, <1>2, <1>4 DEF TypeOK
<1>6. /\ Highest(ready) \in ready
      /\ \A q \in ready :
            \/ p_priority[Highest(ready)] < p_priority[q]
            \/ /\ p_priority[Highest(ready)] = p_priority[q]
               /\ Highest(ready) <= q
  BY <1>4, <1>5 DEF Highest
<1> QED BY <1>6 DEF TypeOK

\* A pass of algorithm 2 finds a runnable process or none; from a process that
\* does not outrank all runnable ones it finds one of the highest priority.
LEMMA PassFinds ==
    ASSUME TypeOK, NEW pid \in Pids, NEW ready \in SUBSET Apps, ready # {}
    PROVE  /\ PriorityPass(pid, ready) \in ready \cup {0}
           /\ (\E r \in ready : p_priority[r] <= p_priority[pid]) =>
                 /\ PriorityPass(pid, ready) \in ready
                 /\ \A q \in ready :
                       p_priority[PriorityPass(pid, ready)] <= p_priority[q]
<1> DEFINE equals == {p \in ready : p_priority[p] = p_priority[pid]}
<1>1. ready \in SUBSET Pids /\ equals \in SUBSET Pids
  <2>1. Apps \subseteq Pids
    BY SchedosAssumption DEF Apps, Pids
  <2> QED BY <2>1
<1>2. /\ Highest(ready) \in ready
      /\ \A q \in ready : p_priority[Highest(ready)] <= p_priority[q]
  BY <1>1, HighestFinds
<1>3. equals # {} => RoundRobin(pid, equals) \in equals
  BY <1>1, RoundRobinFinds
<1>4. ASSUME NEW r \in ready, p_priority[r] <= p_priority[pid],
             ~(p_priority[Highest(ready)] < p_priority[pid])
      PROVE  equals # {}
  <2>1. p_priority[r] = p_priority[pid]
    BY <1>1, <1>2, <1>4 DEF TypeOK
  <2> QED BY <2>1
<1>5. CASE p_priority[Highest(ready)] < p_priority[pid]
  BY <1>2, <1>5 DEF PriorityPass
<1>6. CASE ~(p_priority[Highest(ready)] < p_priority[pid]) /\ equals # {}
  <2>1. PriorityPass(pid, ready) = RoundRobin(pid, equals)
    BY <1>6 DEF PriorityPass
  <2>2. \A q \in ready : p_priority[pid] <= p_priority[q]
    BY <1>1, <1>2, <1>6 DEF TypeOK
  <2>3. RoundRobin(pid, equals) \in ready
        /\ p_priority[RoundRobin(pid, equals)] = p_priority[pid]
    BY <1>3, <1>6
  <2> QED BY <2>1, <2>2, <2>3
<1>7. CASE ~(p_priority[Highest(ready)] < p_priority[pid]) /\ equals = {}
  BY <1>4, <1>7 DEF PriorityPass
<1> QED BY <1>5, <1>6, <1>7

\* The search of algorithm 2 ends with a runnable process: at the latest when
\* it has come round to one.
LEMMA SearchFinds ==
    ASSUME TypeOK, NEW pid \in Pids, NEW ready \in SUBSET Apps, ready # {}
    PROVE  /\ PrioritySearch(pid, ready) \in ready
           /\ (\E r \in ready : p_priority[r] <= p_priority[pid]) =>
                 PrioritySearch(pid, ready) = PriorityPass(pid, ready)
<1> DEFINE pass(k) == PriorityPass((pid + k) % NPROCS, ready)
           found == {k \in 0..NPROCS : pass(k) # 0}
           least(k) == pass(k) # 0 /\ \A j \in 0..(k - 1) : pass(j) = 0
           rounds == CHOOSE k \in 0..NPROCS : least(k)
<1>0. NPROCS \in Nat /\ NPROCS > 1
  BY SchedosAssumption
<1>1. \A k \in 0..NPROCS : (pid + k) % NPROCS \in Pids
  BY <1>0 DEF Pids
<1>2. \A k \in 0..NPROCS : pass(k) \in ready \cup {0}
  BY <1>1, PassFinds
<1>3. 0 \notin ready
  BY DEF Apps
<1>4. found # {}
  <2>1. PICK q \in ready : TRUE
    OBVIOUS
  <2>2. q \in Pids /\ q \in Nat
    BY DEF Apps, Pids
  <2>3. \E k \in 0..NPROCS : (pid + k) % NPROCS = q
    <3>1. CASE pid <= q
      <4>1. q - pid \in 0..NPROCS /\ (pid + (q - pid)) % NPROCS = q
        BY <1>0, <2>2, <3>1 DEF Pids
      <4> QED BY <4>1
    <3>2. CASE q < pid
      <4>1. q + NPROCS - pid \in 0..NPROCS
        BY <1>0, <2>2, <3>2 DEF Pids
      <4>2. (pid + (q + NPROCS - pid)) % NPROCS = q
        BY <1>0, <2>2, <3>2 DEF Pids
      <4> QED BY <4>1, <4>2
    <3> QED BY <2>2, <3>1, <3>2 DEF Pids
  <2>4. PICK k \in 0..NPROCS : (pid + k) % NPROCS = q
    BY <2>3
  <2>5. pass(k) \in ready
    <3>1. p_priority[q] <= p_priority[q]
      BY <2>2 DEF TypeOK
    <3>2. PriorityPass(q, ready) \in ready
      BY <2>2, <3>1, PassFinds
    <3> QED BY <2>4, <3>2
  <2> QED BY <1>3, <2>5
<1>5. PICK k \in found : \A j \in found : k <= j
  <2>1. found \in SUBSET Nat
    OBVIOUS
  <2> HIDE DEF found
  <2> QED BY <1>4, <2>1, LeastNat
<1>6. k \in 0..NPROCS /\ least(k)
  BY <1>0, <1>5
<1>7. rounds \in 0..NPROCS /\ least(rounds)
  <2> HIDE DEF least
  <2> QED BY <1>6
<1>8. PrioritySearch(pid, ready) = pass(rounds)
  BY DEF PrioritySearch
<1>9. PrioritySearch(pid, ready) \in ready
  BY <1>2, <1>7, <1>8
<1>10. ASSUME \E r \in ready : p_priority[r] <= p_priority[pid]
       PROVE  rounds = 0 /\ pass(0) = PriorityPass(pid, ready)
  <2>1. (pid + 0) % NPROCS = pid
    BY <1>0 DEF Pids
  <2>2. pass(0) = PriorityPass(pid, ready)
    BY <2>1
  <2>3. pass(0) # 0
    BY <1>3, <1>10, <2>2, PassFinds
  <2>4. \A n \in 0..NPROCS : least(n) => n = 0
    BY <1>0, <2>3
  <2> HIDE DEF least, rounds, pass
  <2> QED BY <1>7, <2>2, <2>4
<1> HIDE DEF rounds, pass
<1> QED BY <1>8, <1>9, <1>10

\* Whatever the algorithm, schedule() runs a runnable process if there is one.
LEMMA PickFinds ==
    ASSUME TypeOK, NEW ready \in SUBSET Apps
    PROVE  /\ Pick(ready) \in ready \cup {0}
           /\ ready # {} => Pick(ready) \in ready
<1>1. ready \in SUBSET Pids /\ current \in Pids /\ 0 \in Pids
  BY SchedosAssumption DEF TypeOK, Apps, Pids
<1>2. CASE ready = {}
  BY <1>2 DEF Pick
<1>3. CASE ready # {}
  <2>1. scheduling_algorithm \in {0, 1, 2}
    BY SchedosAssumption DEF TypeOK
  <2>2. CASE scheduling_algorithm = 0
    BY <1>1, <1>3, <2>2, RoundRobinFinds DEF Pick
  <2>3. CASE scheduling_algorithm = 1
    BY <1>1, <1>3, <2>3, RoundRobinFinds DEF Pick
  <2>4. CASE scheduling_algorithm = 2
    BY <1>1, <1>3, <2>4, SearchFinds DEF Pick
  <2> QED BY <2>1, <2>2, <2>3, <2>4
<1> QED BY <1>2, <1>3

-----------------------------------------------------------------------------
(* Counting characters.                                                    *)

\* There are never more printed characters than cells.
LEMMA CharsFit ==
    ASSUME NEW S \in SUBSET (Apps \X (1..RUNCOUNT))
    PROVE  IsFiniteSet(S) /\ Cardinality(S) \in Cells
<1> DEFINE n == NPROCS - 1
           All == Apps \X (1..RUNCOUNT)
<1>0. n \in Nat /\ RUNCOUNT \in Nat
  BY SchedosAssumption
<1>1. IsFiniteSet(Apps) /\ Cardinality(Apps) = n
  BY <1>0, FS_Interval DEF Apps
<1>2. IsFiniteSet(1..RUNCOUNT) /\ Cardinality(1..RUNCOUNT) = RUNCOUNT
  BY <1>0, FS_Interval
<1>3. IsFiniteSet(All) /\ Cardinality(All) = n * RUNCOUNT
  BY <1>1, <1>2, FS_Product
<1> HIDE DEF All
<1>4. IsFiniteSet(S) /\ Cardinality(S) <= n * RUNCOUNT
  <2>1. S \in SUBSET All
    BY DEF All
  <2>2. IsFiniteSet(S) /\ Cardinality(S) <= Cardinality(All)
    BY <1>3, <2>1, FS_Subset
  <2> QED BY <1>3, <2>2
<1>5. Cardinality(S) \in Nat
  BY <1>4, FS_CardinalityType
<1>6. n * RUNCOUNT \in Nat
  BY <1>0
<1> QED BY <1>4, <1>5, <1>6 DEF Cells

\* There is a first cell.
LEMMA FirstCell == 0 \in Cells
<1>1. (NPROCS - 1) * RUNCOUNT \in Nat
  BY SchedosAssumption
<1> QED BY <1>1 DEF Cells

\* A step that leaves every count of printed characters alone, and the
\* cursor, and takes no character away, loses none.
LEMMA OutputKept ==
    ASSUME NoLostOutput, cursorpos' = cursorpos, console \subseteq console',
           \A q \in Apps : Printed(q)' = Printed(q)
    PROVE  NoLostOutput'
<1>1. PrintedChars' = PrintedChars
  BY DEF PrintedChars
<1> QED BY <1>1 DEF NoLostOutput

\* The store of the cursor makes one more character of p a printed one.
LEMMA OutputMore ==
    ASSUME IInv, NEW p \in Apps, StoreCursor(p)
    PROVE  /\ PrintedChars' = PrintedChars \cup {<<p, i[p] + 1>>}
           /\ <<p, i[p] + 1>> \notin PrintedChars
           /\ <<p, i[p] + 1>> \in Apps \X (1..RUNCOUNT)
<1>1. /\ at[p] = "inc" /\ at' = [at EXCEPT ![p] = "unlock"] /\ i' = i
      /\ at \in [Apps -> {"swap", "load", "put", "inc", "unlock", "yield"}]
      /\ i \in [Apps -> 0..RUNCOUNT]
  BY DEF StoreCursor, Goto, IInv, TypeOK
<1>2. i[p] \in Nat /\ i[p] < RUNCOUNT /\ RUNCOUNT \in Nat
  BY <1>1, SchedosAssumption DEF IInv, CursorInv
<1>3. Printed(p) = i[p] /\ Printed(p)' = i[p] + 1
  BY <1>1, <1>2 DEF Printed
<1>4. \A q \in Apps \ {p} : Printed(q)' = Printed(q)
  BY <1>1 DEF Printed
<1>5. <<p, i[p] + 1>> \in Apps \X (1..RUNCOUNT)
  BY <1>2
<1>6. <<p, i[p] + 1>> \notin PrintedChars
  BY <1>2, <1>3 DEF PrintedChars
<1>7. ASSUME NEW q \in Apps, NEW k \in 1..RUNCOUNT
      PROVE  k <= Printed(q)' <=> k <= Printed(q) \/ <<q, k>> = <<p, i[p] + 1>>
  <2>1. CASE q = p
    BY <1>2, <1>3, <2>1
  <2>2. CASE q # p
    BY <1>4, <2>2
  <2> QED BY <2>1, <2>2
<1>8. \A c \in Apps \X (1..RUNCOUNT) :
         c \in PrintedChars' <=> c \in PrintedChars \/ c = <<p, i[p] + 1>>
  <2> SUFFICES ASSUME NEW c \in Apps \X (1..RUNCOUNT)
               PROVE  c \in PrintedChars' <=>
                         c \in PrintedChars \/ c = <<p, i[p] + 1>>
    OBVIOUS
  <2>1. c[1] \in Apps /\ c[2] \in 1..RUNCOUNT /\ c = <<c[1], c[2]>>
    OBVIOUS
  <2>2. c \in PrintedChars' <=> c[2] <= Printed(c[1])'
    BY DEF PrintedChars
  <2>3. c \in PrintedChars <=> c[2] <= Printed(c[1])
    BY DEF PrintedChars
  <2> QED BY <1>7, <2>1, <2>2, <2>3
<1>9. /\ PrintedChars \subseteq Apps \X (1..RUNCOUNT)
      /\ PrintedChars' \subseteq Apps \X (1..RUNCOUNT)
  BY DEF PrintedChars
<1> QED BY <1>5, <1>6, <1>8, <1>9

-----------------------------------------------------------------------------
(* The inductive invariant.                                                *)

\* Switching to what Pick() finds among the runnable processes is sound.
LEMMA ScheduleStep ==
    ASSUME TypeOK, NEW st \in [Pids -> {"EMPTY", "RUNNABLE", "ZOMBIE"}],
           st[0] = "EMPTY", schedule(st)
    PROVE  /\ current' = Pick(Runnable(st))
           /\ Runnable(st) \in SUBSET Apps
           /\ current' \in Pids
           /\ current' # 0 => st[current'] = "RUNNABLE"
<1>1. current' = Pick(Runnable(st))
  BY DEF schedule
<1>2. Runnable(st) \in SUBSET Apps
  BY SchedosAssumption DEF Runnable, Pids, Apps
<1>3. current' \in Runnable(st) \cup {0}
  BY <1>1, <1>2, PickFinds
<1> QED BY <1>1, <1>2, <1>3, SchedosAssumption DEF Runnable, Pids

\* A step of the kernel leaves the applications where they are.
LEMMA KernelKeeps ==
    ASSUME IInv, UNCHANGED app, TypeOK', CurrentInv'
    PROVE  IInv'
<1>1. LockInv' /\ CursorInv'
  BY DEF IInv, LockInv, CursorInv, Critical
<1>2. NoLostOutput'
  BY OutputKept DEF IInv, Printed
<1> QED BY <1>1, <1>2 DEF IInv

\* An instruction of p between the swap and the store to the lock, which
\* finds nobody else there.
LEMMA InstructionKeeps ==
    ASSUME IInv, NEW p \in Apps, UNCHANGED kernel,
           Swap(p) \/ LoadCursor(p) \/ PutChar(p) \/ StoreCursor(p) \/ Unlock(p)
    PROVE  IInv'
<1> USE DEF IInv
<1>0. /\ RUNCOUNT \in Nat /\ CurrentInv'
      /\ cursorpos \in Nat /\ \A q \in Apps : tmp[q] \in Nat
  BY SchedosAssumption DEF CurrentInv, TypeOK, Cells
<1>1. CASE Swap(p)
  <2>1. /\ at[p] = "swap" /\ i[p] < RUNCOUNT /\ lock' = 1
        /\ at' = [at EXCEPT ![p] = IF lock = 0 THEN "load" ELSE "swap"]
        /\ UNCHANGED <<cursorpos, console, i, tmp>>
    BY <1>1 DEF Swap, Goto
  <2>2. TypeOK'
    BY <2>1 DEF TypeOK
  <2>3. LockInv'
    BY <2>1 DEF LockInv, Critical, TypeOK
  <2>4. CursorInv'
    BY <2>1 DEF CursorInv, TypeOK
  <2>5. \A q \in Apps : Printed(q)' = Printed(q)
    BY <2>1 DEF Printed, TypeOK
  <2> QED BY <1>0, <2>1, <2>2, <2>3, <2>4, <2>5, OutputKept
<1>2. CASE LoadCursor(p)
  <2>1. /\ at[p] = "load" /\ at' = [at EXCEPT ![p] = "put"]
        /\ tmp' = [tmp EXCEPT ![p] = cursorpos]
        /\ UNCHANGED <<lock, cursorpos, console, i>>
    BY <1>2 DEF LoadCursor, Goto
  <2>2. TypeOK'
    BY <2>1 DEF TypeOK
  <2>3. LockInv' /\ CursorInv'
    BY <2>1 DEF LockInv, Critical, CursorInv, TypeOK
  <2>4. \A q \in Apps : Printed(q)' = Printed(q)
    BY <2>1 DEF Printed, TypeOK
  <2> QED BY <1>0, <2>1, <2>2, <2>3, <2>4, OutputKept
<1>3. CASE PutChar(p)
  <2>1. /\ at[p] = "put" /\ at' = [at EXCEPT ![p] = "inc"]
        /\ console' = console \cup {tmp[p]} /\ tmp[p] = cursorpos
        /\ UNCHANGED <<lock, cursorpos, i, tmp>>
    BY <1>3 DEF PutChar, Goto, CursorInv
  <2>2. TypeOK'
    BY <2>1 DEF TypeOK
  <2>3. LockInv' /\ CursorInv'
    BY <2>1 DEF LockInv, Critical, CursorInv, TypeOK
  <2>4. \A q \in Apps : Printed(q)' = Printed(q)
    BY <2>1 DEF Printed, TypeOK
  <2> QED BY <1>0, <2>1, <2>2, <2>3, <2>4, OutputKept
<1>4. CASE StoreCursor(p)
  <2>1. /\ at[p] = "inc" /\ at' = [at EXCEPT ![p] = "unlock"]
        /\ cursorpos' = cursorpos + 1 /\ cursorpos \in console
        /\ tmp' = [tmp EXCEPT ![p] = 0]
        /\ UNCHANGED <<lock, console, i>>
    BY <1>4 DEF StoreCursor, Goto, CursorInv
  <2>2. LockInv'
    BY <2>1 DEF LockInv, Critical, TypeOK
  <2>3. CursorInv'
    BY <2>1 DEF LockInv, Critical, CursorInv, TypeOK
  <2>4. /\ PrintedChars' \in SUBSET (Apps \X (1..RUNCOUNT))
        /\ PrintedChars \in SUBSET (Apps \X (1..RUNCOUNT))
    BY DEF PrintedChars
  <2>5. cursorpos' = Cardinality(PrintedChars')
    <3>1. IsFiniteSet(PrintedChars)
      BY <2>4, CharsFit
    <3>2. Cardinality(PrintedChars') = Cardinality(PrintedChars) + 1
      BY <1>4, <3>1, OutputMore, FS_AddElement
    <3> QED BY <2>1, <3>2 DEF NoLostOutput
  <2>6. cursorpos' \in Cells
    BY <2>4, <2>5, CharsFit
  <2>7. 0..(cursorpos' - 1) \subseteq console'
    <3>1. 0..(cursorpos' - 1) \subseteq 0..(cursorpos - 1) \cup {cursorpos}
      BY <1>0, <2>1
    <3> QED BY <2>1, <3>1 DEF NoLostOutput
  <2>8. TypeOK'
    BY <2>1, <2>6, FirstCell DEF TypeOK
  <2> QED BY <1>0, <2>2, <2>3, <2>5, <2>7, <2>8 DEF NoLostOutput
<1>5. CASE Unlock(p)
  <2>1. /\ at[p] = "unlock" /\ at' = [at EXCEPT ![p] = "yield"] /\ lock' = 0
        /\ UNCHANGED <<cursorpos, console, i, tmp>>
    BY <1>5 DEF Unlock, Goto
  <2>2. TypeOK'
    BY <2>1 DEF TypeOK
  <2>3. LockInv' /\ CursorInv'
    BY <2>1 DEF LockInv, Critical, CursorInv, TypeOK
  <2>4. \A q \in Apps : Printed(q)' = Printed(q)
    BY <2>1 DEF Printed, TypeOK
  <2> QED BY <1>0, <2>1, <2>2, <2>3, <2>4, OutputKept
<1> QED BY <1>1, <1>2, <1>3, <1>4, <1>5

LEMMA InvStep == IInv /\ [Next]_vars => IInv'
<1> SUFFICES ASSUME IInv, [Next]_vars PROVE IInv'
  OBVIOUS
<1>0. /\ TypeOK /\ CurrentInv
      /\ p_state \in [Pids -> {"EMPTY", "RUNNABLE", "ZOMBIE"}]
      /\ p_state[0] = "EMPTY"
  BY DEF IInv, CurrentInv, TypeOK
<1>1. CASE Clock
  <2>1. schedule(p_state) /\ UNCHANGED <<scheduling_algorithm, p_state, p_priority, app>>
    BY <1>1 DEF Clock
  <2>2. current' \in Pids /\ (current' # 0 => p_state[current'] = "RUNNABLE")
    BY <1>0, <2>1, ScheduleStep
  <2>3. TypeOK' /\ CurrentInv'
    BY <1>0, <2>1, <2>2 DEF TypeOK, CurrentInv
  <2> QED BY <2>1, <2>3, KernelKeeps
<1>2. ASSUME NEW p \in Apps, SysExit(p) PROVE IInv'
  <2>1. /\ p_state' = [p_state EXCEPT ![p] = "ZOMBIE"]
        /\ schedule(p_state')
        /\ UNCHANGED <<scheduling_algorithm, p_priority, app>>
    BY <1>2 DEF SysExit
  <2>2. /\ p_state' \in [Pids -> {"EMPTY", "RUNNABLE", "ZOMBIE"}]
        /\ p_state'[0] = "EMPTY"
    BY <1>0, <2>1, SchedosAssumption DEF Apps, Pids
  <2>3. current' \in Pids /\ (current' # 0 => p_state'[current'] = "RUNNABLE")
    BY <1>0, <2>1, <2>2, ScheduleStep
  <2>4. TypeOK' /\ CurrentInv'
    BY <1>0, <2>1, <2>2, <2>3 DEF TypeOK, CurrentInv
  <2> QED BY <2>1, <2>4, KernelKeeps
<1>3. ASSUME NEW p \in Apps, NEW v \in Settable, SysUser1(p, v) PROVE IInv'
  <2>1. /\ p_priority' = [p_priority EXCEPT ![p] = v]
        /\ UNCHANGED <<scheduling_algorithm, p_state, current, app>>
    BY <1>3 DEF SysUser1
  <2>2. TypeOK' /\ CurrentInv'
    BY <1>0, <2>1, SchedosAssumption DEF TypeOK, CurrentInv
  <2> QED BY <2>1, <2>2, KernelKeeps
<1>4. ASSUME NEW p \in Apps, Yield(p) PROVE IInv'
  <2>1. /\ at[p] = "yield" /\ at' = [at EXCEPT ![p] = "swap"]
        /\ i' = [i EXCEPT ![p] = @ + 1]
        /\ schedule(p_state)
        /\ UNCHANGED <<scheduling_algorithm, p_state, p_priority, lock,
                       cursorpos, console, tmp>>
    BY <1>4 DEF Yield, Goto
  <2>2. current' \in Pids /\ (current' # 0 => p_state[current'] = "RUNNABLE")
    BY <1>0, <2>1, ScheduleStep
  <2>3. i[p] < RUNCOUNT /\ i[p] \in Nat /\ RUNCOUNT \in Nat
    BY <1>0, <2>1, SchedosAssumption DEF IInv, CursorInv, TypeOK
  <2>4. TypeOK' /\ CurrentInv'
    BY <1>0, <2>1, <2>2, <2>3 DEF TypeOK, CurrentInv
  <2>5. LockInv' /\ CursorInv'
    BY <1>0, <2>1 DEF IInv, LockInv, Critical, CursorInv, TypeOK
  <2>6. \A q \in Apps : Printed(q)' = Printed(q)
    BY <1>0, <2>1, <2>3 DEF Printed, TypeOK
  <2> QED BY <2>1, <2>4, <2>5, <2>6, OutputKept DEF IInv
<1>5. ASSUME NEW p \in Apps, Instruction(p) PROVE IInv'
  BY <1>4, <1>5, InstructionKeeps DEF Instruction
<1>6. CASE UNCHANGED vars
  BY <1>0, <1>6, KernelKeeps DEF TypeOK, CurrentInv
<1> QED BY <1>1, <1>2, <1>3, <1>5, <1>6 DEF Next, Run

\* start() leaves the applications ready to take their first swap.
LEMMA InvInit == Init => IInv
<1> SUFFICES ASSUME Init PROVE IInv
  OBVIOUS
<1>1. TypeOK
  <2>1. PICK start \in StartPriority :
           p_priority = [p \in Pids |-> IF p = 0 THEN 0 ELSE start[p]]
    BY DEF Init
  <2>2. start \in [Apps -> Nat]
    BY SchedosAssumption
  <2>3. p_priority \in [Pids -> Nat]
    BY <2>1, <2>2, SchedosAssumption DEF Apps, Pids
  <2>4. p_state \in [Pids -> {"EMPTY", "RUNNABLE", "ZOMBIE"}] /\ current \in Pids
    BY SchedosAssumption DEF Init, Pids
  <2>5. lock \in {0, 1} /\ i \in [Apps -> 0..RUNCOUNT]
    BY SchedosAssumption DEF Init
  <2> QED BY <2>3, <2>4, <2>5, FirstCell DEF Init, TypeOK
<1>2. LockInv /\ CursorInv /\ CurrentInv
  BY SchedosAssumption DEF Init, LockInv, CursorInv, CurrentInv, Critical,
        Pids, Apps
<1>3. NoLostOutput
  <2>1. \A q \in Apps : Printed(q) = 0
    BY DEF Init, Printed
  <2>2. PrintedChars = {}
    <3>1. \A c \in Apps \X (1..RUNCOUNT) : ~(c[2] <= Printed(c[1]))
      BY <2>1
    <3> QED BY <3>1 DEF PrintedChars
  <2>3. cursorpos = 0 /\ 0..(cursorpos - 1) = {}
    BY DEF Init
  <2> QED BY <2>2, <2>3, FS_EmptySet DEF NoLostOutput
<1> QED BY <1>1, <1>2, <1>3 DEF IInv

\* Under each of the algorithms 0, 1 and 2, the cursor stays inside the cells
\* that the characters of all applications need and every other variable keeps
\* its type.
THEOREM TypeCorrect == Spec => []TypeOK
<1>1. IInv => TypeOK
  BY DEF IInv
<1> QED BY <1>1, InvInit, InvStep, PTL DEF Spec

\* Wherever the clock interrupts the applications, and whatever memory held at
\* the lock when they started, no character and no update of the cursor is
\* lost.
THEOREM OutputComplete == Spec => []NoLostOutput
<1>1. IInv => NoLostOutput
  BY DEF IInv
<1> QED BY <1>1, InvInit, InvStep, PTL DEF Spec

\* Under algorithm 2 whoever gets the CPU, after a preemption, a yield or an
\* exit, has the highest priority among the runnable processes; only the exit
\* of a process that outranks all of them lets another one run.
THEOREM PriorityRespected == Spec => PicksHighest
<1> DEFINE A == scheduling_algorithm = 2 /\ current' # current
                  => BestOfAll \/ OutrankedAllAndExits
<1>1. IInv /\ [Next]_vars => [A]_vars
  <2> SUFFICES ASSUME IInv, Next, scheduling_algorithm = 2, current' # current
               PROVE  BestOfAll \/ OutrankedAllAndExits
    OBVIOUS
  <2>0. TypeOK /\ CurrentInv /\ TypeOK' /\ CurrentInv'
    BY InvStep DEF IInv
  <2>1. schedule(p_state') /\ current # 0 /\ p_priority' = p_priority
        /\ (p_state' = p_state \/ p_state'[current] = "ZOMBIE")
    <3>1. CASE Clock
      BY <3>1 DEF Clock, schedule, Runnable
    <3>2. ASSUME NEW p \in Apps, Instruction(p)
          PROVE  schedule(p_state') /\ current # 0 /\ p_priority' = p_priority
                 /\ p_state' = p_state
      BY <3>2 DEF Instruction, Yield, Apps, schedule, Runnable
    <3>3. ASSUME NEW p \in Apps, SysExit(p)
          PROVE  schedule(p_state') /\ current # 0 /\ p_priority' = p_priority
                 /\ p_state'[current] = "ZOMBIE"
      BY <2>0, <3>3 DEF SysExit, Apps, TypeOK
    <3>4. ASSUME NEW p \in Apps, NEW v \in Settable, SysUser1(p, v)
          PROVE  FALSE
      BY <3>4 DEF SysUser1
    <3> QED BY <3>1, <3>2, <3>3, <3>4 DEF Next, Run
  <2> DEFINE ready == Runnable(p_state')
  <2>2. /\ current' = Pick(ready) /\ ready \in SUBSET Apps
        /\ p_state' \in [Pids -> {"EMPTY", "RUNNABLE", "ZOMBIE"}]
    BY <2>0, <2>1, ScheduleStep DEF TypeOK, CurrentInv
  <2>3. CASE ready = {}
    BY <2>3 DEF BestOfAll
  <2>4. CASE ready # {} /\ \E r \in ready : p_priority[r] <= p_priority[current]
    <3>1. current' = PriorityPass(current, ready)
      BY <2>0, <2>2, <2>4, SearchFinds DEF Pick, TypeOK
    <3>2. \A q \in ready : p_priority[current'] <= p_priority[q]
      BY <2>0, <2>2, <2>4, <3>1, PassFinds DEF TypeOK
    <3> QED BY <3>2 DEF BestOfAll
  <2>5. CASE \A r \in ready : ~(p_priority[r] <= p_priority[current])
    <3>1. ready \in SUBSET Pids /\ current \in Pids
      <4>1. ready \subseteq Pids
        BY DEF Runnable
      <4>2. current \in Pids
        BY <2>0 DEF TypeOK
      <4> QED BY <4>1, <4>2
    <3>2. \A r \in ready : p_priority[current] < p_priority[r]
      BY <2>0, <2>5, <3>1 DEF TypeOK
    <3>3. CASE p_state'[current] = "ZOMBIE"
      BY <3>2, <3>3 DEF OutrankedAllAndExits
    <3>4. CASE p_state' = p_state
      <4>1. current \in ready
        BY <2>0, <2>1, <3>1, <3>4 DEF CurrentInv, Runnable
      <4> QED BY <2>0, <2>5, <3>1, <4>1 DEF TypeOK
    <3> QED BY <2>1, <3>3, <3>4
  <2> QED BY <2>3, <2>4, <2>5
<1> QED BY <1>1, InvInit, InvStep, PTL DEF Spec, PicksHighest
=============================================================================
