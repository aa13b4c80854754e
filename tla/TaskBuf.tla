------------------------------- MODULE TaskBuf -------------------------------
(***************************************************************************)
(* The bounded buffer of a task of the OSP peer (lab4/osppeer.c).  head    *)
(* and tail are unsigned ints that only grow; the place in buf is their    *)
(* remainder.  A full buffer and an empty one differ in head # tail.       *)
(*                                                                         *)
(* A source of bytes is [data, end]: what is still to come, and whether it *)
(* then ends ("eof"), fails ("error") or stays silent ("stall").           *)
(***************************************************************************)
EXTENDS Integers, Sequences, FiniteSets

CONSTANTS TASKBUFSIZ,   \* size of task_t::buf
          UintMod       \* 2^32, the range of head and tail

ASSUME BufferAssumption == TASKBUFSIZ \in Nat \ {0} /\ UintMod \in Nat \ {0}

NoByte == 0
Byte == 0..255

task_new == [buf |-> [i \in 0..TASKBUFSIZ-1 |-> NoByte], head |-> 0, tail |-> 0, total |-> 0]

Pos(n) == n % TASKBUFSIZ

\* Mutant: a full buffer is taken for an empty one.
ReadRoom_full(t) ==
    IF Pos(t.head) <= Pos(t.tail) THEN TASKBUFSIZ - Pos(t.tail) ELSE Pos(t.head) - Pos(t.tail)

\* How many bytes read() is asked for: up to the end of buf, or up to head.
ReadRoom(t) ==
    IF t.head = t.tail \/ Pos(t.head) < Pos(t.tail)
    THEN TASKBUFSIZ - Pos(t.tail) ELSE Pos(t.head) - Pos(t.tail)

Store(t, bytes) ==
    [t EXCEPT !.tail = (@ + Len(bytes)) % UintMod,
              !.buf = [i \in DOMAIN @ |-> IF i - Pos(t.tail) \in 0..Len(bytes)-1
                                          THEN bytes[i - Pos(t.tail) + 1] ELSE @[i]]]

\* The outcomes of read_to_taskbuf(fd, t); a read may return less than it asks for.
\* There are none while it waits.
read_to_taskbuf(t, src) ==
    IF ReadRoom(t) > 0 /\ src.data # <<>>
    THEN {[ret |-> "OK", t |-> Store(t, SubSeq(src.data, 1, n)),
           src |-> [src EXCEPT !.data = SubSeq(@, n + 1, Len(@))]] :
              n \in {k \in 1..Len(src.data) : k <= ReadRoom(t)}}
    ELSE IF ReadRoom(t) > 0 /\ src.end = "stall" THEN {}
    ELSE {[ret |-> IF ReadRoom(t) > 0 /\ src.end = "error" THEN "ERROR" ELSE "END",
           t |-> t, src |-> src]}

\* How many bytes write() is given: up to tail, or up to the end of buf.
WriteRun(t) ==
    IF t.head = t.tail THEN 0
    ELSE IF Pos(t.head) < Pos(t.tail) THEN Pos(t.tail) - Pos(t.head) ELSE TASKBUFSIZ - Pos(t.head)

\* The outcomes of write_from_taskbuf(fd, t): what was written, and the task.
write_from_taskbuf(t) ==
    IF WriteRun(t) = 0 THEN {[bytes |-> <<>>, t |-> t]}
    ELSE {[bytes |-> [i \in 1..n |-> t.buf[Pos(t.head) + i - 1]],
           t |-> [t EXCEPT !.head = (@ + n) % UintMod, !.total = @ + n]] : n \in 1..WriteRun(t)}

\* The bytes in the buffer, oldest first.
Held(t) == [i \in 1..((t.tail - t.head) % UintMod) |-> t.buf[Pos(t.head + i - 1)]]

-----------------------------------------------------------------------------
Source == [data : Seq(Byte), end : {"eof", "error", "stall"}]
Buffer == [buf : [0..TASKBUFSIZ-1 -> Byte], head : Nat, tail : Nat, total : Nat]

\* A buffer in use, before its counters have wrapped around.
RingInv(t) ==
    /\ t \in Buffer
    /\ t.head <= t.tail /\ t.tail <= t.head + TASKBUFSIZ
    /\ t.tail < UintMod

=============================================================================
