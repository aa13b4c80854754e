--------------------------- MODULE TaskBufProofs ---------------------------
(* The ring buffer of module TaskBuf is a queue of bytes, whatever its size *)
(* is, as long as its counters have not wrapped around.                     *)
EXTENDS TaskBuf, SequenceTheorems, TLAPS

-----------------------------------------------------------------------------
(* Arithmetic: quotient and remainder.                                      *)

LEMMA NextMultiple ==
    ASSUME NEW b \in Nat \ {0}, NEW x \in Int, NEW y \in Int, x < y
    PROVE  b * y >= b * x + b
<1>1. \A d \in Nat \ {0} : b * d >= b
  OBVIOUS
<1>2. b * (y - x) >= b
  BY <1>1
<1>3. b * y = b * x + b * (y - x)
  OBVIOUS
<1> QED BY <1>2, <1>3

LEMMA Division ==
    ASSUME NEW a \in Int, NEW b \in Nat \ {0}
    PROVE  /\ a = b * (a \div b) + (a % b)
           /\ a \div b \in Int /\ a % b \in 0..(b - 1)
  OBVIOUS

LEMMA RemainderUnique ==
    ASSUME NEW b \in Nat \ {0}, NEW x \in Int, NEW y \in Int,
           NEW r \in 0..(b - 1), NEW s \in 0..(b - 1), b * x + r = b * y + s
    PROVE  r = s
<1>0. b * x \in Int /\ b * y \in Int
  OBVIOUS
<1>1. ~(x < y)
  <2> SUFFICES ASSUME x < y PROVE FALSE
    OBVIOUS
  <2>1. b * y >= b * x + b
    BY NextMultiple
  <2> QED BY <1>0, <2>1
<1>2. ~(y < x)
  <2> SUFFICES ASSUME y < x PROVE FALSE
    OBVIOUS
  <2>1. b * x >= b * y + b
    BY NextMultiple
  <2> QED BY <1>0, <2>1
<1> QED BY <1>0, <1>1, <1>2

LEMMA RemainderIs ==
    ASSUME NEW b \in Nat \ {0}, NEW a \in Int, NEW q \in Int,
           NEW r \in 0..(b - 1), a = b * q + r
    PROVE  a % b = r
<1>1. a = b * (a \div b) + (a % b) /\ a \div b \in Int /\ a % b \in 0..(b - 1)
  BY Division
<1> QED BY <1>1, RemainderUnique

\* The place k bytes behind the place of a: without and with a wrap.
LEMMA PosAdd ==
    ASSUME NEW a \in Nat, NEW k \in Int, Pos(a) + k \in 0..(TASKBUFSIZ - 1)
    PROVE  Pos(a + k) = Pos(a) + k
<1> DEFINE b == TASKBUFSIZ
<1>0. b \in Nat \ {0} /\ a + k \in Int
  BY BufferAssumption
<1> HIDE DEF b
<1>1. a = b * (a \div b) + (a % b) /\ a \div b \in Int /\ a % b \in Int
  BY <1>0, Division
<1>2. PICK q \in Int, r \in Int : a = b * q + r /\ r = a % b
  BY <1>1
<1>3. r + k \in 0..(b - 1)
  BY <1>2 DEF Pos, b
<1>4. b * q \in Int
  BY <1>0
<1>5. a + k = b * q + (r + k)
  BY <1>2, <1>4
<1>6. \A m \in Int : m = b * q + (r + k) => m % b = r + k
  BY <1>0, <1>3, RemainderIs
<1> QED BY <1>0, <1>2, <1>5, <1>6 DEF Pos, b

LEMMA PosWrap ==
    ASSUME NEW a \in Nat, NEW k \in Int,
           Pos(a) + k - TASKBUFSIZ \in 0..(TASKBUFSIZ - 1)
    PROVE  Pos(a + k) = Pos(a) + k - TASKBUFSIZ
<1> DEFINE b == TASKBUFSIZ
<1>0. b \in Nat \ {0} /\ a + k \in Int
  BY BufferAssumption
<1> HIDE DEF b
<1>1. a = b * (a \div b) + (a % b) /\ a \div b \in Int /\ a % b \in Int
  BY <1>0, Division
<1>2. PICK q \in Int, r \in Int : a = b * q + r /\ r = a % b
  BY <1>1
<1>3. PICK q1 \in Int, r1 \in 0..(b - 1) : q1 = q + 1 /\ r1 = r + k - b
  BY <1>2 DEF Pos, b
<1>4. b * q \in Int /\ b * q1 = b * q + b
  BY <1>0, <1>3
<1>5. a + k = b * q1 + r1
  BY <1>0, <1>2, <1>3, <1>4
<1>6. (a + k) % b = r1
  BY <1>0, <1>5, RemainderIs
<1> QED BY <1>2, <1>3, <1>6 DEF Pos, b

LEMMA PosIn == ASSUME NEW a \in Nat PROVE Pos(a) \in 0..(TASKBUFSIZ - 1)
  BY Division, BufferAssumption DEF Pos

-----------------------------------------------------------------------------
(* Where head and tail are.                                                 *)

\* The place of tail is as far behind that of head as there are bytes held,
\* unless it has gone round the end of buf.
LEMMA Places ==
    ASSUME NEW t, RingInv(t)
    PROVE  /\ t.head \in Nat /\ t.tail \in Nat /\ TASKBUFSIZ \in Nat \ {0}
           /\ t.tail - t.head \in 0..TASKBUFSIZ
           /\ Pos(t.head) \in 0..(TASKBUFSIZ - 1)
           /\ Pos(t.tail) \in 0..(TASKBUFSIZ - 1)
           /\ Pos(t.tail) = IF Pos(t.head) + (t.tail - t.head) < TASKBUFSIZ
                            THEN Pos(t.head) + (t.tail - t.head)
                            ELSE Pos(t.head) + (t.tail - t.head) - TASKBUFSIZ
<1>1. /\ t.head \in Nat /\ t.tail \in Nat /\ TASKBUFSIZ \in Nat \ {0}
      /\ t.tail - t.head \in 0..TASKBUFSIZ
  BY BufferAssumption DEF RingInv, Buffer
<1>2. PICK h \in Nat, d \in 0..TASKBUFSIZ : h = t.head /\ d = t.tail - t.head
  BY <1>1
<1>3. t.tail = h + d
  BY <1>1, <1>2
<1>4. Pos(h) \in 0..(TASKBUFSIZ - 1) /\ Pos(t.tail) \in 0..(TASKBUFSIZ - 1)
  BY <1>1, <1>2, PosIn
<1>5. CASE Pos(h) + d < TASKBUFSIZ
  <2>1. Pos(h) + d \in 0..(TASKBUFSIZ - 1)
    BY <1>1, <1>4, <1>5
  <2>2. Pos(h + d) = Pos(h) + d
    BY <1>1, <2>1, PosAdd
  <2> QED BY <1>1, <1>2, <1>3, <1>4, <1>5, <2>2
<1>6. CASE ~(Pos(h) + d < TASKBUFSIZ)
  <2>1. Pos(h) + d - TASKBUFSIZ \in 0..(TASKBUFSIZ - 1)
    BY <1>1, <1>4, <1>6
  <2>2. Pos(h + d) = Pos(h) + d - TASKBUFSIZ
    BY <1>1, <2>1, PosWrap
  <2> QED BY <1>1, <1>2, <1>3, <1>4, <1>6, <2>2
<1> QED BY <1>5, <1>6

\* read() is asked for no more than is free, and not beyond the end of buf.
LEMMA RoomFits ==
    ASSUME NEW t, RingInv(t)
    PROVE  /\ ReadRoom(t) \in Nat
           /\ Pos(t.tail) + ReadRoom(t) <= TASKBUFSIZ
           /\ t.tail - t.head + ReadRoom(t) <= TASKBUFSIZ
           /\ Pos(t.head) + (t.tail - t.head) >= TASKBUFSIZ =>
                 Pos(t.tail) + ReadRoom(t) <= Pos(t.head)
           /\ t.head = t.tail => ReadRoom(t) > 0
<1>0. TASKBUFSIZ \in Nat \ {0} /\ t.head \in Int /\ t.tail \in Int
  BY Places
<1>1. PICK d \in Int, h \in Int, l \in Int :
         d = t.tail - t.head /\ h = Pos(t.head) /\ l = Pos(t.tail)
  BY Places
<1>2. /\ 0 <= d /\ d <= TASKBUFSIZ /\ 0 <= h /\ h < TASKBUFSIZ /\ 0 <= l /\ l < TASKBUFSIZ
      /\ h + d < TASKBUFSIZ => l = h + d
      /\ h + d >= TASKBUFSIZ => l = h + d - TASKBUFSIZ
      /\ t.head = t.tail <=> d = 0
  BY <1>0, <1>1, Places
<1>3. ReadRoom(t) = IF d = 0 \/ h < l THEN TASKBUFSIZ - l ELSE h - l
  BY <1>1, <1>2 DEF ReadRoom
<1>4. /\ ReadRoom(t) \in Nat /\ l + ReadRoom(t) <= TASKBUFSIZ
      /\ d + ReadRoom(t) <= TASKBUFSIZ
      /\ h + d >= TASKBUFSIZ => l + ReadRoom(t) <= h
      /\ d = 0 => ReadRoom(t) > 0
  BY <1>0, <1>2, <1>3
<1> QED BY <1>1, <1>2, <1>4

\* write() is given no more than is held, and nothing only if nothing is.
LEMMA RunFits ==
    ASSUME NEW t, RingInv(t)
    PROVE  /\ WriteRun(t) \in Nat
           /\ WriteRun(t) <= t.tail - t.head
           /\ Pos(t.head) + WriteRun(t) <= TASKBUFSIZ
           /\ WriteRun(t) = 0 <=> t.head = t.tail
  BY Places DEF WriteRun

\* The bytes held, without the wrap of the counters.
LEMMA HeldIs ==
    ASSUME NEW t, RingInv(t)
    PROVE  /\ Held(t) = [i \in 1..(t.tail - t.head) |-> t.buf[Pos(t.head + i - 1)]]
           /\ Held(t) \in Seq(Byte)
           /\ Len(Held(t)) = t.tail - t.head
<1>1. /\ t.head \in Nat /\ t.tail \in Nat /\ UintMod \in Nat \ {0}
      /\ t.tail - t.head \in 0..(UintMod - 1)
      /\ t.buf \in [0..TASKBUFSIZ-1 -> Byte]
  BY BufferAssumption DEF RingInv, Buffer
<1>2. PICK d \in Nat : d = t.tail - t.head
  BY <1>1
<1>3. (t.tail - t.head) % UintMod = d
  <2>1. d = UintMod * 0 + d /\ d \in 0..(UintMod - 1) /\ d \in Int
    BY <1>1, <1>2
  <2>2. d % UintMod = d
    BY <1>1, <2>1, RemainderIs
  <2> QED BY <1>2, <2>2
<1>4. Held(t) = [i \in 1..d |-> t.buf[Pos(t.head + i - 1)]]
  BY <1>3 DEF Held
<1>5. \A i \in 1..d : Pos(t.head + i - 1) \in 0..(TASKBUFSIZ - 1)
  <2> TAKE i \in 1..d
  <2>1. t.head + i - 1 \in Nat
    BY <1>1
  <2> QED BY <2>1, PosIn
<1>6. \A i \in 1..d : t.buf[Pos(t.head + i - 1)] \in Byte
  BY <1>1, <1>5
<1> QED BY <1>2, <1>4, <1>6

-----------------------------------------------------------------------------
(* What a read adds and a write takes away.                                 *)

\* Where the d bytes held and n more behind them lie: the new ones in a row
\* at the place of tail, and none of the old ones there.
InARow(hd, d, n) ==
    \A i \in 1..(d + n) :
        /\ Pos(hd + i - 1) \in 0..TASKBUFSIZ-1
        /\ i <= d => ~(Pos(hd + i - 1) - Pos(hd + d) \in 0..n-1)
        /\ i > d => Pos(hd + i - 1) - Pos(hd + d) = i - d - 1

\* It is so when there is room for them up to the end of buf.
LEMMA RingPlaces ==
    ASSUME NEW hd \in Nat, NEW d \in Nat, NEW n \in Nat,
           d + n <= TASKBUFSIZ, Pos(hd + d) + n <= TASKBUFSIZ
    PROVE  InARow(hd, d, n)
<1> SUFFICES ASSUME NEW i \in 1..(d + n)
             PROVE  /\ Pos(hd + i - 1) \in 0..TASKBUFSIZ-1
                    /\ i <= d => ~(Pos(hd + i - 1) - Pos(hd + d) \in 0..n-1)
                    /\ i > d => Pos(hd + i - 1) - Pos(hd + d) = i - d - 1
  BY DEF InARow
<1>0. TASKBUFSIZ \in Nat \ {0} /\ hd + d \in Nat /\ hd + i - 1 \in Nat
      /\ hd + i - 1 = hd + (i - 1)
  BY BufferAssumption
<1>1. PICK h \in Int, l \in Int, x \in Int :
         h = Pos(hd) /\ l = Pos(hd + d) /\ x = Pos(hd + i - 1)
  BY <1>0, PosIn
<1>2. /\ 0 <= h /\ h < TASKBUFSIZ /\ 0 <= l /\ l < TASKBUFSIZ
      /\ 0 <= x /\ x < TASKBUFSIZ /\ l + n <= TASKBUFSIZ
  BY <1>0, <1>1, PosIn
<1>3. ASSUME NEW k \in Nat, k <= TASKBUFSIZ
      PROVE  Pos(hd + k) = IF h + k < TASKBUFSIZ THEN h + k ELSE h + k - TASKBUFSIZ
  <2>1. CASE h + k < TASKBUFSIZ
    BY <1>0, <1>1, <1>2, <1>3, <2>1, PosAdd
  <2>2. CASE ~(h + k < TASKBUFSIZ)
    BY <1>0, <1>1, <1>2, <1>3, <2>2, PosWrap
  <2> QED BY <2>1, <2>2
<1>4. l = IF h + d < TASKBUFSIZ THEN h + d ELSE h + d - TASKBUFSIZ
  BY <1>0, <1>1, <1>3
<1>5. i - 1 \in Nat /\ i - 1 <= TASKBUFSIZ
  BY <1>0
<1>6. x = IF h + (i - 1) < TASKBUFSIZ THEN h + (i - 1) ELSE h + (i - 1) - TASKBUFSIZ
  BY <1>0, <1>1, <1>3, <1>5
<1>7. i <= d => ~(x - l \in 0..n-1)
  BY <1>0, <1>2, <1>4, <1>6
<1>8. i > d => x - l = i - d - 1
  BY <1>0, <1>2, <1>4, <1>6
<1> QED BY <1>0, <1>1, <1>2, <1>7, <1>8

\* A number below the range of the counters.
LEMMA NoWrap == ASSUME NEW m \in Nat, m < UintMod PROVE m % UintMod = m
<1>1. m = UintMod * 0 + m /\ m \in 0..(UintMod - 1) /\ UintMod \in Nat \ {0}
  BY BufferAssumption
<1> QED BY <1>1, RemainderIs

\* The bytes fit into what is free in one piece.
Fits(t, bytes) == Len(bytes) <= ReadRoom(t) /\ t.tail + Len(bytes) < UintMod

\* Bytes that fit are added behind those held.
LEMMA StoreAppends ==
    ASSUME NEW t, RingInv(t), NEW bytes \in Seq(Byte), Fits(t, bytes)
    PROVE  /\ RingInv(Store(t, bytes))
           /\ Held(Store(t, bytes)) = Held(t) \o bytes
           /\ Store(t, bytes).head = t.head /\ Store(t, bytes).total = t.total
           /\ Store(t, bytes).tail = t.tail + Len(bytes)
<1>0. PICK hd \in Nat, d \in Nat, n \in Nat :
         hd = t.head /\ d = t.tail - t.head /\ n = Len(bytes)
  BY Places
<1>1. /\ t \in Buffer /\ TASKBUFSIZ \in Nat \ {0} /\ UintMod \in Nat \ {0}
      /\ t.tail = hd + d /\ t.tail \in Nat
  BY <1>0, Places, BufferAssumption DEF RingInv
<1>2. /\ d + n <= TASKBUFSIZ /\ Pos(hd + d) + n <= TASKBUFSIZ /\ hd + d + n < UintMod
  <2>1. PICK r \in Nat, l \in Nat :
          r = ReadRoom(t) /\ l = Pos(hd + d) /\ l + r <= TASKBUFSIZ /\ d + r <= TASKBUFSIZ
    <3>1. /\ ReadRoom(t) \in Nat /\ Pos(t.tail) \in Nat
          /\ Pos(t.tail) + ReadRoom(t) <= TASKBUFSIZ
          /\ t.tail - t.head + ReadRoom(t) <= TASKBUFSIZ
      BY RoomFits, Places
    <3> QED BY <1>0, <1>1, <3>1
  <2>2. n <= r /\ hd + d + n < UintMod
    BY <1>0, <1>1, <2>1 DEF Fits
  <2> QED BY <1>1, <2>1, <2>2
<1>a. InARow(hd, d, n)
  BY <1>2, RingPlaces
<1>3. (t.tail + n) % UintMod = hd + d + n
  <2>1. hd + d + n \in Nat /\ t.tail + n = hd + d + n
    BY <1>1
  <2> QED BY <1>2, <2>1, NoWrap
<1>4. PICK u \in {Store(t, bytes)}, b \in {[i \in 0..TASKBUFSIZ-1 |->
           IF i - Pos(hd + d) \in 0..n-1 THEN bytes[i - Pos(hd + d) + 1] ELSE t.buf[i]]} :
        u = [t EXCEPT !.tail = hd + d + n, !.buf = b]
  <2>1. DOMAIN t.buf = 0..TASKBUFSIZ-1
    BY <1>1 DEF Buffer
  <2> QED BY <1>0, <1>1, <1>3, <2>1 DEF Store
<1>5. /\ u.head = hd /\ u.total = t.total /\ u.tail = hd + d + n /\ u.buf = b
      /\ \A i \in 0..TASKBUFSIZ-1 :
            b[i] = IF i - Pos(hd + d) \in 0..n-1
                   THEN bytes[i - Pos(hd + d) + 1] ELSE t.buf[i]
  BY <1>0, <1>1, <1>4 DEF Buffer
<1>6. u \in Buffer
  <2>1. \A i \in 0..TASKBUFSIZ-1 : i - Pos(hd + d) \in 0..n-1 => i - Pos(hd + d) + 1 \in 1..n
    <3>1. PICK l \in Int : l = Pos(hd + d)
      BY <1>1, PosIn
    <3>2. \A i \in 0..TASKBUFSIZ-1 : i - l \in 0..n-1 => i - l + 1 \in 1..n
      BY <1>1
    <3> QED BY <3>1, <3>2
  <2>2. \A i \in 1..n : bytes[i] \in Byte
    BY <1>0
  <2>3. \A i \in 0..TASKBUFSIZ-1 : t.buf[i] \in Byte
    BY <1>1 DEF Buffer
  <2>4. b \in [0..TASKBUFSIZ-1 -> Byte]
    BY <1>5, <2>1, <2>2, <2>3
  <2>5. t.total \in Nat /\ hd + d + n \in Nat
    BY <1>1 DEF Buffer
  <2> QED BY <1>1, <1>4, <2>4, <2>5 DEF Buffer
<1>7. RingInv(u)
  <2>1. hd <= hd + d + n /\ hd + d + n <= hd + TASKBUFSIZ
    BY <1>1, <1>2
  <2> QED BY <1>2, <1>5, <1>6, <2>1 DEF RingInv
<1>8. \A i \in 1..(d + n) : u.buf[Pos(hd + i - 1)] = IF i <= d THEN t.buf[Pos(hd + i - 1)]
                                                               ELSE bytes[i - d]
  <2> TAKE i \in 1..(d + n)
  <2>1. /\ Pos(hd + i - 1) \in 0..TASKBUFSIZ-1
        /\ i <= d => ~(Pos(hd + i - 1) - Pos(hd + d) \in 0..n-1)
        /\ i > d => Pos(hd + i - 1) - Pos(hd + d) = i - d - 1
    BY <1>a DEF InARow
  <2>2. CASE i <= d
    BY <1>5, <2>1, <2>2
  <2>3. CASE ~(i <= d)
    <3>1. Pos(hd + i - 1) - Pos(hd + d) = i - d - 1
      BY <2>1, <2>3
    <3>2. i - d - 1 \in 0..n-1 /\ i - d - 1 + 1 = i - d
      BY <2>3
    <3> QED BY <1>5, <2>1, <2>3, <3>1, <3>2
  <2> QED BY <2>2, <2>3
<1>9. Held(u) = Held(t) \o bytes
  <2>1. /\ Held(t) = [i \in 1..d |-> t.buf[Pos(hd + i - 1)]]
        /\ Held(t) \in Seq(Byte) /\ Len(Held(t)) = d
    BY <1>0, HeldIs
  <2>2. /\ Held(u) = [i \in 1..(d + n) |-> u.buf[Pos(hd + i - 1)]]
        /\ Held(u) \in Seq(Byte) /\ Len(Held(u)) = d + n
    <3>1. u.tail - u.head = d + n
      BY <1>5
    <3>2. /\ Held(u) = [i \in 1..(u.tail - u.head) |-> u.buf[Pos(u.head + i - 1)]]
          /\ Held(u) \in Seq(Byte) /\ Len(Held(u)) = u.tail - u.head
      BY <1>7, HeldIs
    <3> QED BY <1>5, <3>1, <3>2, Zenon
  <2>3. Held(t) \o bytes \in Seq(Byte) /\ Len(Held(t) \o bytes) = d + n
    BY <1>0, <2>1, ConcatProperties
  <2>4. \A i \in 1..(d + n) : (Held(t) \o bytes)[i] =
           IF i <= d THEN Held(t)[i] ELSE bytes[i - d]
    BY <1>0, <2>1, ConcatProperties
  <2>5. \A i \in 1..(d + n) : i <= d => Held(t)[i] = t.buf[Pos(hd + i - 1)]
    BY <2>1
  <2>6. \A i \in 1..(d + n) : Held(u)[i] = (Held(t) \o bytes)[i]
    BY <1>8, <2>2, <2>4, <2>5
  <2> QED BY <2>2, <2>3, <2>6, SeqEqual
<1> QED BY <1>0, <1>1, <1>4, <1>5, <1>7, <1>9


\* u is t without the n bytes w at its head.
Taken(t, n, u, w) ==
    /\ u = [t EXCEPT !.head = (t.head + n) % UintMod, !.total = t.total + n]
    /\ w = [i \in 1..n |-> t.buf[Pos(t.head) + i - 1]]

\* The first n bytes of the run at head are the oldest ones.
LEMMA TakeFirst ==
    ASSUME NEW t, RingInv(t), NEW n \in Nat, n <= WriteRun(t),
           NEW u, NEW w, Taken(t, n, u, w)
    PROVE  /\ RingInv(u) /\ w \in Seq(Byte) /\ Len(w) = n
           /\ w \o Held(u) = Held(t)
           /\ u.head = t.head + n /\ u.tail = t.tail /\ u.total = t.total + n
<1>0. PICK hd \in Nat, d \in Nat : hd = t.head /\ d = t.tail - t.head
  BY Places
<1>1. /\ t \in Buffer /\ TASKBUFSIZ \in Nat \ {0} /\ UintMod \in Nat \ {0}
      /\ t.tail = hd + d /\ t.tail \in Nat /\ t.tail < UintMod /\ d <= TASKBUFSIZ
      /\ t.total \in Nat /\ t.buf \in [0..TASKBUFSIZ-1 -> Byte]
  BY <1>0, Places, BufferAssumption DEF RingInv, Buffer
<1>2. n <= d /\ Pos(hd) \in 0..TASKBUFSIZ-1 /\ Pos(hd) + n <= TASKBUFSIZ
  <2>1. PICK r \in Nat, h \in 0..TASKBUFSIZ-1 :
          r = WriteRun(t) /\ h = Pos(hd) /\ r <= d /\ h + r <= TASKBUFSIZ
    BY <1>0, RunFits, Places
  <2>2. n <= r
    BY <2>1
  <2> QED BY <1>1, <2>1, <2>2
<1>3. (t.head + n) % UintMod = hd + n
  <2>1. hd + n \in Nat /\ hd + n < UintMod
    BY <1>1, <1>2
  <2> QED BY <1>0, <2>1, NoWrap
<1>4. /\ u.head = hd + n /\ u.tail = hd + d /\ u.total = t.total + n /\ u.buf = t.buf
      /\ u \in Buffer
  <2>1. u = [t EXCEPT !.head = hd + n, !.total = t.total + n]
    BY <1>3 DEF Taken
  <2>2. hd + n \in Nat /\ t.total + n \in Nat
    BY <1>1
  <2> QED BY <1>1, <2>1, <2>2 DEF Buffer
<1>5. RingInv(u)
  <2>1. hd + n <= hd + d /\ hd + d <= hd + n + TASKBUFSIZ
    BY <1>1, <1>2
  <2> QED BY <1>1, <1>4, <2>1 DEF RingInv
<1>6. \A i \in 1..n : Pos(hd + i - 1) = Pos(hd) + i - 1 /\ Pos(hd) + i - 1 \in 0..TASKBUFSIZ-1
  <2> TAKE i \in 1..n
  <2>1. PICK h \in Int, k \in Int : h = Pos(hd) /\ k = i - 1
    BY <1>2
  <2>2. h + k \in 0..(TASKBUFSIZ - 1)
    BY <1>1, <1>2, <2>1
  <2>3. Pos(hd + k) = h + k
    BY <2>1, <2>2, PosAdd
  <2>4. hd + k = hd + i - 1 /\ h + k = h + i - 1
    BY <2>1
  <2> QED BY <2>1, <2>2, <2>3, <2>4
<1>7. /\ w \in Seq(Byte) /\ Len(w) = n
      /\ \A i \in 1..n : w[i] = t.buf[Pos(hd + i - 1)]
  <2>1. \A i \in 1..n : t.buf[Pos(hd) + i - 1] \in Byte
    BY <1>1, <1>6
  <2>2. w = [i \in 1..n |-> t.buf[Pos(hd) + i - 1]]
    BY <1>0 DEF Taken
  <2>3. w \in [1..n -> Byte] /\ \A i \in 1..n : w[i] = t.buf[Pos(hd) + i - 1]
    BY <2>1, <2>2
  <2>4. w \in Seq(Byte) /\ Len(w) = n
    BY <2>3
  <2> QED BY <1>6, <2>3, <2>4
<1>8. w \o Held(u) = Held(t)
  <2>1. /\ Held(t) \in Seq(Byte) /\ Len(Held(t)) = d
        /\ \A i \in 1..d : Held(t)[i] = t.buf[Pos(hd + i - 1)]
    BY <1>0, HeldIs
  <2>2. /\ Held(u) \in Seq(Byte) /\ Len(Held(u)) = d - n
        /\ \A i \in 1..(d - n) : Held(u)[i] = t.buf[Pos(hd + n + i - 1)]
    <3>1. u.tail - u.head = d - n
      BY <1>4
    <3>2. /\ Held(u) = [i \in 1..(u.tail - u.head) |-> u.buf[Pos(u.head + i - 1)]]
          /\ Held(u) \in Seq(Byte) /\ Len(Held(u)) = u.tail - u.head
      BY <1>5, HeldIs
    <3>3. Held(u) = [i \in 1..(d - n) |-> t.buf[Pos(hd + n + i - 1)]]
      BY <1>4, <3>1, <3>2, Zenon
    <3> QED BY <3>1, <3>2, <3>3
  <2>3. /\ w \o Held(u) \in Seq(Byte) /\ Len(w \o Held(u)) = n + (d - n)
        /\ \A i \in 1..(n + (d - n)) : (w \o Held(u))[i] = IF i <= n THEN w[i] ELSE Held(u)[i - n]
    BY <1>7, <2>2, ConcatProperties
  <2>4. \A i \in 1..d : (w \o Held(u))[i] = Held(t)[i]
    <3> TAKE i \in 1..d
    <3>0. i \in 1..(n + (d - n))
      BY <1>2
    <3>1. CASE i <= n
      <4>1. i \in 1..n
        BY <3>1
      <4> QED BY <1>7, <2>1, <2>3, <3>0, <3>1, <4>1
    <3>2. CASE ~(i <= n)
      <4>1. i - n \in 1..(d - n) /\ hd + n + (i - n) - 1 = hd + i - 1
        BY <3>2
      <4>2. Held(u)[i - n] = t.buf[Pos(hd + i - 1)]
        BY <2>2, <4>1
      <4> QED BY <2>1, <2>3, <3>0, <3>2, <4>2
    <3> QED BY <3>1, <3>2
  <2>5. Len(w \o Held(u)) = d
    BY <1>2, <2>3
  <2> QED BY <2>1, <2>3, <2>4, <2>5, SeqEqual
<1> QED BY <1>0, <1>1, <1>4, <1>5, <1>7, <1>8

-----------------------------------------------------------------------------
(* The two functions.                                                       *)

\* The counters cannot wrap around in the next read.
Room(t, src) == t.head + TASKBUFSIZ < UintMod \/ t.tail + Len(src.data) < UintMod

\* read_to_taskbuf() moves bytes from the source to the end of the buffer: what
\* is held and what is still to come together stay the same.  It says that the
\* source has ended only when it has, or when there is no room.
THEOREM ReadIsFifo ==
    ASSUME NEW t, RingInv(t), NEW src \in Source, Room(t, src),
           NEW r \in read_to_taskbuf(t, src)
    PROVE  /\ RingInv(r.t) /\ r.src \in Source /\ r.src.end = src.end
           /\ Held(r.t) \o r.src.data = Held(t) \o src.data
           /\ r.t.head = t.head /\ r.t.total = t.total
           /\ r.ret = "ERROR" => src.end = "error"
           /\ r.ret # "OK" => r.t = t /\ r.src = src
           /\ r.ret # "OK" /\ t.head = t.tail => src.data = <<>>
           /\ r.ret = "END" /\ t.head = t.tail => src.end = "eof"
<1>0. src.data \in Seq(Byte) /\ src.end \in {"eof", "error", "stall"}
  BY DEF Source
<1>1. CASE ReadRoom(t) > 0 /\ src.data # <<>>
  <2>1. PICK n \in 1..Len(src.data) :
          /\ n <= ReadRoom(t)
          /\ r = [ret |-> "OK", t |-> Store(t, SubSeq(src.data, 1, n)),
                  src |-> [src EXCEPT !.data = SubSeq(src.data, n + 1, Len(src.data))]]
    BY <1>1 DEF read_to_taskbuf
  <2>2. PICK new \in {SubSeq(src.data, 1, n)}, rest \in {SubSeq(src.data, n + 1, Len(src.data))} :
          /\ new \in Seq(Byte) /\ rest \in Seq(Byte) /\ Len(new) = n /\ new \o rest = src.data
    <3>1. Len(src.data) \in Nat
      BY <1>0
    <3>2. /\ SubSeq(src.data, 1, n) \in Seq(Byte) /\ Len(SubSeq(src.data, 1, n)) = n
          /\ SubSeq(src.data, n + 1, Len(src.data)) \in Seq(Byte)
      BY <1>0, <3>1, SubSeqProperties
    <3>3. SubSeq(src.data, 1, n) \o SubSeq(src.data, n + 1, Len(src.data))
             = SubSeq(src.data, 1, Len(src.data))
      BY <1>0, <3>1, ConcatAdjacentSubSeq
    <3>4. SubSeq(src.data, 1, Len(src.data)) = src.data
      BY <1>0, SubSeqFull
    <3> QED BY <3>2, <3>3, <3>4
  <2>3. Fits(t, new)
    <3>1. t.tail \in Nat /\ t.head \in Nat /\ TASKBUFSIZ \in Nat /\ Len(src.data) \in Nat
          /\ n \in Nat /\ n <= Len(src.data) /\ UintMod \in Nat
      BY <1>0, Places, BufferAssumption
    <3>2. t.tail - t.head + n <= TASKBUFSIZ
      <4>1. ReadRoom(t) \in Nat /\ t.tail - t.head + ReadRoom(t) <= TASKBUFSIZ
        BY RoomFits
      <4> QED BY <2>1, <3>1, <4>1
    <3>3. t.tail + n < UintMod
      BY <3>1, <3>2 DEF Room
    <3> QED BY <2>1, <2>2, <3>3 DEF Fits
  <2>4. PICK v \in {Store(t, new)} :
          /\ RingInv(v) /\ Held(v) = Held(t) \o new
          /\ v.head = t.head /\ v.total = t.total
    BY <2>2, <2>3, StoreAppends
  <2>5. r.ret = "OK" /\ r.t = v /\ r.src = [src EXCEPT !.data = rest]
    BY <2>1, <2>2, <2>4
  <2>6. r.src \in Source /\ r.src.end = src.end /\ r.src.data = rest
    BY <1>0, <2>2, <2>5 DEF Source
  <2>7. (Held(t) \o new) \o rest = Held(t) \o (new \o rest)
    <3>1. Held(t) \in Seq(Byte)
      BY HeldIs
    <3>2. \A x, y, z \in Seq(Byte) : (x \o y) \o z = x \o (y \o z)
      BY ConcatAssociative
    <3> QED BY <2>2, <3>1, <3>2
  <2> QED BY <2>2, <2>4, <2>5, <2>6, <2>7
<1>2. CASE ~(ReadRoom(t) > 0 /\ src.data # <<>>)
  <2>0. ~(ReadRoom(t) > 0 /\ src.end = "stall")
    BY <1>2 DEF read_to_taskbuf
  <2>1. r = [ret |-> IF ReadRoom(t) > 0 /\ src.end = "error" THEN "ERROR" ELSE "END",
             t |-> t, src |-> src]
    BY <1>2, <2>0 DEF read_to_taskbuf
  <2>2. r.t = t /\ r.src = src
        /\ r.ret = IF ReadRoom(t) > 0 /\ src.end = "error" THEN "ERROR" ELSE "END"
    BY <2>1
  <2>3. t.head = t.tail => ReadRoom(t) > 0
    BY RoomFits
  <2> QED BY <1>0, <1>2, <2>0, <2>2, <2>3
<1> QED BY <1>1, <1>2

\* write_from_taskbuf() takes bytes from the front of the buffer, at least one
\* if there is one, and counts them.
THEOREM WriteIsFifo ==
    ASSUME NEW t, RingInv(t), NEW r \in write_from_taskbuf(t)
    PROVE  /\ RingInv(r.t) /\ r.bytes \in Seq(Byte) /\ Len(r.bytes) <= TASKBUFSIZ
           /\ r.bytes \o Held(r.t) = Held(t)
           /\ r.t.tail = t.tail /\ r.t.head = t.head + Len(r.bytes)
           /\ r.t.total = t.total + Len(r.bytes)
           /\ t.head # t.tail => r.bytes # <<>>
<1>0. /\ WriteRun(t) \in Nat /\ WriteRun(t) <= TASKBUFSIZ /\ TASKBUFSIZ \in Nat
      /\ WriteRun(t) = 0 <=> t.head = t.tail
  <2>1. /\ WriteRun(t) \in Nat /\ Pos(t.head) + WriteRun(t) <= TASKBUFSIZ
        /\ Pos(t.head) \in Nat /\ TASKBUFSIZ \in Nat
        /\ WriteRun(t) = 0 <=> t.head = t.tail
    BY RunFits, Places
  <2> QED BY <2>1
<1>1. CASE WriteRun(t) = 0
  <2>1. r.t = t /\ r.bytes = <<>>
    BY <1>1 DEF write_from_taskbuf
  <2>2. Held(t) \in Seq(Byte) /\ t.head \in Nat /\ t.total \in Nat
    BY HeldIs, Places DEF RingInv, Buffer
  <2>3. <<>> \o Held(t) = Held(t) /\ <<>> \in Seq(Byte) /\ Len(<<>>) = 0
    BY <2>2
  <2> QED BY <1>0, <1>1, <2>1, <2>2, <2>3
<1>2. CASE WriteRun(t) # 0
  <2>1. PICK n \in 1..WriteRun(t) : \E v, w : Taken(t, n, v, w) /\ r = [bytes |-> w, t |-> v]
    BY <1>2 DEF write_from_taskbuf, Taken
  <2>0. PICK v, w : Taken(t, n, v, w) /\ r = [bytes |-> w, t |-> v]
    BY <2>1
  <2>2. n \in Nat /\ n <= WriteRun(t) /\ 1 <= n /\ n <= TASKBUFSIZ
    BY <1>0
  <2>3. /\ RingInv(v) /\ w \in Seq(Byte) /\ Len(w) = n
        /\ w \o Held(v) = Held(t)
        /\ v.head = t.head + n /\ v.tail = t.tail /\ v.total = t.total + n
    BY <2>0, <2>2, TakeFirst
  <2>4. r.t = v /\ r.bytes = w
    BY <2>0
  <2>5. w # <<>>
    BY <2>2, <2>3
  <2> QED BY <2>2, <2>3, <2>4, <2>5
<1> QED BY <1>1, <1>2
============================================================================
