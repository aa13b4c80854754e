---------------------------- MODULE OsppeerProofs ----------------------------
(* The safety properties of module Osppeer, for any number of downloads,    *)
(* peers and files and any size of the buffer.  They all follow from        *)
(* PeerInv, which is inductive under SmallFiles.                            *)
EXTENDS Osppeer, TaskBufProofs, FiniteSetTheorems

-----------------------------------------------------------------------------
(* Replies of the tracker.                                                  *)

\* A set of positive numbers has a least one.
LEMMA LeastOf ==
    ASSUME NEW I, I \subseteq Nat, I # {}
    PROVE  Min(I) \in I /\ \A y \in I : Min(I) <= y
<1>1. \E x \in I : \A y \in I : ~(<<y, x>> \in OpToRel(<, Nat))
  BY NatLessThanWellFounded, WFMin
<1>2. \E x \in I : \A y \in I : x <= y
  <2>1. PICK x \in I : \A y \in I : ~(<<y, x>> \in OpToRel(<, Nat))
    BY <1>1
  <2>2. ASSUME NEW y \in I PROVE x <= y
    <3>1. <<y, x>> \notin OpToRel(<, Nat) /\ x \in Nat /\ y \in Nat
      BY <2>1
    <3> QED BY <3>1 DEF OpToRel
  <2> QED BY <2>2
<1> QED BY <1>2 DEF Min

LEMMA ReverseIsSeq ==
    ASSUME NEW S, NEW s \in Seq(S)
    PROVE  Reverse(s) \in Seq(S)
<1>1. PICK l \in Nat : l = Len(s)
  OBVIOUS
<1>2. \A i \in 1..l : s[l - i + 1] \in S
  BY <1>1
<1> DEFINE q == [i \in 1..l |-> s[l - i + 1]]
<1>3. q \in Seq(S)
  BY <1>2, IsASeq
<1> QED BY <1>1, <1>3 DEF Reverse

\* The data portion of a complete and well-formed reply holds peers.
LEMMA PeersOfReply ==
    ASSUME NEW p, p.lines \in Seq(Line), Complete(p), Formatted(p.lines)
    PROVE  PeerList(p.lines) \in Seq(DOMAIN Sends)
<1> DEFINE lines == p.lines
           I == MessageStarts(lines)
<1>1. I \subseteq 1..Len(lines) /\ I # {} /\ Len(lines) \in Nat
  BY DEF Complete, Terminators, MessageStarts
<1>2. PICK m \in 1..Len(lines) : m = MessagePos(lines)
  <2> HIDE DEF I, lines
  <2>1. I \subseteq Nat
    BY <1>1
  <2>2. Min(I) \in I
    BY <1>1, <2>1, LeastOf
  <2> QED BY <1>1, <2>2 DEF MessagePos, I
<1>3. PICK n \in Nat : n = (m - 1) \div 2 /\ 2 * n <= m - 1
  BY <1>1
<1>4. ASSUME NEW i \in 1..n PROVE lines[2 * i - 1].peer \in DOMAIN Sends
  <2>1. 2 * i - 1 \in 1..(m - 1) /\ 2 * i - 1 \in 1..Len(lines) /\ (2 * i - 1) % 2 = 1
    BY <1>1, <1>3
  <2>2. lines[2 * i - 1].k = "peer" /\ lines[2 * i - 1] \in Line
    BY <1>2, <2>1 DEF Formatted
  <2> QED BY <2>2 DEF Line
<1> DEFINE ps == [i \in 1..n |-> lines[2 * i - 1].peer]
<1>5. PeerList(lines) = Reverse(ps)
  BY <1>2, <1>3 DEF PeerList
<1>6. ps \in Seq(DOMAIN Sends)
  BY <1>4, IsASeq
<1> HIDE DEF ps
<1> QED BY <1>5, <1>6, ReverseIsSeq


-----------------------------------------------------------------------------
(* One download process.                                                    *)

LEMMA Limits ==
    /\ TASKBUFSIZ \in Nat /\ TASKBUFSIZ > 0 /\ UintMod \in Nat /\ MaxSize \in Nat
    /\ MaxNames \in Nat /\ MaxNames > 0 /\ MaxSize + 2 * TASKBUFSIZ < UintMod
  BY BufferAssumption, LimitsAssumption

LEMMA NewBuffer == Counted(task_new) /\ Held(task_new) = <<>> /\ task_new.total = 0 /\ task_new.head = 0
<1>1. /\ task_new.head = 0 /\ task_new.tail = 0 /\ task_new.total = 0
  BY DEF task_new
<1>2. task_new \in Buffer
  <2>1. [i \in 0..TASKBUFSIZ-1 |-> NoByte] \in [0..TASKBUFSIZ-1 -> Byte]
    BY DEF NoByte, Byte
  <2> QED BY <2>1 DEF task_new, Buffer
<1>3. RingInv(task_new) /\ Counted(task_new)
  BY <1>1, <1>2, Limits DEF RingInv, Counted
<1>4. Held(task_new) \in Seq(Byte) /\ Len(Held(task_new)) = 0
  BY <1>1, <1>3, HeldIs
<1> QED BY <1>1, <1>3, <1>4

LEMMA SentIsSource ==
    ASSUME NEW p \in DOMAIN Sends
    PROVE  /\ Sends[p].src \in Source /\ Sends[p].src.data \in Seq(Byte)
           /\ Sends[p].src.end \in {"eof", "error", "stall"}
  BY PeerAssumption DEF Source

LEMMA FrontPeer ==
    ASSUME NEW p \in Download, p.peers # <<>>
    PROVE  Head(p.peers) \in DOMAIN Sends /\ Tail(p.peers) \in Seq(DOMAIN Sends)
<1>1. p.peers \in Seq(DOMAIN Sends)
  BY DEF Download
<1> QED BY <1>1, HeadTailProperties

\* A process that changes its place only keeps its buffer and its peers.
Same(p, q) ==
    /\ q.file = p.file /\ q.list = p.list /\ q.peers = p.peers /\ q.t = p.t
    /\ q.src = p.src /\ q.i = p.i /\ q.named = p.named /\ q.linked = p.linked

LEMMA SameKeeps ==
    ASSUME NEW sc, NEW ref, NEW dsk, NEW p, DownloadInv(p, dsk, sc, ref), NEW q \in Download, Same(p, q)
    PROVE  /\ q.i < MaxNames /\ Counted(q.t) /\ PeersInv(q, sc) /\ DiskName(q) = DiskName(p)
           /\ NamedInv(q, dsk, sc, ref) /\ StageInv(q, sc) => DownloadInv(q, dsk, sc, ref)
<1>1. q.i < MaxNames /\ Counted(q.t) /\ DiskName(q) = DiskName(p)
  BY DEF DownloadInv, Same, DiskName
<1>2. PeersInv(q, sc)
  BY DEF DownloadInv, Same, PeersInv
<1> QED BY <1>1, <1>2 DEF DownloadInv

\* What others do with other names does not concern a download.
LEMMA DownloadFrame ==
    ASSUME NEW sc, NEW ref, NEW ref2, NEW d1, NEW d2, NEW p, DownloadInv(p, d1, sc, ref), ref \subseteq ref2,
           p.linked => /\ DiskName(p) \in DOMAIN d2 <=> DiskName(p) \in DOMAIN d1
                       /\ DiskName(p) \in DOMAIN d1 => d2[DiskName(p)] = d1[DiskName(p)]
    PROVE  DownloadInv(p, d2, sc, ref2)
<1>1. NamedInv(p, d1, sc, ref)
  BY DEF DownloadInv
<1>2. NamedInv(p, d2, sc, ref2)
  BY <1>1 DEF NamedInv
<1> QED BY <1>2 DEF DownloadInv

\* Another process unlinks the name.
LEMMA LostKeeps ==
    ASSUME NEW sc, NEW ref, NEW d1, NEW d2, NEW p, DownloadInv(p, d1, sc, ref), p.linked,
           DiskName(p) \in ref, sc.faults # 0, NEW q, q = [p EXCEPT !.linked = FALSE]
    PROVE  DownloadInv(q, d2, sc, ref)
<1>0. p \in Download /\ NamedInv(p, d1, sc, ref) /\ StageInv(p, sc)
  BY DEF DownloadInv
<1>1. /\ q \in Download /\ q.pc = p.pc /\ q.src = p.src /\ q.file = p.file /\ q.list = p.list
      /\ q.peers = p.peers /\ q.t = p.t /\ q.i = p.i /\ q.named = p.named /\ ~q.linked
      /\ DiskName(q) = DiskName(p)
  BY <1>0 DEF Download, DiskName
<1>2. PeersInv(q, sc) /\ Counted(q.t) /\ q.i < MaxNames
  BY <1>1 DEF DownloadInv, PeersInv
<1>3. NamedInv(q, d2, sc, ref)
  BY <1>0, <1>1 DEF NamedInv
<1>4. StageInv(q, sc)
  BY <1>0, <1>1 DEF StageInv
<1> QED BY <1>1, <1>2, <1>3, <1>4 DEF DownloadInv

\* NewDownload().
LEMMA NewIsGood ==
    ASSUME NEW sc, NEW ref, NEW dsk, NEW f \in File, NEW peers \in Seq(DOMAIN Sends)
    PROVE  DownloadInv(NewDownload(f, peers), dsk, sc, ref)
<1>1. PICK q \in {NewDownload(f, peers)} :
        /\ q \in Download /\ q.pc = "connect" /\ q.list = peers /\ q.peers = peers
        /\ q.t = task_new /\ q.i = 0 /\ ~q.named /\ ~q.linked
  <2>1. task_new \in Buffer /\ NoSource \in Source /\ <<>> \in Seq(Line)
    BY NewBuffer DEF Counted, RingInv, NoSource, Source
  <2> QED BY <2>1 DEF NewDownload, Download
<1>2. PeersInv(q, sc)
  <2>1. Len(q.list) \in Nat /\ q.peers = SubSeq(q.list, 0 + 1, Len(q.list))
    BY <1>1, SubSeqFull
  <2>2. 0 \in 0..Len(q.list) /\ \A j \in 1..0 : ~Good(q.list[j])
    BY <2>1
  <2> QED BY <2>1, <2>2 DEF PeersInv
<1>3. Counted(q.t) /\ q.i < MaxNames
  BY <1>1, NewBuffer, Limits
<1>4. NamedInv(q, dsk, sc, ref) /\ StageInv(q, sc)
  BY <1>1 DEF NamedInv, StageInv
<1> QED BY <1>1, <1>2, <1>3, <1>4 DEF DownloadInv

\* A step that leaves the name as it is.
Kept(p, q) == q.file = p.file /\ q.i = p.i /\ q.named = p.named /\ q.linked = p.linked

LEMMA ConnectKeeps ==
    ASSUME NEW sc, NEW ref, NEW dsk, NEW p, DownloadInv(p, dsk, sc, ref), p.pc = "connect", NEW q,
           q = IF p.peers = <<>> THEN [p EXCEPT !.pc = "done"]
               ELSE IF Head(p.peers) = Self \/ ~open_socket(Head(p.peers)) THEN Again(p)
               ELSE [p EXCEPT !.pc = "open", !.src = Sends[Head(p.peers)].src]
    PROVE  DownloadInv(q, dsk, sc, ref) /\ Kept(p, q) /\ q.pc # "have"
<1>0. p \in Download /\ ~p.named /\ ~p.linked /\ p.t = task_new
  BY DEF DownloadInv, StageInv, NamedInv
<1>1. CASE p.peers = <<>>
  <2>1. q \in Download /\ Same(p, q) /\ q.pc = "done"
    BY <1>0, <1>1 DEF Download, Same
  <2>2. ~q.named /\ ~q.linked /\ q.t = task_new /\ q.peers = <<>>
    BY <1>0, <1>1, <2>1 DEF Same
  <2>3. NamedInv(q, dsk, sc, ref)
    BY <2>1, <2>2, Zenon DEF NamedInv
  <2>4. StageInv(q, sc)
    BY <2>1, <2>2, Zenon DEF StageInv
  <2> QED BY <2>1, <2>3, <2>4, SameKeeps, Zenon DEF Same, Kept
<1>2. CASE p.peers # <<>> /\ (Head(p.peers) = Self \/ ~open_socket(Head(p.peers)))
  <2>1. q \in Download /\ Same(p, q) /\ q.pc = "again"
    BY <1>0, <1>2 DEF Download, Same, Again
  <2>2. q.peers # <<>> /\ ~q.named /\ ~q.linked
    BY <1>0, <1>2, <2>1 DEF Same
  <2>3. ~Good(Head(q.peers))
    <3>1. ~Good(Head(p.peers))
      BY <1>2 DEF Good, open_socket
    <3> QED BY <2>1, <3>1, Zenon DEF Same
  <2>4. NamedInv(q, dsk, sc, ref)
    BY <2>1, <2>2, Zenon DEF NamedInv
  <2>5. StageInv(q, sc)
    BY <2>1, <2>2, <2>3, Zenon DEF StageInv
  <2> QED BY <2>1, <2>4, <2>5, SameKeeps, Zenon DEF Same, Kept
<1>3. CASE p.peers # <<>> /\ ~(Head(p.peers) = Self \/ ~open_socket(Head(p.peers)))
  <2>1. Head(p.peers) \in DOMAIN Sends /\ Sends[Head(p.peers)].src \in Source
    BY <1>0, <1>3, FrontPeer, SentIsSource
  <2>2. q = [p EXCEPT !.pc = "open", !.src = Sends[Head(p.peers)].src]
    BY <1>3
  <2>3. /\ q \in Download /\ q.pc = "open" /\ q.src = Sends[Head(p.peers)].src
        /\ q.file = p.file /\ q.list = p.list /\ q.peers = p.peers /\ q.t = p.t
        /\ q.i = p.i /\ q.named = p.named /\ q.linked = p.linked
    BY <1>0, <2>1, <2>2 DEF Download
  <2>4. PeersInv(q, sc)
    BY <2>3 DEF DownloadInv, PeersInv
  <2>5. NamedInv(q, dsk, sc, ref) /\ StageInv(q, sc)
    BY <1>0, <1>3, <2>3 DEF NamedInv, StageInv
  <2> QED BY <2>3, <2>4, <2>5 DEF DownloadInv, Kept
<1> QED BY <1>1, <1>2, <1>3

\* The next name is tried, or there is none.
LEMMA NextNameKeeps ==
    ASSUME NEW sc, NEW ref, NEW dsk, NEW p, DownloadInv(p, dsk, sc, ref), p.pc = "open", NEW q,
           q = IF NameLeft(p) THEN [p EXCEPT !.i = @ + 1] ELSE [p EXCEPT !.pc = "done"]
    PROVE  DownloadInv(q, dsk, sc, ref) /\ q.file = p.file /\ ~p.linked /\ ~q.linked
<1>0. p \in Download /\ ~p.named /\ ~p.linked /\ p.t = task_new /\ p.i \in Nat /\ p.i < MaxNames
  BY DEF DownloadInv, StageInv, NamedInv, Download
<1>1. CASE NameLeft(p)
  <2>0. PICK j \in Nat : j = p.i + 1
    BY <1>0
  <2>1. /\ q \in Download /\ q.pc = p.pc /\ q.src = p.src
        /\ q.file = p.file /\ q.list = p.list /\ q.peers = p.peers /\ q.t = p.t
        /\ q.i = p.i + 1 /\ q.named = p.named /\ q.linked = p.linked
    <3>1. q = [p EXCEPT !.i = j]
      BY <1>1, <2>0
    <3> QED BY <1>0, <2>0, <3>1 DEF Download
  <2>2. PeersInv(q, sc) /\ q.i < MaxNames
    BY <1>1, <2>1 DEF DownloadInv, PeersInv, NameLeft
  <2>3. NamedInv(q, dsk, sc, ref) /\ StageInv(q, sc)
    BY <1>0, <2>1 DEF DownloadInv, NamedInv, StageInv
  <2> QED BY <1>0, <2>1, <2>2, <2>3 DEF DownloadInv
<1>2. CASE ~NameLeft(p)
  <2>1. q \in Download /\ Same(p, q) /\ q.pc = "done"
    BY <1>0, <1>2 DEF Download, Same
  <2>2. p.i = MaxNames - 1
    BY <1>0, <1>2, Limits DEF NameLeft
  <2>3. NamedInv(q, dsk, sc, ref) /\ StageInv(q, sc)
    BY <1>0, <2>1, <2>2 DEF NamedInv, StageInv, Same
  <2> QED BY <1>0, <2>1, <2>3, SameKeeps DEF Same
<1> QED BY <1>1, <1>2

\* open() makes the file.
Opened(p) == [p EXCEPT !.pc = "read", !.named = TRUE, !.linked = TRUE]

LEMMA OpenKeeps ==
    ASSUME NEW sc, NEW ref, NEW dsk, NEW p, DownloadInv(p, dsk, sc, ref), p.pc = "open",
           DiskName(p) \in ref \/ DiskName(p) \notin DOMAIN sc.disk,
           NEW q, q = Opened(p)
    PROVE  /\ DownloadInv(q, Extend(dsk, DiskName(p), <<>>), sc, ref)
           /\ q.file = p.file /\ q.linked /\ DiskName(q) = DiskName(p)
<1>0. p \in Download /\ p.t = task_new /\ p.peers # <<>> /\ p.src = Sends[Head(p.peers)].src
  BY DEF DownloadInv, StageInv
<1>1. /\ q \in Download /\ q.pc = "read" /\ q.src = p.src
      /\ q.file = p.file /\ q.list = p.list /\ q.peers = p.peers /\ q.t = p.t
      /\ q.i = p.i /\ q.named /\ q.linked /\ DiskName(q) = DiskName(p)
  BY <1>0 DEF Download, DiskName, Opened
<1>2. PeersInv(q, sc)
  BY <1>1 DEF DownloadInv, PeersInv
<1> DEFINE d2 == Extend(dsk, DiskName(p), <<>>)
<1>3. DiskName(p) \in DOMAIN d2 /\ d2[DiskName(p)] = <<>>
  BY DEF Extend
<1> HIDE DEF d2
<1>4. d2[DiskName(q)] \o (Held(q.t) \o q.src.data) = Sends[Head(q.peers)].src.data
  <2>1. q.src.data \in Seq(Byte) /\ Held(q.t) = <<>>
    BY <1>0, <1>1, NewBuffer, FrontPeer, SentIsSource
  <2>2. Held(q.t) \o q.src.data = q.src.data /\ <<>> \o q.src.data = q.src.data
    BY <2>1, ConcatEmptySeq
  <2> QED BY <1>0, <1>1, <1>3, <2>2
<1>5. Len(d2[DiskName(q)]) = q.t.total
  BY <1>0, <1>1, <1>3, NewBuffer
<1>6. NamedInv(q, d2, sc, ref)
  BY <1>1, <1>3, <1>4, <1>5 DEF NamedInv
<1>7. StageInv(q, sc)
  BY <1>0, <1>1 DEF StageInv
<1> QED BY <1>1, <1>2, <1>6, <1>7 DEF DownloadInv, d2

\* open() fails.
LEMMA OpenFailsKeeps ==
    ASSUME NEW sc, NEW ref, NEW dsk, NEW p, DownloadInv(p, dsk, sc, ref), p.pc = "open",
           sc.faults # 0, NEW ref2, ref2 = ref \cup {DiskName(p)}, NEW q, q = Again([p EXCEPT !.named = TRUE])
    PROVE  DownloadInv(q, dsk, sc, ref2) /\ q.file = p.file /\ ~q.linked /\ ~p.linked /\ q.pc = "again"
<1>0. p \in Download /\ p.peers # <<>> /\ ~p.linked
  BY DEF DownloadInv, StageInv, NamedInv
<1>1. /\ q \in Download /\ q.pc = "again" /\ q.src = p.src
      /\ q.file = p.file /\ q.list = p.list /\ q.peers = p.peers /\ q.t = p.t
      /\ q.i = p.i /\ q.named /\ ~q.linked /\ DiskName(q) = DiskName(p)
  BY <1>0 DEF Download, DiskName, Again
<1>2. PeersInv(q, sc)
  BY <1>1 DEF DownloadInv, PeersInv
<1>3. NamedInv(q, dsk, sc, ref2)
  <2>1. DiskName(q) \in ref2
    BY <1>1
  <2> QED BY <1>1, <2>1 DEF NamedInv
<1>4. StageInv(q, sc)
  BY <1>0, <1>1 DEF StageInv
<1>5. Counted(q.t) /\ q.i < MaxNames
  BY <1>1 DEF DownloadInv
<1> QED BY <1>0, <1>1, <1>2, <1>3, <1>4, <1>5 DEF DownloadInv

\* What is on disk while bytes are moved.
OnDisk(p, dsk) ==
    /\ DiskName(p) \in DOMAIN dsk /\ dsk[DiskName(p)] \in Seq(Byte)
    /\ dsk[DiskName(p)] \o (Held(p.t) \o p.src.data) = Sends[Head(p.peers)].src.data
    /\ Len(dsk[DiskName(p)]) = p.t.total

\* What holds meanwhile.
Moving(p, dsk, sc) ==
    /\ p \in Download /\ p.named /\ (sc.faults = 0 => p.linked)
    /\ Held(p.t) \in Seq(Byte) /\ p.src \in Source /\ p.src.data \in Seq(Byte) /\ RingInv(p.t)
    /\ p.peers # <<>> /\ Head(p.peers) \in DOMAIN Sends
    /\ p.src.end = Sends[Head(p.peers)].src.end
    /\ p.linked => OnDisk(p, dsk)

LEMMA IsMoving ==
    ASSUME NEW sc, NEW ref, NEW dsk, DiskType(dsk), NEW p, DownloadInv(p, dsk, sc, ref),
           p.pc \in {"read", "write", "end"}
    PROVE  Moving(p, dsk, sc)
<1>1. p \in Download /\ RingInv(p.t) /\ p.peers # <<>> /\ p.src.end = Sends[Head(p.peers)].src.end
  BY DEF DownloadInv, Counted, StageInv
<1>2. p.named /\ (sc.faults = 0 => p.linked)
  BY DEF DownloadInv, NamedInv
<1>3. ASSUME p.linked PROVE OnDisk(p, dsk)
  <2>1. /\ DiskName(p) \in DOMAIN dsk /\ Len(dsk[DiskName(p)]) = p.t.total
        /\ dsk[DiskName(p)] \o (Held(p.t) \o p.src.data) = Sends[Head(p.peers)].src.data
    BY <1>3 DEF DownloadInv, NamedInv
  <2>2. dsk[DiskName(p)] \in Seq(Byte)
    BY <2>1 DEF DiskType
  <2> QED BY <2>1, <2>2 DEF OnDisk
<1>4. Held(p.t) \in Seq(Byte) /\ p.src \in Source /\ p.src.data \in Seq(Byte)
  BY <1>1, HeldIs DEF Download, Source
<1> QED BY <1>1, <1>2, <1>3, <1>4, FrontPeer DEF Moving

LEMMA ConcatThree == \A x, y, z \in Seq(Byte) : (x \o y) \o z = x \o (y \o z)
  BY ConcatAssociative

LEMMA ConcatLen ==
    ASSUME NEW a \in Seq(Byte), NEW b \in Seq(Byte)
    PROVE  a \o b \in Seq(Byte) /\ Len(a \o b) = Len(a) + Len(b) /\ Len(a) <= Len(a \o b)
  BY ConcatProperties

\* What is on disk is no more than what the peer sends.
LEMMA SentIsMore ==
    ASSUME NEW sc, NEW dsk, NEW p, Moving(p, dsk, sc), p.linked
    PROVE  p.t.total <= Len(Sends[Head(p.peers)].src.data)
<1>1. Len(dsk[DiskName(p)]) <= Len(dsk[DiskName(p)] \o (Held(p.t) \o p.src.data))
  BY ConcatLen DEF Moving, OnDisk
<1>2. /\ Len(dsk[DiskName(p)]) = p.t.total
      /\ dsk[DiskName(p)] \o (Held(p.t) \o p.src.data) = Sends[Head(p.peers)].src.data
  BY DEF Moving, OnDisk
<1> QED BY <1>1, <1>2, Zenon

\* A step from reading or writing to another place.
LEMMA PlaceKeeps ==
    ASSUME NEW sc, NEW ref, NEW dsk, NEW p, DownloadInv(p, dsk, sc, ref), Moving(p, dsk, sc),
           NEW pc \in {"read", "write", "again"}, NEW q, q = [p EXCEPT !.pc = pc],
           pc = "again" /\ sc.faults = 0 => ~Good(Head(p.peers))
    PROVE  DownloadInv(q, dsk, sc, ref) /\ Kept(p, q) /\ q.pc = pc
<1>0. p \in Download
  BY DEF Moving
<1>1. q \in Download /\ Same(p, q) /\ q.pc = pc
  BY <1>0 DEF Download, Same
<1>2. DiskName(q) = DiskName(p)
  BY <1>1, SameKeeps
<1>3. NamedInv(q, dsk, sc, ref)
  <2>1. NamedInv(p, dsk, sc, ref)
    BY DEF DownloadInv
  <2> QED BY <1>1, <1>2, <2>1 DEF NamedInv, Same, Moving, OnDisk
<1>4. StageInv(q, sc)
  BY <1>1 DEF StageInv, Same, Moving
<1> QED BY <1>1, <1>3, <1>4, SameKeeps DEF Same, Kept

AfterRead(p, r) ==
    [p EXCEPT !.t = r.t, !.src = r.src,
              !.pc = IF r.ret = "ERROR" THEN "again"
                     ELSE IF r.ret = "END" /\ r.t.head = r.t.tail THEN "end" ELSE "write"]

LEMMA ReadKeeps ==
    ASSUME NEW sc, NEW ref, NEW dsk, NEW p, DownloadInv(p, dsk, sc, ref), Moving(p, dsk, sc), p.pc = "read",
           NEW r \in read_to_taskbuf(p.t, p.src), NEW q, q = AfterRead(p, r)
    PROVE  DownloadInv(q, dsk, sc, ref) /\ Kept(p, q) /\ q.pc # "have"
<1>0. p \in Download /\ RingInv(p.t) /\ p.src \in Source
  BY DEF Moving
<1>1. Room(p.t, p.src)
  <2>1. p.t.head <= MaxSize + TASKBUFSIZ /\ p.t.head \in Nat
    BY <1>0 DEF DownloadInv, Counted, RingInv, Buffer
  <2> QED BY <2>1, Limits DEF Room
<1>2. /\ RingInv(r.t) /\ r.src \in Source /\ r.src.end = p.src.end
      /\ Held(r.t) \o r.src.data = Held(p.t) \o p.src.data
      /\ r.t.head = p.t.head /\ r.t.total = p.t.total
      /\ r.ret = "ERROR" => p.src.end = "error"
      /\ r.ret # "OK" => r.t = p.t /\ r.src = p.src
      /\ r.ret # "OK" /\ p.t.head = p.t.tail => p.src.data = <<>>
      /\ r.ret = "END" /\ p.t.head = p.t.tail => p.src.end = "eof"
  BY <1>0, <1>1, ReadIsFifo
<1>3. PICK pc \in {"again", "end", "write"} :
        /\ q = [p EXCEPT !.t = r.t, !.src = r.src, !.pc = pc]
        /\ pc = "again" => p.src.end = "error"
        /\ pc = "end" => r.t.head = r.t.tail /\ r.src.data = <<>> /\ r.src.end = "eof"
  <2>1. CASE r.ret = "ERROR"
    BY <1>2, <2>1 DEF AfterRead
  <2>2. CASE r.ret = "END" /\ r.t.head = r.t.tail
    BY <1>2, <2>2 DEF AfterRead
  <2>3. CASE r.ret # "ERROR" /\ ~(r.ret = "END" /\ r.t.head = r.t.tail)
    BY <2>3 DEF AfterRead
  <2> QED BY <2>1, <2>2, <2>3
<1>4. /\ q \in Download /\ q.pc = pc /\ q.t = r.t /\ q.src = r.src
      /\ q.file = p.file /\ q.list = p.list /\ q.peers = p.peers
      /\ q.i = p.i /\ q.named = p.named /\ q.linked = p.linked /\ DiskName(q) = DiskName(p)
  <2>1. r.t \in Buffer
    BY <1>2 DEF RingInv
  <2> QED BY <1>0, <1>2, <1>3, <2>1 DEF Download, DiskName
<1>5. Counted(q.t) /\ q.i < MaxNames /\ PeersInv(q, sc)
  BY <1>2, <1>4 DEF DownloadInv, Counted, PeersInv
<1>6. NamedInv(q, dsk, sc, ref)
  <2>1. p.linked => dsk[DiskName(q)] \o (Held(q.t) \o q.src.data) = Sends[Head(q.peers)].src.data
    BY <1>2, <1>4 DEF Moving, OnDisk
  <2>2. p.linked => Len(dsk[DiskName(q)]) = q.t.total
    BY <1>2, <1>4 DEF Moving, OnDisk
  <2>3. NamedInv(p, dsk, sc, ref)
    BY DEF DownloadInv
  <2> QED BY <1>3, <1>4, <2>1, <2>2, <2>3 DEF NamedInv
<1>7. StageInv(q, sc)
  <2>1. q.pc = "again" => ~Good(Head(q.peers))
    BY <1>3, <1>4 DEF Good, Moving
  <2> QED BY <1>2, <1>3, <1>4, <2>1 DEF StageInv, Moving
<1> QED BY <1>3, <1>4, <1>5, <1>6, <1>7 DEF DownloadInv, Kept

\* Bytes go from the buffer to the file.
LEMMA WriteKeeps ==
    ASSUME NEW sc, NEW ref, NEW dsk, DiskType(dsk), NEW p, DownloadInv(p, dsk, sc, ref), Moving(p, dsk, sc),
           ~TooLarge(p), NEW w \in write_from_taskbuf(p.t),
           NEW q, q = [p EXCEPT !.t = w.t, !.pc = "read"],
           NEW d2, d2 = IF p.linked THEN [dsk EXCEPT ![DiskName(p)] = @ \o w.bytes] ELSE dsk
    PROVE  DownloadInv(q, d2, sc, ref) /\ Kept(p, q) /\ q.pc # "have" /\ DiskType(d2)
<1>0. p \in Download /\ RingInv(p.t) /\ p.t.head = p.t.total /\ p.t.total \in Nat /\ p.t.total <= MaxSize
  BY Limits DEF Moving, DownloadInv, Counted, TooLarge, RingInv, Buffer
<1>1. /\ RingInv(w.t) /\ w.bytes \in Seq(Byte) /\ Len(w.bytes) <= TASKBUFSIZ
      /\ w.bytes \o Held(w.t) = Held(p.t)
      /\ w.t.tail = p.t.tail /\ w.t.head = p.t.head + Len(w.bytes)
      /\ w.t.total = p.t.total + Len(w.bytes)
  BY <1>0, WriteIsFifo
<1>2. PICK n \in Nat : n = Len(w.bytes)
  BY <1>1
<1>3. /\ q \in Download /\ q.pc = "read" /\ q.t = w.t /\ q.src = p.src
      /\ q.file = p.file /\ q.list = p.list /\ q.peers = p.peers
      /\ q.i = p.i /\ q.named = p.named /\ q.linked = p.linked /\ DiskName(q) = DiskName(p)
  <2>1. w.t \in Buffer
    BY <1>1 DEF RingInv
  <2> QED BY <1>0, <2>1 DEF Download, DiskName
<1>4. Counted(q.t)
  <2>1. w.t.total = w.t.head /\ w.t.total <= MaxSize + TASKBUFSIZ
    BY <1>0, <1>1, <1>2, Limits
  <2> QED BY <1>1, <1>3, <2>1 DEF Counted
<1>5. PeersInv(q, sc) /\ q.i < MaxNames
  BY <1>3 DEF DownloadInv, PeersInv
<1>7. CASE ~p.linked
  <2>1. NamedInv(q, d2, sc, ref)
    <3>1. NamedInv(p, dsk, sc, ref) /\ p.named
      BY DEF DownloadInv, Moving
    <3> QED BY <1>3, <1>7, <3>1 DEF NamedInv
  <2>2. StageInv(q, sc)
    BY <1>3 DEF StageInv, Moving
  <2> QED BY <1>3, <1>4, <1>5, <1>7, <2>1, <2>2 DEF DownloadInv, Kept
<1> SUFFICES ASSUME p.linked
             PROVE  DownloadInv(q, d2, sc, ref) /\ Kept(p, q) /\ q.pc # "have" /\ DiskType(d2)
  BY <1>7
<1> DEFINE old == dsk[DiskName(p)]
<1>6. old \in Seq(Byte) /\ DiskName(p) \in DOMAIN dsk
  BY DEF Moving, OnDisk
<1>15. d2[DiskName(p)] = old \o w.bytes /\ DOMAIN d2 = DOMAIN dsk
  BY <1>6
<1>8. old \o w.bytes \in Seq(Byte) /\ Len(old \o w.bytes) = Len(old) + Len(w.bytes)
  BY <1>1, <1>6, ConcatLen
<1>9. DiskType(d2)
  BY <1>6, <1>8 DEF DiskType
<1>10. d2[DiskName(q)] \o (Held(q.t) \o q.src.data) = Sends[Head(q.peers)].src.data
  <2> HIDE DEF old
  <2>2. Held(w.t) \in Seq(Byte) /\ p.src.data \in Seq(Byte) /\ Held(w.t) \o p.src.data \in Seq(Byte)
    BY <1>1, HeldIs, ConcatLen DEF Moving
  <2>3. (old \o w.bytes) \o (Held(w.t) \o p.src.data) = old \o (w.bytes \o (Held(w.t) \o p.src.data))
    BY <2>2, <1>1, <1>6, ConcatThree
  <2>4. w.bytes \o (Held(w.t) \o p.src.data) = Held(p.t) \o p.src.data
    <3>1. (w.bytes \o Held(w.t)) \o p.src.data = w.bytes \o (Held(w.t) \o p.src.data)
      BY <2>2, <1>1, ConcatThree
    <3>2. w.bytes \o Held(w.t) = Held(p.t)
      BY <1>1
    <3> QED BY <3>1, <3>2, Zenon
  <2>5. old \o (Held(p.t) \o p.src.data) = Sends[Head(p.peers)].src.data
    BY DEF Moving, OnDisk, old
  <2>6. d2[DiskName(q)] = old \o w.bytes /\ Held(q.t) = Held(w.t) /\ q.src = p.src /\ q.peers = p.peers
    BY <1>3, <1>15
  <2> QED BY <2>3, <2>4, <2>5, <2>6, Zenon
<1>11. Len(d2[DiskName(q)]) = q.t.total
  <2>1. Len(old) = p.t.total
    BY DEF Moving, OnDisk
  <2> QED BY <1>1, <1>3, <1>15, <1>8, <2>1
<1>12. NamedInv(q, d2, sc, ref)
  <2>1. NamedInv(p, dsk, sc, ref) /\ DiskName(q) \in DOMAIN d2
    BY <1>3, <1>6, <1>15 DEF DownloadInv
  <2> QED BY <1>3, <1>10, <1>11, <2>1 DEF NamedInv
<1>13. StageInv(q, sc)
  BY <1>3 DEF StageInv, Moving
<1> QED BY <1>3, <1>4, <1>5, <1>9, <1>12, <1>13 DEF DownloadInv, Kept

\* A file above the limit, or without a byte, is not that of a good peer.
LEMMA TooLargeIsBad ==
    ASSUME NEW sc, NEW dsk, NEW p, Moving(p, dsk, sc), TooLarge(p)
    PROVE  sc.faults = 0 => ~Good(Head(p.peers))
<1> SUFFICES ASSUME p.linked PROVE ~Good(Head(p.peers))
  BY DEF Moving
<1>1. p.t.total <= Len(Sends[Head(p.peers)].src.data)
  BY SentIsMore
<1>2. Len(Sends[Head(p.peers)].src.data) \in Nat /\ p.t.total \in Nat
  BY SentIsSource DEF Moving, RingInv, Buffer
<1> QED BY <1>1, <1>2, Limits DEF TooLarge, Good

LEMMA EndIsWhole ==
    ASSUME NEW sc, NEW ref, NEW dsk, NEW p, DownloadInv(p, dsk, sc, ref), Moving(p, dsk, sc), p.pc = "end"
    PROVE  /\ p.linked => Whole(dsk[DiskName(p)])
           /\ sc.faults = 0 /\ p.t.total = 0 => ~Good(Head(p.peers))
<1> SUFFICES ASSUME p.linked
             PROVE  Whole(dsk[DiskName(p)]) /\ (p.t.total = 0 => ~Good(Head(p.peers)))
  BY DEF Moving
<1>1. p.t.head = p.t.tail /\ p.src.data = <<>> /\ p.src.end = "eof"
  BY DEF DownloadInv, StageInv
<1>2. Len(Held(p.t)) = 0 /\ Held(p.t) \in Seq(Byte)
  <2>1. p.t.head \in Nat
    BY DEF Moving, RingInv, Buffer
  <2> QED BY <1>1, <2>1, HeldIs DEF Moving
<1>3. Held(p.t) \o p.src.data = <<>>
  BY <1>1, <1>2
<1>4. dsk[DiskName(p)] = Sends[Head(p.peers)].src.data
  <2>1. dsk[DiskName(p)] \o <<>> = dsk[DiskName(p)]
    BY ConcatEmptySeq DEF Moving, OnDisk
  <2>2. dsk[DiskName(p)] \o (Held(p.t) \o p.src.data) = Sends[Head(p.peers)].src.data
    BY DEF Moving, OnDisk
  <2> QED BY <1>3, <2>1, <2>2, Zenon
<1>5. Head(p.peers) \in DOMAIN Sends /\ Sends[Head(p.peers)].src \in Source /\ Sends[Head(p.peers)].src.end = "eof"
  BY <1>1, SentIsSource DEF Moving
<1>6. Whole(dsk[DiskName(p)])
  <2>1. Sends[Head(p.peers)].src = [data |-> dsk[DiskName(p)], end |-> "eof"]
    BY <1>4, <1>5 DEF Source
  <2> QED BY <1>5, <2>1 DEF Whole
<1>7. p.t.total = 0 => ~Good(Head(p.peers))
  <2>1. dsk[DiskName(p)] \in Seq(Byte) /\ Len(dsk[DiskName(p)]) = p.t.total
    BY DEF Moving, OnDisk
  <2>2. p.t.total = 0 => dsk[DiskName(p)] = <<>>
    BY <2>1
  <2> QED BY <1>4, <2>2 DEF Good
<1> QED BY <1>6, <1>7

\* The end of a file.
LEMMA FinishKeeps ==
    ASSUME NEW sc, NEW ref, NEW dsk, NEW p, DownloadInv(p, dsk, sc, ref), Moving(p, dsk, sc), p.pc = "end",
           NEW pc \in {"have", "done"}, pc = "have" => Announces(p),
           NEW q \in Download, Same(p, q), q.pc = pc
    PROVE  DownloadInv(q, dsk, sc, ref) /\ Kept(p, q)
<1>0. p.linked => Whole(dsk[DiskName(p)])
  BY EndIsWhole
<1>2. DiskName(q) = DiskName(p)
  BY SameKeeps
<1>3. NamedInv(q, dsk, sc, ref)
  BY <1>0, <1>2 DEF DownloadInv, NamedInv, Same, Moving
<1>4. StageInv(q, sc)
  BY DEF StageInv, Same, Moving, Announces
<1> QED BY <1>3, <1>4, SameKeeps DEF Same, Kept

\* While a process waits for the tracker.
LEMMA AnswerKeeps ==
    ASSUME NEW sc, NEW ref, NEW dsk, NEW p, DownloadInv(p, dsk, sc, ref), p.pc = "have",
           NEW pc \in {"have", "done", "died"}, NEW q \in Download, Same(p, q), q.pc = pc
    PROVE  DownloadInv(q, dsk, sc, ref) /\ Kept(p, q)
<1>1. DiskName(q) = DiskName(p)
  BY SameKeeps
<1>2. NamedInv(p, dsk, sc, ref) /\ StageInv(p, sc)
  BY DEF DownloadInv
<1>3. NamedInv(q, dsk, sc, ref)
  BY <1>1, <1>2 DEF NamedInv, Same
<1>4. StageInv(q, sc)
  BY <1>2 DEF StageInv, Same
<1> QED BY <1>3, <1>4, SameKeeps DEF Same, Kept

\* The next peer.
LEMMA PopKeeps ==
    ASSUME NEW sc, NEW ref, NEW d1, NEW d2, NEW p, DownloadInv(p, d1, sc, ref), p.pc = "again",
           NEW q, q = task_pop_peer(p)
    PROVE  DownloadInv(q, d2, sc, ref) /\ q.file = p.file /\ ~q.named /\ ~q.linked
<1>0. p \in Download /\ p.peers # <<>> /\ (sc.faults = 0 => ~Good(Head(p.peers)))
  BY DEF DownloadInv, StageInv
<1>1. Tail(p.peers) \in Seq(DOMAIN Sends)
  BY <1>0, FrontPeer
<1>2. /\ q \in Download /\ q.pc = "connect" /\ q.file = p.file /\ q.list = p.list
      /\ q.peers = Tail(p.peers) /\ q.t = task_new /\ q.i = 0 /\ ~q.named /\ ~q.linked
  <2>1. task_new \in Buffer /\ NoSource \in Source
    BY NewBuffer DEF Counted, RingInv, NoSource, Source
  <2> QED BY <1>0, <1>1, <2>1 DEF Download, task_pop_peer
<1>3. PICK k \in 0..Len(p.list) :
        /\ p.peers = SubSeq(p.list, k + 1, Len(p.list))
        /\ sc.faults = 0 => \A j \in 1..k : ~Good(p.list[j])
  BY DEF DownloadInv, PeersInv
<1>4. p.list \in Seq(DOMAIN Sends) /\ Len(p.list) \in Nat
  BY <1>0 DEF Download
<1>5. /\ k + 1 \in 0..Len(p.list) /\ k \in Nat
      /\ Tail(p.peers) = SubSeq(p.list, (k + 1) + 1, Len(p.list))
      /\ Head(p.peers) = p.list[k + 1]
  BY <1>0, <1>3, <1>4
<1>6. PeersInv(q, sc)
  <2>1. sc.faults = 0 => \A j \in 1..(k + 1) : ~Good(p.list[j])
    BY <1>0, <1>3, <1>5
  <2> QED BY <1>2, <1>5, <2>1 DEF PeersInv
<1>7. Counted(q.t) /\ q.i < MaxNames
  BY <1>2, NewBuffer, Limits
<1>8. NamedInv(q, d2, sc, ref) /\ StageInv(q, sc)
  BY <1>2 DEF NamedInv, StageInv
<1> QED BY <1>2, <1>6, <1>7, <1>8 DEF DownloadInv

-----------------------------------------------------------------------------
(* A step of one process, among the others.                                 *)

LEMMA ScenarioTypes ==
    ASSUME NEW sc \in Scenarios
    PROVE  /\ sc.wanted \in Seq(File) /\ sc.faults \in Nat /\ DiskType(sc.disk)
           /\ sc.request.name \in File \X Nat
  BY PeerAssumption DEF DiskType

\* A process downloads a file of the command line.
LEMMA ChildIsWanted ==
    ASSUME PeerInv
    PROVE  DOMAIN child \subseteq DOMAIN Wanted
<1>1. Wanted \in Seq(File) /\ Len(Wanted) \in Nat
  BY ScenarioTypes DEF PeerInv, Wanted
<1>2. main.next \in 1..Len(Wanted)+1 /\ DOMAIN child \subseteq 1..(main.next - 1)
  BY DEF PeerInv, MainInv, ChildrenInv
<1> QED BY <1>1, <1>2

SameAt(n, d1, d2) == (n \in DOMAIN d2 <=> n \in DOMAIN d1) /\ (n \in DOMAIN d1 => d2[n] = d1[n])

\* The file of process d, on whose name open() had failed, is unlinked by another one.
Lost(d) ==
    /\ child[d].linked /\ DiskName(child[d]) \in refused /\ DiskName(child[d]) \notin DOMAIN disk'
    /\ child'[d] = [child[d] EXCEPT !.linked = FALSE]

\* No other process than c has a file of that name afterwards.
OwnLink(c, n) == \A d \in DOMAIN child : d # c /\ child'[d].linked => DiskName(child[d]) # n

\* The names of q, which process c becomes, and what is on disk.
NameStep(c, q) ==
    /\ DiskType(disk')
    /\ \A n : n # DiskName(child[c]) => SameAt(n, disk, disk')
    /\ disk' # disk =>
          /\ OwnLink(c, DiskName(child[c]))
          /\ DiskName(child[c]) \in DOMAIN scenario.disk => DiskName(child[c]) \in refused
    /\ q.linked => OwnLink(c, DiskName(q))
    /\ DiskName(child[c]) \in DOMAIN disk' /\ (child[c].linked \/ disk' # disk) =>
          q.linked /\ DiskName(q) = DiskName(child[c])

\* What may be added to "refused".
RefusedStep(c) ==
    refused \subseteq refused' /\ \A n \in refused' \ refused : n[1] = child[c].file /\ scenario.faults # 0

\* The step of process c that makes it q.
Steps(c, q) ==
    /\ DOMAIN child' = DOMAIN child /\ child'[c] = q
    /\ \A d \in DOMAIN child : d # c => child'[d] = child[d] \/ Lost(d)
    /\ UNCHANGED <<scenario, main, up, have>>
    /\ faults' \in 0..scenario.faults /\ TrackerInv'
    /\ child[c].pc \notin {"done", "died"}
    /\ DownloadInv(q, disk', scenario, refused') /\ q.file = child[c].file
    /\ NameStep(c, q) /\ RefusedStep(c)
    /\ child[c].pc = "have" =>
          q.linked = child[c].linked /\ DiskName(q) = DiskName(child[c]) /\ q.pc \in {"have", "done", "died"}
    /\ \A f \in Announced' : f \in Announced \/ (DiskName(q) = <<f, 0>> /\ q.pc = "have")

\* What such a step leaves of the other processes.
LEMMA OthersStay ==
    ASSUME PeerInv, NEW c \in DOMAIN child, NEW q, Steps(c, q), NEW d \in DOMAIN child, d # c
    PROVE  /\ child'[d].pc = child[d].pc /\ child'[d].file = child[d].file
           /\ DiskName(child'[d]) = DiskName(child[d]) /\ (child'[d].linked => child[d].linked)
           /\ child[d].linked /\ ~child'[d].linked =>
                 DiskName(child[d]) \in refused /\ DiskName(child[d]) \notin DOMAIN disk'
<1>1. CASE child'[d] = child[d]
  BY <1>1
<1>2. CASE Lost(d)
  <2>1. child[d] \in Download
    BY DEF PeerInv, ChildrenInv, DownloadInv
  <2> QED BY <1>2, <2>1 DEF Lost, Download, DiskName
<1> QED BY <1>1, <1>2 DEF Steps

LEMMA StepsChildren ==
    ASSUME PeerInv, NEW c \in DOMAIN child, NEW q, Steps(c, q)
    PROVE  ChildrenInv'
<1>0. /\ DOMAIN child' = DOMAIN child /\ child'[c] = q /\ scenario' = scenario /\ main' = main
      /\ refused \subseteq refused'
  BY DEF Steps, RefusedStep
<1>1. DOMAIN child' \subseteq 1..(main.next - 1)'
  BY <1>0 DEF PeerInv, ChildrenInv
<1>2. ASSUME NEW d \in DOMAIN child
      PROVE  DownloadInv(child'[d], disk', scenario, refused') /\ child'[d].file = Wanted[d]
  <2>0. DownloadInv(child[d], disk, scenario, refused) /\ child[d].file = Wanted[d]
    BY DEF PeerInv, ChildrenInv
  <2>1. CASE d = c
    BY <1>0, <2>0, <2>1 DEF Steps
  <2>2. CASE d # c /\ child'[d] = child[d]
    <3>1. child[d].linked => SameAt(DiskName(child[d]), disk, disk')
      <4>1. CASE disk' = disk
        BY <4>1 DEF SameAt
      <4>2. CASE disk' # disk
        BY <2>2, <4>2 DEF Steps, NameStep, OwnLink
      <4> QED BY <4>1, <4>2
    <3>2. DownloadInv(child[d], disk', scenario, refused')
      BY <1>0, <2>0, <3>1, DownloadFrame DEF SameAt
    <3> QED BY <2>0, <2>2, <3>2
  <2>3. CASE d # c /\ Lost(d)
    <3>1. PICK e \in {child'[d]} : e = [child[d] EXCEPT !.linked = FALSE]
      BY <2>3 DEF Lost
    <3>2. /\ child[d].linked /\ DiskName(child[d]) \in refused /\ scenario.faults # 0
          /\ child[d] \in Download
      BY <2>0, <2>3 DEF Lost, PeerInv, DiskInv, DownloadInv
    <3>3. DownloadInv(e, disk', scenario, refused) /\ ~e.linked
      BY <2>0, <3>1, <3>2, LostKeeps DEF Download
    <3>4. DownloadInv(e, disk', scenario, refused')
      BY <1>0, <3>3, DownloadFrame
    <3>5. e.file = child[d].file
      BY <3>1, <3>2 DEF Download
    <3> QED BY <2>0, <3>4, <3>5
  <2> QED BY <2>1, <2>2, <2>3 DEF Steps
<1>3. ASSUME NEW d \in DOMAIN child, NEW e \in DOMAIN child, d # e, child'[d].linked, child'[e].linked
      PROVE  DiskName(child'[d]) # DiskName(child'[e])
  <2>1. CASE d = c
    BY <1>0, <1>3, <2>1, OthersStay DEF Steps, NameStep, OwnLink
  <2>2. CASE e = c
    BY <1>0, <1>3, <2>2, OthersStay DEF Steps, NameStep, OwnLink
  <2>3. CASE d # c /\ e # c
    <3>1. /\ child[d].linked /\ child[e].linked
          /\ DiskName(child'[d]) = DiskName(child[d]) /\ DiskName(child'[e]) = DiskName(child[e])
      BY <1>3, <2>3, OthersStay
    <3> QED BY <1>3, <3>1 DEF PeerInv, ChildrenInv
  <2> QED BY <2>1, <2>2, <2>3
<1> QED BY <1>0, <1>1, <1>2, <1>3 DEF ChildrenInv, Wanted, DiskName

LEMMA StepsDisk ==
    ASSUME PeerInv, NEW c \in DOMAIN child, NEW q, Steps(c, q)
    PROVE  DiskInv'
<1>0. DOMAIN child' = DOMAIN child /\ child'[c] = q /\ scenario' = scenario /\ RefusedStep(c)
  BY DEF Steps
<1>1. DiskType(disk')
  BY DEF Steps, NameStep
<1> DEFINE name == DiskName(child[c])
           Before(n) == n \in DOMAIN scenario.disk /\ n \in DOMAIN disk' /\ disk'[n] = scenario.disk[n]
<1>2. ASSUME NEW n, AsBefore(n) PROVE Before(n) \/ (n = name /\ disk' # disk)
  <2>1. CASE n = name
    BY <1>2, <2>1 DEF AsBefore
  <2>2. CASE n # name
    BY <1>2, <2>2 DEF AsBefore, Steps, NameStep, SameAt
  <2> QED BY <2>1, <2>2
<1>3. ASSUME NEW n \in DOMAIN disk'
      PROVE  Before(n) \/ \E d \in DOMAIN child : child'[d].linked /\ DiskName(child'[d]) = n
  <2>1. CASE n = name /\ disk' # disk
    <3>1. q.linked /\ DiskName(q) = n
      BY <1>3, <2>1 DEF Steps, NameStep
    <3> QED BY <1>0, <3>1
  <2>2. CASE ~(n = name /\ disk' # disk)
    <3>1. n \in DOMAIN disk
      BY <1>3, <2>2 DEF Steps, NameStep, SameAt
    <3>2. CASE AsBefore(n)
      BY <1>2, <2>2, <3>2
    <3>3. ASSUME NEW d \in DOMAIN child, child[d].linked, DiskName(child[d]) = n
          PROVE  child'[d].linked /\ DiskName(child'[d]) = n
      <4>1. CASE d # c
        BY <1>3, <3>3, <4>1, OthersStay DEF Steps, Lost
      <4>2. CASE d = c
        BY <1>0, <1>3, <3>3, <4>2 DEF Steps, NameStep
      <4> QED BY <4>1, <4>2
    <3> QED BY <3>1, <3>2, <3>3 DEF PeerInv, DiskInv, Made
  <2> QED BY <2>1, <2>2
<1>4. ASSUME NEW n \in DOMAIN scenario.disk PROVE Before(n) \/ n \in refused'
  <2>1. AsBefore(n) \/ n \in refused
    BY DEF PeerInv, DiskInv
  <2>2. n = name /\ disk' # disk => n \in refused
    BY DEF Steps, NameStep
  <2> QED BY <1>0, <1>2, <2>1, <2>2 DEF RefusedStep
<1>5. scenario.faults = 0 => refused' = {}
  BY <1>0 DEF RefusedStep, PeerInv, DiskInv
<1>6. ASSUME NEW n \in refused' PROVE \E k \in DOMAIN Wanted : Wanted[k] = n[1]
  <2>1. CASE n \in refused
    BY <2>1 DEF PeerInv, DiskInv
  <2>2. CASE n \notin refused
    <3>1. Wanted[c] = n[1]
      BY <1>0, <2>2 DEF RefusedStep, PeerInv, ChildrenInv
    <3> QED BY <3>1, ChildIsWanted
  <2> QED BY <2>1, <2>2
<1>7. \A n \in DOMAIN disk' : n \in Made' \/ Before(n)
  BY <1>0, <1>3 DEF Made, DiskName
<1> QED BY <1>0, <1>1, <1>4, <1>5, <1>6, <1>7 DEF DiskInv, DiskType, AsBefore, Wanted

LEMMA StepsHave ==
    ASSUME PeerInv, NEW c \in DOMAIN child, NEW q, Steps(c, q)
    PROVE  HaveInv'
<1>0. /\ DOMAIN child' = DOMAIN child /\ child'[c] = q /\ scenario' = scenario
      /\ refused \subseteq refused'
  BY DEF Steps, RefusedStep
<1> DEFINE Has(d, f) == child'[d].linked /\ DiskName(child'[d]) = <<f, 0>> /\ child'[d].pc \in {"have", "done", "died"}
<1>1. ASSUME NEW f \in Announced'
      PROVE  <<f, 0>> \in DOMAIN scenario.disk \cup refused' \/ \E d \in DOMAIN child : Has(d, f)
  <2>1. CASE f \in Announced
    <3>1. Owned(f)
      BY <2>1 DEF PeerInv, HaveInv
    <3>2. CASE <<f, 0>> \in DOMAIN scenario.disk \cup refused
      BY <1>0, <3>2
    <3>3. ASSUME NEW d \in DOMAIN child, child[d].linked, DiskName(child[d]) = <<f, 0>>,
                 child[d].pc \in {"have", "done", "died"}
          PROVE  Has(d, f) \/ <<f, 0>> \in refused'
      <4>1. CASE d # c
        BY <1>0, <3>3, <4>1, OthersStay
      <4>2. CASE d = c
        BY <1>0, <3>3, <4>2 DEF Steps
      <4> QED BY <4>1, <4>2
    <3> QED BY <3>1, <3>2, <3>3 DEF Owned
  <2>2. CASE DiskName(q) = <<f, 0>> /\ q.pc = "have"
    <3>1. q.linked \/ DiskName(q) \in refused'
      BY <2>2 DEF Steps, DownloadInv, NamedInv, StageInv
    <3> QED BY <1>0, <2>2, <3>1
  <2> QED BY <2>1, <2>2 DEF Steps
<1> QED BY <1>0, <1>1 DEF HaveInv, Owned, DiskName

LEMMA StepsMain ==
    ASSUME PeerInv, NEW c \in DOMAIN child, NEW q, Steps(c, q)
    PROVE  MainInv' /\ UpInv'
<1>0. /\ DOMAIN child' = DOMAIN child /\ child'[c] = q
      /\ \A d \in DOMAIN child : d # c => child'[d].pc = child[d].pc
      /\ scenario' = scenario /\ main' = main /\ up' = up
  BY OthersStay DEF Steps
<1>1. c \notin Exited /\ IsFiniteSet(DOMAIN child \ Exited)
  <2>1. main.next - 1 \in Int /\ DOMAIN child \subseteq 1..(main.next - 1)
    BY ScenarioTypes DEF PeerInv, ChildrenInv, MainInv, Wanted
  <2>3. IsFiniteSet(1..(main.next - 1))
    BY <2>1, FS_Interval
  <2>2. c \notin Exited
    BY DEF Steps, Exited
  <2> QED BY <2>1, <2>2, <2>3, FS_Subset
<1>2. Exited \subseteq Exited'
  BY <1>0, <1>1 DEF Exited
<1>3. Cardinality(DOMAIN child \ Exited') <= Cardinality(DOMAIN child \ Exited)
  BY <1>1, <1>2, FS_Subset
<1>4. Cardinality(DOMAIN child \ Exited') \in Nat /\ Cardinality(DOMAIN child \ Exited) \in Nat
  BY <1>1, <1>2, FS_Subset, FS_CardinalityType
<1>5. main.count \in Nat /\ Cardinality(DOMAIN child \ Exited) <= main.count
  BY DEF PeerInv, MainInv
<1>6. Cardinality(DOMAIN child \ Exited') <= main.count
  BY <1>3, <1>4, <1>5
<1>7. MainInv'
  BY <1>0, <1>6 DEF PeerInv, MainInv, Wanted
<1>8. Cardinality(DOMAIN child \ Exited) # 0
  BY <1>1, FS_EmptySet
<1>9. up.pc = "none"
  BY <1>4, <1>5, <1>8 DEF PeerInv, MainInv, UpInv
<1>10. UpInv'
  BY <1>0, <1>9 DEF PeerInv, UpInv
<1> QED BY <1>7, <1>10

LEMMA StepsKeep ==
    ASSUME PeerInv, NEW c \in DOMAIN child, NEW q, Steps(c, q)
    PROVE  PeerInv'
<1>1. scenario' \in Scenarios /\ faults' \in 0..scenario'.faults /\ TrackerInv'
  BY DEF PeerInv, Steps
<1> QED BY <1>1, StepsChildren, StepsDisk, StepsHave, StepsMain DEF PeerInv

LEMMA ChildrenBound ==
    ASSUME PeerInv
    PROVE  main.next - 1 \in Int /\ DOMAIN child \subseteq 1..(main.next - 1)
  BY ScenarioTypes DEF PeerInv, ChildrenInv, MainInv, Wanted

\* Announced depends on the requests and the tracker only.
LEMMA SameAnnounced == ASSUME have' = have, requests' = requests PROVE Announced' = Announced
  BY DEF Announced

\* A request at the end of the queue.
LEMMA OneMore ==
    ASSUME TrackerInv, NEW r \in Request, Asked(r), have' = have
    PROVE  /\ requests' \in Seq(Request)
           /\ \A f \in Announced' : f \in Announced \/ (r.op = "HAVE" /\ r.file = f)
<1>1. requests' = Append(requests, r) /\ requests \in Seq(Request) /\ Len(requests) \in Nat
  BY DEF Asked, TrackerInv
<1>2. requests' \in Seq(Request) /\ Len(requests') = Len(requests) + 1
  BY <1>1
<1>3. \A k \in DOMAIN requests' : (k \in DOMAIN requests /\ requests'[k] = requests[k]) \/ requests'[k] = r
  BY <1>1
<1>4. ASSUME NEW f \in Announced' PROVE f \in Announced \/ (r.op = "HAVE" /\ r.file = f)
  <2>1. f \in have \/ \E k \in DOMAIN requests' : requests'[k].op = "HAVE" /\ f = requests'[k].file
    BY DEF Announced
  <2>2. CASE f \in have
    BY <2>2 DEF Announced
  <2>3. ASSUME NEW k \in DOMAIN requests', requests'[k].op = "HAVE", f = requests'[k].file
        PROVE  f \in Announced \/ (r.op = "HAVE" /\ r.file = f)
    <3>1. CASE k \in DOMAIN requests /\ requests'[k] = requests[k]
      BY <2>3, <3>1 DEF Announced
    <3>2. CASE requests'[k] = r
      BY <2>3, <3>2
    <3> QED BY <1>3, <3>1, <3>2
  <2> QED BY <2>1, <2>2, <2>3
<1> QED BY <1>2, <1>4

\* A step that changes neither the disk nor the name.
LEMMA KeptSteps ==
    ASSUME PeerInv, NEW c \in DOMAIN child, NEW q,
           child' = [child EXCEPT ![c] = q], UNCHANGED <<scenario, main, up, disk, have, refused>>,
           faults' \in 0..scenario.faults, TrackerInv',
           child[c].pc \notin {"done", "died"}, DownloadInv(q, disk, scenario, refused), Kept(child[c], q),
           child[c].pc = "have" => q.pc \in {"have", "done", "died"},
           \A f \in Announced' : f \in Announced \/ (DiskName(q) = <<f, 0>> /\ q.pc = "have")
    PROVE  PeerInv'
<1>1. DiskName(q) = DiskName(child[c]) /\ q.file = child[c].file /\ q.linked = child[c].linked
  BY DEF Kept, DiskName
<1>2. NameStep(c, q)
  <2>1. DiskType(disk') /\ disk' = disk
    BY DEF PeerInv, DiskInv
  <2>2. child[c].linked => OwnLink(c, DiskName(child[c]))
    BY DEF PeerInv, ChildrenInv, OwnLink
  <2> QED BY <1>1, <2>1, <2>2 DEF NameStep, SameAt
<1>3. RefusedStep(c)
  BY DEF RefusedStep
<1>4. Steps(c, q)
  BY <1>1, <1>2, <1>3 DEF Steps
<1> QED BY <1>4, StepsKeep

LEMMA ConnectStep == ASSUME PeerInv, NEW c \in DOMAIN child, Connect(c) PROVE PeerInv'
<1> DEFINE p == child[c]
<1>1. PICK q : /\ child' = [child EXCEPT ![c] = q]
               /\ q = IF p.peers = <<>> THEN [p EXCEPT !.pc = "done"]
                      ELSE IF Head(p.peers) = Self \/ ~open_socket(Head(p.peers)) THEN Again(p)
                      ELSE [p EXCEPT !.pc = "open", !.src = Sends[Head(p.peers)].src]
  BY DEF Connect, Becomes
<1>2. p.pc = "connect" /\ UNCHANGED <<scenario, main, up, disk, requests, reply, tracker, have, faults, refused>>
  BY DEF Connect
<1>3. DownloadInv(p, disk, scenario, refused)
  BY DEF PeerInv, ChildrenInv
<1>4. DownloadInv(q, disk, scenario, refused) /\ Kept(p, q)
  BY <1>1, <1>2, <1>3, ConnectKeeps
<1>5. TrackerInv' /\ faults' \in 0..scenario.faults
  BY <1>2 DEF PeerInv, TrackerInv
<1> QED BY <1>1, <1>2, <1>4, <1>5, SameAnnounced, KeptSteps

LEMMA ReadStep == ASSUME PeerInv, NEW c \in DOMAIN child, ReadPeer(c) PROVE PeerInv'
<1> DEFINE p == child[c]
<1>1. PICK r \in read_to_taskbuf(p.t, p.src) : child' = [child EXCEPT ![c] = AfterRead(p, r)]
  BY DEF ReadPeer, Becomes, AfterRead
<1>2. p.pc = "read" /\ UNCHANGED <<scenario, main, up, disk, requests, reply, tracker, have, faults, refused>>
  BY DEF ReadPeer
<1>3. DownloadInv(p, disk, scenario, refused) /\ Moving(p, disk, scenario)
  BY <1>2, IsMoving DEF PeerInv, ChildrenInv, DiskInv
<1>4. PICK q \in {AfterRead(p, r)} : DownloadInv(q, disk, scenario, refused) /\ Kept(p, q)
  BY <1>2, <1>3, ReadKeeps
<1>5. TrackerInv' /\ faults' \in 0..scenario.faults
  BY <1>2 DEF PeerInv, TrackerInv
<1> QED BY <1>1, <1>2, <1>4, <1>5, SameAnnounced, KeptSteps

LEMMA FinishStep == ASSUME PeerInv, NEW c \in DOMAIN child, Finish(c) PROVE PeerInv'
<1> DEFINE p == child[c]
<1>2. p.pc = "end" /\ UNCHANGED <<scenario, main, up, disk, reply, tracker, have, faults, refused>>
  BY DEF Finish
<1>3. DownloadInv(p, disk, scenario, refused) /\ Moving(p, disk, scenario) /\ TrackerInv
  BY <1>2, IsMoving DEF PeerInv, ChildrenInv, DiskInv
<1>4. faults' \in 0..scenario.faults
  BY <1>2 DEF PeerInv
<1>5. CASE /\ Announces(p) /\ Asked([op |-> "HAVE", file |-> p.file, from |-> c])
           /\ Becomes(c, [Emptied(p) EXCEPT !.pc = "have"])
  <2>0. PICK q \in {[Emptied(p) EXCEPT !.pc = "have"]} : q \in Download /\ Same(p, q) /\ q.pc = "have"
    <3>1. p \in Download /\ <<>> \in Seq(Line)
      BY <1>3 DEF Moving
    <3> QED BY <3>1 DEF Download, Same, Emptied
  <2>1. DownloadInv(q, disk, scenario, refused) /\ Kept(p, q)
    BY <1>2, <1>3, <1>5, <2>0, FinishKeeps
  <2>2. DiskName(q) = <<p.file, 0>> /\ p.file \in File /\ c \in Nat
    <3>1. c \in DOMAIN Wanted
      BY ChildIsWanted
    <3>2. c \in Nat
      BY <3>1, ScenarioTypes DEF PeerInv, Wanted
    <3> QED BY <1>3, <1>5, <2>1, <3>2 DEF Moving, Announces, Kept, DiskName, Download
  <2>3. PICK r \in Request : r = [op |-> "HAVE", file |-> p.file, from |-> c] /\ r.file = p.file
    <3>1. [op |-> "HAVE", file |-> p.file, from |-> c] \in Request
      BY <2>2 DEF Request
    <3> QED BY <3>1
  <2>4. requests' \in Seq(Request) /\ \A f \in Announced' : f \in Announced \/ f = p.file
    BY <1>2, <1>3, <1>5, <2>3, OneMore
  <2>5. TrackerInv'
    BY <1>2, <1>3, <2>4 DEF TrackerInv
  <2> QED BY <1>2, <1>4, <1>5, <2>0, <2>1, <2>2, <2>4, <2>5, KeptSteps DEF Becomes
<1>6. CASE Becomes(c, [p EXCEPT !.pc = "done"]) /\ UNCHANGED requests
  <2>0. PICK q \in {[p EXCEPT !.pc = "done"]} : q \in Download /\ Same(p, q) /\ q.pc = "done"
    BY <1>3 DEF Moving, Download, Same
  <2>1. DownloadInv(q, disk, scenario, refused) /\ Kept(p, q)
    BY <1>2, <1>3, <2>0, FinishKeeps
  <2>2. TrackerInv'
    BY <1>2, <1>3, <1>6 DEF TrackerInv
  <2> QED BY <1>2, <1>4, <1>6, <2>1, <2>2, SameAnnounced, KeptSteps DEF Becomes
<1>7. CASE p.t.total = 0 /\ Becomes(c, Again(p)) /\ UNCHANGED requests
  <2>1. PICK q \in {Again(p)} : DownloadInv(q, disk, scenario, refused) /\ Kept(p, q)
    <3>1. scenario.faults = 0 => ~Good(Head(p.peers))
      BY <1>2, <1>3, <1>7, EndIsWhole
    <3> QED BY <1>3, <3>1, PlaceKeeps DEF Again
  <2>2. TrackerInv'
    BY <1>2, <1>3, <1>7 DEF TrackerInv
  <2> QED BY <1>2, <1>4, <1>7, <2>1, <2>2, SameAnnounced, KeptSteps DEF Becomes
<1> QED BY <1>5, <1>6, <1>7 DEF Finish

\* read_tracker_response(): lines go from the connection to the process that reads.
LEMMA ResponseRead ==
    ASSUME reply \in Seq(Line), NEW p, p.lines \in Seq(Line), NEW r \in read_tracker_response(p)
    PROVE  /\ r.rest \in Seq(Line)
           /\ \/ r.p = [p EXCEPT !.pc = "died"]
              \/ \E l \in Seq(Line), x \in Nat : r.p = [p EXCEPT !.pos = x, !.lines = l]
<1>1. CASE Full(p) \/ (reply = <<>> /\ tracker = "closed")
  <2>1. r = [p |-> [p EXCEPT !.pc = "died"], rest |-> reply]
    BY <1>1 DEF read_tracker_response
  <2> QED BY <2>1
<1>2. CASE ~(Full(p) \/ (reply = <<>> /\ tracker = "closed"))
  <2>1. PICK n \in 1..Len(reply) :
          r = [p |-> [p EXCEPT !.pos = Passed(p.lines), !.lines = p.lines \o SubSeq(reply, 1, n)],
               rest |-> SubSeq(reply, n + 1, Len(reply))]
    BY <1>2 DEF read_tracker_response
  <2>6. PICK x \in Nat : x = Passed(p.lines)
    <3>1. PICK m \in Nat : m = Len(p.lines)
      OBVIOUS
    <3>2. m \in MessageStarts(p.lines) => m - 1 \in Nat
      BY <3>1 DEF MessageStarts
    <3> QED BY <3>1, <3>2 DEF Passed
  <2>2. \A i \in 1..Len(reply) : reply[i] \in Line
    OBVIOUS
  <2>3. SubSeq(reply, 1, n) \in Seq(Line) /\ SubSeq(reply, n + 1, Len(reply)) \in Seq(Line)
    BY <2>2
  <2>4. PICK l \in Seq(Line) : l = p.lines \o SubSeq(reply, 1, n)
    BY <2>3, ConcatProperties
  <2>5. r.p = [p EXCEPT !.pos = x, !.lines = l] /\ r.rest = SubSeq(reply, n + 1, Len(reply))
    BY <2>1, <2>4, <2>6
  <2> QED BY <2>3, <2>5
<1> QED BY <1>1, <1>2

LEMMA AnswerStep == ASSUME PeerInv, NEW c \in DOMAIN child, ReadAnswer(c) PROVE PeerInv'
<1> DEFINE p == child[c]
<1>1. p.pc = "have" /\ UNCHANGED <<scenario, main, up, disk, requests, tracker, have, faults, refused>>
  BY DEF ReadAnswer
<1>2. DownloadInv(p, disk, scenario, refused) /\ TrackerInv /\ p \in Download /\ p.lines \in Seq(Line)
  BY DEF PeerInv, ChildrenInv, DownloadInv, Download
<1>3. faults' \in 0..scenario.faults
  BY <1>1 DEF PeerInv
<1>4. ASSUME NEW q, child' = [child EXCEPT ![c] = q], q \in Download, Same(p, q),
             q.pc \in {"have", "done", "died"}, reply' \in Seq(Line)
      PROVE  PeerInv'
  <2>1. DownloadInv(q, disk, scenario, refused) /\ Kept(p, q)
    BY <1>1, <1>2, <1>4, AnswerKeeps
  <2>2. TrackerInv'
    BY <1>1, <1>2, <1>4 DEF TrackerInv
  <2> QED BY <1>1, <1>3, <1>4, <2>1, <2>2, SameAnnounced, KeptSteps
<1>5. CASE Becomes(c, [p EXCEPT !.pc = "done"]) /\ UNCHANGED reply
  <2>1. PICK q \in {[p EXCEPT !.pc = "done"]} : q \in Download /\ Same(p, q) /\ q.pc = "done"
    BY <1>2 DEF Download, Same
  <2>2. reply' \in Seq(Line)
    BY <1>2, <1>5 DEF TrackerInv
  <2> QED BY <1>4, <1>5, <2>1, <2>2 DEF Becomes
<1>6. ASSUME NEW r \in read_tracker_response(p), Becomes(c, r.p), reply' = r.rest
      PROVE  PeerInv'
  <2>1. /\ r.rest \in Seq(Line)
        /\ \/ r.p = [p EXCEPT !.pc = "died"]
           \/ \E l \in Seq(Line), x \in Nat : r.p = [p EXCEPT !.pos = x, !.lines = l]
    BY <1>2, ResponseRead DEF TrackerInv
  <2>2. r.p \in Download /\ Same(p, r.p) /\ r.p.pc \in {"have", "died"}
    <3>1. CASE r.p = [p EXCEPT !.pc = "died"]
      BY <1>1, <1>2, <3>1 DEF Download, Same
    <3>2. ASSUME NEW l \in Seq(Line), NEW x \in Nat, r.p = [p EXCEPT !.pos = x, !.lines = l]
          PROVE  r.p \in Download /\ Same(p, r.p) /\ r.p.pc \in {"have", "died"}
      BY <1>1, <1>2, <3>2 DEF Download, Same
    <3> QED BY <2>1, <3>1, <3>2
  <2> QED BY <1>4, <1>6, <2>1, <2>2 DEF Becomes
<1> QED BY <1>5, <1>6 DEF ReadAnswer

\* TryAgain(): the name goes, and with it the file of another process, if it has one.
LEMMA AgainStep == ASSUME PeerInv, NEW c \in DOMAIN child, TryAgain(c) PROVE PeerInv'
<1> DEFINE p == child[c]
           name == DiskName(child[c])
<1>1. p.pc = "again" /\ UNCHANGED <<scenario, main, up, requests, reply, tracker, have, faults, refused>>
  BY DEF TryAgain
<1>2. DownloadInv(p, disk, scenario, refused) /\ DiskType(disk)
  BY DEF PeerInv, ChildrenInv, DiskInv
<1>3. PICK q \in {task_pop_peer(p)} :
        DownloadInv(q, disk', scenario, refused) /\ q.file = p.file /\ ~q.named /\ ~q.linked
  BY <1>1, <1>2, PopKeeps
<1>4. NamedInv(p, disk, scenario, refused)
  BY <1>2 DEF DownloadInv
<1>5. CASE ~p.named /\ Becomes(c, task_pop_peer(p)) /\ UNCHANGED disk
  <2>1. ~p.linked
    BY <1>4, <1>5 DEF NamedInv
  <2>2. NameStep(c, q)
    BY <1>2, <1>3, <1>5, <2>1 DEF NameStep, SameAt
  <2>3. DOMAIN child' = DOMAIN child /\ child'[c] = q /\ \A d \in DOMAIN child : d # c => child'[d] = child[d]
    BY <1>3, <1>5 DEF Becomes
  <2>4. TrackerInv' /\ faults' \in 0..scenario.faults /\ RefusedStep(c)
    BY <1>1 DEF PeerInv, TrackerInv, RefusedStep
  <2>5. Steps(c, q)
    BY <1>1, <1>3, <2>2, <2>3, <2>4, SameAnnounced DEF Steps
  <2> QED BY <2>5, StepsKeep
<1>6. CASE /\ p.named
           /\ disk' = [n \in DOMAIN disk \ {name} |-> disk[n]]
           /\ child' = [d \in DOMAIN child |->
                           IF d = c THEN task_pop_peer(child[c])
                           ELSE [child[d] EXCEPT !.linked = @ /\ DiskName(child[d]) # name]]
  <2>1. DOMAIN child' = DOMAIN child /\ child'[c] = q /\ name \notin DOMAIN disk'
    BY <1>3, <1>6
  <2>2. ASSUME NEW d \in DOMAIN child, d # c
        PROVE  /\ child'[d] = child[d] \/ Lost(d)
               /\ child'[d].linked => DiskName(child[d]) # name
    <3>1. child'[d] = [child[d] EXCEPT !.linked = child[d].linked /\ DiskName(child[d]) # name]
      BY <1>6, <2>2
    <3>2. child[d] \in Download /\ child[d].linked \in BOOLEAN
      BY DEF PeerInv, ChildrenInv, DownloadInv, Download
    <3>3. CASE child[d].linked /\ DiskName(child[d]) = name
      <4>1. p.linked => FALSE
        BY <2>2, <3>3 DEF PeerInv, ChildrenInv
      <4>2. name \in refused
        BY <1>4, <1>6, <4>1 DEF NamedInv
      <4>3. child'[d] = [child[d] EXCEPT !.linked = FALSE]
        BY <3>1, <3>3
      <4>4. ~child'[d].linked
        BY <3>2, <4>3 DEF Download
      <4> QED BY <2>1, <3>3, <4>2, <4>3, <4>4 DEF Lost
    <3>4. CASE ~(child[d].linked /\ DiskName(child[d]) = name)
      <4>1. (child[d].linked /\ DiskName(child[d]) # name) = child[d].linked
        BY <3>2, <3>4
      <4>2. child'[d] = [child[d] EXCEPT !.linked = child[d].linked]
        BY <3>1, <4>1
      <4>3. child'[d] = child[d]
        BY <3>2, <4>2 DEF Download
      <4> QED BY <3>4, <4>3
    <3> QED BY <3>3, <3>4
  <2>3. NameStep(c, q)
    <3>1. DiskType(disk')
      BY <1>2, <1>6 DEF DiskType
    <3>2. \A n : n # name => SameAt(n, disk, disk')
      BY <1>6 DEF SameAt
    <3>3. OwnLink(c, name)
      BY <2>2 DEF OwnLink
    <3>4. disk' # disk /\ name \in DOMAIN scenario.disk => name \in refused
      BY <1>4, <1>6 DEF NamedInv
    <3> QED BY <1>3, <2>1, <3>1, <3>2, <3>3, <3>4 DEF NameStep
  <2>4. TrackerInv' /\ faults' \in 0..scenario.faults /\ RefusedStep(c)
    BY <1>1 DEF PeerInv, TrackerInv, RefusedStep
  <2>5. Announced' = Announced
    BY <1>1, SameAnnounced
  <2>6. \A d \in DOMAIN child : d # c => child'[d] = child[d] \/ Lost(d)
    BY <2>2
  <2>7. Steps(c, q)
    BY <1>1, <1>3, <2>1, <2>3, <2>4, <2>5, <2>6 DEF Steps
  <2> QED BY <2>7, StepsKeep
<1> QED BY <1>5, <1>6 DEF TryAgain

LEMMA WriteStep == ASSUME PeerInv, NEW c \in DOMAIN child, WriteFile(c) PROVE PeerInv'
<1> DEFINE p == child[c]
<1>1. p.pc = "write" /\ UNCHANGED <<scenario, main, up, requests, reply, tracker, have, refused>>
  BY DEF WriteFile
<1>2. /\ DownloadInv(p, disk, scenario, refused) /\ DiskType(disk) /\ Moving(p, disk, scenario)
      /\ faults \in 0..scenario.faults /\ scenario.faults \in Nat
  BY <1>1, IsMoving, ScenarioTypes DEF PeerInv, ChildrenInv, DiskInv
<1>3. TrackerInv' /\ RefusedStep(c)
  BY <1>1 DEF PeerInv, TrackerInv, RefusedStep
<1>4. CASE TooLarge(p) /\ Becomes(c, Again(p)) /\ UNCHANGED <<disk, faults>>
  <2>1. PICK q \in {Again(p)} : DownloadInv(q, disk, scenario, refused) /\ Kept(p, q)
    <3>1. scenario.faults = 0 => ~Good(Head(p.peers))
      BY <1>2, <1>4, TooLargeIsBad
    <3> QED BY <1>2, <3>1, PlaceKeeps DEF Again
  <2> QED BY <1>1, <1>2, <1>3, <1>4, <2>1, SameAnnounced, KeptSteps DEF Becomes
<1>5. ASSUME ~TooLarge(p), NEW w \in write_from_taskbuf(p.t),
             disk' = (IF p.linked THEN [disk EXCEPT ![DiskName(p)] = @ \o w.bytes] ELSE disk),
             Becomes(c, [p EXCEPT !.t = w.t, !.pc = "read"]), UNCHANGED faults
      PROVE  PeerInv'
  <2>1. PICK q \in {[p EXCEPT !.t = w.t, !.pc = "read"]} :
          DownloadInv(q, disk', scenario, refused) /\ Kept(p, q) /\ q.pc # "have" /\ DiskType(disk')
    BY <1>2, <1>5, WriteKeeps
  <2>2. DiskName(q) = DiskName(p) /\ q.linked = p.linked /\ q.file = p.file
    BY <2>1 DEF Kept, DiskName
  <2>3. DOMAIN child' = DOMAIN child /\ child'[c] = q /\ \A d \in DOMAIN child : d # c => child'[d] = child[d]
    BY <1>5, <2>1 DEF Becomes
  <2>4. CASE ~p.linked
    <3>1. disk' = disk
      BY <1>5, <2>4
    <3> QED BY <1>1, <1>2, <1>3, <1>5, <2>1, <3>1, SameAnnounced, KeptSteps DEF Becomes
  <2>5. CASE p.linked
    <3>1. DiskName(p) \in DOMAIN disk /\ (DiskName(p) \in DOMAIN scenario.disk => DiskName(p) \in refused)
      BY <1>2, <2>5 DEF DownloadInv, NamedInv
    <3>2. OwnLink(c, DiskName(p))
      BY <2>3, <2>5 DEF PeerInv, ChildrenInv, OwnLink
    <3>3. \A n : n # DiskName(p) => SameAt(n, disk, disk')
      BY <1>5, <2>5, <3>1 DEF SameAt
    <3>4. NameStep(c, q)
      BY <2>1, <2>2, <2>5, <3>1, <3>2, <3>3 DEF NameStep
    <3>5. Steps(c, q)
      BY <1>1, <1>2, <1>3, <1>5, <2>1, <2>2, <2>3, <3>4, SameAnnounced DEF Steps
    <3> QED BY <3>5, StepsKeep
  <2> QED BY <2>4, <2>5
<1>6. ASSUME faults > 0, faults' = faults - 1, UNCHANGED disk, NEW pc \in {"again", "read"},
             Becomes(c, [p EXCEPT !.pc = pc])
      PROVE  PeerInv'
  <2>1. scenario.faults # 0 /\ faults' \in 0..scenario.faults
    BY <1>2, <1>6
  <2>2. PICK q \in {[p EXCEPT !.pc = pc]} : DownloadInv(q, disk, scenario, refused) /\ Kept(p, q)
    BY <1>2, <2>1, PlaceKeeps
  <2> QED BY <1>1, <1>3, <1>6, <2>1, <2>2, SameAnnounced, KeptSteps DEF Becomes
<1> QED BY <1>4, <1>5, <1>6 DEF WriteFile

LEMMA OpenStep == ASSUME PeerInv, NEW c \in DOMAIN child, OpenFile(c) PROVE PeerInv'
<1> DEFINE p == child[c]
           name == DiskName(child[c])
<1>1. p.pc = "open" /\ UNCHANGED <<scenario, main, up, requests, reply, tracker, have>>
  BY DEF OpenFile
<1>2. /\ DownloadInv(p, disk, scenario, refused) /\ DiskType(disk) /\ p \in Download /\ ~p.linked
      /\ faults \in 0..scenario.faults /\ scenario.faults \in Nat
  BY <1>1, ScenarioTypes DEF PeerInv, ChildrenInv, DiskInv, DownloadInv, StageInv, NamedInv
<1>3. TrackerInv'
  BY <1>1 DEF PeerInv, TrackerInv
<1>4. ASSUME NEW q, q = (IF NameLeft(p) THEN [p EXCEPT !.i = @ + 1] ELSE [p EXCEPT !.pc = "done"]),
             child' = [child EXCEPT ![c] = q], UNCHANGED <<disk, faults, refused>>
      PROVE  PeerInv'
  <2>1. DownloadInv(q, disk, scenario, refused) /\ q.file = p.file /\ ~q.linked
    BY <1>1, <1>2, <1>4, NextNameKeeps
  <2>2. NameStep(c, q) /\ RefusedStep(c)
    BY <1>2, <1>4, <2>1 DEF NameStep, SameAt, RefusedStep
  <2>3. Steps(c, q)
    BY <1>1, <1>2, <1>3, <1>4, <2>1, <2>2, SameAnnounced DEF Steps
  <2> QED BY <2>3, StepsKeep
<1>5. ASSUME name \notin DOMAIN disk, disk' = Extend(disk, name, <<>>), UNCHANGED <<faults, refused>>,
             NEW q, q = Opened(p), child' = [child EXCEPT ![c] = q]
      PROVE  PeerInv'
  <2>1. name \in refused \/ name \notin DOMAIN scenario.disk
    BY <1>5 DEF PeerInv, DiskInv, AsBefore
  <2>2. /\ DownloadInv(q, Extend(disk, name, <<>>), scenario, refused)
        /\ q.file = p.file /\ q.linked /\ DiskName(q) = name
    <3> HIDE DEF p
    <3>1. DownloadInv(p, disk, scenario, refused) /\ p.pc = "open" /\ name = DiskName(p)
      BY <1>1, <1>2 DEF p
    <3> QED BY <1>5, <2>1, <3>1, OpenKeeps
  <2>3. DownloadInv(q, disk', scenario, refused')
    BY <1>5, <2>2, Zenon
  <2>4. DiskType(disk')
    <3>1. name \in File \X Nat /\ <<>> \in Seq(Byte)
      BY <1>2 DEF Download, DiskName
    <3> QED BY <1>2, <1>5, <3>1 DEF DiskType, Extend
  <2>5. DOMAIN child' = DOMAIN child /\ child'[c] = q /\ \A d \in DOMAIN child : d # c => child'[d] = child[d]
    BY <1>5
  <2>6. OwnLink(c, name)
    BY <1>5, <2>5 DEF OwnLink, PeerInv, ChildrenInv, DownloadInv, NamedInv
  <2>7. \A n : n # name => SameAt(n, disk, disk')
    BY <1>5 DEF SameAt, Extend
  <2>8. NameStep(c, q)
    BY <2>1, <2>2, <2>4, <2>6, <2>7 DEF NameStep
  <2>9. Steps(c, q)
    <3>1. RefusedStep(c) /\ faults' \in 0..scenario.faults
      BY <1>2, <1>5 DEF RefusedStep
    <3> QED BY <1>1, <1>3, <2>2, <2>3, <2>5, <2>8, <3>1, SameAnnounced DEF Steps
  <2> QED BY <2>9, StepsKeep
<1>6. ASSUME faults > 0, faults' = faults - 1, UNCHANGED disk, refused' = refused \cup {name},
             NEW q, q = Again([p EXCEPT !.named = TRUE]), child' = [child EXCEPT ![c] = q]
      PROVE  PeerInv'
  <2>1. scenario.faults # 0 /\ faults' \in 0..scenario.faults
    BY <1>2, <1>6
  <2>2. DownloadInv(q, disk, scenario, refused') /\ q.file = p.file /\ ~q.linked
    BY <1>1, <1>2, <1>6, <2>1, OpenFailsKeeps
  <2>3. RefusedStep(c)
    <3>1. name[1] = p.file
      BY DEF DiskName
    <3> QED BY <1>6, <2>1, <3>1 DEF RefusedStep
  <2>4. NameStep(c, q)
    BY <1>2, <1>6, <2>2 DEF NameStep, SameAt
  <2>5. Steps(c, q)
    BY <1>1, <1>3, <1>6, <2>1, <2>2, <2>3, <2>4, SameAnnounced DEF Steps
  <2> QED BY <2>5, StepsKeep
<1> QED BY <1>4, <1>5, <1>6 DEF OpenFile, Becomes, Opened

LEMMA DownloadStep ==
    ASSUME PeerInv, NEW c \in DOMAIN child, task_download(c)
    PROVE  PeerInv'
  BY ConnectStep, OpenStep, ReadStep, WriteStep, FinishStep, AnswerStep, AgainStep DEF task_download

-----------------------------------------------------------------------------
(* The first process.                                                       *)

\* A step of main() that leaves the processes, the disk and the upload alone.
LEMMA MainFrame ==
    ASSUME PeerInv, UNCHANGED <<scenario, child, up, disk, have, refused>>, MainInv', TrackerInv',
           faults' \in 0..scenario.faults,
           DOMAIN child \subseteq 1..(main'.next - 1),
           up.pc # "none" => main'.pc = "done",
           \A f \in Announced' : f \in Announced \/ <<f, 0>> \in DOMAIN scenario.disk
    PROVE  PeerInv'
<1>1. ChildrenInv'
  BY DEF PeerInv, ChildrenInv, Wanted, DiskName
<1>2. DiskInv'
  BY DEF PeerInv, DiskInv, Made, AsBefore, Wanted, DiskName
<1>3. HaveInv'
  BY DEF PeerInv, HaveInv, Owned, DiskName
<1>4. UpInv'
  BY DEF PeerInv, UpInv
<1> QED BY <1>1, <1>2, <1>3, <1>4 DEF PeerInv

\* A step of main() with the processes and the files as they are.
LEMMA MainOnly ==
    ASSUME PeerInv, UNCHANGED <<scenario, child, up, disk, have, faults, refused>>, up.pc = "none",
           DOMAIN main' = DOMAIN main, main'.lines \in Seq(Line), main'.pos \in Nat,
           main'.todo \subseteq main.todo,
           main'.next = main.next, main'.count = main.count,
           main'.pc = "want" => main.next <= Len(Wanted),
           main'.pc \notin {"accept", "done"},
           main'.pc \in {"greeting", "address", "files", "register"} => DOMAIN child = {},
           TrackerInv',
           \A f \in Announced' : f \in Announced \/ <<f, 0>> \in DOMAIN scenario.disk
    PROVE  PeerInv'
<1>1. MainInv'
  BY DEF PeerInv, MainInv, Wanted, Exited
<1>2. faults' \in 0..scenario.faults /\ DOMAIN child \subseteq 1..(main'.next - 1)
  BY DEF PeerInv, ChildrenInv
<1> QED BY <1>1, <1>2, MainFrame

LEMMA MainReadsStep == ASSUME PeerInv, MainReads PROVE PeerInv'
<1>1. /\ main.pc \in {"greeting", "address", "register", "want"}
      /\ UNCHANGED <<scenario, child, up, disk, requests, tracker, have, faults, refused>>
  BY DEF MainReads
<1>2. PICK r \in read_tracker_response(main) : main' = r.p /\ reply' = r.rest
  BY DEF MainReads
<1>3. TrackerInv /\ MainInv /\ up.pc = "none"
  BY <1>1 DEF PeerInv, UpInv
<1>4. /\ r.rest \in Seq(Line)
      /\ \/ r.p = [main EXCEPT !.pc = "died"]
         \/ \E l \in Seq(Line), x \in Nat : r.p = [main EXCEPT !.pos = x, !.lines = l]
  BY <1>3, ResponseRead DEF TrackerInv, MainInv
<1>5. /\ DOMAIN main' = DOMAIN main /\ main'.lines \in Seq(Line) /\ main'.pos \in Nat /\ main'.todo = main.todo
      /\ main'.next = main.next /\ main'.count = main.count /\ main'.pc \in {"died", main.pc}
  <2>1. CASE main' = [main EXCEPT !.pc = "died"]
    BY <1>3, <2>1 DEF MainInv
  <2>2. ASSUME NEW l \in Seq(Line), NEW x \in Nat, main' = [main EXCEPT !.pos = x, !.lines = l]
        PROVE  /\ DOMAIN main' = DOMAIN main /\ main'.lines \in Seq(Line) /\ main'.pos \in Nat
               /\ main'.todo = main.todo /\ main'.next = main.next /\ main'.count = main.count
               /\ main'.pc \in {"died", main.pc}
    BY <1>3, <2>2 DEF MainInv
  <2> QED BY <1>2, <1>4, <2>1, <2>2
<1>6. TrackerInv'
  BY <1>1, <1>2, <1>3, <1>4 DEF TrackerInv
<1>7. /\ main'.pc = "want" => main.next <= Len(Wanted)
      /\ main'.pc \in {"greeting", "address", "files", "register"} => DOMAIN child = {}
      /\ main'.pc \notin {"accept", "done"}
  BY <1>1, <1>3, <1>5 DEF MainInv
<1> QED BY <1>1, <1>3, <1>5, <1>6, <1>7, SameAnnounced, MainOnly

LEMMA ListenStep == ASSUME PeerInv, start_listen PROVE PeerInv'
<1>1. main.pc = "greeting" /\ UNCHANGED <<scenario, child, up, disk, reply, tracker, have, faults, refused>>
  BY DEF start_listen
<1>2. TrackerInv /\ MainInv /\ up.pc = "none" /\ DOMAIN child = {}
  BY <1>1 DEF PeerInv, UpInv, MainInv
<1>3. CASE main' = [main EXCEPT !.pc = "died"] /\ UNCHANGED requests
  <2>1. /\ DOMAIN main' = DOMAIN main /\ main'.lines \in Seq(Line) /\ main'.todo = main.todo
        /\ main'.pos \in Nat /\ main'.next = main.next /\ main'.count = main.count /\ main'.pc = "died"
    BY <1>2, <1>3 DEF MainInv
  <2>2. TrackerInv'
    BY <1>1, <1>2, <1>3 DEF TrackerInv
  <2> QED BY <1>1, <1>2, <1>3, <2>1, <2>2, SameAnnounced, MainOnly
<1>4. ASSUME NEW port, main' = [Emptied(main) EXCEPT !.pc = "address", !.port = port],
             Asked([op |-> "ADDR", from |-> 0])
      PROVE  PeerInv'
  <2>1. /\ DOMAIN main' = DOMAIN main /\ main'.lines \in Seq(Line) /\ main'.todo = main.todo
        /\ main'.pos \in Nat
        /\ main'.next = main.next /\ main'.count = main.count /\ main'.pc = "address"
    BY <1>2, <1>4 DEF MainInv, Emptied
  <2>2. PICK r \in Request : r = [op |-> "ADDR", from |-> 0] /\ r.op = "ADDR"
    <3>1. [op |-> "ADDR", from |-> 0] \in Request
      BY DEF Request
    <3> QED BY <3>1
  <2>3. requests' \in Seq(Request) /\ \A f \in Announced' : f \in Announced
    BY <1>1, <1>2, <1>4, <2>2, OneMore
  <2>4. TrackerInv'
    BY <1>1, <1>2, <2>3 DEF TrackerInv
  <2> QED BY <1>1, <1>2, <2>1, <2>3, <2>4, MainOnly
<1> QED BY <1>3, <1>4 DEF start_listen

LEMMA ListStep == ASSUME PeerInv, ListDirectory PROVE PeerInv'
<1>1. main.pc = "address" /\ UNCHANGED <<scenario, child, up, disk, requests, reply, tracker, have, faults, refused>>
  BY DEF ListDirectory
<1>2. TrackerInv /\ MainInv /\ up.pc = "none" /\ DOMAIN child = {}
  BY <1>1 DEF PeerInv, UpInv, MainInv
<1>3. TrackerInv'
  BY <1>1, <1>2 DEF TrackerInv
<1>4. ASSUME NEW names, names = {f \in {n[1] : n \in DOMAIN disk} : <<f, 0>> \in DOMAIN disk},
             main' = [main EXCEPT !.pc = "files", !.todo = names]
      PROVE  PeerInv'
  <2>1. /\ DOMAIN main' = DOMAIN main /\ main'.lines = main.lines /\ main'.pos = main.pos /\ main'.todo = names
        /\ main'.next = main.next /\ main'.count = main.count /\ main'.pc = "files"
    BY <1>2, <1>4 DEF MainInv
  <2>2. \A f \in names : f \in File /\ <<f, 0>> \in DOMAIN scenario.disk
    <3>1. DOMAIN disk \subseteq DOMAIN scenario.disk /\ DOMAIN disk \subseteq File \X Nat
      BY <1>2 DEF PeerInv, DiskInv, Made, AsBefore, DiskType
    <3>2. \A f \in names : <<f, 0>> \in DOMAIN disk
      BY <1>4
    <3> QED BY <3>1, <3>2
  <2>3. MainInv'
    BY <1>1, <1>2, <2>1, <2>2 DEF MainInv, Wanted, Exited
  <2>4. faults' \in 0..scenario.faults /\ DOMAIN child \subseteq 1..(main'.next - 1)
    BY <1>1, <1>2 DEF PeerInv
  <2> QED BY <1>1, <1>2, <1>3, <2>3, <2>4, SameAnnounced, MainFrame
<1>5. CASE main' = [main EXCEPT !.pc = "download"]
  <2>1. /\ DOMAIN main' = DOMAIN main /\ main'.lines \in Seq(Line) /\ main'.todo = main.todo
        /\ main'.pos \in Nat /\ main'.next = main.next /\ main'.count = main.count /\ main'.pc = "download"
    BY <1>2, <1>5 DEF MainInv
  <2> QED BY <1>1, <1>2, <1>3, <2>1, SameAnnounced, MainOnly
<1> QED BY <1>4, <1>5 DEF ListDirectory

LEMMA RegisterStep == ASSUME PeerInv, register_files PROVE PeerInv'
<1>1. main.pc \in {"files", "register"} /\ UNCHANGED <<scenario, child, up, disk, reply, tracker, have, faults, refused>>
  BY DEF register_files
<1>2. TrackerInv /\ MainInv /\ up.pc = "none" /\ DOMAIN child = {}
  BY <1>1 DEF PeerInv, UpInv, MainInv
<1>3. CASE main' = [main EXCEPT !.pc = "download"] /\ UNCHANGED requests
  <2>1. /\ DOMAIN main' = DOMAIN main /\ main'.lines \in Seq(Line) /\ main'.todo = main.todo
        /\ main'.pos \in Nat /\ main'.next = main.next /\ main'.count = main.count /\ main'.pc = "download"
    BY <1>2, <1>3 DEF MainInv
  <2>2. TrackerInv'
    BY <1>1, <1>2, <1>3 DEF TrackerInv
  <2> QED BY <1>1, <1>2, <1>3, <2>1, <2>2, SameAnnounced, MainOnly
<1>4. ASSUME NEW f \in main.todo, main' = [Emptied(main) EXCEPT !.pc = "register", !.todo = @ \ {f}],
             Asked([op |-> "HAVE", file |-> f, from |-> 0])
      PROVE  PeerInv'
  <2>1. /\ DOMAIN main' = DOMAIN main /\ main'.lines \in Seq(Line) /\ main'.todo \subseteq main.todo
        /\ main'.pos \in Nat
        /\ main'.next = main.next /\ main'.count = main.count /\ main'.pc = "register"
    BY <1>2, <1>4 DEF MainInv, Emptied
  <2>2. f \in File /\ <<f, 0>> \in DOMAIN scenario.disk
    BY <1>2 DEF MainInv
  <2>3. PICK r \in Request : r = [op |-> "HAVE", file |-> f, from |-> 0] /\ r.file = f
    <3>1. [op |-> "HAVE", file |-> f, from |-> 0] \in Request
      BY <2>2 DEF Request
    <3> QED BY <3>1
  <2>4. requests' \in Seq(Request) /\ \A g \in Announced' : g \in Announced \/ g = f
    BY <1>1, <1>2, <1>4, <2>3, OneMore
  <2>5. TrackerInv'
    BY <1>1, <1>2, <2>4 DEF TrackerInv
  <2> QED BY <1>1, <1>2, <2>1, <2>2, <2>4, <2>5, MainOnly
<1> QED BY <1>3, <1>4 DEF register_files

LEMMA WantStep == ASSUME PeerInv, Want PROVE PeerInv'
<1>1. main.pc = "download" /\ UNCHANGED <<scenario, child, up, disk, reply, tracker, have, faults, refused>>
  BY DEF Want
<1>2. TrackerInv /\ MainInv /\ up.pc = "none" /\ Wanted \in Seq(File) /\ Len(Wanted) \in Nat
  BY <1>1, ScenarioTypes DEF PeerInv, UpInv, Wanted
<1>3. CASE main' = [main EXCEPT !.pc = "wait"] /\ UNCHANGED requests
  <2>1. /\ DOMAIN main' = DOMAIN main /\ main'.lines \in Seq(Line) /\ main'.todo = main.todo
        /\ main'.pos \in Nat /\ main'.next = main.next /\ main'.count = main.count /\ main'.pc = "wait"
    BY <1>2, <1>3 DEF MainInv
  <2>2. TrackerInv'
    BY <1>1, <1>2, <1>3 DEF TrackerInv
  <2> QED BY <1>1, <1>2, <1>3, <2>1, <2>2, SameAnnounced, MainOnly
<1>4. CASE /\ ~(main.next > Len(Wanted)) /\ main' = [Emptied(main) EXCEPT !.pc = "want"]
           /\ Asked([op |-> "WANT", file |-> Wanted[main.next], from |-> 0])
  <2>1. /\ DOMAIN main' = DOMAIN main /\ main'.lines \in Seq(Line) /\ main'.todo = main.todo
        /\ main'.pos \in Nat
        /\ main'.next = main.next /\ main'.count = main.count /\ main'.pc = "want"
    BY <1>2, <1>4 DEF MainInv, Emptied
  <2>2. main.next \in 1..Len(Wanted) /\ Wanted[main.next] \in File
    BY <1>2, <1>4 DEF MainInv
  <2>3. PICK r \in Request : r = [op |-> "WANT", file |-> Wanted[main.next], from |-> 0] /\ r.op # "HAVE"
    <3>1. [op |-> "WANT", file |-> Wanted[main.next], from |-> 0] \in Request
      BY <2>2 DEF Request
    <3> QED BY <3>1
  <2>4. requests' \in Seq(Request) /\ \A g \in Announced' : g \in Announced
    BY <1>1, <1>2, <1>4, <2>3, OneMore
  <2>5. TrackerInv'
    BY <1>1, <1>2, <2>4 DEF TrackerInv
  <2> QED BY <1>1, <1>2, <2>1, <2>2, <2>4, <2>5, MainOnly
<1> QED BY <1>3, <1>4 DEF Want

LEMMA FiniteChildren ==
    ASSUME PeerInv
    PROVE  /\ IsFiniteSet(DOMAIN child) /\ IsFiniteSet(Exited) /\ Exited \subseteq DOMAIN child
           /\ IsFiniteSet(DOMAIN child \ Exited)
<1>1. IsFiniteSet(1..(main.next - 1)) /\ DOMAIN child \subseteq 1..(main.next - 1)
  BY ChildrenBound, FS_Interval
<1>2. Exited \subseteq DOMAIN child
  BY DEF Exited
<1>3. IsFiniteSet(DOMAIN child)
  BY <1>1, FS_Subset
<1> QED BY <1>2, <1>3, FS_Subset

\* A process is forked for the next file.
LEMMA ForkStep ==
    ASSUME PeerInv, main.pc = "want", Complete(main), Formatted(main.lines),
           child' = Extend(child, main.next, NewDownload(Wanted[main.next], PeerList(main.lines))),
           main' = [main EXCEPT !.pc = "download", !.next = @ + 1, !.count = @ + 1],
           UNCHANGED <<scenario, up, disk, requests, reply, tracker, have, faults, refused>>
    PROVE  PeerInv'
<1>1. /\ TrackerInv /\ MainInv /\ up.pc = "none" /\ Wanted \in Seq(File) /\ Len(Wanted) \in Nat
  BY ScenarioTypes DEF PeerInv, UpInv, Wanted
<1>2. PICK x \in 1..Len(Wanted), k \in Nat : x = main.next /\ k = main.count /\ k <= x - 1
  BY <1>1 DEF MainInv
<1>3. PICK q \in {NewDownload(Wanted[x], PeerList(main.lines))} :
        DownloadInv(q, disk, scenario, refused) /\ q.file = Wanted[x] /\ ~q.linked /\ q.pc = "connect"
  <2>1. Wanted[x] \in File /\ PeerList(main.lines) \in Seq(DOMAIN Sends)
    BY <1>1, <1>2, PeersOfReply DEF MainInv
  <2>2. /\ NewDownload(Wanted[x], PeerList(main.lines)).file = Wanted[x]
        /\ ~NewDownload(Wanted[x], PeerList(main.lines)).linked
        /\ NewDownload(Wanted[x], PeerList(main.lines)).pc = "connect"
    BY DEF NewDownload
  <2> QED BY <2>1, <2>2, NewIsGood
<1>4. /\ DOMAIN child \subseteq 1..(x - 1) /\ x \notin DOMAIN child
  BY <1>2 DEF PeerInv, ChildrenInv
<1>5. /\ DOMAIN child' = DOMAIN child \cup {x} /\ child'[x] = q
      /\ \A d \in DOMAIN child : child'[d] = child[d] /\ d # x
  BY <1>2, <1>3, <1>4 DEF Extend
<1>6. /\ main'.next = x + 1 /\ main'.count = k + 1 /\ main'.pc = "download" /\ main'.lines = main.lines
      /\ main'.pos = main.pos /\ main'.todo = main.todo /\ DOMAIN main' = DOMAIN main
  <2>1. main' = [main EXCEPT !.pc = "download", !.next = x + 1, !.count = k + 1]
    BY <1>2
  <2> QED BY <1>1, <2>1 DEF MainInv
<1>7. ChildrenInv'
  <2>1. DOMAIN child' \subseteq 1..(main'.next - 1)
    BY <1>4, <1>5, <1>6
  <2>2. \A d \in DOMAIN child' : DownloadInv(child'[d], disk, scenario, refused) /\ child'[d].file = Wanted[d]
    BY <1>3, <1>5 DEF PeerInv, ChildrenInv
  <2>3. \A d, e \in DOMAIN child' :
          d # e /\ child'[d].linked /\ child'[e].linked => DiskName(child'[d]) # DiskName(child'[e])
    BY <1>3, <1>5 DEF PeerInv, ChildrenInv
  <2> QED BY <2>1, <2>2, <2>3 DEF ChildrenInv, Wanted, DiskName
<1>8. DiskInv'
  <2>1. Made' = Made
    BY <1>3, <1>5 DEF Made, DiskName
  <2> QED BY <2>1 DEF PeerInv, DiskInv, AsBefore, Wanted
<1>9. HaveInv'
  <2>1. Announced' = Announced
    BY SameAnnounced
  <2>2. \A f : Owned(f) => Owned(f)'
    BY <1>5 DEF Owned, DiskName
  <2> QED BY <2>1, <2>2 DEF PeerInv, HaveInv
<1>10. MainInv'
  <2>1. IsFiniteSet(DOMAIN child \ Exited)
    BY FiniteChildren
  <2>2. DOMAIN child' \ Exited' = (DOMAIN child \ Exited) \cup {x}
    BY <1>3, <1>5 DEF Exited
  <2>3. Cardinality(DOMAIN child' \ Exited') = Cardinality(DOMAIN child \ Exited) + 1
    BY <1>4, <2>1, <2>2, FS_AddElement
  <2>4. Cardinality(DOMAIN child \ Exited) \in Nat /\ Cardinality(DOMAIN child \ Exited) <= k
    BY <1>1, <1>2, <2>1, FS_CardinalityType DEF MainInv
  <2>5. Cardinality(DOMAIN child' \ Exited') <= main'.count
    BY <1>6, <2>3, <2>4
  <2>6. /\ main'.next \in 1..Len(Wanted)+1 /\ main'.count \in 0..(main'.next - 1)
    BY <1>1, <1>2, <1>6
  <2>7. main'.lines \in Seq(Line) /\ main'.pos \in Nat /\ \A f \in main'.todo : f \in File /\ <<f, 0>> \in DOMAIN scenario.disk
    BY <1>1, <1>6 DEF MainInv
  <2>8. DOMAIN main' = {"pc", "lines", "pos", "port", "todo", "next", "count"}
    BY <1>1, <1>6 DEF MainInv
  <2> QED BY <1>6, <2>5, <2>6, <2>7, <2>8 DEF MainInv, Wanted
<1>11. UpInv' /\ TrackerInv'
  BY <1>1 DEF PeerInv, UpInv, TrackerInv
<1> QED BY <1>7, <1>8, <1>9, <1>10, <1>11 DEF PeerInv

LEMMA StartStep == ASSUME PeerInv, start_download PROVE PeerInv'
<1>1. /\ main.pc = "want" /\ Complete(main)
      /\ UNCHANGED <<scenario, up, disk, requests, reply, tracker, have, refused>>
  BY DEF start_download
<1>2. CASE /\ Formatted(main.lines)
           /\ child' = Extend(child, main.next, NewDownload(Wanted[main.next], PeerList(main.lines)))
           /\ main' = [main EXCEPT !.pc = "download", !.next = @ + 1, !.count = @ + 1]
           /\ UNCHANGED faults
  BY <1>1, <1>2, ForkStep
<1>3. ASSUME main' = [main EXCEPT !.pc = "download", !.next = @ + 1], UNCHANGED child,
             faults' = faults \/ (faults > 0 /\ faults' = faults - 1)
      PROVE  PeerInv'
  <2>1. /\ TrackerInv /\ MainInv /\ up.pc = "none" /\ Wanted \in Seq(File) /\ Len(Wanted) \in Nat
    BY <1>1, ScenarioTypes DEF PeerInv, UpInv, Wanted
  <2>2. PICK x \in 1..Len(Wanted) : x = main.next /\ main.count \in 0..(x - 1)
    BY <1>1, <2>1 DEF MainInv
  <2>3. /\ main'.next = x + 1 /\ main'.count = main.count /\ main'.pc = "download" /\ main'.lines = main.lines
        /\ main'.pos = main.pos /\ main'.todo = main.todo /\ DOMAIN main' = DOMAIN main
    <3>1. main' = [main EXCEPT !.pc = "download", !.next = x + 1]
      BY <1>3, <2>2
    <3> QED BY <2>1, <3>1 DEF MainInv
  <2>4. main'.next \in 1..Len(Wanted)+1 /\ main'.count \in 0..(main'.next - 1)
    BY <2>1, <2>2, <2>3
  <2>5. MainInv'
    BY <1>1, <1>3, <2>1, <2>3, <2>4 DEF MainInv, Wanted, Exited
  <2>6. DOMAIN child \subseteq 1..(main'.next - 1)
    BY <2>2, <2>3 DEF PeerInv, ChildrenInv
  <2>7. faults' \in 0..scenario.faults
    BY <1>3, ScenarioTypes DEF PeerInv
  <2>8. TrackerInv'
    BY <1>1, <2>1 DEF TrackerInv
  <2> QED BY <1>1, <1>3, <2>1, <2>5, <2>6, <2>7, <2>8, SameAnnounced, MainFrame
<1>4. CASE main' = [main EXCEPT !.pc = "died"] /\ UNCHANGED <<child, faults>>
  <2>1. TrackerInv /\ MainInv /\ up.pc = "none"
    BY <1>1 DEF PeerInv, UpInv
  <2>2. /\ DOMAIN main' = DOMAIN main /\ main'.lines \in Seq(Line) /\ main'.pos \in Nat
        /\ main'.todo = main.todo /\ main'.next = main.next /\ main'.count = main.count /\ main'.pc = "died"
    BY <1>4, <2>1 DEF MainInv
  <2>3. TrackerInv'
    BY <1>1, <2>1 DEF TrackerInv
  <2> QED BY <1>1, <1>4, <2>1, <2>2, <2>3, SameAnnounced, MainOnly
<1> QED BY <1>2, <1>3, <1>4 DEF start_download

\* waitpid(): as many processes are left as are still to be waited for, at most.
LEMMA WaitStep == ASSUME PeerInv, WaitForDownloads PROVE PeerInv'
<1>1. main.pc = "wait" /\ UNCHANGED <<scenario, child, up, disk, requests, reply, tracker, have, faults, refused>>
  BY DEF WaitForDownloads
<1>2. TrackerInv /\ MainInv /\ up.pc = "none" /\ DOMAIN child \subseteq 1..(main.next - 1)
  BY <1>1 DEF PeerInv, UpInv, ChildrenInv
<1>3. TrackerInv' /\ faults' \in 0..scenario.faults
  BY <1>1, <1>2 DEF PeerInv, TrackerInv
<1>4. CASE /\ main.count > 0 /\ Cardinality(Exited) > Cardinality(DOMAIN child) - main.count
           /\ main' = [main EXCEPT !.count = @ - 1]
  <2>1. PICK k \in Nat, x \in Nat : k = main.count /\ k > 0 /\ x = main.next /\ k <= x - 1
    BY <1>2, <1>4 DEF MainInv
  <2>2. /\ main'.next = x /\ main'.count = k - 1 /\ main'.pc = "wait" /\ main'.lines = main.lines
        /\ main'.pos = main.pos /\ main'.todo = main.todo /\ DOMAIN main' = DOMAIN main
    <3>1. main' = [main EXCEPT !.count = k - 1]
      BY <1>4, <2>1
    <3> QED BY <1>1, <1>2, <2>1, <3>1 DEF MainInv
  <2>3. IsFiniteSet(DOMAIN child) /\ IsFiniteSet(Exited) /\ Exited \subseteq DOMAIN child
    BY FiniteChildren
  <2>4. Cardinality(DOMAIN child \ Exited) = Cardinality(DOMAIN child) - Cardinality(Exited)
    <3>1. DOMAIN child \cap Exited = Exited
      BY <2>3
    <3> QED BY <2>3, <3>1, FS_Difference
  <2>5. Cardinality(DOMAIN child) \in Nat /\ Cardinality(Exited) \in Nat
    BY <2>3, FS_CardinalityType
  <2>6. Cardinality(DOMAIN child \ Exited) <= k - 1
    BY <1>4, <2>1, <2>4, <2>5
  <2>7. MainInv'
    <3>1. main'.next \in 1..Len(Wanted)+1 /\ main'.count \in 0..(main'.next - 1)
      BY <1>2, <2>1, <2>2 DEF MainInv
    <3> QED BY <1>1, <1>2, <2>2, <2>6, <3>1 DEF MainInv, Wanted, Exited
  <2>8. DOMAIN child \subseteq 1..(main'.next - 1)
    BY <1>2, <2>1, <2>2
  <2> QED BY <1>1, <1>2, <1>3, <2>7, <2>8, SameAnnounced, MainFrame
<1>5. CASE main.count = 0 /\ main' = [main EXCEPT !.pc = "accept"]
  <2>1. /\ main'.next = main.next /\ main'.count = 0 /\ main'.pc = "accept" /\ main'.lines = main.lines
        /\ main'.pos = main.pos /\ main'.todo = main.todo /\ DOMAIN main' = DOMAIN main
    BY <1>2, <1>5 DEF MainInv
  <2>2. MainInv'
    BY <1>1, <1>2, <1>5, <2>1 DEF MainInv, Wanted, Exited
  <2>3. DOMAIN child \subseteq 1..(main'.next - 1)
    BY <1>2, <2>1
  <2> QED BY <1>1, <1>2, <1>3, <2>2, <2>3, SameAnnounced, MainFrame
<1> QED BY <1>4, <1>5 DEF WaitForDownloads

LEMMA AcceptStep == ASSUME PeerInv, task_listen PROVE PeerInv'
<1>1. main.pc = "accept" /\ UNCHANGED <<scenario, child, disk, requests, reply, tracker, have, refused>>
  BY DEF task_listen
<1>2. TrackerInv /\ MainInv /\ up.pc = "none" /\ UpInv /\ faults \in 0..scenario.faults /\ scenario.faults \in Nat
  BY <1>1, ScenarioTypes DEF PeerInv, UpInv
<1>3. TrackerInv'
  BY <1>1, <1>2 DEF TrackerInv
<1>4. CASE main' = [main EXCEPT !.pc = "done"] /\ up' = [up EXCEPT !.pc = "request"] /\ UNCHANGED faults
  <2>1. /\ main'.next = main.next /\ main'.count = main.count /\ main'.pc = "done" /\ main'.lines = main.lines
        /\ main'.pos = main.pos /\ main'.todo = main.todo /\ DOMAIN main' = DOMAIN main
    BY <1>2, <1>4 DEF MainInv
  <2>2. MainInv'
    BY <1>1, <1>2, <1>4, <2>1 DEF MainInv, Wanted, Exited
  <2>3. /\ up'.pc = "request" /\ up'.t = up.t /\ up'.src = up.src /\ up'.sent = up.sent /\ DOMAIN up' = DOMAIN up
    BY <1>2, <1>4 DEF UpInv
  <2>4. UpInv'
    BY <1>2, <2>1, <2>3 DEF UpInv, UpPc
  <2>5. ChildrenInv'
    BY <1>1, <2>1 DEF PeerInv, ChildrenInv, Wanted, DiskName
  <2>6. DiskInv' /\ HaveInv'
    BY <1>1, SameAnnounced DEF PeerInv, DiskInv, Made, AsBefore, Wanted, HaveInv, Owned, DiskName
  <2> QED BY <1>1, <1>2, <1>3, <1>4, <2>2, <2>4, <2>5, <2>6 DEF PeerInv
<1>5. CASE faults > 0 /\ faults' = faults - 1 /\ UNCHANGED <<main, up>>
  <2>1. MainInv' /\ faults' \in 0..scenario.faults
    BY <1>1, <1>2, <1>5 DEF MainInv, Wanted, Exited
  <2>2. DOMAIN child \subseteq 1..(main'.next - 1)
    BY <1>5 DEF PeerInv, ChildrenInv
  <2> QED BY <1>1, <1>2, <1>3, <1>5, <2>1, <2>2, SameAnnounced, MainFrame
<1> QED BY <1>4, <1>5 DEF task_listen

-----------------------------------------------------------------------------
(* The tracker.                                                             *)

LEMMA MessageLines ==
    ASSUME NEW ends \in BOOLEAN, NEW ok \in BOOLEAN, NEW to \in Nat
    PROVE  MessageLine(ends, ok, to) \in Seq(Line)
<1>1. PICK a \in Line, b \in Line, c \in Line :
        a = [k |-> "code", ends |-> ends, ok |-> ok, to |-> to] /\ b = [k |-> "text", to |-> to] /\ c = [k |-> "nl", to |-> to]
  <2>1. [k |-> "code", ends |-> ends, ok |-> ok, to |-> to] \in Line
    BY DEF Line
  <2>2. [k |-> "text", to |-> to] \in Line /\ [k |-> "nl", to |-> to] \in Line
    BY DEF Line
  <2> QED BY <2>1, <2>2
<1>2. MessageLine(ends, ok, to) = <<a, b, c>>
  BY <1>1 DEF MessageLine
<1> QED BY <1>2

LEMMA PeerLinesAre ==
    ASSUME NEW ps \in Seq(DOMAIN Sends), NEW to \in Nat
    PROVE  PeerLines(ps, to) \in Seq(Line)
<1>1. PICK l \in Nat, n \in Nat : l = Len(ps) /\ n = 2 * l
  OBVIOUS
<1>2. ASSUME NEW i \in 1..n PROVE PeerLine(ps[(i + 1) \div 2], to)[2 - (i % 2)] \in Line
  <2>1. PICK j \in 1..l, m \in {1, 2} : j = (i + 1) \div 2 /\ m = 2 - (i % 2)
    BY <1>1
  <2>2. PICK a \in Line, b \in Line :
          a = [k |-> "peer", peer |-> ps[j], to |-> to] /\ b = [k |-> "nl", to |-> to]
    <3>1. ps[j] \in DOMAIN Sends
      BY <1>1
    <3>2. [k |-> "peer", peer |-> ps[j], to |-> to] \in Line /\ [k |-> "nl", to |-> to] \in Line
      BY <3>1 DEF Line
    <3> QED BY <3>2
  <2>3. PeerLine(ps[j], to) = <<a, b>>
    BY <2>2 DEF PeerLine
  <2>4. PeerLine(ps[j], to)[m] \in Line
    BY <2>3
  <2> QED BY <2>1, <2>4
<1>3. [i \in 1..n |-> PeerLine(ps[(i + 1) \div 2], to)[2 - (i % 2)]] \in Seq(Line)
  BY <1>2, IsASeq
<1> QED BY <1>1, <1>3 DEF PeerLines

LEMMA AnswerLines ==
    ASSUME NEW r \in Request
    PROVE  Answer(r) \in Seq(Line)
<1>1. r.from \in Nat
  BY DEF Request
<1>2. MessageLine(TRUE, TRUE, r.from) \in Seq(Line) /\ MessageLine(TRUE, FALSE, r.from) \in Seq(Line)
  BY <1>1, MessageLines
<1>3. r.file \in DOMAIN Listed => PeerLines(Listed[r.file], r.from) \in Seq(Line)
  BY <1>1, PeerLinesAre, PeerAssumption
<1>4. \A s, t \in Seq(Line) : s \o t \in Seq(Line)
  BY ConcatProperties
<1> QED BY <1>2, <1>3, <1>4, Zenon DEF Answer

LEMMA TrackerStep == ASSUME PeerInv, TrackerAnswers PROVE PeerInv'
<1>1. /\ requests # <<>> /\ requests' = Tail(requests) /\ reply' = reply \o Answer(Head(requests))
      /\ have' = IF Head(requests).op = "HAVE" THEN have \cup {Head(requests).file} ELSE have
      /\ UNCHANGED <<scenario, main, child, up, disk, tracker, faults, refused>>
  BY DEF TrackerAnswers
<1>2. requests \in Seq(Request) /\ reply \in Seq(Line)
  BY DEF PeerInv, TrackerInv
<1>3. /\ Head(requests) \in Request /\ Tail(requests) \in Seq(Request) /\ Head(requests) = requests[1]
      /\ 1 \in DOMAIN requests
      /\ \A k \in DOMAIN Tail(requests) : k + 1 \in DOMAIN requests /\ Tail(requests)[k] = requests[k + 1]
  BY <1>1, <1>2
<1>4. TrackerInv'
  <2>1. reply' \in Seq(Line)
    BY <1>1, <1>2, <1>3, AnswerLines, ConcatProperties
  <2> QED BY <1>1, <1>3, <2>1 DEF TrackerInv
<1>5. ASSUME NEW f \in Announced' PROVE f \in Announced
  <2>1. f \in have' \/ \E k \in DOMAIN requests' : requests'[k].op = "HAVE" /\ f = requests'[k].file
    BY <1>5 DEF Announced
  <2>2. CASE f \in have'
    BY <1>1, <1>3, <2>2 DEF Announced
  <2>3. ASSUME NEW k \in DOMAIN requests', requests'[k].op = "HAVE", f = requests'[k].file
        PROVE  f \in Announced
    <3>1. PICK j \in DOMAIN requests : requests[j] = requests'[k]
      BY <1>1, <1>3
    <3> QED BY <2>3, <3>1 DEF Announced
  <2> QED BY <2>1, <2>2, <2>3
<1>6. MainInv' /\ UpInv'
  BY <1>1 DEF PeerInv, MainInv, UpInv, Wanted, Exited
<1>7. ChildrenInv' /\ DiskInv'
  BY <1>1 DEF PeerInv, ChildrenInv, DiskInv, Made, AsBefore, Wanted, DiskName
<1>8. HaveInv'
  <2>1. \A f : Owned(f) => Owned(f)'
    BY <1>1 DEF Owned, DiskName
  <2> QED BY <1>5, <2>1 DEF PeerInv, HaveInv
<1> QED BY <1>1, <1>4, <1>6, <1>7, <1>8 DEF PeerInv

\* What is left of the invariant when no process steps.
LEMMA Idle ==
    ASSUME PeerInv, UNCHANGED <<scenario, main, child, disk, requests, reply, have, refused>>,
           faults' \in 0..scenario.faults, UpInv'
    PROVE  PeerInv'
<1>1. MainInv' /\ TrackerInv'
  BY DEF PeerInv, MainInv, TrackerInv, Wanted, Exited
<1>2. ChildrenInv' /\ DiskInv'
  BY DEF PeerInv, ChildrenInv, DiskInv, Made, AsBefore, Wanted, DiskName
<1>3. HaveInv'
  BY SameAnnounced DEF PeerInv, HaveInv, Owned, DiskName
<1> QED BY <1>1, <1>2, <1>3 DEF PeerInv

LEMMA CloseStep == ASSUME PeerInv, TrackerCloses PROVE PeerInv'
<1>1. UpInv' /\ faults' \in 0..scenario.faults
  BY ScenarioTypes DEF TrackerCloses, PeerInv, UpInv
<1> QED BY <1>1, Idle DEF TrackerCloses

-----------------------------------------------------------------------------
(* The upload.                                                              *)

\* What is on disk was there, or is a download's and not above the limit.
LEMMA DiskSizes ==
    ASSUME SmallFiles, PeerInv, NEW n \in DOMAIN disk
    PROVE  disk[n] \in Seq(Byte) /\ Len(disk[n]) < UintMod
<1>1. disk[n] \in Seq(Byte)
  BY DEF PeerInv, DiskInv, DiskType
<1>2. CASE AsBefore(n)
  BY <1>1, <1>2 DEF PeerInv, AsBefore, SmallFiles
<1>3. CASE n \in Made
  <2>1. PICK c \in DOMAIN child : child[c].linked /\ DiskName(child[c]) = n
    BY <1>3 DEF Made
  <2>2. Len(disk[n]) = child[c].t.total /\ Counted(child[c].t)
    BY <2>1 DEF PeerInv, ChildrenInv, DownloadInv, NamedInv
  <2>3. child[c].t.total <= MaxSize + TASKBUFSIZ /\ child[c].t.total \in Nat
    BY <2>2 DEF Counted, RingInv, Buffer
  <2> QED BY <1>1, <2>2, <2>3, Limits
<1> QED BY <1>2, <1>3 DEF PeerInv, DiskInv

LEMMA RequestStep == ASSUME PeerInv, ReadRequest PROVE PeerInv'
<1>1. up.pc = "request" /\ UNCHANGED <<scenario, main, child, disk, requests, reply, tracker, have, faults, refused>>
  BY DEF ReadRequest
<1>2. UpInv /\ main.pc = "done" /\ up.t = task_new /\ up.sent = <<>> /\ faults' \in 0..scenario.faults
  BY <1>1 DEF PeerInv, UpInv
<1>3. CASE up' = [up EXCEPT !.pc = "refused"]
  <2>1. /\ DOMAIN up' = DOMAIN up /\ up'.pc = "refused" /\ up'.t = up.t /\ up'.src = up.src /\ up'.sent = up.sent
    BY <1>2, <1>3 DEF UpInv
  <2>2. UpInv'
    BY <1>1, <1>2, <2>1 DEF UpInv, UpPc
  <2> QED BY <1>1, <1>2, <2>2, Idle
<1>4. ASSUME NEW name \in DOMAIN disk, NEW src, src = [data |-> disk[name], end |-> "eof"],
             up' = [up EXCEPT !.pc = "send", !.file = name, !.src = src]
      PROVE  PeerInv'
  <2>1. disk[name] \in Seq(Byte)
    BY DEF PeerInv, DiskInv, DiskType
  <2>2. src \in Source /\ src.data = disk[name]
    BY <1>4, <2>1 DEF Source
  <2>3. /\ DOMAIN up' = DOMAIN up /\ up'.pc = "send" /\ up'.t = up.t /\ up'.src = src
        /\ up'.file = name /\ up'.sent = up.sent
    BY <1>2, <1>4 DEF UpInv
  <2>4. up'.sent \o (Held(up'.t) \o up'.src.data) = disk[name] /\ Len(up'.sent) = up'.t.head
    <3>1. Held(up'.t) = <<>> /\ up'.sent = <<>> /\ up'.src.data = disk[name] /\ up'.t.head = 0
      BY <1>2, <2>2, <2>3, NewBuffer
    <3>2. <<>> \o disk[name] = disk[name]
      BY <2>1, ConcatEmptySeq
    <3> QED BY <3>1, <3>2
  <2>5. UpInv'
    BY <1>1, <1>2, <2>2, <2>3, <2>4 DEF UpInv, UpPc
  <2> QED BY <1>1, <1>2, <2>5, Idle
<1> QED BY <1>3, <1>4 DEF ReadRequest, Served

LEMMA SendStep == ASSUME PeerInv, SendBytes PROVE PeerInv'
<1>1. up.pc = "send" /\ UNCHANGED <<scenario, main, child, disk, requests, reply, tracker, have, faults, refused>>
  BY DEF SendBytes
<1>2. UpInv /\ main.pc = "done" /\ RingInv(up.t) /\ faults' \in 0..scenario.faults
  BY <1>1 DEF PeerInv, UpInv
<1>3. CASE up' = [up EXCEPT !.pc = "broken"]
  <2>1. /\ DOMAIN up' = DOMAIN up /\ up'.pc = "broken" /\ up'.t = up.t /\ up'.src = up.src /\ up'.sent = up.sent
    BY <1>2, <1>3 DEF UpInv
  <2>2. UpInv'
    BY <1>1, <1>2, <2>1 DEF UpInv, UpPc
  <2> QED BY <1>1, <1>2, <2>2, Idle
<1>4. ASSUME NEW w \in write_from_taskbuf(up.t), NEW all, all = up.sent \o w.bytes,
             up' = [up EXCEPT !.pc = "fill", !.t = w.t, !.sent = all]
      PROVE  PeerInv'
  <2>1. /\ RingInv(w.t) /\ w.bytes \in Seq(Byte) /\ w.bytes \o Held(w.t) = Held(up.t)
        /\ w.t.head = up.t.head + Len(w.bytes)
    BY <1>2, WriteIsFifo
  <2>2. /\ DOMAIN up' = DOMAIN up /\ up'.pc = "fill" /\ up'.t = w.t /\ up'.src = up.src
        /\ up'.file = up.file /\ up'.sent = all
    BY <1>2, <1>4 DEF UpInv
  <2>3. up.sent \in Seq(Byte) /\ up.src.data \in Seq(Byte) /\ Held(w.t) \in Seq(Byte)
    BY <1>2, <2>1, HeldIs DEF UpInv, Source
  <2>4. all \in Seq(Byte) /\ Len(all) = Len(up.sent) + Len(w.bytes) /\ Held(w.t) \o up.src.data \in Seq(Byte)
    BY <1>4, <2>1, <2>3, ConcatLen
  <2>5. all \o (Held(w.t) \o up.src.data) = disk[up.file]
    <3> DEFINE rest == Held(w.t) \o up.src.data
    <3>1. rest \in Seq(Byte)
      BY <2>4
    <3>6. (up.sent \o w.bytes) \o rest = up.sent \o (w.bytes \o rest)
      <4> HIDE DEF rest
      <4> QED BY <2>1, <2>3, <3>1, ConcatThree
    <3>2. all \o (Held(w.t) \o up.src.data) = up.sent \o (w.bytes \o (Held(w.t) \o up.src.data))
      BY <1>4, <3>6
    <3>3. (w.bytes \o Held(w.t)) \o up.src.data = w.bytes \o (Held(w.t) \o up.src.data)
      BY <2>1, <2>3, ConcatThree
    <3>4. w.bytes \o Held(w.t) = Held(up.t)
      BY <2>1
    <3>5. up.sent \o (Held(up.t) \o up.src.data) = disk[up.file]
      BY <1>1, <1>2 DEF UpInv
    <3> QED BY <3>2, <3>3, <3>4, <3>5, Zenon
  <2>6. up.file \in DOMAIN disk /\ Len(all) = w.t.head
    BY <1>1, <1>2, <2>1, <2>4 DEF UpInv
  <2>7. UpInv'
    BY <1>1, <1>2, <2>1, <2>2, <2>4, <2>5, <2>6 DEF UpInv, UpPc
  <2> QED BY <1>1, <1>2, <2>7, Idle
<1> QED BY <1>3, <1>4 DEF SendBytes

LEMMA FillStep == ASSUME SmallFiles, PeerInv, FillBuffer PROVE PeerInv'
<1>1. up.pc = "fill" /\ UNCHANGED <<scenario, main, child, disk, requests, reply, tracker, have, faults, refused>>
  BY DEF FillBuffer
<1>2. /\ UpInv /\ main.pc = "done" /\ RingInv(up.t) /\ up.src \in Source /\ up.sent \in Seq(Byte)
      /\ up.file \in DOMAIN disk /\ Len(up.sent) = up.t.head
      /\ up.sent \o (Held(up.t) \o up.src.data) = disk[up.file]
      /\ faults' \in 0..scenario.faults
  BY <1>1 DEF PeerInv, UpInv
<1>3. PICK r \in read_to_taskbuf(up.t, up.src), pc \in {"complete", "send"} :
        up' = [up EXCEPT !.t = r.t, !.src = r.src, !.pc = pc]
  BY DEF FillBuffer
<1>4. Room(up.t, up.src)
  <2>1. Held(up.t) \in Seq(Byte) /\ up.src.data \in Seq(Byte) /\ Len(Held(up.t)) = up.t.tail - up.t.head
    BY <1>2, HeldIs DEF Source
  <2>2. /\ Held(up.t) \o up.src.data \in Seq(Byte)
        /\ Len(Held(up.t) \o up.src.data) = Len(Held(up.t)) + Len(up.src.data)
    BY <2>1, ConcatLen
  <2>3. Len(up.sent \o (Held(up.t) \o up.src.data)) = Len(up.sent) + Len(Held(up.t) \o up.src.data)
    BY <1>2, <2>2, ConcatLen
  <2>4. Len(disk[up.file]) < UintMod
    BY <1>2, DiskSizes
  <2>5. PICK h \in Nat, l \in Nat, n \in Nat : h = up.t.head /\ l = up.t.tail /\ n = Len(up.src.data)
    BY <1>2, <2>1 DEF RingInv, Buffer
  <2>6. Len(disk[up.file]) = h + ((l - h) + n)
    BY <1>2, <2>1, <2>2, <2>3, <2>5
  <2>7. l + n < UintMod
    BY <2>4, <2>5, <2>6
  <2> QED BY <2>5, <2>7 DEF Room
<1>5. /\ RingInv(r.t) /\ r.src \in Source /\ r.t.head = up.t.head
      /\ Held(r.t) \o r.src.data = Held(up.t) \o up.src.data
  BY <1>2, <1>4, ReadIsFifo
<1>6. /\ DOMAIN up' = DOMAIN up /\ up'.pc = pc /\ up'.t = r.t /\ up'.src = r.src
      /\ up'.file = up.file /\ up'.sent = up.sent
  BY <1>2, <1>3 DEF UpInv
<1>7. up.sent \o (Held(r.t) \o r.src.data) = disk[up.file]
  BY <1>2, <1>5
<1>8. UpInv'
  BY <1>1, <1>2, <1>5, <1>6, <1>7 DEF UpInv, UpPc
<1> QED BY <1>1, <1>2, <1>8, Idle

-----------------------------------------------------------------------------
(* The invariant.                                                           *)

LEMMA InitPeer == ASSUME Init PROVE PeerInv
<1>1. /\ scenario \in Scenarios /\ disk = scenario.disk /\ have = {} /\ requests = <<>>
      /\ faults = scenario.faults /\ refused = {}
  BY DEF Init
<1>2. /\ scenario.faults \in Nat /\ DiskType(scenario.disk) /\ Wanted \in Seq(File) /\ Len(Wanted) \in Nat
  BY <1>1, ScenarioTypes DEF Wanted
<1>3. DOMAIN child = {} /\ Exited = {}
  BY DEF Init, Exited
<1>4. /\ main.pc = "greeting" /\ main.lines = <<>> /\ main.pos = 0 /\ main.todo = {} /\ main.next = 1 /\ main.count = 0
      /\ DOMAIN main = {"pc", "lines", "pos", "port", "todo", "next", "count"}
  BY DEF Init
<1>5. MainInv
  <2>1. Cardinality(DOMAIN child \ Exited) = 0
    BY <1>3, FS_EmptySet
  <2>2. <<>> \in Seq(Line) /\ 1 \in 1..Len(Wanted)+1 /\ 0 \in 0..(1 - 1)
    BY <1>2
  <2> QED BY <1>3, <1>4, <2>1, <2>2 DEF MainInv
<1>6. ChildrenInv /\ DiskInv
  BY <1>1, <1>2, <1>3 DEF ChildrenInv, DiskInv, AsBefore
<1>7. HaveInv
  BY <1>1 DEF HaveInv, Announced
<1>8. /\ up.pc = "none" /\ up.t = task_new /\ up.src = NoSource /\ up.sent = <<>>
      /\ DOMAIN up = {"pc", "t", "src", "file", "sent"}
  BY DEF Init
<1>9. UpInv
  <2>1. NoSource \in Source /\ <<>> \in Seq(Byte) /\ RingInv(task_new)
    BY NewBuffer DEF NoSource, Source, Counted
  <2> QED BY <1>8, <2>1 DEF UpInv, UpPc
<1>10. TrackerInv
  <2>1. MessageLine(FALSE, TRUE, 0) \in Seq(Line) /\ MessageLine(TRUE, TRUE, 0) \in Seq(Line)
    BY MessageLines
  <2>3. reply = MessageLine(FALSE, TRUE, 0) \o MessageLine(TRUE, TRUE, 0) /\ requests = <<>>
    BY DEF Init
  <2>4. reply \in Seq(Line)
    BY <2>1, <2>3, ConcatProperties
  <2>5. <<>> \in Seq(Request)
    OBVIOUS
  <2>6. requests \in Seq(Request)
    BY <2>3, <2>5
  <2> QED BY <2>4, <2>6 DEF TrackerInv
<1> QED BY <1>1, <1>2, <1>5, <1>6, <1>7, <1>9, <1>10 DEF PeerInv

LEMMA NextPeer ==
    ASSUME SmallFiles, PeerInv, [Next]_vars
    PROVE  PeerInv'
<1>1. CASE UNCHANGED vars
  <2>1. UpInv' /\ faults' \in 0..scenario.faults
    BY <1>1 DEF vars, PeerInv, UpInv
  <2> QED BY <1>1, <2>1, Idle DEF vars
<1>2. CASE MainStep
  BY <1>2, MainReadsStep, ListenStep, ListStep, RegisterStep, WantStep, StartStep, WaitStep DEF MainStep
<1>3. CASE task_listen
  BY <1>3, AcceptStep
<1>4. CASE \E c \in DOMAIN child : task_download(c)
  BY <1>4, DownloadStep
<1>5. CASE task_upload
  BY <1>5, RequestStep, SendStep, FillStep DEF task_upload
<1>6. CASE TrackerAnswers \/ TrackerCloses
  BY <1>6, TrackerStep, CloseStep
<1> QED BY <1>1, <1>2, <1>3, <1>4, <1>5, <1>6 DEF Next

LEMMA PeerInvariant == ASSUME SmallFiles PROVE Spec => []PeerInv
<1>1. Init => PeerInv
  BY InitPeer
<1>2. PeerInv /\ [Next]_vars => PeerInv'
  BY NextPeer
<1> QED BY <1>1, <1>2, PTL DEF Spec

LEMMA RingBound ==
    ASSUME NEW t, RingInv(t)
    PROVE  /\ t.head \in 0..UintMod-1 /\ t.tail \in 0..UintMod-1
           /\ (t.tail - t.head) % UintMod <= TASKBUFSIZ
<1>1. PICK h \in Nat, l \in Nat : h = t.head /\ l = t.tail /\ h <= l /\ l <= h + TASKBUFSIZ /\ l < UintMod
  BY DEF RingInv, Buffer
<1>2. PICK d \in Nat : d = l - h /\ d <= TASKBUFSIZ /\ d < UintMod
  BY <1>1, Limits
<1>3. d % UintMod = d
  BY <1>2, NoWrap
<1> QED BY <1>1, <1>2, <1>3, Limits

LEMMA TypesFollow == ASSUME PeerInv PROVE TypeOK
<1>1. Wanted \in Seq(File) /\ Len(Wanted) \in Nat /\ DOMAIN Wanted = 1..Len(Wanted)
  BY ScenarioTypes DEF PeerInv, Wanted
<1>2. main.next \in 1..Len(Wanted)+1 /\ main.count \in 0..Len(Wanted)
  BY <1>1 DEF PeerInv, MainInv
<1>3. DOMAIN child \subseteq 1..Len(Wanted)
  BY <1>1, <1>2 DEF PeerInv, ChildrenInv
<1>4. ASSUME NEW c \in DOMAIN child
      PROVE  /\ RingInv(child[c].t) /\ child[c].i < MaxNames
             /\ child[c].pc \in {"read", "write"} => child[c].named
             /\ child[c].linked => DiskName(child[c]) \in DOMAIN disk
  BY DEF PeerInv, ChildrenInv, DownloadInv, Counted, NamedInv
<1>5. \A t \in {up.t} \cup {child[c].t : c \in DOMAIN child} : RingInv(t)
  BY <1>4 DEF PeerInv, UpInv
<1>6. have \subseteq {Wanted[k] : k \in DOMAIN Wanted} \cup {n[1] : n \in DOMAIN scenario.disk}
  <2>1. SUFFICES ASSUME NEW f \in have
                 PROVE  f \in {Wanted[k] : k \in DOMAIN Wanted} \/ f \in {n[1] : n \in DOMAIN scenario.disk}
    OBVIOUS
  <2>2. Owned(f)
    BY DEF PeerInv, HaveInv, Announced
  <2>3. CASE <<f, 0>> \in DOMAIN scenario.disk \cup refused
    <3>1. <<f, 0>>[1] = f
      OBVIOUS
    <3>2. <<f, 0>> \in refused => \E k \in DOMAIN Wanted : Wanted[k] = <<f, 0>>[1]
      BY DEF PeerInv, DiskInv
    <3> QED BY <2>3, <3>1, <3>2
  <2>4. ASSUME NEW c \in DOMAIN child, DiskName(child[c]) = <<f, 0>>
        PROVE  f \in {Wanted[k] : k \in DOMAIN Wanted}
    <3>1. child[c].file = Wanted[c] /\ c \in DOMAIN Wanted
      BY <1>1, <1>3 DEF PeerInv, ChildrenInv
    <3>2. child[c].file = f
      BY <2>4 DEF DiskName
    <3> QED BY <3>1, <3>2
  <2> QED BY <2>2, <2>3, <2>4 DEF Owned
<1>7. ASSUME NEW n \in Made PROVE Len(disk[n]) <= MaxSize + TASKBUFSIZ
  <2>1. PICK c \in DOMAIN child : child[c].linked /\ DiskName(child[c]) = n
    BY DEF Made
  <2>2. Len(disk[n]) = child[c].t.total /\ child[c].t.total <= MaxSize + TASKBUFSIZ
    BY <2>1 DEF PeerInv, ChildrenInv, DownloadInv, NamedInv, Counted
  <2> QED BY <2>2
<1> QED BY <1>2, <1>3, <1>4, <1>5, <1>6, <1>7, RingBound DEF TypeOK

LEMMA BytesFollow == ASSUME PeerInv PROVE BytesInOrder
<1>1. \A x, y, z \in Seq(Byte) : (x \o y) \o z = x \o (y \o z)
  BY ConcatThree
<1>2. ASSUME NEW c \in DOMAIN child, child[c].pc \in {"read", "write", "end"}, child[c].linked
      PROVE  disk[DiskName(child[c])] \o Held(child[c].t) \o child[c].src.data = AskedPeer(c).src.data
  <2>1. Moving(child[c], disk, scenario)
    BY <1>2, IsMoving DEF PeerInv, ChildrenInv, DiskInv
  <2> QED BY <1>1, <1>2, <2>1 DEF Moving, OnDisk, AskedPeer
<1>3. ASSUME up.pc \in {"send", "fill", "complete"}
      PROVE  up.sent \o Held(up.t) \o up.src.data = disk[up.file]
  <2>1. up.sent \in Seq(Byte) /\ Held(up.t) \in Seq(Byte) /\ up.src.data \in Seq(Byte)
    BY HeldIs DEF PeerInv, UpInv, Source
  <2>2. up.sent \o (Held(up.t) \o up.src.data) = disk[up.file]
    BY <1>3 DEF PeerInv, UpInv
  <2> QED BY <1>1, <2>1, <2>2
<1> QED BY <1>2, <1>3 DEF BytesInOrder

LEMMA WholeFollows == ASSUME PeerInv PROVE NothingPartial
<1>1. ASSUME NEW n \in Made, ~BusyWith(n) PROVE Whole(disk[n])
  <2>1. PICK c \in DOMAIN child : child[c].linked /\ DiskName(child[c]) = n
    BY DEF Made
  <2>2. child[c].pc \in {"done", "died"}
    BY <1>1, <2>1 DEF BusyWith
  <2> QED BY <2>1, <2>2 DEF PeerInv, ChildrenInv, DownloadInv, NamedInv
<1> QED BY <1>1 DEF NothingPartial, PeerInv, DiskInv

LEMMA HaveFollows == ASSUME PeerInv PROVE HaveIsTrue
<1>1. SUFFICES ASSUME NEW f \in have, <<f, 0>> \notin refused
               PROVE  /\ <<f, 0>> \in DOMAIN disk
                      /\ \A d \in DOMAIN child : child[d].linked /\ DiskName(child[d]) = <<f, 0>> =>
                            child[d].pc \notin {"read", "write", "again"}
  BY DEF HaveIsTrue
<1>2. Owned(f)
  BY DEF PeerInv, HaveInv, Announced
<1>3. CASE <<f, 0>> \in DOMAIN scenario.disk
  <2>1. <<f, 0>> \in DOMAIN disk
    BY <1>1, <1>3 DEF PeerInv, DiskInv, AsBefore
  <2>2. \A d \in DOMAIN child : ~(child[d].linked /\ DiskName(child[d]) = <<f, 0>>)
    BY <1>1, <1>3 DEF PeerInv, ChildrenInv, DownloadInv, NamedInv
  <2> QED BY <2>1, <2>2
<1>4. ASSUME NEW c \in DOMAIN child, child[c].linked, DiskName(child[c]) = <<f, 0>>,
             child[c].pc \in {"have", "done", "died"}
      PROVE  /\ <<f, 0>> \in DOMAIN disk
             /\ \A d \in DOMAIN child : child[d].linked /\ DiskName(child[d]) = <<f, 0>> => d = c
  BY <1>4 DEF PeerInv, ChildrenInv, DownloadInv, NamedInv
<1> QED BY <1>1, <1>2, <1>3, <1>4 DEF Owned

LEMMA TriesFollow == ASSUME PeerInv PROVE TriesAllPeers
<1>1. SUFFICES ASSUME NEW c \in DOMAIN child, child[c].pc = "done", scenario.faults = 0,
                      NEW k \in DOMAIN child[c].list, Good(child[c].list[k])
               PROVE  \/ child[c].linked /\ Whole(disk[DiskName(child[c])])
                      \/ child[c].i = MaxNames - 1 /\ ~child[c].named
  BY DEF TriesAllPeers
<1>2. /\ PeersInv(child[c], scenario) /\ NamedInv(child[c], disk, scenario, refused) /\ StageInv(child[c], scenario)
      /\ child[c].list \in Seq(DOMAIN Sends)
  BY DEF PeerInv, ChildrenInv, DownloadInv, Download
<1>3. CASE child[c].named
  BY <1>1, <1>2, <1>3 DEF NamedInv
<1>4. CASE ~child[c].named /\ child[c].peers = <<>>
  <2>1. PICK j \in 0..Len(child[c].list) :
          /\ child[c].peers = SubSeq(child[c].list, j + 1, Len(child[c].list))
          /\ \A i \in 1..j : ~Good(child[c].list[i])
    BY <1>1, <1>2 DEF PeersInv
  <2>2. j = Len(child[c].list)
    <3>1. PICK l \in Nat : l = Len(child[c].list)
      BY <1>2
    <3>2. \A i \in (j + 1)..l : child[c].list[i] \in DOMAIN Sends
      BY <1>2, <3>1
    <3>3. Len(SubSeq(child[c].list, j + 1, l)) = IF j + 1 <= l THEN l - (j + 1) + 1 ELSE 0
      BY <3>1, <3>2, SubSeqProperties
    <3> QED BY <1>4, <2>1, <3>1, <3>3
  <2>3. k \in 1..j
    BY <1>2, <2>2
  <2> QED BY <1>1, <2>1, <2>3
<1> QED BY <1>1, <1>2, <1>3, <1>4 DEF StageInv

-----------------------------------------------------------------------------
(* The theorems.                                                            *)

\* Spec => []TypeOK: the ring stays in its bounds, a process that writes has its
\* file open, and no file is more than a buffer above the limit (osppeer.c:582).
THEOREM TypeCorrect == ASSUME SmallFiles PROVE Spec => []TypeOK
<1>1. PeerInv => TypeOK
  BY TypesFollow
<1> QED BY <1>1, PeerInvariant, PTL

\* Spec => []BytesInOrder: file, ring and what is to come are what the peer sent, in
\* order; so for what task_upload() sends.
THEOREM BytesStayInOrder == ASSUME SmallFiles PROVE Spec => []BytesInOrder
<1>1. PeerInv => BytesInOrder
  BY BytesFollow
<1> QED BY <1>1, PeerInvariant, PTL

\* Spec => []NothingPartial: a file no process is writing is an old one as it was, or
\* all of what a peer sent; an old file is lost only when open() failed on its name,
\* and its try_again unlinked it (osppeer.c:554-558, 611-613).
THEOREM NothingPartialStays == ASSUME SmallFiles PROVE Spec => []NothingPartial
<1>1. PeerInv => NothingPartial
  BY WholeFollows
<1> QED BY <1>1, PeerInvariant, PTL

\* Spec => []HaveIsTrue: what the tracker was told is here, is here and complete, unless
\* open() failed on its name (osppeer.c:600-604, 611-613).
THEOREM AnnouncedIsThere == ASSUME SmallFiles PROVE Spec => []HaveIsTrue
<1>1. PeerInv => HaveIsTrue
  BY HaveFollows
<1> QED BY <1>1, PeerInvariant, PTL

\* Spec => []TriesAllPeers: without faults a process with a good peer in its list ends
\* with the file, or with every name taken.
THEOREM AllPeersTried == ASSUME SmallFiles PROVE Spec => []TriesAllPeers
<1>1. PeerInv => TriesAllPeers
  BY TriesFollow
<1> QED BY <1>1, PeerInvariant, PTL
=============================================================================
