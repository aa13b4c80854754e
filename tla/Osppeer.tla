------------------------------- MODULE Osppeer -------------------------------
(***************************************************************************)
(* The OSP peer (lab4/osppeer.c): it registers with a tracker, downloads   *)
(* the files of its command line, each in a process of its own, and then   *)
(* serves another peer.  The processes share the connection to the         *)
(* tracker.  The tracker and the other peers are external.  Not modelled:  *)
(* the options and "evil mode".                                            *)
(*                                                                         *)
(* A name on disk is a pair of a file and a number: <<f, 0>> is "f" and    *)
(* <<f, i>> is "f~i~".  What the tracker sends is a sequence of pieces of  *)
(* lines, and a read may end after any of them.                            *)
(***************************************************************************)
EXTENDS TaskBuf, SequencesExt

CONSTANTS
    File,       \* names of files
    Scenarios,  \* [wanted, disk, faults, request]: command line, files, faults, upload request
    MaxNames,   \* how many names are tried for a file (50)
    MaxSize,    \* size above which a download is given up (20 MB)
    ReplySize,  \* how many pieces of a reply fit in a buffer
    Sends,      \* what each peer sends: [up, src]
    Listed,     \* the peers the tracker lists for a file it knows
    Self,       \* this peer, as it may be listed
    Ports,      \* ports tried by start_listen()
    BusyPorts

ASSUME LimitsAssumption ==
    /\ MaxNames \in Nat \ {0} /\ MaxSize \in Nat
    /\ MaxSize + 2 * TASKBUFSIZ < UintMod /\ ReplySize \in Nat

ASSUME PeerAssumption ==
    /\ \A s \in Scenarios :
          /\ s.wanted \in Seq(File) /\ s.faults \in Nat
          /\ DOMAIN s.disk \subseteq File \X Nat /\ s.disk \in [DOMAIN s.disk -> Seq(Byte)]
          /\ s.request.name \in File \X Nat
    /\ \A p \in DOMAIN Sends : Sends[p].src \in Source
    /\ \A f \in DOMAIN Listed : Listed[f] \in Seq(DOMAIN Sends)

VARIABLES
    scenario,   \* a member of Scenarios
    main,       \* the first process
    child,      \* the download processes, by their place on the command line
    up,         \* the upload process
    disk,       \* contents of the files in the directory
    requests,   \* sent to the tracker and not answered
    reply,      \* sent by the tracker and not read
    tracker,    \* "open" or "closed"
    have,       \* files registered with the tracker
    faults,     \* how many disk faults may still happen
    refused     \* history: the names on which open() failed

vars == <<scenario, main, child, up, disk, requests, reply, tracker, have, faults, refused>>

Wanted == scenario.wanted

\* f, with v at x.
Extend(f, x, v) == [y \in DOMAIN f \cup {x} |-> IF y = x THEN v ELSE f[y]]

\* The pieces of a reply; each is marked with the process the reply is for (0 is main).
\* A line of the message starts with its code and a space ("200 ", the terminator) or
\* "-" (a context line), then has some text; a line ends with "nl".
PeerLine(p, to) == <<[k |-> "peer", peer |-> p, to |-> to], [k |-> "nl", to |-> to]>>
MessageLine(ends, ok, to) ==
    <<[k |-> "code", ends |-> ends, ok |-> ok, to |-> to], [k |-> "text", to |-> to], [k |-> "nl", to |-> to]>>

NoSource == [data |-> <<>>, end |-> "eof"]

Init ==
    /\ scenario \in Scenarios
    /\ main = [pc |-> "greeting", lines |-> <<>>, pos |-> 0, port |-> 0, todo |-> {}, next |-> 1, count |-> 0]
    /\ child = [c \in {} |-> {}]
    /\ up = [pc |-> "none", t |-> task_new, src |-> NoSource, file |-> <<>>, sent |-> <<>>]
    /\ disk = scenario.disk
    /\ requests = <<>> /\ reply = MessageLine(FALSE, TRUE, 0) \o MessageLine(TRUE, TRUE, 0)
    /\ tracker = "open" /\ have = {}
    /\ faults = scenario.faults /\ refused = {}

-----------------------------------------------------------------------------
(* read_tracker_response(): p.lines is what was read, and the first p.pos   *)
(* pieces of it were looked at before the last read.                        *)

MessageStarts(lines) == {i \in DOMAIN lines : lines[i].k = "code" /\ (i > 1 => lines[i-1].k = "nl")}
Terminators(lines) == {i \in MessageStarts(lines) : lines[i].ends}

\* Everything that is there is passed over, except a code that nothing follows.
Passed(lines) == IF Len(lines) \in MessageStarts(lines) THEN Len(lines) - 1 ELSE Len(lines)

\* The buffer ends in a newline, and a terminator line is among what was not passed over.
Complete(p) ==
    /\ p.lines # <<>> /\ Last(p.lines).k = "nl"
    /\ \E i \in Terminators(p.lines) : i > p.pos

\* Where the message portion starts (split_pos), and its first digit.
MessagePos(lines) == Min(MessageStarts(lines))
Success(lines) == lines[MessagePos(lines)].ok

Full(p) == Len(p.lines) >= ReplySize

\* What process p can be after one read, and what it leaves; when the connection
\* ends, or its buffer is full, it dies.
read_tracker_response(p) ==
    IF Complete(p) THEN {}
    ELSE IF Full(p) \/ (reply = <<>> /\ tracker = "closed")
    THEN {[p |-> [p EXCEPT !.pc = "died"], rest |-> reply]}
    ELSE {[p |-> [p EXCEPT !.pos = Passed(p.lines), !.lines = @ \o SubSeq(reply, 1, n)],
           rest |-> SubSeq(reply, n + 1, Len(reply))] :
              n \in {m \in 1..Len(reply) : Len(p.lines) + m <= ReplySize}}

\* Process p sends a request; its buffer is empty when it then reads the answer.
Asked(r) == requests' = Append(requests, r)
Emptied(p) == [p EXCEPT !.lines = <<>>, !.pos = 0]

-----------------------------------------------------------------------------
(* main()                                                                   *)

MainReads ==
    /\ main.pc \in {"greeting", "address", "register", "want"}
    /\ \E r \in read_tracker_response(main) : main' = r.p /\ reply' = r.rest
    /\ UNCHANGED <<scenario, child, up, disk, requests, tracker, have, faults, refused>>

\* start_listen(), and the ADDR request of register_files().
start_listen ==
    /\ main.pc = "greeting" /\ Complete(main)
    /\ LET free == {p \in Ports : p \notin BusyPorts}
       IN  IF free = {} THEN main' = [main EXCEPT !.pc = "died"] /\ UNCHANGED requests
           ELSE /\ main' = [Emptied(main) EXCEPT !.pc = "address",
                                !.port = CHOOSE p \in free : \A q \in free : p <= q]
                /\ Asked([op |-> "ADDR", from |-> 0])
    /\ UNCHANGED <<scenario, child, up, disk, reply, tracker, have, faults, refused>>

\* The directory is listed when the tracker accepts the address; names that end
\* in "~" are not registered.
ListDirectory ==
    /\ main.pc = "address" /\ Complete(main)
    /\ main' = IF Success(main.lines)
               THEN [main EXCEPT !.pc = "files", !.todo = {f \in {n[1] : n \in DOMAIN disk} : <<f, 0>> \in DOMAIN disk}]
               ELSE [main EXCEPT !.pc = "download"]
    /\ UNCHANGED <<scenario, child, up, disk, requests, reply, tracker, have, faults, refused>>

register_files ==
    /\ \/ main.pc = "files"
       \/ main.pc = "register" /\ Complete(main)
    /\ \/ /\ main.todo = {}
          /\ main' = [main EXCEPT !.pc = "download"]
          /\ UNCHANGED requests
       \/ \E f \in main.todo :
            /\ main' = [Emptied(main) EXCEPT !.pc = "register", !.todo = @ \ {f}]
            /\ Asked([op |-> "HAVE", file |-> f, from |-> 0])
    /\ UNCHANGED <<scenario, child, up, disk, reply, tracker, have, faults, refused>>

\* The first half of start_download(); after the last file main() waits.
Want ==
    /\ main.pc = "download"
    /\ IF main.next > Len(Wanted)
       THEN main' = [main EXCEPT !.pc = "wait"] /\ UNCHANGED requests
       ELSE /\ main' = [Emptied(main) EXCEPT !.pc = "want"]
            /\ Asked([op |-> "WANT", file |-> Wanted[main.next], from |-> 0])
    /\ UNCHANGED <<scenario, child, up, disk, reply, tracker, have, faults, refused>>

\* The data portion is lines of a peer each; one is put in front of those before it.
Formatted(lines) ==
    \A i \in 1..(MessagePos(lines) - 1) : lines[i].k = (IF i % 2 = 1 THEN "peer" ELSE "nl")
PeerList(lines) == Reverse([i \in 1..((MessagePos(lines) - 1) \div 2) |-> lines[2 * i - 1].peer])

\* disk_filename is set when "named"; the file made under it is still there when "linked".
NewDownload(f, peers) ==
    [pc |-> "connect", file |-> f, list |-> peers, peers |-> peers, t |-> task_new, src |-> NoSource,
     i |-> 0, named |-> FALSE, linked |-> FALSE, lines |-> <<>>, pos |-> 0]

\* The other half: without an error of the tracker a process is forked; on any other
\* format of the list the program ends.
start_download ==
    /\ main.pc = "want" /\ Complete(main)
    /\ \/ /\ Success(main.lines) /\ Formatted(main.lines)
          /\ child' = Extend(child, main.next, NewDownload(Wanted[main.next], PeerList(main.lines)))
          /\ main' = [main EXCEPT !.pc = "download", !.next = @ + 1, !.count = @ + 1]
          /\ UNCHANGED faults
       \/ /\ Success(main.lines) /\ ~Formatted(main.lines)
          /\ main' = [main EXCEPT !.pc = "died"]
          /\ UNCHANGED <<child, faults>>
       \/ /\ ~Success(main.lines)
          /\ main' = [main EXCEPT !.pc = "download", !.next = @ + 1]
          /\ UNCHANGED <<child, faults>>
       \/ /\ Success(main.lines) /\ Formatted(main.lines) /\ faults > 0      \* fork() fails
          /\ main' = [main EXCEPT !.pc = "download", !.next = @ + 1]
          /\ faults' = faults - 1
          /\ UNCHANGED child
    /\ UNCHANGED <<scenario, up, disk, requests, reply, tracker, have, refused>>

Exited == {c \in DOMAIN child : child[c].pc \in {"done", "died"}}

\* waitpid(-1), once for every process forked.
WaitForDownloads ==
    /\ main.pc = "wait"
    /\ \/ /\ main.count > 0
          /\ Cardinality(Exited) > Cardinality(DOMAIN child) - main.count
          /\ main' = [main EXCEPT !.count = @ - 1]
       \/ /\ main.count = 0
          /\ main' = [main EXCEPT !.pc = "accept"]
    /\ UNCHANGED <<scenario, child, up, disk, requests, reply, tracker, have, faults, refused>>

\* task_listen() and fork(); main() returns after the first connection.
task_listen ==
    /\ main.pc = "accept"
    /\ \/ /\ main' = [main EXCEPT !.pc = "done"]
          /\ up' = [up EXCEPT !.pc = "request"]
          /\ UNCHANGED faults
       \/ /\ faults > 0                             \* fork() fails
          /\ faults' = faults - 1
          /\ UNCHANGED <<main, up>>
    /\ UNCHANGED <<scenario, child, disk, requests, reply, tracker, have, refused>>

-----------------------------------------------------------------------------
(* task_download(), in process c                                            *)

Becomes(c, p) == child' = [child EXCEPT ![c] = p]
DiskName(p) == <<p.file, p.i>>
Again(p) == [p EXCEPT !.pc = "again"]

\* Mutant: what was written for the last peer still counts.
task_pop_peer_total(p) ==
    [p EXCEPT !.pc = "connect", !.peers = Tail(@), !.t = [task_new EXCEPT !.total = p.t.total],
              !.src = NoSource, !.i = 0, !.named = FALSE, !.linked = FALSE]

\* Mutant: a peer that does not answer stays in front.
task_pop_peer_stays(p) ==
    [p EXCEPT !.pc = "connect", !.t = task_new, !.src = NoSource, !.i = 0, !.named = FALSE, !.linked = FALSE]

task_pop_peer(p) ==
    [p EXCEPT !.pc = "connect", !.peers = Tail(@), !.t = task_new, !.src = NoSource,
              !.i = 0, !.named = FALSE, !.linked = FALSE]

\* Whether the connection to a peer is made.
open_socket(peer) == Sends[peer].up

\* The front peer is asked, unless it is this one or cannot be reached.
Connect(c) ==
    /\ child[c].pc = "connect"
    /\ Becomes(c, IF child[c].peers = <<>> THEN [child[c] EXCEPT !.pc = "done"]
                  ELSE IF Head(child[c].peers) = Self \/ ~open_socket(Head(child[c].peers))
                       THEN Again(child[c])
                  ELSE [child[c] EXCEPT !.pc = "open", !.src = Sends[Head(child[c].peers)].src])
    /\ UNCHANGED <<scenario, main, up, disk, requests, reply, tracker, have, faults, refused>>

NameLeft(p) == p.i + 1 < MaxNames

\* One name after the other is tried; without a name the download is over.  open()
\* may fail for another reason than that the name exists, whether or not it does.
OpenFile(c) ==
    /\ child[c].pc = "open"
    /\ \/ /\ DiskName(child[c]) \in DOMAIN disk
          /\ Becomes(c, IF NameLeft(child[c]) THEN [child[c] EXCEPT !.i = @ + 1]
                        ELSE [child[c] EXCEPT !.pc = "done"])
          /\ UNCHANGED <<disk, faults, refused>>
       \/ /\ DiskName(child[c]) \notin DOMAIN disk
          /\ disk' = Extend(disk, DiskName(child[c]), <<>>)
          /\ Becomes(c, [child[c] EXCEPT !.pc = "read", !.named = TRUE, !.linked = TRUE])
          /\ UNCHANGED <<faults, refused>>
       \/ /\ faults > 0
          /\ faults' = faults - 1 /\ refused' = refused \cup {DiskName(child[c])}
          /\ Becomes(c, Again([child[c] EXCEPT !.named = TRUE]))
          /\ UNCHANGED disk
    /\ UNCHANGED <<scenario, main, up, requests, reply, tracker, have>>

ReadPeer(c) ==
    /\ child[c].pc = "read"
    /\ \E r \in read_to_taskbuf(child[c].t, child[c].src) :
          Becomes(c, [child[c] EXCEPT !.t = r.t, !.src = r.src,
                          !.pc = IF r.ret = "ERROR" THEN "again"
                                 ELSE IF r.ret = "END" /\ r.t.head = r.t.tail THEN "end" ELSE "write"])
    /\ UNCHANGED <<scenario, main, up, disk, requests, reply, tracker, have, faults, refused>>

\* Mutant: the size is not checked.
TooLarge_never(p) == FALSE

TooLarge(p) == p.t.total > MaxSize

\* A file that was unlinked in the meantime is written, but nobody finds it.
WriteFile(c) ==
    /\ child[c].pc = "write"
    /\ \/ /\ TooLarge(child[c])
          /\ Becomes(c, Again(child[c]))
          /\ UNCHANGED <<disk, faults>>
       \/ /\ ~TooLarge(child[c])
          /\ \E w \in write_from_taskbuf(child[c].t) :
                /\ disk' = IF child[c].linked THEN [disk EXCEPT ![DiskName(child[c])] = @ \o w.bytes] ELSE disk
                /\ Becomes(c, [child[c] EXCEPT !.t = w.t, !.pc = "read"])
          /\ UNCHANGED faults
       \/ /\ ~TooLarge(child[c]) /\ faults > 0    \* write() fails, or is interrupted
          /\ faults' = faults - 1
          /\ \E pc \in {"again", "read"} : Becomes(c, [child[c] EXCEPT !.pc = pc])
          /\ UNCHANGED disk
    /\ UNCHANGED <<scenario, main, up, requests, reply, tracker, have, refused>>

\* Mutant: the tracker is told of a file saved under another name too.
Announces_always(p) == TRUE

Announces(p) == p.i = 0

\* An empty file is a failure; the tracker is told of one saved as it is called.
Finish(c) ==
    /\ child[c].pc = "end"
    /\ \/ /\ child[c].t.total > 0 /\ Announces(child[c])
          /\ Asked([op |-> "HAVE", file |-> child[c].file, from |-> c])
          /\ Becomes(c, [Emptied(child[c]) EXCEPT !.pc = "have"])
       \/ /\ child[c].t.total > 0 /\ ~Announces(child[c])
          /\ Becomes(c, [child[c] EXCEPT !.pc = "done"])
          /\ UNCHANGED requests
       \/ /\ child[c].t.total = 0
          /\ Becomes(c, Again(child[c]))
          /\ UNCHANGED requests
    /\ UNCHANGED <<scenario, main, up, disk, reply, tracker, have, faults, refused>>

\* The answer to HAVE is read and ignored.
ReadAnswer(c) ==
    /\ child[c].pc = "have"
    /\ \/ /\ Complete(child[c])
          /\ Becomes(c, [child[c] EXCEPT !.pc = "done"])
          /\ UNCHANGED reply
       \/ \E r \in read_tracker_response(child[c]) : Becomes(c, r.p) /\ reply' = r.rest
    /\ UNCHANGED <<scenario, main, up, disk, requests, tracker, have, faults, refused>>

\* Mutant: the file of the peer that failed is left.
TryAgain_leaves(c) ==
    /\ child[c].pc = "again"
    /\ Becomes(c, task_pop_peer(child[c]))
    /\ UNCHANGED <<scenario, main, up, disk, requests, reply, tracker, have, faults, refused>>

\* try_again: what has the name goes, whoever made it, and the peer.
TryAgain(c) ==
    /\ child[c].pc = "again"
    /\ \/ /\ child[c].named
          /\ disk' = [n \in DOMAIN disk \ {DiskName(child[c])} |-> disk[n]]
          /\ child' = [d \in DOMAIN child |->
                          IF d = c THEN task_pop_peer(child[c])
                          ELSE [child[d] EXCEPT !.linked = @ /\ DiskName(child[d]) # DiskName(child[c])]]
       \/ /\ ~child[c].named
          /\ Becomes(c, task_pop_peer(child[c]))
          /\ UNCHANGED disk
    /\ UNCHANGED <<scenario, main, up, requests, reply, tracker, have, faults, refused>>

-----------------------------------------------------------------------------
(* task_upload()                                                            *)

\* The paths are checked: the file exists, and in the current directory.
Served(name) == name \in DOMAIN disk

ReadRequest ==
    /\ up.pc = "request"
    /\ LET r == scenario.request
       IN  up' = IF r.wellFormed /\ Served(r.name)
                 THEN [up EXCEPT !.pc = "send", !.file = r.name,
                           !.src = [data |-> disk[r.name], end |-> "eof"]]
                 ELSE [up EXCEPT !.pc = "refused"]
    /\ UNCHANGED <<scenario, main, child, disk, requests, reply, tracker, have, faults, refused>>

\* write_from_taskbuf() to the peer, which may have gone.
SendBytes ==
    /\ up.pc = "send"
    /\ \/ \E w \in write_from_taskbuf(up.t) :
            up' = [up EXCEPT !.pc = "fill", !.t = w.t, !.sent = @ \o w.bytes]
       \/ WriteRun(up.t) > 0 /\ up' = [up EXCEPT !.pc = "broken"]
    /\ UNCHANGED <<scenario, main, child, disk, requests, reply, tracker, have, faults, refused>>

FillBuffer ==
    /\ up.pc = "fill"
    /\ \E r \in read_to_taskbuf(up.t, up.src) :
          up' = [up EXCEPT !.t = r.t, !.src = r.src,
                     !.pc = IF r.ret = "END" /\ r.t.head = r.t.tail THEN "complete" ELSE "send"]
    /\ UNCHANGED <<scenario, main, child, disk, requests, reply, tracker, have, faults, refused>>

-----------------------------------------------------------------------------
(* The tracker                                                              *)

PeerLines(peers, to) ==
    [i \in 1..(2 * Len(peers)) |-> PeerLine(peers[(i + 1) \div 2], to)[2 - (i % 2)]]

Answer(r) ==
    IF r.op # "WANT" THEN MessageLine(TRUE, TRUE, r.from)
    ELSE IF r.file \in DOMAIN Listed
    THEN PeerLines(Listed[r.file], r.from) \o MessageLine(TRUE, TRUE, r.from)
    ELSE MessageLine(TRUE, FALSE, r.from)

TrackerAnswers ==
    /\ tracker = "open" /\ requests # <<>>
    /\ requests' = Tail(requests)
    /\ reply' = reply \o Answer(Head(requests))
    /\ have' = IF Head(requests).op = "HAVE" THEN have \cup {Head(requests).file} ELSE have
    /\ UNCHANGED <<scenario, main, child, up, disk, tracker, faults, refused>>

TrackerCloses ==
    /\ tracker = "open" /\ faults > 0
    /\ tracker' = "closed" /\ faults' = faults - 1
    /\ UNCHANGED <<scenario, main, child, up, disk, requests, reply, have, refused>>

-----------------------------------------------------------------------------
MainStep ==
    \/ MainReads \/ start_listen \/ ListDirectory \/ register_files \/ Want \/ start_download
    \/ WaitForDownloads

task_download(c) ==
    \/ Connect(c) \/ OpenFile(c) \/ ReadPeer(c) \/ WriteFile(c) \/ Finish(c) \/ ReadAnswer(c)
    \/ TryAgain(c)

task_upload == ReadRequest \/ SendBytes \/ FillBuffer

Next ==
    \/ MainStep \/ task_listen
    \/ \E c \in DOMAIN child : task_download(c)
    \/ task_upload
    \/ TrackerAnswers \/ TrackerCloses

\* The first process and the downloads run when they can, and the tracker answers.  No
\* other peer has to connect, to send a request or to take what is uploaded.
Fairness ==
    /\ WF_vars(MainStep) /\ WF_vars(TrackerAnswers)
    /\ WF_vars(\E c \in DOMAIN child : task_download(c))

Spec == Init /\ [][Next]_vars /\ Fairness

-----------------------------------------------------------------------------
\* The names this run of the peer made, and that are still there.
Made == {DiskName(child[c]) : c \in {d \in DOMAIN child : child[d].linked}}

(* Buffers stay in their bounds; a process that writes a file has it open; and as the
   size is looked at before each write (line 582), a file exceeds the limit by one
   buffer at most, also from a peer that sends on and on. *)
TypeOK ==
    /\ main.count \in 0..Len(Wanted) /\ main.next \in 1..Len(Wanted)+1
    /\ \A t \in {up.t} \cup {child[c].t : c \in DOMAIN child} :
          /\ t.head \in 0..UintMod-1 /\ t.tail \in 0..UintMod-1
          /\ (t.tail - t.head) % UintMod <= TASKBUFSIZ
    /\ \A c \in DOMAIN child :
          /\ child[c].i < MaxNames
          /\ child[c].pc \in {"read", "write"} => child[c].named
          /\ child[c].linked => DiskName(child[c]) \in DOMAIN disk
    /\ DOMAIN child \subseteq 1..Len(Wanted)
    /\ have \subseteq {Wanted[k] : k \in DOMAIN Wanted} \cup {n[1] : n \in DOMAIN scenario.disk}
    /\ \A n \in Made : Len(disk[n]) <= MaxSize + TASKBUFSIZ

\* The peer process c is downloading from.
AskedPeer(c) == Sends[Head(child[c].peers)]

(* read_to_taskbuf(), write_from_taskbuf(): what is on disk, in the ring and still to
   come is at every moment what the peer sent, in its order; so for an upload. *)
BytesInOrder ==
    /\ \A c \in DOMAIN child :
          child[c].pc \in {"read", "write", "end"} /\ child[c].linked =>
              disk[DiskName(child[c])] \o Held(child[c].t) \o child[c].src.data = AskedPeer(c).src.data
    /\ up.pc \in {"send", "fill", "complete"} =>
          up.sent \o Held(up.t) \o up.src.data = disk[up.file]

BusyWith(n) == \E c \in DOMAIN child : child[c].linked /\ DiskName(child[c]) = n /\ child[c].pc \notin {"done", "died"}

\* The whole of what some peer sends.
Whole(data) == \E p \in DOMAIN Sends : Sends[p].src = [data |-> data, end |-> "eof"]

\* A file is there as it was when the peer was started.
AsBefore(n) == n \in DOMAIN scenario.disk /\ n \in DOMAIN disk /\ disk[n] = scenario.disk[n]

(* task_download(): a file that no process is writing is an old one as it was, or the
   whole of what some peer sent; what a peer failed to send does not stay behind.  An
   old file is lost only when open() failed on its name. *)
NothingPartial ==
    /\ \A n \in DOMAIN disk : ~BusyWith(n) => AsBefore(n) \/ Whole(disk[n])
    /\ \A n \in DOMAIN scenario.disk : AsBefore(n) \/ n \in refused

(* task_download(): what the tracker is told to be here is here, and complete, unless
   open() failed on its name before or since. *)
HaveIsTrue ==
    \A f \in have :
        \/ <<f, 0>> \in refused
        \/ /\ <<f, 0>> \in DOMAIN disk
           /\ \A c \in DOMAIN child :
                 child[c].linked /\ DiskName(child[c]) = <<f, 0>> => child[c].pc \notin {"read", "write", "again"}

Good(p) == p # Self /\ Sends[p].up /\ Sends[p].src.data # <<>> /\ Sends[p].src.end = "eof"
           /\ Len(Sends[p].src.data) <= MaxSize

(* task_download(), "tries all peers until a download is successful": with a good peer
   in its list and no fault a process ends with the file, or when it met every name
   it may use taken. *)
TriesAllPeers ==
    \A c \in DOMAIN child :
        child[c].pc = "done" /\ scenario.faults = 0 /\ (\E k \in DOMAIN child[c].list : Good(child[c].list[k])) =>
            \/ child[c].linked /\ Whole(disk[DiskName(child[c])])
            \/ child[c].i = MaxNames - 1 /\ ~child[c].named

(* start_download(), "Contacts the tracker for a list of peers that have 'filename',
   and returns a task containing that peer list". *)
ListIsForFile ==
    \A c \in DOMAIN child : child[c].file \in DOMAIN Listed => child[c].list = Reverse(Listed[child[c].file])

\* The processes that read an answer of the tracker, with the number in "to".
Readers ==
    (IF main.pc \in {"greeting", "address", "register", "want"} THEN {[who |-> 0, p |-> main]} ELSE {})
    \cup {[who |-> c, p |-> child[c]] : c \in {d \in DOMAIN child : child[d].pc = "have"}}

\* A process has read a piece of an answer to another one.
Mixed == \E r \in Readers : \E i \in DOMAIN r.p.lines : r.p.lines[i].to # r.who

\* A process has passed over its terminator line.
Missed(p) == ~Complete(p) /\ \E i \in Terminators(p.lines) : i <= p.pos

\* A process waits for a peer that sends nothing.
Stalled(p) == p.pc = "read" /\ read_to_taskbuf(p.t, p.src) = {}

(* main(): it comes to serve others, whatever the peers and the disk do and however the
   downloads interleave, with five exceptions: the tracker goes away, a reply does not
   fit in the buffer, a process has read what was for another, a process has passed over
   its terminator line, or a peer stalls. *)
ComesToServe ==
    <>(\/ main.pc \in {"accept", "done"} \/ tracker = "closed" \/ (main.pc = "died" /\ Full(main))
       \/ Mixed \/ (\E r \in Readers : Missed(r.p)) \/ (\E c \in DOMAIN child : Stalled(child[c])))

-----------------------------------------------------------------------------
(* The inductive invariant PeerInv, and what it needs.                      *)

\* The files that were there are shorter than the counters of a buffer.
SmallFiles == \A s \in Scenarios : \A n \in DOMAIN s.disk : Len(s.disk[n]) < UintMod

Line ==
    [k : {"peer"}, peer : DOMAIN Sends, to : Nat] \cup [k : {"nl", "text"}, to : Nat]
    \cup [k : {"code"}, ends : BOOLEAN, ok : BOOLEAN, to : Nat]

Download ==
    [pc : {"connect", "open", "read", "write", "end", "have", "again", "done", "died"},
     file : File, list : Seq(DOMAIN Sends), peers : Seq(DOMAIN Sends), t : Buffer,
     src : Source, i : Nat, named : BOOLEAN, linked : BOOLEAN, lines : Seq(Line), pos : Nat]

\* A buffer that has written what it has counted, one buffer above the limit at most.
Counted(t) == RingInv(t) /\ t.total = t.head /\ t.total <= MaxSize + TASKBUFSIZ

\* The peers left are the last ones of the list; those before them were no good.
PeersInv(p, sc) ==
    \E k \in 0..Len(p.list) :
        /\ p.peers = SubSeq(p.list, k + 1, Len(p.list))
        /\ sc.faults = 0 => \A j \in 1..k : ~Good(p.list[j])

\* A download p, as to its name and what is there under it: what it unlinks is its
\* own, or a name on which open() failed.
NamedInv(p, dsk, sc, ref) ==
    /\ p.named => DiskName(p) \in ref \/ (p.linked /\ DiskName(p) \notin DOMAIN sc.disk)
    /\ p.named /\ sc.faults = 0 => p.linked
    /\ p.linked => p.named /\ DiskName(p) \in DOMAIN dsk
    /\ p.linked => Len(dsk[DiskName(p)]) = p.t.total
    /\ p.linked /\ p.pc \in {"have", "done", "died"} => Whole(dsk[DiskName(p)])
    /\ p.pc \in {"read", "write", "end"} => p.named
    /\ p.pc \in {"read", "write", "end"} /\ p.linked =>
          dsk[DiskName(p)] \o (Held(p.t) \o p.src.data) = Sends[Head(p.peers)].src.data

\* A download p, as to where it is.
StageInv(p, sc) ==
    /\ p.pc \in {"connect", "open"} => ~p.named /\ p.t = task_new
    /\ p.pc \in {"open", "read", "write", "end", "again"} => p.peers # <<>>
    /\ p.pc = "open" => p.src = Sends[Head(p.peers)].src
    /\ p.pc \in {"read", "write", "end"} => p.src.end = Sends[Head(p.peers)].src.end
    /\ p.pc = "end" => p.t.head = p.t.tail /\ p.src.data = <<>> /\ p.src.end = "eof"
    /\ p.pc = "have" => p.named /\ p.i = 0
    /\ p.pc = "again" /\ sc.faults = 0 => ~Good(Head(p.peers))
    /\ p.pc = "done" /\ ~p.named => p.peers = <<>> \/ p.i = MaxNames - 1

DownloadInv(p, dsk, sc, ref) ==
    /\ p \in Download /\ p.i < MaxNames
    /\ Counted(p.t) /\ PeersInv(p, sc) /\ NamedInv(p, dsk, sc, ref) /\ StageInv(p, sc)

ChildrenInv ==
    /\ DOMAIN child \subseteq 1..(main.next - 1)
    /\ \A c \in DOMAIN child : DownloadInv(child[c], disk, scenario, refused) /\ child[c].file = Wanted[c]
    /\ \A c, d \in DOMAIN child :
          c # d /\ child[c].linked /\ child[d].linked => DiskName(child[c]) # DiskName(child[d])

DiskType(dsk) == DOMAIN dsk \subseteq File \X Nat /\ dsk \in [DOMAIN dsk -> Seq(Byte)]

DiskInv ==
    /\ DiskType(disk)
    /\ \A n \in DOMAIN disk : n \in Made \/ AsBefore(n)
    /\ \A n \in DOMAIN scenario.disk : AsBefore(n) \/ n \in refused
    /\ scenario.faults = 0 => refused = {}
    /\ \A n \in refused : \E k \in DOMAIN Wanted : Wanted[k] = n[1]

\* What the tracker was or will be told to be here.
Announced == have \cup {requests[k].file : k \in {j \in DOMAIN requests : requests[j].op = "HAVE"}}

\* A file is there as it was, or because a process has all of it, or open() failed on it.
Owned(f) ==
    \/ <<f, 0>> \in DOMAIN scenario.disk \cup refused
    \/ \E c \in DOMAIN child : /\ child[c].linked /\ DiskName(child[c]) = <<f, 0>>
                               /\ child[c].pc \in {"have", "done", "died"}

HaveInv == \A f \in Announced : Owned(f)

MainInv ==
    /\ DOMAIN main = {"pc", "lines", "pos", "port", "todo", "next", "count"}
    /\ main.lines \in Seq(Line) /\ main.pos \in Nat
    /\ \A f \in main.todo : f \in File /\ <<f, 0>> \in DOMAIN scenario.disk
    /\ main.next \in 1..Len(Wanted)+1 /\ (main.pc = "want" => main.next <= Len(Wanted))
    /\ main.count \in 0..(main.next - 1) /\ (main.pc \in {"accept", "done"} => main.count = 0)
    /\ main.pc \in {"greeting", "address", "files", "register"} => DOMAIN child = {}
    /\ Cardinality(DOMAIN child \ Exited) <= main.count

UpPc == {"none", "request", "send", "fill", "complete", "broken", "refused"}

UpInv ==
    /\ DOMAIN up = {"pc", "t", "src", "file", "sent"} /\ up.pc \in UpPc
    /\ RingInv(up.t) /\ up.src \in Source /\ up.sent \in Seq(Byte)
    /\ up.pc # "none" => main.pc = "done"
    /\ up.pc \in {"none", "request"} => up.t = task_new /\ up.sent = <<>>
    /\ up.pc \in {"send", "fill", "complete"} =>
          /\ up.file \in DOMAIN disk /\ Len(up.sent) = up.t.head
          /\ up.sent \o (Held(up.t) \o up.src.data) = disk[up.file]

Request == [op : {"ADDR"}, from : Nat] \cup [op : {"HAVE", "WANT"}, file : File, from : Nat]

TrackerInv == reply \in Seq(Line) /\ requests \in Seq(Request)

PeerInv ==
    /\ scenario \in Scenarios /\ faults \in 0..scenario.faults
    /\ MainInv /\ ChildrenInv /\ DiskInv /\ HaveInv /\ UpInv /\ TrackerInv

=============================================================================
