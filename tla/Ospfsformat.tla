---------------------------- MODULE Ospfsformat ----------------------------
(***************************************************************************)
(* ospfsformat (lab3/ospfsformat.c): it writes an image of an OSPFS file   *)
(* system with the files of a host directory.  All blocks go through a     *)
(* small cache: a block is pinned (busy) while the program holds a pointer *)
(* into it, the least recently used of the others makes room.              *)
(*                                                                         *)
(* The operators transform the state s of the program; a pointer to a      *)
(* block is the number of its slot in the cache.  The contents of a block  *)
(* are a function: of inodes, directory entries, block numbers, free bits, *)
(* or one piece of a file.  What it does not map is zero.  The image has   *)
(* the byte order of the host.  An abort of the program is s.ok = FALSE.   *)
(***************************************************************************)
EXTENDS Integers, Sequences, SequencesExt, FiniteSets, FiniteSetsExt, TLC

CONSTANTS
    Hosts,          \* [tree, links]: a directory of the host, and the options
                    \* -l in the order they are carried out, the last one first
    CacheSize,      \* slots of the cache (16)
    nblocks, ninodes,
    OSPFS_BLKSIZE,  \* bytes of a block (1024)
    OSPFS_BLKINODES,\* inodes in a block (16)
    DirEntries,     \* directory entries in a block (8)
    OSPFS_NDIRECT,  \* (10)
    OSPFS_NINDIRECT,\* (256)
    Ignored,        \* names of directories that are left out
    LongNames,      \* names above OSPFS_MAXNAMELEN
    MaxMissing      \* bound: names lost to failing calls before one more may fail

ASSUME FormatAssumption ==
    /\ {CacheSize, OSPFS_BLKSIZE, OSPFS_BLKINODES, DirEntries, OSPFS_NINDIRECT} \subseteq Nat \ {0}
    /\ OSPFS_NDIRECT \in Nat /\ MaxMissing \in Nat
    \* checked by main(), with one block of bitmap
    /\ nblocks \in Nat /\ ninodes \in 2..nblocks-3

VARIABLES
    host,           \* a member of Hosts
    link_contents,  \* option -c
    pc,             \* what main() does next
    stack,          \* the calls of writedirectory(), innermost first
    cur,            \* the file writefile() copies
    s,              \* cache, disk and counters
    \* history variables
    unseen,         \* paths lost because lstat() or readdir() failed
    unread,         \* paths of files lost because, with -c, read() or lseek() failed
    broken          \* the program has aborted because a system call failed

history == <<unseen, unread, broken>>
vars == <<host, link_contents, pc, stack, cur, s, history>>

Zero == [i \in {} |-> 0]
NoInode == [nlink |-> 0, size |-> 0, ftype |-> "reg", text |-> "", indirect |-> 0, indirect2 |-> 0,
            direct |-> [i \in 0..OSPFS_NDIRECT-1 |-> 0]]

Freemap == 2
InodeBlocks == (ninodes + OSPFS_BLKINODES - 1) \div OSPFS_BLKINODES
os_firstinob == Freemap + 1
RootIno == 1

At(data, i, default) == IF i \in DOMAIN data THEN data[i] ELSE default

-----------------------------------------------------------------------------
(* The block cache                                                          *)

Abort(st) == [st EXCEPT !.ok = FALSE]

flushb(st, k) == [st EXCEPT !.disk[st.cache[k].bno] = st.cache[k].data]

\* Mutant: the block that makes room is not written back.
Load_unflushed(st, k, bno, type) ==
    [st EXCEPT !.cache[k] = [@ EXCEPT !.bno = bno, !.busy = 0, !.type = type, !.data = st.disk[bno]]]

\* Slot k is taken for bno; the old block is written back first.
Load(st, k, bno, type) ==
    LET old == IF st.cache[k].used > 0 THEN flushb(st, k) ELSE st
    IN  [old EXCEPT !.cache[k] = [@ EXCEPT !.bno = bno, !.busy = 0, !.type = type, !.data = old.disk[bno]]]

\* The end of getblk(), with its assertion: a block that is in use keeps its type.
Pin(st, k, clr, type) ==
    IF st.cache[k].type # type /\ st.cache[k].busy > 0 THEN Abort(st)
    ELSE [st EXCEPT !.t = @ + 1, !.b = k,
              !.cache[k] = [@ EXCEPT !.used = st.t + 1, !.busy = @ + 1, !.type = type,
                                     !.data = IF clr THEN Zero ELSE @]]

Idle(st) == {k \in DOMAIN st.cache : st.cache[k].busy = 0}
LeastUsed(st) == Min({k \in Idle(st) : \A j \in Idle(st) : st.cache[k].used <= st.cache[j].used})

\* The slot of the block is the field b of the result.
getblk(st, bno, clr, type) ==
    IF ~st.ok \/ bno >= nblocks THEN Abort(st)
    ELSE LET hit == {k \in DOMAIN st.cache : st.cache[k].bno = bno}
         IN  IF hit # {} THEN Pin(st, Min(hit), clr, type)
             ELSE IF Idle(st) = {} THEN Abort(st)
             ELSE Pin(Load(st, LeastUsed(st), bno, type), LeastUsed(st), clr, type)

\* A new block is the next one of the disk.
newblk(st, type) == getblk([st EXCEPT !.nextb = @ + 1], st.nextb, TRUE, type)

putblk(st, k) == IF st.ok THEN [st EXCEPT !.cache[k].busy = @ - 1] ELSE st

Set(st, k, i, v) == IF st.ok THEN [st EXCEPT !.cache[k].data = (i :> v) @@ @] ELSE st
Get(st, k, i, default) == At(st.cache[k].data, i, default)
Bno(st, k) == st.cache[k].bno

\* An inode is a pointer: a slot and a place in the block.
inode(st, p) == Get(st, p.k, p.x, NoInode)
SetInode(st, p, v) == Set(st, p.k, p.x, v)

-----------------------------------------------------------------------------
(* storeblk(): block b becomes the nblk-th of the inode p.                  *)

\* The pointer block in slot k gets bno at i and is put.
PutPointer(st, k, i, bno) == putblk(Set(st, k, i, bno), k)

StoreIndirect(st, p, bno, i) ==
    IF inode(st, p).indirect # 0 THEN
        \* bindir is the block found
        LET s1 == getblk(st, inode(st, p).indirect, FALSE, "bits") IN PutPointer(s1, s1.b, i, bno)
    ELSE LET s1 == newblk(st, "bits")
         IN  PutPointer(SetInode(s1, p, [inode(st, p) EXCEPT !.indirect = st.nextb]), s1.b, i, bno)

\* The doubly indirect block is in slot k; i counts from its first data block.
StoreBelow(st, k, bno, i) ==
    IF ~st.ok THEN st
    ELSE LET old == Get(st, k, i \div OSPFS_NINDIRECT, 0)
             s1 == IF old = 0 THEN Set(newblk(st, "bits"), k, i \div OSPFS_NINDIRECT, st.nextb)
                   ELSE getblk(st, old, FALSE, "bits")
         IN  putblk(PutPointer(s1, s1.b, i % OSPFS_NINDIRECT, bno), k)

StoreIndirect2(st, p, bno, i) ==
    IF inode(st, p).indirect2 # 0 THEN
        LET s1 == getblk(st, inode(st, p).indirect2, FALSE, "bits") IN StoreBelow(s1, s1.b, bno, i)
    ELSE LET s1 == newblk(st, "bits")
         IN  StoreBelow(SetInode(s1, p, [inode(st, p) EXCEPT !.indirect2 = st.nextb]), s1.b, bno, i)

storeblk(st, p, bno, nblk) ==
    IF ~st.ok THEN st
    ELSE IF nblk < OSPFS_NDIRECT THEN SetInode(st, p, [inode(st, p) EXCEPT !.direct[nblk] = bno])
    ELSE IF nblk < OSPFS_NDIRECT + OSPFS_NINDIRECT THEN StoreIndirect(st, p, bno, nblk - OSPFS_NDIRECT)
    ELSE IF nblk < OSPFS_NDIRECT + OSPFS_NINDIRECT + OSPFS_NINDIRECT * OSPFS_NINDIRECT
    THEN StoreIndirect2(st, p, bno, nblk - OSPFS_NDIRECT - OSPFS_NINDIRECT)
    ELSE Abort(st)

\* The number of the inode is the field ino of the result.
allocinode(st) ==
    IF st.nextinode = ninodes THEN Abort(st)
    ELSE getblk([st EXCEPT !.nextinode = @ + 1, !.ino = st.nextinode],
                os_firstinob + st.nextinode \div OSPFS_BLKINODES, FALSE, "inodes")

Inode(st, ino) == [k |-> st.b, x |-> ino % OSPFS_BLKINODES]

-----------------------------------------------------------------------------
(* allocdirentry(): slot b of the result is the directory block, e the      *)
(* place of the entry.                                                      *)

NoEntry == [ino |-> 0, name |-> ""]

\* The block that pointer i of the pointer block just got names.
Follow(st, i, type) == getblk(st, Get(st, st.b, i, 0), FALSE, type)

\* The last block of directory d: all pointer blocks on the way to it are
\* pinned until it is there.
LastBlock(st, d, nblk) ==
    LET i == nblk - OSPFS_NDIRECT
        j == i - OSPFS_NINDIRECT
        bindir2 == getblk(st, d.indirect2, FALSE, "bits")
        bindir == IF j >= 0 THEN Follow(bindir2, j \div OSPFS_NINDIRECT, "bits")
                  ELSE getblk(st, d.indirect, FALSE, "bits")
    IN  IF j >= 0 THEN putblk(putblk(Follow(bindir, j % OSPFS_NINDIRECT, "dir"), bindir.b), bindir2.b)
        ELSE IF i >= 0 THEN putblk(Follow(bindir, i, "dir"), bindir.b)
        ELSE getblk(st, d.direct[nblk], FALSE, "dir")

WithEntry(st, k, e, name) == [Set(st, k, e, [NoEntry EXCEPT !.name = name]) EXCEPT !.b = k, !.e = e]

\* new_dirb: the directory p grows by a block, which is in slot k.
GrowDirectory(st, p, name, nblk, k) ==
    LET s1 == storeblk(st, p, st.nextb - 1, nblk)
    IN  IF ~s1.ok THEN s1
        ELSE WithEntry(SetInode(s1, p, [inode(s1, p) EXCEPT !.size = @ + OSPFS_BLKSIZE]), k, 0, name)

NewDirBlock(st, p, name, nblk) ==
    LET s1 == newblk(st, "dir") IN IF s1.ok THEN GrowDirectory(s1, p, name, nblk, s1.b) ELSE s1

FreeEntries(st, k) == {e \in 0..DirEntries-1 : Get(st, k, e, NoEntry).ino = 0}

InLastBlock(st, p, name, nblk) ==
    IF ~st.ok THEN st
    ELSE IF FreeEntries(st, st.b) # {} THEN WithEntry(st, st.b, Min(FreeEntries(st, st.b)), name)
    ELSE NewDirBlock(putblk(st, st.b), p, name, nblk + 1)

allocdirentry(st, p, name) ==
    LET nblk == (inode(st, p).size + OSPFS_BLKSIZE - 1) \div OSPFS_BLKSIZE - 1
    IN  IF ~st.ok \/ name \in LongNames THEN Abort(st)   \* a null pointer for an entry
        ELSE IF nblk < 0 THEN NewDirBlock(st, p, name, 0)
        ELSE InLastBlock(LastBlock(st, inode(st, p), nblk), p, name, nblk)

\* The entry gets its inode number.
SetEntry(st, k, e, ino) == Set(st, k, e, [Get(st, k, e, NoEntry) EXCEPT !.ino = ino])

-----------------------------------------------------------------------------
(* Hard links: by the inode number of the host, if the file has more links, *)
(* and with -c by contents.  A digest stands for the contents.              *)

Key(f) == IF f.kind = "file" /\ link_contents THEN <<f.data, f.size>> ELSE <<>>

get_hardlink(st, f) ==
    LET found == {i \in DOMAIN st.hardlinks :
                     \/ f.ino # 0 /\ st.hardlinks[i].host = f.ino
                     \/ Key(f) # <<>> /\ st.hardlinks[i].key = Key(f)}
    IN  IF found = {} THEN 0 ELSE st.hardlinks[Max(found)].ino

add_hardlink(st, f, ino) ==
    IF f.ino = 0 /\ Key(f) = <<>> THEN st
    ELSE [st EXCEPT !.hardlinks = Append(@, [host |-> f.ino, key |-> Key(f), ino |-> ino])]

\* The entry e of the directory block in slot k becomes one more link to ino.
LinkTo(st, k, e, ino) ==
    LET s1 == getblk(SetEntry(st, k, e, ino), os_firstinob + ino \div OSPFS_BLKINODES, FALSE, "inodes")
        p == Inode(s1, ino)
    IN  IF s1.ok
        THEN putblk(putblk(SetInode(s1, p, [inode(s1, p) EXCEPT !.nlink = @ + 1]), k), s1.b)
        ELSE s1

-----------------------------------------------------------------------------
(* main() and writedirectory()                                              *)

Slot == [bno |-> 0, busy |-> 0, used |-> 0, type |-> "none", data |-> Zero]
NoFile == [p |-> [k |-> 0, x |-> 0], dirb |-> 0, left |-> <<>>, size |-> 0, nblk |-> 0]

Init ==
    /\ host \in Hosts /\ link_contents \in BOOLEAN
    /\ pc = "open" /\ stack = <<>> /\ cur = NoFile
    /\ s = [cache |-> [k \in 1..CacheSize |-> Slot], disk |-> [b \in 0..nblocks-1 |-> Zero],
            nextb |-> Freemap + 1 + InodeBlocks, nextinode |-> 0, hardlinks |-> <<>>, t |-> 1,
            b |-> 0, e |-> 0, ino |-> 0, ok |-> TRUE]
    /\ unseen = {} /\ unread = {} /\ broken = FALSE

\* A system call on the host's files or on the disk fails, and the program aborts.
\* What the cache holds by then is lost, so it does not matter how far a step got.
Fails ==
    /\ s' = Abort(s) /\ broken' = TRUE
    /\ UNCHANGED <<host, link_contents, pc, stack, cur, unseen, unread>>

Put(st) == putblk(st, st.b)

\* opendisk(): all bits of the bitmap are set, the inode blocks are cleared.
FreshBitmap(st) ==
    LET s1 == getblk(st, Freemap, FALSE, "bits")
    IN  Put([s1 EXCEPT !.cache[s1.b].data = [b \in 0..nblocks-1 |-> 1]])

FreshInodes(st) ==
    FoldLeft(LAMBDA a, i : Put(getblk(a, os_firstinob + i, TRUE, "inodes")), st,
             [i \in 1..InodeBlocks |-> i - 1])

\* Inode 0 is used up, inode 1 is the root directory; its block stays pinned.
UnusedInode(st) == LET s1 == allocinode(st) IN Put(SetInode(s1, Inode(s1, 0), [NoInode EXCEPT !.nlink = 1]))
RootInode(st) ==
    LET s1 == allocinode(st)
    IN  SetInode(s1, Inode(s1, RootIno), [NoInode EXCEPT !.nlink = 1, !.ftype = "dir"])

Frame(p, dirb, path, tree) == [p |-> p, dirb |-> dirb, path |-> path, todo |-> tree]

opendisk ==
    /\ pc = "open" /\ s.ok
    /\ \/ Fails
       \/ /\ \E s1 \in {RootInode(UnusedInode(FreshInodes(FreshBitmap(s))))} :
                s' = s1 /\ stack' = <<Frame(Inode(s1, RootIno), 0, <<>>, host.tree)>>
          /\ pc' = "directory"
          /\ UNCHANGED <<host, link_contents, cur, history>>

Top == stack[1]
Without(names) == [stack EXCEPT ![1].todo = Restrict(@, DOMAIN @ \ names)]
Rest(name) == Without({name})
Path(name) == Top.path \o <<name>>

MayMiss == Cardinality(unseen \cup unread) < MaxMissing

\* Names are passed over: one, when lstat() fails, or all that are left, when
\* readdir() fails, which the loop takes for the end of the directory.
PassOver ==
    /\ pc = "directory" /\ s.ok /\ MayMiss
    /\ \E names \in ({{name} : name \in DOMAIN Top.todo} \cup {DOMAIN Top.todo}) \ {{}} :
          stack' = Without(names) /\ unseen' = unseen \cup {Path(name) : name \in names}
    /\ UNCHANGED <<host, link_contents, pc, cur, s, unread, broken>>

NewInode(st, k, e, f, ftype, text) ==
    LET s1 == allocinode(st)
    IN  IF ~s1.ok THEN s1
        ELSE SetInode(add_hardlink(SetEntry(s1, k, e, s1.ino), f, s1.ino), Inode(s1, s1.ino),
                 [NoInode EXCEPT !.nlink = 1, !.ftype = ftype, !.text = text,
                                 !.size = IF ftype = "symlink" THEN Len(text) ELSE 0])

\* With -c the file is read first: if that fails writefile() returns, the entry
\* has its name and no inode, and its block stays pinned.
Unreadable(name) ==
    /\ link_contents /\ MayMiss
    /\ \E s1 \in {IF name \in LongNames THEN s ELSE allocdirentry(s, Top.p, name)} :
          s1.ok /\ s' = s1
    /\ unread' = unread \cup {Path(name)}
    /\ stack' = Rest(name)
    /\ UNCHANGED <<host, link_contents, pc, cur, unseen, broken>>

\* writefile() up to its loop: the entry, then another link or a new inode.
Readable(name) ==
    /\ \E f \in {Top.todo[name]} : \E s1 \in {allocdirentry(s, Top.p, name)} :
          IF ~s1.ok THEN s' = s1 /\ UNCHANGED <<pc, cur>>
          ELSE IF get_hardlink(s, f) # 0
          THEN s' = LinkTo(s1, s1.b, s1.e, get_hardlink(s, f)) /\ UNCHANGED <<pc, cur>>
          ELSE \E s2 \in {NewInode(s1, s1.b, s1.e, f, "reg", "")} :
                 /\ s' = s2
                 /\ pc' = "copy"
                 /\ cur' = [p |-> Inode(s2, s2.ino), dirb |-> s1.b, left |-> f.data, size |-> f.size, nblk |-> 0]
    /\ stack' = Rest(name)
    /\ UNCHANGED <<host, link_contents, history>>

writefile(name) ==
    /\ pc = "directory" /\ s.ok /\ Top.todo[name].kind = "file"
    /\ Fails \/ Unreadable(name) \/ Readable(name)

\* The bytes that readn() gets of the next block.
n == Min({OSPFS_BLKSIZE, cur.size - cur.nblk * OSPFS_BLKSIZE})

\* The block got for the file; at the end of the file it is not used.
CopyBlock(st, k) ==
    IF n = 0 THEN st
    ELSE storeblk([Set(st, k, 0, Head(cur.left)) EXCEPT !.nextb = @ + 1], cur.p, st.nextb, cur.nblk)

CopyEnd(st, p) == SetInode(st, p, [inode(st, p) EXCEPT !.size = cur.nblk * OSPFS_BLKSIZE + n])

CopyNext ==
    /\ \E s1 \in {getblk(s, s.nextb, TRUE, "file")} :
          IF ~s1.ok THEN s' = s1 /\ UNCHANGED <<pc, cur>>
          ELSE \E s2 \in {putblk(CopyBlock(s1, s1.b), s1.b)} :
                   IF s2.ok /\ n < OSPFS_BLKSIZE
                   THEN /\ s' = putblk(putblk(CopyEnd(s2, cur.p), cur.dirb), cur.p.k)
                        /\ pc' = "directory" /\ cur' = NoFile
                   ELSE /\ s' = s2
                        /\ cur' = [cur EXCEPT !.left = Tail(@), !.nblk = @ + 1]
                        /\ UNCHANGED pc
    /\ UNCHANGED <<host, link_contents, stack, history>>

CopyFile == pc = "copy" /\ s.ok /\ (Fails \/ CopyNext)

\* addsymlink(), for a link of the host or one of the options -l.
addsymlink(st, p, name, f) ==
    LET s1 == allocdirentry(st, p, name)
    IN  IF ~s1.ok THEN s1
        ELSE IF get_hardlink(st, f) # 0 THEN LinkTo(s1, s1.b, s1.e, get_hardlink(st, f))
        ELSE LET s2 == NewInode(s1, s1.b, s1.e, f, "symlink", f.text)
             IN  putblk(putblk(s2, s1.b), s2.b)

writesymlink(name) ==
    /\ pc = "directory" /\ s.ok /\ Top.todo[name].kind = "symlink"
    /\ \/ Fails
       \/ /\ s' = IF Top.todo[name].long THEN s ELSE addsymlink(s, Top.p, name, Top.todo[name])
          /\ stack' = Rest(name)
          /\ UNCHANGED <<host, link_contents, pc, cur, history>>

\* A subdirectory: its entry and its inode stay pinned while its files are written.
NewDirectory(st, p, k, e) ==
    LET s1 == allocinode(st)
        s2 == SetInode(SetEntry(s1, k, e, s1.ino), Inode(s1, s1.ino), [NoInode EXCEPT !.nlink = 1, !.ftype = "dir"])
    IN  IF s1.ok THEN SetInode(s2, p, [inode(s2, p) EXCEPT !.nlink = @ + 1]) ELSE s1

EnterDirectory(name) ==
    /\ \E s1 \in {allocdirentry(s, Top.p, name)} :
       \E s2 \in {IF s1.ok THEN NewDirectory(s1, Top.p, s1.b, s1.e) ELSE s1} :
          /\ s' = s2
          /\ stack' = <<Frame(Inode(s2, s2.ino), s1.b, Path(name), Top.todo[name].tree)>> \o Rest(name)
    /\ UNCHANGED <<host, link_contents, pc, cur, history>>

LeaveOut(name) == stack' = Rest(name) /\ UNCHANGED <<host, link_contents, pc, cur, s, history>>

writedirectory(name) ==
    /\ pc = "directory" /\ s.ok /\ Top.todo[name].kind = "dir"
    /\ IF name \in Ignored THEN LeaveOut(name) ELSE Fails \/ EnterDirectory(name)

\* Mutant: the inode of a directory stays pinned.
Unpinned_entry(st, f) == putblk(st, f.dirb)

Unpinned(st, f) == putblk(putblk(st, f.dirb), f.p.k)

EndOfDirectory ==
    /\ pc = "directory" /\ s.ok /\ Top.todo = Zero /\ Len(stack) > 1
    /\ s' = Unpinned(s, Top)
    /\ stack' = Tail(stack)
    /\ UNCHANGED <<host, link_contents, pc, cur, history>>

\* The links of the command line, the last one first.
AddLinks ==
    /\ pc = "directory" /\ s.ok /\ Top.todo = Zero /\ Len(stack) = 1
    /\ \/ Fails
       \/ /\ s' = putblk(FoldLeft(LAMBDA st, l : addsymlink(st, Top.p, l.name, l), s, host.links), Top.p.k)
          /\ pc' = "finish" /\ stack' = <<>>
          /\ UNCHANGED <<host, link_contents, cur, history>>

\* Mutant: the last block taken stays free.
UsedBits_last(st) == 0..st.nextb-2

UsedBits(st) == 0..st.nextb-1

Super == [nblocks |-> nblocks, ninodes |-> ninodes, firstinob |-> os_firstinob]

\* The bitmap and the super block.
WithBitmap(st) ==
    LET s1 == getblk(st, Freemap, FALSE, "bits")
    IN  IF s1.ok THEN Put([s1 EXCEPT !.cache[s1.b].data =
                               [b \in 0..nblocks-1 |-> IF b \in UsedBits(st) THEN 0 ELSE At(@, b, 0)]])
        ELSE s1
WithSuper(st) == LET s1 == getblk(st, 1, TRUE, "super") IN Put(Set(s1, s1.b, 0, Super))

finishfs ==
    /\ pc = "finish" /\ s.ok
    /\ \/ Fails
       \/ /\ s' = WithSuper(WithBitmap(s))
          /\ pc' = "flush"
          /\ UNCHANGED <<host, link_contents, stack, cur, history>>

flushdisk ==
    /\ pc = "flush" /\ s.ok
    /\ \/ Fails
       \/ /\ s' = FoldSet(LAMBDA k, st : IF st.cache[k].used > 0 THEN flushb(st, k) ELSE st, s, DOMAIN s.cache)
          /\ pc' = "done"
          /\ UNCHANGED <<host, link_contents, stack, cur, history>>

\* readdir() gives the names in any order.
Next ==
    \/ opendisk \/ PassOver \/ CopyFile \/ EndOfDirectory \/ AddLinks \/ finishfs \/ flushdisk
    \/ pc = "directory" /\ \E name \in DOMAIN Top.todo : writefile(name) \/ writesymlink(name) \/ writedirectory(name)

Spec == Init /\ [][Next]_vars

=============================================================================
