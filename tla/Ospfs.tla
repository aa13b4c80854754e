------------------------------- MODULE Ospfs -------------------------------
(***************************************************************************)
(* The OSPFS file system (lab3/ospfsmod.c): the free-block bitmap, inodes  *)
(* with direct, indirect and doubly indirect blocks, and one directory.    *)
(*                                                                         *)
(* The disk is the array ospfs_data.  Its unit here is the 32-bit word: a  *)
(* block is NINDIRECT words, and file sizes and offsets count words.  A    *)
(* directory entry (32 words in the code) is one word, which holds         *)
(* NINODES * name + inode number; it is blank when that number is 0.       *)
(*                                                                         *)
(* A VFS callback is one step: the driver takes no lock of its own and     *)
(* relies on a kernel that is not preempted and on user buffers that are   *)
(* in memory.                                                              *)
(***************************************************************************)
EXTENDS Integers, Sequences, FiniteSets, SequencesExt

CONSTANTS
    NDIRECT,     \* direct block pointers of an inode (10)
    NINDIRECT,   \* words of a block (256)
    NBLOCKS,     \* os_nblocks
    FIRSTINOB,   \* os_firstinob: the first inode block
    FIRSTDATA,   \* the first block after the inode blocks
    NINODES,     \* os_ninodes
    DirGrow,     \* blocks by which a directory grows (8: OSPFS_BLKBITSIZE bytes)
    Width,       \* uint32_t arithmetic on sizes is modulo Width
    Name,        \* file names, as numbers
    Data,        \* words that processes write
    Mode,        \* permission modes
    Text,        \* texts of symbolic links: sequences of words
    Conditional, \* the word of a conditional link, root?/path/1:/path/2
    Cut,         \* the same word with its colon overwritten
    Room,        \* entries that a buffer of readdir() has room for
    Size,        \* sizes that a file is cut or extended to
    Place,       \* the writes that are made: pairs of a position and a length
    Appended,    \* lengths of the writes that are made with O_APPEND
    MaxSize,     \* bound: size up to which files are appended to
    MaxCalls     \* bound: calls in a behaviour, readdir not counted

ASSUME LayoutAssumption ==
    /\ {NDIRECT, NINDIRECT, DirGrow} \subseteq Nat \ {0}
    /\ {FIRSTINOB, FIRSTDATA, NBLOCKS, NINODES, Width} \subseteq Nat
    /\ 2 < FIRSTINOB /\ FIRSTINOB < FIRSTDATA /\ FIRSTDATA < NBLOCKS
    /\ 1 < NINODES
    /\ 1 < DirGrow * NINDIRECT
    /\ Width % NINDIRECT = 0
    /\ (NDIRECT + NINDIRECT + 1) * NINDIRECT < Width
    /\ \A s \in Size \cup {p[1] + p[2] : p \in Place} : s + NINDIRECT < Width

ASSUME CallAssumption ==
    /\ Name \cup Data \cup Mode \cup {Conditional, Cut} \subseteq Nat
    /\ \A text \in Text : text \in Seq(Nat)
    /\ Size \cup Appended \cup Room \cup {MaxSize, MaxCalls} \subseteq Nat
    /\ \A p \in Place : p \in Nat \X Nat

VARIABLES
    disk,   \* [free: the bitmap, inode: the inode table, block: the blocks]
    held,   \* inodes that some process has open
    filp,   \* a listing of the directory: its f_pos, the last result r; shown, how
            \* often filldir() was given each name so far; and as history kept, the
            \* names in the directory from the beginning of the listing on
    calls   \* number of calls so far

vars == <<disk, held, filp, calls>>

Block == 0..NBLOCKS-1
Inode == 1..NINODES-1      \* inode number 0 is illegal
ROOT == 1                  \* OSPFS_ROOT_INO
MAXFILEBLKS == NDIRECT + NINDIRECT + NINDIRECT * NINDIRECT
ZeroBlock == [k \in 0..NINDIRECT-1 |-> 0]

\* Where the fields of an inode are in its words: oi_mode, oi_direct[n],
\* oi_indirect, oi_indirect2.  The text of a symbolic link lies over them.
DirectAt(n) == 1 + n
IndirectAt == NDIRECT + 1
Indirect2At == NDIRECT + 2
InodeWord == 0..NDIRECT+2

-----------------------------------------------------------------------------
(* Looking a block up.                                                      *)

size2nblocks(size) == ((size + NINDIRECT - 1) % Width) \div NINDIRECT

\* The number of the block with word offset of file i; 0 if there is none.
inode_blockno(d, i, offset) ==
    LET oi == d.inode[i]
        blockno == offset \div NINDIRECT
        blockoff == blockno - (NDIRECT + NINDIRECT)
    IN  IF offset >= oi.size \/ oi.ftype = "SYMLINK" THEN 0
        ELSE IF blockno >= NDIRECT + NINDIRECT
             THEN d.block[d.block[oi.w[Indirect2At]][blockoff \div NINDIRECT]]
                         [blockoff % NINDIRECT]
        ELSE IF blockno >= NDIRECT
             THEN d.block[oi.w[IndirectAt]][blockno - NDIRECT]
        ELSE oi.w[DirectAt(blockno)]

\* Without a block it is the word of block 0, the boot sector.
inode_data(d, i, offset) ==
    d.block[inode_blockno(d, i, offset)][offset % NINDIRECT]

indir2_index(b) == IF b < NDIRECT + NINDIRECT THEN -1 ELSE 0

indir_index(b) ==
    IF b < NDIRECT THEN -1
    ELSE IF b < NDIRECT + NINDIRECT THEN 0
    ELSE (b - NDIRECT - NINDIRECT) \div NINDIRECT

direct_index(b) == IF b < NDIRECT THEN b ELSE (b - NDIRECT) % NINDIRECT

-----------------------------------------------------------------------------
(* The bitmap, and the blocks of a file.                                    *)

\* The lowest free block, or 0.
allocate_block(d) ==
    LET candidate == {b \in d.free : b >= 2}
    IN  IF candidate = {} THEN 0 ELSE Min(candidate)

\* Block b is taken from the bitmap and erased.
Take(d, b) == [d EXCEPT !.free = @ \ {b}, !.block[b] = ZeroBlock]

\* Mutant: the test of the block number is missing.
free_block_any(d, b) == [d EXCEPT !.free = @ \cup {b}]

free_block(d, b) ==
    IF b < FIRSTINOB THEN d ELSE [d EXCEPT !.free = @ \cup {b}]

SetField(d, i, k, b) == [d EXCEPT !.inode[i].w[k] = b]
SetWord(d, b, k, v) == [d EXCEPT !.block[b][k] = v]
Grown(d, i) == [d EXCEPT !.inode[i].size = (@ + NINDIRECT) % Width]

Done(d) == [disk |-> d, ret |-> "ok"]
NoSpace(d) == [disk |-> d, ret |-> "ENOSPC"]

\* add_block() for a file of n blocks below NDIRECT + NINDIRECT, new being
\* the data block: oi_indirect is allocated when it is first needed.
add_indirect(d, i, n, new) ==
    LET old == d.inode[i].w[IndirectAt]
        indir == IF old = 0 THEN allocate_block(d) ELSE old
        d1 == IF old = 0 THEN SetField(Take(d, indir), i, IndirectAt, indir) ELSE d
    IN  IF indir = 0 THEN NoSpace(free_block(d, new))
        ELSE Done(Grown(SetWord(d1, indir, direct_index(n), new), i))

\* ... and above.  A new block of pointers is not entered in the doubly
\* indirect block, and a doubly indirect block freed again stays in the inode.
add_indirect2(d, i, n, new) ==
    LET old2 == d.inode[i].w[Indirect2At]
        indir2 == IF old2 = 0 THEN allocate_block(d) ELSE old2
        d2 == IF old2 = 0 THEN SetField(Take(d, indir2), i, Indirect2At, indir2) ELSE d
        offset2 == indir_index(n)
        old == d2.block[indir2 + offset2 \div NINDIRECT][offset2 % NINDIRECT]
        indir == IF old = 0 THEN allocate_block(d2) ELSE old
        d1 == IF old = 0 THEN Take(d2, indir) ELSE d2
        undo == free_block(d2, new)
    IN  IF indir2 = 0 THEN NoSpace(free_block(d, new))
        ELSE IF indir = 0
             THEN NoSpace(IF old2 = 0 THEN free_block(undo, indir2) ELSE undo)
        ELSE Done(Grown(SetWord(d1, indir, direct_index(n), new), i))

add_block(d, i) ==
    LET n == size2nblocks(d.inode[i].size)
        new == allocate_block(d)
        d0 == Take(d, new)
    IN  IF n > MAXFILEBLKS \/ new = 0 THEN NoSpace(d)
        ELSE IF n < NDIRECT THEN Done(Grown(SetField(d0, i, DirectAt(n), new), i))
        ELSE IF n < NDIRECT + NINDIRECT THEN add_indirect(d0, i, n, new)
        ELSE add_indirect2(d0, i, n, new)

\* Mutant: the pointer is left.
DropWordKept(d, b, k) == free_block(d, d.block[b][k])

\* Word k of block b is freed and cleared.
DropWord(d, b, k) == SetWord(free_block(d, d.block[b][k]), b, k, 0)

\* remove_block() on a file of n blocks works on the index n.
remove_block(d, i) ==
    LET n == size2nblocks(d.inode[i].size)
        w == d.inode[i].w
        offset == direct_index(n)
        offset2 == indir_index(n)
        cut == IF indir2_index(n) = 0
               THEN LET d1 == DropWord(d, d.block[w[Indirect2At]][offset2], offset)
                        d2 == SetWord(d1, w[Indirect2At], offset2, 0)
                    IN  IF offset # 0 THEN d1
                        ELSE IF offset2 # 0 THEN d2
                        ELSE SetField(d2, i, Indirect2At, 0)
               ELSE IF offset2 = 0
               THEN LET d1 == DropWord(d, w[IndirectAt], offset)
                    IN  IF offset # 0 THEN d1 ELSE SetField(d1, i, IndirectAt, 0)
               ELSE SetField(free_block(d, w[DirectAt(offset)]), i, DirectAt(offset), 0)
    IN  [cut EXCEPT !.inode[i].size = (@ - NINDIRECT) % Width]

-----------------------------------------------------------------------------
(* change_size()                                                            *)

Blocks(d, i) == size2nblocks(d.inode[i].size)

\* The first loop adds blocks until one cannot be added; a is the result of
\* add_block() in state s, and r counts the blocks.
Added(s, a) ==
    [disk |-> a.disk, ret |-> a.ret, r |-> IF a.ret = "ok" THEN s.r + 1 ELSE s.r]

Extend(d, i, new_size) ==
    LET step[k \in 0..size2nblocks(new_size)] ==
            IF k = 0 THEN [disk |-> d, ret |-> "ok", r |-> 0]
            ELSE LET s == step[k - 1]
                 IN  IF s.ret # "ok" \/ Blocks(s.disk, i) >= size2nblocks(new_size) THEN s
                     ELSE Added(s, add_block(s.disk, i))
    IN  step[size2nblocks(new_size)]

\* The loops that remove blocks: r of them, or down to the new size.
RemoveCounted(d, i, r) ==
    LET step[k \in 0..r] == IF k = 0 THEN d ELSE remove_block(step[k - 1], i)
    IN  step[r]

Shrink(d, i, new_size) ==
    LET step[k \in 0..Blocks(d, i)] ==
            IF k = 0 THEN d
            ELSE IF Blocks(step[k - 1], i) > size2nblocks(new_size)
                 THEN remove_block(step[k - 1], i)
                 ELSE step[k - 1]
    IN  step[Blocks(d, i)]

\* Mutant: one block too many is removed when the file cannot grow.
SettleOverUndo(e, i, new_size) ==
    IF e.ret # "ok" THEN NoSpace(RemoveCounted(e.disk, i, e.r + 1))
    ELSE Done([Shrink(e.disk, i, new_size) EXCEPT !.inode[i].size = new_size])

\* After the first loop, which ended as e.
Settle(e, i, new_size) ==
    IF e.ret # "ok" THEN NoSpace(RemoveCounted(e.disk, i, e.r))
    ELSE Done([Shrink(e.disk, i, new_size) EXCEPT !.inode[i].size = new_size])

change_size(d, i, new_size) == Settle(Extend(d, i, new_size), i, new_size)

-----------------------------------------------------------------------------
(* The directory.                                                           *)

od_ino(e) == e % NINODES
od_name(e) == e \div NINODES
Offset(d) == 0..d.inode[ROOT].size-1
Entry(d, off) == inode_data(d, ROOT, off)
SetEntry(d, off, e) ==
    SetWord(d, inode_blockno(d, ROOT, off), off % NINDIRECT, e)

\* The first entry called name, or -1.
find_direntry(d, name) ==
    LET match == {off \in Offset(d) : od_ino(Entry(d, off)) # 0
                                      /\ od_name(Entry(d, off)) = name}
    IN  IF match = {} THEN -1 ELSE Min(match)

\* A blank entry, or the error of growing the directory: result c, offset off.
EntryAt(c, off) == [disk |-> c.disk, ret |-> c.ret, off |-> off]

\* The directory grows when it has no blank entry, and then the second of the
\* new entries is the one.
create_blank_direntry(d) ==
    LET blank == {off \in Offset(d) : od_ino(Entry(d, off)) = 0}
        size == d.inode[ROOT].size
    IN  IF blank # {} THEN EntryAt(Done(d), Min(blank))
        ELSE EntryAt(change_size(d, ROOT, size + DirGrow * NINDIRECT), size + 1)

\* The names in the directory.
Names(d) == {od_name(Entry(d, off)) : off \in {o \in Offset(d) : od_ino(Entry(d, o)) # 0}}

\* Mutant: the position is advanced past the entry that was refused.
Position_advanced(refused, end) == IF refused = {} THEN end ELSE Min(refused) + 1

\* Where a listing stops: at the first position that filldir() had no room for,
\* or at the end of the directory.
Position(refused, end) == IF refused = {} THEN end ELSE Min(refused)

\* One call of ospfs_dir_readdir() at position pos, with room for that many
\* entries before filldir() refuses one.  Positions 0 and 1 are "." and "..",
\* and the entry at off is at off + 2; blank entries are passed over.
dir_readdir(d, pos, room) ==
    LET end == Min({p \in Max({pos, 2})..Max({pos, d.inode[ROOT].size + 2}) :
                        inode_blockno(d, ROOT, p - 2) = 0})
        entry == {p \in pos..end-1 : p < 2 \/ od_ino(Entry(d, p - 2)) # 0}
        taken == {p \in entry : Cardinality({q \in entry : q < p}) < room}
        called(name) == {p \in taken : p >= 2 /\ od_name(Entry(d, p - 2)) = name}
    IN  [shown |-> [name \in Name |-> Cardinality(called(name))],
         f_pos |-> Position(entry \ taken, end),
         r     |-> IF taken = entry THEN 1 ELSE 0]

\* The first inode from 2 on without links, or 0.
find_free_inode(d) ==
    LET unused == {i \in Inode : i >= 2 /\ d.inode[i].nlink = 0}
    IN  IF unused = {} THEN 0 ELSE Min(unused)

\* The inode i gets a name in the entry b, if there is one.
Enter(b, name, i) ==
    IF b.ret # "ok" THEN b.disk ELSE SetEntry(b.disk, b.off, NINODES * name + i)

-----------------------------------------------------------------------------
(* The calls of the VFS.                                                    *)

\* The image of ospfsformat: an empty root directory of one block.
Init ==
    /\ disk = [free  |-> FIRSTDATA + 1 .. NBLOCKS-1,
               inode |-> [i \in Inode |->
                   IF i = ROOT
                   THEN [size |-> NINDIRECT, ftype |-> "DIR", nlink |-> 1,
                         w |-> [k \in InodeWord |-> IF k = DirectAt(0) THEN FIRSTDATA ELSE 0]]
                   ELSE [size |-> 0, ftype |-> "REG", nlink |-> 0,
                         w |-> [k \in InodeWord |-> 0]]],
               block |-> [b \in Block |-> ZeroBlock]]
    /\ held = {}
    /\ filp = [f_pos |-> 0, r |-> 0, shown |-> [name \in Name |-> 0], kept |-> {}]
    /\ calls = 0

\* One more call; those of a listing are not counted.
Tick == calls < MaxCalls /\ calls' = calls + 1

\* The callbacks of a file by its type: ospfs_mk_linux_inode() attaches the
\* tables of operations at the end of the module.
Operations(ftype) ==
    CASE ftype = "REG"     -> {"setattr", "read", "write"}
      [] ftype = "DIR"     -> {"lookup", "link", "unlink", "create", "symlink", "readdir"}
      [] ftype = "SYMLINK" -> {"readlink", "follow_link"}

mk_linux_inode(d, i) ==
    [i_ino   |-> i,
     i_size  |-> d.inode[i].size,
     i_op    |-> Operations(d.inode[i].ftype),
     i_nlink |-> d.inode[i].nlink + (IF d.inode[i].ftype = "DIR" THEN 1 ELSE 0)]

\* open() of a regular file: ospfs_dir_lookup() finds its inode.
Open(name) ==
    LET off == find_direntry(disk, name)
        ino == od_ino(Entry(disk, off))
    IN  /\ Tick
        /\ off >= 0
        /\ "write" \in mk_linux_inode(disk, ino).i_op
        /\ held' = held \cup {ino}
        /\ UNCHANGED <<disk, filp>>

\* The last descriptor of i is closed; the driver is not told.
Close(i) ==
    /\ Tick
    /\ i \in held
    /\ held' = held \ {i}
    /\ UNCHANGED <<disk, filp>>

\* open() with O_CREAT: ospfs_create() on an inode without links.  The inode is
\* set up before a directory entry is found, and stays so when there is none.
Create(name, mode) ==
    LET i == find_free_inode(disk)
        d == [disk EXCEPT !.inode[i].size = 0, !.inode[i].ftype = "REG",
                          !.inode[i].nlink = 1, !.inode[i].w[0] = mode]
    IN  /\ Tick
        /\ find_direntry(disk, name) = -1
        /\ i # 0
        /\ \E b \in {create_blank_direntry(d)} :
               /\ disk' = Enter(b, name, i)
               /\ held' = IF b.ret = "ok" THEN held \cup {i} ELSE held
        /\ UNCHANGED filp

\* ospfs_symlink().  The text is copied over the inode without its final NUL.
Symlink(name, text) ==
    LET i == find_free_inode(disk)
        d == [disk EXCEPT !.inode[i].size = Len(text), !.inode[i].ftype = "SYMLINK",
                          !.inode[i].nlink = 1,
                          !.inode[i].w = [k \in InodeWord |->
                              IF k < Len(text) THEN text[k + 1] ELSE @[k]]]
    IN  /\ Tick
        /\ find_direntry(disk, name) = -1
        /\ i # 0
        /\ disk' = Enter(create_blank_direntry(d), name, i)
        /\ UNCHANGED <<held, filp>>

\* The inode i gets the entry b as one more name.
Relink(b, name, i) ==
    IF b.ret # "ok" THEN b.disk
    ELSE [Enter(b, name, i) EXCEPT !.inode[i].nlink = @ + 1]

\* Mutant: the name is not looked for.
LinkUnchecked(src, name) ==
    LET off == find_direntry(disk, src)
    IN  /\ Tick
        /\ off >= 0
        /\ disk' = Relink(create_blank_direntry(disk), name, od_ino(Entry(disk, off)))
        /\ UNCHANGED <<held, filp>>

\* ospfs_link() of the file called src: a second name for it.
Link(src, name) ==
    LET off == find_direntry(disk, src)
    IN  /\ Tick
        /\ off >= 0
        /\ find_direntry(disk, name) = -1
        /\ disk' = Relink(create_blank_direntry(disk), name, od_ino(Entry(disk, off)))
        /\ UNCHANGED <<held, filp>>

\* Mutant: the data goes with any name.
UnlinkCuts(name) ==
    LET off == find_direntry(disk, name)
        i == od_ino(Entry(disk, off))
        d == [SetEntry(disk, off, Entry(disk, off) - i) EXCEPT !.inode[i].nlink = @ - 1]
    IN  /\ Tick
        /\ off >= 0
        /\ disk' = IF d.inode[i].ftype # "SYMLINK" THEN change_size(d, i, 0).disk ELSE d
        /\ UNCHANGED <<held, filp>>

\* ospfs_unlink().  With the last name goes the data, open or not.
Unlink(name) ==
    LET off == find_direntry(disk, name)
        i == od_ino(Entry(disk, off))
        d == [SetEntry(disk, off, Entry(disk, off) - i) EXCEPT !.inode[i].nlink = @ - 1]
    IN  /\ Tick
        /\ off >= 0
        /\ disk' = IF d.inode[i].ftype # "SYMLINK" /\ d.inode[i].nlink = 0
                   THEN change_size(d, i, 0).disk ELSE d
        /\ filp' = [filp EXCEPT !.kept = @ \ {name}]
        /\ UNCHANGED held

\* ospfs_notify_change() of size and mode; a directory keeps its size.
SetMode(c, i, mode) ==
    IF c.ret # "ok" THEN c.disk ELSE [c.disk EXCEPT !.inode[i].w[0] = mode]

NotifyChange(i, size, mode) ==
    /\ Tick
    /\ i \in held
    /\ disk.inode[i].ftype # "DIR"
    /\ disk' = SetMode(change_size(disk, i, size), i, mode)
    /\ UNCHANGED <<held, filp>>

\* The offsets from first to last that a copy gets to: it stops with -EIO at
\* the first one without a block.
Reached(d, i, first, last) ==
    {off \in first..last : \A o \in first..off : inode_blockno(d, i, o) # 0}

\* The copy loop of ospfs_write(), after the file was grown with result c.
CopyIn(c, i, first, last, v) ==
    LET hit == {<<inode_blockno(c.disk, i, off), off % NINDIRECT>> :
                    off \in Reached(c.disk, i, first, last)}
    IN  IF c.ret # "ok" THEN c
        ELSE Done([c.disk EXCEPT !.block = [b \in Block |-> [k \in 0..NINDIRECT-1 |->
                      IF <<b, k>> \in hit THEN v ELSE @[b][k]]]])

\* ospfs_write() of n words v from pos on.  User memory is readable for the
\* first ok of them; after that copy_from_user() fails.
ospfs_write(d, i, pos, n, v, ok) ==
    CopyIn(IF pos + n > d.inode[i].size THEN change_size(d, i, pos + n) ELSE Done(d),
           i, pos, pos + ok - 1, v)

Write(i, pos, n, v, ok) ==
    /\ Tick
    /\ i \in held
    /\ disk' = ospfs_write(disk, i, pos, n, v, ok).disk
    /\ UNCHANGED <<held, filp>>

\* With O_APPEND the position is the end of the file.
WriteAtEnd(i, n, v, ok) ==
    /\ disk.inode[i].size + n <= MaxSize
    /\ Write(i, disk.inode[i].size, n, v, ok)

\* What ospfs_read() of n words from pos on copies out; the read stops at the
\* end of the file.
ospfs_read(d, i, pos, n) ==
    LET count == IF n + pos > d.inode[i].size THEN d.inode[i].size - pos ELSE n
    IN  [off \in Reached(d, i, pos, pos + count - 1) |-> inode_data(d, i, off)]

\* ospfs_dir_readdir(), until the listing has come to the end.
Readdir(room) ==
    LET c == dir_readdir(disk, filp.f_pos, room)
    IN  /\ filp.r = 0
        /\ filp' = [f_pos |-> c.f_pos, r |-> c.r,
                    shown |-> [name \in Name |-> filp.shown[name] + c.shown[name]],
                    kept  |-> IF filp.f_pos = 0 THEN Names(disk) ELSE filp.kept]
        /\ UNCHANGED <<disk, held, calls>>

\* ospfs_follow_link() for root or another user.  For root a conditional link
\* is cut at its colon, in the inode.  Cut already, it has no colon, and
\* the kernel faults with the inode unchanged.
FollowLink(name, uid) ==
    LET off == find_direntry(disk, name)
        i == od_ino(Entry(disk, off))
    IN  /\ Tick
        /\ off >= 0
        /\ "follow_link" \in mk_linux_inode(disk, i).i_op
        /\ disk' = IF disk.inode[i].w[0] = Conditional /\ uid = 0
                   THEN SetField(disk, i, 0, Cut) ELSE disk
        /\ UNCHANGED <<held, filp>>

\* The words of a write that can be read before user memory faults: all, or
\* all but the last.
Readable(n) == {n - 1, n}

Next ==
    \/ \E name \in Name : Open(name) \/ Unlink(name)
    \/ \E name \in Name, mode \in Mode : Create(name, mode)
    \/ \E name \in Name, text \in Text : Symlink(name, text)
    \/ \E src, name \in Name : Link(src, name)
    \/ \E i \in Inode : Close(i)
    \/ \E i \in Inode, size \in Size, mode \in Mode : NotifyChange(i, size, mode)
    \/ \E i \in Inode, p \in Place, v \in Data :
           \E ok \in Readable(p[2]) : Write(i, p[1], p[2], v, ok)
    \/ \E i \in Inode, n \in Appended, v \in Data :
           \E ok \in Readable(n) : WriteAtEnd(i, n, v, ok)
    \/ \E room \in Room : Readdir(room)
    \/ \E name \in Name, uid \in {0, 1} : FollowLink(name, uid)

Spec == Init /\ [][Next]_vars

-----------------------------------------------------------------------------
(* Properties.                                                              *)

TypeOK ==
    /\ disk.free \subseteq FIRSTDATA..NBLOCKS-1
    /\ \A i \in Inode :
           /\ disk.inode[i].size \in 0..Width-1
           /\ disk.inode[i].ftype \in {"REG", "DIR", "SYMLINK"}
           /\ disk.inode[i].nlink \in Nat
    /\ held \subseteq Inode
    /\ calls \in 0..MaxCalls

\* Where a block number is kept: in word k of inode i, or, from NDIRECT + 3 on,
\* in its indirect block, if it has one.
Pointers(d) ==
    {<<i, k>> : i \in Inode, k \in 1..NDIRECT+2}
      \cup {<<i, NDIRECT + 3 + k>> : i \in {j \in Inode : d.inode[j].w[IndirectAt] # 0},
                                     k \in 0..NINDIRECT-1}
Pointer(d, i, k) ==
    IF k <= NDIRECT + 2 THEN d.inode[i].w[k]
    ELSE d.block[d.inode[i].w[IndirectAt]][k - NDIRECT - 3]
Target(d, p) == Pointer(d, p[1], p[2])

\* No block number is left behind for a block that is free, and no block is
\* in two files or in two places of one, whatever sequence of calls, failed
\* ones included, grew, cut and removed the files (add_block, remove_block).
BlocksExclusive ==
    \A p \in Pointers(disk) :
        Target(disk, p) # 0 =>
            /\ Target(disk, p) \notin disk.free
            /\ \A q \in Pointers(disk) \ {p} : Target(disk, q) # Target(disk, p)

Contents(d, i) == [off \in 0..d.inode[i].size-1 |-> inode_data(d, i, off)]

\* A call changes the contents of no other file that keeps a name: not while
\* it takes blocks, gives them back, or grows the directory.
FilesIsolated ==
    [][\A i \in Inode \ {ROOT} :
          \/ Contents(disk', i) = Contents(disk, i)
          \/ disk.inode[i].nlink = 0 \/ disk'.inode[i].nlink = 0
          \/ \E size \in Size, mode \in Mode : NotifyChange(i, size, mode)
          \/ \E p \in Place, v \in Data :
                 \E ok \in Readable(p[2]) : Write(i, p[1], p[2], v, ok)
          \/ \E n \in Appended, v \in Data : \E ok \in Readable(n) : WriteAtEnd(i, n, v, ok)]_vars

\* After a write that had room, ospfs_read() returns the words written, and
\* every other word of the file is as it was; a write that fails with -ENOSPC
\* leaves size and contents alone, although blocks were added and removed.
WriteIsExact ==
    \A i \in held, p \in Place, v \in Data :
        disk.inode[i].ftype = "REG" =>
            LET r == ospfs_write(disk, i, p[1], p[2], v, p[2])
                old == Contents(disk, i)
                new == Contents(r.disk, i)
                range == p[1]..p[1]+p[2]-1
            IN  IF r.ret = "ok"
                THEN /\ ospfs_read(r.disk, i, p[1], p[2]) = [off \in range |-> v]
                     /\ \A off \in DOMAIN old \ range : new[off] = old[off]
                ELSE new = old

\* The entries that are not blank, and those of inode i.
Used(d) == {off \in Offset(d) : od_ino(Entry(d, off)) # 0}
Named(d, i) == {off \in Used(d) : od_ino(Entry(d, off)) = i}

\* Every name leads to an inode in use, names are unique, and an inode is not
\* released while a name is left: its link count is at least its names.
NamesResolve ==
    /\ \A i \in Inode : Cardinality(Named(disk, i)) <= disk.inode[i].nlink
    /\ \A o1, o2 \in Used(disk) :
           od_name(Entry(disk, o1)) = od_name(Entry(disk, o2)) => o1 = o2

\* A listing in several calls of readdir() shows every name that was in the
\* directory all the time, and shows it once, whatever was created, linked
\* and unlinked between the calls (f_pos and the reuse of blank entries).
ListingComplete ==
    filp.r = 1 => \A name \in filp.kept : filp.shown[name] = 1

\* The comment of change_size(): after -ENOSPC "the file size and allocated
\* blocks should not change from their original values".
EnospcRestores ==
    \A i \in held, size \in Size :
        LET c == change_size(disk, i, size)
        IN  c.ret = "ENOSPC" => /\ c.disk.free = disk.free
                                /\ c.disk.inode[i].size = disk.inode[i].size

-----------------------------------------------------------------------------
(* The inductive invariant FsInv, and what it needs.                        *)

\* Files and the directory stay below the doubly indirect block, where the code
\* loses blocks (add_indirect2).  The directory grows only when its entries
\* are all in use, so with one for each of the other names at most.
LIMIT == (NDIRECT + NINDIRECT) * NINDIRECT
BelowIndirect2 ==
    /\ \A s \in Size \cup {p[1] + p[2] : p \in Place} \cup {MaxSize} : s <= LIMIT
    /\ IsFiniteSet(Name) /\ Cardinality(Name) + DirGrow * NINDIRECT <= LIMIT + 1

\* The texts of symbolic links do not lie over block pointers.
TextsOverMode == \A text \in Text : Len(text) <= 1

DataBlock == FIRSTDATA..NBLOCKS-1
Slot == 1..NDIRECT+2+NINDIRECT
Disk ==
    [free  : SUBSET DataBlock,
     inode : [Inode -> [size : 0..Width-1, ftype : {"REG", "DIR", "SYMLINK"}, nlink : Nat,
                        w : [InodeWord -> Nat]]],
     block : [Block -> [0..NINDIRECT-1 -> Nat]]]

\* Pointers lead to data blocks in use, no two to the same one.  An inode without
\* an indirect block has the words of block 0 for one, and these are zero.
Sound(d) ==
    /\ d \in Disk
    /\ d.block[0] = ZeroBlock
    /\ \A i \in Inode : d.inode[i].w[Indirect2At] = 0
    /\ \A i \in Inode, k \in Slot : Pointer(d, i, k) # 0 =>
           /\ Pointer(d, i, k) \in DataBlock \ d.free
           /\ \A j \in Inode, l \in Slot :
                  Pointer(d, j, l) = Pointer(d, i, k) => j = i /\ l = k

\* Where the number of block b of a file is kept.
SlotOf(b) == IF b < NDIRECT THEN b + 1 ELSE b + 3
Present(d, i) == \A b \in 0..Blocks(d, i)-1 : Pointer(d, i, SlotOf(b)) # 0

\* Every file has its blocks, and there is one directory, of whole blocks.
FilesInv(d) ==
    /\ \A i \in Inode :
           /\ d.inode[i].size <= LIMIT
           /\ d.inode[i].ftype = "DIR" <=> i = ROOT
           /\ d.inode[i].ftype # "SYMLINK" => Present(d, i)
    /\ d.inode[ROOT].size = NINDIRECT * Blocks(d, ROOT)

NamesInv(d) ==
    /\ \A off \in Used(d) :
           od_ino(Entry(d, off)) \in Inode \ {ROOT} /\ od_name(Entry(d, off)) \in Name
    /\ \A o1, o2 \in Used(d) : od_name(Entry(d, o1)) = od_name(Entry(d, o2)) => o1 = o2
    /\ \A i \in Inode : Cardinality(Named(d, i)) <= d.inode[i].nlink

\* The listing has shown the names in kept whose entries are before f_pos, each
\* once, and not those from there on; when it is over, all of them.
ListingInv ==
    /\ filp \in [f_pos : Nat, r : {0, 1}, shown : [Name -> Nat], kept : SUBSET Name]
    /\ filp.r = 0 /\ filp.f_pos = 0 => \A name \in Name : filp.shown[name] = 0
    /\ filp.r = 0 /\ filp.f_pos > 0 =>
           \A name \in filp.kept : \E off \in Used(disk) :
               /\ od_name(Entry(disk, off)) = name
               /\ filp.shown[name] = IF off + 2 < filp.f_pos THEN 1 ELSE 0
    /\ ListingComplete

FsInv ==
    /\ Sound(disk) /\ FilesInv(disk) /\ NamesInv(disk)
    /\ held \subseteq Inode \ {ROOT}
    /\ calls \in 0..MaxCalls

=============================================================================
