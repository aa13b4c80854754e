-------------------------- MODULE OspfsformatSpec --------------------------
(***************************************************************************)
(* What an image of ospfsformat has to be: the image on disk, read the way *)
(* the kernel module reads one (ospfs_inode(), ospfs_inode_blockno() and   *)
(* ospfs_dir_readdir() in lab3/ospfsmod.c), holds the tree of the host.    *)
(***************************************************************************)
EXTENDS Ospfsformat

-----------------------------------------------------------------------------
(* The image, from the disk alone                                           *)

OnDisk(ino) == At(s.disk[os_firstinob + ino \div OSPFS_BLKINODES], ino % OSPFS_BLKINODES, NoInode)

CeilDiv(a, b) == (a + b - 1) \div b

Pointer(b, i) == IF b \in DOMAIN s.disk THEN At(s.disk[b], i, 0) ELSE 0

\* The block of the file that holds its n-th piece.
BlockNo(d, i) ==
    LET below == i - OSPFS_NDIRECT - OSPFS_NINDIRECT
    IN  IF i < OSPFS_NDIRECT THEN d.direct[i]
        ELSE IF below < 0 THEN Pointer(d.indirect, i - OSPFS_NDIRECT)
        ELSE Pointer(Pointer(d.indirect2, below \div OSPFS_NINDIRECT), below % OSPFS_NINDIRECT)

Places(d) == 0..CeilDiv(d.size, OSPFS_BLKSIZE)-1

\* The pointer blocks of a file, each with its place.
PointerBlocks(d) ==
    {<<-1, d.indirect>>, <<-2, d.indirect2>>}
        \cup {<<i, Pointer(d.indirect2, i)>> : i \in 0..OSPFS_NINDIRECT-1}

\* Every block the file refers to, each with its place.
Blocks(d) ==
    IF d.ftype = "symlink" THEN {}
    ELSE {<<"data", i, BlockNo(d, i)>> : i \in Places(d)}
             \cup {<<"pointers", p[1], p[2]>> : p \in {p \in PointerBlocks(d) : p[2] # 0}}

Entries(d) ==
    {[at |-> <<i, e>>, entry |-> At(s.disk[BlockNo(d, i)], e, NoEntry)] : i \in Places(d), e \in 0..DirEntries-1}
UsedEntries(d) == {x \in Entries(d) : x.entry.ino # 0}

\* The names below the directory ino, with the places of their entries.
RECURSIVE ImageBelow(_, _)
ImageBelow(ino, path) ==
    UNION {LET below == path \o <<x.entry.name>>
           IN  {[path |-> below, ino |-> x.entry.ino, dir |-> ino, at |-> x.at]}
                   \cup IF OnDisk(x.entry.ino).ftype = "dir" THEN ImageBelow(x.entry.ino, below) ELSE {}
           : x \in UsedEntries(OnDisk(ino))}

Image == ImageBelow(RootIno, <<>>)
ImageInodes == {RootIno} \cup {x.ino : x \in Image}

-----------------------------------------------------------------------------
(* The host                                                                 *)

\* Symbolic links that do not fit into an inode are left out.
LeftOut(name, f) == (f.kind = "dir" /\ name \in Ignored) \/ (f.kind = "symlink" /\ f.long)

RECURSIVE HostBelow(_, _)
HostBelow(tree, path) ==
    UNION {LET below == path \o <<name>>
           IN  {[path |-> below, node |-> tree[name]]}
                   \cup IF tree[name].kind = "dir" THEN HostBelow(tree[name].tree, below) ELSE {}
           : name \in {m \in DOMAIN tree : ~LeftOut(m, tree[m])}}

HostFiles == HostBelow(host.tree, <<>>)
                 \cup {[path |-> <<host.links[i].name>>, node |-> host.links[i]] : i \in DOMAIN host.links}

\* Two names of the host that become links to one inode.
Same(f, g) ==
    /\ f.kind = g.kind /\ f.kind # "dir"
    /\ \/ f.ino # 0 /\ f.ino = g.ino
       \/ f.kind = "file" /\ link_contents /\ f.data = g.data /\ f.size = g.size

IsFile(d, f) ==
    CASE f.kind = "file" -> /\ d.ftype = "reg" /\ d.size = f.size
                            /\ \A i \in Places(d) : At(s.disk[BlockNo(d, i)], 0, "") = f.data[i + 1]
      [] f.kind = "symlink" -> d.ftype = "symlink" /\ d.text = f.text /\ d.size = Len(f.text)
      [] f.kind = "dir" -> d.ftype = "dir"

NlinkIsRight(ino) ==
    OnDisk(ino).nlink =
        IF OnDisk(ino).ftype = "dir"
        THEN 1 + Cardinality({x \in Image : x.dir = ino /\ OnDisk(x.ino).ftype = "dir"})
        ELSE Cardinality({x \in Image : x.ino = ino})

\* The names that a failing lstat(), readdir() or, with -c, read() has cost,
\* with everything below them.
Missing(path) == \E lost \in unseen \cup unread : IsPrefix(lost, path)

(***************************************************************************)
(* When ospfsformat ends, the image holds the tree of the host: every name *)
(* once, with its file (every block of it, through the direct, indirect    *)
(* and doubly indirect pointers), two names share an inode exactly if they *)
(* are links on the host or, with -c, have the same contents, and every    *)
(* link count is what the directories say.  Only the names whose own       *)
(* system calls failed are missing, and nothing else suffers from that.    *)
(* The blocks went through a cache that wrote some of them back and read   *)
(* them again in between.                                                  *)
(***************************************************************************)
ImageIsHostTree ==
    pc = "done" =>
        /\ \A x, y \in Image : x.path = y.path => x = y
        /\ {x.path : x \in Image} = {f.path : f \in {f \in HostFiles : ~Missing(f.path)}}
        /\ \A x \in Image : \A f \in {f \in HostFiles : f.path = x.path} : IsFile(OnDisk(x.ino), f.node)
        /\ \A x, y \in Image : \A f, g \in HostFiles :
              (f.path = x.path /\ g.path = y.path /\ x # y) => (x.ino = y.ino <=> Same(f.node, g.node))
        /\ \A ino \in ImageInodes : NlinkIsRight(ino)

(***************************************************************************)
(* The bitmap finishfs() writes tells the kernel module the truth: no two  *)
(* places of the image refer to one block, and the blocks marked as free   *)
(* are exactly those that nothing refers to.                               *)
(***************************************************************************)
BlocksAccounted ==
    pc = "done" =>
        LET refs == UNION {{<<ino, b>> : b \in Blocks(OnDisk(ino))} : ino \in ImageInodes}
            block(r) == r[2][3]
            reserved == 0..os_firstinob + InodeBlocks - 1
            used == {block(r) : r \in refs}
        IN  /\ \A q, r \in refs : block(q) = block(r) => q = r
            /\ used \cap reserved = {}
            /\ \A b \in 0..nblocks-1 : Pointer(Freemap, b) = 1 <=> b \notin used \cup reserved

-----------------------------------------------------------------------------
(* The room an image needs                                                  *)

PointersFor(k) ==
    IF k <= OSPFS_NDIRECT THEN 0
    ELSE IF k <= OSPFS_NDIRECT + OSPFS_NINDIRECT THEN 1
    ELSE 2 + CeilDiv(k - OSPFS_NDIRECT - OSPFS_NINDIRECT, OSPFS_NINDIRECT)

\* The blocks of a directory with k names, and of a file.
DirBlocks(k) == CeilDiv(k, DirEntries) + PointersFor(CeilDiv(k, DirEntries))
FileBlocks(f) == IF f.kind = "file" THEN Len(f.data) + PointersFor(Len(f.data)) ELSE 0

Children(path) == {f \in HostFiles : Front(f.path) = path}
HostDirs == {<<>>} \cup {f.path : f \in {f \in HostFiles : f.node.kind = "dir"}}

\* One file of those that become links to one inode.
Others == {f \in HostFiles : f.node.kind # "dir"}
Inodes == {{g \in Others : g = f \/ Same(f.node, g.node)} : f \in Others}

BlocksNeeded ==
    MapThenSumSet(LAMBDA d : DirBlocks(Cardinality(Children(d))), HostDirs)
        + MapThenSumSet(LAMBDA c : FileBlocks((CHOOSE f \in c : TRUE).node), Inodes)

InodesNeeded == 1 + Cardinality(HostDirs) + Cardinality(Inodes)

\* Each directory on the way down pins its entry and its inode; below the
\* last one a file needs its entry, its inode, a block and two pointer blocks
\* (a directory that grows behind such blocks needs three).  Each file that
\* could not be read has left a block pinned.
SlotsNeeded == 1 + 2 * Max({Len(d) : d \in HostDirs}) + 5 + Cardinality(unread)

(***************************************************************************)
(* Unless a system call on the host or the disk fails, the program gives   *)
(* up (with half an image on the disk) only for want of room: too few      *)
(* blocks, where the block that writefile() gets to find the end of a file *)
(* must exist too, too few inodes, a tree too deep for the cache, a file   *)
(* above OSPFS_MAXFILEBLKS, or a name that does not fit.  In particular no *)
(* sequence of directories and links uses up the cache.                    *)
(***************************************************************************)
RoomSuffices ==
    (~s.ok /\ ~broken) =>
        \/ BlocksNeeded + 1 > nblocks - os_firstinob - InodeBlocks
        \/ InodesNeeded > ninodes
        \/ SlotsNeeded > CacheSize
        \/ \E f \in HostFiles : FileBlocks(f.node) > 0
              /\ Len(f.node.data) > OSPFS_NDIRECT + OSPFS_NINDIRECT + OSPFS_NINDIRECT * OSPFS_NINDIRECT
        \/ \E f \in HostFiles : Last(f.path) \in LongNames

=============================================================================
