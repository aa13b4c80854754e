# A verification project for the CS111 operating-system programs

The repository holds six programs of an operating-systems course, finished and
working: a ramdisk driver with a reader/writer lock, two teaching kernels, a file
system, a peer-to-peer client and a shell. This directory models them in TLA+,
checks the models with TLC and proves the central results with TLAPS. Everything
is translated from the C sources; where a comment or an answer file promises
something the code does not do, a run or section 5 says so.

## 1. Inventory

| part | state it keeps | operations | interacts with | hard behaviour |
|---|---|---|---|---|
| **osprd lock** (`lab2/osprd.c`) | per ramdisk: `ticket_head`, `ticket_tail`, `n_read_lock`, `n_write_lock`, `write_lock_pid`, the list of reader pids, a mutex; per file: `F_OSPRD_LOCKED` | open, last close, ioctl ACQUIRE / TRYACQUIRE / RELEASE | any number of processes and open files | CONDITION is tested without the mutex; tickets; refusals; waiting |
| **osprd requests, osprdaccess** (`lab2/osprd.c`, `osprdaccess.c`) | the sectors; per process: phase, which of its devices, position | read/write request; open and lock one device after the other, transfer, exit | the lock above | a process is killed while it waits, holds the lock or is half way; several locks in one process |
| **SchedOS** (`weensyos2`) | process table (state, priority), `current`, a console cursor and a spin lock in shared memory | clock, exit, set priority; three schedulers | four applications, preempted anywhere | races on `*cursorpos++`, scheduling order, priority inversion |
| **MiniprocOS** (`weensyos1`) | process table (state, registers, exit status, wait queue pointer), `current` | getpid, fork, yield, exit, wait | mpos-app, mpos-app2 | descriptors are reused while pointers to them live on |
| **OSPFS** (`lab3/ospfsmod.c`) | the disk: free-block bitmap, inodes, blocks; open files | lookup, create, link, symlink, unlink, read, write, change of size, readdir, follow_link | the VFS | ENOSPC half way, index arithmetic at the block-tree boundaries, reuse of inodes |
| **ospfsformat** (`lab3/ospfsformat.c`) | a cache of blocks with pins and dirty bits, the next free block and inode, a list of inodes already copied | copy a tree of the host, store blocks, add entries, write bitmap and superblock | the host's files; the image is what OSPFS mounts | eviction at any access, pins that are not given back, block boundaries, calls of the host that fail |
| **OSP peer** (`lab4/osppeer.c`) | a task per connection with a ring buffer, a peer list | register, download with retries, upload | a tracker, other peers, forked children | processes that share the tracker connection and the directory, bounded buffers, peers that fail, retries |
| **time-travel shell** (`project1`) | command trees, dependency graph, running children, pipes | read, print and execute commands, run independent commands in parallel | child processes | the parser's edge cases, the order of dependent commands, pipe ends left open |
| **image tools, boot code, libraries** | – | – | – | not modelled, see section 8 |

What makes each part correct:

* *osprd lock*: a write lock excludes every other lock; the counts never miss a lock;
  requests are served in ticket order; nobody waits for ever behind a ticket that nobody
  has, or for itself; the driver is a fair reader/writer lock.
* *osprdaccess*: transfers under a lock are isolated; everything comes back when
  processes end or are killed; every process ends.
* *SchedOS*: no character is lost; a switch goes to the best priority; every application
  finishes.
* *MiniprocOS*: exit is final; a process runs on its own stack; wait returns because of
  the process waited for; nobody runnable is starved; the applications do what they are
  written to do.
* *OSPFS*: blocks have one owner; a call that fails has no effect; a call touches one
  file only; names and link counts agree; a listing misses and repeats nothing.
* *ospfsformat*: the image, read as the driver reads it, is the tree of the host; the
  bitmap tells the truth; what cannot be read costs nothing but itself; the program gives
  up only for want of room or when a system call fails.
* *OSP peer*: bytes leave the task buffer in the order they came and none is lost; no
  broken file stays; only what is complete is announced; a download tries every peer; the
  peer comes to serve.
* *shell*: a script is parsed and printed as its grammar says; with and without `-t`
  every program reads what it reads in sequence, and the files end as in sequence; every
  script ends.

## 2. Plan

1. **Osprd, FairLock, OsprdRefines** with their proofs – done.
2. **OsprdAccess** on top of Osprd – done.
3. **Schedos**, **Mpos** (with the stacks of `copy_stack()`), **MposApps** – done.
4. **Ospfs** with `readdir` and `follow_link` – done. Left: `ospfs_write` split at
   `copy_from_user`.
5. **TaskBuf, Osppeer** – done; that the ring buffer is a queue of bytes is proved.
6. **ShellParse, Shell**, and **ShellSpec**, what they promise – done.
7. **Ospfsformat**, and **OspfsformatSpec**, what its image has to be – done.
8. **Proofs** – done: Osprd and its refinement, OsprdAccess, Schedos, Mpos and MposApps,
   TaskBuf, Osppeer, Ospfs (section 6). Section 7 says what stays with TLC, and why.

## 3. Modules and how they correspond to the code

| module | models | notes |
|---|---|---|
| `Osprd` | the lock of one ramdisk | one action per critical section of `d->mutex` and one per unprotected load of CONDITION |
| `FairLock` | what the comment at `osprd.c:263` promises | abstract specification |
| `OsprdRefines` | Osprd seen as a FairLock | the refinement mapping |
| `OsprdProofs`, `OsprdRefinesProofs`, `OsprdAccessProofs`, `SchedosProofs`, `MposProofs`, `TaskBufProofs`, `OsppeerProofs`, `OspfsProofs` | – | theorems, section 6 |
| `OsprdAccess` | `osprdaccess.c` and the request function, composed with Osprd | EXTENDS Osprd; adds the loop over the devices, phases, positions, sectors, kill |
| `Schedos` | `schedos-kern.c` and `schedos-1.c` | the application loop is split at every access to shared memory |
| `Mpos` | `mpos-kern.c` | one action per system call; the scheduler runs at the end of each |
| `MposApps` | `mpos-app.c`, `mpos-app2.c`, and arbitrary processes | EXTENDS Mpos |
| `Ospfs` | `ospfsmod.c`, `ospfs.h` | operators carry the names of the C functions and map a disk to a disk |
| `ShellParse` | `read-command.c`, `stack.c`, `print-command.c` | pure operators from characters to trees, one per pass of the reader |
| `Shell` | `main.c`, `execute-command.c` | EXTENDS ShellParse; processes, pipes, files, the dependency graph |
| `ShellSpec` | the grammar, and execution one command after the other | what Shell is compared with |
| `TaskBuf` | the ring buffer of `task_t` | `read_to_taskbuf`, `write_from_taskbuf` |
| `Osppeer` | `osppeer.c` | EXTENDS TaskBuf; main process, download processes, upload, tracker |
| `Ospfsformat` | `ospfsformat.c` | operators on the program's state, driven by a list of calls still to make |
| `OspfsformatSpec` | the image, read as `ospfsmod.c` reads it | what the image is compared with |
| `MC*` | – | instances for TLC |

Definitions with the comment "Mutant:" belong to no specification. Each is a copy of
the definition after it with a plausible mistake (a dropped guard, a missing reset, an
off-by-one); putting it in the place of the real one makes the property it was written
for fail, which shows that the property can fail at all.

**Osprd.** `pc[p]` is where process `p` is in the driver. ACQUIRE is
`AcquireOwnWrite` (refused at once) or `AcquireTicket`, then `AcquireWarCheck` for
writers, the three loads `LoadNRead`, `LoadNWrite`, `LoadTicket` in the order of `&&`,
`Reschedule` when one of them fails, `Grant`, and `AdvanceTail`. `TryAcquire`,
`ReleaseTest` / `ReleaseSection`, `Open` and `CloseLast` are the other calls.
The waiting is a loop around `schedule()`: the condition given to
`wait_event_interruptible()` is the constant 1, so it never sleeps. The constant `Bkl`
says what surrounds the driver. TRUE is the kernel it was written for, in which the
bodies of two ioctls overlap only at `schedule()`; FALSE leaves only the driver's mutex.
Return values are kept as ok or error, all that a caller tells apart.

**OsprdAccess.** `Args[p]` is what the command line of `p` makes of the loop at
`osprdaccess.c:140-237`: for each device a file and the lock that is then in force, -l, -L
or none. `round[p]` is the device `main()` is about; `NextDevice` goes around for the next
one, with the files and locks of the earlier ones kept, or on to the transfer, which is on
the last one. One ramdisk is in detail. A device that is another ramdisk (`Nil`) is the
action `Elsewhere`: the process comes back from there, fails there, or never returns, since
nothing is assumed of its fairness; this covers whatever the other driver does, two
processes that wait for each other on two ramdisks included. `open()` may fail. A process is
killed between any two steps; `ExitClose` closes its files one by one. `abandoned` is a
history variable: the tickets of requests that were refused at `osprd.c:321`, after they
took one. Process ids are not used again.

**Schedos.** The kernel runs with interrupts off, so `interrupt()` and the scheduler
are one step. Applications are preempted between any two accesses to shared memory:
swap of the lock, load of the cursor, store of the character, store of the cursor,
store of the lock. The scheduling algorithm is chosen at the start and kept.
`LockMemory` is what the lock's word holds at the start: the line of `start()` that
would clear it is never reached.

**Mpos.** The kernel is cooperative: a process keeps the CPU until its next system
call. `OneRound` stops arbitrary programs from reusing descriptors, because with reuse
the kernel has the defect of run `mpos_exit`; the two applications reuse them
nevertheless, and for them the properties hold. A fork is made from any of the depths
`Depths` of the parent's stack; the contents of stacks are not in the state.

**Ospfs.** The unit is the 32-bit word; a block is `NINDIRECT` words. A directory entry
is one word. The inode is an array of words, over which the text of a symbolic link
lies, as in the two structures of `ospfs.h`. Sizes are modulo `Width`, since
`remove_block` subtracts a block from sizes below one block and relies on the wrap in
`ospfs_size2nblocks`. A VFS callback is one step: the driver has no lock; it works where
the kernel is not preempted and user buffers are resident. File positions, which the VFS
keeps, are chosen by the caller; O_APPEND is `WriteAtEnd`. `copy_from_user()` may fail
at the last word of a write. `filp` is one listing of the directory: `Readdir` is a call
with room for some entries, after which `filldir()` refuses. Its fields `shown`, how often
`filldir()` was given each name, and `kept`, the names that stayed all the time, are history
variables. `FollowLink` for root cuts a conditional link
in the inode, as the code does.

**ShellParse** follows the passes of the reader: `makeSeparation` cuts the script into
commands at empty lines and joins lines that end in an operator, `tokenize` makes tokens
(what is between brackets is one), `validate` rejects, and `make_command` builds a tree with
two stacks. A word of a script is one character; `junk` is what the uninitialised `preCh`
of `makeSeparation` holds. Line numbers, which only appear in messages, are left out.

**Shell.** What `execute_command()` will do for a tree is known before it runs, up to tests of
a status, so a process is the list of system calls it has still to make, and each call
(fork, redirect, pipe, close, wait, exec, read, write) is one step. A pipe holds `PipeSize` units. The
programs of a script are external: they read their input and the files named as
arguments, then write `Units` units. With `-t` the graph decides which jobs start when.

**Osppeer.** The main process registers, asks the tracker for each file of the command line
and forks a process per download; `WaitForDownloads` comes before `task_listen`. The
processes share `reply`, what the tracker has sent, and each reads what comes until it has
a complete answer. A reply is a sequence of pieces: the code and the space of a line of the
message, its text, a newline, the line of a peer. A read may end after any of them, and
`pos` is how far the scan of `read_tracker_response()` had come by then: a line is tested
once. Where exactly inside a piece a read ends makes no difference to a process that reads
alone: a code cut in two is not passed over (`Passed`), and text is
passed over in any case. A peer is what it sends: all of a file, nothing, part of it before
an error or before it stalls, or too much. `faults` bounds failing calls of `fork()`, `open()` and
`write()` and the tracker going away. `open()` may fail on any name, of a file that exists
too; `refused` is a history variable with these names. The process then unlinks the name
(`TryAgain`), and `linked` says whether the file a process made still has its name.
A process that has taken another one's answer may have the peers of another file, and
saves under its own name what they send: what is promised of a saved file is that it is all
of what some peer sent. `LimitsAssumption` holds of the code with room to spare (20 MB and
two buffers are below 2^32); it keeps a download away from the wrap of section 5.

**Ospfsformat.** Each access to a block goes through `getblk`, which may evict the least
recently used block that is not pinned. `s.ok = FALSE` is `abort()`. The form with `-r` is
modelled, which reads a directory of the host. Its system calls may fail at any
point. Most failures abort the program (`Fails`, `broken`): of `opendir`, `readlink`, `open`
and the reading of a file, and every call on the disk. Two kinds are passed over in silence:
`lstat()` and `readdir()` cost the names they are about (`PassOver`, `unseen`); with `-c` a
file is read once before it is copied, and if that fails `writefile()` returns with the name
in the directory but no inode, and with the block of the directory pinned for good
(`Unreadable`, `unread`). `MaxMissing` bounds how many names are lost in this way before
another may be. The three are history variables.

## 4. Runs

| run | what it shows |
|---|---|
| `osprd_serial` | with serialised ioctls and three processes on four files: exclusion, sound counts, order, no waiting for a lock the driver knows to be one's own, implementation of FairLock |
| `osprd_race` (violation) | with the driver's mutex alone, CONDITION is stale when it is acted upon, and two processes get conflicting locks |
| `osprd_access` | four clients, with one device or several, each killable at any time: isolated transfers, everything returned but the tickets of requests refused after they took one, and everybody ends but for the three reasons in `EveryoneEnds` |
| `schedos` | three applications under each scheduler with priorities changing at run time: no lost output, best priority first but for one exit (section 5), all finish unless priorities differ |
| `mpos` | the applications complete, children are counted, wait returns on the right exit, every process is on its own stack, nobody is starved |
| `mpos_exit` (violation) | a queue pointer in a reused descriptor wakes a process that has exited |
| `ospfs` | every sequence of five calls with a listing under way, on a disk that fills up: exclusive blocks, exact writes, isolated files, names that resolve, a complete listing |
| `ospfs_enospc` (violation) | a file that cannot grow keeps one of the blocks it was given |
| `shell` | all strings of up to four words and operators, and larger commands, are parsed and printed as the grammar says or refused; ten scripts, in sequence and with `-t`, in every interleaving of their processes: reads and results as in sequence, no process waits for ever |
| `peer` | eight situations of command line, directory, peers and upload request, in every interleaving and with reads that end anywhere: bytes in order, nothing partial, true announcements, every peer tried, and the peer comes to serve unless one of the five events named in `ComesToServe` happens |
| `peer_race` (violation) | the main process takes the answer to a child's HAVE for the list of peers it asked for |
| `format` | nine trees, five that fit and four that do not (one of these fits with `-c`), through a cache of ten blocks, with calls of the host that fail: the image is the tree but for the names they were about, the bitmap is exact, an abort has a reason |

### Bounds

* *osprd_serial*: three tickets and a read count of two. Three processes are the least
  for a reader, a writer and one behind them; one of them has both kinds of file, so
  that the checks for a lock of one's own come into play. With three tickets each
  process can wait behind the other two.
* *osprd_access*: four clients on two sectors, so that every transfer can be interrupted in
  the middle: a writer; a reader that goes on to ask for the write lock and is refused with
  its ticket taken; a writer that comes from another ramdisk, and a reader, which use
  TRYACQUIRE. Of the four tickets three are taken, one for each lock that is asked for by ACQUIRE.
* *schedos*: two characters each: the second needs the lock to have been given back.
  The priorities are equal in one initial state, two are equal in the second, and in the
  third they differ and the highest belongs to the process that exits first.
* *mpos*: four descriptors and seven children: the table is full twice and partly filled
  once. mpos-app2 was also checked with the constants of the source, 16 descriptors and
  1025 children (3259 states).
* *ospfs*: two direct pointers and two words per block make a file of four blocks cross
  the boundary to the indirect block, and its last word is the last before the doubly
  indirect block, where the code loses blocks (section 5). Five free blocks do for one large file
  or for two small ones and a larger directory, so -ENOSPC meets data, indirect and
  directory blocks. Two entries per block and three names make the directory grow.
  `MaxCalls` is five, calls of readdir not counted, and `WriteIsExact` looks one write
  further: create, write, cut, unlink and create again fit in, or three names and two
  changes of the directory between the calls of a listing. A buffer with room for four
  entries ends the first call between the second name and the third.
* *shell*: a command of two pipes has three processes besides the shell; two units through
  a pipe of one make a writer wait. The scripts have a dependency of each kind (read after
  write, write after read, write after write, through a subshell's redirection and through
  an argument), a failing and a missing program, a missing input and `exec`.
* *peer*: a buffer of three bytes wraps around in a file of five; two names per file can
  both be taken; two downloads run at a time, of one file or of two. One reply is longer than
  the buffer for it, the others fit.
* *format*: two direct pointers and two per pointer block make files and directories reach
  the doubly indirect block; the cache (10 blocks, 16 in the code) is smaller than any image.
  Two names may be lost one after the other (`MaxMissing`): one pin left behind is enough to
  fill the cache of the tree with two levels, and the second one comes on top.

### Fairness

* *osprd_access* assumes strong fairness of each process, in the driver or in
  its program: a process that can run again and again is run by the Linux scheduler. Weak
  fairness would not do, since a waiter can only run when nobody else is inside an ioctl.
  Nothing is assumed of other ramdisks (`Elsewhere`).
* *schedos* assumes that the clock ticks, and that a process which gets the CPU again
  and again executes instructions. That it gets the CPU is left to the modelled scheduler.
* *mpos* assumes that the running program goes on to its next system call; arbitrary
  programs eventually leave. Everything else follows from the scheduler.
* *shell* assumes that some process runs as long as one can; nothing else is needed since
  no process can run for ever.
* *peer* assumes that the main process and the download processes run when they can, and
  that the tracker answers while it is there. No other peer has to connect, to send or to take
  anything. `ComesToServe` names what may stop the peer: the tracker goes away, a reply is
  longer than the buffer, a process has read a piece of another one's answer (`peer_race`) or
  passed over its terminator line (section 5), or a peer stalls.
* The other runs: safety only.

Deadlock checking is off where the system really stops: all processes ended, or the
bound on calls reached.

## 5. Findings and known deviations

Runs marked "violation" are the disagreements between code and comment with a
counterexample; `PROJECT.json` quotes the lines. Met while modelling, and without a run:

* `osprd.c:450`: RELEASE leaves `write_lock_pid`; a later ACQUIRE of the same process is
  refused with -EDEADLK (`:304`) although nobody holds the lock, where the comment at
  `:284` speaks of a process that holds one.
* `osprd.c:198`: the loop that removes a reader on close looks from the second element
  on and never unlinks the head of the list.
* `osprd.c:321`: a writer that finds itself among the readers returns -EDEADLK after it took its
  ticket (`:310`) and passes it on to nobody: `osprdaccess -r -l a -w a` ends, and every later
  request waits for ever on a free ramdisk, against the three reasons for blocking in the comment at
  `:269`. `abandoned` holds such tickets; `ServedTicketAccounted`, `AllReturned` and
  `EveryoneEnds` except them, and nothing else that is left behind.
* `osprd.c:419`: TRYACQUIRE does not record the process, so a later ACQUIRE of the same process does
  not see the deadlock that `:284` speaks of and waits for itself.
* `osprd.c:373`: ACQUIRE does not look whether the file is locked already: a second ACQUIRE of a
  read-locked file counts it twice, and one RELEASE takes back one. `CountsSound` is a bound
  from one side for this reason.
* `osprd.c:304`: a reader that asks again behind a queued writer waits for the writer and
  the writer for it; the driver does not look for that.
* `osprdaccess.c:236`: a process keeps its locks while it asks for the next: two processes
  that lock two ramdisks in opposite order wait for each other for ever. The model has this
  as a process that stays `Elsewhere`.
* `osprd.c:331`: a signal never interrupts the wait, since the condition waited for is 1
  (`:285` promises -ERESTARTSYS).
* `schedos-kern.c:112`: the lock is cleared behind a call that does not return
  (`answers.txt:86` relies on it); with 1 in that word no application ever prints.
* `schedos-kern.c:242`: when a process exits that has a better priority than all others,
  the scan finds nobody of its priority and runs the next process of the table, whatever its
  priority: with priorities 3, 2, 1, 3, as `start()` gives them, process 3 exits and 4 runs
  while 2 is runnable. `PicksHighest` excepts this switch (`OutrankedAllAndExits`), and no other.
* `schedos-1.c:27`: under algorithm 2 with different priorities, a process of higher priority
  spins for ever on the lock of one that the scheduler never runs again.
* `schedos-app.h:66`: the library's priority call raises INT_SYS_USER2, which the kernel
  does not handle as `answers.txt:32` describes.
* `mpos-kern.c:200`: one queue pointer per process; a second waiter displaces the first,
  which then sleeps for ever.
* `mpos-kern.c:177`: with reused descriptors a stale queue pointer also overwrites the
  result register of a process that waits for somebody else.
* `mpos-kern.c:280`: a fork by the process in the last descriptor scans from one behind
  the end of the table.
* `ospfsmod.c:845`: cutting a file never frees its last removed block, and never frees
  indirect blocks; `ospfsmod.c:1343` reuses inodes with the pointers still in them, which
  leaks them when the file grows again. Space is lost; no block gets two owners.
* `ospfsmod.c:798`: if the block of pointers cannot be allocated, the new doubly indirect
  block is freed and stays in the inode: a pointer to a free block.
* `ospfsmod.c:803`: a new block of pointers below the doubly indirect block is allocated and
  never entered there: the file grows, its new data is unreachable, the write ends with -EIO.
* `ospfsmod.c:747`: the test lets a file of `OSPFS_MAXFILEBLKS` blocks grow by one; no
  image of the formatter (at most 8192 blocks) holds such a file.
* `ospfsmod.c:1415`: the text of a symbolic link is copied without its NUL, over the words
  in which the next owner of the inode keeps its block pointers, and over those the last
  one left there: the text read back may be longer, and a later regular file takes
  characters for block numbers. The run `ospfs` uses texts of one word, which cover
  `oi_mode` only.
* `ospfsmod.c:1348`: an inode whose directory entry cannot be made stays in use.
* `ospfsmod.c:543`: unlink releases the inode of an open file; the old descriptor then
  works on the inode's next owner. The run has such descriptors: even so, blocks keep one
  owner and other files their contents.
* `ospfsmod.c:1461`: root following a conditional link overwrites the colon in the inode;
  the next one to follow it finds none and the kernel faults at address 0.
* `ospfsformat.c:505`: a file whose length is a multiple of the block size needs one block
  more while it is copied: an exact fit aborts.
* `ospfsformat.c:230`: every directory on the way down pins two blocks: trees deeper than
  six levels abort with "block cache full".
* `ospfsformat.c:466`, `:473`: with `-c` a file that cannot be read is left out without a
  trace in the exit status, its name stays in a blank entry (which the next name of the
  directory uses), and one slot of the cache is lost. `ospfsformat.c:652`, `:647`: so are names when
  `lstat()` fails, and the rest of a directory when `readdir()` does.
* `ospfsformat.c:439`: the file is never closed: a tree with more files than the process may have
  descriptors aborts.
* `ospfsformat.c:412`: the result for a name that does not fit is used as a pointer.
* `read-command.c:64` says of a comment that "the tailing '\n' is preserved"; the code swallows
  it: `a #c`, newline, `b` is the one command `a b`.
* `read-command.c:115`: `preCh` is read before it is set, at the first character of a script.
* `read-command.c:579`: commands that end in `;` are refused, `a<|b` and `(a)b` are
  accepted, and words behind a redirection join the name of the file; lines above 100 and
  words above 64 characters overrun their buffers.
* `main.c:83`: files that are named inside a subshell are in no dependency list.
* `execute-command.c:78`: a missing input, and `exec`, end the shell itself when it executes in
  sequence.
* `execute-command.c:192`: the status of a pipeline is that of the child that ends last.
* `osppeer.c:613`: when `open()` fails with another error than EEXIST, `task_download()` goes to
  `try_again` with the name set and unlinks it, whether or not it made the file: an old file is
  gone, though `:546` says that an existing name is left and another one taken, and though it may be
  registered. `NothingPartial` and `HaveIsTrue` except the names in `refused`.
* `osppeer.c:294`: the scan for the terminator tests a line once, when its code has arrived; if the
  newline at its end comes with the next read, `pos` is past the line and the process waits for
  an answer it already has. `ComesToServe` excepts a process that has `Missed` its line.
* `osppeer.c:306`: an answer of the tracker of `TASKBUFSIZ` bytes is terminated behind the
  end of the buffer.
* `osppeer.c:578`: a peer that closes early, without an error, looks like the end of the file.
* `osppeer.c:870`: after one upload the main process returns.
* `osppeer.c:163`: `head` and `tail` wrap at 2^32, which is no multiple of `TASKBUFSIZ`: the
  buffer jumps after 4 GiB.

## 6. What is proved

All theorems are about every value of the constants that the named assumptions of a module
allow: any number of processes, files, descriptors, peers, any size of a buffer or a disk,
and any bound. TLC evaluates the assumptions in every run of a module that extends it, and
it has checked each inductive invariant on the instance of the run. Hypotheses that are no
assumption of the module stand in the theorem.

### osprd lock (`OsprdProofs`, `OsprdRefinesProofs`)

* `TypeCorrect`: `Spec => []TypeOK`, with and without `Bkl`.
* `WriteLockExcludes`, `CountsNeverMissALock`: assuming `Bkl`, `MutualExclusion` and
  `CountsSound` are invariants. Neither is inductive. A grant relies on loads made
  earlier, so the invariant must say that what they found still holds (`TestInv`); that
  is so because nobody else is inside the driver meanwhile (`KernelInv`). A release
  relies on its file being locked, and a close on nobody being inside an ioctl on the
  same file (`FileInv`). The advance of the tail relies on tickets being distinct and not
  yet served (`TicketInv`). `IInv` is the conjunction; `InvInit` and `InvStep` prove it
  inductive, one lemma per group of actions (`QuietStep`, `GrantStep`, `AdvanceStep`,
  `ReleaseStep`, `TicketStep`, `TryStep`, `CloseStep`). The cardinalities move by one with
  `locked` (`LockedMore`, `LockedLess`).
* `ServedInOrder`: `Spec => NoOvertaking` without any assumption on the kernel. Its
  invariant `OrderInv` is weaker: tickets are distinct, not yet served, and whoever is
  about to be granted has the ticket at the tail. The order of service survives the race
  that breaks exclusion.
* `NoKnownSelfDeadlock`: `Spec => []KnownHolderNeverWaits`, also without `Bkl`: the checks
  for a lock of one's own are made once, before the wait, and nothing that others do while
  a process waits makes the driver record it as the holder.
* `DriverIsFairLock`: assuming `Bkl`, `Spec => FL!Spec`: the requests of the abstract lock
  are the processes between ticket and grant, ordered by ticket. Loads, waiting, the
  advance of the tail, open and refused calls are stuttering steps; `Grant` is `Serve`,
  a refused writer is `Refuse`, `TryAcquire` is `Try`, release and close are `Drop`.

### osprdaccess (`OsprdAccessProofs`)

`StepOfDriver` shows that a step of the clients is a step or a stutter of Osprd, so that the
invariants above carry over. `AInv` adds what the program knows where it is (`ClientInv`),
that each file asks for its lock at most once, which makes the counts exact where Osprd has
only bounds (`CountsExact`), and that every outstanding ticket has its owner in ACQUIRE or is
one of `abandoned` (`TicketsOwned`): a client that was killed there gets its lock first and
gives it back. `ClientAssumption` says what the loop over the arguments makes: any number of
devices, each open a file of its own, and no option that takes back -l or -L.

* `AccessTypes`: every request stays inside the device.
* `TicketsAccounted`: the ticket being served is that of a process in ACQUIRE, or one that
  the return at `osprd.c:321` left behind (section 5): neither a kill nor another
  refusal nor a failed open leaves one.
* `NothingLeftBehind`: when all have ended, no lock and no count is left, and no ticket but those.
* `LockedIoStays`: transfers under a lock are isolated. The hypotheses are `Bkl`, for the
  lock to exclude, and `WritersLock`, that whoever writes asks for the write lock: the lock
  is advisory, and `osprdaccess -w` without `-l` writes past it.

### SchedOS (`SchedosProofs`)

* `TypeCorrect`, for the scheduling algorithms 0, 1 and 2 (with another number the kernel only
  prints a message; `SchedosAssumption` leaves that out). The work is in the search
  loops: the next process in turn, and the one of best priority, exist whenever somebody is
  runnable (`RoundRobinFinds`, `HighestFinds`, by the least element of a set of numbers,
  `LeastNat`).
* `OutputComplete`: `NoLostOutput`. The invariant `IInv` says that one application at a time
  is between the swap and the store of the lock (`LockInv`) and that there the cursor it
  has loaded is the cursor (`CursorInv`). It holds for every start value of the lock's word.
* `PriorityRespected`: the action property `PicksHighest`, from `IInv`: a switch of algorithm 2,
  at an exit too, is to the best priority, but for the exit of section 5.

### MiniprocOS (`MposProofs`)

* `KernelTypes`, `AppTypes`: every live process is inside its own stack, also after
  `copy_stack()`, for every program. `KernelInv` needs to speak of the dead as well: a queue
  pointer may name a process that has exited, and waking it must find a stack.
* `ExitFinalInOneRound`: assuming `OneRound`, `ExitIsFinal`. The run `mpos_exit` violates it
  without; so reuse of descriptors is the only cause.
* `WaitNotSpurious`: `WokenByAwaited`, from `WaitInv` for arbitrary programs (this is what
  `OneRound` is for) and from the invariants of the applications, which reuse descriptors.
* `ChildrenExact`, `AppsEndComplete`: `ChildrenCounted`, and the safety half of
  `AppsComplete`. `App2Inv` holds the reason why mpos-app2 survives the reuse: its children
  are consecutive, they run and exit in the order of their descriptors, and the first of
  them is the only one waited for when anybody blocks.

### OSP peer (`TaskBufProofs`, `OsppeerProofs`)

* `ReadIsFifo`, `WriteIsFifo`: what `Held` lists of the ring followed by what is still to
  come is the same before and after `read_to_taskbuf()`; what `write_from_taskbuf()` hands
  out followed by the rest is what was held. So the ring is a queue of bytes, for every size
  and every position of its counters below their wrap. Underneath are facts about remainders
  (`PosAdd`, `PosWrap`, `Places`) that the provers need one at a time.
* `TypeCorrect`, `BytesStayInOrder`, `NothingPartialStays`, `AnnouncedIsThere`,
  `AllPeersTried` follow from the one invariant `PeerInv`:
  * no two processes have the same name on disk (`O_EXCL`), so what a process writes is its
    own; what it unlinks is its own or a name on which `open()` failed; the bytes under its
    name are as many as its buffer counts, and with ring and source they are what the peer
    sent (`NamedInv`);
  * the peers already dropped from the list were no good (`PeersInv`), and a process gives up
    only with an empty list or when every name is taken (`StageInv`);
  * at most `main.count` download processes have not exited (`MainInv`), so the upload starts
    only when nobody writes any more, and its file stays as it is (`UpInv`);
  * what the tracker was, or is about to be, told is on disk from the start or saved by a
    process past its last write, or `open()` has failed on its name (`HaveInv`).

  One lemma per part says which changes of the state keep it (`StepsChildren`, `StepsDisk`,
  `StepsHave`, `StepsMain`); the lemmas per action then show that the action is such a change.
  The one hypothesis is `SmallFiles`, that a file to upload is below 2^32 bytes. A failed
  `open()` may unlink an old file, a file that is registered, or the file another process is
  writing (which then writes on without a name); `NothingPartialStays` and `AnnouncedIsThere`
  say that nothing else does (section 5).

### OSPFS (`OspfsProofs`)

`TypeCorrect`, `BlocksAreExclusive`, `NamesAlwaysResolve`, `FilesAreIsolated`,
`WritesAreExact` and `ListingsAreComplete`: the six properties of the run `ospfs` hold for
disks, directories and files of every size and every sequence of calls. The first five follow from
`FsInvariant`. Its invariant `FsInv` is inductive, and the properties are not:

* `Sound`: every pointer that is not 0, those outside the size of a file included, leads to
  a data block in use, and no two lead to the same. `inode_blockno` reads the words of
  block 0 when a file has no indirect block, so block 0 has to be zero; it stays so because
  no pointer leads there.
* `FilesInv`: every file has the blocks of its size (`Present`); the root is the one
  directory, and its size is a whole number of blocks, since it only grows by blocks.
* `NamesInv`: entries that are not blank have different names and lead to inodes other than the
  root, whose link counts are at least the number of their entries. The count may be
  larger: `ospfsmod.c:1348`.

The argument goes from the inside to the outside.

* `Indexes`, `BlocknoIs`: `direct_index`, `indir_index` and `inode_blockno` name the same place
  for the same block, and different places for different blocks.
* `AddStep`, `RemoveStep`: a call of `add_block` or `remove_block`, with each of its failures,
  keeps `Sound` and leaves the blocks of other files alone.
* `ChangeSizeIs`: after any number of these, a file has the size asked for, or the old one
  with the old contents (`ResizedData`, `RestoredData`). That is not all of what the comment of `change_size()` says;
  the run `ospfs_enospc` shows the difference. The loops are recursive
  functions. That they exist, and what is true after each round, is shown with the
  least number of rounds for which it fails (`LeastNat`), because the induction theorems of
  the library take an operator.
* `FullDirectory`: a full directory has as many entries as names at most, so `create_blank_direntry`
  never takes it beyond the indirect block.
* One lemma per call shows that it `Keeps` everything but the one file and the one name it is
  about (`NewFile`, `RelinkIs`, `UnlinkKeeps`, `SizeKeeps`, `WriteKeeps`); `FilesAreIsolated`
  and the listing read it off there.

`ListingsAreComplete` needs `ListingInv` besides: entries of names in `kept` never move, those
before `f_pos` have been shown once and those from there on not at all; a blank entry that
is used again, before or behind `f_pos`, has a name that is not in `kept`.

There are two hypotheses, both needed for what the code does (section 5).
`BelowIndirect2`: the sizes asked for, and a directory with all names, need no doubly
indirect block. `TextsOverMode`: the text of a symbolic link covers `oi_mode` only. `MCOspfs`
assumes both, so TLC evaluates them. The assumptions of the module
say that the areas of the disk come in the order of `ospfs.h`, that blocks, pointers and
the growth of a directory are not empty, that 2^32 is a multiple of the block size, and that
the sizes of calls do not wrap.

## 7. What is only model-checked

* Liveness under fairness (`EveryoneEnds`, `AllFinishUnlessPriorities`, `RunnableRuns`,
  `AppsComplete`, `EverythingEnds`, `ComesToServe`): out of the prover's reach, as is
  everything about ENABLED.
* Ospfs beyond the hypotheses of section 6: the properties fail there (section 5).
* Ospfsformat: its properties speak of a whole image (`BlocksAccounted`), a whole tree of the host
  (`RoomSuffices`) or both (`ImageIsHostTree`), which RECURSIVE operators read (`ImageBelow`,
  `HostBelow`); the prover cannot take those. That two names are lost to failing calls is a
  bound of the run.
* Shell, ShellParse and ShellSpec are built of RECURSIVE operators too (`execute_command`,
  `readList`, `Meaning`, `Run`): they follow the tree of a command.

## 8. What is not modelled

* osprdaccess: process ids that are used again, a second ramdisk in detail, the data of
  `-z` and standard input.
* OSP peer: "evil mode", the options, peers and trackers that answer against their
  protocol, names that are not registered for their suffix; reads that cut the code of a
  reply between two processes.
* ospfsformat: the form without `-r`, in which the files are arguments; the option `-V`.
* Shell: failures of fork, pipe and dup2; what the programs of a script do besides reading
  and writing.
* OSPFS: mounting, permissions, subdirectories (the driver cannot create any) and over-long
  names, which the lookup rejects before any other callback sees them; a copy to or
  from user memory that sleeps half way.
* `fsimgtoc`, `truncate`, `mkbootdisk`: tools that copy bytes and end.
* Boot sector, ELF loader, interrupt tables: what the kernels rely on (interrupts are off
  in the kernel, `run()` does not return) is in the models.
* `lib.c`, `md5.c`, `writescan.c`: formatting, copying and hashing, without state of the
  system's own.
* `weensyos2/weensyos2-cs111` is a second copy of SchedOS.
