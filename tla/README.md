# UW-Madison CS 537 course projects: a TLA+ verification development

The repository holds the six projects of an operating systems course.  Four of
them change or use stateful systems worth a model: a kernel (xv6, in three
variants: `p2/solution`, `p4/solution`, `p5/xv6-public`), a shell
(`p3/solution/wsh.c`) and a FUSE file system with RAID (`p6/solution`).  This
directory models the parts whose correctness depends on the order of events,
model-checks them with TLC on small instances, and proves the central
invariants with TLAPS for every value of the constants.

## 1. Inventory

| Component | Source | State it keeps | Operations | What is hard about it |
|---|---|---|---|---|
| Process table | `p4/solution/proc.c`, `trap.c`, `sysproc.c` (stock code also in `p2`, `p5`) | `ptable.proc[]`, `nextpid`, `cpus[].proc`, `ptable.lock`, `tickslock`, `ticks` | fork, exit, wait, kill, sleep/wakeup, sys_sleep, timer, yield, dispatch | several CPUs and interrupts interleave; locks are handed over across `swtch()`; lost wakeups, orphans, reuse of slots |
| Stride scheduler | `p4/solution/proc.c`, `sysproc.c`, `trap.c` | `tickets`, `stride`, `pass`, `remain`, `rtime`, `global_tickets/stride/pass` | settickets, getpinfo, and bookkeeping inside every operation above | aggregates kept by increments in eight places; integer division; credit across a sleep |
| Round robin scheduler | `p2/solution/proc.c`, `p5/xv6-public/proc.c` | place of the scan | scheduler() | the table changes during the scan; fairness |
| getparentname call | `p2/solution` | none | copies two names | pure read |
| Memory mappings and copy-on-write | `p5/xv6-public/vm.c`, `kalloc.c`, `trap.c`, `sysproc.c`, `proc.c` | page tables, `ref_count[]`, free list, `wmap_regions[]` | wmap, wunmap, page fault, fork, exit, exec | ownership of a frame shared by processes; failing half way |
| Log, buffer cache, disk driver, sleep locks | `p5/xv6-public/log.c`, `bio.c`, `ide.c`, `sleeplock.c` (the same in `p2`, `p4`) | `log`, the log on disk, `bcache` and its list, `idequeue` | begin_op, log_write, end_op, commit, recovery, bread, bwrite, brelse, iderw, ideintr | a crash between any two writes; bounded log and cache; four locks on one path |
| Open files and pipes | `file.c`, `pipe.c`, `sysfile.c`, parts of `proc.c` | `ftable`, `p->ofile[]`, ring buffers | dup, close, read, write, pipe, open, fork, exit | counts given back once on every error path; sleeping producers and consumers; kill |
| Inodes, directories, path names | `fs.c`, `sysfile.c` | inodes on disk, `icache`, `p->cwd` | open, create, mkdir, mknod, link, unlink, chdir, close, exit | the lock of an inode is dropped between steps; freeing races with looking up; order of locks |
| Spin locks, console, interrupt controllers, boot | `spinlock.c`, `console.c`, `uart.c`, `kbd.c`, `bootmain.c`, … | hardware | | hardware and I/O |
| WFS | `p6/solution/wfs.c`, `mkfs.c` | superblock, bitmaps, inodes, blocks on N disks; static `next_disk` | getattr, mknod, mkdir, unlink, rmdir, read, write, readdir | replicas must agree; errors half way through an update; striping |
| wsh | `p3/solution/wsh.c` | history, local variables, descriptors | exec, history, export, local, vars, cd, ls, exit | a resizable array of owned strings; state left by redirections |
| letter-boxed | `p1/solution/letter-boxed.c` | one board | check a solution | a pure algorithm |
| `practise`, `exams`, slides, OSTEP submodules | | | | exercises and assets |

The components meet in a few places.  Every kernel subsystem blocks through
`sleep()`/`wakeup()` of the process table; the scheduler is the only code that
leaves a process' kernel stack; `fork()`, `exit()` and `trap()` call the memory
system; WFS and wsh are separate programs that meet the kernel only through
system calls of the host.

What makes the components right:

* process table: no lost wakeup, no orphan without a parent, no process on two
  CPUs, a slot under construction has one owner, pids name one process, a zombie
  is only reaped; and, with a fair CPU, everything that must run does;
* stride scheduler: the process that has had least is dispatched, sleeping gains at
  most one turn, and nobody starves;
* memory: a frame has at least as many references as page tables hold it and is
  never free while one does; copy on write of private memory cannot be told from
  copying;
* WFS: callers see a tree of files whatever the RAID mode and whatever fails, in
  whatever order the disks are mounted, and every block has one owner;
* log: a restart finds the disk as it was at a moment when no operation was in
  progress; every call returns; while operations keep within what they reserve, the
  log does not overflow;
* open files and pipes: every count is what will be given back; a pipe is a bounded
  queue, with no process left asleep beside what it waits for;
* inodes: one cache entry each, nothing freed while it is named or in use, and no
  process waiting for another for ever;
* wsh: what is substituted and remembered is what a user is told, and the heap
  holds just that, as long as nothing is stored past the end of the history.

Section 5 says which of these the code does not keep.

## 2. Modules

| Module | Models | Composition |
|---|---|---|
| `ProcTable` | life cycle of processes: one action per critical section of `proc.c`, `trap.c`, `sysproc.c` | base; abstract specification `PtSpec` |
| `RoundRobin` | `scheduler()` of `p2` and `p5`: whose turn it is | extends `ProcTable`, implements it (proved) |
| `Stride` | `scheduler()` and the shares of `p4` | extends `ProcTable`, implements it (proved) |
| `ProcTableProofs`, `RoundRobinProofs`, `StrideProofs` | theorems about the above | |
| `CowMem` | frames, page tables and mappings of `p5` | base |
| `PrivateMemory` | what `CowMem` promises a program for its own pages | abstract; implemented by `CowMem` through the mapping `Memory` (proved) |
| `CowMemProofs` | theorems about `CowMem` | |
| `Buffers` | buffer cache, sleep locks of buffers, disk driver and its interrupt | base |
| `Log` | the log and the calls that use it, with crashes and recovery | extends `Buffers` |
| `LogReserved` | the assumption that operations write no more than they reserve | extends `Log` |
| `AtomicDisk` | what the log promises | abstract; implemented by `Log` (proved) |
| `LogProofs` | lemmas about `Buffers`, theorems about `Log` | extends `LogReserved` |
| `Pipe` | ring buffer, its two ends, sleeping and waking | base |
| `OpenFiles` | `ftable`, descriptors and the calls on them | extends `Pipe` |
| `ByteStreams` | what pipes promise | abstract; implemented by `OpenFiles` (proved) |
| `OpenFilesProofs` | theorems about the file table, alone and with its pipes | |
| `Inodes` | inode cache, directories and the calls that walk paths | base |
| `InodesProofs` | theorems about `Inodes` | |
| `Wfs` | bitmaps, inodes and blocks on the disks of `p6` | base |
| `FileTree` | what `wfs` promises its callers | abstract |
| `WfsTree` | `Wfs` with a caller who looks at the whole tree after each operation | shows that `Wfs` implements `FileTree` |
| `Wsh` | the shell, a line at a time, with the memory it owns | base |
| `Shell` | what the shell does, as its user sees it | abstract; implemented by `Wsh` (proved) |
| `WshProofs` | theorems about `Wsh` | |
| `MCProcTable`, `MCRoundRobin`, `MCStride`, `MCCowMem`, `MCLog`, `MCOpenFiles`, `MCInodes`, `MCWfs`, `MCWfsTree`, `MCWsh` | instances for TLC | |

### 2.1 ProcTable

`ProcTable` is the abstract specification of the process table: it says what a
process may do and leaves open *which* RUNNABLE process a scheduler dispatches,
and whether the scheduler keeps `ptable.lock` between two dispatches.  Both
schedulers refine it.

*State.*  `state`, `pid`, `parent`, `chan`, `killed` are the fields of `struct
proc`; `cpu[c]` is `cpus[c].proc`.  `pc[p]` says where a process stands between
two critical sections, and `np[p]` is `fork()`'s local variable.  `due[p]` stands
for `sys_sleep()`'s local `n - (ticks - ticks0)`, which keeps the clock finite.
`ptlock` records only the one place where `ptable.lock` is held from one action to
the next: across `swtch()`.  `tickslock` is held between `sys_sleep()`'s test and
`sleep()`.  `intr[c]` marks the stretch from the timer interrupt's own work to
`yield()`.

*Actions* are the critical sections, and a section that touches only the
process itself is an action too: `Enter`, `Fault`, `ExitCall`, `OtherCall`
(`trap()`, system calls); `AllocProc`, `AllocFail`, `ForkAbort`, `ForkDone`
(`allocproc()` and `fork()`, which works on an EMBRYO without the lock); `Exit`;
`Reap`, `WaitFail`, `WaitSleep` (`wait()`: its loop keeps the lock); `SleepTest`,
`TickSleep` (`sys_sleep()` and the hand-over of locks in `sleep()`); `IoSleep`,
`IoWakeup` (any other channel); `Kill`; `Timer`, `TimerExit`, `Yield`;
`Dispatch`, `ScanEnd` (`scheduler()`).

### 2.2 RoundRobin

Adds `next[c]`, the scan's index.  `RunNext` dispatches the first RUNNABLE process
at or after it and `EndScan` ends the pass over the table and releases the lock;
between two turns of one pass the lock is held.

### 2.3 Stride

Adds the five fields of `struct proc` and the three globals.  Each action conjoins
a `ProcTable` action with the bookkeeping of the same critical section:
`NewShares` (in `allocproc()` and again in `fork()`), `Rejoin` (`wakeup1()`,
`kill()`), `SleepShares`, `ExitShares`, `YieldShares` (`sleep()`, `exit()`, and the
charge after `swtch()`), `SetTickets`, `TimerShares`.  `min_pass_proc` is the scan.
Integers are unbounded, where the code has `int`; the runs bound passes far below
the width.

### 2.4 CowMem and PrivateMemory

*State.*  `free` is the free list (as a set: its order decides only which frame
`kalloc()` returns), `ref` is `ref_count`, `mem[f]` what the frame holds: the
process that wrote it last, the program's text, zeros, or `kfree()`'s junk.
`pt[p][v]` is the page table entry with its bits PTE_W, PTE_U and PTE_COW;
`kern[p]` are the frames of the kernel stack, the directory and the page tables;
`top` is `sz`; `maps` is `wmap_regions`.  `kid`, `at` and `new` are the locals
`np`, `i` and `new_page`.  Page 0 and up is the program and its heap, one page
table away from the window 0x60000000..0x80000000 of `wmap()`.

*Actions.*  `fork()` is a step for the kernel stack, one for the directory, one for
every page (`CopyPage`), and `ForkDone` or `ForkFails`; a page fault that copies is
two steps (`CowFault` until the new page is filled, `CowSwitch` for the count and
the entry), because other processes run in between.  `LazyFault`, `SegFault`,
`OutOfMemory` are the other branches of the handler.  `SbrkGrow`, `SbrkShrink`,
`wmap`, `wunmap`, `Exec`, `Exit`, `Reap` are one step each: they take frames only
for themselves and give back only their own.  `Write` is a program that stores to a
page it may write.

`PrivateMemory` has no frames: every process has a memory of its own, which
`fork()` copies at once and which no step of another process changes.  `Memory`
maps each running process to what it finds in its code, data, stack and heap
(`Low`).  Mappings are left out: every mapping is `MAP_SHARED`, of which the
documentation promises the contrary (`SharedVisible`, section 5).

### 2.5 Wfs, FileTree and WfsTree

*State.*  For every disk its two bitmaps, its inodes and its data blocks;
`raid_mode` from the superblock; `order`, the order of the images on the command
line, and `next_disk`, the static variable of the allocator: the last two belong to
one mount.  A block is `UNITS` units, each a directory entry, a pointer of the
indirect block, or a piece of a file.

*Actions* are the handlers `wfs_mknod`, `wfs_mkdir`, `wfs_unlink`, `wfs_rmdir`,
`wfs_write` (FUSE runs single threaded), each with the ways it fails half way;
`Remount`; and `Corrupt`, a disk that loses its data blocks while it is not mounted
(external, as the test tool `corrupt-disk.py` does).  `wfs_getattr`, `wfs_readdir`
and `wfs_read` change nothing: they are the operator `View`, which reads the whole
tree through `read_data_block`.

`WfsTree` adds the variable `tree`, which is `View` as the caller saw it last, and
`remounted`, whether the last step was a mount.
`FileTree` says what may happen to it between two looks: a node is created or
removed, a range of a file is written, or, when space runs out, a prefix of it.

### 2.6 Buffers, Log and AtomicDisk

*State.*  `buf` is `bcache.buf` with block number, flags, reference count, sleep
lock and contents; `mru` the order of the list through `bcache.head`; `idequeue` and
`drive` the driver's queue and what the controller does with its head; `disk` the
contents of each block.  `io[p]` says where a process stands in `bread()`,
`bwrite()` or `brelse()`, and `asleep[p]` the channel it sleeps on.  `lh`,
`outstanding` and `committing` are the fields of `log`; `job` holds the locals of
`commit()` and of recovery (the stage, `tail`, and which of the buffers is in hand);
`inode` is the sleep lock of the one file that operations share.  A block's contents
is the process that changed it last; the header's is the list of blocks.

*Actions* are the critical sections of `bcache.lock`, `idelock`, `log.lock` and the
sleep locks' spin locks: `bget`, `bwrite`, `releasesleep` and the continuations of
`CallStep`; `Hardware`, which is the controller and `ideintr()`; `begin_op`,
`log_write`, `end_op`; and one action for each block that `write_log()`,
`write_head()`, `install_trans()` and `read_head()` get, copy, write and release.
The callers are the shapes the kernel has: `"plain"` (`begin_op` and blocks),
`"write"` (`filewrite()`: `begin_op`, then `ilock`), `"wunmap"` (`do_wunmap()`:
`ilock`, then `begin_op`) and `"read"` (`readi()` outside an operation).  `Killed`
lets `kill()` wake a process from any `sleep()`.  `Crash` may come between any two
actions; it keeps `disk` and nothing else, and `recover_from_log()` follows.

`AtomicDisk` has two stores: what operations see (`Store`: the cache before the
disk) and what a restart would find (`Saved`: the log's blocks where the header
names them).  The second takes the value of the first only at a moment without
operations, and a crash sets the first back to the second.

### 2.7 Pipe, OpenFiles and ByteStreams

*State.*  A pipe has its page (in use or free), `data`, `nread` and `nwrite` (taken
modulo `UINT`, a multiple of `PIPESIZE` as 2^32 is of 512), `readopen` and
`writeopen`, and the processes that sleep on either counter; `file` is `ftable.file`
and `ofile` the descriptors.  `pc` and `work` say where a call stands and what it
still closes, `refs` counts the references to inodes.

*Actions.*  `pipewrite()` and `piperead()` are one action for each stretch under the
pipe's lock, up to `sleep()` or the return; `sys_dup`, `sys_close`, `sys_pipe` and
`sys_open` go step by step through `filealloc()`, `fdalloc()` and `pipealloc()`, each
of which may fail; `ForkFile` and `ExitFile` take one descriptor at a time.
`fileclose()` is two actions, since it frees the slot before it closes the pipe or
puts the inode.  `kill()` marks and wakes any process but init.

`ByteStreams` is a bounded queue for each pipe and the two facts whether somebody can
still read it or write it; the step that brings bytes to a reader is recorded in
`got`, so that what is read is part of the refinement.  Nothing leaves a queue but to
a reader, and an end of file is only told of a pipe that is empty and has no writer.

### 2.8 Inodes

*State.*  `dinode` is the disk's inodes with the entries of directories, `icache` the
cache with counts and sleep locks, `cwd` and `fd` a current directory and an open
file for each process, `call[p]` where a process stands.  What a call still has to
put is the list `puts`.

*Actions.*  `namex()` is a step to lock a directory, one to look an entry up there
and unlock it, and one to put it; `create()`, `sys_link()`, `sys_unlink()`,
`sys_chdir()` and `sys_open()` go on from there, one action for each lock they take.
`iput()` is what the code makes of it: the lock, the test of the count with the
freeing up to `releasesleep()`, and the decrement under `icache.lock` are three steps
on every way through it, with others in between.  Operations of the log exclude no
other operation, so they are no part of it.

### 2.9 Wsh and Shell

*State.*  `history` is the array of pointers, `room` how many fit in what
`realloc()` gave, `string` the strings on the heap; `shell_vars` and `node` the list
of variables; `env` the environment; `fd` what descriptors 0 to 2 are.  One action
is a line: a program (found or not, after a redirection that may fail, or the end of
the shell where `fork()` fails), `history`, `history set n` (also with a `realloc()`
that fails), `history n`, `local`, `export`, other built-ins, `exit` and the end of
input.

`Record` tests the count against the capacity, as the code does, and not against the
room of the array: a history that was lowered and raised again is stored past its end.
That sets `overrun`; from then on `Damage` may happen between two lines: the entry
past the end becomes a wild pointer, a string or the value of a variable becomes junk,
or the shell dies.  The session goes on with what is left.

`Shell` keeps a list of variables, a list of commands and the arguments of what ran
last.  README.md of p3 and the program disagree in two places, and `Shell` allows both
ways there: whether a command run twice in a row is stored once (README.md:240) or
again (the program), and whether the environment is searched for `$x` where a tail
follows, as in `$x,` (README.md:198), or not (the program).

## 3. Runs

| Run | Asks | Instance | Result |
|---|---|---|---|
| `proc_table` | all safety properties of the table | 3 slots, 2 CPUs, 3 forks, `kill` of 0 and 2, sleeps of 1 tick | pass |
| `round_robin` | liveness | 3 slots, 1 CPU, sleeps for the disk too | pass |
| `stride` | a sleeper's credit, the set-back, the order of dispatch | 3 slots, 1 CPU | pass |
| `stride_starve` | nobody is left behind | 3 slots, 1 CPU | violated by the code |
| `cow_memory` | reference counts, who may write, privacy of private pages | 3 processes, 11 frames | pass |
| `log_crash` | crash safety, durability, the cache, progress | 2 processes, 4 buffers, 2 blocks and a log of 4; operations within their reservation | pass |
| `log_wunmap` | begin_op() returns | 2 writers and a `do_wunmap()` of one file | violated by the code |
| `open_files` | counts, owners of pipe ends, lost wakeups, streams | 2 processes, 3 files, 2 descriptors, 1 pipe of 2 bytes | pass |
| `inodes` | counts, cache and disk, freeing, which deadlocks there are | 2 processes, 5 inodes, 2 calls out of 9 on 4 paths without `..` | pass |
| `wfs` | owners of blocks, one name per node, link counts, the tree, also when one disk is lost again and again | 3 disks, modes 0, 1 and 1v, 4 inodes, paths of 2 names; mounted in the order of mkfs | pass |
| `wfs_order` | the order of the disks at mount does not matter | 2 disks, mode 1v | violated by the code |
| `wsh` | memory, and what a user sees, until the history is overrun | 3 names, 2 values, 2 commands, a history of 3 | pass |

The properties:

* `NoMissedChild`, `NoMissedTick`: the two places where a wakeup could be lost.
  `EmbryoOwned`: the slot `fork()` fills in without the lock has one owner.
  `ParentAlive`, `OneCpuEach`, `ZombieOnlyReaped`: no orphans, no process on two
  CPUs, no dead process revived.  `IInv`: the inductive invariant of the proofs.
* `EveryoneRuns`, `KilledDies`, `OrphanReaped`: what must happen eventually, and that the table changes under the scan without anyone starving.
* `SleepCredit`, `SetBackAtMostOneStride`: sleeping earns at most one turn.
  `DispatchesFarthestBehind`: the scan's result.  `NoneLeftBehind`: what p4's
  README.md:13 asks for, and leaked tickets take away.
* `CountCoversHolders`: what is freed is mapped nowhere.  `WritersAlone`: a page
  that can be written is in one page table, those of mappings too, which is more than
  they should promise (section 5).  `PrivateMemory`: refinement, for private pages.
* `AtomicDiskSpec`: crash safety, as a refinement.  `QuietIsDurable`: when the last
  operation has returned, its changes are on disk (a refinement alone would allow a
  log that never commits).  `CacheSound`: a block is in the cache once, a buffer in
  use has a reference.  `CallsReturn`: unless the machine keeps crashing, every call
  returns, and none ends in a panic.
* `TableSound`, `EndsOwned`: `f->ref` is the number of those who will close the file,
  an end of a pipe has one owner, an inode's reference one file, through every
  failure.  `SleepersHaveReason`: a writer sleeps only beside a full pipe that somebody
  can still read, a reader only beside one that somebody can still write; a reader
  falls asleep beside an empty pipe, and no byte is written while it sleeps but by a
  `write()` that is killed (section 5).  `ByteStreamsSpec`: refinement.
* `RefsExact`: `ip->ref` is the number of those who will put the inode.
  `CachedIsDisk`: what is valid and not locked is what the disk says.
  `KeptWhileNeeded`: an inode with a name, or in use, is not freed, and its links are
  counted.  `DeadlocksOnlyInPut`: the one way in which processes wait in a circle.
* `ShellSpec`: refinement.  `MemoryOwned`: each string and node on the heap has one
  pointer, and the array has room for its count.  Both say so until something is
  stored past the end of the history.
* `BlocksOwned`: every block marked in use belongs to one pointer of one inode, and
  every block an inode refers to is marked, also after a `rmdir()` that fails behind an
  empty first block.  `OneName`, `LinkCount`: directories form a tree.  `TreeOfFiles`:
  refinement of `FileTree`, in every mode, with remounts in the order of mkfs, and also
  when one of three disks has lost its data.  `OrderIrrelevant`: a mount in another
  order shows the same tree; it does not, because images differ in the pointers of
  their inodes.

### 3.1 Bounds

* `NPROC = 3`: init, a parent and a child, the least with orphans; two forks race
  with 2 CPUs.  `MAXPID` bounds forks: enough to use a slot again.  `round_robin` has
  one CPU, which is what TLC can do for liveness with three slots: a kill or a tick
  between a test and `sleep()` cannot come there, with interrupts off, and is left to
  the safety properties of `proc_table`.
* `MAXPASS`, `MAXRTIME`, `STRIDE1`: small strides that still divide unevenly and
  reach 0 when tickets leak; the bound on passes allows each process several turns.
  In `stride`, `settickets()` is called with too few, too many and fewer than the
  default, which is there the maximum, so two strides are about at a time; a third
  (a maximum above the default) takes the run past what TLC can do in minutes.
* `cow_memory`: a program has one page; with three processes 11 frames leave one to
  spare, so faults succeed, and memory runs out in the next one; with two there is
  room for the heap and a mapping.  `Apart` is the bound that keeps heap and
  mappings to two processes.  `MAXREF` bounds the counts that failed forks leave
  raised.  Frames have no identity beyond what holds them: `Lowest` lets `kalloc()`
  take the lowest free frame, and the `VIEW Sharing` identifies states that differ
  by a renaming of frames.  Every action commutes with a renaming, the guards, the
  invariants and `Memory` look only at what `Sharing` keeps, and of frames nobody
  holds only the number that are free matters.
* Log: two blocks and two processes make absorption, group commit and a wait in
  `begin_op()` possible: with `LOGSIZE = 4` and `MAXOPBLOCKS = 2` a second operation
  waits once the log is not empty, and `OPWRITES = 2` uses all of a reservation.
  `NLOG = 5` is what `Reservations` of `LogReserved` asks for then.  Two blocks never
  fill it: the run says nothing about a log that is too small, for which see
  `TransactionFits` in section 5.
  `NBUF = 4` has no buffer to spare: two for pinned blocks, one of `commit()`'s and one
  that the other process reads; the code's 30, beside a log of 29, leave as little.
  `CALLS = 1` call for each process and any number of crashes, in each of which a
  process loses the call it is in; so few do not exercise starvation, of a call that
  waits while others begin again and again.  `log_wunmap` needs three processes: one to
  commit, one that waits for the inode inside its operation, and one that holds it.
* OpenFiles: a pipe of 2 bytes under a write of 3 and reads of 2 is full, is empty and
  wraps round; `UINT = 4` makes the counters wrap.  Three files and two descriptors run
  out in the middle of `pipe()` and `open()`.  Only one process opens files
  (`Openers`), for which the other's would be symmetric.
* Inodes: two calls at a time suffice for each pair of calls to interleave; the four
  paths are relative and absolute, of a file, of a directory that may be removed, of
  a name in it, and of a name that does not exist yet.  None has `..`: with it the half
  of `KeptWhileNeeded` about names fails (section 4).  `NINODE = 6` is as many as can be
  in use here, so the cache never fills, and two creations leave the disk's inodes just
  enough: running out of either is a panic of the code, of which no property speaks.
* Wsh: a history of at most 3, resized to 0 (refused), 1 to 3 and 4 (refused); the
  `VIEW Contents` leaves out addresses on the heap, pointers past the count and what
  ran last, none of which a later line can depend on.  After an overrun the run goes on
  with one variable and until one thing is damaged (`FewDamaged`): no property says
  more of a damaged session than that it stays one.
* Wfs: two direct pointers and blocks of one unit, so that the third unit of a file
  needs the indirect block and a second entry of a directory a second block; writes
  start before the indirect block, at it, and go past it; few enough blocks that every
  allocation fails somewhere.  That a block has one unit leaves out writes to a part of
  one.  `NumBlocks` is given for each mode, because striping never hands out one block
  of every disk.  `MaxSize` bounds the size of a directory, which only grows in the
  code.  `wfs` mounts in the order of mkfs, the one in which the code keeps its promise;
  `wfs_order` in any.

### 3.2 Fairness

* `RoundRobin!FairSpec`: a CPU executes its scheduler (weak), leaves interrupt
  handlers (weak), the timer interrupts again and again (strong: interrupts are off
  now and then), a process that is dispatched again and again executes (strong: a
  time slice is long against a step) and does something other than sleep for the disk
  once more, the disk answers, so that again and again nobody sleeps for it, and init
  keeps collecting children, the only thing it does (strong).
* `Stride!FairSpec`: the scheduler, the process that has a CPU and the timer go on
  (weak).  `NoneLeftBehind` fails under it without any bound being reached.
* `Log!FairSpec`: the disk works (weak), and a process that can go on in the kernel
  does (weak); both are what the scheduler of the first module gives.  Nothing is
  assumed of user mode, of `kill()` or of crashes: `CallsReturn` says what follows
  when crashes stop.  `BeginOpReturns` fails by a circle of waiting processes, which
  no fairness could break.

## 4. Proofs

`ProcTableProofs` proves, for any number of slots and CPUs, any bound and any set of
pids to kill, `PtSpec => []IInv` (`InvariantHolds`).  The assumption is `ProcTableAssumption`: there is
a slot and a boot CPU, `Free` names no CPU, sleeps are of at least one tick.  The
properties are not inductive one by one, and the named parts of `IInv` say what each
needs:

* `ParentAlive` needs `Rooted`: init, to whom children are handed, is alive and has
  no parent;
* `NoMissedChild` needs `ParentAlive` (the process that dies wakes *its* parent) and
  `OneCpuEach` (the parent that runs does not sleep);
* `NoMissedTick` needs `DozeHoldsClock`: between the test and `sleep()` the process
  holds `tickslock`, so no tick comes;
* `PidsUnique` needs `PidsBelow`; `EmbryoOwned` carries itself with `OneCpuEach`.

There is one lemma for each part (`OneCpuEachStep`, …, one step for each action),
and `PtNextIInv` puts them together.  `ZombiesStayDead` is an action property proved
from `IInv`.  `ForkHasSlotHolds` is a second invariant: a process about to publish a
child has one, which `Stride` needs to know whose shares change.

`RoundRobinProofs` proves that every step of `RoundRobin` is a step of `PtNext` or a
stutter (`RoundRobinImplementsTable`), for any number of CPUs, so what is proved of the
table holds of `p2` and `p5`; `RoundRobinSafe` states two parts of it.
`ScansStartOver` says of the scan itself that a CPU without a process either holds
`ptable.lock` and goes on, or will start at the first slot: a scan that is over has
let the lock go.  Its invariant needs `OneCpuEach` and who may hold the lock
(`LeavesLock`, `RunningLock`).

`StrideProofs` proves first that every step of `Stride` is a step of `PtNext` or a
stutter (`StrideImplementsTable`), so all of `IInv` holds; then `SharesInv`, with
`StrideAssumption` (positive default tickets, not above the maximum).  `TicketsOf`
is a cardinality, so that the sum of tickets needs no recursion; five lemmas
(`TicketsOfUnion` and others) say how it changes.  `LedgerExact` follows the eight
places that change `global_tickets`: it is *not* the sum that README.md:9 of p4 says it
is (`GlobalTicketsExact`, section 5) but exceeds it by `DEFAULT_TICKETS` for every fork
ever begun; `CreditBounded` needs that `global_pass` never
decreases, and so that `global_stride` is not negative; `SharesTyped` needs that a
process that exists has a ticket, so that no division is by zero.

`FarthestBehindRuns` is about what `scheduler()` computes.  `scan` is a recursive
function, and the library's induction theorems cannot be applied; but a set of
numbers has a least element (`LeastOf`), so a lowest slot at which the scan went wrong
would be wrong after a slot at which it was right.  The same argument gives that the
function exists (`ScanExists`).  That there is one process behind all others needs
`PidsBelow`: pids break the last tie.

`CowMemProofs` is about copy on write, for any number of processes, frames and pages.
`CowMemAssumption` says that the program fits in memory, and of `Grabs` (the frames that
a step takes from the free list) that it gives different frames, or none when there are
too few.  `Inv` has `Counted` (`ref_count` covers the page table entries of a frame),
`KernelsApart` (stacks, directories and tables of processes are different frames, and
in no page table), `Alone` (a page that can be written is mapped once) and, for each
process, where its call stands: `Slot`, `Fault` (the page being copied and the new
frame), `Fork` (the pages copied so far are shared without `PTE_W`), `Extent`.  The
counts are cardinalities of sets of page table entries, and `EachLoses` says how they
change when a step takes entries away.  From `Inv` follow `NothingMappedIsFree`,
`WritersShareNothing` and the refinement `CopyOnWriteIsPrivate`: every step is a step
of `PrivateMemory` or changes no memory, where memory is a program's private pages.

`OpenFilesProofs` is about open files, for any number of processes,
slots, descriptors and pipes, and a buffer of any size that divides the range of the
counters.  `FilesInv` says what every call in progress holds (`Work`, `Call`, `Forks`),
which makes `RefsExact` inductive.  `PipesInv` adds, for each pipe, who owns its ends
(`Ends`), that a transfer in progress has a descriptor of its end (`Transfer`), who
holds the lock across the call of `sleep()` (`Lock`), and what the sleepers wait for
(`Waits`, `Sleep`).  They give `TableIsSound`, `EndsHaveOneOwner`,
`NobodySleepsForNothing` and, with the arithmetic of the ring buffer (`Gap`, `BytesOf`),
the refinement `PipesAreStreams`.

`LogProofs` is about the log, for any number of processes, buffers
and blocks, with a crash possible between any two steps.  It extends `LogReserved`,
whose assumption `Reservations` is about the operations: each writes no more than
`MAXOPBLOCKS` blocks, and what can be reserved at a time fits in the log on disk.  The
calls of `sysfile.c` and `file.c` meet it (with the 30, 10 and 30 of `param.h` and
`mkfs.c` an operation may change 9 blocks, `filewrite()` changes 7 at most);
`do_wunmap()`, which may write 11, does not.  So nothing is proved about the log under
`do_wunmap()`, and that the log does not overflow is no theorem: it is what is assumed.
The argument has three layers.

* `BufInv`, of the cache and the driver: `CountsRefs`; each buffer in the queue has a
  process that waits for it (`Queue`); who locked a buffer knows what is in it
  (`Callers`, `Filled`).
* `LogInv`: one process at most commits or recovers, and where it is in its job
  (`Workers`, `Jobs`); a commit waits for all operations (`Admitted`); the blocks that
  operations may still change are reserved (`Fits`, a cardinality of `Owed`); each
  process has just the buffers that its step needs (`Holdings`); a header names no
  block twice (`HeaderGood`).  Hence `CacheIsSound`.
  After a panic nothing holds but what a restart needs.
* `DataInv`, of the contents: an unmarked buffer has what the disk has (`Clean`), a
  marked one is named in the log or is about to be written (`Pinned`, `Writing`); what
  `bwrite()` was called for has reached the disk when it returns (`Landed`, `Copied`);
  and what each stage of `commit()` and of recovery relies on: while `write_log()`
  works the header on disk is empty and the blocks copied so far are right
  (`Logging`), the header that `write_head()` writes names log blocks that are all right
  (`Committing`), `install_trans()` leaves a header whose blocks are at home
  (`Installing`, `Clearing`).  Hence `QuietDurable`, and `LogIsAtomic`: every step is a
  step of `AtomicDisk` or a stutter.  The step that commits is the one in which the
  disk takes the header (`TransferFine`); all others leave `Saved` alone, above all
  those of recovery, so that a crash in recovery is as good as one before it.

`InodesProofs` is about the inode cache and the calls on path names, for any number of
processes, inodes, cache entries and calls, and any paths.  `InitDiskAssumption` has a
root directory and says that the names of the first disk lead round in no circle
(`NoLoop`; `mkfs` makes one directory).  `Inodes.IInv` has these parts:

* `CallOK`: what a call must have locked, holds and still has to put, at each of its
  places; hence `Counted` (`ip->ref` is the sum of what all processes hold) is kept
  on every way out, and with it `OneEntry`.  In the model `ref` is compared with a
  cardinality, in the proofs with a sum of the six places where a process may hold
  an entry: `ExactIs` connects the two;
* `LocksExact`: an entry's lock is held by just the process whose place says so, so
  the entries that a step changes are the caller's own;
* `LockedValid`, `LikeDisk`: a locked entry is valid but between `iput()`'s last two
  steps, and a valid one is what the disk says, but while its owner is at work;
* `FirmTyped`, `NotFreed`, `VictimIs`: what a process has looked up, has open or has
  for its directory still has a type, although others unlink it.  It rests on the
  count: `iput()` frees an inode only with its last reference, under the lock;
* `Acyclic`: the names of directories lead round in no circle, whoever links.

They give `ReferencesExact`, `CacheLikeDisk` and `InUseKept`.  `WaitsInOrder` is the
absence of deadlock but for `iput()` under a lock: if all processes of a circle wait
elsewhere, each has a directory's lock and waits for an inode that a name of the
directory leads to, so the inodes they wait for are a circle of names, against
`Acyclic`.

`WshProofs` is about the shell, for any names, values and commands and a history of any
size.  `Sound` says that something was stored past the end of the history or `WInv`
holds, and `OverrunStays` that there is no way back.  `WInv` says of the history that
its first `history_count` pointers are the strings on the heap, each once (`Owned`), and
of the variables that there is a sequence of nodes that the `next` fields follow
(`Linked`), without a repetition, with one node for a name and no other on the heap
(`Listed`).  That `history_count <= room` is part of `WInv` because of `overrun`, which
`Record` sets when it is not so: `HistoryFits` is false of the code (section 5).
`ListIs` proves that the traversal of the list, a recursive function, finds just that
sequence.  There is always a string and a node to allocate because a sequence without
repetitions is no longer than what it is taken from (`DistinctFit`).  The lemmas on steps
say what recording, lowering, removing, updating and appending do to the two sequences;
from them follow `HeapOwned` and the refinement `WshIsShell`: until then every line is a
step of `Shell`.

Only proved, without a run of their own: `PidsUnique`, `SharesTypeOK`, `TicketLedger`,
`InUse`, and the inductive invariants of the later modules.

Only model-checked:

* liveness, which is out of the prover's reach (`EveryoneRuns`, `KilledDies`,
  `OrphanReaped`, `CallsReturn`).  That no call of the log ends in the panic "no buffers"
  of `bget()` is part of `CallsReturn`; with the constants of the code it can happen: 30
  buffers, of which 29 may be pinned, for 64 processes;
* `LinksCounted`, the half of `KeptWhileNeeded` about names.  It depends on the paths.
  The ".." of a directory that was removed is stale: with paths that walk through it
  (`<<"..">>` after `chdir()` into the directory, which another process removes with its
  parent) a process reaches an inode that is free, at which `ilock()` panics
  (`PanicsOnlyWhenFull`, section 5), or one that `ialloc()` has just taken, whose
  `nlink` is still 0 and which the put at the end of that walk frees.  The paths of the
  run do not do so; a theorem would need an assumption on paths that the code does not
  make;
* all of `Wfs`.

## 5. Findings

Checked, each by a run that TLC finds violated:

* `stride_starve`: tickets leak at every `fork()` until `global_stride` is 0 and
  `global_pass` stands still; then a process that sleeps and wakes is never charged.
* `log_wunmap`: `do_wunmap()` locks the inode before `begin_op()` (`vm.c:132`), the
  other way round than `filewrite()`.  One operation commits, a writer waits for the
  inode inside its operation, and `do_wunmap()` waits in `begin_op()` for room in the
  log that the writer keeps.
* `wfs_order`: a `rmdir()` that fails at a directory's second block has freed the first
  and forgotten it on the first image only (`wfs.c:655`).  The block is handed out again,
  and a mount with another image first shows it in both places; README.md:215 says that
  the order of the disks does not matter.  In RAID 0 the order matters in any case
  (`wfs.c:87`).

Each of these states a claim of the repository as an invariant or an action property of
a module, and TLC finds it violated on the instance named; no cfg of this directory lists
it, since the passing runs are about what the code does keep.  The properties that hold
are worded so that they do not claim it.

| Property | Claim | Instance | What the trace shows |
|---|---|---|---|
| `Stride!GlobalTicketsExact` | p4 README.md:9, :99, `proc.c:10`: `global_tickets` is the sum over running and ready processes | that of `stride` | one `fork()` counts its child twice (`proc.c:98`, `:236`), a failed one gives nothing back |
| `ProcTable!FreeSlotsUnmarked` | `proc.c:551`: `kill()` kills the process with the pid | that of `proc_table` | `kill(0)` marks a free slot (`proc.c:561`), whose next process is born killed |
| `CowMem!SharedVisible` | p5 README.md:72: writes to a `MAP_SHARED` mapping are visible to parent and child | `NPROC = 2`, `NLOW = 1`, `NHIGH = 1`, `MapsBeforeForks` | `copyuvm()` makes the mapping copy on write like all else (`vm.c:601`) |
| `CowMem!ReadOnlyStays` | p5 README.md:214: a read-only page is not made writable | `NPROC = 2`, `NLOW = 2`, `Image <- TextAndData` | the child's entry gets `PTE_COW` whatever the parent's was (`vm.c:610`) |
| `Log!TransactionFits` | `param.h:10`: an operation writes `MAXOPBLOCKS` at most | `Log` itself, `NBUF = NHOME = NLOG = LOGSIZE = 3`, `MAXOPBLOCKS = 1`, `OPWRITES = 2`, two `"plain"` callers | one operation that writes more than it reserved, as `do_wunmap()` does with 11 blocks, finds the log full |
| `Log!LogFits` | `param.h:11`: the log has its maximum of blocks | the same | two callers pass `log_write()`'s test, which comes before `log.lock` (`log.c:218`) |
| `Inodes!FreedWhenUnused` | `fs.c:119`: `iput()` frees an inode whose counts are zero | `FilePath`, `{"unlink", "close"}`, three calls | two `iput()`s see each other's reference |
| `Inodes!PanicsOnlyWhenFull` | `fs.c:310`: what is locked has a type | `NestedDisk`, `NestedPaths`, `{"chdir", "unlink"}`, four calls | `..` of a removed directory leads to a freed inode |
| `Inodes!NoDeadlock` | `fs.c:149`: getting and locking apart helps avoid deadlock | `FilePath`, `{"create", "unlink"}`, three calls | `create()` puts the directory under the child's lock (`sysfile.c:280`) |
| `Wfs!ImagesIdentical` | p6 README.md:201: all images look identical | that of `wfs`, mode 1 | a write that runs out of blocks leaves its pointers on the first image only (`wfs.c:829`) |
| `Wfs!CreatedIsFound` | p6 README.md:313: names have up to 28 characters | the same, `Cut <- LastCut` | a name of 28 is cut to 27 where it is made (`wfs.c:289`) and sought uncut |
| `Wsh!HistoryFits` | p3 README.md: `history set <n>` configures the length | that of `wsh` | `realloc()` shrinks the array, raising the number again does not enlarge it (`wsh.c:565`), and the next line is stored past its end (`wsh.c:703`) |

Read in the code while modelling, without a run of their own:

* p4: `pass` shrinks by up to a stride across a sleep, and is not rescaled by
  `settickets()`; `sys_sleep(-1)` compares an unsigned difference with -1 and sleeps for
  2^32 ticks.
* p5, memory: when everyone who shared a page has copied it, its frame is lost
  (`trap.c:87`); `wunmap()` leaves translations in the TLB (`vm.c:148`); the guard page
  becomes writable in a child (`vm.c:565`); a count is one signed byte and failed forks
  raise it; `do_wmap()` keeps the region when the descriptor is bad (`vm.c:102`);
  `exit()` ignores a `do_wunmap()` that fails (`vm.c:137`); a fault of the kernel itself
  that finds no memory returns to the same instruction (`trap.c:77`); `wunmap(0)` lowers
  `wmap_count`.
* p5, log: `log_write()` panics at `log.size - 1 = 29` blocks, though `begin_op()`
  hands out 30, and looks before it absorbs (`log.c:218`).
* p5, pipes: a writer that is killed while the pipe is full returns -1 and does not
  wake the readers of what it wrote (`pipe.c:86`); a kill between the test of `killed`
  and `sleep()` is noticed only at the next wakeup.
* p5, inodes: `link("f", ".")` puts a directory under its own lock (`fs.c:560`); a name
  made in a directory that was removed meanwhile is an orphan.
* p6: a directory's size never shrinks.
* p3: redirections are made in the shell itself and never undone (`wsh.c:698-740`);
  `&>` is found as `>`, so that standard error is not redirected and `&` becomes an
  argument; `history n` uses its command line after it was freed (`wsh.c:528-532`), so
  that it may look for another program; a variable of the environment is not found with
  a tail behind it (`wsh.c:139`); a command repeated at once is recorded again
  (README.md:240 says once); a name of ten characters or more overruns `var_buffer`,
  which is not modelled.

## 6. Not modelled

The console, the interrupt controllers, boot and the string library are hardware and
I/O; of the disk's controller only what the driver can tell is modelled.
`ptable.lock`, `kmem.lock`, `tickslock` and the spin locks of the other modules appear
as the atomicity of actions, except where they are handed from one action to the
next.  The kernel's file system is cut at the inode: `Log` has blocks without
meaning, `Inodes` has directories as functions of names, and neither has `bmap()`,
`balloc()` and the offsets of entries; a file's offset and contents are left out.
File backed mappings, their write back and the TLB are left out of `CowMem`.  A crash
of `wfs` inside a handler is left out: the program has no recovery whose promise could
be stated.  Times, modes and owners of files, byte layouts, messages, and what `cd` and
`ls` do to the host are left out.  `getparentname` and `letter-boxed` keep no state;
user programs only drive the kernel.

The kernel is in the repository three times.  A module models one copy: `p4` for the
process table and the stride scheduler, `p2` for the round robin scheduler, `p5` for
all else.  The earlier versions of the shell (`wsh_v2.c` to `wsh_v4.c`) are not built.

## 7. Plan

What is left, in this order:

1. `Wfs`: `BlocksOwned` proved; blocks of two units in one of the runs.
2. The blocks of files in `Inodes` (`bmap`, `itrunc`, `balloc`), with each block owned
   once, on the store that `AtomicDisk` promises.
3. File backed mappings and the TLB in `CowMem`.
4. `LetterBoxed`: the checker of p1 against a reference definition.
