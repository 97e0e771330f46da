---------------------------------- MODULE Log ---------------------------------
(***************************************************************************)
(* The log of the xv6 kernel (log.c) over its block layer, with a crash    *)
(* between any two steps and the recovery that follows.  File system calls *)
(* are processes that begin an operation, change a few blocks and end it;  *)
(* those that work on one file also take the sleep lock of its inode.      *)
(***************************************************************************)
EXTENDS Buffers

CONSTANTS NHOME,        \* blocks that are not the log's
          NLOG,         \* superblock's nlog: the header and the log blocks
          LOGSIZE, MAXOPBLOCKS,
          Kinds,        \* operations tried
          OPWRITES,     \* blocks that one operation changes, at most
          CALLS         \* bound: calls that a process makes, crashes included

Header == 0
Home == 1..NHOME
LogBlock(i) == NHOME + i
BootProc == 1

ASSUME LogAssumption ==
  /\ BootProc \in Procs
  /\ NHOME \in Nat /\ NLOG \in Nat \ {0}
  /\ LOGSIZE \in Nat /\ MAXOPBLOCKS \in Nat
  /\ Blocks = 0..NHOME + NLOG - 1
  /\ Kinds \subseteq {"plain", "write", "wunmap", "read"}
  /\ OPWRITES \in Nat /\ CALLS \in Nat

VARIABLES
  lh,           \* log.lh
  outstanding, committing,
  pc,           \* where a process stands
  kind,         \* the kind of operation it performs
  left,         \* blocks it may still change
  calls,        \* calls it may still make
  job,          \* the locals of the process in commit() or recovery
  inode         \* holder of the inode's sleep lock

logVars == <<lh, outstanding, committing, pc, kind, left, calls, job, inode>>
vars == <<bufVars, logVars>>

LogChan == <<"log", 0>>
InodeChan == <<"inode", 0>>

\* "down"    before recovery is over       "append"  in log_write(), checked
\* "recover" in recover_from_log()         "logged"  about to call brelse()
\* "idle"    in user mode                  "ops"     past iunlock()
\* "begin"   in begin_op()                 "commit"  in commit()
\* "ilock"   in ilock()                    "iunlock" about to unlock last
\* "op"      between two blocks            "read"    has called bread() to read
\* "modify"  has called bread()
PCs == {"down", "recover", "idle", "begin", "ilock", "op", "modify", "append",
        "logged", "ops", "commit", "iunlock", "read"}
Stages == {"none", "read_head", "write_log", "write_head", "install_trans",
           "clear", "done"}

TypeOK ==
  /\ BufTypeOK
  /\ lh \in Seq(Home)
  /\ outstanding \in Nat
  /\ committing \in BOOLEAN
  /\ pc \in [Procs -> PCs]
  /\ kind \in [Procs -> {"plain", "write", "wunmap", "read"}]
  /\ left \in [Procs -> 0..OPWRITES]
  /\ calls \in [Procs -> 0..CALLS]
  /\ job \in [stage : Stages, tail : Nat,
              at : {"", "log", "home", "copy", "source", "target", "head", "fill"}]
  /\ inode \in Procs \cup {NoProc}

NoJob == [stage |-> "none", tail |-> 0, at |-> ""]
HeadJob(stage) == [stage |-> stage, tail |-> 0, at |-> "head"]
CopyJob(stage, t) == [stage |-> stage, tail |-> t, at |-> "log"]

\* mkfs: the log is empty.  The first process enters initlog().
BootPc == [p \in Procs |-> IF p = BootProc THEN "recover" ELSE "down"]

Init ==
  /\ BufBoot
  /\ disk = [b \in Blocks |-> IF b = Header THEN <<>> ELSE <<NoProc>>]
  /\ lh = <<>> /\ outstanding = 0 /\ committing = FALSE
  /\ pc = BootPc
  /\ kind = [p \in Procs |-> "read"]
  /\ left = [p \in Procs |-> 0]
  /\ calls = [p \in Procs |-> CALLS]
  /\ job = HeadJob("read_head")
  /\ inode = NoProc

\* The machine stops and starts again: only the disk is left.
Crash ==
  /\ BufReset
  /\ lh' = <<>> /\ outstanding' = 0 /\ committing' = FALSE
  /\ pc' = BootPc
  /\ kind' = [p \in Procs |-> "read"]
  /\ left' = [p \in Procs |-> 0]
  /\ job' = HeadJob("read_head")
  /\ inode' = NoProc
  /\ UNCHANGED calls

At(p, at) == Ready(p) /\ pc[p] = at
Goto(p, at) == pc' = [pc EXCEPT ![p] = at]
-----------------------------------------------------------------------------
\* User mode: a system call that changes blocks.
Call(p, k) ==
  /\ At(p, "idle") /\ calls[p] > 0
  /\ Goto(p, IF k = "wunmap" THEN "ilock" ELSE "begin")
  /\ kind' = [kind EXCEPT ![p] = k]
  /\ left' = [left EXCEPT ![p] = OPWRITES]
  /\ calls' = [calls EXCEPT ![p] = @ - 1]
  /\ UNCHANGED <<bufVars, lh, outstanding, committing, job, inode>>

\* A system call that only reads: readi() outside any operation.
CallRead(p, b) ==
  /\ At(p, "idle") /\ calls[p] > 0
  /\ bget(p, b)
  /\ Goto(p, "read")
  /\ kind' = [kind EXCEPT ![p] = "read"]
  /\ calls' = [calls EXCEPT ![p] = @ - 1]
  /\ UNCHANGED <<lh, outstanding, committing, left, job, inode>>

ReadDone(p) ==
  /\ At(p, "read")
  /\ \E i \in Bufs : buf[i].lock = p /\ releasesleep(p, i)
  /\ Goto(p, "idle")
  /\ UNCHANGED <<lh, outstanding, committing, kind, left, calls, job, inode>>

\* begin_op()'s conditions for waiting.
MustWait ==
  committing \/ Len(lh) + (outstanding + 1) * MAXOPBLOCKS > LOGSIZE

begin_op(p) ==
  /\ At(p, "begin")
  /\ IF MustWait
       THEN /\ Sleep(p, LogChan)
            /\ UNCHANGED <<outstanding, pc>>
       ELSE /\ outstanding' = outstanding + 1
            /\ Goto(p, IF kind[p] = "write" THEN "ilock" ELSE "op")
            /\ UNCHANGED asleep
  /\ UNCHANGED <<buf, mru, idequeue, drive, disk, io, panic, lh, committing,
                 kind, left, calls, job, inode>>

\* ilock(): inside the operation in filewrite(), before it in do_wunmap().
ilock(p) ==
  /\ At(p, "ilock")
  /\ IF inode # NoProc
       THEN Sleep(p, InodeChan) /\ UNCHANGED <<inode, pc>>
       ELSE /\ inode' = p
            /\ Goto(p, IF kind[p] = "wunmap" THEN "begin" ELSE "op")
            /\ UNCHANGED asleep
  /\ UNCHANGED <<buf, mru, idequeue, drive, disk, io, panic, lh, outstanding,
                 committing, kind, left, calls, job>>

\* iunlock(): before end_op() in filewrite(), after it in do_wunmap().
iunlock(p) ==
  /\ \/ At(p, "op") /\ kind[p] = "write" /\ Goto(p, "ops")
     \/ At(p, "iunlock") /\ Goto(p, "idle")
  /\ inode' = NoProc
  /\ asleep' = Wakeup(InodeChan)
  /\ UNCHANGED <<buf, mru, idequeue, drive, disk, io, panic, lh, outstanding,
                 committing, kind, left, calls, job>>

\* The operation reads a block to change it.
bread(p, b) ==
  /\ At(p, "op") /\ left[p] > 0
  /\ bget(p, b)
  /\ Goto(p, "modify")
  /\ left' = [left EXCEPT ![p] = @ - 1]
  /\ UNCHANGED <<lh, outstanding, committing, kind, calls, job, inode>>

\* It changes the block and calls log_write(), which looks at the length of the
\* log before it takes log.lock.  The contents of a block: who wrote it last.
Modify(p) ==
  /\ At(p, "modify")
  /\ IF Len(lh) >= LOGSIZE \/ Len(lh) >= NLOG - 1 \/ outstanding < 1
       THEN panic' = TRUE /\ UNCHANGED <<buf, pc>>  \* "too big a transaction"
       ELSE /\ \E i \in Bufs :
                 buf[i].lock = p /\ buf' = [buf EXCEPT ![i].data = <<p>>]
            /\ Goto(p, "append")
            /\ UNCHANGED panic
  /\ UNCHANGED <<mru, idequeue, drive, disk, io, asleep, lh, outstanding,
                 committing, kind, left, calls, job, inode>>

\* log_write() under log.lock: one entry for a block, however often written.
Absorb(b) == IF b \in ToSet(lh) THEN lh ELSE Append(lh, b)
Pin(i) == buf' = [buf EXCEPT ![i].dirty = TRUE]

log_write(p) ==
  /\ At(p, "append")
  /\ \E i \in Bufs :
       /\ buf[i].lock = p
       /\ lh' = Absorb(buf[i].block)
       /\ Pin(i)
  /\ Goto(p, "logged")
  /\ UNCHANGED <<mru, idequeue, drive, disk, io, asleep, panic, outstanding,
                 committing, kind, left, calls, job, inode>>

Logged(p) ==
  /\ At(p, "logged")
  /\ \E i \in Bufs : buf[i].lock = p /\ releasesleep(p, i)
  /\ Goto(p, "op")
  /\ UNCHANGED <<lh, outstanding, committing, kind, left, calls, job, inode>>

AfterOp(p) == IF kind[p] = "wunmap" THEN "iunlock" ELSE "idle"

\* commit() starts: nothing to do for an empty log.
\* (Mutant: it waits for more while there is room.)
CommitLater ==
  IF Len(lh) + MAXOPBLOCKS <= LOGSIZE THEN [NoJob EXCEPT !.stage = "done"]
  ELSE CopyJob("write_log", 1)
CommitJob ==
  IF lh = <<>> THEN [NoJob EXCEPT !.stage = "done"] ELSE CopyJob("write_log", 1)

\* end_op() under log.lock: the last operation commits for all.
IsLast == outstanding = 1

end_op(p) ==
  /\ Ready(p)
  /\ pc[p] = IF kind[p] = "write" THEN "ops" ELSE "op"
  /\ outstanding' = outstanding - 1
  /\ panic' = committing                            \* "log.committing"
  /\ IF IsLast
       THEN /\ committing' = TRUE
            /\ job' = CommitJob
            /\ Goto(p, "commit")
            /\ UNCHANGED asleep
       ELSE /\ asleep' = Wakeup(LogChan)
            /\ Goto(p, AfterOp(p))
            /\ UNCHANGED <<committing, job>>
  /\ UNCHANGED <<buf, mru, idequeue, drive, disk, io, lh, kind, left, calls,
                 inode>>

\* end_op() after commit().
CommitDone(p) ==
  /\ At(p, "commit") /\ job.stage = "done"
  /\ committing' = FALSE
  /\ asleep' = Wakeup(LogChan)
  /\ job' = NoJob
  /\ Goto(p, AfterOp(p))
  /\ UNCHANGED <<buf, mru, idequeue, drive, disk, io, panic, lh, outstanding,
                 kind, left, calls, inode>>
-----------------------------------------------------------------------------
\* The process that commits or recovers, and its next step.
Working(p, at) == Ready(p) /\ pc[p] \in {"commit", "recover"} /\ job.at = at
JobAt(at) == job' = [job EXCEPT !.at = at]

\* write_log() copies cache blocks to the log, install_trans() log blocks home.
Source == IF job.stage = "write_log" THEN lh[job.tail] ELSE LogBlock(job.tail)
Target == IF job.stage = "write_log" THEN LogBlock(job.tail) ELSE lh[job.tail]

\* What follows a stage that copied the last block or wrote the header.
\* (Mutant: the header first.)
HeadFirst(stage) ==
  CASE stage = "write_log" -> CopyJob("install_trans", 1)
    [] stage = "write_head" -> CopyJob("write_log", 1)
    [] stage = "install_trans" -> HeadJob("clear")
    [] OTHER -> [NoJob EXCEPT !.stage = "done"]
After(stage) ==
  CASE stage = "write_log" -> HeadJob("write_head")
    [] stage = "write_head" -> CopyJob("install_trans", 1)
    [] stage = "install_trans" -> HeadJob("clear")
    [] OTHER -> [NoJob EXCEPT !.stage = "done"]

BreadLog(p) ==
  /\ Working(p, "log")
  /\ bget(p, LogBlock(job.tail))
  /\ JobAt("home")
  /\ UNCHANGED <<lh, outstanding, committing, pc, kind, left, calls, inode>>

BreadHome(p) ==
  /\ Working(p, "home")
  /\ bget(p, lh[job.tail])
  /\ JobAt("copy")
  /\ UNCHANGED <<lh, outstanding, committing, pc, kind, left, calls, inode>>

CopyBlock(p) ==
  /\ Working(p, "copy")
  /\ bwrite(p, Mine(p, Target), buf[Mine(p, Source)].data)
  /\ JobAt("source")
  /\ UNCHANGED <<lh, outstanding, committing, pc, kind, left, calls, inode>>

ReleaseSource(p) ==
  /\ Working(p, "source")
  /\ releasesleep(p, Mine(p, Source))
  /\ JobAt("target")
  /\ UNCHANGED <<lh, outstanding, committing, pc, kind, left, calls, inode>>

\* After the last block of install_trans(), log.lh.n = 0.
ReleaseTarget(p) ==
  /\ Working(p, "target") /\ job.stage \in {"write_log", "install_trans"}
  /\ releasesleep(p, Mine(p, Target))
  /\ IF job.tail < Len(lh)
       THEN job' = CopyJob(job.stage, job.tail + 1) /\ UNCHANGED lh
       ELSE /\ job' = After(job.stage)
            /\ lh' = IF job.stage = "install_trans" THEN <<>> ELSE lh
  /\ UNCHANGED <<outstanding, committing, pc, kind, left, calls, inode>>

\* read_head() and write_head() read the header block;
BreadHead(p) ==
  /\ Working(p, "head")
  /\ bget(p, Header)
  /\ JobAt("fill")
  /\ UNCHANGED <<lh, outstanding, committing, pc, kind, left, calls, inode>>

\* write_head() writes it: here a transaction is committed, or erased;
WriteHead(p) ==
  /\ Working(p, "fill") /\ job.stage \in {"write_head", "clear"}
  /\ bwrite(p, Mine(p, Header), lh)
  /\ JobAt("target")
  /\ UNCHANGED <<lh, outstanding, committing, pc, kind, left, calls, inode>>

HeadWritten(p) ==
  /\ Working(p, "target") /\ job.stage \in {"write_head", "clear"}
  /\ releasesleep(p, Mine(p, Header))
  /\ job' = After(job.stage)
  /\ UNCHANGED <<lh, outstanding, committing, pc, kind, left, calls, inode>>

\* read_head() copies it into log.lh.
Recovery(h) ==
  IF h = <<>> THEN HeadJob("clear") ELSE CopyJob("install_trans", 1)

ReadHead(p) ==
  /\ Working(p, "fill") /\ job.stage = "read_head"
  /\ lh' = buf[Mine(p, Header)].data
  /\ releasesleep(p, Mine(p, Header))
  /\ job' = Recovery(lh')
  /\ UNCHANGED <<outstanding, committing, pc, kind, left, calls, inode>>

\* initlog() returns; the first process goes on to user mode.
Recovered(p) ==
  /\ At(p, "recover") /\ job.stage = "done"
  /\ pc' = [q \in Procs |-> "idle"]
  /\ job' = NoJob
  /\ UNCHANGED <<bufVars, lh, outstanding, committing, kind, left, calls, inode>>

JobStep(p) ==
  \/ BreadLog(p) \/ BreadHome(p) \/ CopyBlock(p) \/ ReleaseSource(p)
  \/ ReleaseTarget(p) \/ BreadHead(p) \/ WriteHead(p) \/ HeadWritten(p)
  \/ ReadHead(p) \/ Recovered(p) \/ CommitDone(p)

OpStep(p) ==
  \/ begin_op(p) \/ ilock(p) \/ iunlock(p) \/ Modify(p) \/ log_write(p) \/ Logged(p)
  \/ end_op(p) \/ ReadDone(p)
  \/ \E b \in Home : bread(p, b)

UserStep(p) ==
  \/ \E k \in Kinds \ {"read"} : Call(p, k)
  \/ "read" \in Kinds /\ \E b \in Home : CallRead(p, b)

Kernel(p) == OpStep(p) \/ JobStep(p) \/ (CallStep(p) /\ UNCHANGED logVars)
Device == Hardware /\ UNCHANGED logVars
Killed(p) == Rouse(p) /\ UNCHANGED logVars

Next ==
  \/ Crash
  \/ Device
  \/ \E p \in Procs : UserStep(p) \/ Kernel(p) \/ Killed(p)

Spec == Init /\ [][Next]_vars

\* The disk works, and a process that can go on in the kernel does.
Fairness ==
  /\ WF_vars(Device)
  /\ \A p \in Procs : WF_vars(Kernel(p))

FairSpec == Spec /\ Fairness
-----------------------------------------------------------------------------
InOp(p) ==
  \/ pc[p] \in {"op", "modify", "append", "logged", "ops"}
  \/ pc[p] = "ilock" /\ kind[p] = "write"

\* What a restart would find: the log's blocks where the header names them.
Saved ==
  LET h == disk[Header]
  IN  [b \in Home |->
         IF b \in ToSet(h)
         THEN disk[LogBlock(CHOOSE t \in DOMAIN h : h[t] = b)] ELSE disk[b]]

\* What operations see: the cache before the disk.
Store ==
  [b \in Home |->
     IF \E p \in Procs : pc[p] = "recover" THEN Saved[b]
     ELSE IF \E i \in Bufs : buf[i].block = b /\ buf[i].valid
     THEN buf[CHOOSE i \in Bufs : buf[i].block = b /\ buf[i].valid].data
     ELSE disk[b]]

\* The log implements an atomic disk: whatever the interleaving of operations
\* with the commit and with each other, whatever the cache evicts, and wherever
\* the machine stops, even in recovery, a restart finds the blocks as they were
\* when no operation was in progress.  (log.c, bio.c.)
AD == INSTANCE AtomicDisk WITH
        Contents <- {<<v>> : v \in Procs \cup {NoProc}},
        store <- Store, saved <- Saved,
        active <- {p \in Procs : InOp(p)}
AtomicDiskSpec == AD!Spec

\* What begin_op() reserves for an operation is enough: log_write() finds room
\* whenever it looks (log.c:218, "too big a transaction"), since MAXOPBLOCKS is
\* the "max # of blocks any FS op writes" (param.h:10).  Violated: do_wunmap()
\* writes a page of 8 blocks in one operation and, where the file grows, its
\* inode, its indirect block and the bitmap: 11.
TransactionFits ==
  \A p \in Procs : pc[p] = "modify" => Len(lh) < LOGSIZE /\ Len(lh) < NLOG - 1

\* Where it does not, the panic at least keeps the log within its blocks on disk
\* ("max data blocks in on-disk log", param.h:11).  Violated: log_write() looks
\* at the length before it takes log.lock.
LogFits == Len(lh) <= NLOG - 1

\* What the log and the drivers rely on in the cache: a block is in it once, and
\* no buffer in use is counted free.
CacheSound == TypeOK /\ OneBufferPerBlock /\ CountsRefs

\* When end_op() has returned for the last operation, its changes are on disk.
QuietIsDurable ==
  outstanding = 0 /\ ~committing => Store = Saved

\* begin_op(), the locks and the disk make nobody wait for ever: unless the
\* machine keeps crashing, recovery ends and every call returns, so that each
\* process is in user mode again and again.
CallsReturn ==
  \/ []<><<Crash>>_vars
  \/ \A p \in Procs : []<>(pc[p] = "idle")

\* log.c:20: begin_op() "sleeps until the last outstanding end_op() commits".
BeginOpReturns == \A p \in Procs : pc[p] = "begin" ~> pc[p] # "begin"
=============================================================================
