------------------------------- MODULE Buffers --------------------------------
(***************************************************************************)
(* The block layer of the xv6 kernel: the buffer cache (bio.c), the sleep  *)
(* locks of its buffers (sleeplock.c) and the disk driver (ide.c).  One    *)
(* action is one critical section of bcache.lock, of idelock or of a sleep *)
(* lock's spin lock.  The callers are modelled in Log.                     *)
(***************************************************************************)
EXTENDS Integers, Sequences, FiniteSets, SequencesExt

CONSTANTS Procs,        \* processes, as their pids
          NBUF,         \* buffers of the cache
          Blocks        \* block numbers of the disk

ASSUME BuffersAssumption ==
  /\ Procs \subseteq Nat \ {0} /\ IsFiniteSet(Procs)
  /\ NBUF \in Nat \ {0}
  /\ Blocks \subseteq Nat

Bufs == 1..NBUF
NoProc == 0
NoBlock == -1

VARIABLES
  buf,        \* bcache.buf: block number, flags, refcnt, sleep lock, contents
  mru,        \* the list through bcache.head, most recently used first
  idequeue,   \* the driver's queue of buffers
  drive,      \* "busy" with the head of the queue, "done" with it, or "idle"
  disk,       \* contents of each block on disk
  io,         \* where a process stands in bread(), bwrite() or brelse()
  asleep,     \* the channel a process sleeps on
  panic       \* the kernel has stopped

bufVars == <<buf, mru, idequeue, drive, disk, io, asleep, panic>>

Content == Seq(Nat)
EmptyBuf ==
  [block |-> NoBlock, valid |-> FALSE, dirty |-> FALSE, refcnt |-> 0,
   lock |-> NoProc, data |-> <<>>]

\* "lock"   in acquiresleep()      "wait"   in iderw(), queued
\* "rw"     about to call iderw()  "unref"  in brelse(), the lock released
Idle == [at |-> "none", buf |-> 0]

\* Sleep channels.
Awake == <<"">>
LockChan(i) == <<"lock", i>>
IoChan(i) == <<"io", i>>
Channels ==
  {Awake} \cup {<<c, i>> : c \in {"lock", "io", "log", "inode"}, i \in 0..NBUF}

BufTypeOK ==
  /\ buf \in [Bufs -> [block : Blocks \cup {NoBlock}, valid : BOOLEAN,
                       dirty : BOOLEAN, refcnt : Nat,
                       lock : Procs \cup {NoProc}, data : Content]]
  /\ mru \in [Bufs -> Bufs] /\ ToSet(mru) = Bufs
  /\ idequeue \in Seq(Bufs)
  /\ drive \in {"idle", "busy", "done"}
  /\ disk \in [Blocks -> Content]
  /\ io \in [Procs -> [at : {"none", "lock", "rw", "wait", "unref"},
                       buf : Bufs \cup {0}]]
  /\ asleep \in [Procs -> Channels]
  /\ panic \in BOOLEAN

\* binit(), ideinit(): buffers that name no block; each goes to the front.
BufBoot ==
  /\ buf = [i \in Bufs |-> EmptyBuf]
  /\ mru = [i \in Bufs |-> NBUF + 1 - i]
  /\ idequeue = <<>>
  /\ drive = "idle"
  /\ io = [p \in Procs |-> Idle]
  /\ asleep = [p \in Procs |-> Awake]
  /\ panic = FALSE

\* The machine stops: the same, and what the disk was told to write may be on it.
BufReset ==
  /\ buf' = [i \in Bufs |-> EmptyBuf]
  /\ mru' = [i \in Bufs |-> NBUF + 1 - i]
  /\ idequeue' = <<>>
  /\ drive' = "idle"
  /\ io' = [p \in Procs |-> Idle]
  /\ asleep' = [p \in Procs |-> Awake]
  /\ panic' = FALSE
  /\ UNCHANGED disk
-----------------------------------------------------------------------------
Sleep(p, chan) == asleep' = [asleep EXCEPT ![p] = chan]
\* (Mutant: nobody is woken.)
WakeNobody(chan) == asleep
Wakeup(chan) ==
  [q \in Procs |-> IF asleep[q] = chan THEN Awake ELSE asleep[q]]

\* p may make its next call.
Ready(p) == ~panic /\ asleep[p] = Awake /\ io[p].at = "none"
Doing(p, at) == ~panic /\ asleep[p] = Awake /\ io[p].at = at
Then(p, at, i) == io' = [io EXCEPT ![p] = [at |-> at, buf |-> i]]

\* The buffer of block blk that p has locked.
Mine(p, blk) == CHOOSE i \in Bufs : buf[i].lock = p /\ buf[i].block = blk

\* bget() searches the list for the block (the places where it stands),
\* (Mutant: among the buffers in use only.)
FindInUse(blk) ==
  {n \in Bufs : buf[mru[n]].block = blk /\ buf[mru[n]].refcnt > 0}
Find(blk) == {n \in Bufs : buf[mru[n]].block = blk}

\* then for buffers it may recycle: not in use, and not pinned by log_write().
\* (Mutant: whoever uses them.)
CleanBufs == {n \in Bufs : ~buf[mru[n]].dirty}
Recyclable == {n \in Bufs : buf[mru[n]].refcnt = 0 /\ ~buf[mru[n]].dirty}

\* bread() as far as the release of bcache.lock in bget(): the block's buffer,
\* or the least recently used one that can be recycled.
bget(p, blk) ==
  /\ Ready(p)
  /\ \/ /\ Find(blk) # {}
        /\ LET i == mru[Min(Find(blk))]
           IN  /\ buf' = [buf EXCEPT ![i].refcnt = @ + 1]
               /\ Then(p, "lock", i)
        /\ UNCHANGED panic
     \/ /\ Find(blk) = {} /\ Recyclable # {}
        /\ LET i == mru[Max(Recyclable)]
           IN  /\ buf' = [buf EXCEPT ![i] =
                      [block |-> blk, valid |-> FALSE, dirty |-> FALSE,
                       refcnt |-> 1, lock |-> buf[i].lock, data |-> <<>>]]
               /\ Then(p, "lock", i)
        /\ UNCHANGED panic
     \/ /\ Find(blk) = {} /\ Recyclable = {}
        /\ panic' = TRUE                        \* "bget: no buffers"
        /\ UNCHANGED <<buf, io>>
  /\ UNCHANGED <<mru, idequeue, drive, disk, asleep>>

\* acquiresleep(), and bread()'s test of B_VALID under the lock.
acquiresleep(p) ==
  LET i == io[p].buf
  IN  /\ Doing(p, "lock")
      /\ IF buf[i].lock # NoProc
           THEN Sleep(p, LockChan(i)) /\ UNCHANGED <<buf, io>>
           ELSE /\ buf' = [buf EXCEPT ![i].lock = p]
                /\ IF buf[i].valid THEN Then(p, "none", 0)
                   ELSE Then(p, "rw", i)
                /\ UNCHANGED asleep
      /\ UNCHANGED <<mru, idequeue, drive, disk, panic>>

\* iderw(): queue the buffer, start the disk if it is the only one, sleep.
iderw(p) ==
  LET i == io[p].buf
  IN  /\ Doing(p, "rw")
      /\ IF buf[i].lock # p \/ (buf[i].valid /\ ~buf[i].dirty)
           THEN panic' = TRUE /\ UNCHANGED <<idequeue, drive, io, asleep>>
           ELSE /\ idequeue' = Append(idequeue, i)
                /\ drive' = IF idequeue = <<>> THEN "busy" ELSE drive
                /\ Then(p, "wait", i)
                /\ Sleep(p, IoChan(i))
                /\ UNCHANGED panic
      /\ UNCHANGED <<buf, mru, disk>>

\* The disk carries out the command of idestart().  (External: the hardware.)
Transfer ==
  /\ ~panic /\ drive = "busy"
  /\ LET b == buf[Head(idequeue)]
     IN  disk' = IF b.dirty THEN [disk EXCEPT ![b.block] = b.data] ELSE disk
  /\ drive' = "done"
  /\ UNCHANGED <<buf, mru, idequeue, io, asleep, panic>>

\* The interrupt: what was read is copied, the sleeper woken, the next request
\* started.
ideintr ==
  /\ ~panic /\ drive = "done"
  /\ LET i == Head(idequeue)
     IN  /\ buf' = [buf EXCEPT
              ![i].data = IF buf[i].dirty THEN @ ELSE disk[buf[i].block],
              ![i].valid = TRUE,
              ![i].dirty = FALSE]
         /\ asleep' = Wakeup(IoChan(i))
  /\ idequeue' = Tail(idequeue)
  /\ drive' = IF Len(idequeue) > 1 THEN "busy" ELSE "idle"
  /\ UNCHANGED <<mru, disk, io, panic>>

\* The loop of iderw(): a process that kill() woke goes back to sleep.
IoWait(p) ==
  LET i == io[p].buf
  IN  /\ Doing(p, "wait")
      /\ IF buf[i].valid /\ ~buf[i].dirty
           THEN Then(p, "none", 0) /\ UNCHANGED asleep
           ELSE Sleep(p, IoChan(i)) /\ UNCHANGED io
      /\ UNCHANGED <<buf, mru, idequeue, drive, disk, panic>>

\* p stores contents c in a buffer it has locked, and calls bwrite().
bwrite(p, i, c) ==
  /\ Ready(p)
  /\ buf' = [buf EXCEPT ![i].data = c, ![i].dirty = TRUE]
  /\ Then(p, "rw", i)
  /\ UNCHANGED <<mru, idequeue, drive, disk, asleep, panic>>

\* brelse(), first part: releasesleep().
releasesleep(p, i) ==
  /\ Ready(p)
  /\ buf' = [buf EXCEPT ![i].lock = NoProc]
  /\ asleep' = Wakeup(LockChan(i))
  /\ Then(p, "unref", i)
  /\ UNCHANGED <<mru, idequeue, drive, disk, panic>>

\* brelse(), second part: a buffer nobody waits for goes to the front.
MoveFront(i) ==
  LET place == CHOOSE n \in Bufs : mru[n] = i
  IN  [n \in Bufs |-> IF n = 1 THEN i
                      ELSE IF n <= place THEN mru[n - 1] ELSE mru[n]]

brelse(p) ==
  LET i == io[p].buf
  IN  /\ Doing(p, "unref")
      /\ buf' = [buf EXCEPT ![i].refcnt = @ - 1]
      /\ mru' = IF buf[i].refcnt = 1
                THEN MoveFront(i) ELSE mru
      /\ Then(p, "none", 0)
      /\ UNCHANGED <<idequeue, drive, disk, asleep, panic>>

\* kill() wakes a process wherever it sleeps.
Rouse(p) ==
  /\ ~panic /\ asleep[p] # Awake
  /\ asleep' = [asleep EXCEPT ![p] = Awake]
  /\ UNCHANGED <<buf, mru, idequeue, drive, disk, io, panic>>

\* What goes on inside a call.
CallStep(p) ==
  acquiresleep(p) \/ iderw(p) \/ IoWait(p) \/ brelse(p)
Hardware == Transfer \/ ideintr
-----------------------------------------------------------------------------
\* A block is in the cache once: bget() looks and recycles in one critical
\* section.  Two copies would be two versions of the block.
OneBufferPerBlock ==
  \A i, j \in Bufs : buf[i].block = buf[j].block /\ buf[i].block # NoBlock
    => i = j

\* A buffer in the driver's queue, or locked, is one its owner refers to; the
\* count says how many processes do.  What nobody counts may be recycled while
\* the disk is still writing to it.
CountsRefs ==
  \A i \in Bufs :
    buf[i].refcnt = Cardinality({p \in Procs : buf[i].lock = p})
      + Cardinality({p \in Procs : io[p].buf = i /\ io[p].at \in {"lock", "unref"}})
=============================================================================
