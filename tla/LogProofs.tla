------------------------------ MODULE LogProofs ------------------------------
(***************************************************************************)
(* The log over its block layer, for any number of processes, buffers and  *)
(* blocks, and for a machine that may stop at any step, as long as what    *)
(* begin_op() reserves suffices (LogReserved).                             *)
(***************************************************************************)
EXTENDS LogReserved, FiniteSetTheorems, TLAPS

-----------------------------------------------------------------------------
(***************************************************************************)
(* The block layer, for any number of processes, buffers and blocks: what  *)
(* the cache, the driver's queue and the callers in bread(), bwrite() and  *)
(* brelse() know of each other, and that every operation keeps it.         *)
(***************************************************************************)

BufRec ==
  [block : Blocks \cup {NoBlock}, valid : BOOLEAN, dirty : BOOLEAN,
   refcnt : Nat, lock : Procs \cup {NoProc}, data : Content]
IoRec ==
  [at : {"none", "lock", "rw", "wait", "unref"}, buf : Bufs \cup {0}]

\* p counts a reference to buffer i without having it locked.
RefersTo(p, i) == io[p].buf = i /\ io[p].at \in {"lock", "unref"}
\* Buffer i is with the driver, or its owner is about to call the driver.
Busy(i) ==
  /\ buf[i].lock \in Procs
  /\ io[buf[i].lock].at \in {"rw", "wait"} /\ io[buf[i].lock].buf = i

\* A buffer that names no block is as binit() left it.
Named == \A i \in Bufs : buf[i].block = NoBlock => buf[i] = EmptyBuf

Callers ==
  \A p \in Procs :
    /\ io[p].at = "none" <=> io[p].buf = 0
    /\ io[p].at \in {"rw", "wait"} => buf[io[p].buf].lock = p
    /\ io[p].at = "rw" => ~buf[io[p].buf].valid \/ buf[io[p].buf].dirty

\* Each buffer in the queue has an owner that waits for it.
Queued(i) ==
  /\ buf[i].lock \in Procs
  /\ io[buf[i].lock] = [at |-> "wait", buf |-> i]
  /\ ~buf[i].valid \/ buf[i].dirty
Queue ==
  /\ \A n \in DOMAIN idequeue : Queued(idequeue[n])
  /\ \A m, n \in DOMAIN idequeue : idequeue[m] = idequeue[n] => m = n
  /\ drive = "idle" <=> idequeue = <<>>

\* Who has a buffer and no business with the disk finds contents in it.
Filled ==
  \A i \in Bufs :
    /\ buf[i].dirty => buf[i].valid
    /\ buf[i].lock # NoProc /\ ~buf[i].valid => Busy(i)

BufInv ==
  /\ BufTypeOK /\ OneBufferPerBlock /\ CountsRefs
  /\ Named /\ Callers /\ Queue /\ Filled

\* The blocks whose buffers p has, or is about to have.
Held(p) ==
  {i \in Bufs : buf[i].lock = p \/ (io[p].at = "lock" /\ io[p].buf = i)}
HeldBlocks(p) == {buf[i].block : i \in Held(p)}

HeldSame == \A q \in Procs : HeldBlocks(q)' = HeldBlocks(q)
Takes(p, b) ==
  /\ HeldBlocks(p)' = HeldBlocks(p) \cup {b}
  /\ \A q \in Procs \ {p} : HeldBlocks(q)' = HeldBlocks(q)
Drops(p, b) ==
  /\ HeldBlocks(p)' = HeldBlocks(p) \ {b}
  /\ \A q \in Procs \ {p} : HeldBlocks(q)' = HeldBlocks(q)
-----------------------------------------------------------------------------
LEMMA BufNumbers ==
  /\ Procs \subseteq Nat /\ IsFiniteSet(Procs) /\ NoProc \notin Procs
  /\ NBUF \in Nat \ {0} /\ Bufs \subseteq Nat \ {0} /\ 0 \notin Bufs /\ 1 \in Bufs
  /\ Blocks \subseteq Nat /\ NoBlock \notin Blocks
BY BuffersAssumption DEF Bufs, NoProc, NoBlock

LEMMA TypeIs ==
  BufTypeOK <=>
    /\ buf \in [Bufs -> BufRec]
    /\ mru \in [Bufs -> Bufs] /\ ToSet(mru) = Bufs
    /\ idequeue \in Seq(Bufs)
    /\ drive \in {"idle", "busy", "done"}
    /\ disk \in [Blocks -> Content]
    /\ io \in [Procs -> IoRec]
    /\ asleep \in [Procs -> Channels]
    /\ panic \in BOOLEAN
BY DEF BufTypeOK, BufRec, IoRec

LEMMA TypeIsNext ==
  BufTypeOK' <=>
    /\ buf' \in [Bufs -> BufRec]
    /\ mru' \in [Bufs -> Bufs] /\ ToSet(mru') = Bufs
    /\ idequeue' \in Seq(Bufs)
    /\ drive' \in {"idle", "busy", "done"}
    /\ disk' \in [Blocks -> Content]
    /\ io' \in [Procs -> IoRec]
    /\ asleep' \in [Procs -> Channels]
    /\ panic' \in BOOLEAN
BY DEF BufTypeOK, BufRec, IoRec

LEMMA EmptyRec == EmptyBuf \in BufRec
BY DEF EmptyBuf, BufRec, Content

\* The first place of a list where something stands, and the last.
LEMMA Lowest ==
  ASSUME NEW S, S \subseteq Bufs, S # {}
  PROVE  Min(S) \in S
<1>1. S \subseteq Nat
  BY BufNumbers
<1>2. PICK m \in S : \A y \in S : m <= y
  <2>1. IsWellFoundedOn(OpToRel(<, Nat), Nat)
    BY NatLessThanWellFounded
  <2>2. PICK m \in S : \A y \in S : ~(<<y, m>> \in OpToRel(<, Nat))
    BY <1>1, <2>1, WFMin
  <2>3. \A y \in S : ~(y < m)
    BY <1>1, <2>2 DEF OpToRel
  <2> QED
    BY <1>1, <2>3
<1> QED
  BY <1>2 DEF Min

LEMMA Highest ==
  ASSUME NEW S, S \subseteq Bufs, S # {}
  PROVE  Max(S) \in S
<1> DEFINE T == {n \in 0..NBUF : NBUF - n \in S}
<1>1. S \subseteq 1..NBUF /\ NBUF \in Nat
  BY BufNumbers DEF Bufs
<1>2. T \subseteq Nat /\ T # {}
  <2>1. PICK s \in S : TRUE
    OBVIOUS
  <2>2. NBUF - s \in T
    BY <1>1, <2>1
  <2> QED
    BY <2>2
<1>3. PICK m \in T : \A y \in T : m <= y
  <2>1. IsWellFoundedOn(OpToRel(<, Nat), Nat)
    BY NatLessThanWellFounded
  <2>2. PICK m \in T : \A y \in T : ~(<<y, m>> \in OpToRel(<, Nat))
    BY <1>2, <2>1, WFMin
  <2>3. \A y \in T : ~(y < m)
    BY <1>2, <2>2 DEF OpToRel
  <2> QED
    BY <1>2, <2>3
<1>4. NBUF - m \in S
  BY <1>3
<1>5. \A y \in S : NBUF - m >= y
  <2> TAKE y \in S
  <2>1. NBUF - y \in T
    BY <1>1
  <2>2. m <= NBUF - y
    BY <1>3, <2>1
  <2> QED
    BY <1>1, <1>2, <2>2
<1> QED
  BY <1>4, <1>5 DEF Max
-----------------------------------------------------------------------------
(***************************************************************************)
(* Counting.                                                               *)
(***************************************************************************)
One(b) == IF b THEN 1 ELSE 0

LEMMA CountChange ==
  ASSUME NEW S, NEW T, NEW x, IsFiniteSet(S), S \ {x} = T \ {x}
  PROVE  /\ IsFiniteSet(T) /\ Cardinality(S) \in Nat /\ Cardinality(T) \in Nat
         /\ Cardinality(T) + One(x \in S) = Cardinality(S) + One(x \in T)
<1>1. /\ IsFiniteSet(S \ {x})
      /\ Cardinality(S \ {x}) = IF x \in S THEN Cardinality(S) - 1 ELSE Cardinality(S)
  BY FS_RemoveElement
<1>2. x \notin T => T = T \ {x}
  OBVIOUS
<1>3. x \in T => T = (T \ {x}) \cup {x}
  OBVIOUS
<1>4. IsFiniteSet(T) /\
      Cardinality(T) = IF x \in T THEN Cardinality(S \ {x}) + 1 ELSE Cardinality(S \ {x})
  BY <1>1, <1>2, <1>3, FS_AddElement
<1>5. Cardinality(S) \in Nat /\ Cardinality(T) \in Nat /\ Cardinality(S \ {x}) \in Nat
  BY <1>1, <1>4, FS_CardinalityType
<1> QED
  BY <1>1, <1>4, <1>5 DEF One

Lockers(i) == {p \in Procs : buf[i].lock = p}
Referrers(i) == {p \in Procs : RefersTo(p, i)}

LEMMA CountsAre ==
  /\ CountsRefs <=>
       \A i \in Bufs : buf[i].refcnt = Cardinality(Lockers(i)) + Cardinality(Referrers(i))
  /\ CountsRefs' <=>
       \A i \in Bufs : buf'[i].refcnt = Cardinality(Lockers(i)') + Cardinality(Referrers(i)')
BY DEF CountsRefs, Lockers, Referrers, RefersTo

LEMMA SetsFinite ==
  ASSUME NEW i \in Bufs
  PROVE  /\ IsFiniteSet(Lockers(i)) /\ IsFiniteSet(Referrers(i))
         /\ Cardinality(Lockers(i)) \in Nat /\ Cardinality(Referrers(i)) \in Nat
         /\ Cardinality(Lockers(i)) = 0 => Lockers(i) = {}
         /\ Cardinality(Referrers(i)) = 0 => Referrers(i) = {}
<1>1. Lockers(i) \in SUBSET Procs /\ Referrers(i) \in SUBSET Procs
  BY DEF Lockers, Referrers
<1>2. IsFiniteSet(Lockers(i)) /\ IsFiniteSet(Referrers(i))
  BY <1>1, BufNumbers, FS_Subset
<1> QED
  BY <1>2, FS_CardinalityType, FS_EmptySet

\* A buffer that nobody counts is nobody's.
LEMMA FreeIsFree ==
  ASSUME BufInv, NEW i \in Bufs, buf[i].refcnt = 0
  PROVE  /\ buf[i].lock = NoProc
         /\ \A p \in Procs : ~RefersTo(p, i)
         /\ \A p \in Procs : i \notin Held(p)
         /\ \A p \in Procs : io[p].buf # i
<1>1. Cardinality(Lockers(i)) = 0 /\ Cardinality(Referrers(i)) = 0
  BY SetsFinite, CountsAre DEF BufInv
<1>2. Lockers(i) = {} /\ Referrers(i) = {}
  BY <1>1, SetsFinite
<1>3. buf[i].lock \in Procs \cup {NoProc}
  BY TypeIs DEF BufInv, BufRec
<1>4. buf[i].lock = NoProc /\ \A p \in Procs : ~RefersTo(p, i)
  BY <1>2, <1>3 DEF Lockers, Referrers
<1>5. \A p \in Procs : buf[i].lock # p /\ ~(io[p].at = "lock" /\ io[p].buf = i)
  BY <1>4, BufNumbers DEF RefersTo
<1>6. \A p \in Procs : i \notin Held(p)
  BY <1>5 DEF Held
<1>7. ASSUME NEW p \in Procs, io[p].buf = i PROVE FALSE
  <2>1. io[p].at \in {"none", "lock", "rw", "wait", "unref"}
    BY TypeIs DEF BufInv, IoRec
  <2>2. io[p].at # "none"
    BY <1>7, BufNumbers DEF BufInv, Callers
  <2>3. io[p].at \notin {"rw", "wait"}
    BY <1>4, <1>7, BufNumbers DEF BufInv, Callers
  <2> QED
    BY <2>1, <2>2, <2>3, <1>4, <1>7 DEF RefersTo
<1> QED
  BY <1>4, <1>6, <1>7

\* The count of a buffer follows what one process does.
LEMMA CountStep ==
  ASSUME BufInv, NEW p \in Procs, NEW i \in Bufs,
         \A q \in Procs \ {p} : (buf'[i].lock = q <=> buf[i].lock = q) /\ io'[q] = io[q],
         buf'[i].refcnt \in Int,
         buf'[i].refcnt + One(buf[i].lock = p) + One(RefersTo(p, i))
           = buf[i].refcnt + One(buf'[i].lock = p) + One(RefersTo(p, i)')
  PROVE  buf'[i].refcnt = Cardinality(Lockers(i)') + Cardinality(Referrers(i)')
<1>1. Lockers(i) \ {p} = Lockers(i)' \ {p} /\ Referrers(i) \ {p} = Referrers(i)' \ {p}
  BY DEF Lockers, Referrers, RefersTo
<1>2. /\ Cardinality(Lockers(i)) \in Nat /\ Cardinality(Lockers(i)') \in Nat
      /\ Cardinality(Lockers(i)') + One(p \in Lockers(i)) = Cardinality(Lockers(i)) + One(p \in Lockers(i)')
  BY <1>1, SetsFinite, CountChange
<1>3. /\ Cardinality(Referrers(i)) \in Nat /\ Cardinality(Referrers(i)') \in Nat
      /\ Cardinality(Referrers(i)') + One(p \in Referrers(i)) = Cardinality(Referrers(i)) + One(p \in Referrers(i)')
  BY <1>1, SetsFinite, CountChange
<1>4. buf[i].refcnt = Cardinality(Lockers(i)) + Cardinality(Referrers(i))
  BY CountsAre DEF BufInv
<1>5. /\ (p \in Lockers(i)) = (buf[i].lock = p) /\ (p \in Lockers(i)') = (buf'[i].lock = p)
      /\ (p \in Referrers(i)) = RefersTo(p, i) /\ (p \in Referrers(i)') = RefersTo(p, i)'
  BY DEF Lockers, Referrers, RefersTo
<1>6. \A b : One(b) \in Int
  BY DEF One
<1>7. /\ Cardinality(Lockers(i)') + One(buf[i].lock = p) = Cardinality(Lockers(i)) + One(buf'[i].lock = p)
      /\ Cardinality(Referrers(i)') + One(RefersTo(p, i)) = Cardinality(Referrers(i)) + One(RefersTo(p, i)')
  BY <1>2, <1>3, <1>5
<1> HIDE DEF One
<1> QED
  BY <1>2, <1>3, <1>4, <1>6, <1>7

\* The same for all buffers, when only one changes.
LEMMA CountsStep ==
  ASSUME BufInv, NEW p \in Procs, NEW i \in Bufs,
         \A j \in Bufs \ {i} : buf'[j] = buf[j] /\ RefersTo(p, j)' = RefersTo(p, j),
         \A q \in Procs \ {p} : (buf'[i].lock = q <=> buf[i].lock = q) /\ io'[q] = io[q],
         buf'[i].refcnt \in Int,
         buf'[i].refcnt + One(buf[i].lock = p) + One(RefersTo(p, i))
           = buf[i].refcnt + One(buf'[i].lock = p) + One(RefersTo(p, i)')
  PROVE  CountsRefs'
<1>1. buf'[i].refcnt = Cardinality(Lockers(i)') + Cardinality(Referrers(i)')
  BY CountStep
<1>2. ASSUME NEW j \in Bufs \ {i}
      PROVE  buf'[j].refcnt = Cardinality(Lockers(j)') + Cardinality(Referrers(j)')
  <2>1. Lockers(j)' = Lockers(j)
    BY DEF Lockers
  <2>2. \A q \in Procs : RefersTo(q, j)' = RefersTo(q, j)
    BY DEF RefersTo
  <2>3. Referrers(j)' = Referrers(j)
    BY <2>2 DEF Referrers
  <2> QED
    BY <2>1, <2>3, CountsAre DEF BufInv
<1> QED
  BY <1>1, <1>2, CountsAre

LEMMA CountsSame ==
  ASSUME BufInv,
         \A j \in Bufs : buf'[j].refcnt = buf[j].refcnt /\ buf'[j].lock = buf[j].lock,
         \A q \in Procs, j \in Bufs : RefersTo(q, j)' = RefersTo(q, j)
  PROVE  CountsRefs'
<1>1. ASSUME NEW j \in Bufs
      PROVE  Lockers(j)' = Lockers(j) /\ Referrers(j)' = Referrers(j)
  BY DEF Lockers, Referrers
<1> QED
  BY <1>1, CountsAre DEF BufInv
-----------------------------------------------------------------------------
(***************************************************************************)
(* bget(): what it finds.                                                  *)
(***************************************************************************)
LEMMA FoundBuffer ==
  ASSUME BufTypeOK, NEW blk, Find(blk) # {}
  PROVE  /\ mru[Min(Find(blk))] \in Bufs
         /\ buf[mru[Min(Find(blk))]].block = blk
<1>1. Find(blk) \subseteq Bufs
  BY DEF Find
<1>2. Min(Find(blk)) \in Find(blk)
  BY <1>1, Lowest
<1> QED
  BY <1>1, <1>2, TypeIs DEF Find

LEMMA NotFound ==
  ASSUME BufTypeOK, NEW blk, Find(blk) = {}
  PROVE  \A i \in Bufs : buf[i].block # blk
<1>1. ASSUME NEW i \in Bufs
      PROVE  buf[i].block # blk
  <2>1. PICK n \in Bufs : mru[n] = i
    BY TypeIs DEF ToSet
  <2> QED
    BY <2>1 DEF Find
<1> QED
  BY <1>1

LEMMA RecycledBuffer ==
  ASSUME BufTypeOK, Recyclable # {}
  PROVE  /\ mru[Max(Recyclable)] \in Bufs
         /\ buf[mru[Max(Recyclable)]].refcnt = 0
         /\ ~buf[mru[Max(Recyclable)]].dirty
<1>1. Recyclable \subseteq Bufs
  BY DEF Recyclable
<1>2. Max(Recyclable) \in Recyclable
  BY <1>1, Highest
<1> QED
  BY <1>1, <1>2, TypeIs DEF Recyclable

\* What bget() does to the cache, when it does not panic.
Hit(p, blk, i) ==
  /\ buf[i].block = blk
  /\ buf' = [buf EXCEPT ![i].refcnt = @ + 1]
NewBuf(blk) ==
  [block |-> blk, valid |-> FALSE, dirty |-> FALSE, refcnt |-> 1,
   lock |-> NoProc, data |-> <<>>]
Recycle(p, blk, i) ==
  /\ \A j \in Bufs : buf[j].block # blk
  /\ buf[i].refcnt = 0 /\ ~buf[i].dirty /\ buf[i].lock = NoProc
  /\ buf' = [buf EXCEPT ![i] = NewBuf(blk)]
Got(p, blk, i) ==
  /\ Hit(p, blk, i) \/ Recycle(p, blk, i)
  /\ io' = [io EXCEPT ![p] = [at |-> "lock", buf |-> i]]
  /\ UNCHANGED panic

LEMMA bgetDoes ==
  ASSUME BufInv, NEW p \in Procs, NEW blk \in Blocks, bget(p, blk)
  PROVE  /\ Ready(p)
         /\ UNCHANGED <<mru, idequeue, drive, disk, asleep>>
         /\ \/ \E i \in Bufs : Got(p, blk, i)
            \/ panic' = TRUE /\ Recyclable = {} /\ UNCHANGED <<buf, io>>
<1>0. BufTypeOK
  BY DEF BufInv
<1>1. CASE /\ Find(blk) # {}
           /\ LET i == mru[Min(Find(blk))]
              IN  /\ buf' = [buf EXCEPT ![i].refcnt = @ + 1]
                  /\ Then(p, "lock", i)
           /\ UNCHANGED panic
  <2> DEFINE i == mru[Min(Find(blk))]
  <2>1. i \in Bufs /\ buf[i].block = blk
    BY <1>0, <1>1, FoundBuffer
  <2>2. Got(p, blk, i)
    BY <1>1, <2>1 DEF Got, Hit, Then
  <2> QED
    BY <2>1, <2>2 DEF bget
<1>2. CASE /\ Find(blk) = {} /\ Recyclable # {}
           /\ LET i == mru[Max(Recyclable)]
              IN  /\ buf' = [buf EXCEPT ![i] =
                        [block |-> blk, valid |-> FALSE, dirty |-> FALSE,
                         refcnt |-> 1, lock |-> buf[i].lock, data |-> <<>>]]
                  /\ Then(p, "lock", i)
           /\ UNCHANGED panic
  <2> DEFINE i == mru[Max(Recyclable)]
  <2>1. i \in Bufs /\ buf[i].refcnt = 0 /\ ~buf[i].dirty
    BY <1>0, <1>2, RecycledBuffer
  <2>2. buf[i].lock = NoProc
    BY <2>1, FreeIsFree
  <2>3. \A j \in Bufs : buf[j].block # blk
    BY <1>0, <1>2, NotFound
  <2>4. Got(p, blk, i)
    BY <1>2, <2>1, <2>2, <2>3 DEF Got, Recycle, NewBuf, Then
  <2> QED
    BY <2>1, <2>4 DEF bget
<1> QED
  BY <1>1, <1>2 DEF bget
-----------------------------------------------------------------------------
(***************************************************************************)
(* One buffer changes: in which fields.                                    *)
(***************************************************************************)
Changed(i) ==
  /\ buf' \in [Bufs -> BufRec]
  /\ \A j \in Bufs \ {i} : buf'[j] = buf[j]
SameUse(i) == buf'[i].refcnt = buf[i].refcnt /\ buf'[i].lock = buf[i].lock
SameFill(i) ==
  /\ buf'[i].block = buf[i].block
  /\ buf'[i].valid = buf[i].valid /\ buf'[i].dirty = buf[i].dirty
SameData(i) == SameFill(i) /\ buf'[i].data = buf[i].data

LEMMA SetRef ==
  ASSUME buf \in [Bufs -> BufRec], NEW i \in Bufs, NEW n \in Nat,
         buf' = [buf EXCEPT ![i].refcnt = n]
  PROVE  /\ Changed(i) /\ SameData(i)
         /\ buf'[i].refcnt = n /\ buf'[i].lock = buf[i].lock
BY DEF Changed, SameData, SameFill, BufRec

LEMMA SetLock ==
  ASSUME buf \in [Bufs -> BufRec], NEW i \in Bufs, NEW q \in Procs \cup {NoProc},
         buf' = [buf EXCEPT ![i].lock = q]
  PROVE  /\ Changed(i) /\ SameData(i)
         /\ buf'[i].refcnt = buf[i].refcnt /\ buf'[i].lock = q
BY DEF Changed, SameData, SameFill, BufRec

LEMMA SetData ==
  ASSUME buf \in [Bufs -> BufRec], NEW i \in Bufs, NEW c \in Content,
         buf' = [buf EXCEPT ![i].data = c]
  PROVE  /\ Changed(i) /\ SameUse(i) /\ SameFill(i)
         /\ buf'[i].data = c
BY DEF Changed, SameUse, SameFill, BufRec

LEMMA SetDirty ==
  ASSUME buf \in [Bufs -> BufRec], NEW i \in Bufs,
         buf' = [buf EXCEPT ![i].dirty = TRUE]
  PROVE  /\ Changed(i) /\ SameUse(i)
         /\ buf'[i].block = buf[i].block /\ buf'[i].valid = buf[i].valid
         /\ buf'[i].dirty = TRUE /\ buf'[i].data = buf[i].data
BY DEF Changed, SameUse, BufRec

LEMMA SetWrite ==
  ASSUME buf \in [Bufs -> BufRec], NEW i \in Bufs, NEW c \in Content,
         buf' = [buf EXCEPT ![i].data = c, ![i].dirty = TRUE]
  PROVE  /\ Changed(i) /\ SameUse(i)
         /\ buf'[i].block = buf[i].block /\ buf'[i].valid = buf[i].valid
         /\ buf'[i].dirty = TRUE /\ buf'[i].data = c
BY DEF Changed, SameUse, BufRec

LEMMA SetRead ==
  ASSUME buf \in [Bufs -> BufRec], NEW i \in Bufs, NEW c \in Content,
         buf' = [buf EXCEPT ![i].data = c, ![i].valid = TRUE, ![i].dirty = FALSE]
  PROVE  /\ Changed(i) /\ SameUse(i)
         /\ buf'[i].block = buf[i].block /\ buf'[i].valid = TRUE
         /\ buf'[i].dirty = FALSE /\ buf'[i].data = c
BY DEF Changed, SameUse, BufRec

LEMMA SetIo ==
  ASSUME io \in [Procs -> IoRec], NEW p \in Procs,
         NEW a \in {"none", "lock", "rw", "wait", "unref"}, NEW i \in Bufs \cup {0},
         io' = [io EXCEPT ![p] = [at |-> a, buf |-> i]]
  PROVE  /\ io' \in [Procs -> IoRec]
         /\ io'[p] = [at |-> a, buf |-> i] /\ io'[p].at = a /\ io'[p].buf = i
         /\ \A q \in Procs \ {p} : io'[q] = io[q]
BY DEF IoRec

LEMMA SleepTyped ==
  ASSUME asleep \in [Procs -> Channels], NEW p \in Procs, NEW c \in Channels, Sleep(p, c)
  PROVE  asleep' \in [Procs -> Channels]
BY DEF Sleep

LEMMA WakeupTyped ==
  ASSUME asleep \in [Procs -> Channels], NEW c
  PROVE  Wakeup(c) \in [Procs -> Channels]
BY DEF Wakeup, Channels

LEMMA ChannelsAre ==
  /\ Awake \in Channels
  /\ \A i \in Bufs : LockChan(i) \in Channels /\ IoChan(i) \in Channels
BY DEF Channels, LockChan, IoChan, Bufs
-----------------------------------------------------------------------------
(***************************************************************************)
(* Every operation keeps the invariant; what each does to the blocks its   *)
(* caller has.                                                             *)
(***************************************************************************)
LEMMA GotKeeps ==
  ASSUME BufInv, NEW p \in Procs, NEW blk \in Blocks, NEW i \in Bufs,
         Ready(p), Got(p, blk, i), UNCHANGED <<mru, idequeue, drive, disk, asleep>>
  PROVE  BufInv' /\ Takes(p, blk)
<1>1. /\ BufTypeOK /\ buf \in [Bufs -> BufRec] /\ io \in [Procs -> IoRec]
      /\ io[p].at = "none" /\ io[p].buf = 0 /\ i # 0
  BY TypeIs, BufNumbers DEF BufInv, Callers, Ready
<1>2. blk \in Nat /\ blk # NoBlock /\ blk \in Blocks \cup {NoBlock}
  BY BufNumbers
<1>3. /\ Changed(i) /\ buf'[i].block = blk /\ buf'[i].refcnt = buf[i].refcnt + 1
      /\ buf'[i].lock = buf[i].lock
      /\ \/ SameData(i)
         \/ /\ buf'[i].valid = FALSE /\ buf'[i].dirty = FALSE
            /\ buf[i].lock = NoProc /\ buf[i].refcnt = 0
            /\ \A j \in Bufs : buf[j].block # blk
  <2>1. CASE Hit(p, blk, i)
    <3>1. buf[i].refcnt + 1 \in Nat
      BY <1>1 DEF BufRec
    <3>2. buf' = [buf EXCEPT ![i].refcnt = buf[i].refcnt + 1]
      BY <1>1, <2>1 DEF Hit
    <3>3. Changed(i) /\ SameData(i) /\ buf'[i].refcnt = buf[i].refcnt + 1 /\ buf'[i].lock = buf[i].lock
      BY <1>1, <3>1, <3>2, SetRef
    <3> QED
      BY <2>1, <3>3 DEF Hit, SameData, SameFill
  <2>2. CASE Recycle(p, blk, i)
    <3>1. NewBuf(blk) \in BufRec
      BY <1>2 DEF NewBuf, BufRec, Content
    <3>2. buf' = [buf EXCEPT ![i] = NewBuf(blk)]
      BY <2>2 DEF Recycle
    <3>3. Changed(i) /\ buf'[i] = NewBuf(blk)
      BY <1>1, <3>1, <3>2 DEF Changed
    <3> QED
      BY <2>2, <3>3 DEF Recycle, NewBuf
  <2> QED
    BY <2>1, <2>2 DEF Got
<1>4. /\ io' \in [Procs -> IoRec]
      /\ io'[p] = [at |-> "lock", buf |-> i] /\ io'[p].at = "lock" /\ io'[p].buf = i
      /\ \A q \in Procs \ {p} : io'[q] = io[q]
  BY <1>1, SetIo DEF Got
<1>5. buf[i].refcnt = 0 => \A q \in Procs : io[q].buf # i
  BY FreeIsFree
<1>6. BufTypeOK'
  BY <1>1, <1>3, <1>4, TypeIs, TypeIsNext DEF Changed, Got
<1>7. OneBufferPerBlock'
  BY <1>1, <1>2, <1>3 DEF OneBufferPerBlock, Changed, SameData, SameFill, BufInv
<1>8. CountsRefs'
  <2>1. ~RefersTo(p, i) /\ RefersTo(p, i)'
    BY <1>1, <1>4 DEF RefersTo
  <2>2. \A j \in Bufs \ {i} : RefersTo(p, j)' = RefersTo(p, j)
    BY <1>1, <1>4, BufNumbers DEF RefersTo
  <2>3. One(RefersTo(p, i)) = 0 /\ One(RefersTo(p, i)') = 1 /\ One(buf[i].lock = p) \in Int
        /\ One(buf'[i].lock = p) = One(buf[i].lock = p)
    BY <2>1, <1>3 DEF One
  <2>4. buf[i].refcnt \in Int /\ buf'[i].refcnt \in Int
    BY <1>1, <1>3 DEF BufRec
  <2>5. buf'[i].refcnt + One(buf[i].lock = p) + One(RefersTo(p, i))
           = buf[i].refcnt + One(buf'[i].lock = p) + One(RefersTo(p, i)')
    BY <2>3, <2>4, <1>3
  <2>6. /\ \A j \in Bufs \ {i} : buf'[j] = buf[j] /\ RefersTo(p, j)' = RefersTo(p, j)
        /\ \A q \in Procs \ {p} : (buf'[i].lock = q <=> buf[i].lock = q) /\ io'[q] = io[q]
    BY <1>3, <1>4, <2>2 DEF Changed
  <2> QED
    BY <2>4, <2>5, <2>6, CountsStep
<1>9. Named'
  BY <1>2, <1>3 DEF Named, Changed, BufInv
<1>10. Callers'
  <2> SUFFICES ASSUME NEW q \in Procs
               PROVE  /\ io'[q].at = "none" <=> io'[q].buf = 0
                      /\ io'[q].at \in {"rw", "wait"} => buf'[io'[q].buf].lock = q
                      /\ io'[q].at = "rw" => ~buf'[io'[q].buf].valid \/ buf'[io'[q].buf].dirty
    BY DEF Callers
  <2>1. CASE q = p
    BY <1>1, <1>4, <2>1
  <2>2. CASE q # p
    <3>1. io'[q] = io[q]
      BY <1>4, <2>2
    <3>2. io[q].at \in {"rw", "wait"} => io[q].buf \in Bufs
      BY <1>1 DEF BufInv, Callers, IoRec
    <3>3. io[q].buf = i => SameData(i)
      BY <1>3, <1>5
    <3> QED
      BY <1>1, <1>3, <3>1, <3>2, <3>3 DEF BufInv, Callers, Changed, SameData, SameFill
  <2> QED
    BY <2>1, <2>2
<1>11. Queue'
  <2>1. ASSUME NEW j \in Bufs, Queued(j) PROVE Queued(j)'
    <3>1. buf[j].lock # p
      BY <1>1, <2>1 DEF Queued
    <3>2. j = i => SameData(i)
      BY <1>3, <2>1, BufNumbers DEF Queued
    <3> QED
      BY <1>3, <1>4, <2>1, <3>1, <3>2 DEF Queued, Changed, SameData, SameFill
  <2>2. \A n \in DOMAIN idequeue : idequeue[n] \in Bufs
    BY <1>1, TypeIs
  <2>3. Queue /\ idequeue' = idequeue /\ drive' = drive
    BY DEF BufInv
  <2> QED
    BY <2>1, <2>2, <2>3 DEF Queue
<1>12. Filled'
  <2> SUFFICES ASSUME NEW j \in Bufs
               PROVE  /\ buf'[j].dirty => buf'[j].valid
                      /\ buf'[j].lock # NoProc /\ ~buf'[j].valid => Busy(j)'
    BY DEF Filled
  <2>1. /\ buf[j].dirty => buf[j].valid
        /\ buf[j].lock # NoProc /\ ~buf[j].valid => Busy(j)
    BY DEF BufInv, Filled
  <2>2. Busy(j) => Busy(j)'
    BY <1>1, <1>3, <1>4 DEF Busy, Changed
  <2> QED
    BY <1>3, <2>1, <2>2 DEF Changed, SameData, SameFill
<1>13. Takes(p, blk)
  <2>1. /\ Held(p)' = Held(p) \cup {i}
        /\ \A q \in Procs \ {p} : Held(q)' = Held(q)
    BY <1>1, <1>3, <1>4 DEF Held, Changed
  <2>2. buf[i].refcnt = 0 => \A q \in Procs : i \notin Held(q)
    BY FreeIsFree
  <2>3. \A q \in Procs : \A j \in Held(q) : j \in Bufs /\ buf'[j].block = buf[j].block
    BY <1>3, <2>2 DEF Changed, SameData, SameFill, Held
  <2>4. HeldBlocks(p)' = HeldBlocks(p) \cup {blk}
    BY <1>3, <2>1, <2>3 DEF HeldBlocks
  <2>5. \A q \in Procs \ {p} : HeldBlocks(q)' = HeldBlocks(q)
    BY <2>1, <2>3 DEF HeldBlocks
  <2> QED
    BY <2>4, <2>5 DEF Takes
<1> QED
  BY <1>6, <1>7, <1>8, <1>9, <1>10, <1>11, <1>12, <1>13 DEF BufInv

\* Steps that leave the buffers and the callers alone.
LEMMA OutsideKeeps ==
  ASSUME BufInv, UNCHANGED <<buf, mru, idequeue, drive, disk, io>>,
         asleep' \in [Procs -> Channels], panic' \in BOOLEAN
  PROVE  BufInv' /\ HeldSame
<1>1. BufTypeOK'
  BY TypeIs, TypeIsNext DEF BufInv
<1>2. OneBufferPerBlock' /\ CountsRefs' /\ Named' /\ Callers'
  BY DEF BufInv, OneBufferPerBlock, CountsRefs, Named, Callers
<1>3. Queue'
  BY DEF BufInv, Queue, Queued
<1>4. Filled'
  BY DEF BufInv, Filled, Busy
<1>5. HeldSame
  BY DEF HeldSame, HeldBlocks, Held
<1> QED
  BY <1>1, <1>2, <1>3, <1>4, <1>5 DEF BufInv

LEMMA CallerHas ==
  ASSUME BufInv, NEW p \in Procs
  PROVE  /\ BufTypeOK /\ buf \in [Bufs -> BufRec] /\ io \in [Procs -> IoRec]
         /\ io[p].at # "none" => io[p].buf \in Bufs
         /\ io[p].at = "none" => io[p].buf = 0 /\ \A i \in Bufs : io[p].buf # i
BY TypeIs, BufNumbers DEF BufInv, Callers, IoRec

LEMMA acquiresleepKeeps ==
  ASSUME BufInv, NEW p \in Procs, acquiresleep(p)
  PROVE  BufInv' /\ HeldSame
<1>0. PICK i \in Bufs : i = io[p].buf
  BY CallerHas DEF acquiresleep, Doing
<1>1. /\ io[p].at = "lock" /\ io[p].buf = i
      /\ BufTypeOK /\ buf \in [Bufs -> BufRec] /\ io \in [Procs -> IoRec]
  BY <1>0, CallerHas DEF acquiresleep, Doing
<1>2. CASE buf[i].lock # NoProc
  <2>1. asleep' \in [Procs -> Channels]
    BY <1>0, <1>1, <1>2, ChannelsAre, SleepTyped, TypeIs DEF acquiresleep
  <2>2. UNCHANGED <<buf, mru, idequeue, drive, disk, io, panic>>
    BY <1>0, <1>2 DEF acquiresleep
  <2>3. panic' \in BOOLEAN
    BY <1>1, <2>2, TypeIs
  <2> QED
    BY <2>1, <2>2, <2>3, OutsideKeeps
<1>3. CASE buf[i].lock = NoProc
  <2>1. /\ buf' = [buf EXCEPT ![i].lock = p]
        /\ IF buf[i].valid THEN Then(p, "none", 0) ELSE Then(p, "rw", i)
        /\ UNCHANGED <<mru, idequeue, drive, disk, panic, asleep>>
    BY <1>0, <1>3 DEF acquiresleep
  <2>2. /\ Changed(i) /\ SameData(i)
        /\ buf'[i].refcnt = buf[i].refcnt /\ buf'[i].lock = p
    BY <1>1, <2>1, SetLock
  <2>3. /\ io' \in [Procs -> IoRec]
        /\ IF buf[i].valid THEN io'[p].at = "none" /\ io'[p].buf = 0
           ELSE io'[p].at = "rw" /\ io'[p].buf = i
        /\ \A q \in Procs \ {p} : io'[q] = io[q]
    BY <1>1, <2>1, SetIo DEF Then
  <2>4. BufTypeOK'
    BY <1>1, <2>1, <2>2, <2>3, TypeIs, TypeIsNext DEF Changed
  <2>5. OneBufferPerBlock'
    BY <2>2 DEF OneBufferPerBlock, Changed, SameData, SameFill, BufInv
  <2>6. CountsRefs'
    <3>1. RefersTo(p, i) /\ ~RefersTo(p, i)'
      BY <1>1, <2>3 DEF RefersTo
    <3>2. \A j \in Bufs \ {i} : RefersTo(p, j)' = RefersTo(p, j)
      BY <1>1, <2>3 DEF RefersTo
    <3>3. One(RefersTo(p, i)) = 1 /\ One(RefersTo(p, i)') = 0 /\ One(buf[i].lock = p) = 0
          /\ One(buf'[i].lock = p) = 1
      BY <3>1, <1>3, <2>2, BufNumbers DEF One
    <3>4. buf[i].refcnt \in Int /\ buf'[i].refcnt \in Int
      BY <1>1, <2>2 DEF BufRec
    <3>5. buf'[i].refcnt + One(buf[i].lock = p) + One(RefersTo(p, i))
             = buf[i].refcnt + One(buf'[i].lock = p) + One(RefersTo(p, i)')
      BY <3>3, <3>4, <2>2
    <3>6. /\ \A j \in Bufs \ {i} : buf'[j] = buf[j] /\ RefersTo(p, j)' = RefersTo(p, j)
          /\ \A q \in Procs \ {p} : (buf'[i].lock = q <=> buf[i].lock = q) /\ io'[q] = io[q]
      <4>1. \A q \in Procs \ {p} : buf'[i].lock # q /\ buf[i].lock # q
        BY <1>3, <2>2, BufNumbers
      <4>2. \A q \in Procs \ {p} : io'[q] = io[q]
        BY <2>3
      <4>3. \A j \in Bufs \ {i} : buf'[j] = buf[j]
        BY <2>2 DEF Changed
      <4> QED
        BY <3>2, <4>1, <4>2, <4>3
    <3> QED
      BY <1>1, <3>4, <3>5, <3>6, CountsStep
  <2>7. Named'
    <3>1. buf[i].block # NoBlock
      <4>1. buf[i].refcnt # 0
        BY <1>1, FreeIsFree
      <4> QED
        BY <1>1, <4>1 DEF BufInv, Named, EmptyBuf
    <3> QED
      BY <3>1, <2>2 DEF Named, Changed, SameData, SameFill, BufInv
  <2>8. Callers'
    <3> SUFFICES ASSUME NEW q \in Procs
                 PROVE  /\ io'[q].at = "none" <=> io'[q].buf = 0
                        /\ io'[q].at \in {"rw", "wait"} => buf'[io'[q].buf].lock = q
                        /\ io'[q].at = "rw" => ~buf'[io'[q].buf].valid \/ buf'[io'[q].buf].dirty
      BY DEF Callers
    <3>1. CASE q = p
      BY <1>1, <2>2, <2>3, <3>1, BufNumbers DEF SameData, SameFill
    <3>2. CASE q # p
      <4>1. io'[q] = io[q] /\ (io[q].at \in {"rw", "wait"} => io[q].buf \in Bufs)
        BY <2>3, <3>2, CallerHas
      <4>2. io[q].at \in {"rw", "wait"} => io[q].buf # i
        BY <1>3, BufNumbers DEF BufInv, Callers
      <4> QED
        BY <2>2, <4>1, <4>2 DEF BufInv, Callers, Changed
    <3> QED
      BY <3>1, <3>2
  <2>9. Queue'
    <3>1. ASSUME NEW j \in Bufs, Queued(j) PROVE Queued(j)'
      <4>1. buf[j].lock # p /\ j # i
        BY <1>1, <1>3, <3>1, BufNumbers DEF Queued
      <4> QED
        BY <2>2, <2>3, <3>1, <4>1 DEF Queued, Changed
    <3>2. \A n \in DOMAIN idequeue : idequeue[n] \in Bufs
      BY <1>1, TypeIs
    <3>3. Queue /\ idequeue' = idequeue /\ drive' = drive
      BY <2>1 DEF BufInv
    <3> QED
      BY <3>1, <3>2, <3>3 DEF Queue
  <2>10. Filled'
    <3> SUFFICES ASSUME NEW j \in Bufs
                 PROVE  /\ buf'[j].dirty => buf'[j].valid
                        /\ buf'[j].lock # NoProc /\ ~buf'[j].valid => Busy(j)'
      BY DEF Filled
    <3>1. /\ buf[j].dirty => buf[j].valid
          /\ buf[j].lock # NoProc /\ ~buf[j].valid => Busy(j)
      BY DEF BufInv, Filled
    <3>2. j # i /\ Busy(j) => Busy(j)'
      BY <1>1, <2>2, <2>3 DEF Busy, Changed
    <3>3. ~buf[i].valid => Busy(i)'
      BY <2>2, <2>3 DEF Busy
    <3> QED
      BY <2>2, <3>1, <3>2, <3>3 DEF Changed, SameData, SameFill
  <2>11. HeldSame
    <3>1. ASSUME NEW q \in Procs, NEW j \in Bufs
          PROVE  (j \in Held(q)') <=> (j \in Held(q))
      <4>1. CASE j = i
        BY <1>1, <1>3, <2>2, <2>3, <4>1, BufNumbers DEF Held
      <4>2. CASE j # i
        BY <1>1, <2>2, <2>3, <4>2 DEF Held, Changed
      <4> QED
        BY <4>1, <4>2
    <3>2. \A j \in Bufs : buf'[j].block = buf[j].block
      BY <2>2 DEF Changed, SameData, SameFill
    <3>3. \A q \in Procs : Held(q)' = Held(q)
      BY <3>1 DEF Held
    <3> QED
      BY <3>2, <3>3 DEF HeldSame, HeldBlocks, Held
  <2> QED
    BY <2>4, <2>5, <2>6, <2>7, <2>8, <2>9, <2>10, <2>11 DEF BufInv
<1> QED
  BY <1>2, <1>3

LEMMA iderwKeeps ==
  ASSUME BufInv, NEW p \in Procs, iderw(p)
  PROVE  /\ BufInv' /\ HeldSame /\ UNCHANGED <<panic, buf, disk>>
         /\ io'[p].at = "wait" /\ io'[p].buf = io[p].buf
<1>0. PICK i \in Bufs : i = io[p].buf
  BY CallerHas DEF iderw, Doing
<1>1. /\ io[p].at = "rw" /\ io[p].buf = i
      /\ BufTypeOK /\ buf \in [Bufs -> BufRec] /\ io \in [Procs -> IoRec]
  BY <1>0, CallerHas DEF iderw, Doing
<1>2. /\ buf[i].lock = p /\ (~buf[i].valid \/ buf[i].dirty)
  BY <1>1 DEF BufInv, Callers
<1>3. /\ idequeue' = Append(idequeue, i)
      /\ drive' = IF idequeue = <<>> THEN "busy" ELSE drive
      /\ Then(p, "wait", i) /\ Sleep(p, IoChan(i))
      /\ UNCHANGED <<panic, buf, mru, disk>>
  BY <1>0, <1>2 DEF iderw
<1>4. /\ io' \in [Procs -> IoRec]
      /\ io'[p] = [at |-> "wait", buf |-> i] /\ io'[p].at = "wait" /\ io'[p].buf = i
      /\ \A q \in Procs \ {p} : io'[q] = io[q]
  BY <1>1, <1>3, SetIo DEF Then
<1>5. idequeue \in Seq(Bufs) /\ drive \in {"idle", "busy", "done"} /\ Queue
  BY <1>1, TypeIs DEF BufInv
<1>6. BufTypeOK'
  <2>1. asleep' \in [Procs -> Channels]
    BY <1>1, <1>3, ChannelsAre, SleepTyped, TypeIs
  <2>2. idequeue' \in Seq(Bufs) /\ drive' \in {"idle", "busy", "done"}
    BY <1>3, <1>5
  <2> QED
    BY <1>1, <1>3, <1>4, <2>1, <2>2, TypeIs, TypeIsNext
<1>7. OneBufferPerBlock' /\ Named'
  BY <1>3 DEF BufInv, OneBufferPerBlock, Named
<1>8. \A q \in Procs, j \in Bufs : RefersTo(q, j)' = RefersTo(q, j)
  <2>1. ASSUME NEW q \in Procs, NEW j \in Bufs
        PROVE  RefersTo(q, j)' = RefersTo(q, j)
    <3>1. CASE q = p
      BY <1>1, <1>4, <3>1 DEF RefersTo
    <3>2. CASE q # p
      BY <1>4, <3>2 DEF RefersTo
    <3> QED
      BY <3>1, <3>2
  <2> QED
    BY <2>1
<1>9. CountsRefs'
  BY <1>3, <1>8, CountsSame
<1>10. Callers'
  <2> SUFFICES ASSUME NEW q \in Procs
               PROVE  /\ io'[q].at = "none" <=> io'[q].buf = 0
                      /\ io'[q].at \in {"rw", "wait"} => buf'[io'[q].buf].lock = q
                      /\ io'[q].at = "rw" => ~buf'[io'[q].buf].valid \/ buf'[io'[q].buf].dirty
    BY DEF Callers
  <2>1. CASE q = p
    BY <1>2, <1>3, <1>4, <2>1, BufNumbers
  <2>2. CASE q # p
    BY <1>3, <1>4, <2>2 DEF BufInv, Callers
  <2> QED
    BY <2>1, <2>2
<1>11. Queue'
  <2>1. \A j \in Bufs : Queued(j) => j # i /\ Queued(j)'
    BY <1>1, <1>2, <1>3, <1>4 DEF Queued
  <2>2. Queued(i)'
    BY <1>2, <1>3, <1>4 DEF Queued
  <2>3. /\ DOMAIN idequeue' = 1..Len(idequeue) + 1
        /\ DOMAIN idequeue = 1..Len(idequeue) /\ Len(idequeue) \in Nat
        /\ \A n \in DOMAIN idequeue : idequeue'[n] = idequeue[n] /\ idequeue[n] \in Bufs
        /\ idequeue'[Len(idequeue) + 1] = i
    BY <1>3, <1>5
  <2>4. \A n \in DOMAIN idequeue : idequeue[n] # i
    BY <1>5, <2>1, <2>3 DEF Queue
  <2>5. \A n \in DOMAIN idequeue' : Queued(idequeue[n])'
    <3> SUFFICES ASSUME NEW n \in DOMAIN idequeue'
                 PROVE  Queued(idequeue[n])'
      OBVIOUS
    <3>1. PICK j \in Bufs : j = idequeue'[n]
      BY <2>3
    <3>2. Queued(j)'
      <4>1. CASE n \in DOMAIN idequeue
        BY <1>5, <2>1, <2>3, <3>1, <4>1 DEF Queue
      <4>2. CASE n \notin DOMAIN idequeue
        <5>1. j = i
          BY <2>3, <3>1, <4>2
        <5> QED
          BY <2>2, <5>1
      <4> QED
        BY <4>1, <4>2
    <3> QED
      BY <3>1, <3>2
  <2>6. \A m, n \in DOMAIN idequeue' : idequeue'[m] = idequeue'[n] => m = n
    BY <1>5, <2>3, <2>4 DEF Queue
  <2>7. idequeue' # <<>> /\ drive' # "idle"
    BY <1>3, <1>5 DEF Queue
  <2> QED
    BY <2>5, <2>6, <2>7 DEF Queue
<1>12. Filled'
  <2> SUFFICES ASSUME NEW j \in Bufs
               PROVE  /\ buf'[j].dirty => buf'[j].valid
                      /\ buf'[j].lock # NoProc /\ ~buf'[j].valid => Busy(j)'
    BY DEF Filled
  <2>1. /\ buf[j].dirty => buf[j].valid
        /\ buf[j].lock # NoProc /\ ~buf[j].valid => Busy(j)
    BY DEF BufInv, Filled
  <2>2. Busy(j) => Busy(j)'
    BY <1>1, <1>3, <1>4 DEF Busy
  <2> QED
    BY <1>3, <2>1, <2>2
<1>13. HeldSame
  <2>1. ASSUME NEW q \in Procs, NEW j \in Bufs
        PROVE  (j \in Held(q)') <=> (j \in Held(q))
    <3>1. CASE q = p
      BY <1>1, <1>3, <1>4, <3>1 DEF Held
    <3>2. CASE q # p
      BY <1>3, <1>4, <3>2 DEF Held
    <3> QED
      BY <3>1, <3>2
  <2>2. \A q \in Procs : Held(q)' = Held(q)
    BY <2>1 DEF Held
  <2> QED
    BY <1>3, <2>2 DEF HeldSame, HeldBlocks
<1> QED
  BY <1>1, <1>3, <1>4, <1>6, <1>7, <1>9, <1>10, <1>11, <1>12, <1>13 DEF BufInv

\* What waits for the drive names a block of the disk.
LEMMA HeadIs ==
  ASSUME BufInv, drive # "idle"
  PROVE  /\ Head(idequeue) \in Bufs /\ Queued(Head(idequeue))
         /\ idequeue # <<>> /\ idequeue \in Seq(Bufs) /\ 1 \in DOMAIN idequeue
         /\ Head(idequeue) = idequeue[1]
         /\ buf[Head(idequeue)].block \in Blocks
         /\ buf[Head(idequeue)].data \in Content
<1>1. /\ idequeue # <<>> /\ idequeue \in Seq(Bufs) /\ buf \in [Bufs -> BufRec]
      /\ \A n \in DOMAIN idequeue : Queued(idequeue[n])
  BY TypeIs DEF BufInv, Queue
<1>2. 1 \in DOMAIN idequeue /\ Head(idequeue) = idequeue[1] /\ Head(idequeue) \in Bufs
  BY <1>1
<1>3. Queued(Head(idequeue))
  BY <1>1, <1>2
<1>4. buf[Head(idequeue)].block # NoBlock
  <2>1. PICK j \in Bufs : j = Head(idequeue)
    BY <1>2
  <2>2. buf[j].lock # NoProc
    BY <1>3, <2>1, BufNumbers DEF Queued
  <2>3. buf[j].block # NoBlock
    BY <2>2 DEF BufInv, Named, EmptyBuf
  <2> QED
    BY <2>1, <2>3
<1> QED
  BY <1>1, <1>2, <1>3, <1>4 DEF BufRec

LEMMA TransferKeeps ==
  ASSUME BufInv, Transfer
  PROVE  BufInv' /\ HeldSame
<1>1. /\ drive' = "done" /\ drive = "busy" /\ UNCHANGED <<buf, mru, idequeue, io, asleep, panic>>
      /\ disk' = IF buf[Head(idequeue)].dirty
                 THEN [disk EXCEPT ![buf[Head(idequeue)].block] = buf[Head(idequeue)].data]
                 ELSE disk
  BY DEF Transfer
<1>2. BufTypeOK'
  BY <1>1, HeadIs, TypeIs, TypeIsNext DEF BufInv
<1>3. OneBufferPerBlock' /\ CountsRefs' /\ Named' /\ Callers'
  BY <1>1 DEF BufInv, OneBufferPerBlock, CountsRefs, Named, Callers
<1>4. Queue'
  BY <1>1 DEF BufInv, Queue, Queued
<1>5. Filled'
  BY <1>1 DEF BufInv, Filled, Busy
<1>6. HeldSame
  BY <1>1 DEF HeldSame, HeldBlocks, Held
<1> QED
  BY <1>2, <1>3, <1>4, <1>5, <1>6 DEF BufInv

\* A process that has a buffer and nothing else to do finds contents in it.
LEMMA OwnerHas ==
  ASSUME BufInv, NEW p \in Procs, io[p].at = "none", NEW i \in Bufs, buf[i].lock = p
  PROVE  /\ buf[i].valid /\ buf[i].block \in Blocks /\ buf[i].block # NoBlock
         /\ ~Queued(i) /\ ~Busy(i) /\ ~RefersTo(p, i) /\ buf[i].refcnt > 0
         /\ buf[i].data \in Content
<1>1. ~Busy(i) /\ ~Queued(i)
  BY DEF Busy, Queued
<1>2. buf[i].valid
  BY <1>1, BufNumbers DEF BufInv, Filled
<1>3. buf[i].block # NoBlock
  BY BufNumbers DEF BufInv, Named, EmptyBuf
<1>4. buf[i] \in BufRec
  BY TypeIs DEF BufInv
<1>5. buf[i].refcnt # 0
  BY FreeIsFree, BufNumbers
<1> QED
  BY <1>1, <1>2, <1>3, <1>4, <1>5 DEF RefersTo, BufRec

LEMMA OwnerKeeps ==
  ASSUME BufInv, NEW p \in Procs, io[p].at = "none", NEW i \in Bufs, buf[i].lock = p,
         Changed(i), SameUse(i), buf'[i].block = buf[i].block, buf'[i].valid = buf[i].valid,
         \/ UNCHANGED io
         \/ io' = [io EXCEPT ![p] = [at |-> "rw", buf |-> i]] /\ buf'[i].dirty = TRUE,
         UNCHANGED <<mru, idequeue, drive, disk, asleep>>, panic' \in BOOLEAN
  PROVE  BufInv' /\ HeldSame
<1>1. /\ BufTypeOK /\ buf \in [Bufs -> BufRec] /\ io \in [Procs -> IoRec]
      /\ io[p].buf = 0 /\ i # 0
  BY CallerHas, BufNumbers
<1>2. /\ buf[i].valid /\ ~Queued(i) /\ ~Busy(i) /\ buf[i].block # NoBlock
  BY OwnerHas
<1>3. /\ io' \in [Procs -> IoRec]
      /\ \A q \in Procs \ {p} : io'[q] = io[q]
      /\ \/ io'[p] = io[p]
         \/ io'[p].at = "rw" /\ io'[p].buf = i /\ buf'[i].dirty = TRUE
  <2>1. CASE UNCHANGED io
    BY <1>1, <2>1
  <2>2. CASE io' = [io EXCEPT ![p] = [at |-> "rw", buf |-> i]] /\ buf'[i].dirty = TRUE
    BY <1>1, <2>2, SetIo
  <2> QED
    BY <2>1, <2>2
<1>4. BufTypeOK'
  BY <1>1, <1>3, TypeIs, TypeIsNext DEF Changed
<1>5. OneBufferPerBlock' /\ Named'
  BY <1>2 DEF BufInv, OneBufferPerBlock, Named, Changed
<1>6. CountsRefs'
  <2>1. ASSUME NEW q \in Procs, NEW j \in Bufs
        PROVE  RefersTo(q, j)' = RefersTo(q, j)
    <3>1. CASE q = p
      BY <1>1, <1>3, <3>1, BufNumbers DEF RefersTo
    <3>2. CASE q # p
      BY <1>3, <3>2 DEF RefersTo
    <3> QED
      BY <3>1, <3>2
  <2>2. \A j \in Bufs : buf'[j].refcnt = buf[j].refcnt /\ buf'[j].lock = buf[j].lock
    BY DEF Changed, SameUse
  <2> QED
    BY <2>1, <2>2, CountsSame
<1>7. Callers'
  <2> SUFFICES ASSUME NEW q \in Procs
               PROVE  /\ io'[q].at = "none" <=> io'[q].buf = 0
                      /\ io'[q].at \in {"rw", "wait"} => buf'[io'[q].buf].lock = q
                      /\ io'[q].at = "rw" => ~buf'[io'[q].buf].valid \/ buf'[io'[q].buf].dirty
    BY DEF Callers
  <2>1. CASE q = p
    BY <1>1, <1>3, <2>1, BufNumbers DEF SameUse
  <2>2. CASE q # p
    <3>1. io'[q] = io[q] /\ (io[q].at \in {"rw", "wait"} => io[q].buf \in Bufs /\ io[q].buf # i)
      BY <1>3, <2>2, CallerHas DEF BufInv, Callers
    <3> QED
      BY <3>1 DEF BufInv, Callers, Changed
  <2> QED
    BY <2>1, <2>2
<1>8. Queue'
  <2>1. ASSUME NEW j \in Bufs, Queued(j) PROVE Queued(j)'
    <3>1. j # i /\ buf[j].lock # p
      BY <1>2, <2>1 DEF Queued
    <3> QED
      BY <1>3, <2>1, <3>1 DEF Queued, Changed
  <2>2. \A n \in DOMAIN idequeue : idequeue[n] \in Bufs
    BY <1>1, TypeIs
  <2>3. Queue /\ idequeue' = idequeue /\ drive' = drive
    BY DEF BufInv
  <2> QED
    BY <2>1, <2>2, <2>3 DEF Queue
<1>9. Filled'
  <2> SUFFICES ASSUME NEW j \in Bufs
               PROVE  /\ buf'[j].dirty => buf'[j].valid
                      /\ buf'[j].lock # NoProc /\ ~buf'[j].valid => Busy(j)'
    BY DEF Filled
  <2>1. /\ buf[j].dirty => buf[j].valid
        /\ buf[j].lock # NoProc /\ ~buf[j].valid => Busy(j)
    BY DEF BufInv, Filled
  <2>2. j # i /\ Busy(j) => Busy(j)'
    BY <1>1, <1>3 DEF Busy, Changed
  <2> QED
    BY <1>2, <2>1, <2>2 DEF Changed
<1>10. HeldSame
  <2>1. ASSUME NEW q \in Procs, NEW j \in Bufs
        PROVE  (j \in Held(q)') <=> (j \in Held(q))
    <3>0. buf'[j].lock = buf[j].lock
      BY DEF Changed, SameUse
    <3>1. CASE q = p
      BY <1>1, <1>3, <3>0, <3>1 DEF Held
    <3>2. CASE q # p
      BY <1>3, <3>0, <3>2 DEF Held
    <3> QED
      BY <3>1, <3>2
  <2>2. \A q \in Procs : Held(q)' = Held(q)
    BY <2>1 DEF Held
  <2>3. \A j \in Bufs : buf'[j].block = buf[j].block
    BY DEF Changed
  <2> QED
    BY <2>2, <2>3 DEF HeldSame, HeldBlocks, Held
<1> QED
  BY <1>4, <1>5, <1>6, <1>7, <1>8, <1>9, <1>10 DEF BufInv

LEMMA bwriteKeeps ==
  ASSUME BufInv, NEW p \in Procs, NEW i \in Bufs, buf[i].lock = p, NEW c \in Content,
         bwrite(p, i, c)
  PROVE  BufInv' /\ HeldSame
<1>1. /\ io[p].at = "none" /\ buf' = [buf EXCEPT ![i].data = c, ![i].dirty = TRUE]
      /\ io' = [io EXCEPT ![p] = [at |-> "rw", buf |-> i]]
      /\ UNCHANGED <<mru, idequeue, drive, disk, asleep, panic>>
  BY DEF bwrite, Ready, Then
<1>2. /\ buf \in [Bufs -> BufRec] /\ panic \in BOOLEAN
  BY TypeIs DEF BufInv
<1>3. /\ Changed(i) /\ SameUse(i)
      /\ buf'[i].block = buf[i].block /\ buf'[i].valid = buf[i].valid
      /\ buf'[i].dirty = TRUE
  BY <1>1, <1>2, SetWrite
<1> QED
  BY <1>1, <1>2, <1>3, OwnerKeeps

\* The caller changes the contents of a buffer it has, or marks it dirty.
LEMMA StoreKeeps ==
  ASSUME BufInv, NEW p \in Procs, Ready(p), NEW i \in Bufs, buf[i].lock = p,
         \/ \E c \in Content : buf' = [buf EXCEPT ![i].data = c]
         \/ buf' = [buf EXCEPT ![i].dirty = TRUE],
         UNCHANGED <<mru, idequeue, drive, disk, io, asleep, panic>>
  PROVE  BufInv' /\ HeldSame
<1>1. io[p].at = "none" /\ buf \in [Bufs -> BufRec] /\ panic \in BOOLEAN
  BY TypeIs DEF BufInv, Ready
<1>2. /\ Changed(i) /\ SameUse(i)
      /\ buf'[i].block = buf[i].block /\ buf'[i].valid = buf[i].valid
  BY <1>1, SetData, SetDirty DEF SameFill
<1> QED
  BY <1>1, <1>2, OwnerKeeps

LEMMA RouseKeeps ==
  ASSUME BufInv, NEW p \in Procs, Rouse(p)
  PROVE  BufInv' /\ HeldSame
<1>1. asleep' \in [Procs -> Channels] /\ panic' \in BOOLEAN
  BY ChannelsAre, TypeIs DEF BufInv, Rouse
<1> QED
  BY <1>1, OutsideKeeps DEF Rouse

\* What the interrupt leaves in the buffer at the head of the queue.
LEMMA ideintrDoes ==
  ASSUME BufInv, ideintr, NEW i \in Bufs, i = Head(idequeue)
  PROVE  /\ drive = "done" /\ Queued(i) /\ buf[i].block \in Blocks
         /\ Changed(i) /\ SameUse(i) /\ buf'[i].block = buf[i].block
         /\ buf'[i].valid = TRUE /\ buf'[i].dirty = FALSE
         /\ buf'[i].data = IF buf[i].dirty THEN buf[i].data ELSE disk[buf[i].block]
         /\ asleep' = Wakeup(IoChan(i)) /\ idequeue' = Tail(idequeue)
         /\ drive' = IF Len(idequeue) > 1 THEN "busy" ELSE "idle"
         /\ UNCHANGED <<mru, disk, io, panic>>
<1>1. /\ drive = "done"
      /\ buf' = [buf EXCEPT
           ![i].data = IF buf[i].dirty THEN buf[i].data ELSE disk[buf[i].block],
           ![i].valid = TRUE, ![i].dirty = FALSE]
      /\ asleep' = Wakeup(IoChan(i)) /\ idequeue' = Tail(idequeue)
      /\ drive' = IF Len(idequeue) > 1 THEN "busy" ELSE "idle"
      /\ UNCHANGED <<mru, disk, io, panic>>
  BY DEF ideintr
<1>2. Queued(i) /\ buf[i].block \in Blocks /\ buf[i].data \in Content
  BY <1>1, HeadIs
<1>3. buf \in [Bufs -> BufRec] /\ disk \in [Blocks -> Content]
  BY TypeIs DEF BufInv
<1> DEFINE c == IF buf[i].dirty THEN buf[i].data ELSE disk[buf[i].block]
<1>4. c \in Content
  BY <1>2, <1>3
<1>5. buf' = [buf EXCEPT ![i].data = c, ![i].valid = TRUE, ![i].dirty = FALSE]
  BY <1>1
<1> HIDE DEF c
<1>6. /\ Changed(i) /\ SameUse(i) /\ buf'[i].block = buf[i].block
      /\ buf'[i].valid = TRUE /\ buf'[i].dirty = FALSE /\ buf'[i].data = c
  BY <1>3, <1>4, <1>5, SetRead
<1> QED
  BY <1>1, <1>2, <1>6 DEF c

LEMMA ideintrKeeps ==
  ASSUME BufInv, ideintr
  PROVE  BufInv' /\ HeldSame
<1>0. PICK i \in Bufs : i = Head(idequeue)
  BY HeadIs DEF ideintr
<1>1. /\ drive = "done" /\ Queued(i) /\ buf[i].block \in Blocks
      /\ Changed(i) /\ SameUse(i) /\ buf'[i].block = buf[i].block
      /\ buf'[i].valid = TRUE /\ buf'[i].dirty = FALSE
      /\ asleep' = Wakeup(IoChan(i)) /\ idequeue' = Tail(idequeue)
      /\ drive' = IF Len(idequeue) > 1 THEN "busy" ELSE "idle"
      /\ UNCHANGED <<mru, disk, io, panic>>
  BY <1>0, ideintrDoes
<1>2. /\ BufTypeOK /\ Queue /\ idequeue \in Seq(Bufs) /\ idequeue # <<>> /\ i = idequeue[1]
      /\ io \in [Procs -> IoRec]
  BY <1>0, <1>1, HeadIs, TypeIs DEF BufInv
<1>3. /\ Tail(idequeue) \in Seq(Bufs) /\ Len(Tail(idequeue)) = Len(idequeue) - 1
      /\ Len(idequeue) \in Nat \ {0}
      /\ DOMAIN idequeue = 1..Len(idequeue) /\ DOMAIN Tail(idequeue) = 1..Len(idequeue) - 1
      /\ \A n \in 1..Len(idequeue) - 1 : Tail(idequeue)[n] = idequeue[n + 1]
  BY <1>2
<1>4. BufTypeOK'
  BY <1>1, <1>2, <1>3, WakeupTyped, TypeIs, TypeIsNext DEF Changed
<1>5. OneBufferPerBlock' /\ Named'
  <2>1. buf[i].block # NoBlock
    BY <1>1, BufNumbers
  <2> QED
    BY <1>1, <2>1 DEF BufInv, OneBufferPerBlock, Named, Changed
<1>6. CountsRefs'
  <2>1. \A q \in Procs, j \in Bufs : RefersTo(q, j)' = RefersTo(q, j)
    BY <1>1 DEF RefersTo
  <2>2. \A j \in Bufs : buf'[j].refcnt = buf[j].refcnt /\ buf'[j].lock = buf[j].lock
    BY <1>1 DEF Changed, SameUse
  <2> QED
    BY <2>1, <2>2, CountsSame
<1>7. Callers'
  <2> SUFFICES ASSUME NEW q \in Procs
               PROVE  /\ io'[q].at = "none" <=> io'[q].buf = 0
                      /\ io'[q].at \in {"rw", "wait"} => buf'[io'[q].buf].lock = q
                      /\ io'[q].at = "rw" => ~buf'[io'[q].buf].valid \/ buf'[io'[q].buf].dirty
    BY DEF Callers
  <2>1. io'[q] = io[q] /\ (io[q].at # "none" => io[q].buf \in Bufs)
    BY <1>1, CallerHas
  <2>2. io[q].at = "rw" => io[q].buf # i
    BY <1>1 DEF BufInv, Callers, Queued
  <2>3. \A j \in Bufs : buf'[j].lock = buf[j].lock
    BY <1>1 DEF Changed, SameUse
  <2> QED
    BY <1>1, <2>1, <2>2, <2>3 DEF BufInv, Callers, Changed
<1>8. Queue'
  <2>1. ASSUME NEW j \in Bufs, Queued(j), j # i PROVE Queued(j)'
    BY <1>1, <2>1 DEF Queued, Changed
  <2>2. \A n \in DOMAIN idequeue' : Queued(idequeue[n])'
    <3> SUFFICES ASSUME NEW n \in DOMAIN idequeue'
                 PROVE  Queued(idequeue[n])'
      OBVIOUS
    <3>1. n \in 1..Len(idequeue) - 1 /\ n + 1 \in DOMAIN idequeue /\ n + 1 # 1 /\ 1 \in DOMAIN idequeue
      BY <1>1, <1>3
    <3>2. PICK j \in Bufs : j = idequeue[n + 1]
      BY <1>2, <3>1
    <3>3. Queued(j)
      BY <1>2, <3>1, <3>2 DEF Queue
    <3>4. j # i
      BY <1>2, <3>1, <3>2 DEF Queue
    <3>5. Queued(j)' /\ j = idequeue'[n]
      BY <1>1, <1>3, <2>1, <3>1, <3>2, <3>3, <3>4
    <3> QED
      BY <3>5
  <2>3. \A m, n \in DOMAIN idequeue' : idequeue'[m] = idequeue'[n] => m = n
    <3> SUFFICES ASSUME NEW m \in DOMAIN idequeue', NEW n \in DOMAIN idequeue',
                        idequeue'[m] = idequeue'[n]
                 PROVE  m = n
      OBVIOUS
    <3>1. /\ m \in 1..Len(idequeue) - 1 /\ n \in 1..Len(idequeue) - 1
          /\ m + 1 \in DOMAIN idequeue /\ n + 1 \in DOMAIN idequeue
      BY <1>1, <1>3
    <3>2. idequeue'[m] = idequeue[m + 1] /\ idequeue'[n] = idequeue[n + 1]
      BY <1>1, <1>3, <3>1
    <3>3. m + 1 = n + 1
      BY <1>2, <3>1, <3>2 DEF Queue
    <3> QED
      BY <1>3, <3>1, <3>3
  <2>4. drive' = "idle" <=> idequeue' = <<>>
    <3>1. CASE Len(idequeue) > 1
      <4>0. Len(idequeue') # 0
        <5>1. Len(idequeue') = Len(Tail(idequeue))
          BY <1>1
        <5>2. Len(Tail(idequeue)) = Len(idequeue) - 1
          BY <1>3
        <5>3. Len(idequeue) - 1 # 0
          BY <1>3, <3>1
        <5> QED
          BY <5>1, <5>2, <5>3
      <4>1. idequeue' # <<>>
        BY <4>0
      <4> QED
        BY <1>1, <3>1, <4>1
    <3>2. CASE ~(Len(idequeue) > 1)
      <4>1. Len(idequeue') = 0 /\ idequeue' \in Seq(Bufs)
        BY <1>1, <1>3, <3>2
      <4>2. idequeue' = <<>>
        BY <4>1
      <4> QED
        BY <1>1, <3>2, <4>2
    <3> QED
      BY <3>1, <3>2
  <2> QED
    BY <2>2, <2>3, <2>4 DEF Queue
<1>9. Filled'
  <2> SUFFICES ASSUME NEW j \in Bufs
               PROVE  /\ buf'[j].dirty => buf'[j].valid
                      /\ buf'[j].lock # NoProc /\ ~buf'[j].valid => Busy(j)'
    BY DEF Filled
  <2>1. /\ buf[j].dirty => buf[j].valid
        /\ buf[j].lock # NoProc /\ ~buf[j].valid => Busy(j)
    BY DEF BufInv, Filled
  <2>2. j # i /\ Busy(j) => Busy(j)'
    BY <1>1 DEF Busy, Changed
  <2> QED
    BY <1>1, <2>1, <2>2 DEF Changed
<1>10. HeldSame
  <2>1. \A q \in Procs : Held(q)' = Held(q)
    BY <1>1 DEF Held, Changed, SameUse
  <2>2. \A j \in Bufs : buf'[j].block = buf[j].block
    BY <1>1 DEF Changed
  <2> QED
    BY <2>1, <2>2 DEF HeldSame, HeldBlocks, Held
<1> QED
  BY <1>4, <1>5, <1>6, <1>7, <1>8, <1>9, <1>10 DEF BufInv

LEMMA IoWaitKeeps ==
  ASSUME BufInv, NEW p \in Procs, IoWait(p)
  PROVE  BufInv' /\ HeldSame
<1>0. PICK i \in Bufs : i = io[p].buf
  BY CallerHas DEF IoWait, Doing
<1>1. /\ io[p].at = "wait" /\ io[p].buf = i /\ buf[i].lock = p
      /\ BufTypeOK /\ buf \in [Bufs -> BufRec] /\ io \in [Procs -> IoRec]
  BY <1>0, CallerHas DEF IoWait, Doing, BufInv, Callers
<1>2. CASE ~(buf[i].valid /\ ~buf[i].dirty)
  <2>1. asleep' \in [Procs -> Channels] /\ panic' \in BOOLEAN
    BY <1>0, <1>1, <1>2, ChannelsAre, SleepTyped, TypeIs DEF IoWait
  <2> QED
    BY <1>0, <1>2, <2>1, OutsideKeeps DEF IoWait
<1>3. CASE buf[i].valid /\ ~buf[i].dirty
  <2>1. /\ Then(p, "none", 0)
        /\ UNCHANGED <<asleep, buf, mru, idequeue, drive, disk, panic>>
    BY <1>0, <1>3 DEF IoWait
  <2>2. /\ io' \in [Procs -> IoRec] /\ io'[p].at = "none" /\ io'[p].buf = 0
        /\ \A q \in Procs \ {p} : io'[q] = io[q]
    BY <1>1, <2>1, SetIo DEF Then
  <2>3. BufTypeOK'
    BY <1>1, <2>1, <2>2, TypeIs, TypeIsNext
  <2>4. OneBufferPerBlock' /\ Named'
    BY <2>1 DEF BufInv, OneBufferPerBlock, Named
  <2>5. CountsRefs'
    <3>1. ASSUME NEW q \in Procs, NEW j \in Bufs
          PROVE  RefersTo(q, j)' = RefersTo(q, j)
      <4>1. CASE q = p
        BY <1>1, <2>2, <4>1 DEF RefersTo
      <4>2. CASE q # p
        BY <2>2, <4>2 DEF RefersTo
      <4> QED
        BY <4>1, <4>2
    <3> QED
      BY <2>1, <3>1, CountsSame
  <2>6. Callers'
    <3> SUFFICES ASSUME NEW q \in Procs
                 PROVE  /\ io'[q].at = "none" <=> io'[q].buf = 0
                        /\ io'[q].at \in {"rw", "wait"} => buf'[io'[q].buf].lock = q
                        /\ io'[q].at = "rw" => ~buf'[io'[q].buf].valid \/ buf'[io'[q].buf].dirty
      BY DEF Callers
    <3>1. CASE q = p
      BY <2>2, <3>1
    <3>2. CASE q # p
      BY <2>1, <2>2, <3>2 DEF BufInv, Callers
    <3> QED
      BY <3>1, <3>2
  <2>7. Queue'
    <3>1. ASSUME NEW j \in Bufs, Queued(j) PROVE Queued(j)'
      <4>1. buf[j].lock # p
        BY <1>1, <1>3, <3>1 DEF Queued
      <4> QED
        BY <2>1, <2>2, <3>1, <4>1 DEF Queued
    <3>2. \A n \in DOMAIN idequeue : idequeue[n] \in Bufs
      BY <1>1, TypeIs
    <3>3. Queue /\ idequeue' = idequeue /\ drive' = drive
      BY <2>1 DEF BufInv
    <3> QED
      BY <3>1, <3>2, <3>3 DEF Queue
  <2>8. Filled'
    <3> SUFFICES ASSUME NEW j \in Bufs
                 PROVE  /\ buf'[j].dirty => buf'[j].valid
                        /\ buf'[j].lock # NoProc /\ ~buf'[j].valid => Busy(j)'
      BY DEF Filled
    <3>1. /\ buf[j].dirty => buf[j].valid
          /\ buf[j].lock # NoProc /\ ~buf[j].valid => Busy(j)
      BY DEF BufInv, Filled
    <3>2. j # i /\ Busy(j) => Busy(j)'
      BY <1>1, <2>1, <2>2 DEF Busy
    <3> QED
      BY <1>3, <2>1, <3>1, <3>2
  <2>9. HeldSame
    <3>1. ASSUME NEW q \in Procs, NEW j \in Bufs
          PROVE  (j \in Held(q)') <=> (j \in Held(q))
      <4>1. CASE q = p
        BY <1>1, <2>1, <2>2, <4>1 DEF Held
      <4>2. CASE q # p
        BY <2>1, <2>2, <4>2 DEF Held
      <4> QED
        BY <4>1, <4>2
    <3>2. \A q \in Procs : Held(q)' = Held(q)
      BY <3>1 DEF Held
    <3> QED
      BY <2>1, <3>2 DEF HeldSame, HeldBlocks
  <2> QED
    BY <2>3, <2>4, <2>5, <2>6, <2>7, <2>8, <2>9 DEF BufInv
<1> QED
  BY <1>2, <1>3

LEMMA releasesleepKeeps ==
  ASSUME BufInv, NEW p \in Procs, NEW i \in Bufs, buf[i].lock = p, releasesleep(p, i)
  PROVE  BufInv' /\ Drops(p, buf[i].block)
<1>1. /\ io[p].at = "none" /\ io[p].buf = 0
      /\ BufTypeOK /\ buf \in [Bufs -> BufRec] /\ io \in [Procs -> IoRec]
      /\ buf' = [buf EXCEPT ![i].lock = NoProc]
      /\ asleep' = Wakeup(LockChan(i)) /\ Then(p, "unref", i)
      /\ UNCHANGED <<mru, idequeue, drive, disk, panic>>
  BY CallerHas DEF releasesleep, Ready
<1>2. /\ buf[i].valid /\ ~Queued(i) /\ ~Busy(i) /\ buf[i].block # NoBlock
      /\ ~RefersTo(p, i)
  BY <1>1, OwnerHas
<1>3. /\ Changed(i) /\ SameData(i)
      /\ buf'[i].refcnt = buf[i].refcnt /\ buf'[i].lock = NoProc
  BY <1>1, SetLock
<1>4. /\ io' \in [Procs -> IoRec]
      /\ io'[p].at = "unref" /\ io'[p].buf = i
      /\ \A q \in Procs \ {p} : io'[q] = io[q]
  BY <1>1, SetIo DEF Then
<1>5. BufTypeOK'
  BY <1>1, <1>3, <1>4, WakeupTyped, TypeIs, TypeIsNext DEF Changed
<1>6. OneBufferPerBlock' /\ Named'
  BY <1>2, <1>3 DEF BufInv, OneBufferPerBlock, Named, Changed, SameData, SameFill
<1>7. CountsRefs'
  <2>1. RefersTo(p, i)'
    BY <1>4 DEF RefersTo
  <2>2. \A j \in Bufs \ {i} : RefersTo(p, j)' = RefersTo(p, j)
    BY <1>1, <1>4, BufNumbers DEF RefersTo
  <2>3. One(RefersTo(p, i)) = 0 /\ One(RefersTo(p, i)') = 1 /\ One(buf[i].lock = p) = 1
        /\ One(buf'[i].lock = p) = 0
    BY <1>2, <2>1, <1>3, BufNumbers DEF One
  <2>4. buf[i].refcnt \in Int /\ buf'[i].refcnt \in Int
    BY <1>1, <1>3 DEF BufRec
  <2>5. buf'[i].refcnt + One(buf[i].lock = p) + One(RefersTo(p, i))
           = buf[i].refcnt + One(buf'[i].lock = p) + One(RefersTo(p, i)')
    BY <2>3, <2>4, <1>3
  <2>6. \A q \in Procs \ {p} : buf'[i].lock # q /\ buf[i].lock # q
    BY <1>3, BufNumbers
  <2>7. \A q \in Procs \ {p} : io'[q] = io[q]
    BY <1>4
  <2>8. \A j \in Bufs \ {i} : buf'[j] = buf[j]
    BY <1>3 DEF Changed
  <2> QED
    BY <2>2, <2>4, <2>5, <2>6, <2>7, <2>8, CountsStep
<1>8. Callers'
  <2> SUFFICES ASSUME NEW q \in Procs
               PROVE  /\ io'[q].at = "none" <=> io'[q].buf = 0
                      /\ io'[q].at \in {"rw", "wait"} => buf'[io'[q].buf].lock = q
                      /\ io'[q].at = "rw" => ~buf'[io'[q].buf].valid \/ buf'[io'[q].buf].dirty
    BY DEF Callers
  <2>1. CASE q = p
    BY <1>4, <2>1, BufNumbers
  <2>2. CASE q # p
    <3>1. io'[q] = io[q] /\ (io[q].at \in {"rw", "wait"} => io[q].buf \in Bufs /\ io[q].buf # i)
      BY <1>4, <2>2, CallerHas DEF BufInv, Callers
    <3> QED
      BY <1>3, <3>1 DEF BufInv, Callers, Changed
  <2> QED
    BY <2>1, <2>2
<1>9. Queue'
  <2>1. ASSUME NEW j \in Bufs, Queued(j) PROVE Queued(j)'
    <3>1. j # i /\ buf[j].lock # p
      BY <1>1, <1>2, <2>1 DEF Queued
    <3> QED
      BY <1>3, <1>4, <2>1, <3>1 DEF Queued, Changed
  <2>2. \A n \in DOMAIN idequeue : idequeue[n] \in Bufs
    BY <1>1, TypeIs
  <2>3. Queue /\ idequeue' = idequeue /\ drive' = drive
    BY <1>1 DEF BufInv
  <2> QED
    BY <2>1, <2>2, <2>3 DEF Queue
<1>10. Filled'
  <2> SUFFICES ASSUME NEW j \in Bufs
               PROVE  /\ buf'[j].dirty => buf'[j].valid
                      /\ buf'[j].lock # NoProc /\ ~buf'[j].valid => Busy(j)'
    BY DEF Filled
  <2>1. /\ buf[j].dirty => buf[j].valid
        /\ buf[j].lock # NoProc /\ ~buf[j].valid => Busy(j)
    BY DEF BufInv, Filled
  <2>2. j # i /\ Busy(j) => Busy(j)'
    BY <1>1, <1>3, <1>4 DEF Busy, Changed
  <2> QED
    BY <1>2, <1>3, <2>1, <2>2 DEF Changed, SameData, SameFill
<1>11. Drops(p, buf[i].block)
  <2>1. ASSUME NEW q \in Procs, NEW j \in Bufs
        PROVE  (j \in Held(q)') <=> (j \in Held(q) /\ ~(q = p /\ j = i))
    <3>1. CASE j = i
      BY <1>1, <1>3, <1>4, <3>1, BufNumbers DEF Held
    <3>2. CASE j # i
      <4>1. buf'[j].lock = buf[j].lock
        BY <1>3, <3>2 DEF Changed
      <4>2. CASE q = p
        BY <1>1, <1>4, <3>2, <4>1, <4>2 DEF Held
      <4>3. CASE q # p
        BY <1>4, <3>2, <4>1, <4>3 DEF Held
      <4> QED
        BY <4>2, <4>3
    <3> QED
      BY <3>1, <3>2
  <2>2. Held(p)' = Held(p) \ {i} /\ \A q \in Procs \ {p} : Held(q)' = Held(q)
    BY <2>1 DEF Held
  <2>3. \A j \in Bufs : buf'[j].block = buf[j].block
    BY <1>3 DEF Changed, SameData, SameFill
  <2>4. i \in Held(p) /\ \A j \in Held(p) \ {i} : buf[j].block # buf[i].block
    BY <1>2 DEF Held, BufInv, OneBufferPerBlock
  <2>5. \A q \in Procs : Held(q) \subseteq Bufs
    BY DEF Held
  <2>6. HeldBlocks(p)' = {buf[j].block : j \in Held(p) \ {i}}
    BY <2>2, <2>3, <2>5 DEF HeldBlocks
  <2>7. HeldBlocks(p)' = HeldBlocks(p) \ {buf[i].block}
    BY <2>4, <2>6 DEF HeldBlocks
  <2>8. \A q \in Procs \ {p} : HeldBlocks(q)' = HeldBlocks(q)
    BY <2>2, <2>3, <2>5 DEF HeldBlocks
  <2> QED
    BY <2>7, <2>8 DEF Drops
<1> QED
  BY <1>5, <1>6, <1>7, <1>8, <1>9, <1>10, <1>11 DEF BufInv

\* The list stays a list of all buffers.
LEMMA MoveFrontKeeps ==
  ASSUME mru \in [Bufs -> Bufs], ToSet(mru) = Bufs, NEW i \in Bufs
  PROVE  MoveFront(i) \in [Bufs -> Bufs] /\ ToSet(MoveFront(i)) = Bufs
<1> DEFINE place == CHOOSE n \in Bufs : mru[n] = i
           new == [n \in Bufs |-> IF n = 1 THEN i
                                  ELSE IF n <= place THEN mru[n - 1] ELSE mru[n]]
<1>1. /\ Bufs = 1..NBUF /\ NBUF \in Nat \ {0} /\ 1 \in Bufs
  BY BufNumbers DEF Bufs
<1>2. \A j \in Bufs : \E n \in Bufs : mru[n] = j
  BY DEF ToSet
<1>3. place \in Bufs /\ mru[place] = i
  BY <1>2
<1>4. MoveFront(i) = new
  BY DEF MoveFront
<1> HIDE DEF place
<1>5. \A n \in Bufs : n <= place /\ n # 1 => n - 1 \in Bufs
  BY <1>1, <1>3
<1>6. new \in [Bufs -> Bufs]
  BY <1>5
<1>7. ASSUME NEW j \in Bufs
      PROVE  \E n \in Bufs : new[n] = j
  <2>1. PICK n \in Bufs : mru[n] = j
    BY <1>2
  <2>2. CASE n = place
    BY <1>1, <1>3, <2>1, <2>2
  <2>3. CASE n < place
    <3>1. PICK k \in Bufs : k # 1 /\ k <= place /\ k - 1 = n
      <4>1. n + 1 \in Bufs /\ n + 1 # 1 /\ n + 1 <= place /\ (n + 1) - 1 = n
        BY <1>1, <1>3, <2>3
      <4> QED
        BY <4>1
    <3>2. new[k] = mru[k - 1]
      BY <3>1
    <3> QED
      BY <2>1, <3>1, <3>2
  <2>4. CASE n > place
    <3>1. n # 1 /\ ~(n <= place)
      BY <1>1, <1>3, <2>4
    <3>2. new[n] = mru[n]
      BY <3>1
    <3> QED
      BY <2>1, <3>2
  <2> QED
    BY <1>1, <1>3, <2>2, <2>3, <2>4
<1>8. ToSet(new) = Bufs
  <2>1. ToSet(new) = {new[n] : n \in Bufs}
    BY DEF ToSet
  <2> HIDE DEF new
  <2> QED
    BY <1>6, <1>7, <2>1
<1> QED
  BY <1>4, <1>6, <1>8

LEMMA brelseKeeps ==
  ASSUME BufInv, NEW p \in Procs, brelse(p)
  PROVE  BufInv' /\ HeldSame
<1>0. PICK i \in Bufs : i = io[p].buf
  BY CallerHas DEF brelse, Doing
<1>1. /\ io[p].at = "unref" /\ io[p].buf = i /\ RefersTo(p, i)
      /\ BufTypeOK /\ buf \in [Bufs -> BufRec] /\ io \in [Procs -> IoRec]
  BY <1>0, CallerHas DEF brelse, Doing, RefersTo
<1>2. buf[i].refcnt \in Nat \ {0} /\ buf[i].refcnt - 1 \in Nat
  <2>1. buf[i].refcnt # 0
    BY <1>1, FreeIsFree
  <2> QED
    BY <1>1, <2>1 DEF BufRec
<1>3. /\ buf' = [buf EXCEPT ![i].refcnt = buf[i].refcnt - 1]
      /\ mru' = IF buf[i].refcnt = 1 THEN MoveFront(i) ELSE mru
      /\ Then(p, "none", 0)
      /\ UNCHANGED <<idequeue, drive, disk, asleep, panic>>
  BY <1>0, <1>1 DEF brelse
<1>4. /\ Changed(i) /\ SameData(i)
      /\ buf'[i].refcnt = buf[i].refcnt - 1 /\ buf'[i].lock = buf[i].lock
  BY <1>1, <1>2, <1>3, SetRef
<1>5. /\ io' \in [Procs -> IoRec] /\ io'[p].at = "none" /\ io'[p].buf = 0
      /\ \A q \in Procs \ {p} : io'[q] = io[q]
  BY <1>1, <1>3, SetIo DEF Then
<1>6. BufTypeOK'
  <2>1. mru' \in [Bufs -> Bufs] /\ ToSet(mru') = Bufs
    BY <1>1, <1>3, MoveFrontKeeps, TypeIs
  <2> QED
    BY <1>1, <1>3, <1>4, <1>5, <2>1, TypeIs, TypeIsNext DEF Changed
<1>7. OneBufferPerBlock' /\ Named'
  <2>1. buf[i].block # NoBlock
    BY <1>2 DEF BufInv, Named, EmptyBuf
  <2> QED
    BY <1>4, <2>1 DEF BufInv, OneBufferPerBlock, Named, Changed, SameData, SameFill
<1>8. CountsRefs'
  <2>1. ~RefersTo(p, i)'
    BY <1>5 DEF RefersTo
  <2>2. \A j \in Bufs \ {i} : RefersTo(p, j)' = RefersTo(p, j)
    BY <1>1, <1>5 DEF RefersTo
  <2>3. One(RefersTo(p, i)) = 1 /\ One(RefersTo(p, i)') = 0 /\ One(buf[i].lock = p) \in Int
        /\ One(buf'[i].lock = p) = One(buf[i].lock = p)
    BY <1>1, <2>1, <1>4 DEF One
  <2>4. buf[i].refcnt \in Int /\ buf'[i].refcnt \in Int
    BY <1>2, <1>4
  <2>5. buf'[i].refcnt + One(buf[i].lock = p) + One(RefersTo(p, i))
           = buf[i].refcnt + One(buf'[i].lock = p) + One(RefersTo(p, i)')
    BY <2>3, <2>4, <1>4
  <2>6. /\ \A j \in Bufs \ {i} : buf'[j] = buf[j] /\ RefersTo(p, j)' = RefersTo(p, j)
        /\ \A q \in Procs \ {p} : (buf'[i].lock = q <=> buf[i].lock = q) /\ io'[q] = io[q]
    BY <1>4, <1>5, <2>2 DEF Changed
  <2> QED
    BY <2>4, <2>5, <2>6, CountsStep
<1>9. Callers'
  <2> SUFFICES ASSUME NEW q \in Procs
               PROVE  /\ io'[q].at = "none" <=> io'[q].buf = 0
                      /\ io'[q].at \in {"rw", "wait"} => buf'[io'[q].buf].lock = q
                      /\ io'[q].at = "rw" => ~buf'[io'[q].buf].valid \/ buf'[io'[q].buf].dirty
    BY DEF Callers
  <2>1. CASE q = p
    BY <1>5, <2>1
  <2>2. CASE q # p
    <3>1. io'[q] = io[q] /\ (io[q].at \in {"rw", "wait"} => io[q].buf \in Bufs)
      BY <1>5, <2>2, CallerHas
    <3> QED
      BY <1>4, <3>1 DEF BufInv, Callers, Changed, SameData, SameFill
  <2> QED
    BY <2>1, <2>2
<1>10. Queue'
  <2>1. ASSUME NEW j \in Bufs, Queued(j) PROVE Queued(j)'
    <3>1. buf[j].lock # p
      BY <1>1, <2>1 DEF Queued
    <3> QED
      BY <1>4, <1>5, <2>1, <3>1 DEF Queued, Changed, SameData, SameFill
  <2>2. \A n \in DOMAIN idequeue : idequeue[n] \in Bufs
    BY <1>1, TypeIs
  <2>3. Queue /\ idequeue' = idequeue /\ drive' = drive
    BY <1>3 DEF BufInv
  <2> QED
    BY <2>1, <2>2, <2>3 DEF Queue
<1>11. Filled'
  <2> SUFFICES ASSUME NEW j \in Bufs
               PROVE  /\ buf'[j].dirty => buf'[j].valid
                      /\ buf'[j].lock # NoProc /\ ~buf'[j].valid => Busy(j)'
    BY DEF Filled
  <2>1. /\ buf[j].dirty => buf[j].valid
        /\ buf[j].lock # NoProc /\ ~buf[j].valid => Busy(j)
    BY DEF BufInv, Filled
  <2>2. Busy(j) => Busy(j)'
    BY <1>1, <1>4, <1>5 DEF Busy, Changed
  <2> QED
    BY <1>4, <2>1, <2>2 DEF Changed, SameData, SameFill
<1>12. HeldSame
  <2>0. \A j \in Bufs : buf'[j].lock = buf[j].lock /\ buf'[j].block = buf[j].block
    BY <1>4 DEF Changed, SameData, SameFill
  <2>1. ASSUME NEW q \in Procs, NEW j \in Bufs
        PROVE  (j \in Held(q)') <=> (j \in Held(q))
    <3>1. CASE q = p
      BY <1>1, <1>5, <2>0, <3>1 DEF Held
    <3>2. CASE q # p
      BY <1>5, <2>0, <3>2 DEF Held
    <3> QED
      BY <3>1, <3>2
  <2>2. \A q \in Procs : Held(q)' = Held(q)
    BY <2>1 DEF Held
  <2> QED
    BY <2>0, <2>2 DEF HeldSame, HeldBlocks, Held
<1> QED
  BY <1>6, <1>7, <1>8, <1>9, <1>10, <1>11, <1>12 DEF BufInv
-----------------------------------------------------------------------------
\* binit(), and the machine starting again.
LEMMA BootList ==
  LET list == [i \in Bufs |-> NBUF + 1 - i]
  IN  list \in [Bufs -> Bufs] /\ ToSet(list) = Bufs
<1> DEFINE list == [i \in Bufs |-> NBUF + 1 - i]
<1>1. /\ Bufs = 1..NBUF /\ NBUF \in Nat \ {0}
  BY BufNumbers DEF Bufs
<1>2. \A i \in Bufs : NBUF + 1 - i \in Bufs /\ NBUF + 1 - (NBUF + 1 - i) = i
  BY <1>1
<1>3. list \in [Bufs -> Bufs]
  BY <1>2
<1>4. \A j \in Bufs : \E n \in Bufs : list[n] = j
  BY <1>2
<1>5. ToSet(list) = {list[n] : n \in Bufs}
  BY DEF ToSet
<1> HIDE DEF list
<1>6. ToSet(list) = Bufs
  BY <1>3, <1>4, <1>5
<1> QED
  BY <1>3, <1>6 DEF list

LEMMA NobodyYet ==
  /\ Cardinality({}) = 0
  /\ \A p \in Procs : NoProc # p /\ Idle.at = "none" /\ Idle.buf = 0
  /\ EmptyBuf.lock = NoProc /\ EmptyBuf.refcnt = 0 /\ EmptyBuf.block = NoBlock
  /\ EmptyBuf.valid = FALSE /\ EmptyBuf.dirty = FALSE
  /\ Idle \in IoRec
BY BufNumbers, FS_EmptySet DEF Idle, EmptyBuf, IoRec

LEMMA BootHolds ==
  ASSUME BufBoot, disk \in [Blocks -> Content]
  PROVE  BufInv /\ \A p \in Procs : HeldBlocks(p) = {}
<1>1. /\ \A i \in Bufs : buf[i] = EmptyBuf
      /\ \A p \in Procs : io[p] = Idle
      /\ idequeue = <<>> /\ drive = "idle"
  BY DEF BufBoot
<1>2. BufTypeOK
  <2>1. mru \in [Bufs -> Bufs] /\ ToSet(mru) = Bufs
    BY BootList DEF BufBoot
  <2>2. buf \in [Bufs -> BufRec] /\ io \in [Procs -> IoRec] /\ asleep \in [Procs -> Channels]
    BY EmptyRec, NobodyYet, ChannelsAre DEF BufBoot
  <2>3. /\ idequeue \in Seq(Bufs) /\ drive \in {"idle", "busy", "done"}
    BY <1>1
  <2>4. panic \in BOOLEAN
    BY DEF BufBoot
  <2> QED
    BY <2>1, <2>2, <2>3, <2>4, TypeIs
<1>3. OneBufferPerBlock /\ Named /\ Callers
  BY <1>1, NobodyYet DEF OneBufferPerBlock, Named, Callers
<1>4. CountsRefs
  <2>1. ASSUME NEW i \in Bufs PROVE Lockers(i) = {} /\ Referrers(i) = {}
    BY <1>1, NobodyYet DEF Lockers, Referrers, RefersTo
  <2>2. \A i \in Bufs : buf[i].refcnt = 0
    BY <1>1, NobodyYet
  <2> QED
    BY <2>1, <2>2, NobodyYet, CountsAre
<1>5. Queue
  <2>1. DOMAIN idequeue = {}
    BY <1>1
  <2> QED
    BY <1>1, <2>1 DEF Queue
<1>6. Filled
  BY <1>1, NobodyYet DEF Filled
<1>7. ASSUME NEW p \in Procs PROVE HeldBlocks(p) = {}
  <2>1. Held(p) = {}
    BY <1>1, NobodyYet DEF Held
  <2> QED
    BY <2>1 DEF HeldBlocks
<1> QED
  BY <1>2, <1>3, <1>4, <1>5, <1>6, <1>7 DEF BufInv

LEMMA ResetHolds ==
  ASSUME BufReset, disk \in [Blocks -> Content]
  PROVE  BufInv' /\ \A p \in Procs : HeldBlocks(p)' = {}
<1>1. /\ \A i \in Bufs : buf'[i] = EmptyBuf
      /\ \A p \in Procs : io'[p] = Idle
      /\ idequeue' = <<>> /\ drive' = "idle"
  BY DEF BufReset
<1>2. BufTypeOK'
  <2>1. mru' \in [Bufs -> Bufs] /\ ToSet(mru') = Bufs
    BY BootList DEF BufReset
  <2>2. buf' \in [Bufs -> BufRec] /\ io' \in [Procs -> IoRec] /\ asleep' \in [Procs -> Channels]
    BY EmptyRec, NobodyYet, ChannelsAre DEF BufReset
  <2>3. /\ idequeue' \in Seq(Bufs) /\ drive' \in {"idle", "busy", "done"}
    BY <1>1
  <2>4. panic' \in BOOLEAN
    BY DEF BufReset
  <2>5. disk' \in [Blocks -> Content]
    BY DEF BufReset
  <2> QED
    BY <2>1, <2>2, <2>3, <2>4, <2>5, TypeIsNext
<1>3. OneBufferPerBlock' /\ Named' /\ Callers'
  BY <1>1, NobodyYet DEF OneBufferPerBlock, Named, Callers
<1>4. CountsRefs'
  <2>1. ASSUME NEW i \in Bufs PROVE Lockers(i)' = {} /\ Referrers(i)' = {}
    BY <1>1, NobodyYet DEF Lockers, Referrers, RefersTo
  <2>2. \A i \in Bufs : buf'[i].refcnt = 0
    BY <1>1, NobodyYet
  <2>3. ASSUME NEW i \in Bufs
        PROVE  buf'[i].refcnt = Cardinality(Lockers(i)') + Cardinality(Referrers(i)')
    <3>1. Cardinality(Lockers(i)') = 0
      BY <2>1, NobodyYet
    <3>2. Cardinality(Referrers(i)') = 0
      BY <2>1, NobodyYet
    <3> QED
      BY <2>2, <3>1, <3>2
  <2> QED
    BY <2>3, CountsAre
<1>5. Queue'
  <2>1. DOMAIN idequeue' = {}
    BY <1>1
  <2> QED
    BY <1>1, <2>1 DEF Queue
<1>6. Filled'
  BY <1>1, NobodyYet DEF Filled
<1>7. ASSUME NEW p \in Procs PROVE HeldBlocks(p)' = {}
  <2>1. Held(p)' = {}
    BY <1>1, NobodyYet DEF Held
  <2> QED
    BY <2>1 DEF HeldBlocks
<1> QED
  BY <1>2, <1>3, <1>4, <1>5, <1>6, <1>7 DEF BufInv

\* What goes on inside a call, and in the hardware.
LEMMA InsideKeeps ==
  ASSUME BufInv,
         Hardware \/ \E p \in Procs : CallStep(p) \/ Rouse(p)
  PROVE  BufInv' /\ HeldSame
BY acquiresleepKeeps, iderwKeeps, IoWaitKeeps, brelseKeeps, RouseKeeps, TransferKeeps,
   ideintrKeeps DEF Hardware, CallStep
-----------------------------------------------------------------------------
(***************************************************************************)
(* What an operation leaves in the buffers.                                *)
(***************************************************************************)
DataSame == \A j \in Bufs : SameData(j)
\* Buffer i was clean and nobody's; it is for another block now.
Evicted(i) ==
  /\ buf[i].refcnt = 0 /\ ~buf[i].dirty /\ buf[i].lock = NoProc
  /\ buf'[i].valid = FALSE /\ buf'[i].dirty = FALSE /\ buf'[i].lock = NoProc

LEMMA DataOfChange ==
  ASSUME NEW i \in Bufs, Changed(i), SameData(i)
  PROVE  DataSame
BY DEF DataSame, Changed, SameData, SameFill

LEMMA CallsKeepData ==
  ASSUME BufInv, NEW p \in Procs, CallStep(p) \/ Rouse(p)
  PROVE  DataSame /\ UNCHANGED <<disk, panic>>
<1>1. CASE acquiresleep(p)
  <2>1. PICK i \in Bufs : i = io[p].buf
    BY <1>1, CallerHas DEF acquiresleep, Doing
  <2>2. CASE buf[i].lock # NoProc
    BY <1>1, <2>1, <2>2 DEF acquiresleep, DataSame, SameData, SameFill
  <2>3. CASE buf[i].lock = NoProc
    <3>1. buf' = [buf EXCEPT ![i].lock = p] /\ UNCHANGED <<disk, panic>>
      BY <1>1, <2>1, <2>3 DEF acquiresleep
    <3>2. Changed(i) /\ SameData(i)
      BY <3>1, SetLock, CallerHas
    <3> QED
      BY <3>1, <3>2, DataOfChange
  <2> QED
    BY <2>2, <2>3
<1>2. CASE iderw(p)
  BY <1>2, iderwKeeps DEF DataSame, SameData, SameFill
<1>3. CASE IoWait(p)
  BY <1>3 DEF IoWait, DataSame, SameData, SameFill
<1>4. CASE brelse(p)
  <2>1. PICK i \in Bufs : i = io[p].buf
    BY <1>4, CallerHas DEF brelse, Doing
  <2>2. buf[i].refcnt - 1 \in Nat
    <3>1. RefersTo(p, i)
      BY <1>4, <2>1 DEF brelse, Doing, RefersTo
    <3>2. buf[i].refcnt # 0 /\ buf[i].refcnt \in Nat
      BY <3>1, FreeIsFree, CallerHas DEF BufRec
    <3> QED
      BY <3>2
  <2>3. buf' = [buf EXCEPT ![i].refcnt = buf[i].refcnt - 1] /\ UNCHANGED <<disk, panic>>
    BY <1>4, <2>1 DEF brelse
  <2>4. Changed(i) /\ SameData(i)
    BY <2>2, <2>3, SetRef, CallerHas
  <2> QED
    BY <2>3, <2>4, DataOfChange
<1>5. CASE Rouse(p)
  BY <1>5 DEF Rouse, DataSame, SameData, SameFill
<1> QED
  BY <1>1, <1>2, <1>3, <1>4, <1>5 DEF CallStep

LEMMA ReleaseKeepsData ==
  ASSUME BufInv, NEW p \in Procs, NEW i \in Bufs, releasesleep(p, i)
  PROVE  DataSame /\ UNCHANGED <<disk, panic>> /\ ~panic
<1>1. buf' = [buf EXCEPT ![i].lock = NoProc] /\ UNCHANGED <<disk, panic>> /\ ~panic
  BY DEF releasesleep, Ready
<1>2. Changed(i) /\ SameData(i)
  BY <1>1, SetLock, CallerHas
<1> QED
  BY <1>1, <1>2, DataOfChange

LEMMA GotData ==
  ASSUME BufInv, NEW p \in Procs, NEW blk \in Blocks, NEW i \in Bufs, Got(p, blk, i)
  PROVE  /\ Changed(i) /\ buf'[i].block = blk
         /\ SameData(i) \/ (Evicted(i) /\ \A j \in Bufs : buf[j].block # blk)
         /\ io'[p].at = "lock"
<1>1. buf \in [Bufs -> BufRec] /\ io \in [Procs -> IoRec]
  BY CallerHas
<1>2. io'[p].at = "lock"
  BY <1>1 DEF Got
<1>3. CASE Hit(p, blk, i)
  <2>1. buf[i].refcnt + 1 \in Nat /\ buf' = [buf EXCEPT ![i].refcnt = buf[i].refcnt + 1]
    BY <1>1, <1>3 DEF Hit, BufRec
  <2>2. Changed(i) /\ SameData(i)
    BY <1>1, <2>1, SetRef
  <2> QED
    BY <1>2, <1>3, <2>2 DEF Hit, SameData, SameFill
<1>4. CASE Recycle(p, blk, i)
  <2>1. NewBuf(blk) \in BufRec /\ buf' = [buf EXCEPT ![i] = NewBuf(blk)]
    BY <1>4 DEF NewBuf, BufRec, Content, Recycle
  <2>2. Changed(i) /\ buf'[i] = NewBuf(blk)
    BY <1>1, <2>1 DEF Changed
  <2> QED
    BY <1>2, <1>4, <2>2 DEF Recycle, NewBuf, Evicted
<1> QED
  BY <1>2, <1>3, <1>4 DEF Got

-----------------------------------------------------------------------------
(***************************************************************************)
(* The log over that layer.                                                *)
(***************************************************************************)

JobRec ==
  [stage : Stages, tail : Nat,
   at : {"", "log", "home", "copy", "source", "target", "head", "fill"}]
LogTyped ==
  /\ lh \in Seq(Home)
  /\ outstanding \in Nat
  /\ committing \in BOOLEAN
  /\ pc \in [Procs -> PCs]
  /\ kind \in [Procs -> {"plain", "write", "wunmap", "read"}]
  /\ left \in [Procs -> 0..OPWRITES]
  /\ calls \in [Procs -> 0..CALLS]
  /\ job \in JobRec
  /\ inode \in Procs \cup {NoProc}

\* One process at most commits or recovers; the others wait for a recovery.
Works(p) == pc[p] \in {"commit", "recover"}
Workers ==
  /\ \A p, q \in Procs : Works(p) /\ Works(q) => p = q
  /\ committing <=> \E p \in Procs : pc[p] = "commit"
  /\ \A p \in Procs : pc[p] = "recover" => \A q \in Procs \ {p} : pc[q] = "down"
  /\ \A p \in Procs : pc[p] = "down" => \E q \in Procs : pc[q] = "recover"
  /\ (\A p \in Procs : ~Works(p)) => job = NoJob

\* Where that process may be.
Copies(n) ==
  [stage : {"write_log", "install_trans"}, tail : 1..n,
   at : {"log", "home", "copy", "source", "target"}]
Heads ==
  [stage : {"write_head", "clear"}, tail : {0}, at : {"head", "fill", "target"}]
Reads == [stage : {"read_head"}, tail : {0}, at : {"head", "fill"}]
Done == [stage |-> "done", tail |-> 0, at |-> ""]
\* There is a header to write when there is something to copy.
JobOK ==
  /\ job \in Copies(Len(lh)) \cup Heads \cup Reads \cup {Done}
  /\ job.stage = "write_head" => lh # <<>>
  /\ job.stage \in {"read_head", "clear", "done"} => lh = <<>>
Jobs ==
  \A p \in Procs :
    /\ Works(p) => JobOK
    /\ pc[p] = "commit" => job.stage # "read_head"
    /\ pc[p] = "recover" => job.stage \notin {"write_log", "write_head"}

\* outstanding counts the operations, and a commit waits for all of them.
Admitted ==
  /\ outstanding = Cardinality({p \in Procs : InOp(p)})
  /\ committing => outstanding = 0

\* begin_op() has reserved what the operations still owe the log.
Owes(p) == left[p] + (IF pc[p] \in {"modify", "append"} THEN 1 ELSE 0)
Owed == {x \in Procs \X (1..OPWRITES) : InOp(x[1]) /\ x[2] <= Owes(x[1])}
Fits ==
  /\ \A p \in Procs : Owes(p) <= OPWRITES
  /\ outstanding > 0 =>
       Len(lh) + Cardinality(Owed) <= LOGSIZE - (MAXOPBLOCKS - OPWRITES)

\* A list of blocks that fits in the log and names none twice.
HeaderOK(s) ==
  /\ s \in Seq(Home) /\ Len(s) <= NLOG - 1
  /\ \A m, n \in DOMAIN s : s[m] = s[n] => m = n
HeaderGood ==
  /\ HeaderOK(lh)
  /\ \A i \in Bufs : buf[i].block = Header /\ buf[i].valid => HeaderOK(buf[i].data)

\* The blocks that a process has at each step.
JobBlocks ==
  IF job.at = "home" THEN {LogBlock(job.tail)}
  ELSE IF job.at \in {"copy", "source"} THEN {LogBlock(job.tail), lh[job.tail]}
  ELSE IF job.at = "target" /\ job.stage \in {"write_log", "install_trans"} THEN {Target}
  ELSE IF job.at \in {"target", "fill"} THEN {Header}
  ELSE {}
HasOne(p) == pc[p] \in {"modify", "append", "logged", "read"}
Holds(p) ==
  IF Works(p) THEN HeldBlocks(p) = JobBlocks
  ELSE IF HasOne(p) THEN \E b \in Home : HeldBlocks(p) = {b}
  ELSE HeldBlocks(p) = {}
Holdings == \A p \in Procs : Holds(p)

\* Who waits for an inode has come from filewrite() or from do_wunmap().
Locking == \A p \in Procs : pc[p] = "ilock" => kind[p] \in {"write", "wunmap"}

Sound == Workers /\ Jobs /\ Locking /\ Admitted /\ Fits /\ HeaderGood /\ Holdings

\* After a panic nothing runs but the restart, which needs the disk only.
LogInv ==
  /\ LogTyped /\ BufInv
  /\ HeaderOK(disk[Header])
  /\ panic \/ Sound
-----------------------------------------------------------------------------
LEMMA LogNumbers ==
  /\ BootProc \in Procs /\ NHOME \in Nat /\ NLOG \in Nat \ {0}
  /\ LOGSIZE \in Nat /\ MAXOPBLOCKS \in Nat /\ OPWRITES \in Nat /\ OPWRITES <= MAXOPBLOCKS
  /\ LOGSIZE - (MAXOPBLOCKS - OPWRITES) <= NLOG - 1
  /\ Header \notin Home /\ Header \in Blocks /\ Home \subseteq Blocks /\ Home \subseteq Nat
  /\ CALLS \in Nat /\ Kinds \subseteq {"plain", "write", "wunmap", "read"}
BY LogAssumption, Reservations DEF Header, Home

LEMMA LogBlocks ==
  ASSUME NEW t \in 1..NLOG-1
  PROVE  /\ LogBlock(t) \in Blocks /\ LogBlock(t) \notin Home /\ LogBlock(t) # Header
         /\ \A s \in 1..NLOG-1 : LogBlock(s) = LogBlock(t) => s = t
BY LogAssumption DEF LogBlock, Home, Header

LEMMA TypeParts ==
  /\ TypeOK <=> LogTyped /\ BufTypeOK
  /\ TypeOK' <=> LogTyped' /\ BufTypeOK'
BY DEF TypeOK, LogTyped, JobRec

LEMMA JobParts ==
  /\ \A stage, t : CopyJob(stage, t) = [stage |-> stage, tail |-> t, at |-> "log"]
  /\ \A stage : HeadJob(stage) = [stage |-> stage, tail |-> 0, at |-> "head"]
  /\ NoJob \in JobRec /\ Done \in JobRec
  /\ NoJob = [stage |-> "none", tail |-> 0, at |-> ""]
BY DEF CopyJob, HeadJob, NoJob, Done, JobRec, Stages

\* The blocks whose buffers a process has locked, when it is in no call.
LEMMA OwnsAre ==
  ASSUME BufInv, NEW p \in Procs, io[p].at = "none"
  PROVE  /\ \A i \in Bufs : buf[i].lock = p <=> i \in Held(p)
         /\ \A i \in Bufs : buf[i].lock = p => buf[i].block \in HeldBlocks(p)
         /\ \A b \in HeldBlocks(p) :
              /\ Mine(p, b) \in Bufs
              /\ buf[Mine(p, b)].lock = p /\ buf[Mine(p, b)].block = b
              /\ buf[Mine(p, b)].valid /\ buf[Mine(p, b)].data \in Content
              /\ \A i \in Bufs : buf[i].lock = p /\ buf[i].block = b => i = Mine(p, b)
<1>1. \A i \in Bufs : buf[i].lock = p <=> i \in Held(p)
  BY DEF Held
<1>2. \A i \in Bufs : buf[i].lock = p => buf[i].block \in HeldBlocks(p)
  BY <1>1 DEF HeldBlocks
<1>3. ASSUME NEW b \in HeldBlocks(p)
      PROVE  /\ Mine(p, b) \in Bufs
             /\ buf[Mine(p, b)].lock = p /\ buf[Mine(p, b)].block = b
             /\ buf[Mine(p, b)].valid /\ buf[Mine(p, b)].data \in Content
             /\ \A i \in Bufs : buf[i].lock = p /\ buf[i].block = b => i = Mine(p, b)
  <2>1. PICK i \in Bufs : buf[i].lock = p /\ buf[i].block = b
    BY <1>1, <1>3 DEF HeldBlocks, Held
  <2>2. /\ Mine(p, b) \in Bufs
        /\ buf[Mine(p, b)].lock = p /\ buf[Mine(p, b)].block = b
    BY <2>1 DEF Mine
  <2>3. /\ buf[Mine(p, b)].valid /\ buf[Mine(p, b)].data \in Content
        /\ buf[Mine(p, b)].block # NoBlock
    BY <2>2, OwnerHas
  <2>4. \A j \in Bufs : buf[j].lock = p /\ buf[j].block = b => j = Mine(p, b)
    BY <2>2, <2>3 DEF BufInv, OneBufferPerBlock
  <2> QED
    BY <2>2, <2>3, <2>4
<1> QED
  BY <1>1, <1>2, <1>3
-----------------------------------------------------------------------------
(***************************************************************************)
(* The parts of the invariant, one by one.                                 *)
(***************************************************************************)
LEMMA HeadersKept ==
  ASSUME HeaderGood, HeaderOK(lh'),
         \A i \in Bufs :
           \/ /\ buf'[i].block = buf[i].block /\ buf'[i].valid = buf[i].valid
              /\ buf'[i].data = buf[i].data
           \/ ~(buf'[i].block = Header /\ buf'[i].valid)
           \/ HeaderOK(buf'[i].data)
  PROVE  HeaderGood'
BY DEF HeaderGood, HeaderOK

LEMMA LogStays ==
  ASSUME LogInv, ~panic, UNCHANGED logVars, HeldSame
  PROVE  /\ LogTyped' /\ Workers' /\ Jobs' /\ Locking' /\ Admitted' /\ Fits' /\ Holdings'
         /\ HeaderOK(lh')
         /\ \A p \in Procs : Works(p)' = Works(p) /\ InOp(p)' = InOp(p)
<1>1. LogTyped /\ Sound
  BY DEF LogInv
<1>2. /\ lh' = lh /\ outstanding' = outstanding /\ committing' = committing /\ pc' = pc
      /\ kind' = kind /\ left' = left /\ calls' = calls /\ job' = job /\ inode' = inode
  BY DEF logVars
<1>3. LogTyped'
  BY <1>1, <1>2 DEF LogTyped
<1>4. Workers' /\ Jobs' /\ Locking'
  BY <1>1, <1>2 DEF Sound, Workers, Jobs, JobOK, Works, Locking
<1>5. Admitted' /\ \A p \in Procs : Works(p)' = Works(p) /\ InOp(p)' = InOp(p)
  BY <1>1, <1>2 DEF Sound, Admitted, InOp, Works
<1>6. Fits'
  BY <1>1, <1>2 DEF Sound, Fits, Owed, Owes, InOp
<1>7. JobBlocks' = JobBlocks
  BY <1>2 DEF JobBlocks, Target
<1>8. \A p \in Procs : Works(p)' = Works(p) /\ HasOne(p)' = HasOne(p)
  BY <1>2 DEF Works, HasOne
<1>9. Holdings'
  <2>1. ASSUME NEW p \in Procs PROVE Holds(p)'
    <3>1. Holds(p) /\ HeldBlocks(p)' = HeldBlocks(p)
      BY <1>1 DEF Sound, Holdings, HeldSame
    <3> QED
      BY <1>7, <1>8, <3>1 DEF Holds
  <2> QED
    BY <2>1 DEF Holdings
<1>10. HeaderOK(lh')
  BY <1>1, <1>2 DEF Sound, HeaderGood
<1> QED
  BY <1>3, <1>4, <1>5, <1>6, <1>9, <1>10

\* Steps inside the calls and of the hardware.
LEMMA InsideStep ==
  ASSUME LogInv, UNCHANGED logVars,
         Hardware \/ \E p \in Procs : CallStep(p) \/ Rouse(p)
  PROVE  LogInv' /\ ~panic
<1>1. ~panic
  BY DEF Hardware, Transfer, ideintr, CallStep, acquiresleep, iderw, IoWait, brelse, Rouse, Doing
<1>2. BufInv /\ Sound /\ HeaderOK(disk[Header])
  BY <1>1 DEF LogInv
<1>3. BufInv' /\ HeldSame
  BY <1>2, InsideKeeps
<1>4. /\ LogTyped' /\ Workers' /\ Jobs' /\ Locking' /\ Admitted' /\ Fits' /\ Holdings'
      /\ HeaderOK(lh')
  BY <1>1, <1>3, LogStays
<1>5. HeaderGood' /\ HeaderOK(disk'[Header])
  <2>1. HeaderGood
    BY <1>2 DEF Sound
  <2>2. ASSUME NEW p \in Procs, CallStep(p) \/ Rouse(p)
        PROVE  HeaderGood' /\ HeaderOK(disk'[Header])
    <3>1. DataSame /\ disk' = disk
      BY <1>2, <2>2, CallsKeepData
    <3> QED
      BY <1>2, <1>4, <2>1, <3>1, HeadersKept DEF DataSame, SameData, SameFill
  <2>3. CASE Transfer
    <3>1. PICK i \in Bufs : i = Head(idequeue) /\ buf[i].block \in Blocks
      BY <1>2, <2>3, HeadIs DEF Transfer
    <3>2. /\ buf' = buf
          /\ disk' = IF buf[i].dirty THEN [disk EXCEPT ![buf[i].block] = buf[i].data] ELSE disk
      BY <2>3, <3>1 DEF Transfer
    <3>3. buf[i].dirty => buf[i].valid
      BY <1>2 DEF BufInv, Filled
    <3>4. disk \in [Blocks -> Content] /\ Header \in Blocks
      BY <1>2, LogNumbers, TypeIs DEF BufInv
    <3>5. HeaderOK(disk'[Header])
      <4>1. CASE buf[i].dirty /\ buf[i].block = Header
        <5>1. disk'[Header] = buf[i].data
          BY <3>2, <3>4, <4>1
        <5> QED
          BY <2>1, <3>3, <4>1, <5>1 DEF HeaderGood
      <4>2. CASE ~(buf[i].dirty /\ buf[i].block = Header)
        <5>1. disk'[Header] = disk[Header]
          BY <3>2, <3>4, <4>2
        <5> QED
          BY <1>2, <5>1
      <4> QED
        BY <4>1, <4>2
    <3>6. HeaderGood'
      BY <1>4, <2>1, <3>2, HeadersKept
    <3> QED
      BY <3>5, <3>6
  <2>4. CASE ideintr
    <3>1. PICK i \in Bufs : i = Head(idequeue)
      BY <1>2, <2>4, HeadIs DEF ideintr
    <3>2. /\ Changed(i) /\ buf'[i].block = buf[i].block /\ disk' = disk
          /\ buf'[i].data = IF buf[i].dirty THEN buf[i].data ELSE disk[buf[i].block]
      BY <1>2, <2>4, <3>1, ideintrDoes
    <3>3. buf[i].dirty => buf[i].valid
      BY <1>2 DEF BufInv, Filled
    <3>4. buf[i].block = Header => HeaderOK(buf'[i].data)
      BY <1>2, <2>1, <3>2, <3>3 DEF HeaderGood
    <3>5. HeaderGood'
      BY <1>4, <2>1, <3>2, <3>4, HeadersKept DEF Changed
    <3> QED
      BY <1>2, <3>2, <3>5
  <2> QED
    BY <2>2, <2>3, <2>4 DEF Hardware
<1> QED
  BY <1>1, <1>3, <1>4, <1>5 DEF LogInv, Sound
-----------------------------------------------------------------------------
(***************************************************************************)
(* A process moves; the others stay where they are.                        *)
(***************************************************************************)
Others(p) ==
  \A q \in Procs \ {p} : pc'[q] = pc[q] /\ kind'[q] = kind[q] /\ left'[q] = left[q]

LEMMA OthersAre ==
  ASSUME LogTyped, NEW p \in Procs, NEW x, NEW y, NEW z,
         pc' = [pc EXCEPT ![p] = x] \/ pc' = pc,
         kind' = [kind EXCEPT ![p] = y] \/ kind' = kind,
         left' = [left EXCEPT ![p] = z] \/ left' = left
  PROVE  Others(p)
BY DEF Others, LogTyped

LEMMA OthersSame ==
  ASSUME NEW p \in Procs, Others(p), NEW q \in Procs \ {p}
  PROVE  /\ Works(q)' = Works(q) /\ InOp(q)' = InOp(q) /\ Owes(q)' = Owes(q)
         /\ HasOne(q)' = HasOne(q)
BY DEF Others, Works, InOp, Owes, HasOne

\* Outside a commit and a recovery.
LEMMA WorkersKept ==
  ASSUME Workers, Jobs, Locking, NEW p \in Procs, Others(p), ~Works(p), ~Works(p)',
         pc[p] # "down", pc'[p] # "down", UNCHANGED <<committing, job>>,
         pc'[p] = "ilock" => kind'[p] \in {"write", "wunmap"},
         lh' = lh \/ \A q \in Procs : ~Works(q)
  PROVE  Workers' /\ Jobs' /\ Locking'
<1>1. \A q \in Procs : Works(q)' = Works(q) /\ (Works(q) => pc'[q] = pc[q])
  BY DEF Others, Works
<1>2. \A q \in Procs : pc'[q] = "down" <=> pc[q] = "down"
  BY DEF Others
<1>3. \A q \in Procs : /\ pc'[q] = "commit" <=> pc[q] = "commit"
                       /\ pc'[q] = "recover" <=> pc[q] = "recover"
  BY DEF Others, Works
<1>4. Workers'
  <2>1. \A q, r \in Procs : Works(q)' /\ Works(r)' => q = r
    BY <1>1 DEF Workers
  <2>2. committing' <=> \E q \in Procs : pc'[q] = "commit"
    BY <1>3 DEF Workers
  <2>3. \A q \in Procs : pc'[q] = "recover" => \A r \in Procs \ {q} : pc'[r] = "down"
    BY <1>2, <1>3 DEF Workers
  <2>4. \A q \in Procs : pc'[q] = "down" => \E r \in Procs : pc'[r] = "recover"
    BY <1>2, <1>3 DEF Workers
  <2>5. (\A q \in Procs : ~Works(q)') => job' = NoJob
    BY <1>1 DEF Workers
  <2> QED
    BY <2>1, <2>2, <2>3, <2>4, <2>5 DEF Workers
<1>5. Jobs'
  BY <1>1, <1>3 DEF Jobs, JobOK
<1>6. Locking'
  BY DEF Locking, Others
<1> QED
  BY <1>4, <1>5, <1>6

\* Where nobody else works, nothing is being committed.
LEMMA AloneInOp ==
  ASSUME LogTyped, Workers, Admitted, NEW p \in Procs, InOp(p)
  PROVE  /\ outstanding > 0 /\ ~committing /\ ~Works(p) /\ pc[p] # "down"
         /\ \A q \in Procs : ~Works(q)
<1>1. outstanding # 0
  <2>1. IsFiniteSet(Procs)
    BY BufNumbers
  <2>2. IsFiniteSet({q \in Procs : InOp(q)})
    BY <2>1, FS_Subset
  <2>3. p \in {q \in Procs : InOp(q)}
    OBVIOUS
  <2>4. Cardinality({q \in Procs : InOp(q)}) # 0
    BY <2>2, <2>3, FS_EmptySet
  <2> QED
    BY <2>4 DEF Admitted
<1>2. outstanding > 0 /\ ~committing
  BY <1>1 DEF Admitted, LogTyped
<1>3. ~Works(p) /\ pc[p] # "down"
  BY DEF InOp, Works
<1>4. \A q \in Procs : pc[q] # "recover"
  <2>1. ASSUME NEW q \in Procs, pc[q] = "recover" PROVE FALSE
    <3>1. q # p
      BY <1>3, <2>1 DEF Works
    <3>2. pc[p] = "down"
      BY <2>1, <3>1 DEF Workers
    <3> QED
      BY <1>3, <3>2
  <2> QED
    BY <2>1
<1>5. \A q \in Procs : pc[q] # "commit"
  BY <1>2 DEF Workers
<1> QED
  BY <1>2, <1>3, <1>4, <1>5 DEF Works

LEMMA AdmittedKept ==
  ASSUME LogTyped, Admitted, NEW p \in Procs, Others(p), outstanding' \in Int,
         outstanding' + One(InOp(p)) = outstanding + One(InOp(p)'),
         committing' => outstanding' = 0
  PROVE  Admitted'
<1> DEFINE S == {q \in Procs : InOp(q)}
<1>1. IsFiniteSet(S)
  BY BufNumbers, FS_Subset
<1>2. \A q \in Procs \ {p} : InOp(q)' = InOp(q)
  BY OthersSame
<1>3. S \ {p} = S' \ {p}
  BY <1>2
<1>4. /\ Cardinality(S) \in Nat /\ Cardinality(S') \in Nat
      /\ Cardinality(S') + One(p \in S) = Cardinality(S) + One(p \in S')
  BY <1>1, <1>3, CountChange
<1>5. One(p \in S) = One(InOp(p)) /\ One(p \in S') = One(InOp(p)')
  <2>1. (p \in S <=> InOp(p)) /\ (p \in S' <=> InOp(p)')
    OBVIOUS
  <2> QED
    BY <2>1 DEF One
<1>6. One(InOp(p)) \in Nat /\ One(InOp(p)') \in Nat
  BY DEF One
<1>7. Cardinality(S') + One(InOp(p)) = Cardinality(S) + One(InOp(p)')
  BY <1>4, <1>5
<1>8. outstanding = Cardinality(S) /\ outstanding \in Nat
  BY DEF Admitted, LogTyped
<1>9. outstanding' = Cardinality(S')
  <2> HIDE DEF S
  <2> QED
    BY <1>4, <1>6, <1>7, <1>8
<1> QED
  BY <1>9 DEF Admitted

LEMMA OwedFinite ==
  /\ IsFiniteSet(Owed) /\ Cardinality(Owed) \in Nat
  /\ Cardinality(Owed) = 0 <=> Owed = {}
<1>1. IsFiniteSet(1..OPWRITES) /\ IsFiniteSet(Procs)
  BY FS_Interval, LogNumbers, BufNumbers
<1>2. IsFiniteSet(Procs \X (1..OPWRITES))
  BY <1>1, FS_Product
<1>3. IsFiniteSet(Owed)
  BY <1>2, FS_Subset DEF Owed
<1> QED
  BY <1>3, FS_EmptySet, FS_CardinalityType

\* Nobody owes more than before, and the log is as it was.
LEMMA FitsKept ==
  ASSUME LogTyped, LogTyped', Fits, NEW p \in Procs, Others(p), lh' = lh,
         Owes(p)' <= OPWRITES,
         InOp(p)' => InOp(p) /\ Owes(p)' <= Owes(p),
         outstanding' > 0 => outstanding > 0
  PROVE  Fits'
<1>1. \A q \in Procs \ {p} : InOp(q)' = InOp(q) /\ Owes(q)' = Owes(q)
  BY OthersSame
<1>2. ASSUME NEW q \in Procs PROVE Owes(q) \in Int /\ Owes(q)' \in Int
  <2>1. left[q] \in Int /\ left'[q] \in Int
    BY LogNumbers DEF LogTyped
  <2> QED
    BY <2>1 DEF Owes
<1>3. Owed' \subseteq Owed
  <2>1. ASSUME NEW x \in Owed' PROVE x \in Owed
    <3>1. x \in Procs \X (1..OPWRITES) /\ InOp(x[1])' /\ x[2] <= Owes(x[1])'
      BY <2>1 DEF Owed
    <3>2. PICK q \in Procs, n \in 1..OPWRITES : x = <<q, n>>
      BY <3>1
    <3>3. InOp(q)' /\ n <= Owes(q)'
      BY <3>1, <3>2
    <3>4. InOp(q) /\ n <= Owes(q)
      BY <1>1, <1>2, <3>3, LogNumbers
    <3> QED
      BY <3>2, <3>4 DEF Owed
  <2> QED
    BY <2>1
<1>4. Cardinality(Owed') \in Nat /\ Cardinality(Owed') <= Cardinality(Owed)
  BY <1>3, OwedFinite, FS_Subset, FS_CardinalityType
<1>5. \A q \in Procs : Owes(q)' <= OPWRITES
  BY <1>1 DEF Fits
<1>6. outstanding' > 0 =>
        Len(lh') + Cardinality(Owed') <= LOGSIZE - (MAXOPBLOCKS - OPWRITES)
  <2>1. Len(lh) \in Nat /\ Len(lh') = Len(lh)
    BY DEF LogTyped
  <2>2. Cardinality(Owed) \in Nat
    BY OwedFinite
  <2> QED
    BY <1>4, <2>1, <2>2, LogNumbers DEF Fits
<1> QED
  BY <1>5, <1>6 DEF Fits

LEMMA HoldingsKept ==
  ASSUME Holdings, NEW p \in Procs, Others(p), Holds(p)',
         \A q \in Procs \ {p} : HeldBlocks(q)' = HeldBlocks(q),
         UNCHANGED <<lh, job>> \/ \A q \in Procs \ {p} : ~Works(q)
  PROVE  Holdings'
<1>1. ASSUME NEW q \in Procs \ {p} PROVE Holds(q)'
  <2>1. Works(q)' = Works(q) /\ HasOne(q)' = HasOne(q) /\ HeldBlocks(q)' = HeldBlocks(q)
    BY OthersSame
  <2>2. Holds(q)
    BY DEF Holdings
  <2>3. CASE UNCHANGED <<lh, job>>
    <3>1. JobBlocks' = JobBlocks
      BY <2>3 DEF JobBlocks, Target
    <3> QED
      BY <2>1, <2>2, <3>1 DEF Holds
  <2>4. CASE ~Works(q)
    BY <2>1, <2>2, <2>4 DEF Holds
  <2> QED
    BY <2>3, <2>4
<1> QED
  BY <1>1 DEF Holdings
-----------------------------------------------------------------------------
(***************************************************************************)
(* What the calls of the block layer do for the log's actions.             *)
(***************************************************************************)
LEMMA GetStep ==
  ASSUME LogInv, NEW p \in Procs, NEW blk \in Blocks, bget(p, blk)
  PROVE  /\ ~panic /\ io[p].at = "none" /\ BufInv' /\ disk' = disk
         /\ panic' => Recyclable = {}
         /\ \/ panic'
            \/ ~panic' /\ Takes(p, blk) /\ (HeaderOK(lh') => HeaderGood')
<1>1. BufInv /\ panic \in BOOLEAN
  BY TypeIs DEF LogInv, BufInv
<1>2. /\ Ready(p) /\ UNCHANGED <<mru, idequeue, drive, disk, asleep>>
      /\ \/ \E i \in Bufs : Got(p, blk, i)
         \/ panic' = TRUE /\ Recyclable = {} /\ UNCHANGED <<buf, io>>
  BY <1>1, bgetDoes
<1>3. ~panic /\ io[p].at = "none"
  BY <1>2 DEF Ready
<1>4. CASE panic' = TRUE /\ Recyclable = {} /\ UNCHANGED <<buf, io>>
  <2>1. asleep' \in [Procs -> Channels]
    BY <1>1, <1>2, TypeIs DEF BufInv
  <2>2. BufInv'
    BY <1>1, <1>2, <1>4, <2>1, OutsideKeeps
  <2> QED
    BY <1>2, <1>3, <1>4, <2>2
<1>5. CASE \E i \in Bufs : Got(p, blk, i)
  <2>1. PICK i \in Bufs : Got(p, blk, i)
    BY <1>5
  <2>2. BufInv' /\ Takes(p, blk)
    BY <1>1, <1>2, <2>1, GotKeeps
  <2>3. /\ Changed(i) /\ buf'[i].block = blk
        /\ SameData(i) \/ (Evicted(i) /\ \A j \in Bufs : buf[j].block # blk)
    BY <1>1, <2>1, GotData
  <2>4. ~panic'
    BY <1>3, <2>1 DEF Got
  <2>5. ASSUME HeaderOK(lh') PROVE HeaderGood'
    <3>1. HeaderGood
      BY <1>3 DEF LogInv, Sound
    <3>2. \A j \in Bufs \ {i} : buf'[j] = buf[j]
      BY <2>3 DEF Changed
    <3>3. \/ buf'[i].block = buf[i].block /\ buf'[i].valid = buf[i].valid
             /\ buf'[i].data = buf[i].data
          \/ ~buf'[i].valid
      BY <2>3 DEF SameData, SameFill, Evicted
    <3> QED
      BY <2>5, <3>1, <3>2, <3>3, HeadersKept
  <2> QED
    BY <1>2, <1>3, <2>2, <2>4, <2>5
<1> QED
  BY <1>2, <1>4, <1>5

LEMMA ReleaseStep ==
  ASSUME LogInv, NEW p \in Procs, NEW i \in Bufs, buf[i].lock = p, releasesleep(p, i)
  PROVE  /\ ~panic /\ ~panic' /\ io[p].at = "none" /\ BufInv' /\ disk' = disk
         /\ Drops(p, buf[i].block) /\ DataSame
         /\ HeaderOK(lh') => HeaderGood'
<1>1. BufInv
  BY DEF LogInv
<1>2. BufInv' /\ Drops(p, buf[i].block)
  BY <1>1, releasesleepKeeps
<1>3. DataSame /\ UNCHANGED <<disk, panic>> /\ ~panic
  BY <1>1, ReleaseKeepsData
<1>4. ASSUME HeaderOK(lh') PROVE HeaderGood'
  BY <1>3, <1>4, HeadersKept DEF DataSame, SameData, SameFill, LogInv, Sound
<1> QED
  BY <1>2, <1>3, <1>4 DEF releasesleep, Ready

LEMMA QuietStep ==
  ASSUME LogInv, ~panic, UNCHANGED <<buf, mru, idequeue, drive, disk, io>>,
         asleep' \in [Procs -> Channels], panic' \in BOOLEAN
  PROVE  /\ BufInv' /\ HeldSame
         /\ HeaderOK(lh') => HeaderGood'
<1>1. BufInv' /\ HeldSame
  BY OutsideKeeps DEF LogInv
<1>2. HeaderOK(lh') => HeaderGood'
  BY HeadersKept DEF LogInv, Sound
<1> QED
  BY <1>1, <1>2

LEMMA SleepsAre ==
  ASSUME BufInv, NEW p \in Procs
  PROVE  /\ asleep \in [Procs -> Channels]
         /\ Sleep(p, LogChan) \/ Sleep(p, InodeChan) => asleep' \in [Procs -> Channels]
         /\ \A c : Wakeup(c) \in [Procs -> Channels]
<1>1. asleep \in [Procs -> Channels]
  BY TypeIs DEF BufInv
<1>2. LogChan \in Channels /\ InodeChan \in Channels
  BY BufNumbers DEF LogChan, InodeChan, Channels
<1> QED
  BY <1>1, <1>2, SleepTyped, WakeupTyped

\* A process with one buffer.
LEMMA OneHeld ==
  ASSUME LogInv, ~panic, NEW p \in Procs, io[p].at = "none",
         pc[p] \in {"modify", "append", "logged", "read"}, NEW i \in Bufs, buf[i].lock = p
  PROVE  /\ buf[i].block \in Home /\ HeldBlocks(p) = {buf[i].block}
         /\ buf[i].valid /\ buf[i].data \in Content
         /\ \A j \in Bufs : buf[j].lock = p => j = i
<1>1. BufInv /\ Holds(p)
  BY DEF LogInv, Sound, Holdings
<1>2. PICK b \in Home : HeldBlocks(p) = {b}
  BY <1>1 DEF Holds, Works, HasOne
<1>3. buf[i].block = b
  BY <1>1, <1>2, OwnsAre
<1>4. buf[i].valid /\ buf[i].data \in Content /\ buf[i].block # NoBlock
  BY <1>1, OwnerHas
<1>5. \A j \in Bufs : buf[j].lock = p => j = i
  <2>1. ASSUME NEW j \in Bufs, buf[j].lock = p PROVE j = i
    <3>1. buf[j].block = b
      BY <1>1, <1>2, <2>1, OwnsAre
    <3> QED
      BY <1>1, <1>3, <1>4, <3>1 DEF BufInv, OneBufferPerBlock
  <2> QED
    BY <2>1
<1> QED
  BY <1>2, <1>3, <1>4, <1>5
-----------------------------------------------------------------------------
(***************************************************************************)
(* One lemma for each action: system calls and operations.                 *)
(***************************************************************************)
LEMMA SoundParts ==
  ASSUME LogInv, ~panic
  PROVE  /\ LogTyped /\ BufInv /\ HeaderOK(disk[Header]) /\ HeaderOK(lh)
         /\ Workers /\ Jobs /\ Locking /\ Admitted /\ Fits /\ HeaderGood /\ Holdings
         /\ panic \in BOOLEAN
BY TypeIs DEF LogInv, Sound, HeaderGood, BufInv

LEMMA CallKeeps ==
  ASSUME LogInv, NEW p \in Procs, NEW k \in Kinds \ {"read"}, Call(p, k)
  PROVE  LogInv' /\ panic' = panic
<1>1. ~panic /\ pc[p] = "idle" /\ calls[p] > 0
  BY DEF Call, At, Ready
<1>2. /\ LogTyped /\ BufInv /\ HeaderOK(disk[Header]) /\ HeaderOK(lh)
      /\ Workers /\ Jobs /\ Locking /\ Admitted /\ Fits /\ HeaderGood /\ Holdings
      /\ panic \in BOOLEAN
  BY <1>1, SoundParts
<1>3. /\ pc' = [pc EXCEPT ![p] = IF k = "wunmap" THEN "ilock" ELSE "begin"]
      /\ kind' = [kind EXCEPT ![p] = k] /\ left' = [left EXCEPT ![p] = OPWRITES]
      /\ calls' = [calls EXCEPT ![p] = calls[p] - 1]
      /\ UNCHANGED <<bufVars, lh, outstanding, committing, job, inode>>
  BY DEF Call, Goto
<1>4. LogTyped'
  BY <1>1, <1>2, <1>3, LogNumbers DEF LogTyped, PCs
<1>5. BufInv' /\ HeldSame /\ HeaderGood' /\ disk' = disk /\ panic' = panic
  BY <1>1, <1>2, <1>3, QuietStep, SleepsAre DEF bufVars
<1>6. Others(p)
  BY <1>2, <1>3, OthersAre
<1>7. pc'[p] \in {"ilock", "begin"} /\ kind'[p] = k /\ left'[p] = OPWRITES
  BY <1>2, <1>3 DEF LogTyped
<1>8. ~Works(p) /\ ~Works(p)' /\ ~InOp(p) /\ ~HasOne(p) /\ ~HasOne(p)'
  BY <1>1, <1>7 DEF Works, InOp, HasOne
<1>9. ~InOp(p)'
  <2>1. k = "write" => pc'[p] = "begin"
    BY <1>2, <1>3 DEF LogTyped
  <2> QED
    BY <1>7, <2>1 DEF InOp
<1>10. Workers' /\ Jobs' /\ Locking'
  <2>1. kind'[p] \in {"write", "wunmap"} \/ pc'[p] # "ilock"
    BY <1>2, <1>3 DEF LogTyped
  <2> QED
    BY <1>1, <1>2, <1>3, <1>6, <1>7, <1>8, <2>1, WorkersKept
<1>11. Admitted'
  <2>1. outstanding \in Nat /\ (committing => outstanding = 0)
    BY <1>2 DEF LogTyped, Admitted
  <2> QED
    BY <1>2, <1>3, <1>6, <1>8, <1>9, <2>1, AdmittedKept DEF One
<1>12. Fits'
  <2>1. Owes(p)' <= OPWRITES
    BY <1>7, LogNumbers DEF Owes
  <2> QED
    BY <1>2, <1>3, <1>4, <1>6, <1>9, <2>1, FitsKept
<1>13. Holdings'
  <2>1. Holds(p)'
    BY <1>2, <1>5, <1>8 DEF Holdings, Holds, HeldSame
  <2> QED
    BY <1>2, <1>3, <1>5, <1>6, <2>1, HoldingsKept DEF HeldSame
<1> QED
  BY <1>2, <1>4, <1>5, <1>10, <1>11, <1>12, <1>13 DEF LogInv, Sound
\* A process goes on and the log stays as it is.
LEMMA Moves ==
  ASSUME LogInv, ~panic, NEW p \in Procs, Others(p), LogTyped', BufInv', HeaderGood',
         disk' = disk, UNCHANGED <<lh, committing, job>>,
         ~Works(p), ~Works(p)', pc[p] # "down", pc'[p] # "down",
         pc'[p] = "ilock" => kind'[p] \in {"write", "wunmap"},
         outstanding' \in Int,
         outstanding' + One(InOp(p)) = outstanding + One(InOp(p)'),
         committing => outstanding' = 0, outstanding' > 0 => outstanding > 0,
         Owes(p)' <= OPWRITES, InOp(p)' => InOp(p) /\ Owes(p)' <= Owes(p),
         Holds(p)', \A q \in Procs \ {p} : HeldBlocks(q)' = HeldBlocks(q)
  PROVE  LogInv'
<1>1. /\ LogTyped /\ BufInv /\ HeaderOK(disk[Header]) /\ HeaderOK(lh)
      /\ Workers /\ Jobs /\ Locking /\ Admitted /\ Fits /\ HeaderGood /\ Holdings
      /\ panic \in BOOLEAN
  BY SoundParts
<1>2. Workers' /\ Jobs' /\ Locking'
  BY <1>1, WorkersKept
<1>3. Admitted'
  BY <1>1, AdmittedKept
<1>4. Fits'
  BY <1>1, FitsKept
<1>5. Holdings'
  BY <1>1, HoldingsKept
<1> QED
  BY <1>1, <1>2, <1>3, <1>4, <1>5 DEF LogInv, Sound

\* The same, when it does not begin or end an operation.
LEMMA MovesOn ==
  ASSUME LogInv, ~panic, NEW p \in Procs, Others(p), LogTyped', BufInv', HeaderGood',
         disk' = disk, UNCHANGED <<lh, outstanding, committing, job>>,
         ~Works(p), ~Works(p)', pc[p] # "down", pc'[p] # "down",
         pc'[p] = "ilock" => kind'[p] \in {"write", "wunmap"},
         InOp(p)' <=> InOp(p), Owes(p)' <= Owes(p),
         Holds(p)', \A q \in Procs \ {p} : HeldBlocks(q)' = HeldBlocks(q)
  PROVE  LogInv'
<1>1. LogTyped /\ Admitted /\ Fits
  BY SoundParts
<1>2. outstanding \in Nat /\ (committing => outstanding = 0)
  BY <1>1 DEF LogTyped, Admitted
<1>3. One(InOp(p)) \in Nat /\ One(InOp(p)') = One(InOp(p))
  BY DEF One
<1>4. Owes(p)' <= OPWRITES
  <2>1. left[p] \in Int /\ left'[p] \in Int
    BY <1>1, LogNumbers DEF LogTyped
  <2>2. Owes(p) \in Int /\ Owes(p)' \in Int
    BY <2>1 DEF Owes
  <2> QED
    BY <1>1, <2>2, LogNumbers DEF Fits
<1> QED
  BY <1>2, <1>3, <1>4, Moves

\* After a panic only the disk matters.
LEMMA Panics ==
  ASSUME LogInv, LogTyped', BufInv', disk' = disk, panic'
  PROVE  LogInv'
BY DEF LogInv

LEMMA CallReadKeeps ==
  ASSUME LogInv, NEW p \in Procs, NEW b \in Home, CallRead(p, b)
  PROVE  LogInv' /\ (panic' => Recyclable = {})
<1>1. ~panic /\ pc[p] = "idle" /\ calls[p] > 0 /\ io[p].at = "none"
  BY DEF CallRead, At, Ready
<1>2. LogTyped /\ Holdings
  BY <1>1, SoundParts
<1>3. /\ pc' = [pc EXCEPT ![p] = "read"] /\ kind' = [kind EXCEPT ![p] = "read"]
      /\ calls' = [calls EXCEPT ![p] = calls[p] - 1]
      /\ UNCHANGED <<lh, outstanding, committing, left, job, inode>>
      /\ bget(p, b)
  BY DEF CallRead, Goto
<1>4. LogTyped'
  BY <1>1, <1>2, <1>3, LogNumbers DEF LogTyped, PCs
<1>5. /\ BufInv' /\ disk' = disk /\ (panic' => Recyclable = {})
      /\ \/ panic'
         \/ ~panic' /\ Takes(p, b) /\ (HeaderOK(lh') => HeaderGood')
  BY <1>3, GetStep, LogNumbers
<1>6. CASE panic'
  BY <1>4, <1>5, <1>6, Panics
<1>7. CASE ~panic'
  <2>1. Others(p)
    BY <1>2, <1>3, OthersAre
  <2>2. pc'[p] = "read" /\ kind'[p] = "read" /\ left'[p] = left[p]
    BY <1>2, <1>3 DEF LogTyped
  <2>3. ~Works(p) /\ ~Works(p)' /\ ~InOp(p) /\ ~InOp(p)' /\ ~HasOne(p) /\ HasOne(p)'
    BY <1>1, <2>2 DEF Works, InOp, HasOne
  <2>4. Owes(p)' <= Owes(p)
    <3>1. left[p] \in Int
      BY <1>2, LogNumbers DEF LogTyped
    <3> QED
      BY <1>1, <2>2, <3>1 DEF Owes
  <2>5. Holds(p)'
    <3>1. HeldBlocks(p)' = {b}
      BY <1>2, <1>5, <1>7, <2>3 DEF Holdings, Holds, Takes
    <3> QED
      BY <2>3, <3>1 DEF Holds
  <2>6. HeaderGood'
    BY <1>1, <1>3, <1>5, <1>7, SoundParts DEF HeaderOK
  <2> QED
    BY <1>1, <1>3, <1>4, <1>5, <1>7, <2>1, <2>2, <2>3, <2>4, <2>5, <2>6, MovesOn DEF Takes
<1> QED
  BY <1>5, <1>6, <1>7

LEMMA breadKeeps ==
  ASSUME LogInv, NEW p \in Procs, NEW b \in Home, bread(p, b)
  PROVE  LogInv' /\ (panic' => Recyclable = {})
<1>1. ~panic /\ pc[p] = "op" /\ left[p] > 0 /\ io[p].at = "none"
  BY DEF bread, At, Ready
<1>2. LogTyped /\ Holdings
  BY <1>1, SoundParts
<1>3. /\ pc' = [pc EXCEPT ![p] = "modify"] /\ left' = [left EXCEPT ![p] = left[p] - 1]
      /\ UNCHANGED <<lh, outstanding, committing, kind, calls, job, inode>>
      /\ bget(p, b)
  BY DEF bread, Goto
<1>4. LogTyped'
  BY <1>1, <1>2, <1>3, LogNumbers DEF LogTyped, PCs
<1>5. /\ BufInv' /\ disk' = disk /\ (panic' => Recyclable = {})
      /\ \/ panic'
         \/ ~panic' /\ Takes(p, b) /\ (HeaderOK(lh') => HeaderGood')
  BY <1>3, GetStep, LogNumbers
<1>6. CASE panic'
  BY <1>4, <1>5, <1>6, Panics
<1>7. CASE ~panic'
  <2>1. Others(p)
    BY <1>2, <1>3, OthersAre
  <2>2. pc'[p] = "modify" /\ left'[p] = left[p] - 1
    BY <1>2, <1>3 DEF LogTyped
  <2>3. ~Works(p) /\ ~Works(p)' /\ InOp(p) /\ InOp(p)' /\ ~HasOne(p) /\ HasOne(p)'
    BY <1>1, <2>2 DEF Works, InOp, HasOne
  <2>4. Owes(p)' <= Owes(p)
    <3>1. left[p] \in Int
      BY <1>2, LogNumbers DEF LogTyped
    <3> QED
      BY <1>1, <2>2, <3>1 DEF Owes
  <2>5. Holds(p)'
    <3>1. HeldBlocks(p)' = {b}
      BY <1>2, <1>5, <1>7, <2>3 DEF Holdings, Holds, Takes
    <3> QED
      BY <2>3, <3>1 DEF Holds
  <2>6. HeaderGood'
    BY <1>1, <1>3, <1>5, <1>7, SoundParts DEF HeaderOK
  <2> QED
    BY <1>1, <1>3, <1>4, <1>5, <1>7, <2>1, <2>2, <2>3, <2>4, <2>5, <2>6, MovesOn DEF Takes
<1> QED
  BY <1>5, <1>6, <1>7

\* brelse(), of a process with one buffer.
LEMMA Releases ==
  ASSUME LogInv, NEW p \in Procs, pc[p] \in {"logged", "read"}, LogTyped',
         \E i \in Bufs : buf[i].lock = p /\ releasesleep(p, i),
         pc' = [pc EXCEPT ![p] = IF pc[p] = "logged" THEN "op" ELSE "idle"],
         UNCHANGED <<lh, outstanding, committing, kind, left, calls, job, inode>>
  PROVE  LogInv' /\ ~panic'
<1>1. PICK i \in Bufs : buf[i].lock = p /\ releasesleep(p, i)
  OBVIOUS
<1>2. /\ ~panic /\ ~panic' /\ io[p].at = "none" /\ BufInv' /\ disk' = disk
      /\ Drops(p, buf[i].block) /\ (HeaderOK(lh') => HeaderGood')
  BY <1>1, ReleaseStep
<1>3. LogTyped /\ HeaderOK(lh)
  BY <1>2, SoundParts
<1>4. HeldBlocks(p) = {buf[i].block}
  BY <1>1, <1>2, OneHeld
<1>5. HeldBlocks(p)' = {} /\ \A q \in Procs \ {p} : HeldBlocks(q)' = HeldBlocks(q)
  BY <1>2, <1>4 DEF Drops
<1>6. Others(p)
  BY <1>3, OthersAre
<1>7. pc'[p] = IF pc[p] = "logged" THEN "op" ELSE "idle"
  BY <1>3 DEF LogTyped
<1>8. ~Works(p) /\ ~Works(p)' /\ ~HasOne(p)' /\ pc[p] # "down" /\ pc'[p] # "down"
  BY <1>7 DEF Works, HasOne
<1>9. InOp(p)' <=> InOp(p)
  BY <1>7 DEF InOp
<1>10. Owes(p)' <= Owes(p)
  <2>1. left[p] \in Int
    BY <1>3, LogNumbers DEF LogTyped
  <2> QED
    BY <1>7, <2>1 DEF Owes
<1>11. Holds(p)'
  BY <1>5, <1>8 DEF Holds
<1>12. HeaderGood'
  BY <1>2, <1>3 DEF HeaderOK
<1> QED
  BY <1>2, <1>5, <1>6, <1>8, <1>9, <1>10, <1>11, <1>12, MovesOn

LEMMA LoggedKeeps ==
  ASSUME LogInv, NEW p \in Procs, Logged(p) \/ ReadDone(p)
  PROVE  LogInv' /\ ~panic'
<1>1. /\ ~panic /\ pc[p] \in {"logged", "read"}
      /\ \E i \in Bufs : buf[i].lock = p /\ releasesleep(p, i)
      /\ pc' = [pc EXCEPT ![p] = IF pc[p] = "logged" THEN "op" ELSE "idle"]
      /\ UNCHANGED <<lh, outstanding, committing, kind, left, calls, job, inode>>
  BY DEF Logged, ReadDone, At, Ready, Goto
<1>2. LogTyped
  BY <1>1, SoundParts
<1>3. LogTyped'
  BY <1>1, <1>2 DEF LogTyped, PCs
<1> QED
  BY <1>1, <1>3, Releases

LEMMA Waits ==
  ASSUME LogInv, ~panic, UNCHANGED logVars, asleep' \in [Procs -> Channels],
         UNCHANGED <<buf, mru, idequeue, drive, disk, io, panic>>
  PROVE  LogInv'
<1>1. BufInv' /\ HeldSame /\ (HeaderOK(lh') => HeaderGood')
  BY QuietStep, SoundParts
<1>2. /\ LogTyped' /\ Workers' /\ Jobs' /\ Locking' /\ Admitted' /\ Fits' /\ Holdings'
      /\ HeaderOK(lh')
  BY <1>1, LogStays
<1> QED
  BY <1>1, <1>2 DEF LogInv, Sound

\* What one more operation may need, begin_op() has asked for.
LEMMA Reserve ==
  ASSUME NEW a \in Nat, NEW len \in Nat, len + (a + 1) * MAXOPBLOCKS <= LOGSIZE
  PROVE  /\ (a + 1) * OPWRITES \in Nat
         /\ len + (a + 1) * OPWRITES <= LOGSIZE - (MAXOPBLOCKS - OPWRITES)
<1>1. OPWRITES \in Nat /\ MAXOPBLOCKS \in Nat /\ LOGSIZE \in Nat /\ OPWRITES <= MAXOPBLOCKS
  BY LogNumbers
<1>2. PICK d \in Nat : MAXOPBLOCKS = OPWRITES + d
  <2>1. MAXOPBLOCKS - OPWRITES \in Nat
    BY <1>1
  <2> QED
    BY <1>1, <2>1
<1>3. (a + 1) * MAXOPBLOCKS = (a + 1) * OPWRITES + a * d + d
  BY <1>1, <1>2
<1>4. a * d \in Nat /\ (a + 1) * OPWRITES \in Nat
  BY <1>1
<1> QED
  BY <1>1, <1>2, <1>3, <1>4

LEMMA beginKeeps ==
  ASSUME LogInv, NEW p \in Procs, begin_op(p)
  PROVE  LogInv' /\ panic' = panic
<1>1. ~panic /\ pc[p] = "begin" /\ panic' = panic
  BY DEF begin_op, At, Ready
<1>2. /\ LogTyped /\ BufInv /\ HeaderOK(disk[Header]) /\ HeaderOK(lh)
      /\ Workers /\ Jobs /\ Locking /\ Admitted /\ Fits /\ HeaderGood /\ Holdings
  BY <1>1, SoundParts
<1>3. CASE MustWait
  <2>1. asleep' \in [Procs -> Channels]
    BY <1>2, <1>3, SleepsAre DEF begin_op
  <2>2. UNCHANGED logVars /\ UNCHANGED <<buf, mru, idequeue, drive, disk, io, panic>>
    BY <1>3 DEF begin_op, logVars
  <2> QED
    BY <1>1, <2>1, <2>2, Waits
<1>4. CASE ~MustWait
  <2>1. /\ ~committing /\ Len(lh) + (outstanding + 1) * MAXOPBLOCKS <= LOGSIZE
        /\ Len(lh) \in Nat /\ outstanding \in Nat
    <3>1. Len(lh) \in Nat /\ outstanding \in Nat
      BY <1>2 DEF LogTyped
    <3>2. (outstanding + 1) * MAXOPBLOCKS \in Nat /\ LOGSIZE \in Nat
      BY <3>1, LogNumbers
    <3> QED
      BY <1>4, <3>1, <3>2 DEF MustWait
  <2>2. /\ outstanding' = outstanding + 1
        /\ pc' = [pc EXCEPT ![p] = IF kind[p] = "write" THEN "ilock" ELSE "op"]
        /\ UNCHANGED <<lh, committing, kind, left, calls, job, inode>>
        /\ UNCHANGED <<buf, mru, idequeue, drive, disk, io, asleep, panic>>
    BY <1>4 DEF begin_op, Goto
  <2>3. LogTyped'
    BY <1>2, <2>1, <2>2 DEF LogTyped, PCs
  <2>4. BufInv' /\ HeldSame /\ HeaderGood'
    BY <1>1, <1>2, <2>2, QuietStep, SleepsAre, SoundParts DEF HeaderOK
  <2>5. Others(p)
    BY <1>2, <2>2, OthersAre
  <2>6. pc'[p] = (IF kind[p] = "write" THEN "ilock" ELSE "op") /\ kind'[p] = kind[p]
    BY <1>2, <2>2 DEF LogTyped
  <2>7. /\ ~Works(p) /\ ~Works(p)' /\ ~InOp(p) /\ InOp(p)' /\ ~HasOne(p) /\ ~HasOne(p)'
        /\ pc[p] # "down" /\ pc'[p] # "down"
    BY <1>1, <2>6 DEF Works, InOp, HasOne
  <2>8. Workers' /\ Jobs' /\ Locking'
    BY <1>2, <2>2, <2>5, <2>6, <2>7, WorkersKept
  <2>9. Admitted'
    BY <1>2, <2>1, <2>2, <2>5, <2>7, AdmittedKept DEF One
  <2>10. Holdings'
    <3>1. Holds(p)'
      BY <1>2, <2>4, <2>7 DEF Holdings, Holds, HeldSame
    <3> QED
      BY <1>2, <2>2, <2>4, <2>5, <3>1, HoldingsKept DEF HeldSame
  <2>11. Fits'
    <3> DEFINE In == {q \in Procs : InOp(q)'}
    <3>1. \A q \in Procs : Owes(q)' <= OPWRITES
      <4>1. Owes(p)' = left[p] /\ left[p] <= OPWRITES
        BY <1>2, <2>2, <2>6, LogNumbers DEF Owes, LogTyped
      <4> QED
        BY <1>2, <2>5, <4>1, OthersSame DEF Fits
    <3>2. IsFiniteSet(In) /\ Cardinality(In) = outstanding + 1
      <4>1. IsFiniteSet(In)
        BY BufNumbers, FS_Subset
      <4> QED
        BY <2>2, <2>9, <4>1 DEF Admitted
    <3>3. IsFiniteSet(1..OPWRITES) /\ Cardinality(1..OPWRITES) = OPWRITES
      BY LogNumbers, FS_Interval
    <3>4. /\ IsFiniteSet(In \X (1..OPWRITES))
          /\ Cardinality(In \X (1..OPWRITES)) = (outstanding + 1) * OPWRITES
      <4> HIDE DEF In
      <4>1. /\ IsFiniteSet(In \X (1..OPWRITES))
            /\ Cardinality(In \X (1..OPWRITES)) = Cardinality(In) * Cardinality(1..OPWRITES)
        BY <3>2, <3>3, FS_Product
      <4> QED
        BY <3>2, <3>3, <4>1
    <3>5. Owed' \subseteq In \X (1..OPWRITES)
      BY DEF Owed
    <3>6. Cardinality(Owed') \in Nat /\ Cardinality(Owed') <= (outstanding + 1) * OPWRITES
      BY <3>4, <3>5, FS_Subset, FS_CardinalityType
    <3>7. Len(lh) + (outstanding + 1) * OPWRITES <= LOGSIZE - (MAXOPBLOCKS - OPWRITES)
          /\ (outstanding + 1) * OPWRITES \in Nat
      BY <2>1, Reserve
    <3>8. Len(lh') + Cardinality(Owed') <= LOGSIZE - (MAXOPBLOCKS - OPWRITES)
      BY <2>1, <2>2, <3>6, <3>7, LogNumbers
    <3> QED
      BY <3>1, <3>8 DEF Fits
  <2> QED
    BY <1>2, <2>2, <2>3, <2>4, <2>8, <2>9, <2>10, <2>11 DEF LogInv, Sound
<1> QED
  BY <1>1, <1>3, <1>4

LEMMA ilockKeeps ==
  ASSUME LogInv, NEW p \in Procs, ilock(p)
  PROVE  LogInv' /\ panic' = panic
<1>1. ~panic /\ pc[p] = "ilock" /\ panic' = panic
  BY DEF ilock, At, Ready
<1>2. LogTyped /\ BufInv /\ Holdings /\ Locking /\ HeaderOK(lh)
  BY <1>1, SoundParts
<1>3. CASE inode # NoProc
  <2>1. asleep' \in [Procs -> Channels]
    BY <1>2, <1>3, SleepsAre DEF ilock
  <2>2. UNCHANGED logVars /\ UNCHANGED <<buf, mru, idequeue, drive, disk, io, panic>>
    BY <1>3 DEF ilock, logVars
  <2> QED
    BY <1>1, <2>1, <2>2, Waits
<1>4. CASE inode = NoProc
  <2>1. /\ inode' = p
        /\ pc' = [pc EXCEPT ![p] = IF kind[p] = "wunmap" THEN "begin" ELSE "op"]
        /\ UNCHANGED <<lh, outstanding, committing, kind, left, calls, job>>
        /\ UNCHANGED <<buf, mru, idequeue, drive, disk, io, asleep, panic>>
    BY <1>4 DEF ilock, Goto
  <2>2. LogTyped'
    BY <1>2, <2>1 DEF LogTyped, PCs
  <2>3. BufInv' /\ HeldSame /\ HeaderGood'
    BY <1>1, <1>2, <2>1, QuietStep, SleepsAre, SoundParts DEF HeaderOK
  <2>4. Others(p)
    BY <1>2, <2>1, OthersAre
  <2>5. /\ pc'[p] = (IF kind[p] = "wunmap" THEN "begin" ELSE "op")
        /\ kind'[p] = kind[p] /\ left'[p] = left[p]
    BY <1>2, <2>1 DEF LogTyped
  <2>6. /\ ~Works(p) /\ ~Works(p)' /\ ~HasOne(p) /\ ~HasOne(p)'
        /\ pc[p] # "down" /\ pc'[p] # "down" /\ pc'[p] # "ilock"
    BY <1>1, <2>5 DEF Works, HasOne
  <2>7. InOp(p)' <=> InOp(p)
    BY <1>1, <1>2, <2>5 DEF InOp, Locking
  <2>8. Owes(p)' <= Owes(p)
    <3>1. left[p] \in Int
      BY <1>2, LogNumbers DEF LogTyped
    <3> QED
      BY <1>1, <2>5, <3>1 DEF Owes
  <2>9. Holds(p)'
    BY <1>2, <2>3, <2>6 DEF Holdings, Holds, HeldSame
  <2> QED
    BY <1>1, <2>1, <2>2, <2>3, <2>4, <2>6, <2>7, <2>8, <2>9, MovesOn DEF HeldSame
<1> QED
  BY <1>1, <1>3, <1>4

LEMMA iunlockKeeps ==
  ASSUME LogInv, NEW p \in Procs, iunlock(p)
  PROVE  LogInv' /\ panic' = panic
<1>1. /\ ~panic /\ panic' = panic
      /\ pc[p] \in {"op", "iunlock"} /\ (pc[p] = "op" => kind[p] = "write")
      /\ pc' = [pc EXCEPT ![p] = IF pc[p] = "op" THEN "ops" ELSE "idle"]
      /\ inode' = NoProc /\ asleep' = Wakeup(InodeChan)
      /\ UNCHANGED <<lh, outstanding, committing, kind, left, calls, job>>
      /\ UNCHANGED <<buf, mru, idequeue, drive, disk, io>>
  BY DEF iunlock, At, Ready, Goto
<1>2. LogTyped /\ BufInv /\ Holdings /\ HeaderOK(lh) /\ panic \in BOOLEAN
  BY <1>1, SoundParts
<1>3. LogTyped'
  BY <1>1, <1>2 DEF LogTyped, PCs
<1>4. BufInv' /\ HeldSame /\ HeaderGood'
  BY <1>1, <1>2, QuietStep, SleepsAre DEF HeaderOK
<1>5. Others(p)
  BY <1>1, <1>2, OthersAre
<1>6. pc'[p] = (IF pc[p] = "op" THEN "ops" ELSE "idle") /\ left'[p] = left[p]
  BY <1>1, <1>2 DEF LogTyped
<1>7. /\ ~Works(p) /\ ~Works(p)' /\ ~HasOne(p) /\ ~HasOne(p)'
      /\ pc[p] # "down" /\ pc'[p] # "down" /\ pc'[p] # "ilock"
  BY <1>1, <1>6 DEF Works, HasOne
<1>8. InOp(p)' <=> InOp(p)
  BY <1>1, <1>6 DEF InOp
<1>9. Owes(p)' <= Owes(p)
  <2>1. left[p] \in Int
    BY <1>2, LogNumbers DEF LogTyped
  <2> QED
    BY <1>1, <1>6, <2>1 DEF Owes
<1>10. Holds(p)'
  BY <1>2, <1>4, <1>7 DEF Holdings, Holds, HeldSame
<1> QED
  BY <1>1, <1>3, <1>4, <1>5, <1>7, <1>8, <1>9, <1>10, MovesOn DEF HeldSame

\* Who has a block to write has room for it.
LEMMA Room ==
  ASSUME LogTyped, Workers, Admitted, Fits, NEW p \in Procs,
         pc[p] \in {"modify", "append"}
  PROVE  /\ Len(lh) < LOGSIZE /\ Len(lh) < NLOG - 1 /\ outstanding >= 1
         /\ Owes(p) = left[p] + 1 /\ Owes(p) \in 1..OPWRITES
         /\ <<p, Owes(p)>> \in Owed /\ Cardinality(Owed) \in Nat \ {0}
<1>1. outstanding > 0 /\ outstanding \in Nat /\ Len(lh) \in Nat
  BY AloneInOp DEF InOp, LogTyped
<1>2. Owes(p) = left[p] + 1 /\ left[p] \in Nat
  BY LogNumbers DEF Owes, LogTyped
<1>3. Owes(p) \in 1..OPWRITES
  BY <1>2, LogNumbers DEF Fits
<1>4. <<p, Owes(p)>> \in Owed
  BY <1>3 DEF Owed, InOp
<1>5. Cardinality(Owed) \in Nat \ {0}
  BY <1>4, OwedFinite
<1>6. Len(lh) + Cardinality(Owed) <= LOGSIZE - (MAXOPBLOCKS - OPWRITES)
  BY <1>1 DEF Fits
<1>7. Len(lh) < LOGSIZE /\ Len(lh) < NLOG - 1
  BY <1>1, <1>5, <1>6, LogNumbers
<1> QED
  BY <1>1, <1>2, <1>3, <1>4, <1>5, <1>7

LEMMA ModifyKeeps ==
  ASSUME LogInv, NEW p \in Procs, Modify(p)
  PROVE  /\ LogInv' /\ ~panic'
         /\ \E i \in Bufs : buf[i].lock = p /\ buf' = [buf EXCEPT ![i].data = <<p>>]
<1>1. ~panic /\ pc[p] = "modify" /\ io[p].at = "none" /\ Ready(p)
  BY DEF Modify, At, Ready
<1>2. /\ LogTyped /\ BufInv /\ HeaderOK(disk[Header]) /\ HeaderOK(lh)
      /\ Workers /\ Jobs /\ Locking /\ Admitted /\ Fits /\ HeaderGood /\ Holdings
      /\ panic \in BOOLEAN
  BY <1>1, SoundParts
<1>3. Len(lh) < LOGSIZE /\ Len(lh) < NLOG - 1 /\ outstanding >= 1
      /\ Len(lh) \in Nat /\ outstanding \in Nat /\ LOGSIZE \in Nat /\ NLOG \in Nat
  <2>1. Len(lh) < LOGSIZE /\ Len(lh) < NLOG - 1 /\ outstanding >= 1
    BY <1>1, <1>2, Room
  <2>2. Len(lh) \in Nat /\ outstanding \in Nat
    BY <1>2 DEF LogTyped
  <2> QED
    BY <2>1, <2>2, LogNumbers
<1>4. ~(Len(lh) >= LOGSIZE \/ Len(lh) >= NLOG - 1 \/ outstanding < 1)
  BY <1>3
<1>5. /\ \E i \in Bufs : buf[i].lock = p /\ buf' = [buf EXCEPT ![i].data = <<p>>]
      /\ pc' = [pc EXCEPT ![p] = "append"] /\ panic' = panic
      /\ UNCHANGED <<lh, outstanding, committing, kind, left, calls, job, inode>>
      /\ UNCHANGED <<mru, idequeue, drive, disk, io, asleep>>
  BY <1>4 DEF Modify, Goto
<1>6. PICK i \in Bufs : buf[i].lock = p /\ buf' = [buf EXCEPT ![i].data = <<p>>]
  BY <1>5
<1>7. <<p>> \in Content
  BY BufNumbers DEF Content
<1>8. BufInv' /\ HeldSame
  BY <1>1, <1>2, <1>5, <1>6, <1>7, StoreKeeps
<1>9. buf[i].block \in Home /\ buf[i].block # Header
  BY <1>1, <1>2, <1>6, OneHeld, LogNumbers
<1>10. Changed(i) /\ buf'[i].block = buf[i].block
  <2>1. buf \in [Bufs -> BufRec]
    BY <1>2, TypeIs DEF BufInv
  <2> QED
    BY <1>6, <1>7, <2>1, SetData DEF SameFill
<1>11. HeaderGood'
  BY <1>2, <1>5, <1>9, <1>10, HeadersKept DEF Changed, HeaderOK
<1>12. LogTyped'
  BY <1>2, <1>5 DEF LogTyped, PCs
<1>13. Others(p)
  BY <1>2, <1>5, OthersAre
<1>14. pc'[p] = "append" /\ left'[p] = left[p]
  BY <1>2, <1>5 DEF LogTyped
<1>15. /\ ~Works(p) /\ ~Works(p)' /\ HasOne(p) /\ HasOne(p)' /\ InOp(p) /\ InOp(p)'
  BY <1>1, <1>14 DEF Works, HasOne, InOp
<1>16. Owes(p)' <= Owes(p)
  <2>1. left[p] \in Int
    BY <1>2, LogNumbers DEF LogTyped
  <2> QED
    BY <1>1, <1>14, <2>1 DEF Owes
<1>17. Holds(p)'
  BY <1>2, <1>8, <1>15 DEF Holdings, Holds, HeldSame
<1>18. LogInv'
  BY <1>1, <1>5, <1>8, <1>11, <1>12, <1>13, <1>14, <1>15, <1>16, <1>17, MovesOn DEF HeldSame
<1> QED
  BY <1>1, <1>5, <1>18

LEMMA AbsorbKeeps ==
  ASSUME HeaderOK(lh), Len(lh) < NLOG - 1, NEW b \in Home
  PROVE  /\ HeaderOK(Absorb(b)) /\ Len(Absorb(b)) <= Len(lh) + 1
         /\ ToSet(Absorb(b)) = ToSet(lh) \cup {b}
<1>1. lh \in Seq(Home) /\ Len(lh) \in Nat /\ DOMAIN lh = 1..Len(lh)
  BY DEF HeaderOK
<1>2. CASE b \in ToSet(lh)
  BY <1>1, <1>2 DEF Absorb
<1>3. CASE b \notin ToSet(lh)
  <2>1. Absorb(b) = Append(lh, b)
    BY <1>3 DEF Absorb
  <2>2. /\ Append(lh, b) \in Seq(Home) /\ Len(Append(lh, b)) = Len(lh) + 1
        /\ DOMAIN Append(lh, b) = 1..Len(lh) + 1
        /\ \A n \in 1..Len(lh) : Append(lh, b)[n] = lh[n]
        /\ Append(lh, b)[Len(lh) + 1] = b
    BY <1>1
  <2>3. \A n \in 1..Len(lh) : lh[n] # b
    BY <1>1, <1>3 DEF ToSet
  <2>4. ASSUME NEW m \in 1..Len(lh) + 1, NEW n \in 1..Len(lh) + 1,
               Append(lh, b)[m] = Append(lh, b)[n]
        PROVE  m = n
    <3>1. \A k \in 1..Len(lh) + 1 : k \in 1..Len(lh) \/ k = Len(lh) + 1
      BY <1>1
    <3> QED
      BY <1>1, <2>2, <2>3, <2>4, <3>1 DEF HeaderOK
  <2>5. HeaderOK(Append(lh, b))
    <3>1. Len(lh) + 1 <= NLOG - 1
      BY <1>1, LogNumbers
    <3> QED
      BY <2>2, <2>4, <3>1 DEF HeaderOK
  <2>6. ToSet(Append(lh, b)) = ToSet(lh) \cup {b}
    <3>1. ASSUME NEW x \in ToSet(Append(lh, b)) PROVE x \in ToSet(lh) \cup {b}
      <4>1. PICK n \in 1..Len(lh) + 1 : x = Append(lh, b)[n]
        BY <2>2 DEF ToSet
      <4>2. n \in 1..Len(lh) \/ n = Len(lh) + 1
        BY <1>1
      <4> QED
        BY <1>1, <2>2, <4>1, <4>2 DEF ToSet
    <3>2. ASSUME NEW x \in ToSet(lh) PROVE x \in ToSet(Append(lh, b))
      <4>1. PICK n \in 1..Len(lh) : x = lh[n]
        BY <1>1 DEF ToSet
      <4>2. n \in DOMAIN Append(lh, b) /\ x = Append(lh, b)[n]
        BY <1>1, <2>2, <4>1
      <4> QED
        BY <4>2 DEF ToSet
    <3>3. b \in ToSet(Append(lh, b))
      <4>1. Len(lh) + 1 \in DOMAIN Append(lh, b)
        BY <1>1, <2>2
      <4> QED
        BY <2>2, <4>1 DEF ToSet
    <3> QED
      BY <3>1, <3>2, <3>3
  <2> QED
    BY <1>1, <2>1, <2>2, <2>5, <2>6
<1> QED
  BY <1>2, <1>3

\* log_write() spends one block of what its operation has reserved.
LEMMA OwedLess ==
  ASSUME LogTyped, Workers, Admitted, Fits, NEW p \in Procs, Others(p),
         pc[p] = "append", pc'[p] = "logged", left'[p] = left[p], kind'[p] = kind[p]
  PROVE  Cardinality(Owed') \in Nat /\ Cardinality(Owed') + 1 <= Cardinality(Owed)
<1> DEFINE x == <<p, Owes(p)>>
<1>1. /\ Owes(p) = left[p] + 1 /\ Owes(p) \in 1..OPWRITES
      /\ x \in Owed /\ Cardinality(Owed) \in Nat \ {0}
  BY Room
<1>2. left[p] \in Nat /\ Owes(p)' = left[p]
  <2>1. left[p] \in Nat
    BY LogNumbers DEF LogTyped
  <2> QED
    BY <2>1 DEF Owes
<1>3. \A q \in Procs \ {p} : InOp(q)' = InOp(q) /\ Owes(q)' = Owes(q)
  BY OthersSame
<1>4. Owed' \subseteq Owed \ {x}
  <2>1. ASSUME NEW y \in Owed' PROVE y \in Owed \ {x}
    <3>1. y \in Procs \X (1..OPWRITES) /\ InOp(y[1])' /\ y[2] <= Owes(y[1])'
      BY <2>1 DEF Owed
    <3>2. PICK q \in Procs, n \in 1..OPWRITES : y = <<q, n>>
      BY <3>1
    <3>3. InOp(q)' /\ n <= Owes(q)'
      BY <3>1, <3>2
    <3>4. CASE q = p
      <4>1. InOp(p) /\ n <= left[p] /\ n <= Owes(p) /\ n # Owes(p)
        BY <1>1, <1>2, <3>3, <3>4 DEF InOp
      <4> QED
        BY <3>2, <3>4, <4>1 DEF Owed
    <3>5. CASE q # p
      <4>1. InOp(q) /\ n <= Owes(q)
        BY <1>3, <3>3, <3>5
      <4> QED
        BY <3>2, <3>5, <4>1 DEF Owed
    <3> QED
      BY <3>4, <3>5
  <2> QED
    BY <2>1
<1>5. IsFiniteSet(Owed \ {x}) /\ Cardinality(Owed \ {x}) = Cardinality(Owed) - 1
  BY <1>1, OwedFinite, FS_RemoveElement
<1>6. Cardinality(Owed') \in Nat /\ Cardinality(Owed') <= Cardinality(Owed \ {x})
  <2> HIDE DEF x
  <2> QED
    BY <1>4, <1>5, FS_Subset, FS_CardinalityType
<1> QED
  BY <1>1, <1>5, <1>6

LEMMA log_writeKeeps ==
  ASSUME LogInv, NEW p \in Procs, log_write(p)
  PROVE  LogInv' /\ ~panic'
<1>1. ~panic /\ pc[p] = "append" /\ io[p].at = "none" /\ Ready(p)
  BY DEF log_write, At, Ready
<1>2. /\ LogTyped /\ BufInv /\ HeaderOK(disk[Header]) /\ HeaderOK(lh)
      /\ Workers /\ Jobs /\ Locking /\ Admitted /\ Fits /\ HeaderGood /\ Holdings
      /\ panic \in BOOLEAN
  BY <1>1, SoundParts
<1>3. PICK i \in Bufs : /\ buf[i].lock = p /\ lh' = Absorb(buf[i].block)
                        /\ buf' = [buf EXCEPT ![i].dirty = TRUE]
  BY DEF log_write, Pin
<1>4. /\ pc' = [pc EXCEPT ![p] = "logged"]
      /\ UNCHANGED <<outstanding, committing, kind, left, calls, job, inode>>
      /\ UNCHANGED <<mru, idequeue, drive, disk, io, asleep, panic>>
  BY DEF log_write, Goto
<1>5. BufInv' /\ HeldSame
  BY <1>1, <1>2, <1>3, <1>4, StoreKeeps
<1>6. buf[i].block \in Home
  BY <1>1, <1>2, <1>3, OneHeld
<1>7. Len(lh) < NLOG - 1 /\ Len(lh) \in Nat
  <2>1. Len(lh) < NLOG - 1
    BY <1>1, <1>2, Room
  <2> QED
    BY <1>2, <2>1 DEF LogTyped
<1>8. HeaderOK(lh') /\ Len(lh') <= Len(lh) + 1
  BY <1>2, <1>3, <1>6, <1>7, AbsorbKeeps
<1>9. LogTyped'
  BY <1>2, <1>4, <1>8 DEF LogTyped, PCs, HeaderOK
<1>10. /\ Changed(i) /\ buf'[i].block = buf[i].block /\ buf'[i].valid = buf[i].valid
       /\ buf'[i].data = buf[i].data
  <2>1. buf \in [Bufs -> BufRec]
    BY <1>2, TypeIs DEF BufInv
  <2> QED
    BY <1>3, <2>1, SetDirty
<1>11. HeaderGood'
  BY <1>2, <1>8, <1>10, HeadersKept DEF Changed
<1>12. Others(p)
  BY <1>2, <1>4, OthersAre
<1>13. pc'[p] = "logged" /\ left'[p] = left[p] /\ kind'[p] = kind[p]
  BY <1>2, <1>4 DEF LogTyped
<1>14. /\ ~Works(p)' /\ HasOne(p) /\ HasOne(p)' /\ InOp(p) /\ InOp(p)'
  BY <1>1, <1>13 DEF Works, HasOne, InOp
<1>15. ~Works(p) /\ \A q \in Procs : ~Works(q)
  BY <1>2, <1>14, AloneInOp
<1>16. Workers' /\ Jobs' /\ Locking'
  BY <1>1, <1>2, <1>4, <1>12, <1>13, <1>14, <1>15, WorkersKept
<1>17. Admitted'
  <2>1. outstanding \in Nat /\ (committing => outstanding = 0)
    BY <1>2 DEF LogTyped, Admitted
  <2> QED
    BY <1>2, <1>4, <1>12, <1>14, <2>1, AdmittedKept DEF One
<1>18. Fits'
  <2>1. Cardinality(Owed') \in Nat /\ Cardinality(Owed') + 1 <= Cardinality(Owed)
    BY <1>1, <1>2, <1>12, <1>13, OwedLess
  <2>2. \A q \in Procs : Owes(q)' <= OPWRITES
    <3>1. Owes(p)' = left[p] /\ left[p] <= OPWRITES
      BY <1>2, <1>13, LogNumbers DEF Owes, LogTyped
    <3> QED
      BY <1>2, <1>12, <3>1, OthersSame DEF Fits
  <2>3. outstanding' > 0 =>
          Len(lh') + Cardinality(Owed') <= LOGSIZE - (MAXOPBLOCKS - OPWRITES)
    <3>1. Cardinality(Owed) \in Nat /\ Len(lh') \in Nat
      BY <1>9, OwedFinite DEF LogTyped
    <3>2. outstanding > 0 =>
            Len(lh) + Cardinality(Owed) <= LOGSIZE - (MAXOPBLOCKS - OPWRITES)
      BY <1>2 DEF Fits
    <3> QED
      BY <1>4, <1>7, <1>8, <2>1, <3>1, <3>2, LogNumbers
  <2> QED
    BY <2>2, <2>3 DEF Fits
<1>19. Holdings'
  <2>1. Holds(p)'
    BY <1>2, <1>5, <1>14, <1>15 DEF Holdings, Holds, HeldSame
  <2> QED
    BY <1>2, <1>5, <1>12, <1>15, <2>1, HoldingsKept DEF HeldSame
<1> QED
  BY <1>1, <1>2, <1>4, <1>5, <1>9, <1>11, <1>16, <1>17, <1>18, <1>19 DEF LogInv, Sound

LEMMA AfterOpIs ==
  ASSUME NEW p \in Procs
  PROVE  AfterOp(p) \in {"iunlock", "idle"} /\ AfterOp(p) \in PCs
BY DEF AfterOp, PCs

LEMMA CommitJobIs ==
  ASSUME HeaderOK(lh)
  PROVE  /\ CommitJob \in Copies(Len(lh)) \cup {Done} /\ CommitJob \in JobRec
         /\ CommitJob.stage \in {"write_log", "done"} /\ CommitJob.at \in {"", "log"}
         /\ CommitJob.stage = "done" => lh = <<>>
<1>1. lh \in Seq(Home) /\ Len(lh) \in Nat
  BY DEF HeaderOK
<1>2. CASE lh = <<>>
  BY <1>2 DEF CommitJob, NoJob, Done, JobRec, Stages
<1>3. CASE lh # <<>>
  <2>1. Len(lh) # 0
    BY <1>1, <1>3
  <2>2. CommitJob = [stage |-> "write_log", tail |-> 1, at |-> "log"]
    BY <1>3 DEF CommitJob, CopyJob
  <2> QED
    BY <1>1, <2>1, <2>2 DEF Copies, JobRec, Stages
<1> QED
  BY <1>2, <1>3

LEMMA end_opKeeps ==
  ASSUME LogInv, NEW p \in Procs, end_op(p)
  PROVE  LogInv' /\ ~panic'
<1>1. ~panic /\ pc[p] \in {"op", "ops"} /\ Ready(p)
  BY DEF end_op, Ready
<1>2. /\ LogTyped /\ BufInv /\ HeaderOK(disk[Header]) /\ HeaderOK(lh)
      /\ Workers /\ Jobs /\ Locking /\ Admitted /\ Fits /\ HeaderGood /\ Holdings
      /\ panic \in BOOLEAN
  BY <1>1, SoundParts
<1>3. InOp(p) /\ ~HasOne(p)
  BY <1>1 DEF InOp, HasOne
<1>4. /\ outstanding > 0 /\ outstanding \in Nat /\ ~committing /\ ~Works(p)
      /\ \A q \in Procs : ~Works(q)
  BY <1>2, <1>3, AloneInOp DEF LogTyped
<1>5. /\ outstanding' = outstanding - 1 /\ panic' = committing
      /\ UNCHANGED <<buf, mru, idequeue, drive, disk, io, lh, kind, left, calls, inode>>
  BY DEF end_op
<1>6. ~panic' /\ panic' \in BOOLEAN /\ outstanding' \in Nat
  <2>1. committing \in BOOLEAN
    BY <1>2 DEF LogTyped
  <2>2. ~panic' /\ panic' \in BOOLEAN
    BY <1>4, <1>5, <2>1, Zenon
  <2>3. outstanding' \in Nat
    BY <1>4, <1>5
  <2> QED
    BY <2>2, <2>3
<1>7. HeldBlocks(p) = {}
  BY <1>2, <1>3, <1>4 DEF Holdings, Holds
<1>8. CASE ~IsLast
  <2>1. /\ asleep' = Wakeup(LogChan) /\ pc' = [pc EXCEPT ![p] = AfterOp(p)]
        /\ UNCHANGED <<committing, job>>
    BY <1>8 DEF end_op, Goto
  <2>2. LogTyped'
    BY <1>2, <1>5, <1>6, <2>1, AfterOpIs DEF LogTyped
  <2>3. BufInv' /\ HeldSame /\ HeaderGood'
    BY <1>1, <1>2, <1>5, <1>6, <2>1, QuietStep, SleepsAre DEF HeaderOK
  <2>4. Others(p)
    BY <1>2, <1>5, <2>1, OthersAre
  <2>5. pc'[p] \in {"iunlock", "idle"} /\ left'[p] = left[p]
    BY <1>2, <1>5, <2>1, AfterOpIs DEF LogTyped
  <2>6. /\ ~Works(p)' /\ ~HasOne(p)' /\ ~InOp(p)'
        /\ pc[p] # "down" /\ pc'[p] # "down" /\ pc'[p] # "ilock"
    BY <1>1, <2>5 DEF Works, HasOne, InOp
  <2>7. Owes(p)' <= OPWRITES
    BY <1>2, <2>5, LogNumbers DEF Owes, LogTyped
  <2>8. Holds(p)'
    BY <1>7, <2>3, <2>6 DEF Holds, HeldSame
  <2>9. outstanding' + One(InOp(p)) = outstanding + One(InOp(p)')
    BY <1>3, <1>4, <1>5, <2>6 DEF One
  <2>10. LogInv'
    BY <1>1, <1>4, <1>5, <1>6, <2>1, <2>2, <2>3, <2>4, <2>6, <2>7, <2>8, <2>9, Moves DEF HeldSame
  <2> QED
    BY <1>6, <2>10
<1>9. CASE IsLast
  <2>1. /\ committing' = TRUE /\ job' = CommitJob /\ asleep' = asleep
        /\ pc' = [pc EXCEPT ![p] = "commit"] /\ outstanding = 1 /\ outstanding' = 0
    BY <1>5, <1>9 DEF end_op, Goto, IsLast
  <2>2. LogTyped'
    BY <1>2, <1>5, <1>6, <2>1, CommitJobIs DEF LogTyped, PCs
  <2>3. BufInv' /\ HeldSame /\ HeaderGood'
    BY <1>1, <1>2, <1>5, <1>6, <2>1, QuietStep, SleepsAre DEF HeaderOK
  <2>4. Others(p)
    BY <1>2, <1>5, <2>1, OthersAre
  <2>5. pc'[p] = "commit" /\ left'[p] = left[p]
    BY <1>2, <1>5, <2>1 DEF LogTyped
  <2>6. Works(p)' /\ ~InOp(p)' /\ \A q \in Procs \ {p} : ~Works(q)'
    BY <1>4, <2>4, <2>5, OthersSame DEF Works, InOp
  <2>7. \A q \in Procs : pc[q] # "recover" /\ pc[q] # "commit" /\ pc[q] # "down"
    BY <1>2, <1>4 DEF Works, Workers
  <2>8. \A q \in Procs \ {p} : pc'[q] = pc[q]
    BY <2>4 DEF Others
  <2>9. Workers'
    BY <2>1, <2>5, <2>6, <2>7, <2>8 DEF Workers
  <2>10. Jobs'
    <3>1. /\ CommitJob \in Copies(Len(lh')) \cup {Done}
          /\ CommitJob.stage \in {"write_log", "done"}
          /\ CommitJob.stage = "done" => lh' = <<>>
      BY <1>2, <1>5, CommitJobIs
    <3> QED
      BY <2>1, <2>5, <2>6, <2>7, <2>8, <3>1 DEF Jobs, JobOK
  <2>11. Locking'
    BY <1>2, <1>5, <2>5, <2>8 DEF Locking
  <2>12. Admitted'
    BY <1>2, <1>3, <1>4, <1>5, <1>6, <2>1, <2>4, <2>6, AdmittedKept DEF One
  <2>13. Fits'
    <3>1. Owes(p)' <= OPWRITES
      BY <1>2, <2>5, LogNumbers DEF Owes, LogTyped
    <3>2. \A q \in Procs : Owes(q)' <= OPWRITES
      BY <1>2, <2>4, <3>1, OthersSame DEF Fits
    <3> QED
      BY <2>1, <3>2 DEF Fits
  <2>14. Holdings'
    <3>1. job'.at \in {"", "log"}
      BY <1>2, <2>1, CommitJobIs
    <3>2. JobBlocks' = {}
      BY <3>1 DEF JobBlocks
    <3>3. Holds(p)'
      BY <1>7, <2>3, <2>6, <3>2 DEF Holds, HeldSame
    <3> QED
      BY <1>2, <1>4, <2>3, <2>4, <3>3, HoldingsKept DEF HeldSame
  <2> QED
    BY <1>2, <1>5, <1>6, <2>2, <2>3, <2>9, <2>10, <2>11, <2>12, <2>13, <2>14 DEF LogInv, Sound
<1> QED
  BY <1>8, <1>9
-----------------------------------------------------------------------------
(***************************************************************************)
(* One lemma for each action: commit and recovery.                         *)
(***************************************************************************)
LEMMA WorkerIs ==
  ASSUME LogTyped, Workers, Jobs, Admitted, NEW p \in Procs, Works(p)
  PROVE  /\ outstanding = 0 /\ ~InOp(p)
         /\ \A q \in Procs \ {p} : ~Works(q)
         /\ JobOK
         /\ pc[p] = "commit" => job.stage # "read_head"
         /\ pc[p] = "recover" => job.stage \notin {"write_log", "write_head"}
<1>1. \A q \in Procs \ {p} : ~Works(q)
  BY DEF Workers
<1>2. ~InOp(p)
  BY DEF Works, InOp
<1>3. outstanding = 0
  <2>1. CASE pc[p] = "commit"
    BY <2>1 DEF Workers, Admitted
  <2>2. CASE pc[p] = "recover"
    <3>1. \A q \in Procs : ~InOp(q)
      <4>1. \A q \in Procs \ {p} : pc[q] = "down"
        BY <2>2 DEF Workers
      <4> QED
        BY <1>2, <4>1 DEF InOp
    <3>2. {q \in Procs : InOp(q)} = {}
      BY <3>1
    <3> QED
      BY <3>2, FS_EmptySet DEF Admitted
  <2> QED
    BY <2>1, <2>2 DEF Works
<1> QED
  BY <1>1, <1>2, <1>3 DEF Jobs

\* The process that commits or recovers takes a step.
LEMMA JobMoves ==
  ASSUME LogInv, ~panic, NEW p \in Procs, Works(p),
         UNCHANGED <<outstanding, committing, pc, kind, left, calls, inode>>,
         disk' = disk, BufInv', HeaderGood', HeaderOK(lh'), job' \in JobRec,
         JobOK',
         pc[p] = "commit" => job'.stage # "read_head",
         pc[p] = "recover" => job'.stage \notin {"write_log", "write_head"},
         HeldBlocks(p)' = JobBlocks',
         \A q \in Procs \ {p} : HeldBlocks(q)' = HeldBlocks(q)
  PROVE  LogInv'
<1>1. /\ LogTyped /\ BufInv /\ HeaderOK(disk[Header]) /\ HeaderOK(lh)
      /\ Workers /\ Jobs /\ Locking /\ Admitted /\ Fits /\ HeaderGood /\ Holdings
  BY SoundParts
<1>2. LogTyped'
  BY <1>1 DEF LogTyped, HeaderOK
<1>3. outstanding = 0 /\ \A q \in Procs \ {p} : ~Works(q)
  BY <1>1, WorkerIs
<1>4. Works(p)' /\ \A q \in Procs : Works(q)' = Works(q) /\ InOp(q)' = InOp(q)
  BY DEF Works, InOp
<1>5. Workers'
  BY <1>1, <1>4 DEF Workers, Works
<1>6. Jobs'
  <2>1. \A q \in Procs : pc[q] \in {"commit", "recover"} => q = p
    BY <1>3 DEF Works
  <2> QED
    BY <2>1 DEF Jobs, Works
<1>7. Locking' /\ Admitted'
  BY <1>1, <1>4 DEF Locking, Admitted, InOp
<1>8. Fits'
  BY <1>1, <1>3 DEF Fits, Owes
<1>9. Others(p)
  BY DEF Others
<1>10. Holdings'
  <2>1. Holds(p)'
    BY <1>4 DEF Holds
  <2> QED
    BY <1>1, <1>3, <1>9, <2>1, HoldingsKept
<1> QED
  BY <1>1, <1>2, <1>5, <1>6, <1>7, <1>8, <1>10 DEF LogInv, Sound

\* What the process has at hand.
LEMMA WorkingIs ==
  ASSUME LogInv, NEW p \in Procs, NEW at, Working(p, at)
  PROVE  /\ ~panic /\ Works(p) /\ job.at = at /\ Ready(p) /\ io[p].at = "none"
         /\ LogTyped /\ BufInv /\ HeaderOK(lh) /\ HeaderOK(disk[Header])
         /\ JobOK
         /\ pc[p] = "commit" => job.stage # "read_head"
         /\ pc[p] = "recover" => job.stage \notin {"write_log", "write_head"}
         /\ HeldBlocks(p) = JobBlocks
         /\ \A q \in Procs \ {p} : ~Works(q)
<1>1. ~panic /\ Works(p) /\ job.at = at /\ Ready(p) /\ io[p].at = "none"
  BY DEF Working, Works, Ready
<1>2. /\ LogTyped /\ BufInv /\ HeaderOK(disk[Header]) /\ HeaderOK(lh)
      /\ Workers /\ Jobs /\ Locking /\ Admitted /\ Fits /\ HeaderGood /\ Holdings
  BY <1>1, SoundParts
<1>3. /\ JobOK
      /\ pc[p] = "commit" => job.stage # "read_head"
      /\ pc[p] = "recover" => job.stage \notin {"write_log", "write_head"}
      /\ \A q \in Procs \ {p} : ~Works(q)
  BY <1>1, <1>2, WorkerIs
<1>4. HeldBlocks(p) = JobBlocks
  BY <1>1, <1>2 DEF Holdings, Holds
<1> QED
  BY <1>1, <1>2, <1>3, <1>4

\* The block at job.tail, in the log and at home.
LEMMA CopyIs ==
  ASSUME LogTyped, HeaderOK(lh), job \in Copies(Len(lh))
  PROVE  /\ job.tail \in 1..Len(lh) /\ job.tail \in Nat /\ Len(lh) \in Nat /\ Len(lh) <= NLOG - 1
         /\ job.tail \in 1..NLOG-1 /\ lh[job.tail] \in Home
         /\ LogBlock(job.tail) \in Blocks /\ LogBlock(job.tail) \notin Home
         /\ LogBlock(job.tail) # Header /\ lh[job.tail] # Header /\ lh[job.tail] \in Blocks
         /\ job.stage \in {"write_log", "install_trans"}
         /\ \/ Source = lh[job.tail] /\ Target = LogBlock(job.tail)
            \/ Source = LogBlock(job.tail) /\ Target = lh[job.tail]
<1>1. job.tail \in 1..Len(lh) /\ job.stage \in {"write_log", "install_trans"}
  BY DEF Copies
<1>2. Len(lh) \in Nat /\ Len(lh) <= NLOG - 1 /\ NLOG \in Nat
  BY LogNumbers DEF HeaderOK
<1>3. job.tail \in 1..NLOG-1
  BY <1>1, <1>2
<1>4. lh[job.tail] \in Home
  BY <1>1, <1>2 DEF HeaderOK
<1>5. lh[job.tail] # Header /\ lh[job.tail] \in Blocks
  BY <1>4, LogNumbers
<1>6. LogBlock(job.tail) \in Blocks /\ LogBlock(job.tail) \notin Home
      /\ LogBlock(job.tail) # Header
  BY <1>3, LogBlocks
<1>7. \/ Source = lh[job.tail] /\ Target = LogBlock(job.tail)
      \/ Source = LogBlock(job.tail) /\ Target = lh[job.tail]
  BY DEF Source, Target
<1> QED
  BY <1>1, <1>2, <1>3, <1>4, <1>5, <1>6, <1>7

\* Which jobs stand where.
LEMMA JobsAt ==
  ASSUME JobOK
  PROVE  /\ job.at \in {"log", "home", "copy", "source"} => job \in Copies(Len(lh))
         /\ job.at = "head" => job \in Heads \cup Reads
         /\ job.at = "fill" => job \in Heads \cup Reads
         /\ job.at = "fill" /\ job.stage = "read_head" => job \in Reads
         /\ job.at \in {"fill", "target"} /\ job.stage \in {"write_head", "clear"} => job \in Heads
         /\ job.at = "target" /\ job.stage \in {"write_log", "install_trans"}
              => job \in Copies(Len(lh))
         /\ job.stage = "done" => job = Done
<1>1. job \in Copies(Len(lh)) => job.stage \in {"write_log", "install_trans"}
        /\ job.at \in {"log", "home", "copy", "source", "target"}
  BY DEF Copies
<1>2. job \in Heads => job.stage \in {"write_head", "clear"}
        /\ job.at \in {"head", "fill", "target"}
  BY DEF Heads
<1>3. job \in Reads => job.stage = "read_head" /\ job.at \in {"head", "fill"}
  BY DEF Reads
<1>4. job = Done => job.stage = "done" /\ job.at = ""
  <2>1. Done.stage = "done" /\ Done.at = ""
    BY DEF Done
  <2> QED
    BY <2>1
<1> QED
  BY <1>1, <1>2, <1>3, <1>4 DEF JobOK

\* The same job, one line further.
LEMMA JobAtIs ==
  ASSUME job \in JobRec, NEW at, JobAt(at)
  PROVE  /\ job' = [stage |-> job.stage, tail |-> job.tail, at |-> at]
         /\ job'.stage = job.stage /\ job'.tail = job.tail /\ job'.at = at
BY DEF JobAt, JobRec

LEMMA CopyGoes ==
  ASSUME job \in Copies(Len(lh)), lh' = lh, HeaderOK(lh),
         NEW at \in {"log", "home", "copy", "source", "target"},
         job' = [stage |-> job.stage, tail |-> job.tail, at |-> at]
  PROVE  JobOK' /\ job' \in JobRec
<1>1. /\ job.stage \in {"write_log", "install_trans"} /\ job.tail \in 1..Len(lh)
      /\ Len(lh) \in Nat
  BY DEF Copies, HeaderOK
<1>2. job' \in Copies(Len(lh)) /\ job'.stage \in {"write_log", "install_trans"}
  BY <1>1 DEF Copies
<1>3. job' \in JobRec
  <2>1. job.tail \in Nat
    BY <1>1
  <2>2. job.stage \in Stages
    BY <1>1 DEF Stages
  <2> QED
    BY <2>1, <2>2 DEF JobRec
<1> QED
  BY <1>2, <1>3 DEF JobOK

LEMMA BreadLogKeeps ==
  ASSUME LogInv, NEW p \in Procs, BreadLog(p)
  PROVE  LogInv' /\ (panic' => Recyclable = {})
<1>1. /\ Working(p, "log") /\ bget(p, LogBlock(job.tail)) /\ JobAt("home")
      /\ UNCHANGED <<lh, outstanding, committing, pc, kind, left, calls, inode>>
  BY DEF BreadLog
<1>2. /\ ~panic /\ Works(p) /\ job.at = "log" /\ LogTyped /\ BufInv /\ HeaderOK(lh)
      /\ JobOK
      /\ pc[p] = "commit" => job.stage # "read_head"
      /\ pc[p] = "recover" => job.stage \notin {"write_log", "write_head"}
      /\ HeldBlocks(p) = JobBlocks
  BY <1>1, WorkingIs
<1>3. job \in Copies(Len(lh)) /\ job \in JobRec
  BY <1>2, JobsAt DEF LogTyped
<1>4. LogBlock(job.tail) \in Blocks
  BY <1>2, <1>3, CopyIs
<1>5. /\ BufInv' /\ disk' = disk /\ (panic' => Recyclable = {})
      /\ \/ panic'
         \/ /\ ~panic' /\ Takes(p, LogBlock(job.tail))
            /\ HeaderOK(lh') => HeaderGood'
  BY <1>1, <1>4, GetStep
<1>6. /\ job' = [stage |-> job.stage, tail |-> job.tail, at |-> "home"]
      /\ job'.stage = job.stage /\ job'.tail = job.tail /\ job'.at = "home"
  BY <1>1, <1>3, JobAtIs
<1>7. JobOK' /\ job' \in JobRec /\ HeaderOK(lh')
  BY <1>1, <1>2, <1>3, <1>6, CopyGoes DEF HeaderOK
<1>8. CASE panic'
  <2>1. LogTyped'
    BY <1>1, <1>2, <1>7 DEF LogTyped
  <2> QED
    BY <1>5, <1>8, <2>1, Panics
<1>9. CASE ~panic'
  <2>1. HeldBlocks(p)' = JobBlocks'
    <3>1. JobBlocks = {} /\ JobBlocks' = {LogBlock(job.tail)}
      BY <1>2, <1>6 DEF JobBlocks, LogBlock
    <3> QED
      BY <1>2, <1>5, <1>9, <3>1 DEF Takes
  <2> QED
    BY <1>1, <1>2, <1>5, <1>6, <1>7, <1>9, <2>1, JobMoves DEF Takes
<1> QED
  BY <1>5, <1>8, <1>9

LEMMA BreadHomeKeeps ==
  ASSUME LogInv, NEW p \in Procs, BreadHome(p)
  PROVE  LogInv' /\ (panic' => Recyclable = {})
<1>1. /\ Working(p, "home") /\ bget(p, lh[job.tail]) /\ JobAt("copy")
      /\ UNCHANGED <<lh, outstanding, committing, pc, kind, left, calls, inode>>
  BY DEF BreadHome
<1>2. /\ ~panic /\ Works(p) /\ job.at = "home" /\ LogTyped /\ BufInv /\ HeaderOK(lh)
      /\ JobOK
      /\ pc[p] = "commit" => job.stage # "read_head"
      /\ pc[p] = "recover" => job.stage \notin {"write_log", "write_head"}
      /\ HeldBlocks(p) = JobBlocks
  BY <1>1, WorkingIs
<1>3. job \in Copies(Len(lh)) /\ job \in JobRec
  BY <1>2, JobsAt DEF LogTyped
<1>4. lh[job.tail] \in Blocks
  BY <1>2, <1>3, CopyIs
<1>5. /\ BufInv' /\ disk' = disk /\ (panic' => Recyclable = {})
      /\ \/ panic'
         \/ /\ ~panic' /\ Takes(p, lh[job.tail])
            /\ HeaderOK(lh') => HeaderGood'
  BY <1>1, <1>4, GetStep
<1>6. /\ job' = [stage |-> job.stage, tail |-> job.tail, at |-> "copy"]
      /\ job'.stage = job.stage /\ job'.tail = job.tail /\ job'.at = "copy"
  BY <1>1, <1>3, JobAtIs
<1>7. JobOK' /\ job' \in JobRec /\ HeaderOK(lh')
  BY <1>1, <1>2, <1>3, <1>6, CopyGoes DEF HeaderOK
<1>8. CASE panic'
  <2>1. LogTyped'
    BY <1>1, <1>2, <1>7 DEF LogTyped
  <2> QED
    BY <1>5, <1>8, <2>1, Panics
<1>9. CASE ~panic'
  <2>1. HeldBlocks(p)' = JobBlocks'
    <3>1. /\ JobBlocks = {LogBlock(job.tail)}
          /\ JobBlocks' = {LogBlock(job.tail), lh[job.tail]}
      BY <1>1, <1>2, <1>6 DEF JobBlocks, LogBlock
    <3> QED
      BY <1>2, <1>5, <1>9, <3>1 DEF Takes
  <2> QED
    BY <1>1, <1>2, <1>5, <1>6, <1>7, <1>9, <2>1, JobMoves DEF Takes
<1> QED
  BY <1>5, <1>8, <1>9

LEMMA CopyBlockKeeps ==
  ASSUME LogInv, NEW p \in Procs, CopyBlock(p)
  PROVE  LogInv' /\ ~panic'
<1>1. /\ Working(p, "copy") /\ JobAt("source")
      /\ bwrite(p, Mine(p, Target), buf[Mine(p, Source)].data)
      /\ UNCHANGED <<lh, outstanding, committing, pc, kind, left, calls, inode>>
  BY DEF CopyBlock
<1>2. /\ ~panic /\ Works(p) /\ job.at = "copy" /\ LogTyped /\ BufInv /\ HeaderOK(lh)
      /\ JobOK /\ io[p].at = "none"
      /\ pc[p] = "commit" => job.stage # "read_head"
      /\ pc[p] = "recover" => job.stage \notin {"write_log", "write_head"}
      /\ HeldBlocks(p) = JobBlocks
  BY <1>1, WorkingIs
<1>3. job \in Copies(Len(lh)) /\ job \in JobRec
  BY <1>2, JobsAt DEF LogTyped
<1>4. /\ LogBlock(job.tail) # Header /\ lh[job.tail] # Header
      /\ \/ Source = lh[job.tail] /\ Target = LogBlock(job.tail)
         \/ Source = LogBlock(job.tail) /\ Target = lh[job.tail]
  BY <1>2, <1>3, CopyIs
<1>5. HeldBlocks(p) = {LogBlock(job.tail), lh[job.tail]}
  BY <1>2 DEF JobBlocks
<1>6. Source \in HeldBlocks(p) /\ Target \in HeldBlocks(p) /\ Target # Header
  BY <1>4, <1>5
<1>7. /\ Mine(p, Target) \in Bufs /\ buf[Mine(p, Target)].lock = p
      /\ buf[Mine(p, Target)].block = Target /\ buf[Mine(p, Source)].data \in Content
  BY <1>2, <1>6, OwnsAre
<1>8. BufInv' /\ HeldSame
  BY <1>1, <1>2, <1>7, bwriteKeeps
<1>9. disk' = disk /\ panic' = panic
  BY <1>1 DEF bwrite
<1>10. HeaderGood'
  <2>1. PICK i \in Bufs : i = Mine(p, Target)
    BY <1>7
  <2>2. buf \in [Bufs -> BufRec]
    BY <1>2, TypeIs DEF BufInv
  <2>3. buf' = [buf EXCEPT ![i].data = buf[Mine(p, Source)].data, ![i].dirty = TRUE]
    BY <1>1, <2>1 DEF bwrite
  <2>4. Changed(i) /\ buf'[i].block = buf[i].block
    BY <1>7, <2>2, <2>3, SetWrite
  <2>5. buf'[i].block # Header
    BY <1>6, <1>7, <2>1, <2>4
  <2> QED
    BY <1>1, <1>2, <2>4, <2>5, HeadersKept, SoundParts DEF Changed, HeaderOK
<1>11. /\ job' = [stage |-> job.stage, tail |-> job.tail, at |-> "source"]
       /\ job'.stage = job.stage /\ job'.tail = job.tail /\ job'.at = "source"
  BY <1>1, <1>3, JobAtIs
<1>12. JobOK' /\ job' \in JobRec /\ HeaderOK(lh')
  BY <1>1, <1>2, <1>3, <1>11, CopyGoes DEF HeaderOK
<1>13. HeldBlocks(p)' = JobBlocks'
  <2>1. JobBlocks' = {LogBlock(job.tail), lh[job.tail]}
    BY <1>1, <1>11 DEF JobBlocks, LogBlock
  <2> QED
    BY <1>5, <1>8, <2>1 DEF HeldSame
<1> QED
  BY <1>1, <1>2, <1>8, <1>9, <1>10, <1>11, <1>12, <1>13, JobMoves DEF HeldSame

LEMMA ReleaseSourceKeeps ==
  ASSUME LogInv, NEW p \in Procs, ReleaseSource(p)
  PROVE  LogInv' /\ ~panic'
<1>1. /\ Working(p, "source") /\ JobAt("target") /\ releasesleep(p, Mine(p, Source))
      /\ UNCHANGED <<lh, outstanding, committing, pc, kind, left, calls, inode>>
  BY DEF ReleaseSource
<1>2. /\ ~panic /\ Works(p) /\ job.at = "source" /\ LogTyped /\ BufInv /\ HeaderOK(lh)
      /\ JobOK /\ io[p].at = "none"
      /\ pc[p] = "commit" => job.stage # "read_head"
      /\ pc[p] = "recover" => job.stage \notin {"write_log", "write_head"}
      /\ HeldBlocks(p) = JobBlocks
  BY <1>1, WorkingIs
<1>3. job \in Copies(Len(lh)) /\ job \in JobRec
  BY <1>2, JobsAt DEF LogTyped
<1>4. /\ lh[job.tail] \in Home /\ LogBlock(job.tail) \notin Home
      /\ job.stage \in {"write_log", "install_trans"}
      /\ \/ Source = lh[job.tail] /\ Target = LogBlock(job.tail)
         \/ Source = LogBlock(job.tail) /\ Target = lh[job.tail]
  BY <1>2, <1>3, CopyIs
<1>5. HeldBlocks(p) = {LogBlock(job.tail), lh[job.tail]}
  BY <1>2 DEF JobBlocks
<1>6. Source \in HeldBlocks(p) /\ HeldBlocks(p) \ {Source} = {Target}
  BY <1>4, <1>5
<1>7. /\ Mine(p, Source) \in Bufs /\ buf[Mine(p, Source)].lock = p
      /\ buf[Mine(p, Source)].block = Source
  BY <1>2, <1>6, OwnsAre
<1>8. /\ ~panic' /\ BufInv' /\ disk' = disk
      /\ Drops(p, Source) /\ (HeaderOK(lh') => HeaderGood')
  BY <1>1, <1>7, ReleaseStep
<1>9. /\ job' = [stage |-> job.stage, tail |-> job.tail, at |-> "target"]
      /\ job'.stage = job.stage /\ job'.tail = job.tail /\ job'.at = "target"
  BY <1>1, <1>3, JobAtIs
<1>10. JobOK' /\ job' \in JobRec /\ HeaderOK(lh')
  BY <1>1, <1>2, <1>3, <1>9, CopyGoes DEF HeaderOK
<1>11. HeldBlocks(p)' = JobBlocks'
  <2>1. Target' = Target
    BY <1>1, <1>9 DEF Target, LogBlock
  <2>2. JobBlocks' = {Target}
    BY <1>4, <1>9, <2>1 DEF JobBlocks
  <2> QED
    BY <1>6, <1>8, <2>2 DEF Drops
<1> QED
  BY <1>1, <1>2, <1>8, <1>9, <1>10, <1>11, JobMoves DEF Drops

LEMMA ReleaseTargetKeeps ==
  ASSUME LogInv, NEW p \in Procs, ReleaseTarget(p)
  PROVE  LogInv' /\ ~panic'
<1>1. /\ Working(p, "target") /\ job.stage \in {"write_log", "install_trans"}
      /\ releasesleep(p, Mine(p, Target))
      /\ IF job.tail < Len(lh)
           THEN job' = CopyJob(job.stage, job.tail + 1) /\ UNCHANGED lh
           ELSE /\ job' = After(job.stage)
                /\ lh' = IF job.stage = "install_trans" THEN <<>> ELSE lh
      /\ UNCHANGED <<outstanding, committing, pc, kind, left, calls, inode>>
  BY DEF ReleaseTarget
<1>2. /\ ~panic /\ Works(p) /\ job.at = "target" /\ LogTyped /\ BufInv /\ HeaderOK(lh)
      /\ JobOK /\ io[p].at = "none"
      /\ pc[p] = "commit" => job.stage # "read_head"
      /\ pc[p] = "recover" => job.stage \notin {"write_log", "write_head"}
      /\ HeldBlocks(p) = JobBlocks
  BY <1>1, WorkingIs
<1>3. job \in Copies(Len(lh)) /\ job \in JobRec
  BY <1>1, <1>2, JobsAt DEF LogTyped
<1>4. job.tail \in 1..Len(lh) /\ Len(lh) \in Nat
  BY <1>2, <1>3, CopyIs
<1>5. HeldBlocks(p) = {Target}
  BY <1>1, <1>2 DEF JobBlocks
<1>6. /\ Mine(p, Target) \in Bufs /\ buf[Mine(p, Target)].lock = p
      /\ buf[Mine(p, Target)].block = Target
  BY <1>2, <1>5, OwnsAre
<1>7. /\ ~panic' /\ BufInv' /\ disk' = disk
      /\ Drops(p, Target) /\ (HeaderOK(lh') => HeaderGood')
  BY <1>1, <1>6, ReleaseStep
<1>8. HeldBlocks(p)' = {}
  BY <1>5, <1>7 DEF Drops
<1>9. /\ JobOK' /\ job' \in JobRec /\ HeaderOK(lh') /\ job'.at \in {"log", "head"}
      /\ job'.stage \in {job.stage, "clear"} \/ (job.stage = "write_log" /\ job'.stage = "write_head")
  <2>1. CASE job.tail < Len(lh)
    <3>1. lh' = lh /\ job' = [stage |-> job.stage, tail |-> job.tail + 1, at |-> "log"]
      BY <1>1, <2>1 DEF CopyJob
    <3>2. job.tail + 1 \in 1..Len(lh) /\ job.tail + 1 \in Nat /\ job.stage \in Stages
      BY <1>1, <1>4, <2>1 DEF Stages
    <3>3. job' \in Copies(Len(lh)) /\ job' \in JobRec
      BY <1>1, <3>1, <3>2 DEF Copies, JobRec
    <3> QED
      BY <1>1, <1>2, <3>1, <3>3 DEF JobOK, HeaderOK
  <2>2. CASE ~(job.tail < Len(lh)) /\ job.stage = "write_log"
    <3>1. lh' = lh /\ job' = [stage |-> "write_head", tail |-> 0, at |-> "head"]
      BY <1>1, <2>2 DEF After, HeadJob
    <3>2. job' \in Heads /\ job' \in JobRec
      BY <3>1 DEF Heads, JobRec, Stages
    <3>3. lh # <<>>
      BY <1>4
    <3> QED
      BY <1>2, <2>2, <3>1, <3>2, <3>3 DEF JobOK, HeaderOK
  <2>3. CASE ~(job.tail < Len(lh)) /\ job.stage = "install_trans"
    <3>1. lh' = <<>> /\ job' = [stage |-> "clear", tail |-> 0, at |-> "head"]
      BY <1>1, <2>3 DEF After, HeadJob
    <3>2. job' \in Heads /\ job' \in JobRec
      BY <3>1 DEF Heads, JobRec, Stages
    <3>3. HeaderOK(<<>>)
      BY LogNumbers DEF HeaderOK
    <3> QED
      BY <1>2, <2>3, <3>1, <3>2, <3>3 DEF JobOK, HeaderOK
  <2> QED
    BY <1>1, <2>1, <2>2, <2>3
<1>10. HeldBlocks(p)' = JobBlocks'
  BY <1>8, <1>9 DEF JobBlocks
<1> QED
  BY <1>1, <1>2, <1>7, <1>9, <1>10, JobMoves DEF Drops

LEMMA HeadGoes ==
  ASSUME JobOK, job \in Heads \cup Reads, lh' = lh, NEW at \in {"fill", "target"},
         job' = [stage |-> job.stage, tail |-> job.tail, at |-> at],
         at = "target" => job.stage # "read_head"
  PROVE  JobOK' /\ job' \in JobRec
<1>1. CASE job \in Heads
  <2>1. job.stage \in {"write_head", "clear"} /\ job.tail = 0
    BY <1>1 DEF Heads
  <2>2. job.stage \in Stages /\ job.tail \in {0} /\ job.tail \in Nat
    BY <2>1 DEF Stages
  <2>3. job' \in Heads
    BY <2>1, <2>2 DEF Heads
  <2>4. job' \in JobRec
    BY <2>2 DEF JobRec
  <2>5. job'.stage = job.stage
    OBVIOUS
  <2> QED
    BY <2>1, <2>3, <2>4, <2>5 DEF JobOK
<1>2. CASE job \in Reads
  <2>1. job.stage = "read_head" /\ job.tail = 0 /\ at = "fill"
    BY <1>2 DEF Reads
  <2>2. job' \in Reads /\ job' \in JobRec
    BY <2>1 DEF Reads, JobRec, Stages
  <2> QED
    BY <2>2 DEF JobOK
<1> QED
  BY <1>1, <1>2

LEMMA BreadHeadKeeps ==
  ASSUME LogInv, NEW p \in Procs, BreadHead(p)
  PROVE  LogInv' /\ (panic' => Recyclable = {})
<1>1. /\ Working(p, "head") /\ bget(p, Header) /\ JobAt("fill")
      /\ UNCHANGED <<lh, outstanding, committing, pc, kind, left, calls, inode>>
  BY DEF BreadHead
<1>2. /\ ~panic /\ Works(p) /\ job.at = "head" /\ LogTyped /\ BufInv /\ HeaderOK(lh)
      /\ JobOK
      /\ pc[p] = "commit" => job.stage # "read_head"
      /\ pc[p] = "recover" => job.stage \notin {"write_log", "write_head"}
      /\ HeldBlocks(p) = JobBlocks
  BY <1>1, WorkingIs
<1>3. job \in Heads \cup Reads /\ job \in JobRec
  BY <1>2, JobsAt DEF LogTyped
<1>4. /\ BufInv' /\ disk' = disk /\ (panic' => Recyclable = {})
      /\ \/ panic'
         \/ ~panic' /\ Takes(p, Header) /\ (HeaderOK(lh') => HeaderGood')
  BY <1>1, LogNumbers, GetStep
<1>5. /\ job' = [stage |-> job.stage, tail |-> job.tail, at |-> "fill"]
      /\ job'.stage = job.stage /\ job'.tail = job.tail /\ job'.at = "fill"
  BY <1>1, <1>3, JobAtIs
<1>6. JobOK' /\ job' \in JobRec /\ HeaderOK(lh')
  BY <1>1, <1>2, <1>3, <1>5, HeadGoes DEF HeaderOK
<1>7. CASE panic'
  <2>1. LogTyped'
    BY <1>1, <1>2, <1>6 DEF LogTyped
  <2> QED
    BY <1>4, <1>7, <2>1, Panics
<1>8. CASE ~panic'
  <2>1. HeldBlocks(p)' = JobBlocks'
    <3>1. JobBlocks = {} /\ JobBlocks' = {Header}
      BY <1>2, <1>5 DEF JobBlocks, Header
    <3> QED
      BY <1>2, <1>4, <1>8, <3>1 DEF Takes
  <2> QED
    BY <1>1, <1>2, <1>4, <1>5, <1>6, <1>8, <2>1, JobMoves DEF Takes
<1> QED
  BY <1>4, <1>7, <1>8

LEMMA WriteHeadKeeps ==
  ASSUME LogInv, NEW p \in Procs, WriteHead(p)
  PROVE  LogInv' /\ ~panic'
<1>1. /\ Working(p, "fill") /\ job.stage \in {"write_head", "clear"} /\ JobAt("target")
      /\ bwrite(p, Mine(p, Header), lh)
      /\ UNCHANGED <<lh, outstanding, committing, pc, kind, left, calls, inode>>
  BY DEF WriteHead
<1>2. /\ ~panic /\ Works(p) /\ job.at = "fill" /\ LogTyped /\ BufInv /\ HeaderOK(lh)
      /\ JobOK /\ io[p].at = "none"
      /\ pc[p] = "commit" => job.stage # "read_head"
      /\ pc[p] = "recover" => job.stage \notin {"write_log", "write_head"}
      /\ HeldBlocks(p) = JobBlocks
  BY <1>1, WorkingIs
<1>3. job \in Heads /\ job \in JobRec
  BY <1>1, <1>2, JobsAt DEF LogTyped
<1>4. HeldBlocks(p) = {Header}
  BY <1>2 DEF JobBlocks
<1>5. /\ Mine(p, Header) \in Bufs /\ buf[Mine(p, Header)].lock = p
      /\ buf[Mine(p, Header)].block = Header
  BY <1>2, <1>4, OwnsAre
<1>6. lh \in Content
  <2>1. Home \subseteq Nat /\ lh \in Seq(Home)
    BY <1>2, LogNumbers DEF HeaderOK
  <2>2. lh \in [1..Len(lh) -> Home] /\ Len(lh) \in Nat
    BY <2>1
  <2>3. lh \in [1..Len(lh) -> Nat]
    BY <2>1, <2>2
  <2> QED
    BY <2>2, <2>3 DEF Content
<1>7. BufInv' /\ HeldSame
  BY <1>1, <1>2, <1>5, <1>6, bwriteKeeps
<1>8. disk' = disk /\ panic' = panic
  BY <1>1 DEF bwrite
<1>9. HeaderOK(lh')
  BY <1>1, <1>2 DEF HeaderOK
<1>10. HeaderGood'
  <2>1. PICK i \in Bufs : i = Mine(p, Header)
    BY <1>5
  <2>2. buf \in [Bufs -> BufRec]
    BY <1>2, TypeIs DEF BufInv
  <2>3. buf' = [buf EXCEPT ![i].data = lh, ![i].dirty = TRUE]
    BY <1>1, <2>1 DEF bwrite
  <2>4. Changed(i) /\ buf'[i].data = lh
    BY <1>6, <2>2, <2>3, SetWrite
  <2> QED
    BY <1>2, <1>9, <2>4, HeadersKept, SoundParts DEF Changed
<1>11. /\ job' = [stage |-> job.stage, tail |-> job.tail, at |-> "target"]
       /\ job'.stage = job.stage /\ job'.tail = job.tail /\ job'.at = "target"
  BY <1>1, <1>3, JobAtIs
<1>12. JobOK' /\ job' \in JobRec
  BY <1>1, <1>2, <1>3, <1>11, HeadGoes
<1>13. HeldBlocks(p)' = JobBlocks'
  <2>1. JobBlocks' = {Header}
    BY <1>1, <1>11 DEF JobBlocks, Header
  <2> QED
    BY <1>4, <1>7, <2>1 DEF HeldSame
<1> QED
  BY <1>1, <1>2, <1>7, <1>8, <1>9, <1>10, <1>11, <1>12, <1>13, JobMoves DEF HeldSame

LEMMA HeadWrittenKeeps ==
  ASSUME LogInv, NEW p \in Procs, HeadWritten(p)
  PROVE  LogInv' /\ ~panic'
<1>1. /\ Working(p, "target") /\ job.stage \in {"write_head", "clear"}
      /\ releasesleep(p, Mine(p, Header)) /\ job' = After(job.stage)
      /\ UNCHANGED <<lh, outstanding, committing, pc, kind, left, calls, inode>>
  BY DEF HeadWritten
<1>2. /\ ~panic /\ Works(p) /\ job.at = "target" /\ LogTyped /\ BufInv /\ HeaderOK(lh)
      /\ JobOK /\ io[p].at = "none"
      /\ pc[p] = "commit" => job.stage # "read_head"
      /\ pc[p] = "recover" => job.stage \notin {"write_log", "write_head"}
      /\ HeldBlocks(p) = JobBlocks
  BY <1>1, WorkingIs
<1>3. HeldBlocks(p) = {Header}
  BY <1>1, <1>2 DEF JobBlocks
<1>4. /\ Mine(p, Header) \in Bufs /\ buf[Mine(p, Header)].lock = p
      /\ buf[Mine(p, Header)].block = Header
  BY <1>2, <1>3, OwnsAre
<1>5. /\ ~panic' /\ BufInv' /\ disk' = disk
      /\ Drops(p, Header) /\ (HeaderOK(lh') => HeaderGood')
  BY <1>1, <1>4, ReleaseStep
<1>6. HeldBlocks(p)' = {}
  BY <1>3, <1>5 DEF Drops
<1>7. HeaderOK(lh')
  BY <1>1, <1>2 DEF HeaderOK
<1>8. /\ JobOK' /\ job' \in JobRec /\ job'.at \in {"log", ""}
      /\ job'.stage \in {"install_trans", "done"}
  <2>1. CASE job.stage = "write_head"
    <3>1. job' = [stage |-> "install_trans", tail |-> 1, at |-> "log"]
      BY <1>1, <2>1 DEF After, CopyJob
    <3>2. Len(lh) \in Nat /\ Len(lh) # 0
      BY <1>2, <2>1 DEF JobOK, HeaderOK
    <3>3. job' \in Copies(Len(lh')) /\ job' \in JobRec
      BY <1>1, <3>1, <3>2 DEF Copies, JobRec, Stages
    <3> QED
      BY <3>1, <3>3 DEF JobOK
  <2>2. CASE job.stage = "clear"
    <3>1. job' = Done
      BY <1>1, <2>2 DEF After, NoJob, Done
    <3>2. Done \in JobRec /\ Done.stage = "done" /\ Done.at = ""
      BY JobParts DEF Done
    <3> QED
      BY <1>1, <1>2, <2>2, <3>1, <3>2 DEF JobOK
  <2> QED
    BY <1>1, <2>1, <2>2
<1>9. HeldBlocks(p)' = JobBlocks'
  BY <1>6, <1>8 DEF JobBlocks
<1> QED
  BY <1>1, <1>2, <1>5, <1>7, <1>8, <1>9, JobMoves DEF Drops

LEMMA ReadHeadKeeps ==
  ASSUME LogInv, NEW p \in Procs, ReadHead(p)
  PROVE  LogInv' /\ ~panic'
<1>1. /\ Working(p, "fill") /\ job.stage = "read_head"
      /\ lh' = buf[Mine(p, Header)].data /\ job' = Recovery(lh')
      /\ releasesleep(p, Mine(p, Header))
      /\ UNCHANGED <<outstanding, committing, pc, kind, left, calls, inode>>
  BY DEF ReadHead
<1>2. /\ ~panic /\ Works(p) /\ job.at = "fill" /\ LogTyped /\ BufInv
      /\ JobOK /\ io[p].at = "none"
      /\ pc[p] = "commit" => job.stage # "read_head"
      /\ HeldBlocks(p) = JobBlocks
  BY <1>1, WorkingIs
<1>3. HeldBlocks(p) = {Header}
  BY <1>2 DEF JobBlocks
<1>4. /\ Mine(p, Header) \in Bufs /\ buf[Mine(p, Header)].lock = p
      /\ buf[Mine(p, Header)].block = Header /\ buf[Mine(p, Header)].valid
  BY <1>2, <1>3, OwnsAre
<1>5. /\ ~panic' /\ BufInv' /\ disk' = disk
      /\ Drops(p, Header) /\ (HeaderOK(lh') => HeaderGood')
  BY <1>1, <1>4, ReleaseStep
<1>6. HeldBlocks(p)' = {}
  BY <1>3, <1>5 DEF Drops
<1>7. HeaderOK(lh')
  BY <1>1, <1>2, <1>4, SoundParts DEF HeaderGood
<1>8. /\ JobOK' /\ job' \in JobRec /\ job'.at \in {"log", "head"}
      /\ job'.stage \in {"install_trans", "clear"}
  <2>1. CASE lh' = <<>>
    <3>1. job' = [stage |-> "clear", tail |-> 0, at |-> "head"]
      BY <1>1, <2>1 DEF Recovery, HeadJob
    <3>2. job' \in Heads /\ job' \in JobRec
      BY <3>1 DEF Heads, JobRec, Stages
    <3> QED
      BY <2>1, <3>1, <3>2 DEF JobOK
  <2>2. CASE lh' # <<>>
    <3>1. job' = [stage |-> "install_trans", tail |-> 1, at |-> "log"]
      BY <1>1, <2>2 DEF Recovery, CopyJob
    <3>2. Len(lh') \in Nat /\ Len(lh') # 0
      BY <1>7, <2>2 DEF HeaderOK
    <3>3. job' \in Copies(Len(lh')) /\ job' \in JobRec
      BY <3>1, <3>2 DEF Copies, JobRec, Stages
    <3> QED
      BY <3>1, <3>3 DEF JobOK
  <2> QED
    BY <2>1, <2>2
<1>9. HeldBlocks(p)' = JobBlocks'
  BY <1>6, <1>8 DEF JobBlocks
<1> QED
  BY <1>1, <1>2, <1>5, <1>7, <1>8, <1>9, JobMoves DEF Drops

\* The end of a commit and of a recovery.
LEMMA DoneIs ==
  ASSUME LogInv, NEW p \in Procs, Ready(p), Works(p), job.stage = "done"
  PROVE  /\ ~panic /\ LogTyped /\ BufInv /\ HeaderOK(lh) /\ lh = <<>> /\ job.at = ""
         /\ outstanding = 0 /\ ~InOp(p) /\ HeldBlocks(p) = {}
         /\ \A q \in Procs \ {p} : ~Works(q)
<1>1. ~panic
  BY DEF Ready
<1>2. /\ LogTyped /\ BufInv /\ HeaderOK(disk[Header]) /\ HeaderOK(lh)
      /\ Workers /\ Jobs /\ Locking /\ Admitted /\ Fits /\ HeaderGood /\ Holdings
  BY <1>1, SoundParts
<1>3. outstanding = 0 /\ ~InOp(p) /\ JobOK /\ \A q \in Procs \ {p} : ~Works(q)
  BY <1>2, WorkerIs
<1>4. lh = <<>> /\ job = Done
  BY <1>3, JobsAt DEF JobOK
<1>5. job.at = "" /\ JobBlocks = {}
  BY <1>4 DEF Done, JobBlocks
<1> QED
  BY <1>1, <1>2, <1>3, <1>4, <1>5 DEF Holdings, Holds

LEMMA CommitDoneKeeps ==
  ASSUME LogInv, NEW p \in Procs, CommitDone(p)
  PROVE  LogInv' /\ ~panic'
<1>1. /\ Ready(p) /\ pc[p] = "commit" /\ job.stage = "done"
      /\ committing' = FALSE /\ asleep' = Wakeup(LogChan) /\ job' = NoJob
      /\ pc' = [pc EXCEPT ![p] = AfterOp(p)]
      /\ UNCHANGED <<lh, outstanding, kind, left, calls, inode>>
      /\ UNCHANGED <<buf, mru, idequeue, drive, disk, io, panic>>
  BY DEF CommitDone, At, Goto
<1>2. /\ ~panic /\ Works(p) /\ LogTyped /\ BufInv /\ HeaderOK(lh) /\ lh = <<>>
      /\ outstanding = 0 /\ ~InOp(p) /\ HeldBlocks(p) = {}
      /\ \A q \in Procs \ {p} : ~Works(q)
  BY <1>1, DoneIs DEF Works
<1>3. /\ HeaderOK(disk[Header]) /\ panic \in BOOLEAN
      /\ Workers /\ Jobs /\ Locking /\ Admitted /\ Fits /\ HeaderGood /\ Holdings
  BY <1>2, SoundParts
<1>4. LogTyped'
  BY <1>1, <1>2, AfterOpIs, JobParts DEF LogTyped
<1>5. BufInv' /\ HeldSame /\ HeaderGood'
  BY <1>1, <1>2, <1>3, QuietStep, SleepsAre DEF HeaderOK
<1>6. Others(p)
  BY <1>1, <1>2, OthersAre
<1>7. pc'[p] \in {"iunlock", "idle"} /\ left'[p] = left[p]
  BY <1>1, <1>2, AfterOpIs DEF LogTyped
<1>8. ~Works(p)' /\ ~HasOne(p)' /\ ~InOp(p)' /\ pc'[p] # "down" /\ pc'[p] # "ilock"
  BY <1>7 DEF Works, HasOne, InOp
<1>9. \A q \in Procs : ~Works(q)' /\ pc'[q] # "down"
  <2>1. ASSUME NEW q \in Procs \ {p} PROVE ~Works(q)' /\ pc'[q] # "down"
    <3>1. pc'[q] = pc[q] /\ ~Works(q)
      BY <1>2, <1>6 DEF Others
    <3>2. pc[q] # "down"
      <4>1. \A r \in Procs : pc[r] # "recover"
        BY <1>1, <1>2 DEF Works
      <4> QED
        BY <1>3, <4>1 DEF Workers
    <3> QED
      BY <3>1, <3>2 DEF Works
  <2> QED
    BY <1>8, <2>1
<1>10. Workers' /\ Jobs'
  BY <1>1, <1>9 DEF Workers, Jobs, Works
<1>11. Locking'
  BY <1>1, <1>3, <1>6, <1>8 DEF Locking, Others
<1>12. Admitted'
  BY <1>1, <1>2, <1>3, <1>6, <1>8, AdmittedKept DEF One
<1>13. Fits'
  <2>1. Owes(p)' <= OPWRITES
    BY <1>2, <1>7, LogNumbers DEF Owes, LogTyped
  <2> QED
    BY <1>1, <1>2, <1>3, <1>4, <1>6, <1>8, <2>1, FitsKept
<1>14. Holdings'
  <2>1. Holds(p)'
    BY <1>2, <1>5, <1>8 DEF Holds, HeldSame
  <2> QED
    BY <1>2, <1>3, <1>5, <1>6, <2>1, HoldingsKept DEF HeldSame
<1> QED
  BY <1>1, <1>2, <1>3, <1>4, <1>5, <1>10, <1>11, <1>12, <1>13, <1>14 DEF LogInv, Sound

LEMMA RecoveredKeeps ==
  ASSUME LogInv, NEW p \in Procs, Recovered(p)
  PROVE  LogInv' /\ ~panic'
<1>1. /\ Ready(p) /\ pc[p] = "recover" /\ job.stage = "done"
      /\ pc' = [q \in Procs |-> "idle"] /\ job' = NoJob
      /\ UNCHANGED <<lh, outstanding, committing, kind, left, calls, inode>>
      /\ UNCHANGED <<buf, mru, idequeue, drive, disk, io, asleep, panic>>
  BY DEF Recovered, At, bufVars
<1>2. /\ ~panic /\ Works(p) /\ LogTyped /\ BufInv /\ HeaderOK(lh) /\ lh = <<>>
      /\ outstanding = 0 /\ ~InOp(p) /\ HeldBlocks(p) = {}
      /\ \A q \in Procs \ {p} : ~Works(q)
  BY <1>1, DoneIs DEF Works
<1>3. /\ HeaderOK(disk[Header]) /\ panic \in BOOLEAN
      /\ Workers /\ Jobs /\ Locking /\ Admitted /\ Fits /\ HeaderGood /\ Holdings
  BY <1>2, SoundParts
<1>4. LogTyped'
  BY <1>1, <1>2, JobParts DEF LogTyped, PCs
<1>5. BufInv' /\ HeldSame /\ HeaderGood'
  BY <1>1, <1>2, <1>3, QuietStep, SleepsAre DEF HeaderOK
<1>6. \A q \in Procs : /\ pc'[q] = "idle" /\ ~Works(q)' /\ ~HasOne(q)' /\ ~InOp(q)'
                       /\ Owes(q)' = left[q] + 0
  BY <1>1 DEF Works, HasOne, InOp, Owes
<1>7. \A q \in Procs \ {p} : pc[q] = "down"
  BY <1>1, <1>3 DEF Workers
<1>8. ~committing
  BY <1>1, <1>2, <1>3 DEF Workers, Works
<1>9. Workers' /\ Jobs' /\ Locking'
  BY <1>1, <1>6, <1>8 DEF Workers, Jobs, Locking
<1>10. Admitted'
  <2>1. {q \in Procs : InOp(q)'} = {}
    BY <1>6
  <2> QED
    BY <1>1, <1>2, <1>8, <2>1, FS_EmptySet DEF Admitted
<1>11. Fits'
  BY <1>1, <1>2, <1>6, LogNumbers DEF Fits, LogTyped
<1>12. Holdings'
  <2>1. \A q \in Procs : HeldBlocks(q) = {}
    BY <1>2, <1>3, <1>7 DEF Holdings, Holds, HasOne
  <2> QED
    BY <1>5, <1>6, <2>1 DEF Holdings, Holds, HeldSame
<1> QED
  BY <1>1, <1>2, <1>3, <1>4, <1>5, <1>9, <1>10, <1>11, <1>12 DEF LogInv, Sound
-----------------------------------------------------------------------------
(***************************************************************************)
(* The start, the restart and every step.                                  *)
(***************************************************************************)
LEMMA FirstJob ==
  ASSUME NEW j, j = HeadJob("read_head")
  PROVE  j \in Reads /\ j \in JobRec /\ j.stage = "read_head" /\ j.at = "head"
BY DEF HeadJob, Reads, JobRec, Stages

LEMMA BootPcIs ==
  /\ BootPc \in [Procs -> PCs] /\ BootPc[BootProc] = "recover"
  /\ \A p \in Procs \ {BootProc} : BootPc[p] = "down"
BY LogNumbers DEF BootPc, PCs

LEMMA EmptyHeader == HeaderOK(<<>>) /\ <<>> \in Seq(Home)
BY LogNumbers DEF HeaderOK

LEMMA InitHolds == Init => LogInv
<1> SUFFICES ASSUME Init PROVE LogInv
  OBVIOUS
<1>1. /\ BufBoot /\ lh = <<>> /\ outstanding = 0 /\ committing = FALSE /\ pc = BootPc
      /\ disk = [b \in Blocks |-> IF b = Header THEN <<>> ELSE <<NoProc>>]
      /\ kind = [p \in Procs |-> "read"] /\ left = [p \in Procs |-> 0]
      /\ calls = [p \in Procs |-> CALLS] /\ job = HeadJob("read_head") /\ inode = NoProc
  BY DEF Init
<1>2. disk \in [Blocks -> Content] /\ HeaderOK(disk[Header])
  BY <1>1, LogNumbers, EmptyHeader DEF Content, NoProc
<1>3. BufInv /\ \A p \in Procs : HeldBlocks(p) = {}
  BY <1>1, <1>2, BootHolds
<1>4. job \in Reads /\ job \in JobRec /\ job.stage = "read_head" /\ job.at = "head"
  BY <1>1, FirstJob
<1>5. LogTyped
  <2>1. left \in [Procs -> 0..OPWRITES] /\ calls \in [Procs -> 0..CALLS]
    BY <1>1, LogNumbers
  <2>2. kind \in [Procs -> {"plain", "write", "wunmap", "read"}] /\ pc \in [Procs -> PCs]
    BY <1>1, BootPcIs
  <2>3. lh \in Seq(Home) /\ outstanding \in Nat /\ committing \in BOOLEAN
        /\ inode \in Procs \cup {NoProc}
    BY <1>1, EmptyHeader
  <2> QED
    BY <1>4, <2>1, <2>2, <2>3 DEF LogTyped
<1>6. /\ \A p \in Procs : Works(p) <=> p = BootProc
      /\ \A p \in Procs : pc[p] # "commit" /\ ~InOp(p) /\ ~HasOne(p) /\ pc[p] # "ilock"
      /\ \A p \in Procs : pc[p] = "recover" <=> p = BootProc
      /\ \A p \in Procs \ {BootProc} : pc[p] = "down"
  BY <1>1, BootPcIs DEF Works, InOp, HasOne
<1>7. Workers
  BY <1>1, <1>6, LogNumbers DEF Workers
<1>8. Jobs /\ Locking
  BY <1>1, <1>4, <1>6 DEF Jobs, JobOK, Locking
<1>9. Admitted
  <2>1. {p \in Procs : InOp(p)} = {}
    BY <1>6
  <2> QED
    BY <1>1, <2>1, FS_EmptySet DEF Admitted
<1>10. Fits
  <2>1. \A p \in Procs : left[p] = 0 /\ pc[p] \notin {"modify", "append"}
    BY <1>1, <1>6 DEF HasOne
  <2>2. \A p \in Procs : Owes(p) = 0
    BY <2>1 DEF Owes
  <2> QED
    BY <1>1, <2>2, LogNumbers DEF Fits
<1>11. HeaderGood
  <2>1. \A i \in Bufs : ~buf[i].valid
    BY <1>1 DEF BufBoot, EmptyBuf
  <2> QED
    BY <1>1, <2>1, EmptyHeader DEF HeaderGood
<1>12. Holdings
  <2>1. JobBlocks = {}
    BY <1>4 DEF JobBlocks
  <2> QED
    BY <1>3, <1>6, <2>1 DEF Holdings, Holds
<1> QED
  BY <1>2, <1>3, <1>5, <1>7, <1>8, <1>9, <1>10, <1>11, <1>12 DEF LogInv, Sound

\* The machine may stop anywhere: the same as above, from what the disk has.
LEMMA CrashKeeps ==
  ASSUME LogInv, Crash
  PROVE  LogInv' /\ ~panic'
<1>1. /\ BufReset /\ lh' = <<>> /\ outstanding' = 0 /\ committing' = FALSE /\ pc' = BootPc
      /\ kind' = [p \in Procs |-> "read"] /\ left' = [p \in Procs |-> 0]
      /\ calls' = calls /\ job' = HeadJob("read_head") /\ inode' = NoProc
      /\ disk' = disk /\ panic' = FALSE
  BY DEF Crash, BufReset
<1>2. LogTyped /\ disk \in [Blocks -> Content] /\ HeaderOK(disk[Header])
  BY TypeIs DEF LogInv, BufInv
<1>3. BufInv' /\ \A p \in Procs : HeldBlocks(p)' = {}
  BY <1>1, <1>2, ResetHolds
<1>4. job' \in Reads /\ job' \in JobRec /\ job'.stage = "read_head" /\ job'.at = "head"
  BY <1>1, FirstJob
<1>5. LogTyped'
  <2>1. left' \in [Procs -> 0..OPWRITES]
    BY <1>1, LogNumbers
  <2>2. calls' \in [Procs -> 0..CALLS]
    BY <1>1, <1>2 DEF LogTyped
  <2>3. kind' \in [Procs -> {"plain", "write", "wunmap", "read"}] /\ pc' \in [Procs -> PCs]
    BY <1>1, BootPcIs
  <2>4. lh' \in Seq(Home) /\ outstanding' \in Nat /\ committing' \in BOOLEAN
        /\ inode' \in Procs \cup {NoProc}
    BY <1>1, EmptyHeader
  <2> QED
    BY <1>4, <2>1, <2>2, <2>3, <2>4 DEF LogTyped
<1>6. /\ \A p \in Procs : Works(p)' <=> p = BootProc
      /\ \A p \in Procs : pc'[p] # "commit" /\ ~InOp(p)' /\ ~HasOne(p)' /\ pc'[p] # "ilock"
      /\ \A p \in Procs : pc'[p] = "recover" <=> p = BootProc
      /\ \A p \in Procs \ {BootProc} : pc'[p] = "down"
  BY <1>1, BootPcIs DEF Works, InOp, HasOne
<1>7. Workers'
  BY <1>1, <1>6, LogNumbers DEF Workers
<1>8. Jobs' /\ Locking'
  BY <1>1, <1>4, <1>6 DEF Jobs, JobOK, Locking
<1>9. Admitted'
  <2>1. {p \in Procs : InOp(p)'} = {}
    BY <1>6
  <2> QED
    BY <1>1, <2>1, FS_EmptySet DEF Admitted
<1>10. Fits'
  <2>1. \A p \in Procs : left'[p] = 0 /\ pc'[p] \notin {"modify", "append"}
    BY <1>1, <1>6 DEF HasOne
  <2>2. \A p \in Procs : Owes(p)' = 0
    BY <2>1 DEF Owes
  <2> QED
    BY <1>1, <2>2, LogNumbers DEF Fits
<1>11. HeaderGood'
  <2>1. \A i \in Bufs : ~buf'[i].valid
    BY <1>1 DEF BufReset, EmptyBuf
  <2> QED
    BY <1>1, <2>1, EmptyHeader DEF HeaderGood
<1>12. Holdings'
  <2>1. JobBlocks' = {}
    BY <1>4 DEF JobBlocks
  <2> QED
    BY <1>3, <1>6, <2>1 DEF Holdings, Holds
<1> QED
  BY <1>1, <1>2, <1>3, <1>5, <1>7, <1>8, <1>9, <1>10, <1>11, <1>12 DEF LogInv, Sound

\* bget() is the only place that stops the kernel.
LEMMA StepHolds ==
  ASSUME LogInv, [Next]_vars
  PROVE  LogInv' /\ (panic' /\ ~panic => Recyclable = {})
<1>1. CASE UNCHANGED vars
  <2>1. UNCHANGED <<buf, mru, idequeue, drive, disk, io, asleep, panic>> /\ UNCHANGED logVars
    BY <1>1 DEF vars, bufVars
  <2>2. CASE ~panic
    BY <2>1, <2>2, Waits, TypeIs DEF LogInv, BufInv
  <2>3. CASE panic
    <3>1. LogTyped'
      BY <2>1 DEF LogInv, LogTyped, logVars
    <3>2. BufInv'
      BY <2>1, OutsideKeeps, SleepsAre, TypeIs DEF LogInv, BufInv
    <3> QED
      BY <2>1, <2>3, <3>1, <3>2, Panics
  <2> QED
    BY <2>1, <2>2, <2>3
<1>2. CASE Crash
  BY <1>2, CrashKeeps
<1>3. CASE Device \/ \E p \in Procs : (CallStep(p) /\ UNCHANGED logVars) \/ Killed(p)
  <2>1. LogInv' /\ ~panic
    BY <1>3, InsideStep DEF Device, Killed
  <2>2. panic' = panic
    <3>1. ASSUME NEW p \in Procs, CallStep(p) \/ Rouse(p) PROVE panic' = panic
      BY <3>1, CallsKeepData DEF LogInv
    <3>2. CASE Hardware
      BY <3>2 DEF Hardware, Transfer, ideintr
    <3> QED
      BY <1>3, <3>1, <3>2 DEF Device, Killed
  <2> QED
    BY <2>1, <2>2
<1>4. ASSUME NEW p \in Procs, UserStep(p)
      PROVE  LogInv' /\ (panic' /\ ~panic => Recyclable = {})
  BY <1>4, CallKeeps, CallReadKeeps DEF UserStep
<1>5. ASSUME NEW p \in Procs, OpStep(p)
      PROVE  LogInv' /\ (panic' /\ ~panic => Recyclable = {})
  BY <1>5, beginKeeps, ilockKeeps, iunlockKeeps, ModifyKeeps, log_writeKeeps, LoggedKeeps,
     end_opKeeps, breadKeeps DEF OpStep
<1>6. ASSUME NEW p \in Procs, JobStep(p)
      PROVE  LogInv' /\ (panic' /\ ~panic => Recyclable = {})
  BY <1>6, BreadLogKeeps, BreadHomeKeeps, CopyBlockKeeps, ReleaseSourceKeeps,
     ReleaseTargetKeeps, BreadHeadKeeps, WriteHeadKeeps, HeadWrittenKeeps, ReadHeadKeeps,
     RecoveredKeeps, CommitDoneKeeps DEF JobStep
<1> QED
  BY <1>1, <1>2, <1>3, <1>4, <1>5, <1>6 DEF Next, Kernel

\* The invariant holds at every reachable state: who works for the log, what it
\* holds, what begin_op() has reserved and what the header may name.  (log.c.)
THEOREM LogInvariant == Spec => []LogInv
<1>1. Init => LogInv
  BY InitHolds
<1>2. LogInv /\ [Next]_vars => LogInv'
  BY StepHolds
<1> QED
  BY <1>1, <1>2, PTL DEF Spec

\* A block is in the cache once and the counts of its buffers are exact, for any
\* number of processes that read, write, commit and crash.  (bio.c: bget, brelse.)
THEOREM CacheIsSound == Spec => []CacheSound
<1>1. LogInv => CacheSound
  BY TypeParts DEF LogInv, BufInv, CacheSound
<1> QED
  BY <1>1, LogInvariant, PTL

-----------------------------------------------------------------------------
(***************************************************************************)
(* What the buffers, the log and the disk say of the blocks' contents.     *)
(***************************************************************************)
\* A block as the cache has it, or else the disk has it.
Cached(b, i) == buf[i].block = b /\ buf[i].valid
View ==
  [b \in Home |->
     IF \E i \in Bufs : Cached(b, i)
     THEN buf[CHOOSE i \in Bufs : Cached(b, i)].data ELSE disk[b]]

\* Between the change of a block and log_write()'s mark.
Dirties(i) == buf[i].lock \in Procs /\ pc[buf[i].lock] = "append"

\* An unmarked buffer has what the disk has.
Clean ==
  \A i \in Bufs :
    buf[i].valid /\ ~buf[i].dirty /\ ~Dirties(i) => buf[i].data = disk[buf[i].block]
\* The command that the drive has done is the one at the head of the queue.
Written ==
  LET i == Head(idequeue)
  IN  drive = "done" /\ buf[i].dirty => disk[buf[i].block] = buf[i].data
\* A marked buffer is in the log, or on its way to the disk.
Pinned ==
  \A i \in Bufs :
    buf[i].dirty => IF buf[i].block \in Home THEN buf[i].block \in ToSet(lh) ELSE Busy(i)
\* Only commit and recovery write.
ForWorker(i) == Works(buf[i].lock) /\ job.at \in {"source", "target"}
Writing == \A i \in Bufs : buf[i].dirty /\ Busy(i) => ForWorker(i)
BufData == Clean /\ Written /\ Pinned /\ Writing

\* The log is empty when nothing goes on.
Quiet == outstanding = 0 /\ (\A p \in Procs : ~Works(p)) => lh = <<>>

\* The block that bwrite() was called for, and the contents it must get.
Out == IF job.stage \in {"write_log", "install_trans"} THEN Target ELSE Header
Wanted ==
  IF job.stage = "write_log" THEN View[lh[job.tail]]
  ELSE IF job.stage = "install_trans" THEN disk[LogBlock(job.tail)]
  ELSE lh
Wrote == job.at \in {"source", "target"}
Landed ==
  \A w \in Procs :
    Works(w) /\ Wrote =>
      /\ io[w].at # "lock"
      /\ io[w].at \in {"rw", "wait"} =>
           buf[io[w].buf].block = Out /\ buf[io[w].buf].valid
      /\ io[w].at \notin {"rw", "wait"} =>
           \A i \in Bufs : buf[i].lock = w /\ buf[i].block = Out => ~buf[i].dirty
Copied ==
  \A w \in Procs :
    Works(w) /\ Wrote =>
      \A i \in Bufs : buf[i].lock = w /\ buf[i].block = Out => buf[i].data = Wanted

\* The header on disk says what of the log blocks counts.
InLog(s) == disk[LogBlock(s)] = View[lh[s]]
Installed(s) ==
  /\ disk[lh[s]] = disk[LogBlock(s)]
  /\ \A i \in Bufs : buf[i].dirty => buf[i].block # lh[s]
Emptied == job.stage \in {"none", "done"} => disk[Header] = <<>>
Logging ==
  job.stage = "write_log" =>
    disk[Header] = <<>> /\ \A s \in 1..job.tail - 1 : InLog(s)
Committing ==
  job.stage = "write_head" =>
    /\ \A s \in DOMAIN lh : InLog(s)
    /\ disk[Header] = <<>> \/ (disk[Header] = lh /\ job.at = "target")
Installing ==
  job.stage = "install_trans" =>
    /\ disk[Header] = lh
    /\ \A s \in 1..job.tail - 1 : Installed(s)
    /\ committing => \A s \in DOMAIN lh : InLog(s)
Clearing ==
  job.stage = "clear" =>
    \A s \in DOMAIN disk[Header] : disk[disk[Header][s]] = disk[LogBlock(s)]
Stage == Emptied /\ Logging /\ Committing /\ Installing /\ Clearing
JobData == Quiet /\ Landed /\ Copied /\ Stage

\* After a panic nothing is written any more, and no operation ends.
DataInv == LogInv /\ IF panic THEN QuietIsDurable ELSE BufData /\ JobData

LEMMA StoreIs ==
  /\ Store = [b \in Home |-> IF \E p \in Procs : pc[p] = "recover" THEN Saved[b] ELSE View[b]]
  /\ Store' = [b \in Home |-> IF \E p \in Procs : pc'[p] = "recover" THEN Saved'[b] ELSE View'[b]]
BY DEF Store, View, Cached

LEMMA ViewIs ==
  ASSUME BufInv, NEW b \in Home
  PROVE  /\ \A i \in Bufs : Cached(b, i) => View[b] = buf[i].data
         /\ (\A i \in Bufs : ~Cached(b, i)) => View[b] = disk[b]
<1>1. b # NoBlock
  BY LogNumbers, BufNumbers
<1>2. ASSUME NEW i \in Bufs, Cached(b, i) PROVE View[b] = buf[i].data
  <2>1. \A j \in Bufs : Cached(b, j) => j = i
    BY <1>1, <1>2 DEF Cached, BufInv, OneBufferPerBlock
  <2>2. (CHOOSE j \in Bufs : Cached(b, j)) = i
    BY <1>2, <2>1
  <2> QED
    BY <1>2, <2>2 DEF View
<1>3. ASSUME \A i \in Bufs : ~Cached(b, i) PROVE View[b] = disk[b]
  BY <1>3 DEF View
<1> QED
  BY <1>2, <1>3

LEMMA ViewIsNext ==
  ASSUME BufInv', NEW b \in Home
  PROVE  /\ \A i \in Bufs : Cached(b, i)' => View'[b] = buf'[i].data
         /\ (\A i \in Bufs : ~Cached(b, i)') => View'[b] = disk'[b]
<1>1. b # NoBlock
  BY LogNumbers, BufNumbers
<1>2. ASSUME NEW i \in Bufs, Cached(b, i)' PROVE View'[b] = buf'[i].data
  <2>1. \A j \in Bufs : Cached(b, j)' => j = i
    BY <1>1, <1>2 DEF Cached, BufInv, OneBufferPerBlock
  <2>2. (CHOOSE j \in Bufs : Cached(b, j)') = i
    BY <1>2, <2>1
  <2> QED
    BY <1>2, <2>2 DEF View
<1>3. ASSUME \A i \in Bufs : ~Cached(b, i)' PROVE View'[b] = disk'[b]
  BY <1>3 DEF View
<1> QED
  BY <1>2, <1>3

\* What a restart would find, for a header that names no block twice.
LEMMA SavedIs ==
  ASSUME HeaderOK(disk[Header])
  PROVE  /\ \A t \in DOMAIN disk[Header] : Saved[disk[Header][t]] = disk[LogBlock(t)]
         /\ \A b \in Home \ ToSet(disk[Header]) : Saved[b] = disk[b]
         /\ Saved = [b \in Home |-> Saved[b]]
<1> DEFINE h == disk[Header]
<1>1. h \in Seq(Home)
  BY DEF HeaderOK
<1>2. Saved = [b \in Home |->
         IF b \in ToSet(h)
         THEN disk[LogBlock(CHOOSE t \in DOMAIN h : h[t] = b)] ELSE disk[b]]
  BY DEF Saved
<1>3. ASSUME NEW t \in DOMAIN h PROVE Saved[h[t]] = disk[LogBlock(t)]
  <2>1. h[t] \in Home /\ h[t] \in ToSet(h)
    BY <1>1 DEF ToSet
  <2>2. (CHOOSE s \in DOMAIN h : h[s] = h[t]) = t
    BY DEF HeaderOK
  <2> QED
    BY <1>2, <2>1, <2>2
<1>4. \A b \in Home \ ToSet(h) : Saved[b] = disk[b]
  BY <1>2
<1>5. Saved = [b \in Home |-> Saved[b]]
  BY <1>2
<1> QED
  BY <1>3, <1>4, <1>5

LEMMA SavedIsNext ==
  ASSUME HeaderOK(disk'[Header])
  PROVE  /\ \A t \in DOMAIN disk'[Header] : Saved'[disk'[Header][t]] = disk'[LogBlock(t)]
         /\ \A b \in Home \ ToSet(disk'[Header]) : Saved'[b] = disk'[b]
         /\ Saved' = [b \in Home |-> Saved'[b]]
<1> DEFINE h == disk'[Header]
<1>1. h \in Seq(Home)
  BY DEF HeaderOK
<1>2. Saved' = [b \in Home |->
         IF b \in ToSet(h)
         THEN disk'[LogBlock(CHOOSE t \in DOMAIN h : h[t] = b)] ELSE disk'[b]]
  BY DEF Saved, Header, LogBlock, Home
<1>3. ASSUME NEW t \in DOMAIN h PROVE Saved'[h[t]] = disk'[LogBlock(t)]
  <2>1. h[t] \in Home /\ h[t] \in ToSet(h)
    BY <1>1 DEF ToSet
  <2>2. (CHOOSE s \in DOMAIN h : h[s] = h[t]) = t
    BY DEF HeaderOK
  <2> QED
    BY <1>2, <2>1, <2>2
<1>4. \A b \in Home \ ToSet(h) : Saved'[b] = disk'[b]
  BY <1>2
<1>5. Saved' = [b \in Home |-> Saved'[b]]
  BY <1>2
<1> QED
  BY <1>3, <1>4, <1>5

\* Two functions on the home blocks that agree everywhere.
LEMMA SavedSame ==
  ASSUME disk' = disk
  PROVE  Saved' = Saved
BY DEF Saved, Header, LogBlock, Home
-----------------------------------------------------------------------------
(***************************************************************************)
(* Steps that change no contents: at most clean buffers are recycled.      *)
(***************************************************************************)
Kept ==
  /\ disk' = disk
  /\ \A i \in Bufs : SameData(i) \/ Evicted(i)
  /\ drive' = "done" =>
       (drive = "done" /\ Head(idequeue') = Head(idequeue)) \/ ~buf'[Head(idequeue')].dirty
  /\ \A i \in Bufs : buf[i].dirty => (Busy(i)' <=> Busy(i))

\* How far a process is in its call: what Landed needs.
Proceeds(p) ==
  /\ \A q \in Procs \ {p} : io'[q] = io[q]
  /\ io[p].at \notin {"lock", "rw", "wait"} => io'[p].at \notin {"lock", "rw", "wait"}
  /\ io'[p].at = "lock" => io[p].at = "lock"
  /\ io'[p].at \in {"rw", "wait"} =>
       io[p].at = "lock" \/ (io[p].at \in {"rw", "wait"} /\ io'[p].buf = io[p].buf)
  /\ io[p].at \in {"rw", "wait"} /\ io'[p].at \notin {"rw", "wait"} => ~buf[io[p].buf].dirty
\* Nobody loses a buffer, and only p gets one, in acquiresleep().
Acquires(p) ==
  /\ \A i \in Bufs : buf[i].lock \in Procs => buf'[i].lock = buf[i].lock
  /\ \A i \in Bufs : buf'[i].lock # buf[i].lock => buf'[i].lock = p /\ io[p].at = "lock"

LEMMA CallKept ==
  ASSUME BufInv, NEW p \in Procs, CallStep(p) \/ Rouse(p)
  PROVE  Kept /\ Proceeds(p) /\ Acquires(p)
<1>1. DataSame /\ disk' = disk
  BY CallsKeepData
<1>2. \A j \in Bufs : SameData(j)
  BY <1>1 DEF DataSame
<1>3. /\ buf \in [Bufs -> BufRec] /\ io \in [Procs -> IoRec] /\ NoProc \notin Procs
      /\ \A q \in Procs : io[q].at \in {"none", "lock", "rw", "wait", "unref"}
  BY CallerHas, BufNumbers DEF IoRec
<1>4. CASE acquiresleep(p)
  <2>1. PICK i \in Bufs : i = io[p].buf
    BY <1>4, CallerHas DEF acquiresleep, Doing
  <2>2. io[p].at = "lock" /\ UNCHANGED <<drive, idequeue>>
    BY <1>4 DEF acquiresleep, Doing
  <2>3. CASE buf[i].lock # NoProc
    <3>1. UNCHANGED <<buf, io>>
      BY <1>4, <2>1, <2>3 DEF acquiresleep
    <3> QED
      BY <1>1, <1>2, <2>2, <3>1 DEF Kept, Proceeds, Acquires, Busy
  <2>4. CASE buf[i].lock = NoProc
    <3>1. /\ buf' = [buf EXCEPT ![i].lock = p]
          /\ IF buf[i].valid THEN Then(p, "none", 0) ELSE Then(p, "rw", i)
      BY <1>4, <2>1, <2>4 DEF acquiresleep
    <3>2. Changed(i) /\ buf'[i].lock = p
      BY <1>3, <3>1, SetLock
    <3>3. /\ \A q \in Procs \ {p} : io'[q] = io[q]
          /\ io'[p].at = IF buf[i].valid THEN "none" ELSE "rw"
          /\ ~buf[i].valid => io'[p].buf = i
      BY <1>3, <3>1, SetIo DEF Then
    <3>4. Proceeds(p)
      BY <2>2, <3>3 DEF Proceeds
    <3>5. Acquires(p)
      BY <1>3, <2>2, <2>4, <3>2 DEF Acquires, Changed
    <3>6. ASSUME NEW j \in Bufs, buf[j].dirty PROVE Busy(j)' <=> Busy(j)
      <4>1. CASE j = i
        <5>1. ~Busy(i)
          BY <1>3, <2>4 DEF Busy
        <5>2. buf[i].valid
          BY <3>6, <4>1 DEF BufInv, Filled
        <5>3. ~Busy(i)'
          BY <3>2, <3>3, <5>2 DEF Busy
        <5> QED
          BY <4>1, <5>1, <5>3
      <4>2. CASE j # i
        <5>1. buf'[j] = buf[j]
          BY <3>2, <4>2 DEF Changed
        <5>2. ASSUME buf[j].lock = p PROVE ~Busy(j) /\ ~Busy(j)'
          <6>1. ~Busy(j)
            BY <2>2, <5>2 DEF Busy
          <6>2. ~Busy(j)'
            BY <3>3, <4>2, <5>1, <5>2 DEF Busy
          <6> QED
            BY <6>1, <6>2
        <5>3. ASSUME buf[j].lock # p PROVE Busy(j)' <=> Busy(j)
          BY <3>3, <5>1, <5>3 DEF Busy
        <5> QED
          BY <5>2, <5>3
      <4> QED
        BY <4>1, <4>2
    <3> QED
      BY <1>1, <1>2, <2>2, <3>4, <3>5, <3>6 DEF Kept
  <2> QED
    BY <2>3, <2>4
<1>5. CASE iderw(p)
  <2>1. /\ io[p].at = "rw" /\ buf' = buf /\ io'[p].at = "wait" /\ io'[p].buf = io[p].buf
        /\ UNCHANGED panic
    BY <1>5, iderwKeeps DEF iderw, Doing
  <2>2. PICK i \in Bufs : i = io[p].buf
    BY <2>1, CallerHas
  <2>3. ~panic /\ panic' = panic
    BY <1>5, <2>1 DEF iderw, Doing
  <2>4. /\ idequeue' = Append(idequeue, i)
        /\ drive' = IF idequeue = <<>> THEN "busy" ELSE drive
        /\ Then(p, "wait", i)
    BY <1>5, <2>2, <2>3 DEF iderw
  <2>5. \A q \in Procs \ {p} : io'[q] = io[q]
    BY <1>3, <2>4, SetIo DEF Then
  <2>6. drive' = "done" => drive = "done" /\ Head(idequeue') = Head(idequeue)
    <3>1. SUFFICES ASSUME drive' = "done" PROVE drive = "done" /\ Head(idequeue') = Head(idequeue)
      OBVIOUS
    <3>2. drive = "done" /\ idequeue # <<>> /\ idequeue \in Seq(Bufs)
      BY <2>4, <3>1, TypeIs DEF BufInv
    <3>3. Len(idequeue) \in Nat /\ Len(idequeue) # 0
      BY <3>2
    <3>4. Append(idequeue, i)[1] = idequeue[1]
      BY <3>2, <3>3
    <3>5. Head(Append(idequeue, i)) = Append(idequeue, i)[1] /\ Head(idequeue) = idequeue[1]
      OBVIOUS
    <3> QED
      BY <2>4, <3>2, <3>4, <3>5
  <2>7. \A j \in Bufs : Busy(j)' <=> Busy(j)
    BY <2>1, <2>5 DEF Busy
  <2> QED
    BY <1>1, <1>2, <2>1, <2>5, <2>6, <2>7 DEF Kept, Proceeds, Acquires
<1>6. CASE IoWait(p)
  <2>1. io[p].at = "wait" /\ UNCHANGED <<buf, drive, idequeue>>
    BY <1>6 DEF IoWait, Doing
  <2>2. PICK i \in Bufs : i = io[p].buf
    BY <2>1, CallerHas
  <2>3. CASE buf[i].valid /\ ~buf[i].dirty
    <3>1. Then(p, "none", 0)
      BY <1>6, <2>2, <2>3 DEF IoWait
    <3>2. io'[p].at = "none" /\ \A q \in Procs \ {p} : io'[q] = io[q]
      BY <1>3, <3>1, SetIo DEF Then
    <3>3. ASSUME NEW j \in Bufs, buf[j].dirty PROVE Busy(j)' <=> Busy(j)
      <4>1. j # i
        BY <2>3, <3>3
      <4> QED
        BY <2>1, <2>2, <3>2, <4>1 DEF Busy
    <3> QED
      BY <1>1, <1>2, <2>1, <2>2, <2>3, <3>2, <3>3 DEF Kept, Proceeds, Acquires
  <2>4. CASE ~(buf[i].valid /\ ~buf[i].dirty)
    <3>1. UNCHANGED io
      BY <1>6, <2>2, <2>4 DEF IoWait
    <3> QED
      BY <1>1, <1>2, <2>1, <3>1 DEF Kept, Proceeds, Acquires, Busy
  <2> QED
    BY <2>3, <2>4
<1>7. CASE brelse(p)
  <2>1. PICK i \in Bufs : i = io[p].buf
    BY <1>7, CallerHas DEF brelse, Doing
  <2>2. io[p].at = "unref" /\ UNCHANGED <<drive, idequeue>> /\ Then(p, "none", 0)
        /\ buf' = [buf EXCEPT ![i].refcnt = buf[i].refcnt - 1]
    BY <1>7, <2>1 DEF brelse, Doing
  <2>3. io'[p].at = "none" /\ \A q \in Procs \ {p} : io'[q] = io[q]
    BY <1>3, <2>2, SetIo DEF Then
  <2>4. \A j \in Bufs : buf'[j].lock = buf[j].lock
    BY <1>3, <2>2 DEF BufRec
  <2>5. \A j \in Bufs : Busy(j)' <=> Busy(j)
    BY <2>2, <2>3, <2>4 DEF Busy
  <2> QED
    BY <1>1, <1>2, <2>2, <2>3, <2>4, <2>5 DEF Kept, Proceeds, Acquires
<1>8. CASE Rouse(p)
  BY <1>1, <1>2, <1>8 DEF Rouse, Kept, Proceeds, Acquires, Busy
<1> QED
  BY <1>4, <1>5, <1>6, <1>7, <1>8 DEF CallStep

LEMMA GetKept ==
  ASSUME BufInv, NEW p \in Procs, NEW blk \in Blocks, bget(p, blk), ~panic'
  PROVE  /\ Kept /\ io'[p].at = "lock" /\ io[p].at = "none"
         /\ \A q \in Procs \ {p} : io'[q] = io[q]
         /\ \A i \in Bufs : buf'[i].lock = buf[i].lock
<1>1. PICK i \in Bufs : Got(p, blk, i)
  BY bgetDoes
<1>2. Ready(p) /\ UNCHANGED <<mru, idequeue, drive, disk, asleep>>
  BY bgetDoes
<1>3. /\ (Changed(i) /\ SameData(i)) \/ Evicted(i)
      /\ io'[p].at = "lock"
  BY <1>1, GotData
<1>4. /\ buf \in [Bufs -> BufRec] /\ io \in [Procs -> IoRec] /\ io[p].at = "none"
  BY <1>2, CallerHas DEF Ready
<1>5. \A q \in Procs \ {p} : io'[q] = io[q]
  BY <1>1, <1>4, SetIo DEF Got
<1>6. Changed(i)
  BY <1>1, GotData
<1>7. buf'[i].lock = buf[i].lock
  <2>1. CASE Hit(p, blk, i)
    BY <1>4, <2>1 DEF Hit, BufRec
  <2>2. CASE Recycle(p, blk, i)
    BY <1>4, <2>2 DEF Recycle, NewBuf
  <2> QED
    BY <1>1, <2>1, <2>2 DEF Got
<1>8. \A j \in Bufs : buf'[j].lock = buf[j].lock
  BY <1>6, <1>7 DEF Changed
<1>9. \A j \in Bufs : SameData(j) \/ Evicted(j)
  <2>1. SameData(i) \/ Evicted(i)
    BY <1>1, GotData
  <2> QED
    BY <1>6, <2>1 DEF Changed, SameData, SameFill
<1>10. \A j \in Bufs : Busy(j)' <=> Busy(j)
  BY <1>3, <1>4, <1>5, <1>8 DEF Busy
<1> QED
  BY <1>2, <1>3, <1>4, <1>5, <1>8, <1>9, <1>10 DEF Kept

LEMMA ReleaseKept ==
  ASSUME BufInv, NEW p \in Procs, NEW i \in Bufs, buf[i].lock = p, releasesleep(p, i)
  PROVE  /\ Kept /\ DataSame /\ io'[p].at = "unref" /\ io[p].at = "none"
         /\ \A q \in Procs \ {p} : io'[q] = io[q]
         /\ \A j \in Bufs \ {i} : buf'[j].lock = buf[j].lock
         /\ buf'[i].lock = NoProc
<1>1. DataSame /\ disk' = disk
  BY ReleaseKeepsData
<1>2. /\ buf \in [Bufs -> BufRec] /\ io \in [Procs -> IoRec] /\ NoProc \notin Procs
  BY CallerHas, BufNumbers
<1>3. io[p].at = "none" /\ Then(p, "unref", i) /\ UNCHANGED <<idequeue, drive>>
      /\ buf' = [buf EXCEPT ![i].lock = NoProc]
  BY DEF releasesleep, Ready
<1>4. io'[p].at = "unref" /\ \A q \in Procs \ {p} : io'[q] = io[q]
  BY <1>2, <1>3, SetIo DEF Then
<1>5. buf'[i].lock = NoProc /\ \A j \in Bufs \ {i} : buf'[j] = buf[j]
  BY <1>2, <1>3 DEF BufRec
<1>6. \A j \in Bufs : Busy(j)' <=> Busy(j)
  <2>1. ~Busy(i) /\ ~Busy(i)'
    BY <1>2, <1>3, <1>5 DEF Busy
  <2>2. \A j \in Bufs \ {i} : Busy(j)' <=> Busy(j)
    BY <1>3, <1>4, <1>5 DEF Busy
  <2> QED
    BY <2>1, <2>2
<1> QED
  BY <1>1, <1>3, <1>4, <1>5, <1>6 DEF Kept, DataSame

LEMMA QuietKept ==
  ASSUME UNCHANGED <<buf, idequeue, drive, disk, io>>
  PROVE  Kept
BY DEF Kept, SameData, SameFill, Busy

\* What the processes see survives: a recycled buffer had what the disk has.
LEMMA ViewKept ==
  ASSUME LogInv, ~panic, BufInv', Clean, Kept
  PROVE  View' = View /\ Saved' = Saved
<1>1. BufInv /\ Saved' = Saved
  BY SavedSame DEF LogInv, Kept
<1>2. ASSUME NEW b \in Home PROVE View'[b] = View[b]
  <2>1. ASSUME NEW i \in Bufs, Cached(b, i)' PROVE View'[b] = View[b]
    <3>1. SameData(i)
      BY <2>1 DEF Kept, Cached, Evicted
    <3>2. Cached(b, i) /\ buf'[i].data = buf[i].data
      BY <2>1, <3>1 DEF Cached, SameData, SameFill
    <3> QED
      BY <1>1, <2>1, <3>2, ViewIs, ViewIsNext
  <2>2. ASSUME \A i \in Bufs : ~Cached(b, i)', NEW i \in Bufs, Cached(b, i)
        PROVE  View'[b] = View[b]
    <3>1. ~SameData(i)
      BY <2>2 DEF Cached, SameData, SameFill
    <3>2. ~buf[i].dirty /\ buf[i].lock = NoProc
      BY <3>1 DEF Kept, Evicted
    <3>3. ~Dirties(i)
      BY <3>2, BufNumbers DEF Dirties
    <3>4. buf[i].data = disk[b]
      BY <2>2, <3>2, <3>3 DEF Clean, Cached
    <3> QED
      BY <1>1, <2>2, <3>4, ViewIs, ViewIsNext DEF Kept
  <2>3. ASSUME \A i \in Bufs : ~Cached(b, i)', \A i \in Bufs : ~Cached(b, i)
        PROVE  View'[b] = View[b]
    BY <1>1, <2>3, ViewIs, ViewIsNext DEF Kept
  <2> QED
    BY <2>1, <2>2, <2>3
<1>3. View = [b \in Home |-> View[b]] /\ View' = [b \in Home |-> View'[b]]
  BY DEF View
<1> QED
  BY <1>1, <1>2, <1>3

LEMMA BufDataKept ==
  ASSUME LogInv, ~panic, BufInv', BufData, Kept,
         \A i \in Bufs : buf[i].dirty /\ buf[i].block \in ToSet(lh) => buf[i].block \in ToSet(lh'),
         \A i \in Bufs : Dirties(i) => Dirties(i)',
         \A i \in Bufs : buf[i].dirty /\ Busy(i) => ForWorker(i)'
  PROVE  BufData'
<1>1. BufInv
  BY DEF LogInv
<1>2. ASSUME NEW i \in Bufs, buf'[i].valid \/ buf'[i].dirty PROVE SameData(i)
  BY <1>2 DEF Kept, Evicted
<1>3. Clean'
  <2>1. SUFFICES ASSUME NEW i \in Bufs, buf'[i].valid, ~buf'[i].dirty, ~Dirties(i)'
                 PROVE  buf'[i].data = disk'[buf'[i].block]
    BY DEF Clean
  <2>2. SameData(i) /\ ~Dirties(i)
    BY <1>2, <2>1
  <2>3. buf[i].data = disk[buf[i].block]
    BY <2>1, <2>2 DEF BufData, Clean, SameData, SameFill
  <2> QED
    BY <2>2, <2>3 DEF SameData, SameFill, Kept
<1>4. Written'
  <2>1. SUFFICES ASSUME NEW i, i = Head(idequeue'), drive' = "done", buf'[i].dirty
                 PROVE  disk'[buf'[i].block] = buf'[i].data
    BY DEF Written
  <2>2. drive = "done" /\ Head(idequeue) = i
    BY <2>1 DEF Kept
  <2>3. i \in Bufs
    BY <1>1, <2>2, HeadIs
  <2>4. SameData(i)
    BY <1>2, <2>1, <2>3
  <2>5. disk[buf[i].block] = buf[i].data
    BY <2>1, <2>2, <2>4 DEF BufData, Written, SameData, SameFill
  <2> QED
    BY <2>4, <2>5 DEF SameData, SameFill, Kept
<1>5. Pinned'
  <2>1. SUFFICES ASSUME NEW i \in Bufs, buf'[i].dirty
                 PROVE  IF buf'[i].block \in Home THEN buf'[i].block \in ToSet(lh') ELSE Busy(i)'
    BY DEF Pinned, Home
  <2>2. SameData(i)
    BY <1>2, <2>1
  <2>3. buf[i].dirty /\ buf'[i].block = buf[i].block
    BY <2>1, <2>2 DEF SameData, SameFill
  <2>4. CASE buf[i].block \in Home
    BY <2>3, <2>4 DEF BufData, Pinned
  <2>5. CASE buf[i].block \notin Home
    BY <2>3, <2>5 DEF BufData, Pinned, Kept
  <2> QED
    BY <2>4, <2>5
<1>6. Writing'
  <2>1. SUFFICES ASSUME NEW i \in Bufs, buf'[i].dirty, Busy(i)'
                 PROVE  ForWorker(i)'
    BY DEF Writing
  <2>2. buf[i].dirty
    BY <1>2, <2>1 DEF SameData, SameFill
  <2>3. Busy(i)
    BY <2>1, <2>2 DEF Kept
  <2> QED
    BY <2>2, <2>3
<1> QED
  BY <1>3, <1>4, <1>5, <1>6 DEF BufData

\* The process that waits for its bwrite() is where it was, with the buffers it had.
Carries(w) ==
  /\ Works(w) /\ Wrote
  /\ io'[w].at # "lock"
  /\ io'[w].at \in {"rw", "wait"} => io[w].at \in {"rw", "wait"} /\ io'[w].buf = io[w].buf
  /\ io[w].at \in {"rw", "wait"} /\ io'[w].at \notin {"rw", "wait"} => ~buf[io[w].buf].dirty
  /\ \A i \in Bufs : buf'[i].lock = w => buf[i].lock = w

LEMMA JobDataKept ==
  ASSUME LogInv, ~panic, BufInv', JobData, Kept, View' = View,
         lh' = lh, committing' = committing, job'.stage = job.stage, job'.tail = job.tail,
         job.at = "target" => job'.at = "target",
         \A w \in Procs : Works(w)' /\ Wrote' => Carries(w),
         Quiet'
  PROVE  JobData'
<1>1. BufInv /\ disk' = disk /\ NoProc \notin Procs
  BY BufNumbers DEF LogInv, Kept
<1>2. Out' = Out /\ Wanted' = Wanted
  BY <1>1 DEF Out, Wanted, Target, LogBlock, Header
<1>3. ASSUME NEW w \in Procs, Works(w)', Wrote', NEW i \in Bufs, buf'[i].lock = w
      PROVE  buf[i].lock = w /\ SameData(i)
  <2>1. buf[i].lock = w
    BY <1>3 DEF Carries
  <2>2. ~Evicted(i)
    BY <1>1, <2>1 DEF Evicted
  <2> QED
    BY <2>1, <2>2 DEF Kept
<1>4. Landed'
  <2>1. SUFFICES ASSUME NEW w \in Procs, Works(w)', Wrote'
                 PROVE  /\ io'[w].at # "lock"
                        /\ io'[w].at \in {"rw", "wait"} =>
                             buf'[io'[w].buf].block = Out' /\ buf'[io'[w].buf].valid
                        /\ io'[w].at \notin {"rw", "wait"} =>
                             \A i \in Bufs :
                               buf'[i].lock = w /\ buf'[i].block = Out' => ~buf'[i].dirty
    BY DEF Landed
  <2>2. /\ Carries(w)
        /\ io[w].at \in {"rw", "wait"} => buf[io[w].buf].block = Out /\ buf[io[w].buf].valid
        /\ io[w].at \notin {"rw", "wait"} =>
             \A i \in Bufs : buf[i].lock = w /\ buf[i].block = Out => ~buf[i].dirty
    BY <2>1 DEF JobData, Landed, Carries
  <2>3. ASSUME io'[w].at \in {"rw", "wait"}
        PROVE  buf'[io'[w].buf].block = Out' /\ buf'[io'[w].buf].valid
    <3>1. PICK i \in Bufs : i = io[w].buf
      BY <1>1, <2>2, <2>3, CallerHas DEF Carries
    <3>2. i = io'[w].buf /\ io[w].at \in {"rw", "wait"}
      BY <2>2, <2>3, <3>1 DEF Carries
    <3>3. buf[i].lock = w
      BY <1>1, <3>1, <3>2 DEF BufInv, Callers
    <3>4. SameData(i)
      BY <1>1, <3>3 DEF Kept, Evicted
    <3> QED
      BY <1>2, <2>2, <3>1, <3>2, <3>4 DEF SameData, SameFill
  <2>4. ASSUME io'[w].at \notin {"rw", "wait"},
               NEW i \in Bufs, buf'[i].lock = w, buf'[i].block = Out'
        PROVE  ~buf'[i].dirty
    <3>1. buf[i].lock = w /\ SameData(i)
      BY <1>3, <2>1, <2>4
    <3>2. buf[i].block = Out /\ (buf'[i].dirty <=> buf[i].dirty)
      BY <1>2, <2>4, <3>1 DEF SameData, SameFill
    <3>3. CASE io[w].at \notin {"rw", "wait"}
      BY <2>2, <3>1, <3>2, <3>3
    <3>4. CASE io[w].at \in {"rw", "wait"}
      <4>1. PICK k \in Bufs : k = io[w].buf
        BY <1>1, <3>4, CallerHas
      <4>2. buf[k].block = Out /\ ~buf[k].dirty /\ buf[k].valid
        BY <2>2, <2>4, <3>4, <4>1 DEF Carries
      <4>3. buf[k].block # NoBlock
        BY <1>1, <4>2 DEF BufInv, Named, EmptyBuf
      <4>4. i = k
        BY <1>1, <3>2, <4>2, <4>3 DEF BufInv, OneBufferPerBlock
      <4> QED
        BY <3>2, <4>2, <4>4
    <3> QED
      BY <3>3, <3>4
  <2> QED
    BY <2>2, <2>3, <2>4 DEF Carries
<1>5. Copied'
  <2>1. SUFFICES ASSUME NEW w \in Procs, Works(w)', Wrote',
                        NEW i \in Bufs, buf'[i].lock = w, buf'[i].block = Out'
                 PROVE  buf'[i].data = Wanted'
    BY DEF Copied
  <2>2. buf[i].lock = w /\ SameData(i) /\ Works(w) /\ Wrote
    BY <1>3, <2>1 DEF Carries
  <2>3. buf[i].data = Wanted
    BY <1>2, <2>1, <2>2 DEF JobData, Copied, SameData, SameFill
  <2> QED
    BY <1>2, <2>2, <2>3 DEF SameData
<1>6. Stage'
  <2>1. \A s : InLog(s)' <=> InLog(s)
    BY <1>1 DEF InLog, LogBlock
  <2>2. \A s : Installed(s) => Installed(s)'
    <3>1. SUFFICES ASSUME NEW s, Installed(s) PROVE Installed(s)'
      OBVIOUS
    <3>2. ASSUME NEW i \in Bufs, buf'[i].dirty PROVE buf'[i].block # lh'[s]
      <4>1. SameData(i)
        BY <3>2 DEF Kept, Evicted
      <4> QED
        BY <3>1, <3>2, <4>1 DEF Installed, SameData, SameFill
    <3> QED
      BY <1>1, <3>1, <3>2 DEF Installed, LogBlock
  <2>3. Emptied' /\ Clearing'
    BY <1>1 DEF JobData, Stage, Emptied, Clearing, Header, LogBlock
  <2>4. Logging'
    BY <1>1, <2>1 DEF JobData, Stage, Logging, Header
  <2>5. Committing'
    BY <1>1, <2>1 DEF JobData, Stage, Committing, Header
  <2>6. Installing'
    BY <1>1, <2>1, <2>2 DEF JobData, Stage, Installing, Header
  <2> QED
    BY <2>3, <2>4, <2>5, <2>6 DEF Stage
<1> QED
  BY <1>4, <1>5, <1>6 DEF JobData
-----------------------------------------------------------------------------
(***************************************************************************)
(* What the abstract disk sees of a step.                                  *)
(***************************************************************************)
Active == {p \in Procs : InOp(p)}
Recovering == \E p \in Procs : pc[p] = "recover"
Unseen == Store' = Store /\ Saved' = Saved /\ Active' = Active
Fine == BufData /\ JobData

LEMMA StoreKept ==
  ASSUME View' = View \/ Recovering, Saved' = Saved, Recovering' <=> Recovering
  PROVE  Store' = Store
BY StoreIs DEF Recovering

\* A block that the log does not name is on disk, unless log_write() has to come.
LEMMA ViewIsDisk ==
  ASSUME LogInv, ~panic, BufData, NEW b \in Home, b \notin ToSet(lh),
         \A p \in Procs : pc[p] # "append"
  PROVE  View[b] = disk[b]
<1>1. BufInv
  BY DEF LogInv
<1>2. ASSUME NEW i \in Bufs, Cached(b, i) PROVE View[b] = disk[b]
  <2>1. ~buf[i].dirty /\ ~Dirties(i)
    BY <1>2 DEF Cached, BufData, Pinned, Dirties
  <2>2. buf[i].data = disk[b]
    BY <1>2, <2>1 DEF Cached, BufData, Clean
  <2> QED
    BY <1>1, <1>2, <2>2, ViewIs
<1> QED
  BY <1>1, <1>2, ViewIs

\* With nothing in the log, neither the cache nor the log has anything that the
\* disk has not.
LEMMA AllOnDisk ==
  ASSUME LogInv, ~panic, BufData, lh = <<>>, \A p \in Procs : pc[p] # "append",
         disk[Header] = <<>>
  PROVE  View = Saved
<1>1. ToSet(lh) = {} /\ ToSet(disk[Header]) = {} /\ HeaderOK(disk[Header])
  BY DEF ToSet, LogInv
<1>2. \A b \in Home : View[b] = disk[b] /\ Saved[b] = disk[b]
  BY <1>1, ViewIsDisk, SavedIs
<1>3. View = [b \in Home |-> View[b]] /\ Saved = [b \in Home |-> Saved[b]]
  BY <1>1, SavedIs DEF View
<1> QED
  BY <1>2, <1>3

\* When end_op() has returned for the last operation, its changes are on disk.
LEMMA QuietHolds ==
  ASSUME LogInv, ~panic, Fine
  PROVE  QuietIsDurable
<1>1. SUFFICES ASSUME outstanding = 0, ~committing PROVE Store = Saved
  BY DEF QuietIsDurable
<1>2. Workers /\ Admitted /\ LogTyped /\ BufInv /\ HeaderOK(disk[Header])
  BY SoundParts
<1>3. CASE Recovering
  <2>1. Saved = [b \in Home |-> Saved[b]]
    BY <1>2, SavedIs
  <2> QED
    BY <1>3, <2>1, StoreIs DEF Recovering
<1>4. CASE ~Recovering
  <2>1. \A p \in Procs : ~Works(p)
    BY <1>1, <1>2, <1>4 DEF Workers, Works, Recovering
  <2>2. job = NoJob /\ lh = <<>>
    BY <1>1, <1>2, <2>1 DEF Workers, Fine, JobData, Quiet
  <2>3. disk[Header] = <<>>
    BY <2>2, JobParts DEF Fine, JobData, Stage, Emptied
  <2>4. \A p \in Procs : ~InOp(p)
    BY <1>1, <1>2, AloneInOp DEF LogTyped
  <2>5. \A p \in Procs : pc[p] # "append"
    BY <2>4 DEF InOp
  <2>6. View = Saved
    BY <2>2, <2>3, <2>5, AllOnDisk DEF Fine
  <2>7. View = [b \in Home |-> View[b]]
    BY DEF View
  <2> QED
    BY <1>4, <2>6, <2>7, StoreIs DEF Recovering
<1> QED
  BY <1>3, <1>4
-----------------------------------------------------------------------------
(***************************************************************************)
(* One process moves between two calls of the block layer.                 *)
(***************************************************************************)
Touches(p) ==
  \A q \in Procs \ {p} :
    io'[q] = io[q] /\ \A i \in Bufs : buf'[i].lock = q <=> buf[i].lock = q

LEMMA BufStep ==
  ASSUME LogInv, BufInv', ~panic, Fine, NEW p \in Procs, Others(p), io[p].at = "none",
         pc[p] # "append", Kept, Touches(p), (\A q \in Procs \ {p} : ~Works(q)) \/ job' = job,
         \A i \in Bufs : buf[i].dirty /\ buf[i].block \in ToSet(lh) => buf[i].block \in ToSet(lh')
  PROVE  BufData' /\ View' = View /\ Saved' = Saved
<1>1. View' = View /\ Saved' = Saved
  BY ViewKept DEF Fine, BufData
<1>2. NoProc \notin Procs
  BY BufNumbers
<1>3. ASSUME NEW i \in Bufs, Dirties(i) PROVE Dirties(i)'
  <2>1. buf[i].lock \in Procs \ {p} /\ pc[buf[i].lock] = "append"
    BY <1>3 DEF Dirties
  <2>2. buf'[i].lock = buf[i].lock
    BY <2>1 DEF Touches
  <2> QED
    BY <2>1, <2>2 DEF Dirties, Others
<1>4. ASSUME NEW i \in Bufs, buf[i].dirty, Busy(i) PROVE ForWorker(i)'
  <2>1. ForWorker(i) /\ buf[i].lock \in Procs
    BY <1>4 DEF Fine, BufData, Writing, Busy
  <2>2. buf[i].lock # p
    BY <1>4 DEF Busy
  <2>3. buf'[i].lock = buf[i].lock
    BY <2>1, <2>2 DEF Touches
  <2>4. job' = job
    BY <2>1, <2>2 DEF ForWorker
  <2> QED
    BY <2>1, <2>2, <2>3, <2>4 DEF ForWorker, Works, Others
<1>5. BufData'
  BY <1>3, <1>4, BufDataKept DEF Fine
<1> QED
  BY <1>1, <1>5

\* The commit or the recovery stays where it is.
LEMMA PlainStep ==
  ASSUME LogInv, BufInv', ~panic, Fine, NEW p \in Procs, Others(p), io[p].at = "none",
         pc[p] # "append", Kept, Touches(p), lh' = lh, committing' = committing,
         job' = job, ~Works(p), ~Works(p)', Quiet'
  PROVE  Fine' /\ View' = View /\ Saved' = Saved /\ Store' = Store
<1>1. BufData' /\ View' = View /\ Saved' = Saved
  BY BufStep
<1>2. ASSUME NEW w \in Procs, Works(w)', Wrote' PROVE Carries(w)
  <2>1. w # p /\ Works(w) /\ Wrote
    BY <1>2 DEF Others, Works, Wrote
  <2>2. io'[w] = io[w] /\ \A i \in Bufs : buf'[i].lock = w => buf[i].lock = w
    BY <2>1 DEF Touches
  <2> QED
    BY <2>1, <2>2 DEF Carries, Fine, JobData, Landed
<1>3. JobData'
  BY <1>1, <1>2, JobDataKept DEF Fine
<1>4. Recovering' <=> Recovering
  BY DEF Recovering, Works, Others
<1> QED
  BY <1>1, <1>3, <1>4, StoreKept DEF Fine

\* The operations in progress.
LEMMA ActiveIs ==
  ASSUME NEW p \in Procs, Others(p)
  PROVE  /\ (InOp(p)' <=> InOp(p)) => Active' = Active
         /\ ~InOp(p) /\ InOp(p)' => Active' = Active \cup {p}
         /\ InOp(p) /\ ~InOp(p)' => Active' = Active \ {p}
<1>1. \A q \in Procs \ {p} : InOp(q)' <=> InOp(q)
  BY OthersSame
<1> QED
  BY <1>1 DEF Active

LEMMA TouchesNone ==
  ASSUME NEW p \in Procs, UNCHANGED <<buf, io>>
  PROVE  Touches(p)
BY DEF Touches

\* Who is outside the block layer's calls and does not work for the log.
LEMMA QuietOn ==
  ASSUME LogInv, LogInv', ~panic, Fine, NEW p \in Procs, Others(p), io[p].at = "none",
         ~Works(p), ~Works(p)', lh' = lh, outstanding' = outstanding \/ outstanding' > 0
  PROVE  Quiet'
<1>1. SUFFICES ASSUME outstanding' = 0, \A q \in Procs : ~Works(q)' PROVE lh' = <<>>
  BY DEF Quiet
<1>2. \A q \in Procs : ~Works(q)
  BY <1>1 DEF Works, Others
<1> QED
  BY <1>1, <1>2 DEF Fine, JobData, Quiet

LEMMA CallFine ==
  ASSUME LogInv, LogInv', ~panic, Fine, NEW p \in Procs,
         NEW k \in Kinds \ {"read"}, Call(p, k)
  PROVE  Fine' /\ Unseen
<1>1. /\ Ready(p) /\ pc[p] = "idle" /\ LogTyped
      /\ pc' = [pc EXCEPT ![p] = IF k = "wunmap" THEN "ilock" ELSE "begin"]
      /\ kind' = [kind EXCEPT ![p] = k] /\ left' = [left EXCEPT ![p] = OPWRITES]
      /\ UNCHANGED <<buf, mru, idequeue, drive, disk, io, asleep, panic>>
      /\ UNCHANGED <<lh, outstanding, committing, job, inode>>
  BY DEF Call, At, Goto, bufVars, LogInv
<1>2. Others(p) /\ pc'[p] = IF k = "wunmap" THEN "ilock" ELSE "begin"
  BY <1>1, OthersAre DEF LogTyped
<1>3. ~Works(p) /\ ~Works(p)' /\ io[p].at = "none" /\ ~InOp(p)
  BY <1>1, <1>2 DEF Works, Ready, InOp
<1>4. kind'[p] = k
  BY <1>1 DEF LogTyped
<1>5. ~InOp(p)'
  BY <1>2, <1>4 DEF InOp
<1>6. Quiet'
  BY <1>1, <1>2, <1>3, QuietOn
<1>7. Kept /\ Touches(p)
  BY <1>1, QuietKept, TouchesNone
<1>8. BufInv'
  BY DEF LogInv
<1>9. Fine' /\ View' = View /\ Saved' = Saved /\ Store' = Store
  BY <1>1, <1>2, <1>3, <1>6, <1>7, <1>8, PlainStep
<1> QED
  BY <1>2, <1>3, <1>5, <1>9, ActiveIs DEF Unseen

\* begin_op() admits an operation, or puts its caller to sleep.
LEMMA beginFine ==
  ASSUME LogInv, LogInv', ~panic, Fine, NEW p \in Procs, begin_op(p)
  PROVE  /\ Fine' /\ Store' = Store /\ Saved' = Saved
         /\ Active' = Active \/ Active' = Active \cup {p}
<1>1. /\ Ready(p) /\ pc[p] = "begin" /\ LogTyped /\ BufInv'
      /\ UNCHANGED <<buf, mru, idequeue, drive, disk, io, panic>>
      /\ UNCHANGED <<lh, committing, kind, left, calls, job, inode>>
  BY DEF begin_op, At, LogInv
<1>2. ~Works(p) /\ ~InOp(p) /\ io[p].at = "none"
  BY <1>1 DEF Works, InOp, Ready
<1>3. Kept /\ Touches(p)
  BY <1>1, QuietKept, TouchesNone
<1>4. CASE MustWait
  <2>1. UNCHANGED <<outstanding, pc>>
    BY <1>4 DEF begin_op
  <2>2. Others(p) /\ ~Works(p)'
    BY <1>1, <1>2, <2>1 DEF Others, Works
  <2>3. Quiet'
    BY <1>1, <1>2, <2>1, <2>2, QuietOn
  <2>4. Fine' /\ Store' = Store /\ Saved' = Saved
    BY <1>1, <1>2, <1>3, <2>2, <2>3, PlainStep
  <2>5. InOp(p)' <=> InOp(p)
    BY <1>1, <2>1 DEF InOp
  <2> QED
    BY <2>2, <2>4, <2>5, ActiveIs
<1>5. CASE ~MustWait
  <2>1. /\ outstanding' = outstanding + 1
        /\ pc' = [pc EXCEPT ![p] = IF kind[p] = "write" THEN "ilock" ELSE "op"]
    BY <1>5 DEF begin_op, Goto
  <2>2. Others(p) /\ pc'[p] = IF kind[p] = "write" THEN "ilock" ELSE "op"
    BY <1>1, <2>1, OthersAre DEF LogTyped
  <2>3. ~Works(p)' /\ InOp(p)' /\ outstanding' > 0
    BY <1>1, <2>1, <2>2 DEF Works, InOp, LogTyped
  <2>4. Quiet'
    BY <1>1, <1>2, <2>2, <2>3, QuietOn
  <2>5. Fine' /\ Store' = Store /\ Saved' = Saved
    BY <1>1, <1>2, <1>3, <2>2, <2>3, <2>4, PlainStep
  <2> QED
    BY <1>2, <2>2, <2>3, <2>5, ActiveIs
<1> QED
  BY <1>4, <1>5

LEMMA ilockFine ==
  ASSUME LogInv, LogInv', ~panic, Fine, NEW p \in Procs, ilock(p)
  PROVE  Fine' /\ Unseen
<1>1. /\ Ready(p) /\ pc[p] = "ilock" /\ LogTyped /\ BufInv'
      /\ kind[p] \in {"write", "wunmap"}
      /\ UNCHANGED <<buf, mru, idequeue, drive, disk, io, panic>>
      /\ UNCHANGED <<lh, outstanding, committing, kind, left, calls, job>>
  BY SoundParts DEF ilock, At, LogInv, Locking
<1>2. pc' = pc \/ pc' = [pc EXCEPT ![p] = IF kind[p] = "wunmap" THEN "begin" ELSE "op"]
  BY DEF ilock, Goto
<1>3. /\ Others(p)
      /\ pc'[p] \in {pc[p], IF kind[p] = "wunmap" THEN "begin" ELSE "op"}
  BY <1>1, <1>2, OthersAre DEF LogTyped
<1>4. ~Works(p) /\ ~Works(p)' /\ io[p].at = "none" /\ (InOp(p)' <=> InOp(p))
  BY <1>1, <1>3 DEF Works, InOp, Ready
<1>5. Kept /\ Touches(p)
  BY <1>1, QuietKept, TouchesNone
<1>6. Quiet'
  BY <1>1, <1>3, <1>4, QuietOn
<1>7. Fine' /\ Store' = Store /\ Saved' = Saved
  BY <1>1, <1>3, <1>4, <1>5, <1>6, PlainStep
<1> QED
  BY <1>3, <1>4, <1>7, ActiveIs DEF Unseen

LEMMA iunlockFine ==
  ASSUME LogInv, LogInv', ~panic, Fine, NEW p \in Procs, iunlock(p)
  PROVE  Fine' /\ Unseen
<1>1. /\ Ready(p) /\ LogTyped /\ BufInv'
      /\ pc[p] \in {"op", "iunlock"}
      /\ pc' = [pc EXCEPT ![p] = IF pc[p] = "op" THEN "ops" ELSE "idle"]
      /\ UNCHANGED <<buf, mru, idequeue, drive, disk, io, panic>>
      /\ UNCHANGED <<lh, outstanding, committing, kind, left, calls, job>>
  BY DEF iunlock, At, Ready, LogInv, Goto
<1>2. Others(p) /\ pc'[p] = IF pc[p] = "op" THEN "ops" ELSE "idle"
  BY <1>1, OthersAre DEF LogTyped
<1>3. ~Works(p) /\ ~Works(p)' /\ io[p].at = "none" /\ (InOp(p)' <=> InOp(p))
  BY <1>1, <1>2 DEF Works, InOp, Ready
<1>4. Kept /\ Touches(p)
  BY <1>1, QuietKept, TouchesNone
<1>5. Quiet'
  BY <1>1, <1>2, <1>3, QuietOn
<1>6. Fine' /\ Store' = Store /\ Saved' = Saved
  BY <1>1, <1>2, <1>3, <1>4, <1>5, PlainStep
<1> QED
  BY <1>2, <1>3, <1>6, ActiveIs DEF Unseen

\* bread() outside commit(): a clean buffer may be recycled.
LEMMA GetFine ==
  ASSUME LogInv, LogInv', ~panic, ~panic', Fine, NEW p \in Procs, NEW b \in Home,
         CallRead(p, b) \/ bread(p, b)
  PROVE  Fine' /\ Unseen
<1>1. /\ bget(p, b) /\ Ready(p) /\ LogTyped /\ BufInv /\ BufInv' /\ b \in Blocks
      /\ \/ pc[p] = "idle" /\ pc' = [pc EXCEPT ![p] = "read"]
         \/ pc[p] = "op" /\ pc' = [pc EXCEPT ![p] = "modify"]
      /\ kind' = [kind EXCEPT ![p] = "read"] \/ kind' = kind
      /\ left' = [left EXCEPT ![p] = @ - 1] \/ left' = left
      /\ UNCHANGED <<lh, outstanding, committing, job, inode>>
  BY LogNumbers DEF CallRead, bread, At, Goto, LogInv
<1>2. Others(p) /\ pc'[p] = IF pc[p] = "idle" THEN "read" ELSE "modify"
  BY <1>1, OthersAre DEF LogTyped
<1>3. ~Works(p) /\ ~Works(p)' /\ io[p].at = "none" /\ (InOp(p)' <=> InOp(p))
  BY <1>1, <1>2 DEF Works, InOp, Ready
<1>4. Kept /\ Touches(p)
  BY <1>1, GetKept DEF Touches
<1>5. Quiet'
  BY <1>1, <1>2, <1>3, QuietOn
<1>6. Fine' /\ Store' = Store /\ Saved' = Saved
  BY <1>1, <1>2, <1>3, <1>4, <1>5, PlainStep
<1> QED
  BY <1>2, <1>3, <1>6, ActiveIs DEF Unseen

LEMMA ReleaseFine ==
  ASSUME LogInv, LogInv', ~panic, Fine, NEW p \in Procs, ReadDone(p) \/ Logged(p)
  PROVE  Fine' /\ Unseen
<1>1. /\ Ready(p) /\ LogTyped /\ BufInv /\ BufInv'
      /\ \E i \in Bufs : buf[i].lock = p /\ releasesleep(p, i)
      /\ \/ pc[p] = "read" /\ pc' = [pc EXCEPT ![p] = "idle"]
         \/ pc[p] = "logged" /\ pc' = [pc EXCEPT ![p] = "op"]
      /\ UNCHANGED <<lh, outstanding, committing, kind, left, calls, job, inode>>
  BY DEF ReadDone, Logged, At, Goto, LogInv
<1>2. Others(p) /\ pc'[p] = IF pc[p] = "read" THEN "idle" ELSE "op"
  BY <1>1, OthersAre DEF LogTyped
<1>3. ~Works(p) /\ ~Works(p)' /\ io[p].at = "none" /\ (InOp(p)' <=> InOp(p))
  BY <1>1, <1>2 DEF Works, InOp, Ready
<1>4. PICK i \in Bufs : buf[i].lock = p /\ releasesleep(p, i)
  BY <1>1
<1>5. Kept /\ Touches(p)
  BY <1>1, <1>4, ReleaseKept, BufNumbers DEF Touches
<1>6. Quiet'
  BY <1>1, <1>2, <1>3, QuietOn
<1>7. Fine' /\ Store' = Store /\ Saved' = Saved
  BY <1>1, <1>2, <1>3, <1>5, <1>6, PlainStep
<1> QED
  BY <1>2, <1>3, <1>7, ActiveIs DEF Unseen
-----------------------------------------------------------------------------
(***************************************************************************)
(* The calls of the block layer, the drive and the machine.                *)
(***************************************************************************)
LEMMA WithinFine ==
  ASSUME LogInv, BufInv', ~panic, Fine, UNCHANGED logVars, Kept,
         \A w \in Procs : Works(w) /\ Wrote => Carries(w),
         \A i \in Bufs : buf[i].lock \in Procs => buf'[i].lock = buf[i].lock
  PROVE  Fine' /\ Unseen
<1>1. /\ UNCHANGED <<lh, outstanding, committing, pc, kind, left, calls, job, inode>>
      /\ NoProc \notin Procs
  BY BufNumbers DEF logVars
<1>2. View' = View /\ Saved' = Saved
  BY ViewKept DEF Fine, BufData
<1>3. ASSUME NEW i \in Bufs, Dirties(i) PROVE Dirties(i)'
  BY <1>1, <1>3 DEF Dirties
<1>4. ASSUME NEW i \in Bufs, buf[i].dirty, Busy(i) PROVE ForWorker(i)'
  <2>1. ForWorker(i) /\ buf'[i].lock = buf[i].lock
    BY <1>4 DEF Fine, BufData, Writing, Busy
  <2> QED
    BY <1>1, <2>1 DEF ForWorker, Works
<1>5. BufData'
  BY <1>1, <1>3, <1>4, BufDataKept DEF Fine
<1>6. ASSUME NEW w \in Procs, Works(w)', Wrote' PROVE Carries(w)
  BY <1>1, <1>6 DEF Works, Wrote
<1>7. Quiet'
  BY <1>1 DEF Fine, JobData, Quiet, Works
<1>8. JobData'
  BY <1>1, <1>2, <1>6, <1>7, JobDataKept DEF Fine
<1>9. (Recovering' <=> Recovering) /\ Active' = Active
  BY <1>1 DEF Recovering, Active, InOp
<1> QED
  BY <1>2, <1>5, <1>8, <1>9, StoreKept DEF Fine, Unseen

LEMMA CallStepFine ==
  ASSUME LogInv, BufInv', ~panic, Fine, UNCHANGED logVars,
         NEW p \in Procs, CallStep(p) \/ Rouse(p)
  PROVE  Fine' /\ Unseen
<1>1. Kept /\ Proceeds(p) /\ Acquires(p)
  BY CallKept DEF LogInv
<1>2. ASSUME NEW w \in Procs, Works(w), Wrote PROVE Carries(w)
  <2>1. io[w].at # "lock"
    BY <1>2 DEF Fine, JobData, Landed
  <2>2. CASE w = p
    BY <1>1, <1>2, <2>1, <2>2 DEF Carries, Proceeds, Acquires
  <2>3. CASE w # p
    BY <1>1, <1>2, <2>1, <2>3 DEF Carries, Proceeds, Acquires
  <2> QED
    BY <2>2, <2>3
<1> QED
  BY <1>1, <1>2, WithinFine DEF Acquires

LEMMA StutterFine ==
  ASSUME LogInv, LogInv', ~panic, Fine, UNCHANGED vars
  PROVE  Fine' /\ Unseen
<1>1. UNCHANGED <<buf, idequeue, drive, disk, io>> /\ UNCHANGED logVars /\ BufInv'
  BY DEF vars, bufVars, LogInv
<1>2. Kept
  BY <1>1, QuietKept
<1>3. ASSUME NEW w \in Procs, Works(w), Wrote PROVE Carries(w)
  BY <1>1, <1>3 DEF Carries, Fine, JobData, Landed
<1> QED
  BY <1>1, <1>2, <1>3, WithinFine

\* When nobody waits for a bwrite(), the drive writes nothing.
LEMMA NoneWritten ==
  ASSUME LogInv, ~panic, BufData, job.at \notin {"source", "target"}
  PROVE  /\ \A i \in Bufs : buf[i].dirty => ~Busy(i)
         /\ drive = "done" => ~buf[Head(idequeue)].dirty
<1>1. \A i \in Bufs : buf[i].dirty => ~Busy(i)
  BY DEF BufData, Writing, ForWorker
<1>2. ASSUME drive = "done" PROVE ~buf[Head(idequeue)].dirty
  <2>1. Head(idequeue) \in Bufs /\ Queued(Head(idequeue))
    BY <1>2, HeadIs DEF LogInv
  <2>2. Busy(Head(idequeue))
    BY <2>1 DEF Queued, Busy
  <2> QED
    BY <1>1, <2>1, <2>2
<1> QED
  BY <1>1, <1>2

LEMMA NoJobData ==
  ASSUME LogInv', ~panic', \A q \in Procs : ~Works(q)', disk'[Header] = <<>>, Quiet'
  PROVE  JobData'
<1>1. job' = NoJob
  BY DEF LogInv, Sound, Workers
<1>2. job'.stage = "none"
  BY <1>1, JobParts
<1>3. Landed' /\ Copied'
  BY DEF Landed, Copied
<1>4. Stage'
  BY <1>2 DEF Stage, Emptied, Logging, Committing, Installing, Clearing, Header
<1> QED
  BY <1>3, <1>4 DEF JobData

\* While an operation is in progress.
LEMMA DuringOp ==
  ASSUME LogInv, ~panic, Fine, NEW p \in Procs, InOp(p)
  PROVE  /\ \A q \in Procs : ~Works(q)
         /\ outstanding \in Nat /\ outstanding > 0 /\ ~committing
         /\ job.at = "" /\ disk[Header] = <<>> /\ ~Recovering
<1>1. LogTyped /\ Workers /\ Admitted
  BY SoundParts
<1>2. outstanding > 0 /\ ~committing /\ \A q \in Procs : ~Works(q)
  BY <1>1, AloneInOp
<1>3. job = NoJob
  BY <1>1, <1>2 DEF Workers
<1>4. job.at = "" /\ job.stage = "none"
  BY <1>3, JobParts
<1>5. disk[Header] = <<>>
  BY <1>4 DEF Fine, JobData, Stage, Emptied
<1>6. ~Recovering
  BY <1>2 DEF Recovering, Works
<1> QED
  BY <1>1, <1>2, <1>4, <1>5, <1>6 DEF LogTyped

\* An operation writes to the store.
LEMMA ModifyFine ==
  ASSUME LogInv, LogInv', ~panic, ~panic', Fine, NEW p \in Procs, Modify(p)
  PROVE  /\ Fine' /\ Saved' = Saved /\ Active' = Active /\ InOp(p)
         /\ \E b \in Home : Store' = [Store EXCEPT ![b] = <<p>>]
<1>1. /\ Ready(p) /\ pc[p] = "modify" /\ LogTyped /\ BufInv /\ BufInv' /\ Workers
      /\ UNCHANGED <<mru, idequeue, drive, disk, io, asleep>>
      /\ UNCHANGED <<lh, outstanding, committing, kind, left, calls, job, inode>>
  BY SoundParts DEF Modify, At, LogInv
<1>2. pc' = [pc EXCEPT ![p] = "append"]
  BY DEF Modify, Goto
<1>3. PICK i \in Bufs : buf[i].lock = p /\ buf' = [buf EXCEPT ![i].data = <<p>>]
  BY ModifyKeeps
<1>4. /\ Others(p) /\ pc'[p] = "append" /\ InOp(p) /\ InOp(p)' /\ io[p].at = "none"
      /\ ~Works(p) /\ ~Works(p)'
  BY <1>1, <1>2, OthersAre DEF LogTyped, InOp, Ready, Works
<1>5. /\ \A q \in Procs : ~Works(q)
      /\ outstanding > 0 /\ job.at = "" /\ disk[Header] = <<>> /\ ~Recovering
  BY <1>4, DuringOp
<1>6. /\ \A j \in Bufs : buf[j].dirty => ~Busy(j)
      /\ drive = "done" => ~buf[Head(idequeue)].dirty
  BY <1>5, NoneWritten DEF Fine
<1>7. buf[i].block \in Home /\ buf[i].valid
  BY <1>1, <1>3, <1>4, OneHeld
<1>8. /\ Changed(i) /\ SameUse(i) /\ SameFill(i) /\ buf'[i].data = <<p>>
      /\ \A j \in Bufs : SameFill(j) /\ buf'[j].lock = buf[j].lock
  <2>1. <<p>> \in Content /\ buf \in [Bufs -> BufRec]
    BY <1>1, CallerHas, BufNumbers DEF Content
  <2>2. Changed(i) /\ SameUse(i) /\ SameFill(i) /\ buf'[i].data = <<p>>
    BY <1>3, <2>1, SetData
  <2> QED
    BY <2>2 DEF Changed, SameUse, SameFill
<1>9. BufData'
  <2>1. Clean'
    <3>1. SUFFICES ASSUME NEW j \in Bufs, buf'[j].valid, ~buf'[j].dirty, ~Dirties(j)'
                   PROVE  buf'[j].data = disk'[buf'[j].block]
      BY DEF Clean
    <3>2. j # i
      BY <1>3, <1>4, <1>8, <3>1 DEF Dirties
    <3>3. buf'[j] = buf[j]
      BY <1>8, <3>2 DEF Changed
    <3>4. ~Dirties(j)
      BY <1>1, <1>4, <3>1, <3>3 DEF Dirties, Others
    <3> QED
      BY <1>1, <3>1, <3>3, <3>4 DEF Fine, BufData, Clean
  <2>2. Written'
    <3>1. SUFFICES ASSUME drive' = "done" PROVE ~buf'[Head(idequeue')].dirty
      BY DEF Written
    <3>2. Head(idequeue) \in Bufs /\ idequeue' = idequeue /\ drive' = drive
      BY <1>1, <3>1, HeadIs
    <3> QED
      BY <1>6, <1>8, <3>1, <3>2 DEF SameFill
  <2>3. \A j \in Bufs : Busy(j)' <=> Busy(j)
    BY <1>1, <1>8 DEF Busy
  <2>4. Pinned'
    BY <1>1, <1>8, <2>3 DEF Fine, BufData, Pinned, SameFill, Home
  <2>5. Writing'
    BY <1>6, <1>8, <2>3 DEF Writing, SameFill
  <2> QED
    BY <2>1, <2>2, <2>4, <2>5 DEF BufData
<1>10. \A q \in Procs : ~Works(q)'
  BY <1>4, <1>5, OthersSame
<1>11. Quiet'
  BY <1>1, <1>4, QuietOn
<1>12. JobData'
  BY <1>1, <1>5, <1>10, <1>11, NoJobData
<1>13. ~Recovering' /\ Active' = Active /\ Saved' = Saved
  BY <1>1, <1>4, <1>10, ActiveIs, SavedSame DEF Recovering, Works
<1>14. PICK b \in Home : b = buf[i].block
  BY <1>7
<1>15. View' = [View EXCEPT ![b] = <<p>>]
  <2>1. View'[b] = <<p>>
    <3>1. Cached(b, i)'
      BY <1>7, <1>8, <1>14 DEF Cached, SameFill
    <3> QED
      BY <1>1, <1>8, <3>1, ViewIsNext
  <2>2. ASSUME NEW c \in Home, c # b PROVE View'[c] = View[c]
    <3>1. ASSUME NEW j \in Bufs, Cached(c, j)' PROVE View'[c] = View[c]
      <4>1. Cached(c, j) /\ j # i
        BY <1>8, <1>14, <2>2, <3>1 DEF Cached, SameFill
      <4>2. buf'[j] = buf[j]
        BY <1>8, <4>1 DEF Changed
      <4> QED
        BY <1>1, <3>1, <4>1, <4>2, ViewIs, ViewIsNext
    <3>2. ASSUME \A j \in Bufs : ~Cached(c, j)' PROVE View'[c] = View[c]
      <4>1. \A j \in Bufs : ~Cached(c, j)
        BY <1>8, <3>2 DEF Cached, SameFill
      <4> QED
        BY <1>1, <3>2, <4>1, ViewIs, ViewIsNext
    <3> QED
      BY <3>1, <3>2
  <2>3. View' = [c \in Home |-> View'[c]] /\ View = [c \in Home |-> View[c]]
    BY DEF View
  <2> QED
    BY <2>1, <2>2, <2>3
<1>16. Store = View /\ Store' = View'
  <2>1. View' = [c \in Home |-> View'[c]] /\ View = [c \in Home |-> View[c]]
    BY DEF View
  <2> QED
    BY <1>5, <1>13, <2>1, StoreIs DEF Recovering
<1> QED
  BY <1>4, <1>9, <1>12, <1>13, <1>15, <1>16 DEF Fine

\* log_write() marks the block and puts it in the log.
LEMMA log_writeFine ==
  ASSUME LogInv, LogInv', ~panic, ~panic', Fine, NEW p \in Procs, log_write(p)
  PROVE  Fine' /\ Unseen
<1>1. /\ Ready(p) /\ pc[p] = "append" /\ LogTyped /\ BufInv /\ BufInv' /\ Workers
      /\ UNCHANGED <<mru, idequeue, drive, disk, io, asleep>>
      /\ UNCHANGED <<outstanding, committing, kind, left, calls, job, inode>>
  BY SoundParts DEF log_write, At, LogInv
<1>2. pc' = [pc EXCEPT ![p] = "logged"]
  BY DEF log_write, Goto
<1>3. PICK i \in Bufs : /\ buf[i].lock = p /\ lh' = Absorb(buf[i].block)
                        /\ buf' = [buf EXCEPT ![i].dirty = TRUE]
  BY DEF log_write, Pin
<1>4. /\ Others(p) /\ pc'[p] = "logged" /\ InOp(p) /\ InOp(p)' /\ io[p].at = "none"
      /\ ~Works(p) /\ ~Works(p)'
  BY <1>1, <1>2, OthersAre DEF LogTyped, InOp, Ready, Works
<1>5. /\ \A q \in Procs : ~Works(q)
      /\ outstanding \in Nat /\ outstanding > 0 /\ job.at = "" /\ disk[Header] = <<>>
  BY <1>4, DuringOp
<1>6. /\ \A j \in Bufs : buf[j].dirty => ~Busy(j)
      /\ drive = "done" => ~buf[Head(idequeue)].dirty
  BY <1>5, NoneWritten DEF Fine
<1>7. /\ buf[i].block \in Home /\ buf[i].valid /\ ~Queued(i) /\ ~Busy(i)
      /\ \A j \in Bufs : buf[j].lock = p => j = i
  BY <1>1, <1>3, <1>4, OneHeld, OwnerHas
<1>8. /\ Changed(i) /\ buf'[i].dirty = TRUE
      /\ \A j \in Bufs : /\ buf'[j].block = buf[j].block /\ buf'[j].valid = buf[j].valid
                         /\ buf'[j].data = buf[j].data /\ buf'[j].lock = buf[j].lock
  <2>1. Changed(i) /\ SameUse(i) /\ buf'[i].dirty = TRUE /\ buf'[i].data = buf[i].data
        /\ buf'[i].block = buf[i].block /\ buf'[i].valid = buf[i].valid
    BY <1>1, <1>3, SetDirty, CallerHas
  <2> QED
    BY <2>1 DEF Changed, SameUse
<1>9. ToSet(lh') = ToSet(lh) \cup {buf[i].block}
  <2>1. HeaderOK(lh) /\ Len(lh) < NLOG - 1
    BY <1>1, Room, SoundParts
  <2> QED
    BY <1>3, <1>7, <2>1, AbsorbKeeps
<1>10. BufData'
  <2>1. Clean'
    <3>1. SUFFICES ASSUME NEW j \in Bufs, buf'[j].valid, ~buf'[j].dirty, ~Dirties(j)'
                   PROVE  buf'[j].data = disk'[buf'[j].block]
      BY DEF Clean
    <3>2. j # i
      BY <1>8, <3>1
    <3>3. buf'[j] = buf[j] /\ buf[j].lock # p
      BY <1>7, <1>8, <3>2 DEF Changed
    <3>4. ~Dirties(j)
      BY <1>4, <3>1, <3>3 DEF Dirties, Others
    <3> QED
      BY <1>1, <3>1, <3>3, <3>4 DEF Fine, BufData, Clean
  <2>2. Written'
    <3>1. SUFFICES ASSUME drive' = "done" PROVE ~buf'[Head(idequeue')].dirty
      BY DEF Written
    <3>2. Head(idequeue) \in Bufs /\ Queued(Head(idequeue)) /\ idequeue' = idequeue
          /\ drive' = drive
      BY <1>1, <3>1, HeadIs
    <3>3. PICK k \in Bufs : k = Head(idequeue)
      BY <3>2
    <3>4. buf'[k] = buf[k]
      BY <1>7, <1>8, <3>2, <3>3 DEF Changed
    <3> QED
      BY <1>6, <3>1, <3>2, <3>3, <3>4
  <2>3. \A j \in Bufs : Busy(j)' <=> Busy(j)
    BY <1>1, <1>8 DEF Busy
  <2>4. Pinned'
    <3>1. SUFFICES ASSUME NEW j \in Bufs, buf'[j].dirty
                   PROVE  IF buf'[j].block \in Home THEN buf'[j].block \in ToSet(lh') ELSE Busy(j)'
      BY DEF Pinned, Home
    <3>2. CASE j = i
      BY <1>7, <1>8, <1>9, <3>2
    <3>3. CASE j # i
      <4>1. buf'[j] = buf[j]
        BY <1>8, <3>3 DEF Changed
      <4>2. IF buf[j].block \in Home THEN buf[j].block \in ToSet(lh) ELSE Busy(j)
        BY <3>1, <4>1 DEF Fine, BufData, Pinned
      <4> QED
        BY <1>9, <2>3, <4>1, <4>2
    <3> QED
      BY <3>2, <3>3
  <2>5. Writing'
    <3>1. ASSUME NEW j \in Bufs, buf'[j].dirty, Busy(j)' PROVE FALSE
      <4>1. Busy(j) /\ j # i
        BY <1>7, <2>3, <3>1
      <4>2. buf[j].dirty
        BY <1>8, <3>1, <4>1 DEF Changed
      <4> QED
        BY <1>6, <4>1, <4>2
    <3> QED
      BY <3>1 DEF Writing
  <2> QED
    BY <2>1, <2>2, <2>4, <2>5 DEF BufData
<1>11. \A q \in Procs : ~Works(q)'
  BY <1>4, <1>5, OthersSame
<1>12. Quiet'
  <2>1. outstanding' # 0
    <3>1. outstanding' = outstanding
      BY <1>1
    <3>2. outstanding \in Nat /\ outstanding > 0
      BY <1>5
    <3> QED
      BY <3>1, <3>2
  <2> QED
    BY <2>1 DEF Quiet
<1>13. JobData'
  BY <1>1, <1>5, <1>11, <1>12, NoJobData
<1>14. (Recovering' <=> Recovering) /\ Active' = Active /\ Saved' = Saved
  BY <1>1, <1>4, <1>5, <1>11, ActiveIs, SavedSame DEF Recovering, Works
<1>15. View' = View
  <2>1. ASSUME NEW c \in Home PROVE View'[c] = View[c]
    <3>1. \A j \in Bufs : Cached(c, j)' <=> Cached(c, j)
      BY <1>8 DEF Cached
    <3>2. ASSUME NEW j \in Bufs, Cached(c, j) PROVE View'[c] = View[c]
      BY <1>1, <1>8, <3>1, <3>2, ViewIs, ViewIsNext
    <3>3. ASSUME \A j \in Bufs : ~Cached(c, j) PROVE View'[c] = View[c]
      BY <1>1, <3>1, <3>3, ViewIs, ViewIsNext
    <3> QED
      BY <3>2, <3>3
  <2>2. View' = [c \in Home |-> View'[c]] /\ View = [c \in Home |-> View[c]]
    BY DEF View
  <2> QED
    BY <2>1, <2>2
<1>16. Store' = Store
  BY <1>14, <1>15, StoreKept
<1> QED
  BY <1>10, <1>13, <1>14, <1>16 DEF Fine, Unseen

\* end_op() ends an operation; the last one starts the commit.
LEMMA end_opFine ==
  ASSUME LogInv, LogInv', ~panic, ~panic', Fine, NEW p \in Procs, end_op(p)
  PROVE  Fine' /\ Store' = Store /\ Saved' = Saved /\ Active' = Active \ {p}
<1>1. /\ Ready(p) /\ pc[p] \in {"op", "ops"} /\ LogTyped /\ BufInv /\ BufInv' /\ Workers
      /\ UNCHANGED <<buf, mru, idequeue, drive, disk, io>>
      /\ UNCHANGED <<lh, kind, left, calls, inode>>
      /\ outstanding' = outstanding - 1
  BY SoundParts DEF end_op, LogInv
<1>2. InOp(p) /\ ~Works(p) /\ io[p].at = "none"
  BY <1>1 DEF InOp, Works, Ready
<1>3. /\ \A q \in Procs : ~Works(q)
      /\ outstanding \in Nat /\ outstanding > 0 /\ job.at = "" /\ disk[Header] = <<>>
      /\ ~Recovering
  BY <1>2, DuringOp
<1>4. Kept /\ Touches(p)
  BY <1>1, QuietKept, TouchesNone
<1>5. CASE ~IsLast
  <2>1. /\ pc' = [pc EXCEPT ![p] = AfterOp(p)] /\ UNCHANGED <<committing, job>>
        /\ outstanding # 1
    BY <1>5 DEF end_op, Goto, IsLast
  <2>2. Others(p) /\ pc'[p] \in {"iunlock", "idle"}
    BY <1>1, <2>1, OthersAre, AfterOpIs DEF LogTyped
  <2>3. ~Works(p)' /\ ~InOp(p)'
    BY <2>2 DEF Works, InOp
  <2>6. outstanding' > 0
    <3>1. outstanding' = outstanding - 1
      BY <1>1
    <3>2. outstanding \in Nat /\ outstanding > 0 /\ outstanding # 1
      BY <1>3, <2>1
    <3> QED
      BY <3>1, <3>2
  <2>4. Quiet'
    BY <1>1, <1>2, <2>2, <2>3, <2>6, QuietOn
  <2>5. Fine' /\ Store' = Store /\ Saved' = Saved
    BY <1>1, <1>2, <1>4, <2>1, <2>2, <2>3, <2>4, PlainStep
  <2> QED
    BY <1>2, <2>2, <2>3, <2>5, ActiveIs
<1>6. CASE IsLast
  <2>1. /\ pc' = [pc EXCEPT ![p] = "commit"] /\ job' = CommitJob /\ HeaderOK(lh)
    BY <1>6, SoundParts DEF end_op, Goto
  <2>2. Others(p) /\ pc'[p] = "commit"
    BY <1>1, <2>1, OthersAre, AfterOpIs DEF LogTyped
  <2>3. Works(p)' /\ ~InOp(p)'
    BY <2>2 DEF Works, InOp
  <2>4. BufData' /\ View' = View /\ Saved' = Saved
    BY <1>1, <1>2, <1>3, <1>4, <2>2, BufStep
  <2>5. /\ job' = Done \/ job' = CopyJob("write_log", 1)
    BY <2>1 DEF CommitJob, Done, NoJob
  <2>6. /\ job'.stage \in {"done", "write_log"} /\ job'.at \in {"", "log"}
        /\ job'.stage = "write_log" => job'.tail = 1
    <3>1. CASE job' = Done
      BY <3>1 DEF Done
    <3>2. CASE job' = CopyJob("write_log", 1)
      BY <3>2 DEF CopyJob
    <3> QED
      BY <2>5, <3>1, <3>2
  <2>7. Landed' /\ Copied'
    BY <2>6 DEF Landed, Copied, Wrote
  <2>8. Stage'
    <3>1. \A s : s \notin 1..1 - 1
      OBVIOUS
    <3>2. Logging'
      BY <1>1, <1>3, <2>6, <3>1 DEF Logging, Header
    <3> QED
      BY <1>1, <1>3, <2>6, <3>2 DEF Stage, Emptied, Committing, Installing, Clearing, Header
  <2>9. Quiet'
    BY <2>3 DEF Quiet
  <2>10. ~Recovering'
    BY <1>3, <2>2 DEF Recovering, Others
  <2>11. Store' = Store
    BY <1>3, <2>4, <2>10, StoreKept
  <2> QED
    BY <1>2, <2>2, <2>3, <2>4, <2>7, <2>8, <2>9, <2>11, ActiveIs DEF Fine, JobData
<1> QED
  BY <1>5, <1>6

\* The machine stops: what a restart finds is what it would have found before.
LEMMA CrashFine ==
  ASSUME LogInv, LogInv', Crash
  PROVE  Fine' /\ Store' = Saved /\ Saved' = Saved /\ Active' = {}
<1>1. /\ disk' = disk /\ idequeue' = <<>> /\ drive' = "idle"
      /\ \A i \in Bufs : buf'[i] = EmptyBuf
      /\ pc' = BootPc /\ job' = HeadJob("read_head")
  BY DEF Crash, BufReset
<1>2. /\ \A i \in Bufs : ~buf'[i].valid /\ ~buf'[i].dirty
      /\ job'.stage = "read_head" /\ job'.at = "head" /\ pc'[BootProc] = "recover"
      /\ BootProc \in Procs
  BY <1>1, JobParts, FirstJob, BootPcIs, NobodyYet, LogNumbers
<1>3. BufData'
  BY <1>1, <1>2 DEF BufData, Clean, Written, Pinned, Writing
<1>4. Landed' /\ Copied'
  BY <1>2 DEF Landed, Copied, Wrote
<1>5. Stage'
  BY <1>2 DEF Stage, Emptied, Logging, Committing, Installing, Clearing
<1>6. Works(BootProc)' /\ Recovering'
  BY <1>2 DEF Works, Recovering
<1>7. Quiet'
  BY <1>2, <1>6 DEF Quiet
<1>8. \A q \in Procs : ~InOp(q)'
  <2>1. \A q \in Procs : pc'[q] \in {"recover", "down"}
    BY <1>1, BootPcIs
  <2> QED
    BY <2>1 DEF InOp
<1>9. Saved' = Saved /\ HeaderOK(disk[Header])
  BY <1>1, SavedSame DEF LogInv
<1>10. Store' = Saved
  <2>1. Saved = [b \in Home |-> Saved[b]]
    BY <1>9, SavedIs
  <2> QED
    BY <1>6, <1>9, <2>1, StoreIs DEF Recovering
<1> QED
  BY <1>3, <1>4, <1>5, <1>7, <1>8, <1>9, <1>10 DEF Fine, JobData, Active
-----------------------------------------------------------------------------
(***************************************************************************)
(* The process in commit() or in recovery.                                 *)
(***************************************************************************)
JobOnly == UNCHANGED <<outstanding, committing, pc, kind, left, calls, inode>>

\* What the others see of its steps.
LEMMA JobAlone ==
  ASSUME LogInv, NEW p \in Procs, NEW at, Working(p, at), JobOnly
  PROVE  /\ ~panic /\ Works(p) /\ job.at = at /\ io[p].at = "none"
         /\ BufInv /\ JobOK /\ HeaderOK(lh) /\ HeaderOK(disk[Header])
         /\ Others(p) /\ (\A q \in Procs \ {p} : ~Works(q))
         /\ (\A q \in Procs : pc[q] # "append")
         /\ (\A q \in Procs : Works(q)' <=> q = p)
         /\ Active' = Active /\ Active = {} /\ (Recovering' <=> Recovering)
         /\ (Recovering <=> pc[p] = "recover") /\ (committing <=> pc[p] = "commit")
<1>1. /\ ~panic /\ Works(p) /\ job.at = at /\ io[p].at = "none"
      /\ BufInv /\ JobOK /\ HeaderOK(lh) /\ HeaderOK(disk[Header])
      /\ \A q \in Procs \ {p} : ~Works(q)
  BY WorkingIs
<1>2. LogTyped /\ Workers /\ Jobs /\ Admitted
  BY <1>1, SoundParts
<1>3. outstanding = 0
  BY <1>1, <1>2, WorkerIs
<1>4. \A q \in Procs : ~InOp(q)
  BY <1>2, <1>3, AloneInOp DEF LogTyped
<1>5. \A q \in Procs : pc[q] # "append"
  BY <1>4 DEF InOp
<1> QED
  BY <1>1, <1>2, <1>4, <1>5
     DEF JobOnly, Others, Works, Active, InOp, Recovering, Workers

\* A step that writes nothing.
LEMMA JobKeeps ==
  ASSUME LogInv, LogInv', ~panic, Fine, NEW p \in Procs, NEW at, Working(p, at), JobOnly,
         Kept, Touches(p),
         \A i \in Bufs : buf[i].dirty /\ buf[i].block \in ToSet(lh) => buf[i].block \in ToSet(lh')
  PROVE  BufData' /\ View' = View /\ disk' = disk /\ Quiet' /\ Unseen
<1>1. /\ Works(p) /\ io[p].at = "none" /\ Others(p) /\ pc[p] # "append"
      /\ \A q \in Procs \ {p} : ~Works(q)
      /\ Works(p)' /\ Active' = Active /\ (Recovering' <=> Recovering)
  BY JobAlone
<1>2. BufInv' /\ disk' = disk
  BY DEF LogInv, Kept
<1>3. BufData' /\ View' = View /\ Saved' = Saved
  BY <1>1, <1>2, BufStep
<1>4. Quiet'
  BY <1>1 DEF Quiet
<1> QED
  BY <1>1, <1>2, <1>3, <1>4, StoreKept DEF Unseen

LEMMA JobGetFine ==
  ASSUME LogInv, LogInv', ~panic, ~panic', Fine, NEW p \in Procs, NEW blk \in Blocks,
         NEW at \in {"log", "home", "head"}, Working(p, at), bget(p, blk),
         NEW to \in {"home", "copy", "fill"}, JobAt(to), JobOnly, lh' = lh
  PROVE  Fine' /\ Unseen
<1>1. job.at = at /\ BufInv /\ job \in JobRec
  BY JobAlone, SoundParts DEF LogTyped
<1>2. job'.stage = job.stage /\ job'.tail = job.tail /\ job'.at = to
  BY <1>1, JobAtIs
<1>3. Kept /\ Touches(p)
  BY <1>1, GetKept DEF Touches
<1>4. BufData' /\ View' = View /\ Quiet' /\ Unseen /\ BufInv'
  BY <1>3, JobKeeps DEF LogInv
<1>5. ~Wrote' /\ job.at # "target" /\ committing' = committing
  BY <1>1, <1>2 DEF Wrote, JobOnly
<1>6. JobData'
  BY <1>2, <1>3, <1>4, <1>5, JobDataKept DEF Fine
<1> QED
  BY <1>4, <1>6 DEF Fine

LEMMA BreadFine ==
  ASSUME LogInv, LogInv', ~panic, ~panic', Fine, NEW p \in Procs,
         BreadLog(p) \/ BreadHome(p) \/ BreadHead(p)
  PROVE  Fine' /\ Unseen
<1>1. CASE BreadLog(p)
  <2>1. /\ Working(p, "log") /\ bget(p, LogBlock(job.tail)) /\ JobAt("home")
        /\ JobOnly /\ lh' = lh
    BY <1>1 DEF BreadLog, JobOnly
  <2>2. JobOK /\ job.at = "log" /\ LogTyped /\ HeaderOK(lh)
    BY <2>1, JobAlone, SoundParts
  <2>3. LogBlock(job.tail) \in Blocks
    BY <2>2, JobsAt, CopyIs
  <2> QED
    BY <2>1, <2>3, JobGetFine
<1>2. CASE BreadHome(p)
  <2>1. /\ Working(p, "home") /\ bget(p, lh[job.tail]) /\ JobAt("copy")
        /\ JobOnly /\ lh' = lh
    BY <1>2 DEF BreadHome, JobOnly
  <2>2. JobOK /\ job.at = "home" /\ LogTyped /\ HeaderOK(lh)
    BY <2>1, JobAlone, SoundParts
  <2>3. lh[job.tail] \in Blocks
    BY <2>2, JobsAt, CopyIs
  <2> QED
    BY <2>1, <2>3, JobGetFine
<1>3. CASE BreadHead(p)
  <2>1. Working(p, "head") /\ bget(p, Header) /\ JobAt("fill") /\ JobOnly /\ lh' = lh
    BY <1>3 DEF BreadHead, JobOnly
  <2> QED
    BY <2>1, LogNumbers, JobGetFine
<1> QED
  BY <1>1, <1>2, <1>3

\* A block that a process has from the cache, and has not begun to write.
LEMMA ReadIs ==
  ASSUME LogInv, ~panic, Fine, NEW p \in Procs, NEW at, Working(p, at), JobOnly,
         at \notin {"source", "target"}, NEW i \in Bufs, buf[i].lock = p,
         buf[i].block \notin Home
  PROVE  buf[i].data = disk[buf[i].block] /\ ~buf[i].dirty
<1>1. BufInv /\ job.at = at /\ io[p].at = "none" /\ pc[p] # "append"
  BY JobAlone
<1>2. buf[i].valid
  BY <1>1, OwnerHas
<1>3. ~buf[i].dirty /\ ~Dirties(i)
  BY <1>1, NoneWritten DEF Fine, BufData, Pinned, Dirties
<1> QED
  BY <1>2, <1>3 DEF Fine, BufData, Clean

\* bwrite() as far as the call of the driver.
LEMMA WriteFine ==
  ASSUME LogInv, LogInv', ~panic, Fine, NEW p \in Procs, NEW at, Working(p, at), JobOnly,
         at \notin {"source", "target"}, lh' = lh,
         NEW i \in Bufs, buf[i].lock = p, buf[i].block = Out, NEW c \in Content, bwrite(p, i, c),
         job'.stage = job.stage, job'.tail = job.tail, job'.at \in {"source", "target"},
         Out \in Home => Out \in ToSet(lh)
  PROVE  /\ BufData' /\ Landed' /\ Quiet' /\ disk' = disk /\ Saved' = Saved /\ Out' = Out
         /\ c = Wanted' => Copied'
         /\ \A j \in Bufs : buf'[j].dirty => j = i \/ (buf[j].dirty /\ buf'[j].block = buf[j].block)
         /\ buf'[i].block = Out
         /\ (Out \notin Home \/ View[Out] = c) => View' = View
<1>1. /\ job.at = at /\ io[p].at = "none" /\ BufInv /\ BufInv' /\ Others(p) /\ Works(p)'
      /\ \A q \in Procs \ {p} : ~Works(q)'
      /\ \A q \in Procs : pc'[q] = pc[q] /\ pc[q] # "append"
  BY JobAlone DEF LogInv, JobOnly
<1>2. /\ buf' = [buf EXCEPT ![i].data = c, ![i].dirty = TRUE]
      /\ UNCHANGED <<mru, idequeue, drive, disk, asleep, panic>> /\ Then(p, "rw", i)
  BY DEF bwrite
<1>3. buf \in [Bufs -> BufRec] /\ io \in [Procs -> IoRec]
  BY <1>1, CallerHas
<1>4. /\ Changed(i) /\ SameUse(i) /\ buf'[i].dirty = TRUE /\ buf'[i].data = c
      /\ buf'[i].block = buf[i].block /\ buf'[i].valid = buf[i].valid
  BY <1>2, <1>3, SetWrite
<1>5. io'[p].at = "rw" /\ io'[p].buf = i /\ \A q \in Procs \ {p} : io'[q] = io[q]
  BY <1>2, <1>3, SetIo DEF Then
<1>6. buf[i].valid /\ ~Queued(i) /\ ~Busy(i)
  BY <1>1, OwnerHas
<1>7. /\ \A j \in Bufs : buf[j].dirty => ~Busy(j)
      /\ drive = "done" => ~buf[Head(idequeue)].dirty
  BY <1>1, NoneWritten DEF Fine
<1>8. \A j \in Bufs \ {i} : buf'[j] = buf[j] /\ (Busy(j)' => Busy(j))
  BY <1>4, <1>5 DEF Changed, Busy
<1>9. Busy(i)'
  BY <1>4, <1>5 DEF Busy, SameUse
<1>10. Out' = Out
  BY DEF Out, Target, LogBlock, Header
<1>11. Clean'
  <2>1. SUFFICES ASSUME NEW j \in Bufs, buf'[j].valid, ~buf'[j].dirty
                 PROVE  buf'[j].data = disk'[buf'[j].block]
    BY DEF Clean
  <2>2. j # i
    BY <1>4, <2>1
  <2>3. buf'[j] = buf[j] /\ ~Dirties(j)
    BY <1>1, <1>8, <2>2 DEF Dirties
  <2> QED
    BY <1>2, <2>1, <2>3 DEF Fine, BufData, Clean
<1>12. Written'
  <2>1. SUFFICES ASSUME drive' = "done" PROVE ~buf'[Head(idequeue')].dirty
    BY DEF Written
  <2>2. /\ Head(idequeue) \in Bufs /\ Queued(Head(idequeue))
        /\ idequeue' = idequeue /\ drive' = drive
    BY <1>1, <1>2, <2>1, HeadIs
  <2>3. PICK k \in Bufs : k = Head(idequeue)
    BY <2>2
  <2>4. buf'[k] = buf[k]
    BY <1>6, <1>8, <2>2, <2>3
  <2> QED
    BY <1>7, <2>1, <2>2, <2>3, <2>4
<1>13. Pinned'
  <2>1. SUFFICES ASSUME NEW j \in Bufs, buf'[j].dirty
                 PROVE  IF buf'[j].block \in Home THEN buf'[j].block \in ToSet(lh') ELSE Busy(j)'
    BY DEF Pinned, Home
  <2>2. CASE j = i
    BY <1>4, <1>9, <2>2
  <2>3. CASE j # i
    <3>1. buf'[j] = buf[j]
      BY <1>8, <2>3
    <3>2. buf[j].block \in Home /\ buf[j].block \in ToSet(lh)
      BY <1>7, <2>1, <3>1 DEF Fine, BufData, Pinned
    <3> QED
      BY <3>1, <3>2
  <2> QED
    BY <2>2, <2>3
<1>14. Writing'
  <2>1. SUFFICES ASSUME NEW j \in Bufs, buf'[j].dirty, Busy(j)' PROVE ForWorker(j)'
    BY DEF Writing
  <2>2. j = i
    BY <1>7, <1>8, <2>1
  <2>3. buf'[i].lock = p
    BY <1>4 DEF SameUse
  <2> QED
    BY <1>1, <2>2, <2>3 DEF ForWorker, Works
<1>15. Landed'
  <2>1. SUFFICES ASSUME NEW w \in Procs, Works(w)'
                 PROVE  /\ io'[w].at # "lock"
                        /\ buf'[io'[w].buf].block = Out' /\ buf'[io'[w].buf].valid
                        /\ io'[w].at \in {"rw", "wait"}
    BY DEF Landed
  <2>2. w = p
    BY <1>1, <2>1
  <2> QED
    BY <1>4, <1>5, <1>6, <1>10, <2>2
<1>16. ASSUME c = Wanted' PROVE Copied'
  <2>1. SUFFICES ASSUME NEW w \in Procs, Works(w)',
                        NEW j \in Bufs, buf'[j].lock = w, buf'[j].block = Out'
                 PROVE  buf'[j].data = Wanted'
    BY DEF Copied
  <2>2. j = i
    <3>1. buf'[i].block = buf'[j].block /\ buf[i].block # NoBlock
      BY <1>4, <1>10, <2>1, <1>1, OwnerHas
    <3> QED
      BY <1>1, <1>4, <3>1 DEF BufInv, OneBufferPerBlock
  <2> QED
    BY <1>4, <1>16, <2>2
<1>17. Quiet'
  BY <1>1 DEF Quiet
<1>18. ASSUME Out \notin Home \/ View[Out] = c PROVE View' = View
  <2>1. ASSUME NEW b \in Home PROVE View'[b] = View[b]
    <3>1. \A j \in Bufs : Cached(b, j)' <=> Cached(b, j)
      BY <1>4, <1>8 DEF Cached
    <3>2. ASSUME NEW j \in Bufs, Cached(b, j) PROVE View'[b] = View[b]
      <4>1. View'[b] = buf'[j].data /\ View[b] = buf[j].data
        BY <1>1, <3>1, <3>2, ViewIs, ViewIsNext
      <4>2. CASE j = i
        BY <1>4, <1>18, <3>2, <4>1, <4>2 DEF Cached
      <4>3. CASE j # i
        BY <1>8, <4>1, <4>3
      <4> QED
        BY <4>2, <4>3
    <3>3. ASSUME \A j \in Bufs : ~Cached(b, j) PROVE View'[b] = View[b]
      BY <1>1, <1>2, <3>1, <3>3, ViewIs, ViewIsNext
    <3> QED
      BY <3>2, <3>3
  <2>2. View' = [b \in Home |-> View'[b]] /\ View = [b \in Home |-> View[b]]
    BY DEF View
  <2> QED
    BY <2>1, <2>2
<1>19. Saved' = Saved
  BY <1>2, SavedSame
<1>20. \A j \in Bufs : buf'[j].dirty => j = i \/ (buf[j].dirty /\ buf'[j].block = buf[j].block)
  BY <1>8
<1> QED
  BY <1>2, <1>4, <1>10, <1>11, <1>12, <1>13, <1>14, <1>15, <1>16, <1>17, <1>18, <1>19, <1>20
     DEF BufData

LEMMA HeaderContent ==
  ASSUME NEW s, HeaderOK(s)
  PROVE  s \in Content
<1>1. Home \subseteq Nat /\ s \in Seq(Home)
  BY LogNumbers DEF HeaderOK
<1>2. s \in [1..Len(s) -> Home] /\ Len(s) \in Nat
  BY <1>1
<1>3. s \in [1..Len(s) -> Nat]
  BY <1>1, <1>2
<1> QED
  BY <1>2, <1>3 DEF Content

\* A copy is what the commit wants in the log, or the recovery at home.
LEMMA CopyBlockFine ==
  ASSUME LogInv, LogInv', ~panic, Fine, NEW p \in Procs, CopyBlock(p)
  PROVE  Fine' /\ Unseen
<1>1. /\ Working(p, "copy") /\ JobAt("source") /\ JobOnly /\ lh' = lh
      /\ bwrite(p, Mine(p, Target), buf[Mine(p, Source)].data)
  BY DEF CopyBlock, JobOnly
<1>2. /\ Works(p) /\ job.at = "copy" /\ BufInv /\ HeaderOK(lh) /\ JobOK /\ io[p].at = "none"
      /\ LogTyped /\ (\A q \in Procs : Works(q)' <=> q = p) /\ Active' = Active
      /\ (Recovering' <=> Recovering) /\ (Recovering \/ committing)
      /\ committing' = committing
  BY <1>1, JobAlone, SoundParts DEF Works, JobOnly
<1>3. job \in Copies(Len(lh)) /\ job \in JobRec
  BY <1>2, JobsAt DEF LogTyped
<1>4. /\ job.tail \in 1..Len(lh) /\ Len(lh) \in Nat /\ job.tail \in 1..NLOG-1
      /\ lh[job.tail] \in Home /\ LogBlock(job.tail) \notin Home
      /\ job.stage \in {"write_log", "install_trans"}
  BY <1>2, <1>3, CopyIs
<1>5. HeldBlocks(p) = {LogBlock(job.tail), lh[job.tail]}
  BY <1>1, <1>2, WorkingIs DEF JobBlocks
<1>6. job'.stage = job.stage /\ job'.tail = job.tail /\ job'.at = "source"
  BY <1>1, <1>3, JobAtIs
<1>7. /\ Source \in HeldBlocks(p) /\ Target \in HeldBlocks(p) /\ Out = Target
      /\ job.stage = "write_log" => Source = lh[job.tail] /\ Target = LogBlock(job.tail)
      /\ job.stage = "install_trans" => Source = LogBlock(job.tail) /\ Target = lh[job.tail]
  BY <1>4, <1>5 DEF Source, Target, Out
<1>8. PICK i \in Bufs, s \in Bufs :
        /\ i = Mine(p, Target) /\ buf[i].lock = p /\ buf[i].block = Target
        /\ s = Mine(p, Source) /\ buf[s].lock = p /\ buf[s].block = Source
        /\ buf[s].valid /\ buf[s].data \in Content
  BY <1>2, <1>7, OwnsAre
<1>9. PICK c \in Content : c = buf[s].data
  BY <1>8
<1>10. bwrite(p, i, c)
  BY <1>1, <1>8, <1>9
<1>11. Out \in Home => Out \in ToSet(lh)
  BY <1>4, <1>7 DEF ToSet
<1>12. /\ BufData' /\ Landed' /\ Quiet' /\ disk' = disk /\ Saved' = Saved /\ Out' = Out
       /\ c = Wanted' => Copied'
       /\ \A j \in Bufs : buf'[j].dirty => j = i \/ (buf[j].dirty /\ buf'[j].block = buf[j].block)
       /\ buf'[i].block = Out
       /\ (Out \notin Home \/ View[Out] = c) => View' = View
  <2>1. "copy" \notin {"source", "target"} /\ job'.at \in {"source", "target"}
    BY <1>6
  <2> QED
    BY <1>1, <1>6, <1>7, <1>8, <1>10, <1>11, <2>1, WriteFine
<1>13. \A t : LogBlock(t)' = LogBlock(t)
  BY DEF LogBlock
<1>14. CASE job.stage = "write_log"
  <2>1. View' = View
    BY <1>4, <1>7, <1>12, <1>14
  <2>2. Cached(lh[job.tail], s)
    BY <1>7, <1>8, <1>14 DEF Cached
  <2>3. View[lh[job.tail]] = c
    BY <1>2, <1>4, <1>9, <2>2, ViewIs
  <2>4. Wanted' = c
    BY <1>1, <1>6, <1>14, <2>1, <2>3 DEF Wanted
  <2>5. \A t : InLog(t)' <=> InLog(t)
    BY <1>1, <1>12, <2>1 DEF InLog, LogBlock
  <2>6. Logging'
    BY <1>6, <1>12, <1>14, <2>5 DEF Fine, JobData, Stage, Logging, Header
  <2>7. Stage'
    BY <1>6, <1>14, <2>6 DEF Stage, Emptied, Committing, Installing, Clearing
  <2>8. Store' = Store
    BY <1>2, <1>12, <2>1, StoreKept
  <2> QED
    BY <1>2, <1>12, <2>4, <2>7, <2>8 DEF Fine, JobData, Unseen
<1>15. CASE job.stage = "install_trans"
  <2>1. c = disk[LogBlock(job.tail)]
    <3>1. buf[s].block \notin Home /\ "copy" \notin {"source", "target"}
      BY <1>4, <1>7, <1>8, <1>15
    <3>2. buf[s].data = disk[buf[s].block]
      BY <1>1, <1>8, <3>1, ReadIs
    <3> QED
      BY <1>7, <1>8, <1>9, <1>15, <3>2
  <2>2. /\ disk[Header] = lh
        /\ \A t \in 1..job.tail - 1 : Installed(t)
        /\ committing => \A t \in DOMAIN lh : InLog(t)
    BY <1>15 DEF Fine, JobData, Stage, Installing
  <2>3. Wanted' = c
    BY <1>6, <1>12, <1>15, <2>1 DEF Wanted, LogBlock
  <2>4. ASSUME committing PROVE View' = View
    <3>1. InLog(job.tail) /\ Out = lh[job.tail]
      BY <1>4, <1>7, <1>15, <2>2, <2>4 DEF HeaderOK
    <3>2. View[Out] = c
      BY <2>1, <3>1 DEF InLog
    <3> QED
      BY <1>12, <3>2
  <2>5. ASSUME NEW t \in 1..job.tail - 1 PROVE Installed(t)'
    <3>1. t \in 1..Len(lh) /\ t # job.tail
      BY <1>4
    <3>2. lh[t] # lh[job.tail]
      BY <1>2, <1>4, <3>1 DEF HeaderOK
    <3>3. /\ disk[lh[t]] = disk[LogBlock(t)]
          /\ \A j \in Bufs : buf[j].dirty => buf[j].block # lh[t]
      BY <2>2 DEF Installed
    <3>4. \A j \in Bufs : buf'[j].dirty => buf'[j].block # lh[t]
      BY <1>7, <1>12, <1>15, <3>2, <3>3
    <3> QED
      BY <1>1, <1>12, <1>13, <3>3, <3>4 DEF Installed
  <2>6. committing => \A t \in DOMAIN lh : InLog(t)'
    BY <1>1, <1>12, <1>13, <2>2, <2>4 DEF InLog
  <2>7. Installing'
    BY <1>1, <1>2, <1>6, <1>12, <2>2, <2>5, <2>6 DEF Installing, Header
  <2>8. Stage'
    BY <1>6, <1>15, <2>7 DEF Stage, Emptied, Committing, Logging, Clearing
  <2>9. Store' = Store
    BY <1>2, <1>12, <2>4, StoreKept
  <2> QED
    BY <1>2, <1>12, <2>3, <2>8, <2>9 DEF Fine, JobData, Unseen
<1> QED
  BY <1>4, <1>14, <1>15

LEMMA WriteHeadFine ==
  ASSUME LogInv, LogInv', ~panic, Fine, NEW p \in Procs, WriteHead(p)
  PROVE  Fine' /\ Unseen
<1>1. /\ Working(p, "fill") /\ JobAt("target") /\ JobOnly /\ lh' = lh
      /\ job.stage \in {"write_head", "clear"} /\ bwrite(p, Mine(p, Header), lh)
  BY DEF WriteHead, JobOnly
<1>2. /\ Works(p) /\ job.at = "fill" /\ BufInv /\ HeaderOK(lh) /\ JobOK /\ io[p].at = "none"
      /\ LogTyped /\ Active' = Active /\ (Recovering' <=> Recovering)
  BY <1>1, JobAlone, SoundParts
<1>3. job'.stage = job.stage /\ job'.tail = job.tail /\ job'.at = "target"
  BY <1>1, <1>2, JobAtIs DEF LogTyped
<1>4. Header \in HeldBlocks(p) /\ Out = Header /\ Header \notin Home
  BY <1>1, <1>2, WorkingIs, LogNumbers DEF JobBlocks, Out
<1>5. PICK i \in Bufs : i = Mine(p, Header) /\ buf[i].lock = p /\ buf[i].block = Header
  BY <1>2, <1>4, OwnsAre
<1>6. lh \in Content /\ bwrite(p, i, lh)
  BY <1>1, <1>2, <1>5, HeaderContent
<1>7. PICK c \in Content : c = lh
  BY <1>6
<1>8. /\ BufData' /\ Landed' /\ Quiet' /\ disk' = disk /\ Saved' = Saved /\ Out' = Out
      /\ c = Wanted' => Copied'
      /\ (Out \notin Home \/ View[Out] = c) => View' = View
  <2>1. "fill" \notin {"source", "target"} /\ job'.at \in {"source", "target"}
    BY <1>3
  <2>2. bwrite(p, i, c) /\ (Out \in Home => Out \in ToSet(lh))
    BY <1>4, <1>6, <1>7
  <2> QED
    BY <1>1, <1>3, <1>4, <1>5, <2>1, <2>2, WriteFine
<1>9. View' = View /\ Wanted' = c
  BY <1>1, <1>3, <1>4, <1>7, <1>8 DEF Wanted
<1>10. \A t : InLog(t)' <=> InLog(t)
  BY <1>1, <1>8, <1>9 DEF InLog, LogBlock
<1>11. Committing'
  BY <1>1, <1>3, <1>8, <1>10 DEF Fine, JobData, Stage, Committing, Header
<1>12. Clearing'
  BY <1>3, <1>8 DEF Fine, JobData, Stage, Clearing, Header, LogBlock
<1>13. Stage'
  BY <1>1, <1>3, <1>11, <1>12 DEF Stage, Emptied, Logging, Installing
<1>14. Store' = Store
  BY <1>2, <1>8, <1>9, StoreKept
<1> QED
  BY <1>2, <1>8, <1>9, <1>13, <1>14 DEF Fine, JobData, Unseen

LEMMA ReleaseSourceFine ==
  ASSUME LogInv, LogInv', ~panic, Fine, NEW p \in Procs, ReleaseSource(p)
  PROVE  Fine' /\ Unseen
<1>1. /\ Working(p, "source") /\ JobAt("target") /\ JobOnly /\ lh' = lh
      /\ releasesleep(p, Mine(p, Source))
  BY DEF ReleaseSource, JobOnly
<1>2. /\ Works(p) /\ job.at = "source" /\ BufInv /\ JobOK /\ io[p].at = "none"
      /\ HeaderOK(lh) /\ LogTyped /\ \A q \in Procs : Works(q)' <=> q = p
  BY <1>1, JobAlone, SoundParts
<1>3. job \in Copies(Len(lh)) /\ job \in JobRec
  BY <1>2, JobsAt DEF LogTyped
<1>4. job'.stage = job.stage /\ job'.tail = job.tail /\ job'.at = "target"
  BY <1>1, <1>3, JobAtIs
<1>5. Source \in HeldBlocks(p)
  <2>1. HeldBlocks(p) = {LogBlock(job.tail), lh[job.tail]}
    BY <1>1, <1>2, WorkingIs DEF JobBlocks
  <2> QED
    BY <1>2, <1>3, <2>1, CopyIs
<1>6. PICK i \in Bufs : i = Mine(p, Source) /\ buf[i].lock = p
  BY <1>2, <1>5, OwnsAre
<1>7. /\ Kept /\ io'[p].at = "unref" /\ Touches(p) /\ NoProc \notin Procs
      /\ \A j \in Bufs \ {i} : buf'[j].lock = buf[j].lock
      /\ buf'[i].lock = NoProc
  BY <1>1, <1>2, <1>6, ReleaseKept, BufNumbers DEF Touches
<1>8. BufData' /\ View' = View /\ Quiet' /\ Unseen /\ BufInv'
  BY <1>1, <1>7, JobKeeps DEF LogInv
<1>9. Carries(p)
  BY <1>2, <1>6, <1>7 DEF Carries, Wrote
<1>10. JobData'
  BY <1>1, <1>2, <1>4, <1>7, <1>8, <1>9, JobDataKept DEF Fine, JobOnly
<1> QED
  BY <1>8, <1>10 DEF Fine

\* When bwrite() has returned, the block is on disk.
LEMMA OnDisk ==
  ASSUME LogInv, ~panic, Fine, NEW p \in Procs, Working(p, "target"), JobOnly,
         NEW i \in Bufs, buf[i].lock = p, buf[i].block = Out
  PROVE  disk[Out] = Wanted /\ \A j \in Bufs : buf[j].block = Out => ~buf[j].dirty
<1>1. Works(p) /\ job.at = "target" /\ BufInv /\ io[p].at = "none" /\ pc[p] # "append"
  BY JobAlone
<1>2. ~buf[i].dirty /\ buf[i].data = Wanted
  BY <1>1 DEF Fine, JobData, Landed, Copied, Wrote
<1>3. buf[i].valid /\ buf[i].block # NoBlock
  BY <1>1, OwnerHas
<1>4. disk[Out] = Wanted
  BY <1>1, <1>2, <1>3 DEF Fine, BufData, Clean, Dirties
<1>5. \A j \in Bufs : buf[j].block = Out => j = i
  BY <1>1, <1>3 DEF BufInv, OneBufferPerBlock
<1> QED
  BY <1>2, <1>4, <1>5

LEMMA ReleaseTargetFine ==
  ASSUME LogInv, LogInv', ~panic, Fine, NEW p \in Procs, ReleaseTarget(p)
  PROVE  Fine' /\ Unseen
<1>1. /\ Working(p, "target") /\ job.stage \in {"write_log", "install_trans"} /\ JobOnly
      /\ releasesleep(p, Mine(p, Target))
      /\ IF job.tail < Len(lh)
           THEN job' = CopyJob(job.stage, job.tail + 1) /\ UNCHANGED lh
           ELSE /\ job' = After(job.stage)
                /\ lh' = IF job.stage = "install_trans" THEN <<>> ELSE lh
  BY DEF ReleaseTarget, JobOnly
<1>2. /\ Works(p) /\ job.at = "target" /\ BufInv /\ JobOK /\ io[p].at = "none"
      /\ HeaderOK(lh) /\ LogTyped /\ committing' = committing
  BY <1>1, JobAlone, SoundParts DEF JobOnly
<1>3. job \in Copies(Len(lh)) /\ job \in JobRec
  BY <1>1, <1>2, JobsAt DEF LogTyped
<1>4. job.tail \in 1..Len(lh) /\ Len(lh) \in Nat /\ DOMAIN lh = 1..Len(lh)
  BY <1>2, <1>3, CopyIs DEF HeaderOK
<1>5. HeldBlocks(p) = {Target} /\ Out = Target
  BY <1>1, <1>2, WorkingIs DEF JobBlocks, Out
<1>6. PICK i \in Bufs : i = Mine(p, Target) /\ buf[i].lock = p /\ buf[i].block = Out
  BY <1>2, <1>5, OwnsAre
<1>7. disk[Out] = Wanted /\ \A j \in Bufs : buf[j].block = Out => ~buf[j].dirty
  BY <1>1, <1>6, OnDisk
<1>8. Kept /\ Touches(p)
  BY <1>1, <1>2, <1>6, ReleaseKept, BufNumbers DEF Touches
<1>9. \A j \in Bufs : buf'[j].dirty => buf[j].dirty /\ buf'[j].block = buf[j].block
  BY <1>8 DEF Kept, Evicted, SameData, SameFill
<1>10. \A t : LogBlock(t)' = LogBlock(t)
  BY DEF LogBlock
<1>11. disk' = disk
  BY <1>8 DEF Kept
<1>12. CASE job.stage = "write_log"
  <2>1. lh' = lh
    BY <1>1, <1>12
  <2>2. BufData' /\ View' = View /\ Quiet' /\ Unseen
    BY <1>1, <1>8, <2>1, JobKeeps
  <2>3. \A t : InLog(t)' <=> InLog(t)
    BY <1>10, <1>11, <2>1, <2>2 DEF InLog
  <2>4. disk[Header] = <<>> /\ \A t \in 1..job.tail - 1 : InLog(t)
    BY <1>12 DEF Fine, JobData, Stage, Logging
  <2>5. InLog(job.tail)
    BY <1>7, <1>12 DEF Out, Wanted, Target, InLog
  <2>6. \A t \in 1..job.tail : InLog(t)'
    <3>1. \A t \in 1..job.tail : t = job.tail \/ t \in 1..job.tail - 1
      BY <1>4
    <3> QED
      BY <2>3, <2>4, <2>5, <3>1
  <2>7. CASE job.tail < Len(lh)
    <3>1. job'.stage = "write_log" /\ job'.tail = job.tail + 1 /\ job'.at = "log"
      BY <1>1, <1>12, <2>7 DEF CopyJob
    <3>2. job'.tail - 1 = job.tail
      BY <1>4, <3>1
    <3>3. Logging'
      BY <1>11, <2>4, <2>6, <3>2 DEF Logging, Header
    <3>4. Stage'
      BY <3>1, <3>3 DEF Stage, Emptied, Committing, Installing, Clearing
    <3>5. Landed' /\ Copied'
      BY <3>1 DEF Landed, Copied, Wrote
    <3> QED
      BY <2>2, <3>4, <3>5 DEF Fine, JobData
  <2>8. CASE ~(job.tail < Len(lh))
    <3>1. job'.stage = "write_head" /\ job'.at = "head"
      BY <1>1, <1>12, <2>8 DEF After, HeadJob
    <3>2. DOMAIN lh' = 1..job.tail
      BY <1>4, <2>1, <2>8
    <3>3. Committing'
      BY <1>11, <2>4, <2>6, <3>2 DEF Committing, Header
    <3>4. Stage'
      BY <3>1, <3>3 DEF Stage, Emptied, Logging, Installing, Clearing
    <3>5. Landed' /\ Copied'
      BY <3>1 DEF Landed, Copied, Wrote
    <3> QED
      BY <2>2, <3>4, <3>5 DEF Fine, JobData
  <2> QED
    BY <2>7, <2>8
<1>13. CASE job.stage = "install_trans"
  <2>1. /\ disk[Header] = lh
        /\ \A t \in 1..job.tail - 1 : Installed(t)
        /\ committing => \A t \in DOMAIN lh : InLog(t)
    BY <1>13 DEF Fine, JobData, Stage, Installing
  <2>2. Installed(job.tail)
    BY <1>7, <1>13 DEF Out, Wanted, Target, Installed
  <2>3. \A t \in 1..job.tail : Installed(t)
    <3>1. \A t \in 1..job.tail : t = job.tail \/ t \in 1..job.tail - 1
      BY <1>4
    <3> QED
      BY <2>1, <2>2, <3>1
  <2>4. CASE job.tail < Len(lh)
    <3>1. job'.stage = "install_trans" /\ job'.tail = job.tail + 1 /\ job'.at = "log"
          /\ lh' = lh
      BY <1>1, <1>13, <2>4 DEF CopyJob
    <3>2. BufData' /\ View' = View /\ Quiet' /\ Unseen
      BY <1>1, <1>8, <3>1, JobKeeps
    <3>3. job'.tail - 1 = job.tail
      BY <1>4, <3>1
    <3>4. \A t \in 1..job.tail : Installed(t)'
      BY <1>9, <1>10, <1>11, <2>3, <3>1 DEF Installed
    <3>5. \A t : InLog(t)' <=> InLog(t)
      BY <1>10, <1>11, <3>1, <3>2 DEF InLog
    <3>6. Installing'
      BY <1>2, <1>11, <2>1, <3>1, <3>3, <3>4, <3>5 DEF Installing, Header
    <3>7. Stage'
      BY <3>1, <3>6 DEF Stage, Emptied, Committing, Logging, Clearing
    <3>8. Landed' /\ Copied'
      BY <3>1 DEF Landed, Copied, Wrote
    <3> QED
      BY <3>2, <3>7, <3>8 DEF Fine, JobData
  <2>5. CASE ~(job.tail < Len(lh))
    <3>1. job'.stage = "clear" /\ job'.at = "head" /\ lh' = <<>>
      BY <1>1, <1>13, <2>5 DEF After, HeadJob
    <3>2. \A t \in DOMAIN lh : Installed(t)
      BY <1>4, <2>3, <2>5
    <3>3. \A j \in Bufs : buf[j].dirty => buf[j].block \notin ToSet(lh)
      BY <3>2 DEF Installed, ToSet
    <3>4. BufData' /\ View' = View /\ Quiet' /\ Unseen
      BY <1>1, <1>8, <3>3, JobKeeps
    <3>5. Clearing'
      BY <1>10, <1>11, <2>1, <3>2 DEF Clearing, Installed, Header
    <3>6. Stage'
      BY <3>1, <3>5 DEF Stage, Emptied, Committing, Logging, Installing
    <3>7. Landed' /\ Copied'
      BY <3>1 DEF Landed, Copied, Wrote
    <3> QED
      BY <3>4, <3>6, <3>7 DEF Fine, JobData
  <2> QED
    BY <2>4, <2>5
<1> QED
  BY <1>1, <1>12, <1>13

LEMMA HeadWrittenFine ==
  ASSUME LogInv, LogInv', ~panic, Fine, NEW p \in Procs, HeadWritten(p)
  PROVE  Fine' /\ Unseen
<1>1. /\ Working(p, "target") /\ job.stage \in {"write_head", "clear"} /\ JobOnly
      /\ releasesleep(p, Mine(p, Header)) /\ job' = After(job.stage) /\ lh' = lh
  BY DEF HeadWritten, JobOnly
<1>2. /\ Works(p) /\ job.at = "target" /\ BufInv /\ JobOK /\ io[p].at = "none"
      /\ committing' = committing
  BY <1>1, JobAlone, SoundParts DEF JobOnly
<1>3. Header \in HeldBlocks(p) /\ Out = Header /\ Wanted = lh
  BY <1>1, <1>2, WorkingIs DEF JobBlocks, Out, Wanted
<1>4. PICK i \in Bufs : i = Mine(p, Header) /\ buf[i].lock = p /\ buf[i].block = Out
  BY <1>2, <1>3, OwnsAre
<1>5. disk[Header] = lh
  BY <1>1, <1>3, <1>4, OnDisk
<1>6. Kept /\ Touches(p)
  BY <1>1, <1>2, <1>4, ReleaseKept, BufNumbers DEF Touches
<1>7. BufData' /\ View' = View /\ Quiet' /\ Unseen /\ disk' = disk
  BY <1>1, <1>6, JobKeeps
<1>8. CASE job.stage = "write_head"
  <2>1. job'.stage = "install_trans" /\ job'.tail = 1 /\ job'.at = "log"
    BY <1>1, <1>8 DEF After, CopyJob
  <2>2. \A t \in DOMAIN lh : InLog(t)'
    BY <1>1, <1>7, <1>8 DEF Fine, JobData, Stage, Committing, InLog, LogBlock
  <2>3. \A t : t \notin 1..1 - 1
    OBVIOUS
  <2>4. Installing'
    BY <1>1, <1>5, <1>7, <2>1, <2>2, <2>3 DEF Installing, Header
  <2>5. Stage'
    BY <2>1, <2>4 DEF Stage, Emptied, Committing, Logging, Clearing
  <2>6. Landed' /\ Copied'
    BY <2>1 DEF Landed, Copied, Wrote
  <2> QED
    BY <1>7, <2>5, <2>6 DEF Fine, JobData
<1>9. CASE job.stage = "clear"
  <2>1. job' = Done
    BY <1>1, <1>9 DEF After, Done, NoJob
  <2>2. job'.stage = "done" /\ job'.at = ""
    BY <2>1 DEF Done
  <2>3. lh = <<>>
    BY <1>2, <1>9 DEF JobOK
  <2>4. Stage'
    BY <1>5, <1>7, <2>2, <2>3
       DEF Stage, Emptied, Committing, Logging, Installing, Clearing, Header
  <2>5. Landed' /\ Copied'
    BY <2>2 DEF Landed, Copied, Wrote
  <2> QED
    BY <1>7, <2>4, <2>5 DEF Fine, JobData
<1> QED
  BY <1>1, <1>8, <1>9

\* Recovery starts from what the header says.
LEMMA ReadHeadFine ==
  ASSUME LogInv, LogInv', ~panic, Fine, NEW p \in Procs, ReadHead(p)
  PROVE  Fine' /\ Unseen
<1>1. /\ Working(p, "fill") /\ job.stage = "read_head" /\ JobOnly
      /\ releasesleep(p, Mine(p, Header))
      /\ lh' = buf[Mine(p, Header)].data /\ job' = Recovery(lh')
  BY DEF ReadHead, JobOnly
<1>2. /\ Works(p) /\ job.at = "fill" /\ BufInv /\ JobOK /\ io[p].at = "none"
      /\ committing' = committing /\ Header \notin Home
  BY <1>1, JobAlone, LogNumbers DEF JobOnly
<1>3. Header \in HeldBlocks(p) /\ lh = <<>>
  BY <1>1, <1>2, WorkingIs DEF JobBlocks, JobOK
<1>4. PICK i \in Bufs : i = Mine(p, Header) /\ buf[i].lock = p /\ buf[i].block = Header
  BY <1>2, <1>3, OwnsAre
<1>5. lh' = disk[Header]
  <2>1. "fill" \notin {"source", "target"} /\ buf[i].block \notin Home
    BY <1>2, <1>4
  <2>2. buf[i].data = disk[Header]
    BY <1>1, <1>4, <2>1, ReadIs
  <2> QED
    BY <1>1, <1>4, <2>2
<1>6. Kept /\ Touches(p)
  BY <1>1, <1>2, <1>4, ReleaseKept, BufNumbers DEF Touches
<1>7. \A j \in Bufs : buf[j].block \notin ToSet(lh)
  BY <1>3 DEF ToSet
<1>8. BufData' /\ View' = View /\ Quiet' /\ Unseen /\ disk' = disk
  BY <1>1, <1>6, <1>7, JobKeeps
<1>9. ~committing
  <2>1. pc[p] # "commit"
    BY <1>1, <1>2, SoundParts DEF Jobs
  <2> QED
    BY <1>1, <2>1, JobAlone
<1>10. CASE lh' = <<>>
  <2>1. job'.stage = "clear" /\ job'.at = "head"
    BY <1>1, <1>10 DEF Recovery, HeadJob
  <2>2. Clearing'
    BY <1>5, <1>8, <1>10 DEF Clearing, Header
  <2>3. Stage'
    BY <2>1, <2>2 DEF Stage, Emptied, Committing, Logging, Installing
  <2>4. Landed' /\ Copied'
    BY <2>1 DEF Landed, Copied, Wrote
  <2> QED
    BY <1>8, <2>3, <2>4 DEF Fine, JobData
<1>11. CASE lh' # <<>>
  <2>1. job'.stage = "install_trans" /\ job'.tail = 1 /\ job'.at = "log"
    BY <1>1, <1>11 DEF Recovery, CopyJob
  <2>2. \A t : t \notin 1..1 - 1
    OBVIOUS
  <2>3. Installing'
    BY <1>2, <1>5, <1>8, <1>9, <2>1, <2>2 DEF Installing, Header
  <2>4. Stage'
    BY <2>1, <2>3 DEF Stage, Emptied, Committing, Logging, Clearing
  <2>5. Landed' /\ Copied'
    BY <2>1 DEF Landed, Copied, Wrote
  <2> QED
    BY <1>8, <2>4, <2>5 DEF Fine, JobData
<1> QED
  BY <1>10, <1>11

LEMMA CommitDoneFine ==
  ASSUME LogInv, LogInv', ~panic, ~panic', Fine, NEW p \in Procs, CommitDone(p)
  PROVE  Fine' /\ Unseen
<1>1. /\ Ready(p) /\ pc[p] = "commit" /\ job.stage = "done" /\ LogTyped /\ BufInv'
      /\ pc' = [pc EXCEPT ![p] = AfterOp(p)] /\ lh' = lh
      /\ UNCHANGED <<buf, mru, idequeue, drive, disk, io>> /\ UNCHANGED <<kind, left>>
  BY DEF CommitDone, At, Goto, LogInv
<1>2. /\ Works(p) /\ lh = <<>> /\ job.at = "" /\ ~InOp(p) /\ io[p].at = "none"
      /\ \A q \in Procs \ {p} : ~Works(q)
  BY <1>1, DoneIs DEF Works, Ready
<1>3. Others(p) /\ pc'[p] \in {"iunlock", "idle"}
  BY <1>1, OthersAre, AfterOpIs DEF LogTyped
<1>4. ~InOp(p)' /\ \A q \in Procs : ~Works(q)'
  BY <1>2, <1>3, OthersSame DEF Works, InOp
<1>5. ~Recovering /\ ~Recovering'
  BY <1>1, <1>2, <1>4 DEF Recovering, Works
<1>6. Kept /\ Touches(p)
  BY <1>1, QuietKept, TouchesNone
<1>7. BufData' /\ View' = View /\ Saved' = Saved
  BY <1>1, <1>2, <1>3, <1>6, BufStep
<1>8. disk[Header] = <<>>
  BY <1>1 DEF Fine, JobData, Stage, Emptied
<1>9. Quiet'
  BY <1>1, <1>2 DEF Quiet
<1>10. JobData'
  BY <1>1, <1>4, <1>8, <1>9, NoJobData
<1>11. Store' = Store /\ Active' = Active
  BY <1>2, <1>3, <1>4, <1>5, <1>7, StoreKept, ActiveIs
<1> QED
  BY <1>7, <1>10, <1>11 DEF Fine, Unseen

\* What initlog() leaves on disk is what the operations see from then on.
LEMMA RecoveredFine ==
  ASSUME LogInv, LogInv', ~panic, ~panic', Fine, NEW p \in Procs, Recovered(p)
  PROVE  Fine' /\ Unseen
<1>1. /\ Ready(p) /\ pc[p] = "recover" /\ job.stage = "done" /\ LogTyped /\ BufInv'
      /\ pc' = [q \in Procs |-> "idle"] /\ lh' = lh
      /\ UNCHANGED <<buf, mru, idequeue, drive, disk, io>>
      /\ Workers /\ HeaderOK(disk[Header])
  BY SoundParts DEF Recovered, At, bufVars, LogInv
<1>2. lh = <<>> /\ job.at = ""
  BY <1>1, DoneIs DEF Works
<1>3. /\ \A q \in Procs : pc[q] \in {"recover", "down"} /\ pc'[q] = "idle"
      /\ Recovering
  BY <1>1 DEF Workers, Recovering
<1>4. /\ (\A q \in Procs : pc[q] # "append" /\ ~InOp(q) /\ ~InOp(q)' /\ ~Works(q)')
      /\ ~Recovering'
  BY <1>3 DEF InOp, Works, Recovering
<1>5. Kept
  BY <1>1, QuietKept
<1>6. View' = View /\ Saved' = Saved
  BY <1>1, <1>5, ViewKept DEF Fine, BufData
<1>7. \A i \in Bufs : buf[i].dirty => ~Busy(i)
  BY <1>2, NoneWritten DEF Fine
<1>8. \A i \in Bufs : ~Dirties(i)
  BY <1>4 DEF Dirties
<1>9. BufData'
  BY <1>1, <1>5, <1>7, <1>8, BufDataKept DEF Fine
<1>10. disk[Header] = <<>>
  BY <1>1 DEF Fine, JobData, Stage, Emptied
<1>11. Quiet'
  BY <1>1, <1>2 DEF Quiet
<1>12. JobData'
  BY <1>1, <1>4, <1>10, <1>11, NoJobData
<1>13. View = Saved
  BY <1>2, <1>4, <1>10, AllOnDisk DEF Fine
<1>14. Store' = Store
  BY <1>3, <1>4, <1>6, <1>13, <1>1, StoreIs DEF Recovering
<1> QED
  BY <1>4, <1>6, <1>9, <1>12, <1>14 DEF Fine, Unseen, Active
-----------------------------------------------------------------------------
(***************************************************************************)
(* The drive.                                                              *)
(***************************************************************************)
LEMMA ideintrFine ==
  ASSUME LogInv, LogInv', ~panic, Fine, UNCHANGED logVars, ideintr
  PROVE  Fine' /\ Unseen
<1>1. /\ UNCHANGED <<lh, outstanding, committing, pc, kind, left, calls, job, inode>>
      /\ BufInv /\ BufInv' /\ drive = "done"
  BY DEF logVars, LogInv, ideintr
<1>2. PICK i \in Bufs : i = Head(idequeue)
  BY <1>1, HeadIs
<1>3. /\ Queued(i) /\ buf[i].block \in Blocks
      /\ Changed(i) /\ SameUse(i) /\ buf'[i].block = buf[i].block
      /\ buf'[i].valid = TRUE /\ buf'[i].dirty = FALSE
      /\ buf'[i].data = IF buf[i].dirty THEN buf[i].data ELSE disk[buf[i].block]
      /\ drive' = IF Len(idequeue) > 1 THEN "busy" ELSE "idle"
      /\ UNCHANGED <<mru, disk, io, panic>>
  BY <1>1, <1>2, ideintrDoes
<1>4. /\ \A j \in Bufs \ {i} : buf'[j] = buf[j]
      /\ \A j \in Bufs : /\ buf'[j].lock = buf[j].lock /\ buf'[j].block = buf[j].block
                         /\ (Busy(j)' <=> Busy(j)) /\ (buf'[j].dirty => buf[j].dirty)
  BY <1>3 DEF Changed, SameUse, Busy
<1>5. buf[i].dirty => disk[buf[i].block] = buf[i].data
  BY <1>1, <1>2 DEF Fine, BufData, Written
<1>6. Clean'
  <2>1. SUFFICES ASSUME NEW j \in Bufs, buf'[j].valid, ~buf'[j].dirty, ~Dirties(j)'
                 PROVE  buf'[j].data = disk'[buf'[j].block]
    BY DEF Clean
  <2>2. CASE j = i
    BY <1>3, <1>5, <2>2
  <2>3. CASE j # i
    <3>1. buf'[j] = buf[j] /\ ~Dirties(j)
      BY <1>1, <1>4, <2>1, <2>3 DEF Dirties
    <3> QED
      BY <1>3, <2>1, <3>1 DEF Fine, BufData, Clean
  <2> QED
    BY <2>2, <2>3
<1>7. Written'
  BY <1>3 DEF Written
<1>8. Pinned'
  BY <1>1, <1>4 DEF Fine, BufData, Pinned, Home
<1>9. Writing'
  <2>1. SUFFICES ASSUME NEW j \in Bufs, buf'[j].dirty, Busy(j)' PROVE ForWorker(j)'
    BY DEF Writing
  <2>2. ForWorker(j) /\ buf'[j].lock = buf[j].lock
    BY <1>4, <2>1 DEF Fine, BufData, Writing
  <2> QED
    BY <1>1, <2>2 DEF ForWorker, Works
<1>10. View' = View
  <2>1. ASSUME NEW b \in Home PROVE View'[b] = View[b]
    <3>1. CASE buf[i].block = b
      <4>1. Cached(b, i)'
        BY <1>3, <3>1 DEF Cached
      <4>2. View'[b] = buf'[i].data
        BY <1>1, <4>1, ViewIsNext
      <4>3. CASE buf[i].dirty
        <5>1. Cached(b, i)
          BY <1>1, <3>1, <4>3 DEF Cached, BufInv, Filled
        <5> QED
          BY <1>1, <1>3, <4>2, <4>3, <5>1, ViewIs
      <4>4. CASE ~buf[i].dirty
        <5>1. \A j \in Bufs : ~Cached(b, j)
          <6>1. ~buf[i].valid
            BY <1>3, <4>4 DEF Queued
          <6>2. b # NoBlock
            BY LogNumbers, BufNumbers
          <6> QED
            BY <1>1, <3>1, <6>1, <6>2 DEF Cached, BufInv, OneBufferPerBlock
        <5>2. View[b] = disk[b]
          BY <1>1, <5>1, ViewIs
        <5> QED
          BY <1>3, <3>1, <4>2, <4>4, <5>2
      <4> QED
        BY <4>3, <4>4
    <3>2. CASE buf[i].block # b
      <4>1. \A j \in Bufs : Cached(b, j)' => j # i /\ Cached(b, j)
        BY <1>4, <3>2 DEF Cached
      <4>2. \A j \in Bufs : Cached(b, j) => j # i /\ Cached(b, j)'
        BY <1>4, <3>2 DEF Cached
      <4>3. ASSUME NEW j \in Bufs, Cached(b, j) PROVE View'[b] = View[b]
        BY <1>1, <1>4, <4>2, <4>3, ViewIs, ViewIsNext
      <4>4. ASSUME \A j \in Bufs : ~Cached(b, j) PROVE View'[b] = View[b]
        BY <1>1, <1>3, <4>1, <4>4, ViewIs, ViewIsNext
      <4> QED
        BY <4>3, <4>4
    <3> QED
      BY <3>1, <3>2
  <2>2. View' = [b \in Home |-> View'[b]] /\ View = [b \in Home |-> View[b]]
    BY DEF View
  <2> QED
    BY <2>1, <2>2
<1>11. \A t : LogBlock(t)' = LogBlock(t)
  BY DEF LogBlock
<1>12. Out' = Out /\ Wanted' = Wanted
  BY <1>1, <1>3, <1>10 DEF Out, Wanted, Target, LogBlock, Header
<1>13. Landed'
  <2>1. SUFFICES ASSUME NEW w \in Procs, Works(w)', Wrote'
                 PROVE  /\ io'[w].at # "lock"
                        /\ io'[w].at \in {"rw", "wait"} =>
                             buf'[io'[w].buf].block = Out' /\ buf'[io'[w].buf].valid
                        /\ io'[w].at \notin {"rw", "wait"} =>
                             \A j \in Bufs :
                               buf'[j].lock = w /\ buf'[j].block = Out' => ~buf'[j].dirty
    BY DEF Landed
  <2>2. Works(w) /\ Wrote
    BY <1>1, <2>1 DEF Works, Wrote
  <2>3. /\ io[w].at # "lock"
        /\ io[w].at \in {"rw", "wait"} => buf[io[w].buf].block = Out /\ buf[io[w].buf].valid
        /\ io[w].at \notin {"rw", "wait"} =>
             \A j \in Bufs : buf[j].lock = w /\ buf[j].block = Out => ~buf[j].dirty
    BY <2>2 DEF Fine, JobData, Landed
  <2>4. ASSUME io[w].at \in {"rw", "wait"}
        PROVE  buf'[io[w].buf].block = Out /\ buf'[io[w].buf].valid
    <3>1. PICK k \in Bufs : k = io[w].buf
      BY <1>1, <2>4, CallerHas
    <3> QED
      BY <1>3, <1>4, <2>3, <2>4, <3>1
  <2> QED
    BY <1>3, <1>4, <1>12, <2>3, <2>4
<1>14. Copied'
  <2>1. SUFFICES ASSUME NEW w \in Procs, Works(w)', Wrote',
                        NEW j \in Bufs, buf'[j].lock = w, buf'[j].block = Out'
                 PROVE  buf'[j].data = Wanted'
    BY DEF Copied
  <2>2. Works(w) /\ Wrote /\ buf[j].lock = w /\ buf[j].block = Out
    BY <1>1, <1>4, <1>12, <2>1 DEF Works, Wrote
  <2>3. buf[j].data = Wanted
    BY <2>2 DEF Fine, JobData, Copied
  <2>4. CASE j = i
    <3>1. io[w].at \in {"rw", "wait"} /\ io[w].buf = i
      BY <1>3, <2>2, <2>4 DEF Queued
    <3>2. buf[i].valid
      BY <2>2, <3>1 DEF Fine, JobData, Landed
    <3>3. buf[i].dirty
      BY <1>3, <3>2 DEF Queued
    <3> QED
      BY <1>3, <1>12, <2>3, <2>4, <3>3
  <2>5. CASE j # i
    BY <1>4, <1>12, <2>3, <2>5
  <2> QED
    BY <2>4, <2>5
<1>15. Stage'
  <2>1. \A t : InLog(t)' <=> InLog(t)
    BY <1>1, <1>3, <1>10, <1>11 DEF InLog
  <2>2. \A t : Installed(t) => Installed(t)'
    BY <1>1, <1>3, <1>4, <1>11 DEF Installed
  <2>3. Emptied' /\ Clearing'
    BY <1>1, <1>3 DEF Fine, JobData, Stage, Emptied, Clearing, Header, LogBlock
  <2>4. Logging'
    BY <1>1, <1>3, <2>1 DEF Fine, JobData, Stage, Logging, Header
  <2>5. Committing'
    BY <1>1, <1>3, <2>1 DEF Fine, JobData, Stage, Committing, Header
  <2>6. Installing'
    BY <1>1, <1>3, <2>1, <2>2 DEF Fine, JobData, Stage, Installing, Header
  <2> QED
    BY <2>3, <2>4, <2>5, <2>6 DEF Stage
<1>16. Quiet'
  BY <1>1 DEF Fine, JobData, Quiet, Works
<1>17. (Recovering' <=> Recovering) /\ Active' = Active /\ Saved' = Saved
  BY <1>1, <1>3, SavedSame DEF Recovering, Active, InOp
<1>18. Store' = Store
  BY <1>10, <1>17, StoreKept
<1> QED
  BY <1>6, <1>7, <1>8, <1>9, <1>13, <1>14, <1>15, <1>16, <1>17, <1>18
     DEF Fine, BufData, JobData, Unseen

\* The drive writes what bwrite() was called for: the blocks of the log, the header
\* that makes them count, the blocks at home, and the empty header.
LEMMA TransferFine ==
  ASSUME LogInv, LogInv', ~panic, Fine, UNCHANGED logVars, Transfer
  PROVE  /\ Fine' /\ Store' = Store /\ Active' = Active
         /\ Saved' = Saved \/ (Saved' = Store /\ Active = {})
<1>1. /\ UNCHANGED <<lh, outstanding, committing, pc, kind, left, calls, job, inode>>
      /\ UNCHANGED <<buf, mru, idequeue, io, asleep, panic>> /\ drive' = "done"
      /\ BufInv /\ BufInv' /\ drive = "busy"
  BY DEF logVars, LogInv, Transfer
<1>2. PICK i \in Bufs : i = Head(idequeue)
  BY <1>1, HeadIs
<1>3. Queued(i) /\ buf[i].block \in Blocks
  BY <1>1, <1>2, HeadIs
<1>4. disk' = IF buf[i].dirty THEN [disk EXCEPT ![buf[i].block] = buf[i].data] ELSE disk
  BY <1>2 DEF Transfer
<1>5. CASE ~buf[i].dirty
  <2>1. Kept
    BY <1>1, <1>2, <1>4, <1>5 DEF Kept, SameData, SameFill, Busy
  <2>2. ASSUME NEW w \in Procs, Works(w), Wrote PROVE Carries(w)
    BY <1>1, <2>2 DEF Carries, Fine, JobData, Landed
  <2>3. Fine' /\ Unseen
    BY <1>1, <2>1, <2>2, WithinFine
  <2> QED
    BY <2>3 DEF Unseen
<1>6. CASE buf[i].dirty
  <2>1. PICK w \in Procs : w = buf[i].lock /\ io[w].at = "wait" /\ io[w].buf = i
    BY <1>3 DEF Queued
  <2>2. Works(w) /\ Wrote /\ buf[i].valid
    <3>1. Busy(i)
      BY <2>1 DEF Busy
    <3> QED
      BY <1>1, <1>6, <2>1, <3>1 DEF Fine, BufData, Writing, ForWorker, Wrote, BufInv, Filled
  <2>3. buf[i].block = Out /\ buf[i].data = Wanted
    BY <2>1, <2>2 DEF Fine, JobData, Landed, Copied
  <2>4. Out \in Blocks /\ disk \in [Blocks -> Content]
    BY <1>1, <1>3, <2>3, TypeIs DEF BufInv
  <2>5. disk'[Out] = Wanted /\ \A b \in Blocks : b # Out => disk'[b] = disk[b]
    BY <1>4, <1>6, <2>3, <2>4
  <2>6. /\ LogTyped /\ Workers /\ Jobs /\ Admitted /\ HeaderOK(lh) /\ HeaderOK(disk[Header])
        /\ HeaderOK(disk'[Header])
    BY SoundParts DEF LogInv, Header
  <2>7. /\ JobOK /\ outstanding = 0
        /\ pc[w] = "recover" => job.stage \notin {"write_log", "write_head"}
    BY <2>2, <2>6, WorkerIs
  <2>8. \A q \in Procs : ~InOp(q)
    BY <2>6, <2>7, AloneInOp DEF LogTyped
  <2>9. \A q \in Procs : pc[q] # "append"
    BY <2>8 DEF InOp
  <2>10. ASSUME NEW j \in Bufs, buf[j].block = Out PROVE j = i
    <3>1. buf[i].block # NoBlock
      BY <1>3, BufNumbers
    <3> QED
      BY <1>1, <2>3, <2>10, <3>1 DEF BufInv, OneBufferPerBlock
  <2>11. BufData'
    <3>1. Clean'
      <4>1. SUFFICES ASSUME NEW j \in Bufs, buf[j].valid, ~buf[j].dirty, ~Dirties(j)
                     PROVE  buf[j].data = disk'[buf[j].block]
        BY <1>1 DEF Clean, Dirties
      <4>2. buf[j].data = disk[buf[j].block] /\ buf[j].block # Out
        BY <1>6, <2>10, <4>1 DEF Fine, BufData, Clean
      <4>3. buf[j].block \in Blocks
        <5>1. buf[j].block # NoBlock
          BY <1>1, <4>1 DEF BufInv, Named, EmptyBuf
        <5> QED
          BY <1>1, <5>1, CallerHas DEF BufRec
      <4> QED
        BY <2>5, <4>2, <4>3
    <3>2. Written'
      BY <1>1, <1>2, <2>3, <2>5 DEF Written
    <3>3. \A j \in Bufs : Busy(j)' <=> Busy(j)
      BY <1>1 DEF Busy
    <3>4. Pinned' /\ Writing'
      BY <1>1, <3>3 DEF Fine, BufData, Pinned, Writing, ForWorker, Works, Home
    <3> QED
      BY <3>1, <3>2, <3>4 DEF BufData
  <2>12. View' = View
    <3>1. ASSUME NEW b \in Home PROVE View'[b] = View[b]
      <4>1. \A j \in Bufs : Cached(b, j)' <=> Cached(b, j)
        BY <1>1 DEF Cached
      <4>2. ASSUME NEW j \in Bufs, Cached(b, j) PROVE View'[b] = View[b]
        BY <1>1, <4>1, <4>2, ViewIs, ViewIsNext
      <4>3. ASSUME \A j \in Bufs : ~Cached(b, j) PROVE View'[b] = View[b]
        <5>1. b # Out /\ b \in Blocks
          BY <2>2, <2>3, <4>3, LogNumbers DEF Cached
        <5>2. disk'[b] = disk[b]
          BY <2>5, <5>1
        <5> QED
          BY <1>1, <4>1, <4>3, <5>2, ViewIs, ViewIsNext
      <4> QED
        BY <4>2, <4>3
    <3>2. View' = [b \in Home |-> View'[b]] /\ View = [b \in Home |-> View[b]]
      BY DEF View
    <3> QED
      BY <3>1, <3>2
  <2>13. \A t : LogBlock(t)' = LogBlock(t)
    BY DEF LogBlock
  <2>14. Out' = Out
    BY <1>1 DEF Out, Target, LogBlock, Header
  <2>15. /\ HeaderOK(lh) /\ lh \in Seq(Home) /\ DOMAIN lh = 1..Len(lh) /\ Len(lh) \in Nat
         /\ \A t \in DOMAIN lh : /\ lh[t] \in Home /\ lh[t] \in Blocks
                                 /\ LogBlock(t) \in Blocks /\ LogBlock(t) \notin Home
                                 /\ LogBlock(t) # Header
    <3>1. lh \in Seq(Home) /\ DOMAIN lh = 1..Len(lh) /\ Len(lh) \in Nat /\ Len(lh) <= NLOG - 1
      BY <2>6 DEF HeaderOK
    <3>2. ASSUME NEW t \in DOMAIN lh PROVE t \in 1..NLOG-1 /\ lh[t] \in Home
      BY <3>1, LogNumbers
    <3> QED
      BY <2>6, <3>1, <3>2, LogBlocks, LogNumbers
  <2>16. Saved' = [b \in Home |-> Saved'[b]] /\ Saved = [b \in Home |-> Saved[b]]
    BY <2>6, SavedIs, SavedIsNext
  <2>17. /\ \A t \in DOMAIN disk[Header] : Saved[disk[Header][t]] = disk[LogBlock(t)]
         /\ \A b \in Home \ ToSet(disk[Header]) : Saved[b] = disk[b]
         /\ \A t \in DOMAIN disk'[Header] : Saved'[disk'[Header][t]] = disk'[LogBlock(t)]
         /\ \A b \in Home \ ToSet(disk'[Header]) : Saved'[b] = disk'[b]
    BY <2>6, SavedIs, SavedIsNext
  <2>18. /\ job.stage \in {"write_log", "install_trans", "write_head", "clear"}
         /\ job.stage \in {"write_log", "install_trans"} =>
              job.tail \in DOMAIN lh /\ job.tail \in Nat
         /\ job.stage \in {"write_head", "clear"} => job.at = "target" /\ Out = Header
         /\ job.stage = "write_log" => Out = LogBlock(job.tail)
         /\ job.stage = "install_trans" => Out = lh[job.tail]
    <3>1. job \in Copies(Len(lh)) \cup Heads /\ (job \in Heads => job.at = "target")
      <4>1. job \in Copies(Len(lh)) \cup Heads \cup Reads \cup {Done}
        BY <2>7 DEF JobOK
      <4>2. job.at \in {"source", "target"}
        BY <2>2 DEF Wrote
      <4>3. job \notin Reads
        BY <4>2 DEF Reads
      <4>4. job # Done
        <5>1. Done.at = ""
          BY DEF Done
        <5> QED
          BY <4>2, <5>1
      <4>5. job \in Heads => job.at = "target"
        BY <4>2 DEF Heads
      <4> QED
        BY <4>1, <4>3, <4>4, <4>5
    <3>2. CASE job \in Copies(Len(lh))
      BY <2>15, <3>2 DEF Copies, Out, Target
    <3>3. CASE job \in Heads
      BY <3>1, <3>3 DEF Heads, Out
    <3> QED
      BY <3>1, <3>2, <3>3
  <2>19. /\ Header \in Blocks /\ Header \notin Home /\ Home \subseteq Blocks
         /\ \A s, t \in DOMAIN lh : LogBlock(s) = LogBlock(t) => s = t
    <3>1. \A t \in DOMAIN lh : t \in 1..NLOG-1
      BY <2>6, <2>15, LogNumbers DEF HeaderOK
    <3> QED
      BY <3>1, LogBlocks, LogNumbers
  <2>20. (Recovering' <=> Recovering) /\ Active' = Active /\ Active = {}
    BY <1>1, <2>8 DEF Recovering, Active, InOp
  <2>21. Landed'
    BY <1>1, <2>14 DEF Fine, JobData, Landed, Works, Wrote
  <2>22. Quiet'
    BY <1>1 DEF Fine, JobData, Quiet, Works
  <2>23. ASSUME Wanted' = Wanted PROVE Copied'
    BY <1>1, <2>14, <2>23 DEF Fine, JobData, Copied, Works, Wrote
  <2>24. ASSUME Wanted' = Wanted, Stage', Saved' = Saved
         PROVE  Fine' /\ Store' = Store /\ Saved' = Saved
    BY <2>11, <2>12, <2>20, <2>21, <2>22, <2>23, <2>24, StoreKept DEF Fine, JobData
  <2>25. CASE job.stage = "write_log"
    <3>1. /\ Out = LogBlock(job.tail) /\ Wanted = View[lh[job.tail]]
          /\ job.tail \in DOMAIN lh /\ Wanted' = Wanted
      BY <1>1, <2>12, <2>18, <2>25 DEF Wanted
    <3>2. disk[Header] = <<>> /\ \A t \in 1..job.tail - 1 : InLog(t)
      BY <2>25 DEF Fine, JobData, Stage, Logging
    <3>3. disk'[Header] = <<>> /\ \A b \in Home : disk'[b] = disk[b]
      BY <2>5, <2>15, <2>19, <3>1, <3>2
    <3>4. Saved' = Saved
      <4>1. ToSet(disk[Header]) = {} /\ ToSet(disk'[Header]) = {}
        BY <3>2, <3>3 DEF ToSet
      <4>2. \A b \in Home : Saved'[b] = Saved[b]
        BY <2>17, <3>3, <4>1
      <4> QED
        BY <2>16, <4>2
    <3>5. ASSUME NEW t \in 1..job.tail - 1 PROVE InLog(t)'
      <4>1. t \in DOMAIN lh /\ t # job.tail
        BY <2>15, <2>18, <2>25
      <4>2. disk'[LogBlock(t)] = disk[LogBlock(t)]
        BY <2>5, <2>15, <2>19, <3>1, <4>1
      <4> QED
        BY <1>1, <2>12, <2>13, <3>2, <4>2 DEF InLog
    <3>6. Stage'
      BY <1>1, <2>25, <3>3, <3>5
         DEF Stage, Emptied, Logging, Committing, Installing, Clearing, Header
    <3> QED
      BY <2>20, <2>24, <3>1, <3>4, <3>6
  <2>26. CASE job.stage = "write_head"
    <3>1. Out = Header /\ Wanted = lh /\ Wanted' = Wanted /\ job.at = "target"
      BY <1>1, <2>18, <2>26 DEF Wanted
    <3>2. \A t \in DOMAIN lh : InLog(t)
      BY <2>26 DEF Fine, JobData, Stage, Committing
    <3>3. disk'[Header] = lh /\ \A b \in Blocks : b # Header => disk'[b] = disk[b]
      BY <2>5, <3>1
    <3>4. \A t \in DOMAIN lh : InLog(t)'
      BY <1>1, <2>12, <2>13, <2>15, <3>2, <3>3 DEF InLog
    <3>5. Stage'
      BY <1>1, <2>26, <3>1, <3>3, <3>4
         DEF Stage, Emptied, Logging, Committing, Installing, Clearing, Header
    <3>6. ASSUME NEW b \in Home PROVE Saved'[b] = View[b]
      <4>1. CASE b \in ToSet(lh)
        <5>1. PICK t \in DOMAIN lh : b = lh[t]
          BY <2>15, <4>1 DEF ToSet
        <5>2. Saved'[b] = disk'[LogBlock(t)]
          BY <2>17, <3>3, <5>1
        <5>3. disk'[LogBlock(t)] = View[b]
          BY <2>15, <3>2, <3>3, <5>1 DEF InLog
        <5> QED
          BY <5>2, <5>3
      <4>2. CASE b \notin ToSet(lh)
        <5>1. View[b] = disk[b]
          BY <2>9, <4>2, ViewIsDisk DEF Fine
        <5> QED
          BY <2>17, <2>19, <3>3, <4>2, <5>1
      <4> QED
        BY <4>1, <4>2
    <3>7. View = [b \in Home |-> View[b]]
      BY DEF View
    <3>8. ~Recovering
      BY <2>2, <2>6, <2>7, <2>26 DEF Recovering, Workers, Works
    <3>9. Saved' = Store
      BY <2>16, <3>6, <3>7, <3>8, StoreIs DEF Recovering
    <3>10. Store' = Store
      BY <2>12, <2>20, <3>7, <3>8, StoreIs DEF Recovering
    <3> QED
      BY <2>11, <2>20, <2>21, <2>22, <2>23, <3>1, <3>5, <3>9, <3>10 DEF Fine, JobData
  <2>27. CASE job.stage = "install_trans"
    <3>1. /\ Out = lh[job.tail] /\ Wanted = disk[LogBlock(job.tail)] /\ job.tail \in DOMAIN lh
          /\ Wanted' = disk'[LogBlock(job.tail)]
      BY <1>1, <2>13, <2>18, <2>27 DEF Wanted
    <3>2. /\ disk[Header] = lh
          /\ \A t \in 1..job.tail - 1 : Installed(t)
          /\ committing => \A t \in DOMAIN lh : InLog(t)
      BY <2>27 DEF Fine, JobData, Stage, Installing
    <3>3. \A t \in DOMAIN lh : disk'[LogBlock(t)] = disk[LogBlock(t)]
      BY <2>5, <2>15, <3>1
    <3>4. disk'[Header] = lh
      BY <2>5, <2>15, <2>19, <3>1, <3>2
    <3>5. ASSUME NEW t \in 1..job.tail - 1 PROVE Installed(t)'
      <4>1. t \in DOMAIN lh /\ t # job.tail
        BY <2>15, <2>18, <2>27
      <4>2. lh[t] # lh[job.tail]
        BY <2>15, <3>1, <4>1 DEF HeaderOK
      <4>3. disk'[lh[t]] = disk[lh[t]]
        BY <2>5, <2>15, <3>1, <4>1, <4>2
      <4>4. Installed(t)
        BY <3>2
      <4> QED
        BY <1>1, <2>13, <3>3, <4>1, <4>3, <4>4 DEF Installed
    <3>6. committing' => \A t \in DOMAIN lh : InLog(t)'
      BY <1>1, <2>12, <2>13, <3>2, <3>3 DEF InLog
    <3>7. Stage'
      BY <1>1, <2>27, <3>4, <3>5, <3>6
         DEF Stage, Emptied, Logging, Committing, Installing, Clearing, Header
    <3>8. Saved' = Saved
      <4>1. ASSUME NEW b \in Home PROVE Saved'[b] = Saved[b]
        <5>1. CASE b \in ToSet(lh)
          <6>1. PICK t \in DOMAIN lh : b = lh[t]
            BY <2>15, <5>1 DEF ToSet
          <6> QED
            BY <2>17, <3>2, <3>3, <3>4, <6>1
        <5>2. CASE b \notin ToSet(lh)
          <6>1. b # Out
            BY <3>1, <5>2 DEF ToSet
          <6>2. disk'[b] = disk[b]
            BY <2>5, <2>19, <6>1
          <6> QED
            BY <2>17, <3>2, <3>4, <5>2, <6>2
        <5> QED
          BY <5>1, <5>2
      <4> QED
        BY <2>16, <4>1
    <3> QED
      BY <2>20, <2>24, <3>1, <3>3, <3>7, <3>8
  <2>28. CASE job.stage = "clear"
    <3>1. Out = Header /\ Wanted = lh /\ Wanted' = Wanted /\ lh = <<>>
      BY <1>1, <2>7, <2>18, <2>28 DEF Wanted, JobOK
    <3>2. \A t \in DOMAIN disk[Header] : disk[disk[Header][t]] = disk[LogBlock(t)]
      BY <2>28 DEF Fine, JobData, Stage, Clearing
    <3>3. disk'[Header] = <<>> /\ \A b \in Home : disk'[b] = disk[b]
      BY <2>5, <2>19, <3>1
    <3>4. ToSet(disk'[Header]) = {} /\ DOMAIN disk'[Header] = {}
      BY <3>3 DEF ToSet
    <3>5. Stage'
      BY <1>1, <2>28, <3>4
         DEF Stage, Emptied, Logging, Committing, Installing, Clearing, Header
    <3>6. Saved' = Saved
      <4>1. ASSUME NEW b \in Home PROVE Saved'[b] = Saved[b]
        <5>1. Saved'[b] = disk[b]
          BY <2>17, <3>3, <3>4
        <5>2. CASE b \in ToSet(disk[Header])
          <6>1. PICK t \in DOMAIN disk[Header] : b = disk[Header][t]
            BY <2>6, <5>2 DEF ToSet, HeaderOK
          <6>2. Saved[b] = disk[LogBlock(t)] /\ disk[b] = disk[LogBlock(t)]
            BY <2>17, <3>2, <6>1
          <6> QED
            BY <5>1, <6>2
        <5>3. CASE b \notin ToSet(disk[Header])
          BY <2>17, <5>1, <5>3
        <5> QED
          BY <5>2, <5>3
      <4> QED
        BY <2>16, <4>1
    <3> QED
      BY <2>20, <2>24, <3>1, <3>5, <3>6
  <2> QED
    BY <2>18, <2>25, <2>26, <2>27, <2>28
<1> QED
  BY <1>5, <1>6
-----------------------------------------------------------------------------
(***************************************************************************)
(* The panic of bget(), the start, and all the steps together.             *)
(***************************************************************************)
LEMMA PanicGet ==
  ASSUME LogInv, ~panic, NEW p \in Procs, NEW blk \in Blocks, bget(p, blk), panic',
         Others(p), InOp(p)' <=> InOp(p), pc'[p] = "recover" <=> pc[p] = "recover"
  PROVE  Unseen
<1>1. BufInv /\ HeaderOK(disk[Header])
  BY DEF LogInv
<1>2. UNCHANGED <<buf, disk>>
  <2>1. /\ disk' = disk
        /\ (\E i \in Bufs : Got(p, blk, i)) \/ UNCHANGED <<buf, io>>
    BY <1>1, bgetDoes
  <2>2. ASSUME NEW i \in Bufs, Got(p, blk, i) PROVE FALSE
    BY <2>2 DEF Got
  <2> QED
    BY <2>1, <2>2
<1>3. View' = View
  BY <1>2 DEF View, Cached
<1>4. Saved' = Saved
  BY <1>1, <1>2, SavedSame
<1>5. Recovering' <=> Recovering
  BY DEF Recovering, Others
<1>6. Active' = Active
  BY ActiveIs
<1> QED
  BY <1>3, <1>4, <1>5, <1>6, StoreKept DEF Unseen

\* The kernel stops in bget(), and leaves the blocks as they are.
LEMMA PanicUnseen ==
  ASSUME LogInv, ~panic, panic', NEW p \in Procs, UserStep(p) \/ OpStep(p) \/ JobStep(p)
  PROVE  Unseen /\ outstanding' = outstanding /\ committing' = committing
<1>1. LogTyped /\ HeaderOK(lh)
  BY SoundParts
<1>2. ASSUME NEW b \in Home, CallRead(p, b) \/ bread(p, b)
      PROVE  Unseen /\ outstanding' = outstanding /\ committing' = committing
  <2>1. /\ bget(p, b) /\ b \in Blocks
        /\ \/ pc[p] = "idle" /\ pc' = [pc EXCEPT ![p] = "read"]
           \/ pc[p] = "op" /\ pc' = [pc EXCEPT ![p] = "modify"]
        /\ kind' = [kind EXCEPT ![p] = "read"] \/ kind' = kind
        /\ left' = [left EXCEPT ![p] = @ - 1] \/ left' = left
        /\ UNCHANGED <<outstanding, committing>>
    BY <1>2, LogNumbers DEF CallRead, bread, At, Goto
  <2>2. Others(p) /\ pc'[p] = IF pc[p] = "idle" THEN "read" ELSE "modify"
    BY <1>1, <2>1, OthersAre DEF LogTyped
  <2>3. (InOp(p)' <=> InOp(p)) /\ (pc'[p] = "recover" <=> pc[p] = "recover")
    BY <2>1, <2>2 DEF InOp
  <2>4. Unseen
    BY <2>1, <2>2, <2>3, PanicGet
  <2> QED
    BY <2>1, <2>4
<1>3. ASSUME BreadLog(p) \/ BreadHome(p) \/ BreadHead(p)
      PROVE  Unseen /\ outstanding' = outstanding /\ committing' = committing
  <2>1. JobOnly /\ \E at : Working(p, at)
    BY <1>3 DEF BreadLog, BreadHome, BreadHead, JobOnly
  <2>2. JobOK /\ Others(p)
    BY <2>1, JobAlone
  <2>3. (InOp(p)' <=> InOp(p)) /\ (pc'[p] = "recover" <=> pc[p] = "recover")
    BY <2>1 DEF InOp, JobOnly
  <2>4. CASE BreadLog(p)
    <3>1. job.at = "log" /\ bget(p, LogBlock(job.tail))
      BY <2>4 DEF BreadLog, Working
    <3>2. LogBlock(job.tail) \in Blocks
      BY <1>1, <2>2, <3>1, JobsAt, CopyIs
    <3> QED
      BY <2>1, <2>2, <2>3, <3>1, <3>2, PanicGet DEF JobOnly
  <2>5. CASE BreadHome(p)
    <3>1. job.at = "home" /\ bget(p, lh[job.tail])
      BY <2>5 DEF BreadHome, Working
    <3>2. lh[job.tail] \in Blocks
      BY <1>1, <2>2, <3>1, JobsAt, CopyIs
    <3> QED
      BY <2>1, <2>2, <2>3, <3>1, <3>2, PanicGet DEF JobOnly
  <2>6. CASE BreadHead(p)
    <3>1. bget(p, Header)
      BY <2>6 DEF BreadHead
    <3> QED
      BY <2>1, <2>2, <2>3, <3>1, LogNumbers, PanicGet DEF JobOnly
  <2> QED
    BY <1>3, <2>4, <2>5, <2>6
<1>4. ASSUME NEW k \in Kinds \ {"read"}, Call(p, k) PROVE FALSE
  BY <1>4 DEF Call, bufVars
<1>5. ASSUME begin_op(p) \/ ilock(p) \/ iunlock(p) \/ Modify(p) \/ log_write(p) \/ end_op(p)
             \/ Logged(p) \/ ReadDone(p)
      PROVE  FALSE
  <2>1. CASE Logged(p) \/ ReadDone(p)
    BY <2>1 DEF Logged, ReadDone, releasesleep
  <2>2. CASE begin_op(p) \/ ilock(p) \/ iunlock(p)
    BY <2>2 DEF begin_op, ilock, iunlock
  <2> QED
    BY <1>5, <2>1, <2>2, ModifyKeeps, log_writeKeeps, end_opKeeps
<1>6. ASSUME CopyBlock(p) \/ ReleaseSource(p) \/ ReleaseTarget(p) \/ WriteHead(p)
             \/ HeadWritten(p) \/ ReadHead(p) \/ Recovered(p) \/ CommitDone(p)
      PROVE  FALSE
  <2>1. CASE ReleaseSource(p) \/ ReleaseTarget(p) \/ HeadWritten(p) \/ ReadHead(p)
    BY <2>1 DEF ReleaseSource, ReleaseTarget, HeadWritten, ReadHead, releasesleep
  <2>2. CASE CopyBlock(p) \/ WriteHead(p)
    BY <2>2 DEF CopyBlock, WriteHead, bwrite
  <2> QED
    BY <1>6, <2>1, <2>2, RecoveredKeeps, CommitDoneKeeps
<1> QED
  BY <1>2, <1>3, <1>4, <1>5, <1>6 DEF UserStep, OpStep, JobStep

LEMMA InitFine == Init => Fine /\ Saved = [b \in Home |-> <<NoProc>>] /\ Store = Saved /\ Active = {}
<1> SUFFICES ASSUME Init
             PROVE  Fine /\ Saved = [b \in Home |-> <<NoProc>>] /\ Store = Saved /\ Active = {}
  OBVIOUS
<1>1. /\ disk = [b \in Blocks |-> IF b = Header THEN <<>> ELSE <<NoProc>>]
      /\ \A i \in Bufs : buf[i] = EmptyBuf
      /\ idequeue = <<>> /\ drive = "idle" /\ lh = <<>>
      /\ pc = BootPc /\ job = HeadJob("read_head")
  BY DEF Init, BufBoot
<1>2. /\ \A i \in Bufs : ~buf[i].valid /\ ~buf[i].dirty
      /\ job.stage = "read_head" /\ job.at = "head" /\ pc[BootProc] = "recover"
      /\ BootProc \in Procs
  BY <1>1, FirstJob, BootPcIs, NobodyYet, LogNumbers
<1>3. BufData
  BY <1>1, <1>2 DEF BufData, Clean, Written, Pinned, Writing
<1>4. Landed /\ Copied
  BY <1>2 DEF Landed, Copied, Wrote
<1>5. Stage
  BY <1>2 DEF Stage, Emptied, Logging, Committing, Installing, Clearing
<1>6. Recovering /\ Quiet
  BY <1>1, <1>2 DEF Recovering, Quiet
<1>7. Active = {}
  <2>1. \A q \in Procs : pc[q] \in {"recover", "down"}
    BY <1>1, BootPcIs
  <2> QED
    BY <2>1 DEF InOp, Active
<1>8. disk[Header] = <<>> /\ HeaderOK(disk[Header]) /\ ToSet(disk[Header]) = {}
  BY <1>1, LogNumbers, EmptyHeader DEF ToSet
<1>9. \A b \in Home : disk[b] = <<NoProc>>
  BY <1>1, LogNumbers
<1>10. Saved = [b \in Home |-> Saved[b]] /\ \A b \in Home : Saved[b] = <<NoProc>>
  BY <1>8, <1>9, SavedIs
<1>11. Store = Saved
  BY <1>6, <1>10, StoreIs DEF Recovering
<1> QED
  BY <1>3, <1>4, <1>5, <1>6, <1>7, <1>10, <1>11 DEF Fine, JobData

LEMMA StopsAll ==
  ASSUME NEW p \in Procs, UserStep(p) \/ OpStep(p) \/ JobStep(p)
  PROVE  ~panic
<1>1. CASE UserStep(p)
  BY <1>1 DEF UserStep, Call, CallRead, At, Ready
<1>2. CASE OpStep(p)
  BY <1>2 DEF OpStep, begin_op, ilock, iunlock, Modify, log_write, Logged, end_op, ReadDone,
     bread, At, Ready
<1>3. CASE JobStep(p)
  BY <1>3 DEF JobStep, BreadLog, BreadHome, CopyBlock, ReleaseSource, ReleaseTarget,
     BreadHead, WriteHead, HeadWritten, ReadHead, Recovered, CommitDone, Working, At, Ready
<1> QED
  BY <1>1, <1>2, <1>3

\* What a step of the kernel is to the abstract disk.
Seen(p) ==
  \/ Unseen
  \/ UNCHANGED <<Store, Saved>> /\ Active' = Active \cup {p}
  \/ UNCHANGED <<Store, Saved>> /\ Active' = Active \ {p}
  \/ /\ Saved' = Saved /\ Active' = Active /\ p \in Active
     /\ \E b \in Home : Store' = [Store EXCEPT ![b] = <<p>>]

LEMMA UserFine ==
  ASSUME LogInv, LogInv', ~panic, ~panic', Fine, NEW p \in Procs, UserStep(p) \/ OpStep(p)
  PROVE  Fine' /\ Seen(p)
<1>1. CASE UserStep(p) \/ Logged(p) \/ ReadDone(p) \/ ilock(p) \/ iunlock(p) \/ log_write(p)
           \/ \E b \in Home : bread(p, b)
  <2>1. Fine' /\ Unseen
    BY <1>1, CallFine, GetFine, ReleaseFine, ilockFine, iunlockFine, log_writeFine DEF UserStep
  <2> QED
    BY <2>1 DEF Seen
<1>2. CASE begin_op(p)
  BY <1>2, beginFine DEF Seen, Unseen
<1>3. CASE end_op(p)
  BY <1>3, end_opFine DEF Seen
<1>4. CASE Modify(p)
  <2>1. Fine' /\ Saved' = Saved /\ Active' = Active /\ InOp(p)
        /\ \E b \in Home : Store' = [Store EXCEPT ![b] = <<p>>]
    BY <1>4, ModifyFine
  <2>2. p \in Active
    BY <2>1 DEF Active
  <2> QED
    BY <2>1, <2>2 DEF Seen
<1> QED
  BY <1>1, <1>2, <1>3, <1>4 DEF OpStep

LEMMA JobFine ==
  ASSUME LogInv, LogInv', ~panic, ~panic', Fine, NEW p \in Procs, JobStep(p)
  PROVE  Fine' /\ Unseen
BY BreadFine, CopyBlockFine, ReleaseSourceFine, ReleaseTargetFine, WriteHeadFine,
   HeadWrittenFine, ReadHeadFine, CommitDoneFine, RecoveredFine DEF JobStep

LEMMA DataStep ==
  ASSUME DataInv, [Next]_vars
  PROVE  /\ DataInv'
         /\ \/ \E p \in Procs : Seen(p)
            \/ Active = {} /\ Saved' = Store /\ UNCHANGED <<Store, Active>>
            \/ Store' = Saved /\ Saved' = Saved /\ Active' = {}
<1>1. LogInv /\ LogInv' /\ BootProc \in Procs /\ panic \in BOOLEAN /\ panic' \in BOOLEAN
  <2>1. LogInv /\ LogInv' /\ BootProc \in Procs
    BY StepHolds, LogNumbers DEF DataInv
  <2> QED
    BY <2>1 DEF LogInv, BufInv, BufTypeOK
<1>2. CASE Crash
  <2>1. Fine' /\ Store' = Saved /\ Saved' = Saved /\ Active' = {} /\ ~panic'
    BY <1>1, <1>2, CrashFine DEF Crash, BufReset
  <2> QED
    BY <1>1, <2>1 DEF DataInv, Fine
<1>3. CASE UNCHANGED vars
  <2>1. panic' = panic
    BY <1>3 DEF vars, bufVars
  <2>2. CASE ~panic
    <3>1. Fine' /\ Unseen
      BY <1>1, <1>3, <2>2, StutterFine DEF DataInv, Fine
    <3> QED
      BY <1>1, <2>1, <2>2, <3>1 DEF DataInv, Fine, Seen
  <2>3. CASE panic
    <3>1. UNCHANGED <<buf, disk, pc, kind, outstanding, committing>>
      BY <1>3 DEF vars, bufVars, logVars
    <3>2. View' = View
      BY <3>1 DEF View, Cached
    <3>3. Saved' = Saved
      BY <1>1, <3>1, SavedSame DEF LogInv
    <3>4. (Recovering' <=> Recovering) /\ Active' = Active
      BY <3>1 DEF Recovering, Active, InOp
    <3>5. Unseen
      BY <3>2, <3>3, <3>4, StoreKept DEF Unseen
    <3>6. QuietIsDurable'
      BY <2>3, <3>1, <3>5 DEF DataInv, QuietIsDurable, Unseen
    <3> QED
      BY <1>1, <2>1, <2>3, <3>5, <3>6 DEF DataInv, Seen
  <2> QED
    BY <2>2, <2>3
<1>4. CASE Device \/ \E p \in Procs : (CallStep(p) /\ UNCHANGED logVars) \/ Killed(p)
  <2>1. ~panic /\ UNCHANGED logVars
    BY <1>1, <1>4, InsideStep DEF Device, Killed
  <2>2. panic' = panic
    <3>1. ASSUME NEW p \in Procs, CallStep(p) \/ Rouse(p) PROVE panic' = panic
      BY <1>1, <3>1, CallsKeepData DEF LogInv
    <3>2. CASE Hardware
      BY <3>2 DEF Hardware, Transfer, ideintr
    <3> QED
      BY <1>4, <3>1, <3>2 DEF Device, Killed
  <2>3. Fine /\ BufInv'
    BY <1>1, <2>1 DEF DataInv, Fine, LogInv
  <2>4. CASE Transfer
    <3>1. /\ Fine' /\ Store' = Store /\ Active' = Active
          /\ Saved' = Saved \/ (Saved' = Store /\ Active = {})
      BY <1>1, <2>1, <2>3, <2>4, TransferFine
    <3> QED
      BY <1>1, <2>1, <2>2, <3>1 DEF DataInv, Fine, Seen, Unseen
  <2>5. CASE ideintr \/ \E p \in Procs : CallStep(p) \/ Rouse(p)
    <3>1. Fine' /\ Unseen
      BY <1>1, <2>1, <2>3, <2>5, ideintrFine, CallStepFine
    <3> QED
      BY <1>1, <2>1, <2>2, <3>1 DEF DataInv, Fine, Seen
  <2> QED
    BY <1>4, <2>4, <2>5 DEF Device, Hardware, Killed
<1>5. ASSUME NEW p \in Procs, UserStep(p) \/ OpStep(p) \/ JobStep(p)
      PROVE  DataInv' /\ Seen(p)
  <2>1. ~panic
    BY <1>5, StopsAll
  <2>2. Fine
    BY <2>1 DEF DataInv, Fine
  <2>3. CASE panic'
    <3>1. Unseen /\ outstanding' = outstanding /\ committing' = committing
      BY <1>1, <1>5, <2>1, <2>3, PanicUnseen
    <3>2. QuietIsDurable
      BY <1>1, <2>1, <2>2, QuietHolds
    <3>3. QuietIsDurable'
      BY <3>1, <3>2 DEF QuietIsDurable, Unseen
    <3> QED
      BY <1>1, <2>3, <3>1, <3>3 DEF DataInv, Seen
  <2>4. CASE ~panic'
    <3>1. Fine' /\ Seen(p)
      BY <1>1, <1>5, <2>1, <2>2, <2>4, UserFine, JobFine DEF Seen
    <3> QED
      BY <1>1, <2>4, <3>1 DEF DataInv, Fine
  <2> QED
    BY <2>3, <2>4
<1> QED
  BY <1>2, <1>3, <1>4, <1>5 DEF Next, Kernel

\* The contents are right at every reachable state: an unmarked buffer has what
\* the disk has, a marked one is in the log, and the header on disk only names
\* log blocks that hold what was last written.  (log.c: commit, recover_from_log.)
THEOREM DataInvariant == Spec => []DataInv
<1>1. Init => DataInv
  <2> SUFFICES ASSUME Init PROVE DataInv
    OBVIOUS
  <2>1. LogInv /\ Fine /\ ~panic
    BY InitHolds, InitFine DEF Init, BufBoot
  <2> QED
    BY <2>1 DEF DataInv, Fine
<1>2. DataInv /\ [Next]_vars => DataInv'
  BY DataStep
<1> QED
  BY <1>1, <1>2, PTL DEF Spec

\* Once end_op() has returned for the last operation its changes are on disk, for
\* any number of processes, blocks and crashes.  (log.c: end_op, commit.)
THEOREM QuietDurable == Spec => []QuietIsDurable
<1>1. DataInv => QuietIsDurable
  <2> SUFFICES ASSUME DataInv PROVE QuietIsDurable
    OBVIOUS
  <2>1. CASE panic
    BY <2>1 DEF DataInv
  <2>2. CASE ~panic
    BY <2>2, QuietHolds DEF DataInv, Fine
  <2> QED
    BY <2>1, <2>2
<1> QED
  BY <1>1, DataInvariant, PTL

\* The log implements the atomic disk: a restart at any point, in recovery too,
\* finds the store as it was when no operation was in progress.  (log.c, bio.c.)
THEOREM LogIsAtomic == Spec => AtomicDiskSpec
<1>1. Init => AD!Init
  <2> SUFFICES ASSUME Init PROVE AD!Init
    OBVIOUS
  <2>1. Saved = [b \in Home |-> <<NoProc>>] /\ Store = Saved /\ Active = {}
    BY InitFine
  <2>2. Saved \in [Home -> {<<v>> : v \in Procs \cup {NoProc}}]
    BY <2>1
  <2> QED
    BY <2>1, <2>2 DEF AD!Init, Active
<1>2. DataInv /\ [Next]_vars => [AD!Next]_AD!vars
  <2> SUFFICES ASSUME DataInv, [Next]_vars PROVE [AD!Next]_AD!vars
    OBVIOUS
  <2>1. \/ \E p \in Procs : Seen(p)
        \/ Active = {} /\ Saved' = Store /\ UNCHANGED <<Store, Active>>
        \/ Store' = Saved /\ Saved' = Saved /\ Active' = {}
    BY DataStep
  <2>2. ASSUME NEW p \in Procs, Seen(p) PROVE [AD!Next]_AD!vars
    <3>1. CASE Unseen
      BY <3>1 DEF Unseen, Active, AD!vars
    <3>2. CASE UNCHANGED <<Store, Saved>> /\ Active' = Active \cup {p}
      <4>1. AD!Start(p)
        BY <3>2 DEF AD!Start, Active
      <4> QED
        BY <4>1 DEF AD!Next
    <3>3. CASE UNCHANGED <<Store, Saved>> /\ Active' = Active \ {p}
      <4>1. AD!End(p)
        BY <3>3 DEF AD!End, Active
      <4> QED
        BY <4>1 DEF AD!Next
    <3>4. CASE /\ Saved' = Saved /\ Active' = Active /\ p \in Active
               /\ \E b \in Home : Store' = [Store EXCEPT ![b] = <<p>>]
      <4>1. PICK b \in Home : Store' = [Store EXCEPT ![b] = <<p>>]
        BY <3>4
      <4>2. AD!Write(p, b, <<p>>)
        BY <3>4, <4>1 DEF AD!Write, Active
      <4>3. <<p>> \in {<<v>> : v \in Procs \cup {NoProc}}
        OBVIOUS
      <4> QED
        BY <4>2, <4>3 DEF AD!Next
    <3> QED
      BY <2>2, <3>1, <3>2, <3>3, <3>4 DEF Seen
  <2>3. CASE Active = {} /\ Saved' = Store /\ UNCHANGED <<Store, Active>>
    <3>1. AD!Commit
      BY <2>3 DEF AD!Commit, Active
    <3> QED
      BY <3>1 DEF AD!Next
  <2>4. CASE Store' = Saved /\ Saved' = Saved /\ Active' = {}
    <3>1. AD!Crash
      BY <2>4 DEF AD!Crash, Active
    <3> QED
      BY <3>1 DEF AD!Next
  <2> QED
    BY <2>1, <2>2, <2>3, <2>4
<1> QED
  BY <1>1, <1>2, DataInvariant, PTL DEF Spec, AtomicDiskSpec, AD!Spec
==============================================================================
