--------------------------------- MODULE Pipe ---------------------------------
(***************************************************************************)
(* Pipes of the xv6 kernel (pipe.c) with the sleep(), wakeup() and kill()  *)
(* they rest on.  One action is one critical section of a pipe's lock; the *)
(* lock is a variable only because kill(), which takes another lock, can   *)
(* come between the test of p->killed and sleep().                         *)
(***************************************************************************)
EXTENDS Integers, Sequences, FiniteSets

CONSTANTS Procs,        \* processes
          Pipes,        \* pages that kalloc() may give to a pipe
          PIPESIZE,     \* bytes a pipe holds
          UINT          \* nread and nwrite count modulo UINT (2^32)

NoProc == "nobody"

ASSUME PipeAssumption ==
  /\ IsFiniteSet(Procs) /\ NoProc \notin Procs
  /\ PIPESIZE \in Nat \ {0}
  /\ UINT \in Nat /\ UINT > PIPESIZE /\ UINT % PIPESIZE = 0

VARIABLES
  pipe,       \* struct pipe of each page; "alloc": the page is a pipe's
  pipelock,   \* who goes to sleep holding p->lock
  chan,       \* the channel a process sleeps on
  killed,     \* p->killed
  xfer,       \* where a process stands in pipewrite() or piperead()
  got         \* what the last step brought to a reader

pipeVars == <<pipe, pipelock, chan, killed, xfer>>

Awake == <<"awake">>
Nothing == [to |-> NoProc, bytes |-> <<>>]
\* What the other actions leave alone here.
PipesSame == UNCHANGED pipeVars /\ got' = Nothing
NoXfer == [at |-> "none"]
\* A byte that was read is not kept: its place counts as overwritten.
Blank == 0
NoPipe == [alloc |-> FALSE]
NewPipe == [alloc |-> TRUE, nread |-> 0, nwrite |-> 0,
            data |-> [i \in 0..PIPESIZE-1 |-> Blank],
            readopen |-> TRUE, writeopen |-> TRUE]

\* Unsigned difference of the two counters, and the bytes between them.
Held(k) == (pipe[k].nwrite - pipe[k].nread) % UINT
Empty(k) == pipe[k].nread = pipe[k].nwrite
\* Bytes a write may add before the pipe is full.  (Mutant: one too many.)
RoomLate(k) == PIPESIZE + 1 - Held(k)
Room(k) == PIPESIZE - Held(k)
Full(k) == pipe[k].nwrite = (pipe[k].nread + PIPESIZE) % UINT
Place(c, j) == ((c + j - 1) % UINT) % PIPESIZE    \* of the j-th byte from c on
Unread(k) ==
  IF pipe[k].alloc
    THEN [j \in 1..Held(k) |-> pipe[k].data[Place(pipe[k].nread, j)]] ELSE <<>>

\* wakeup() of one channel by a process that goes on, or sleeps itself.
\* (Mutant: nobody is woken.)
WakeNobody(c) == chan
Wakeup(c) == [q \in Procs |-> IF chan[q] = c THEN Awake ELSE chan[q]]
\* What writers wake, and readers sleep on: &p->nread; the other: &p->nwrite.
Readers(k) == <<"nread", k>>
Writers(k) == <<"nwrite", k>>

InPipe(p, at, k) ==
  xfer[p].at = at /\ chan[p] = Awake /\ k = xfer[p].pipe /\ pipelock[k] = NoProc
Leave(p) == xfer' = [xfer EXCEPT ![p] = NoXfer]

\* The bytes of a write() that fit are stored; n bytes are fetched.
Store(k, bytes) ==
  [pipe[k] EXCEPT
     !.nwrite = (@ + Len(bytes)) % UINT,
     !.data = [i \in DOMAIN @ |->
        LET J == {j \in DOMAIN bytes : Place(pipe[k].nwrite, j) = i}
        IN  IF J = {} THEN @[i] ELSE bytes[CHOOSE j \in J : TRUE]]]
Fetch(k, n) ==
  [pipe[k] EXCEPT
     !.nread = (@ + n) % UINT,
     !.data = [i \in DOMAIN @ |->
        IF \E j \in 1..n : Place(pipe[k].nread, j) = i THEN Blank ELSE @[i]]]

\* pipewrite() from acquire() or the return of sleep(), until it returns or is
\* about to sleep.  What a write that fails has stored stays, and nobody is woken.
pipewrite(p, k) ==
  LET bytes == xfer[p].bytes
      fit == IF Len(bytes) < Room(k) THEN Len(bytes) ELSE Room(k)
      rest == SubSeq(bytes, fit + 1, Len(bytes))
  IN  /\ InPipe(p, "write", k)
      /\ pipe' = [pipe EXCEPT ![k] = Store(k, SubSeq(bytes, 1, fit))]
      /\ \/ /\ rest = <<>>                                    \* return n
            /\ chan' = Wakeup(Readers(k))
            /\ Leave(p)
            /\ UNCHANGED pipelock
         \/ /\ rest # <<>> /\ (~pipe[k].readopen \/ killed[p])  \* return -1
            /\ Leave(p)
            /\ UNCHANGED <<chan, pipelock>>
         \/ /\ rest # <<>> /\ pipe[k].readopen /\ ~killed[p]
            /\ chan' = Wakeup(Readers(k))
            /\ pipelock' = [pipelock EXCEPT ![k] = p]
            /\ xfer' = [xfer EXCEPT ![p].bytes = rest]
      /\ got' = Nothing
      /\ UNCHANGED killed

\* piperead(), the same.
piperead(p, k) ==
  LET n == IF xfer[p].n < Held(k) THEN xfer[p].n ELSE Held(k)
  IN  /\ InPipe(p, "read", k)
      /\ \/ /\ Empty(k) /\ pipe[k].writeopen /\ killed[p]     \* return -1
            /\ Leave(p)
            /\ got' = Nothing
            /\ UNCHANGED <<pipe, pipelock, chan>>
         \/ /\ Empty(k) /\ pipe[k].writeopen /\ ~killed[p]
            /\ pipelock' = [pipelock EXCEPT ![k] = p]
            /\ got' = Nothing
            /\ UNCHANGED <<pipe, chan, xfer>>
         \/ /\ ~Empty(k) \/ ~pipe[k].writeopen                \* return i
            /\ pipe' = [pipe EXCEPT ![k] = Fetch(k, n)]
            /\ got' = [to |-> p, bytes |-> SubSeq(Unread(k), 1, n)]
            /\ chan' = Wakeup(Writers(k))
            /\ Leave(p)
            /\ UNCHANGED pipelock
      /\ UNCHANGED killed

\* sleep(chan, &p->lock): a kill() that came after the test has found nobody
\* asleep to wake.
sleep(p, k) ==
  /\ pipelock[k] = p
  /\ pipelock' = [pipelock EXCEPT ![k] = NoProc]
  /\ chan' = [chan EXCEPT ![p] =
       IF xfer[p].at = "read" THEN Readers(k) ELSE Writers(k)]
  /\ got' = Nothing
  /\ UNCHANGED <<pipe, killed, xfer>>

\* What pipeclose() does to the pipe and to its sleepers.
\* (Mutant: freed with the read end.)
ReadEnd(k, w) == ~w
OtherEndClosed(k, w) == IF w THEN ~pipe[k].readopen ELSE ~pipe[k].writeopen
pipeclose(k, w) ==
  /\ pipelock[k] = NoProc
  /\ pipe' = [pipe EXCEPT ![k] =
       IF OtherEndClosed(k, w) THEN NoPipe
       ELSE IF w THEN [@ EXCEPT !.writeopen = FALSE]
                 ELSE [@ EXCEPT !.readopen = FALSE]]
  /\ chan' = Wakeup(IF w THEN Readers(k) ELSE Writers(k))
  /\ got' = Nothing
  /\ UNCHANGED <<pipelock, killed, xfer>>

\* kill()
kill(p) ==
  /\ killed' = [killed EXCEPT ![p] = TRUE]
  /\ chan' = [chan EXCEPT ![p] = Awake]
  /\ got' = Nothing
  /\ UNCHANGED <<pipe, pipelock, xfer>>

PipeStep(p) == \E k \in Pipes : pipewrite(p, k) \/ piperead(p, k) \/ sleep(p, k)

PipeInit ==
  /\ pipe = [k \in Pipes |-> NoPipe]
  /\ pipelock = [k \in Pipes |-> NoProc]
  /\ chan = [p \in Procs |-> Awake]
  /\ killed = [p \in Procs |-> FALSE]
  /\ xfer = [p \in Procs |-> NoXfer]
  /\ got = Nothing
-----------------------------------------------------------------------------
\* A process sleeps in piperead() or pipewrite() only while the other end is
\* open, a writer only while the pipe is full, and never both sides at once.
SleepersWait ==
  \A k \in Pipes :
    /\ \A p \in Procs :
         /\ chan[p] = Readers(k) => pipe[k].alloc /\ pipe[k].writeopen
         /\ chan[p] = Writers(k) => pipe[k].alloc /\ pipe[k].readopen /\ Full(k)
    /\ ~ \E p, q \in Procs : chan[p] = Readers(k) /\ chan[q] = Writers(k)

\* A reader falls asleep beside an empty pipe, and no byte is written while it
\* sleeps, but by a write() that is killed: it returns without a wakeup().
KilledWrite(k) ==
  \E q \in Procs :
    /\ killed[q] /\ xfer[q].at = "write" /\ xfer[q].pipe = k
    /\ xfer'[q] = NoXfer
ReaderStep(p, k) ==
  chan'[p] = Readers(k) =>
    IF chan[p] = Readers(k)
    THEN pipe'[k].nwrite = pipe[k].nwrite \/ KilledWrite(k)
    ELSE Empty(k)

SleepersHaveReason ==
  []SleepersWait /\ [][\A p \in Procs, k \in Pipes : ReaderStep(p, k)]_pipeVars
=============================================================================
