------------------------------- MODULE OpenFiles ------------------------------
(***************************************************************************)
(* The open files of the xv6 kernel: the table of struct file (file.c),    *)
(* the descriptors of the processes, the calls on them (sysfile.c), and    *)
(* what fork() and exit() do with them (proc.c).  One action is one        *)
(* critical section of ftable.lock, with what its process does alone       *)
(* before and after.                                                       *)
(***************************************************************************)
EXTENDS Pipe, SequencesExt

CONSTANTS Files,        \* slots of ftable
          NOFILE,       \* descriptors of a process
          InitProc,     \* the first process
          Writes,       \* what write() is called with
          READ,         \* bytes read() asks for
          OPENS,        \* bound: references to inodes at a time
          Openers, Senders  \* bounds: who calls open(), and write()

ASSUME OpenFilesAssumption ==
  /\ Files \subseteq Nat \ {0} /\ IsFiniteSet(Files) /\ Files # {}
  /\ NOFILE \in Nat \ {0}
  /\ InitProc \in Procs
  /\ Writes \subseteq Seq(Nat) \ {<<>>}
  /\ READ \in Nat \ {0}
  /\ OPENS \in Nat
  /\ Openers \subseteq Procs /\ Senders \subseteq Procs

NoFile == 0
Fds == 0..NOFILE-1

VARIABLES
  file,       \* ftable.file
  ofile,      \* p->ofile
  pc,         \* where a process stands: "unused", "user", or in a call
  work,       \* what its call still closes: files, pipe ends, inodes
  refs,       \* references to inodes held by files and by calls
  panic       \* the kernel has stopped

fileVars == <<file, ofile, pc, work, refs, panic>>
vars == <<pipeVars, got, fileVars>>

NoneFile == [ref |-> 0, type |-> "none"]
User == [at |-> "user"]
Unused == [at |-> "unused"]

\* Items of "work".
AFile(f) == [is |-> "file", file |-> f]
AnEnd(k, w) == [is |-> "pipe", pipe |-> k, writable |-> w]
AnInode == [is |-> "inode"]

Init ==
  /\ PipeInit
  /\ file = [f \in Files |-> NoneFile]
  /\ ofile = [p \in Procs |-> [fd \in Fds |-> NoFile]]
  /\ pc = [p \in Procs |-> IF p = InitProc THEN User ELSE Unused]
  /\ work = [p \in Procs |-> <<>>]
  /\ refs = 0
  /\ panic = FALSE

\* A process in user space makes calls; one that was killed exits instead.
Calls(p) == ~panic /\ pc[p] = User /\ xfer[p] = NoXfer /\ work[p] = <<>> /\ ~killed[p]
In(p, at) == ~panic /\ pc[p].at = at /\ work[p] = <<>>
Goto(p, c) == pc' = [pc EXCEPT ![p] = c]

\* filealloc() and fdalloc() take the first that is free.
Lowest(S) == CHOOSE x \in S : \A y \in S : x <= y
FreeFiles == {f \in Files : file[f].ref = 0}
NewFile(f) == [file EXCEPT ![f].ref = 1]
FreeFds(p) == {fd \in Fds : ofile[p][fd] = NoFile}
-----------------------------------------------------------------------------
\* fileclose() as far as the release of ftable.lock: what is left to close, and
\* the table.
DropRef(f) ==
  IF file[f].ref > 1 THEN [file EXCEPT ![f].ref = @ - 1]
                     ELSE [file EXCEPT ![f] = NoneFile]
LeftToClose(f) ==
  IF file[f].ref > 1 THEN <<>>
  ELSE CASE file[f].type = "pipe" -> <<AnEnd(file[f].pipe, file[f].writable)>>
         [] file[f].type = "inode" -> <<AnInode>>
         [] OTHER -> <<>>
\* ... of the file f by p, which has "rest" to close after it.
Fileclose(p, f, rest) ==
  IF file[f].ref < 1
    THEN panic' = TRUE /\ UNCHANGED <<file, work>>
    ELSE /\ file' = DropRef(f)
         /\ work' = [work EXCEPT ![p] = LeftToClose(f) \o rest]
         /\ UNCHANGED panic

\* The calls in fileclose() after the lock is released, and the closes of calls
\* that failed.
fileclose(p) ==
  /\ ~panic /\ work[p] # <<>> /\ Head(work[p]).is = "file"
  /\ Fileclose(p, Head(work[p]).file, Tail(work[p]))
  /\ PipesSame /\ UNCHANGED <<ofile, pc, refs>>

CloseEnd(p) ==
  /\ ~panic /\ work[p] # <<>> /\ Head(work[p]).is = "pipe"
  /\ pipeclose(Head(work[p]).pipe, Head(work[p]).writable)
  /\ work' = [work EXCEPT ![p] = Tail(@)]
  /\ UNCHANGED <<file, ofile, pc, refs, panic>>

iput(p) ==
  /\ ~panic /\ work[p] # <<>> /\ Head(work[p]).is = "inode"
  /\ refs' = refs - 1
  /\ work' = [work EXCEPT ![p] = Tail(@)]
  /\ PipesSame /\ UNCHANGED <<file, ofile, pc, panic>>
-----------------------------------------------------------------------------
\* sys_dup(): fdalloc() and then filedup().
filedup(f) == [file EXCEPT ![f].ref = @ + 1]
sys_dup(p, fd) ==
  /\ Calls(p) /\ ofile[p][fd] # NoFile
  /\ IF FreeFds(p) = {} THEN UNCHANGED <<file, ofile>>
     ELSE /\ ofile' = [ofile EXCEPT ![p][Lowest(FreeFds(p))] = ofile[p][fd]]
          /\ file' = filedup(ofile[p][fd])
  /\ panic' = (FreeFds(p) # {} /\ file[ofile[p][fd]].ref < 1)
  /\ PipesSame /\ UNCHANGED <<pc, work, refs>>

sys_close(p, fd) ==
  /\ Calls(p) /\ ofile[p][fd] # NoFile
  /\ ofile' = [ofile EXCEPT ![p][fd] = NoFile]
  /\ Fileclose(p, ofile[p][fd], <<>>)
  /\ PipesSame /\ UNCHANGED <<pc, refs>>

\* sys_open(): a reference to an inode, a file, a descriptor; the slot gets its
\* type at the very end.  Where the inode comes from is modelled in Inodes.
sys_open(p) ==
  /\ Calls(p) /\ refs < OPENS /\ p \in Openers
  /\ refs' = refs + 1
  /\ Goto(p, [at |-> "open"])
  /\ PipesSame /\ UNCHANGED <<file, ofile, work, panic>>

CloseAndPut(f) == <<AFile(f), AnInode>>
OpenFile(p) ==
  /\ In(p, "open")
  /\ Goto(p, User)
  /\ \/ /\ FreeFiles = {}
        /\ work' = [work EXCEPT ![p] = <<AnInode>>]
        /\ UNCHANGED <<file, ofile>>
     \/ /\ FreeFiles # {}
        /\ LET f == Lowest(FreeFiles) IN
          IF FreeFds(p) = {}
            THEN /\ file' = NewFile(f)
                 /\ work' = [work EXCEPT ![p] = CloseAndPut(f)]
                 /\ UNCHANGED ofile
            ELSE /\ file' = [file EXCEPT ![f] = [ref |-> 1, type |-> "inode"]]
                 /\ ofile' = [ofile EXCEPT ![p][Lowest(FreeFds(p))] = f]
                 /\ UNCHANGED work
  /\ PipesSame /\ UNCHANGED <<refs, panic>>
-----------------------------------------------------------------------------
\* sys_pipe(): pipealloc() takes a file for the read end,
sys_pipe(p) ==
  /\ Calls(p)
  /\ IF FreeFiles = {} THEN UNCHANGED <<file, pc>>
     ELSE /\ file' = NewFile(Lowest(FreeFiles))
          /\ Goto(p, [at |-> "pipe", rf |-> Lowest(FreeFiles), wf |-> NoFile])
  /\ PipesSame /\ UNCHANGED <<ofile, work, refs, panic>>

\* one for the write end,
PipeWriteEnd(p) ==
  /\ In(p, "pipe") /\ pc[p].wf = NoFile
  /\ \/ /\ FreeFiles = {}
        /\ Goto(p, User)
        /\ work' = [work EXCEPT ![p] = <<AFile(pc[p].rf)>>]
        /\ UNCHANGED file
     \/ /\ FreeFiles # {}
        /\ file' = NewFile(Lowest(FreeFiles))
        /\ Goto(p, [pc[p] EXCEPT !.wf = Lowest(FreeFiles)])
        /\ UNCHANGED work
  /\ PipesSame /\ UNCHANGED <<ofile, refs, panic>>

\* and a page, then there are two descriptors to find.
PipeEnd(k, w) == [ref |-> 1, type |-> "pipe", pipe |-> k, writable |-> w]
\* (Mutant: the write end is left open when no descriptor is left.)
CloseReadEnd(p) == <<AFile(pc[p].rf)>>
CloseBoth(p) == <<AFile(pc[p].rf), AFile(pc[p].wf)>>

PipePage(p) ==
  /\ In(p, "pipe") /\ pc[p].wf # NoFile
  /\ Goto(p, User)
  /\ \/ /\ work' = [work EXCEPT ![p] = CloseBoth(p)]     \* no memory
        /\ UNCHANGED <<file, ofile, pipe>>
     \/ \E k \in {q \in Pipes : ~pipe[q].alloc} :
          /\ pipe' = [pipe EXCEPT ![k] = NewPipe]
          /\ file' = [file EXCEPT ![pc[p].rf] = PipeEnd(k, FALSE),
                                  ![pc[p].wf] = PipeEnd(k, TRUE)]
          /\ IF Cardinality(FreeFds(p)) < 2
               THEN work' = [work EXCEPT ![p] = CloseBoth(p)] /\ UNCHANGED ofile
               ELSE LET fd0 == Lowest(FreeFds(p))
                        fd1 == Lowest(FreeFds(p) \ {fd0})
                    IN  /\ ofile' = [ofile EXCEPT ![p][fd0] = pc[p].rf,
                                                  ![p][fd1] = pc[p].wf]
                        /\ UNCHANGED work
  /\ got' = Nothing
  /\ UNCHANGED <<pipelock, chan, killed, xfer, refs, panic>>
-----------------------------------------------------------------------------
\* sys_read(), sys_write() on a pipe.
IsEnd(f, w) == f # NoFile /\ file[f].type = "pipe" /\ file[f].writable = w

sys_write(p, fd) ==
  /\ Calls(p) /\ p \in Senders /\ IsEnd(ofile[p][fd], TRUE)
  /\ \E bytes \in Writes :
       xfer' = [xfer EXCEPT ![p] =
         [at |-> "write", pipe |-> file[ofile[p][fd]].pipe, bytes |-> bytes]]
  /\ got' = Nothing
  /\ UNCHANGED <<fileVars, pipe, pipelock, chan, killed>>

sys_read(p, fd) ==
  /\ Calls(p) /\ IsEnd(ofile[p][fd], FALSE)
  /\ xfer' = [xfer EXCEPT ![p] =
       [at |-> "read", pipe |-> file[ofile[p][fd]].pipe, n |-> READ]]
  /\ got' = Nothing
  /\ UNCHANGED <<fileVars, pipe, pipelock, chan, killed>>

PipeIO(p) == ~panic /\ PipeStep(p) /\ UNCHANGED fileVars
-----------------------------------------------------------------------------
\* fork(): a slot, then a reference to every open file, one after another; the
\* child may run when all are there.
fork(p) ==
  /\ Calls(p)
  /\ \E q \in {q \in Procs : pc[q] = Unused} :
       pc' = [pc EXCEPT ![p] = [at |-> "fork", child |-> q],
                        ![q] = [at |-> "embryo"]]
  /\ PipesSame /\ UNCHANGED <<file, ofile, work, refs, panic>>

ToCopy(p, q) == {fd \in Fds : ofile[p][fd] # NoFile /\ ofile[q][fd] = NoFile}

ForkFile(p) ==
  /\ In(p, "fork")
  /\ LET q == pc[p].child
         fd == Lowest(ToCopy(p, q))
     IN  /\ ToCopy(p, q) # {}
         /\ ofile' = [ofile EXCEPT ![q][fd] = ofile[p][fd]]
         /\ file' = filedup(ofile[p][fd])
         /\ panic' = (file[ofile[p][fd]].ref < 1)
  /\ PipesSame /\ UNCHANGED <<pc, work, refs>>

ForkDone(p) ==
  /\ In(p, "fork") /\ ToCopy(p, pc[p].child) = {}
  /\ pc' = [pc EXCEPT ![p] = User, ![pc[p].child] = User]
  /\ PipesSame /\ UNCHANGED <<file, ofile, work, refs, panic>>

\* exit(): closes what is open, in order.  What follows, up to wait(), is in
\* ProcTable; here the slot is free at once.
exit(p) ==
  /\ ~panic /\ p # InitProc /\ pc[p] = User /\ xfer[p] = NoXfer /\ work[p] = <<>>
  /\ Goto(p, [at |-> "exit"])
  /\ PipesSame /\ UNCHANGED <<file, ofile, work, refs, panic>>

ExitFile(p) ==
  /\ In(p, "exit") /\ FreeFds(p) # Fds
  /\ LET fd == Lowest(Fds \ FreeFds(p))
     IN  /\ ofile' = [ofile EXCEPT ![p][fd] = NoFile]
         /\ Fileclose(p, ofile[p][fd], <<>>)
  /\ PipesSame /\ UNCHANGED <<pc, refs>>

ExitDone(p) ==
  /\ In(p, "exit") /\ FreeFds(p) = Fds
  /\ Goto(p, Unused)
  /\ killed' = [killed EXCEPT ![p] = FALSE]
  /\ got' = Nothing
  /\ UNCHANGED <<pipe, pipelock, chan, xfer, file, ofile, work, refs, panic>>

\* kill() of a process other than init, by anybody.  Only transfers look at the
\* flag before they return; elsewhere it comes to an exit() after the call.
Kill(p) ==
  /\ ~panic /\ p # InitProc /\ xfer[p] # NoXfer /\ ~killed[p]
  /\ kill(p)
  /\ UNCHANGED fileVars
-----------------------------------------------------------------------------
\* What goes on in the kernel once a call has begun.
Kernel(p) ==
  \/ fileclose(p) \/ CloseEnd(p) \/ iput(p)
  \/ OpenFile(p) \/ PipeWriteEnd(p) \/ PipePage(p) \/ PipeIO(p)
  \/ ForkFile(p) \/ ForkDone(p) \/ ExitFile(p) \/ ExitDone(p)

Next ==
  \E p \in Procs :
    \/ Kernel(p)
    \/ sys_open(p) \/ sys_pipe(p) \/ fork(p) \/ exit(p) \/ Kill(p)
    \/ \E fd \in Fds :
         sys_dup(p, fd) \/ sys_close(p, fd) \/ sys_write(p, fd) \/ sys_read(p, fd)

Spec == Init /\ [][Next]_vars
-----------------------------------------------------------------------------
TypeOK ==
  /\ \A f \in Files :
       /\ file[f].ref \in Nat
       /\ file[f].type = "pipe" => file[f].pipe \in Pipes /\ file[f].writable \in BOOLEAN
       /\ file[f].ref = 0 => file[f] = NoneFile
  /\ ofile \in [Procs -> [Fds -> Files \cup {NoFile}]]
  /\ \A k \in Pipes : pipe[k].alloc =>
       /\ pipe[k].nread \in 0..UINT-1 /\ pipe[k].nwrite \in 0..UINT-1
       /\ Held(k) <= PIPESIZE
  /\ \A p \in Procs : xfer[p].at \in {"none", "read", "write"}
  /\ refs \in Nat

\* f->ref counts the descriptors and the calls in progress that will close f:
\* fork(), exit(), and pipe() and open() in every way they can fail.
Namers(f) == {x \in Procs \X Fds : ofile[x[1]][x[2]] = f}
InCalls(f) ==
  {p \in Procs : pc[p].at = "pipe" /\ pc[p].rf = f}
    \cup {p \in Procs : pc[p].at = "pipe" /\ pc[p].wf = f}
    \cup {p \in Procs : AFile(f) \in ToSet(work[p])}
RefsExact ==
  \A f \in Files : file[f].ref = Cardinality(Namers(f)) + Cardinality(InCalls(f))

\* An end of a pipe is open as long as a file or a call in progress will close
\* it, and once; so the page is freed once, when both are closed, and no file
\* and no transfer is left with a page that may be somebody else's by then.
Owners(k, w) ==
  Cardinality({f \in Files : IsEnd(f, w) /\ file[f].pipe = k})
    + Cardinality({p \in Procs : AnEnd(k, w) \in ToSet(work[p])})
EndsOwned ==
  \A k \in Pipes :
    /\ Owners(k, FALSE) = IF pipe[k].alloc /\ pipe[k].readopen THEN 1 ELSE 0
    /\ Owners(k, TRUE) = IF pipe[k].alloc /\ pipe[k].writeopen THEN 1 ELSE 0
    /\ \A p \in Procs : xfer[p].at \in {"read", "write"} /\ xfer[p].pipe = k => pipe[k].alloc
    /\ pipe[k].alloc => pipe[k].readopen \/ pipe[k].writeopen

\* Every reference to an inode is a file's or a call's: none is lost when
\* open() fails half way, and none is dropped twice.
InodeRefs ==
  refs = Cardinality({f \in Files : file[f].type = "inode"})
       + Cardinality({p \in Procs : pc[p].at = "open"})
       + Cardinality({p \in Procs : AnInode \in ToSet(work[p])})

\* The file table: every count is what will be given back, however calls fail
\* half way, so nothing is freed early or twice and no panic is reached.
TableSound == TypeOK /\ ~panic /\ RefsExact /\ InodeRefs

\* The pipes are bounded byte streams, whoever shares their ends.
Holds(k, w) == \E f \in Files : IsEnd(f, w) /\ file[f].pipe = k
Streams == INSTANCE ByteStreams WITH
  Bytes <- Nat,
  Size <- PIPESIZE,
  Nobody <- NoProc,
  queue <- [k \in Pipes |-> Unread(k)],
  readers <- [k \in Pipes |-> Holds(k, FALSE)],
  writers <- [k \in Pipes |-> Holds(k, TRUE)]
ByteStreamsSpec == Streams!Spec
=============================================================================
