-------------------------------- MODULE Inodes --------------------------------
(***************************************************************************)
(* Inodes and directories of the xv6 kernel (fs.c) and the system calls    *)
(* that walk, make and remove names (sysfile.c), on several processes at   *)
(* once.  One action is one critical section of icache.lock or one change  *)
(* of the disk; what a process does under an inode's sleep lock is one     *)
(* action with it where nobody without that lock could look.  Blocks, the  *)
(* log and the sleeping of acquiresleep() are modelled in Buffers and Log: *)
(* here a process that wants a lock waits until it is free.                *)
(***************************************************************************)
EXTENDS Integers, Sequences, FiniteSets, SequencesExt

CONSTANTS Procs,        \* processes
          NINODES,      \* inodes on disk; 1 is the root directory
          NINODE,       \* entries of the inode cache
          Names,        \* names other than "." and ".."
          Paths,        \* paths the calls get; one that starts with "/" is absolute
          Ops,          \* calls the processes make
          CALLS,        \* bound: calls in all
          InitDisk,     \* inodes on disk at the start
          OPENED        \* the file that processes may have open at the start

Inums == 1..NINODES
Slots == 1..NINODE
None == 0
NoProc == "nobody"
DirNames == Names \cup {".", ".."}
NoEntries == [n \in DirNames |-> None]

\* No set of directories whose entries "next" lead round in it.
NoLoop(next(_, _)) ==
  \A D \in SUBSET Inums : D # {} => \E x \in D : \A n \in Names : next(x, n) \notin D

ASSUME InodesAssumption ==
  /\ NINODES \in Nat \ {0} /\ NINODE \in Nat \ {0, 1} /\ CALLS \in Nat
  /\ IsFiniteSet(Procs) /\ NoProc \notin Procs
  /\ {".", "..", "/", ""} \cap Names = {}
  /\ \A path \in Paths :
       /\ path \in Seq(DirNames \cup {"/"}) /\ path # <<>> /\ path # <<"/">>
       /\ \A k \in 2..Len(path) : path[k] # "/"
  /\ OPENED \in Inums \ {1}
  /\ Ops \subseteq {"open", "create", "mknod", "mkdir", "link", "unlink",
                    "chdir", "close", "exit"}

\* The tree that mkfs or an earlier run of the kernel left.
ASSUME InitDiskAssumption ==
  /\ InitDisk \in [Inums -> [type : {"free", "dir", "file", "dev"}, nlink : Nat,
                            ents : [DirNames -> Inums \cup {None}]]]
  /\ \A i \in Inums : InitDisk[i].type # "dir" => InitDisk[i].ents = NoEntries
  /\ InitDisk[1].type = "dir" /\ InitDisk[OPENED].type # "free"
  /\ NoLoop(LAMBDA x, n : InitDisk[x].ents[n])

VARIABLES
  dinode,     \* inodes on disk, with the entries of directories
  icache,     \* icache.inode
  cwd, fd,    \* current directory and open file of each process
  call,       \* where a process stands in its call
  calls,      \* calls made
  panic       \* the kernel has stopped

vars == <<dinode, icache, cwd, fd, call, calls, panic>>

FreeInode == [type |-> "free", nlink |-> 0, ents |-> NoEntries]
NoInode == [inum |-> None, ref |-> 0, valid |-> FALSE, lock |-> NoProc,
            type |-> "free", nlink |-> 0]
\* "ip", "obj": cache entries; "puts": those still to be put before the next step.
User == [at |-> "user", op |-> "", path |-> <<>>, new |-> <<>>, name |-> "",
         ip |-> None, obj |-> None, puts |-> <<>>, stage |-> "lock"]

InitCalls == call = [p \in Procs |-> User] /\ calls = 0 /\ panic = FALSE

\* Every process is in the root directory, and some have a file open.
Init ==
  \E openers \in SUBSET Procs :
    /\ dinode = InitDisk
    /\ icache = [s \in Slots |->
         IF s = 1 THEN [NoInode EXCEPT !.inum = 1, !.ref = Cardinality(Procs)]
         ELSE IF s = 2 /\ openers # {}
           THEN [NoInode EXCEPT !.inum = OPENED, !.ref = Cardinality(openers),
                   !.valid = TRUE, !.type = InitDisk[OPENED].type,
                   !.nlink = InitDisk[OPENED].nlink]
         ELSE NoInode]
    /\ cwd = [p \in Procs |-> 1]
    /\ fd = [p \in Procs |-> IF p \in openers THEN 2 ELSE None]
    /\ InitCalls
-----------------------------------------------------------------------------
\* iget(): the entry of inode i, or the first that is free.
Cached(i) == {s \in Slots : icache[s].ref > 0 /\ icache[s].inum = i}
Unused == {s \in Slots : icache[s].ref = 0}
Lowest(S) == CHOOSE x \in S : \A y \in S : x <= y
CanGet(i) == Cached(i) \cup Unused # {}
SlotFor(i) == IF Cached(i) # {} THEN Lowest(Cached(i)) ELSE Lowest(Unused)
Iget(c, i) ==
  IF Cached(i) # {} THEN [c EXCEPT ![SlotFor(i)].ref = @ + 1]
  ELSE [c EXCEPT ![SlotFor(i)] = [@ EXCEPT !.inum = i, !.ref = 1, !.valid = FALSE]]

\* ilock() under the lock: what is not valid is read from disk.
Load(c, s) ==
  IF c[s].valid THEN c
  ELSE [c EXCEPT ![s] = [@ EXCEPT !.valid = TRUE,
          !.type = dinode[c[s].inum].type, !.nlink = dinode[c[s].inum].nlink]]
Unlock(c, s) == [c EXCEPT ![s].lock = NoProc]
\* A field that lives on disk and iupdate().
Iupdate(d, s, n) == [d EXCEPT ![icache[s].inum].nlink = n]
SetLinks(c, s, n) == [c EXCEPT ![s].nlink = n]

Entry(s, n) == dinode[icache[s].inum].ents[n]

Doing(p, at) == ~panic /\ call[p].at = at /\ call[p].puts = <<>>
Become(p, c) == call' = [call EXCEPT ![p] = c]
Panic == panic' = TRUE /\ UNCHANGED <<dinode, icache, cwd, fd, call, calls>>

\* ilock() of entry s by p, which goes on at "at".
Ilock(p, s, at) ==
  /\ icache[s].lock = NoProc
  /\ LET c == Load([icache EXCEPT ![s].lock = p], s)
     IN  IF c[s].type = "free"
           THEN panic' = TRUE /\ UNCHANGED <<icache, call>>     \* "ilock: no type"
           ELSE /\ icache' = c
                /\ Become(p, [call[p] EXCEPT !.at = at])
                /\ UNCHANGED panic
  /\ UNCHANGED <<dinode, cwd, fd, calls>>

\* The call of p ends once it has put the entries of "puts".
End(p, puts) == Become(p, [User EXCEPT !.puts = puts])
Goon(p, at, puts) == Become(p, [call[p] EXCEPT !.at = at, !.puts = puts])
-----------------------------------------------------------------------------
\* iput() of the first of "puts": under the inode's lock, whether it is to go.
\* (Mutant: whoever else has it.)
NoLinks(s) == icache[s].valid /\ icache[s].nlink = 0
ToFree(s) == icache[s].valid /\ icache[s].nlink = 0 /\ icache[s].ref = 1
Unref(p, s, c) ==
  /\ icache' = [c EXCEPT ![s].ref = @ - 1]
  /\ Become(p, [call[p] EXCEPT !.puts = Tail(@), !.stage = "lock"])

iput(p) ==
  LET s == Head(call[p].puts)
  IN  /\ ~panic /\ call[p].puts # <<>> /\ call[p].stage = "lock"
      /\ icache[s].lock = NoProc
      /\ \/ /\ ~ToFree(s)
            /\ Become(p, [call[p] EXCEPT !.stage = "unref"])
            /\ UNCHANGED icache
         \/ /\ ToFree(s)
            /\ icache' = [icache EXCEPT ![s].lock = p]
            /\ Become(p, [call[p] EXCEPT !.stage = "free"])
      /\ UNCHANGED <<dinode, cwd, fd, calls, panic>>

\* itrunc(), and the type is cleared on disk: ialloc() may take the inode,
IputFree(p) ==
  LET s == Head(call[p].puts)
  IN  /\ ~panic /\ call[p].puts # <<>> /\ call[p].stage = "free"
      /\ dinode' = [dinode EXCEPT ![icache[s].inum] = FreeInode]
      /\ icache' = [icache EXCEPT ![s].type = "free"]
      /\ Become(p, [call[p] EXCEPT !.stage = "invalid"])
      /\ UNCHANGED <<cwd, fd, calls, panic>>

\* then the entry is marked invalid and unlocked.
\* (Mutant: it stays valid.)
StaysValid(s) == Unlock(icache, s)
Invalidate(s) == [Unlock(icache, s) EXCEPT ![s].valid = FALSE]
IputInvalid(p) ==
  /\ ~panic /\ call[p].puts # <<>> /\ call[p].stage = "invalid"
  /\ icache' = Invalidate(Head(call[p].puts))
  /\ Become(p, [call[p] EXCEPT !.stage = "unref"])
  /\ UNCHANGED <<dinode, cwd, fd, calls, panic>>

IputUnref(p) ==
  /\ ~panic /\ call[p].puts # <<>> /\ call[p].stage = "unref"
  /\ Unref(p, Head(call[p].puts), icache)
  /\ UNCHANGED <<dinode, cwd, fd, calls, panic>>
-----------------------------------------------------------------------------
\* Calls that stop at the parent of what the path names (nameiparent()).
WantsParent(c) ==
  c.op \in {"create", "mknod", "mkdir", "unlink"} \/ (c.op = "link" /\ c.obj # None)

\* namex() begins: a reference to the root or to the current directory.
\* "c" is the call of p, at its path, and "cache" the cache before.
Namex(p, c, path, cache) ==
  LET abs == Head(path) = "/"
      s == IF abs THEN SlotFor(1) ELSE cwd[p]
      rest == IF abs THEN Tail(path) ELSE path
  IN  IF abs /\ ~CanGet(1) THEN panic' = TRUE /\ UNCHANGED <<icache, call>>
      ELSE /\ icache' = IF abs THEN Iget(cache, 1) ELSE [cache EXCEPT ![s].ref = @ + 1]
           /\ Become(p, [c EXCEPT !.at = "namex", !.ip = s, !.path = rest])
           /\ UNCHANGED panic

\* A system call with a path; link() has two.
PathCall(p) ==
  /\ Doing(p, "user") /\ calls < CALLS /\ cwd[p] # None
  /\ \E op \in Ops \ {"close", "exit"}, path \in Paths,
        new \in IF "link" \in Ops THEN Paths ELSE {<<>>} :
       /\ op # "link" => new = CHOOSE x \in (IF "link" \in Ops THEN Paths ELSE {<<>>}) : TRUE
       /\ Namex(p, [User EXCEPT !.op = op, !.new = IF op = "link" THEN new ELSE <<>>],
                path, icache)
  /\ calls' = calls + 1
  /\ UNCHANGED <<dinode, cwd, fd>>

\* The loop of namex(): ilock(ip),
NamexLock(p) == Doing(p, "namex") /\ Ilock(p, call[p].ip, "namei")

\* then one element is looked up, and ip is unlocked and put.
\* (Mutants: it is not put; it stays locked.)
KeepLock(c, s) == c
Release(c, s) == Unlock(c, s)
KeepIp(s) == <<>>
PutIp(s) == <<s>>
NamexStep(p) ==
  LET c == call[p]
      s == c.ip
      n == Head(c.path)
      i == Entry(s, n)
  IN  /\ Doing(p, "namei")
      /\ \/ /\ icache[s].type # "dir"
            /\ icache' = Unlock(icache, s)
            /\ Become(p, [c EXCEPT !.at = "found", !.ip = None, !.puts = <<s>>])
            /\ UNCHANGED panic
         \/ /\ icache[s].type = "dir" /\ WantsParent(c) /\ Len(c.path) = 1
            /\ icache' = Unlock(icache, s)
            /\ Become(p, [c EXCEPT !.at = "found", !.name = n])
            /\ UNCHANGED panic
         \/ /\ icache[s].type = "dir" /\ ~(WantsParent(c) /\ Len(c.path) = 1)
            /\ i = None
            /\ icache' = Unlock(icache, s)
            /\ Become(p, [c EXCEPT !.at = "found", !.ip = None, !.puts = <<s>>])
            /\ UNCHANGED panic
         \/ /\ icache[s].type = "dir" /\ ~(WantsParent(c) /\ Len(c.path) = 1)
            /\ i # None
            /\ IF ~CanGet(i) THEN panic' = TRUE /\ UNCHANGED <<icache, call>>
               ELSE /\ icache' = Release(Iget(icache, i), s)
                    /\ Become(p, [c EXCEPT !.ip = SlotFor(i), !.path = Tail(@),
                         !.puts = PutIp(s),
                         !.at = IF Len(c.path) = 1 THEN "found" ELSE "namex"])
                    /\ UNCHANGED panic
      /\ UNCHANGED <<dinode, cwd, fd, calls>>

\* The path names nothing: link() takes its new link back, the others return.
NotFound(p) ==
  /\ Doing(p, "found") /\ call[p].ip = None
  /\ Become(p, IF call[p].obj # None THEN [call[p] EXCEPT !.at = "bad"] ELSE User)
  /\ UNCHANGED <<dinode, icache, cwd, fd, calls, panic>>

\* Every call locks what the path led to.
AfterLock(c) ==
  CASE c.op \in {"create", "mknod", "mkdir"} -> "create"
    [] c.op = "link" /\ c.obj # None -> "dirlink"
    [] OTHER -> c.op
FoundLock(p) ==
  /\ Doing(p, "found") /\ call[p].ip # None
  /\ Ilock(p, call[p].ip, AfterLock(call[p]))
-----------------------------------------------------------------------------
\* sys_open() with the inode locked: a directory is opened for reading only,
\* and a process may have no descriptor left.
sys_open(p) ==
  LET s == call[p].ip
  IN  /\ Doing(p, "open")
      /\ icache' = Unlock(icache, s)
      /\ \/ /\ fd[p] = None
            /\ fd' = [fd EXCEPT ![p] = s]
            /\ End(p, <<>>)
         \/ /\ fd[p] # None \/ icache[s].type = "dir"
            /\ End(p, <<s>>)
            /\ UNCHANGED fd
      /\ UNCHANGED <<dinode, cwd, calls, panic>>

\* create() with the parent locked: the name is there,
TypeOf(op) == CASE op = "mkdir" -> "dir" [] op = "mknod" -> "dev" [] OTHER -> "file"
CreateOld(p) ==
  LET c == call[p]
      i == Entry(c.ip, c.name)
  IN  /\ Doing(p, "create") /\ i # None
      /\ IF ~CanGet(i) THEN panic' = TRUE /\ UNCHANGED <<icache, call>>
         ELSE /\ icache' = Unlock(Iget(icache, i), c.ip)
              /\ Become(p, [c EXCEPT !.at = "old", !.obj = SlotFor(i), !.puts = <<c.ip>>])
              /\ UNCHANGED panic
      /\ UNCHANGED <<dinode, cwd, fd, calls>>

LockOld(p) == Doing(p, "old") /\ Ilock(p, call[p].obj, "exists")

Exists(p) ==
  LET c == call[p]
  IN  /\ Doing(p, "exists")
      /\ IF c.op = "create" /\ icache[c.obj].type = "file"
           THEN Become(p, [c EXCEPT !.at = "open", !.ip = c.obj]) /\ UNCHANGED icache
           ELSE icache' = Unlock(icache, c.obj) /\ End(p, <<c.obj>>)
      /\ UNCHANGED <<dinode, cwd, fd, calls, panic>>

\* or it is not, and ialloc() takes any inode that is free on disk,
FreeInums == {i \in Inums : dinode[i].type = "free"}
ialloc(p) ==
  LET c == call[p]
  IN  /\ Doing(p, "create") /\ Entry(c.ip, c.name) = None
      /\ IF FreeInums = {} THEN panic' = TRUE /\ UNCHANGED <<dinode, call>>
         ELSE \E i \in FreeInums :
                /\ dinode' = [dinode EXCEPT ![i].type = TypeOf(c.op)]
                /\ Become(p, [c EXCEPT !.at = "made", !.obj = i])
                /\ UNCHANGED panic
      /\ UNCHANGED <<icache, cwd, fd, calls>>

IallocGet(p) ==
  LET i == call[p].obj
  IN  /\ Doing(p, "made")
      /\ IF ~CanGet(i) THEN panic' = TRUE /\ UNCHANGED <<icache, call>>
         ELSE /\ icache' = Iget(icache, i)
              /\ Become(p, [call[p] EXCEPT !.at = "new", !.obj = SlotFor(i)])
              /\ UNCHANGED panic
      /\ UNCHANGED <<dinode, cwd, fd, calls>>

LockNew(p) == Doing(p, "new") /\ Ilock(p, call[p].obj, "fill")

\* its fields are set and the name is linked; the parent is put while the new
\* inode stays locked.
Dots(op, i, d) ==
  IF op = "mkdir" THEN [NoEntries EXCEPT !["."] = i, ![".."] = d] ELSE NoEntries
CreateLink(p) ==
  LET c == call[p]
      d == icache[c.ip].inum
      i == icache[c.obj].inum
      n == icache[c.ip].nlink + IF c.op = "mkdir" THEN 1 ELSE 0
  IN  /\ Doing(p, "fill")
      /\ icache' = Unlock(SetLinks(SetLinks(icache, c.obj, 1), c.ip, n), c.ip)
      /\ dinode' = [dinode EXCEPT
            ![i].nlink = 1, ![i].ents = Dots(c.op, i, d),
            ![d].nlink = n, ![d].ents[c.name] = i]
      /\ Become(p, [c EXCEPT !.at = IF c.op = "create" THEN "open" ELSE "done",
                             !.ip = c.obj, !.puts = <<c.ip>>])
      /\ UNCHANGED <<cwd, fd, calls, panic>>

\* iunlockput() of what mkdir() or mknod() made.
CreateDone(p) ==
  /\ Doing(p, "done")
  /\ icache' = Unlock(icache, call[p].ip)
  /\ End(p, <<call[p].ip>>)
  /\ UNCHANGED <<dinode, cwd, fd, calls, panic>>
-----------------------------------------------------------------------------
\* sys_unlink() with the parent locked: "." and ".." stay, or the name is not there.
NoUnlink(p) ==
  LET c == call[p]
  IN  /\ Doing(p, "unlink")
      /\ c.name \in {".", ".."} \/ Entry(c.ip, c.name) = None
      /\ icache' = Unlock(icache, c.ip)
      /\ End(p, <<c.ip>>)
      /\ UNCHANGED <<dinode, cwd, fd, calls, panic>>

Unlink(p) ==
  LET c == call[p]
      i == Entry(c.ip, c.name)
  IN  /\ Doing(p, "unlink") /\ c.name \notin {".", ".."} /\ i # None
      /\ IF ~CanGet(i) THEN panic' = TRUE /\ UNCHANGED <<icache, call>>
         ELSE /\ icache' = Iget(icache, i)
              /\ Become(p, [c EXCEPT !.at = "victim", !.obj = SlotFor(i)])
              /\ UNCHANGED panic
      /\ UNCHANGED <<dinode, cwd, fd, calls>>

LockVictim(p) == Doing(p, "victim") /\ Ilock(p, call[p].obj, "both")

\* isdirempty(): nothing but "." and "..".
isdirempty(s) == \A n \in Names : Entry(s, n) = None

\* Both are locked: a directory that is not empty stays, its own lock dropped
\* and its reference put first;
NotEmpty(p) ==
  LET c == call[p]
  IN  /\ Doing(p, "both") /\ icache[c.obj].nlink >= 1
      /\ icache[c.obj].type = "dir" /\ ~isdirempty(c.obj)
      /\ icache' = Unlock(icache, c.obj)
      /\ Goon(p, "full", <<c.obj>>)
      /\ UNCHANGED <<dinode, cwd, fd, calls, panic>>

NotEmptyDone(p) ==
  /\ Doing(p, "full")
  /\ icache' = Unlock(icache, call[p].ip)
  /\ End(p, <<call[p].ip>>)
  /\ UNCHANGED <<dinode, cwd, fd, calls, panic>>

\* otherwise the entry is erased, and the parent put with the victim locked;
UnlinkEntry(p) ==
  LET c == call[p]
      d == icache[c.ip].inum
      n == icache[c.ip].nlink - IF icache[c.obj].type = "dir" THEN 1 ELSE 0
  IN  /\ Doing(p, "both")
      /\ \/ /\ icache[c.obj].nlink < 1                  \* "unlink: nlink < 1"
            /\ Panic
         \/ /\ icache[c.obj].nlink >= 1
            /\ icache[c.obj].type # "dir" \/ isdirempty(c.obj)
            /\ dinode' = [dinode EXCEPT ![d].ents[c.name] = None, ![d].nlink = n]
            /\ icache' = Unlock(SetLinks(icache, c.ip, n), c.ip)
            /\ Goon(p, "victimless", <<c.ip>>)
            /\ UNCHANGED <<cwd, fd, calls, panic>>

\* last, the victim has a link less.
UnlinkDone(p) ==
  LET s == call[p].obj
      n == icache[s].nlink - 1
  IN  /\ Doing(p, "victimless")
      /\ dinode' = Iupdate(dinode, s, n)
      /\ icache' = Unlock(SetLinks(icache, s, n), s)
      /\ End(p, <<s>>)
      /\ UNCHANGED <<cwd, fd, calls, panic>>
-----------------------------------------------------------------------------
\* sys_link() with the old inode locked: a link more, before there is a name.
LinkOld(p) ==
  LET c == call[p]
      n == icache[c.ip].nlink + 1
  IN  /\ Doing(p, "link")
      /\ IF icache[c.ip].type = "dir"
           THEN /\ icache' = Unlock(icache, c.ip)
                /\ End(p, <<c.ip>>)
                /\ UNCHANGED <<dinode, panic>>
           ELSE /\ dinode' = Iupdate(dinode, c.ip, n)
                /\ Namex(p, [c EXCEPT !.obj = c.ip], c.new,
                         Unlock(SetLinks(icache, c.ip, n), c.ip))
      /\ UNCHANGED <<cwd, fd, calls>>

\* dirlink() in the new parent: a name that is there is put under the lock,
Dirlink(p) ==
  LET c == call[p]
      i == Entry(c.ip, c.name)
      d == icache[c.ip].inum
  IN  /\ Doing(p, "dirlink")
      /\ \/ /\ i # None /\ ~CanGet(i)
            /\ Panic
         \/ /\ i # None /\ CanGet(i)
            /\ icache' = Iget(icache, i)
            /\ Goon(p, "taken", <<SlotFor(i)>>)
            /\ UNCHANGED <<dinode, cwd, fd, calls, panic>>
         \/ /\ i = None
            /\ dinode' = [dinode EXCEPT ![d].ents[c.name] = icache[c.obj].inum]
            /\ icache' = Unlock(icache, c.ip)
            /\ End(p, <<c.ip, c.obj>>)
            /\ UNCHANGED <<cwd, fd, calls, panic>>

\* and the link is taken back.
Taken(p) ==
  /\ Doing(p, "taken")
  /\ icache' = Unlock(icache, call[p].ip)
  /\ Goon(p, "bad", <<call[p].ip>>)
  /\ UNCHANGED <<dinode, cwd, fd, calls, panic>>

LinkBad(p) == Doing(p, "bad") /\ Ilock(p, call[p].obj, "takeback")

TakeBack(p) ==
  LET s == call[p].obj
      n == icache[s].nlink - 1
  IN  /\ Doing(p, "takeback")
      /\ dinode' = Iupdate(dinode, s, n)
      /\ icache' = Unlock(SetLinks(icache, s, n), s)
      /\ End(p, <<s>>)
      /\ UNCHANGED <<cwd, fd, calls, panic>>
-----------------------------------------------------------------------------
\* sys_chdir()
sys_chdir(p) ==
  LET s == call[p].ip
  IN  /\ Doing(p, "chdir")
      /\ icache' = Unlock(icache, s)
      /\ IF icache[s].type = "dir"
           THEN cwd' = [cwd EXCEPT ![p] = s] /\ End(p, <<cwd[p]>>)
           ELSE End(p, <<s>>) /\ UNCHANGED cwd
      /\ UNCHANGED <<dinode, fd, calls, panic>>

\* sys_close() of the last reference to the file: fileclose() puts its inode.
sys_close(p) ==
  /\ Doing(p, "user") /\ calls < CALLS /\ "close" \in Ops /\ fd[p] # None
  /\ fd' = [fd EXCEPT ![p] = None]
  /\ End(p, <<fd[p]>>)
  /\ calls' = calls + 1
  /\ UNCHANGED <<dinode, icache, cwd, panic>>

\* exit() puts the open file's inode and the current directory.
exit(p) ==
  /\ Doing(p, "user") /\ calls < CALLS /\ "exit" \in Ops /\ cwd[p] # None
  /\ End(p, (IF fd[p] # None THEN <<fd[p]>> ELSE <<>>) \o <<cwd[p]>>)
  /\ fd' = [fd EXCEPT ![p] = None]
  /\ cwd' = [cwd EXCEPT ![p] = None]
  /\ calls' = calls + 1
  /\ UNCHANGED <<dinode, icache, panic>>
-----------------------------------------------------------------------------
Kernel(p) ==
  \/ iput(p) \/ IputFree(p) \/ IputInvalid(p) \/ IputUnref(p)
  \/ NamexLock(p) \/ NamexStep(p) \/ NotFound(p) \/ FoundLock(p)
  \/ sys_open(p) \/ CreateOld(p) \/ LockOld(p) \/ Exists(p)
  \/ ialloc(p) \/ IallocGet(p) \/ LockNew(p) \/ CreateLink(p) \/ CreateDone(p)
  \/ NoUnlink(p) \/ Unlink(p) \/ LockVictim(p) \/ NotEmpty(p) \/ NotEmptyDone(p)
  \/ UnlinkEntry(p) \/ UnlinkDone(p)
  \/ LinkOld(p) \/ Dirlink(p) \/ Taken(p) \/ LinkBad(p) \/ TakeBack(p)
  \/ sys_chdir(p)

Next == \E p \in Procs : PathCall(p) \/ sys_close(p) \/ exit(p) \/ Kernel(p)

Spec == Init /\ [][Next]_vars
-----------------------------------------------------------------------------
\* (nlink is a short; what it counts is LinksCounted's.)
TypeOK ==
  /\ \A i \in Inums :
       /\ dinode[i].type \in {"free", "dir", "file", "dev"}
       /\ dinode[i].nlink \in Int
       /\ dinode[i].ents \in [DirNames -> Inums \cup {None}]
       /\ dinode[i].type # "dir" => \A n \in Names : dinode[i].ents[n] = None
  /\ \A s \in Slots :
       /\ icache[s].ref \in Nat /\ icache[s].nlink \in Int
       /\ icache[s].lock \in Procs \cup {NoProc}
       /\ icache[s].ref > 0 => icache[s].inum \in Inums
  /\ cwd \in [Procs -> Slots \cup {None}] /\ fd \in [Procs -> Slots \cup {None}]
  /\ calls \in 0..CALLS

\* Two entries of one inode would have two locks.
OneEntry ==
  \A s, t \in Slots : icache[s].ref > 0 /\ icache[t].ref > 0
    /\ icache[s].inum = icache[t].inum => s = t

\* Where a process keeps references: current directory, open file, the two that
\* its call uses, and what it has still to put.
WithIp ==
  {"namex", "namei", "found", "open", "create", "made", "new", "fill", "done",
   "unlink", "victim", "both", "full", "link", "dirlink", "taken", "chdir"}
WithObj ==
  {"namex", "namei", "found", "dirlink", "taken", "new", "fill", "victim", "both",
   "old", "exists", "victimless", "bad", "takeback"}
Places == {"cwd", "fd", "ip", "obj", "put", "next"}
Held(p, w) ==
  LET c == call[p]
  IN  CASE w = "cwd" -> cwd[p]
        [] w = "fd" -> fd[p]
        [] w = "ip" -> IF c.at \in WithIp THEN c.ip ELSE None
        [] w = "obj" -> IF c.at \in WithObj THEN c.obj ELSE None
        [] w = "put" -> IF Len(c.puts) > 0 THEN c.puts[1] ELSE None
        [] OTHER -> IF Len(c.puts) > 1 THEN c.puts[2] ELSE None
Holders(s) == {h \in Procs \X Places : Held(h[1], h[2]) = s}

\* An inode has one entry in the cache, and ip->ref counts what will be put:
\* current directories, open files, and what the calls in progress hold, on
\* every way out of them.
RefsExact ==
  /\ TypeOK
  /\ OneEntry
  /\ \A s \in Slots : icache[s].ref = Cardinality(Holders(s))

\* What is valid and not locked is what the disk says: a process that locks an
\* inode never sees one that was freed, or freed and allocated again.
CachedIsDisk ==
  \A s \in Slots : icache[s].ref > 0 /\ icache[s].valid /\ icache[s].lock = NoProc =>
    /\ icache[s].type = dinode[icache[s].inum].type
    /\ icache[s].nlink = dinode[icache[s].inum].nlink

\* An inode is not freed while a name leads to it, which it counts, and not
\* while a process has it as its current directory or open.
Links(i) ==
  {x \in Inums \X Names : dinode[x[1]].type = "dir" /\ dinode[x[1]].ents[x[2]] = i}
LinksCounted ==
  \A i \in Inums : LET links == Cardinality(Links(i)) IN
    /\ dinode[i].nlink >= links
    /\ links > 0 => dinode[i].type # "free"
InUse ==
  \A p \in Procs : \A s \in {cwd[p], fd[p]} \ {None} :
    dinode[icache[s].inum].type # "free"
KeptWhileNeeded == LinksCounted /\ InUse

\* The lock a process waits for.
Wanted(p) ==
  LET c == call[p]
  IN  CASE c.puts # <<>> /\ c.stage = "lock" -> Head(c.puts)
        [] c.puts = <<>> /\ c.at \in {"namex", "found"} -> c.ip
        [] c.puts = <<>> /\ c.at \in {"old", "new", "victim", "bad"} -> c.obj
        [] OTHER -> None
Deadlocked(D) ==
  D # {} /\ \A p \in D : Wanted(p) # None /\ icache[Wanted(p)].lock \in D
\* iput() of a directory by one who keeps the lock of what was just linked or
\* unlinked there, or of a name that is taken under the directory's own lock.
PutsUnderLock(p) ==
  call[p].puts # <<>> /\ call[p].at \in {"open", "done", "victimless", "taken"}

\* Processes wait for each other's inodes in one way only: create(), unlink() or
\* a failing link() puts a directory before it unlocks what is in it, and iput()
\* wants the directory's lock.  All other code locks a directory before what is
\* in it, or nothing else at all.
DeadlocksOnlyInPut ==
  \A D \in SUBSET Procs : Deadlocked(D) => \E p \in D : PutsUnderLock(p)
-----------------------------------------------------------------------------
\* What fs.c says of inodes and its code does not keep.

\* "iput() frees if the reference and link counts have fallen to zero"
\* (fs.c:119-120).  Violated: two iput()s each see the other's reference.
FreedWhenUnused ==
  \A i \in Inums :
    dinode[i].type # "free" /\ dinode[i].nlink = 0 =>
      \/ Cached(i) # {}
      \/ \E p \in Procs : call[p].at = "made" /\ call[p].obj = i

\* What a process locks is an inode in use (fs.c:310, "ilock: no type"): the
\* kernel stops for want of inodes only.  Violated: a directory that is removed
\* is freed though ".." of one that somebody is still in leads to it.
PanicsOnlyWhenFull == panic => FreeInums = {} \/ Unused = {}

\* Locking apart from getting "helps avoid deadlock" (fs.c:149).  Violated in the
\* way that DeadlocksOnlyInPut allows for.
NoDeadlock == \A D \in SUBSET Procs : ~Deadlocked(D)
=============================================================================
