-------------------------------- MODULE CowMem --------------------------------
(***************************************************************************)
(* User memory in p5: kalloc() and kfree() with reference counts, page     *)
(* tables, fork() that copies on write, the page fault handler, exec(),    *)
(* sbrk(), wmap() and wunmap() of anonymous memory, exit() and wait().     *)
(* Processes interleave inside fork(), page by page, and inside the fault  *)
(* handler; a handler that only takes frames for itself, or gives its own  *)
(* back, is one step.  The TLB agrees with the page table.                 *)
(***************************************************************************)
EXTENDS Integers, Sequences, FiniteSets, FiniteSetsExt

CONSTANTS NPROC, NFRAMES,
          NLOW,             \* bound: pages of the program; memory runs out
                            \* long before they reach the window
          NHIGH,            \* pages of the window of wmap()
          MAX_WMAPS,
          MAXREF,           \* bound: ref_count, which failed forks leave raised
          Image,            \* pages exec() loads: whether writable, and user's
          Grabs(_, _)       \* Grabs(S, n): the sequences of n free frames of S
                            \* that n calls of kalloc() may return

Procs == 1..NPROC
InitProc == 1
Frames == 1..NFRAMES
Low == 0..NLOW - 1
High == NLOW..NLOW + NHIGH - 1
Pages == Low \cup High
NIMAGE == Cardinality(DOMAIN Image)
None == -1

\* What a frame holds: the process that wrote it last, or what the kernel put
\* there: a page of the program, zeros, kfree()'s junk.
Text == NPROC + 1
Zero == 0
Junk == -1
Contents == Procs \cup {Text, Zero, Junk}
Fresh == [v \in 0..NIMAGE - 1 |-> Text]

ASSUME CowMemAssumption ==
  /\ NPROC \in Nat \ {0} /\ NFRAMES \in Nat /\ NLOW \in Nat /\ NHIGH \in Nat
  /\ MAX_WMAPS \in Nat /\ MAXREF \in Nat
  /\ NIMAGE \in 1..NLOW
  /\ Image \in [0..NIMAGE - 1 -> [w : BOOLEAN, u : BOOLEAN]]
  /\ NFRAMES >= 3 + NIMAGE
  /\ \A S \in SUBSET Frames : \A n \in 1..4 + NIMAGE :
       /\ \A s \in Grabs(S, n) : /\ s \in [1..n -> S]
                                 /\ \A i, j \in 1..n : s[i] = s[j] => i = j
       /\ Grabs(S, n) = {} <=> Cardinality(S) < n

VARIABLES
  free, ref, mem,   \* of frames: the free list, ref_count, the contents
  pt,               \* pt[p][v]: the entry of page v in p's page table
  kern,             \* kern[p]: the frames of p's kernel stack and page tables
  top,              \* sz, in pages
  maps,             \* wmap_regions: the pages of each mapping
  pc, parent,
  kid, at, new      \* locals: np of fork(), the page being copied, new_page

kmem == <<free, ref, mem>>
space == <<pt, kern, top, maps>>
locals == <<kid, at, new>>
vars == <<free, ref, mem, pt, kern, top, maps, pc, parent, kid, at, new>>

PTE == [frame : Frames \cup {0}, w : BOOLEAN, u : BOOLEAN, cow : BOOLEAN]
NoPTE == [frame |-> 0, w |-> FALSE, u |-> FALSE, cow |-> FALSE]
Mapped(f) == [frame |-> f, w |-> TRUE, u |-> TRUE, cow |-> FALSE]
NoPages == [v \in Pages |-> NoPTE]

\* dir stands for the directory and the tables of the kernel half.
Tables == {"dir", "low", "high"}
Kern == [{"stack"} \cup Tables -> Frames \cup {0}]
NoKern == [k \in {"stack"} \cup Tables |-> 0]
TableOf(v) == IF v \in Low THEN "low" ELSE "high"

TypeOK ==
  /\ free \subseteq Frames
  /\ ref \in [Frames -> Nat]
  /\ mem \in [Frames -> Contents]
  /\ pt \in [Procs -> [Pages -> PTE]]
  /\ kern \in [Procs -> Kern]
  /\ top \in [Procs -> 0..NLOW]
  /\ maps \in [Procs -> SUBSET SUBSET High]
  /\ pc \in [Procs -> {"unused", "embryo", "user", "fork", "fault", "killed",
                       "zombie"}]
  /\ parent \in [Procs -> Procs \cup {0}]
  /\ kid \in [Procs -> Procs \cup {0}]
  /\ at \in [Procs -> Pages \cup {None}]
  /\ new \in [Procs -> Frames \cup {0}]
-----------------------------------------------------------------------------
Present(p, v) == pt[p][v].frame # 0
UserFrames(p) == {pt[p][v].frame : v \in {w \in Pages : Present(p, w)}}
TableFrames(p) == {kern[p][k] : k \in Tables} \ {0}

\* The program in the frames of s: directory, table, pages.
Loaded(s) ==
  [v \in Pages |-> IF v < NIMAGE
                   THEN [frame |-> s[v + 3], w |-> Image[v].w,
                         u |-> Image[v].u, cow |-> FALSE]
                   ELSE NoPTE]
LoadedMem(s) ==
  [f \in Frames |-> IF \E i \in 1..NIMAGE : s[i + 2] = f THEN Text
                    ELSE IF f \in Range(s) THEN Zero ELSE mem[f]]

\* Boot, as far as init runs its program.
BootFrames == [i \in 1..2 + NIMAGE |-> i + 1]
Init ==
  /\ free = 4 + NIMAGE..NFRAMES
  /\ ref = [f \in Frames |-> IF f < 4 + NIMAGE THEN 1 ELSE 0]
  /\ mem = [f \in Frames |-> IF f \in 4..3 + NIMAGE THEN Text
                             ELSE IF f < 4 THEN Zero ELSE Junk]
  /\ pt = [p \in Procs |-> IF p = InitProc THEN Loaded(BootFrames) ELSE NoPages]
  /\ kern = [p \in Procs |->
       IF p = InitProc THEN [NoKern EXCEPT !.stack = 1, !.dir = 2, !.low = 3]
       ELSE NoKern]
  /\ top = [p \in Procs |-> IF p = InitProc THEN NIMAGE ELSE 0]
  /\ maps = [p \in Procs |-> {}]
  /\ pc = [p \in Procs |-> IF p = InitProc THEN "user" ELSE "unused"]
  /\ parent = [p \in Procs |-> 0]
  /\ kid = [p \in Procs |-> 0]
  /\ at = [p \in Procs |-> None]
  /\ new = [p \in Procs |-> 0]
-----------------------------------------------------------------------------
\* kalloc() hands out the frames of s, cleared.
kalloc(s) ==
  /\ free' = free \ Range(s)
  /\ ref' = [f \in Frames |-> IF f \in Range(s) THEN 1 ELSE ref[f]]
  /\ mem' = [f \in Frames |-> IF f \in Range(s) THEN Zero ELSE mem[f]]

\* kfree() on each frame of S, from the free list fr and the counts rf.
Released(rf, S) == {f \in S : rf[f] <= 1}
Counts(rf, S) ==
  [f \in Frames |-> IF f \in S /\ rf[f] > 0 THEN rf[f] - 1 ELSE rf[f]]
kfree(fr, rf, S) ==
  /\ free' = fr \cup Released(rf, S)
  /\ ref' = Counts(rf, S)
  /\ mem' = [f \in Frames |-> IF f \in Released(rf, S) THEN Junk ELSE mem[f]]

\* freevm(): every page, the tables, the directory.
freevm(p) == UserFrames(p) \cup TableFrames(p)
-----------------------------------------------------------------------------
\* fork(): allocproc() takes the kernel stack,
ForkStack(p, c) ==
  /\ pc[p] = "user" /\ pc[c] = "unused"
  /\ \A d \in Procs : d < c => pc[d] # "unused"
  /\ \A f \in UserFrames(p) : ref[f] < MAXREF
  /\ \E s \in Grabs(free, 1) :
       /\ kalloc(s)
       /\ kern' = [kern EXCEPT ![c].stack = s[1]]
  /\ pc' = [pc EXCEPT ![p] = "fork", ![c] = "embryo"]
  /\ kid' = [kid EXCEPT ![p] = c]
  /\ UNCHANGED <<pt, top, maps, parent, at, new>>

\* copyuvm() a directory,
FirstFrom(p, v) ==
  LET W == {w \in Pages : w >= v /\ Present(p, w)}
  IN  IF W = {} THEN None ELSE Min(W)
ForkDir(p) ==
  LET c == kid[p]
  IN  /\ pc[p] = "fork" /\ kern[c].dir = 0
      /\ \E s \in Grabs(free, 1) :
           /\ kalloc(s)
           /\ kern' = [kern EXCEPT ![c].dir = s[1]]
      /\ at' = [at EXCEPT ![p] = FirstFrom(p, 0)]
      /\ UNCHANGED <<pt, top, maps, pc, parent, kid, new>>

\* and page after page is shared: its count goes up, the parent's entry loses
\* PTE_W for PTE_COW, and the child's is made so.
\* (Mutants: the page is not counted; the parent may go on writing.)
SharedUncounted(rf, f) == rf
Shared(rf, f) == [rf EXCEPT ![f] = @ + 1]
Unprotected(e) == e
Protected(e) == [e EXCEPT !.w = FALSE, !.cow = e.cow \/ e.w]
ChildEntry(e) == [e EXCEPT !.w = FALSE, !.cow = TRUE]
NeedsTable(c, v) == kern[c][TableOf(v)] = 0

CopyPage(p) ==
  LET c == kid[p]
      v == at[p]
      f == pt[p][v].frame
  IN  /\ pc[p] = "fork" /\ v # None
      /\ \/ /\ ~NeedsTable(c, v)
            /\ ref' = Shared(ref, f)
            /\ UNCHANGED <<free, mem, kern>>
         \/ /\ NeedsTable(c, v)
            /\ \E s \in Grabs(free, 1) :
                 /\ free' = free \ {s[1]}
                 /\ ref' = [Shared(ref, f) EXCEPT ![s[1]] = 1]
                 /\ mem' = [mem EXCEPT ![s[1]] = Zero]
                 /\ kern' = [kern EXCEPT ![c][TableOf(v)] = s[1]]
      /\ pt' = [pt EXCEPT ![p][v] = Protected(@),
                           ![c][v] = ChildEntry(pt[p][v])]
      /\ at' = [at EXCEPT ![p] = FirstFrom(p, v + 1)]
      /\ UNCHANGED <<top, maps, pc, parent, kid, new>>

\* No frame for the directory or a table of the child: fork() gives up.  The
\* page at hand has been counted for the child, and stays counted.
ForkFails(p) ==
  LET c == kid[p]
      v == at[p]
      counted == IF v = None THEN ref ELSE Shared(ref, pt[p][v].frame)
  IN  /\ pc[p] = "fork" /\ free = {}
      /\ \/ kern[c].dir = 0
         \/ v # None /\ NeedsTable(c, v)
      /\ kfree(free, counted, freevm(c) \cup {kern[c].stack})
      /\ pt' = [q \in Procs |->
           IF q = c THEN NoPages
           ELSE IF q = p /\ v # None THEN [pt[p] EXCEPT ![v] = Protected(@)]
           ELSE pt[q]]
      /\ kern' = [kern EXCEPT ![c] = NoKern]
      /\ pc' = [pc EXCEPT ![p] = "user", ![c] = "unused"]
      /\ kid' = [kid EXCEPT ![p] = 0]
      /\ at' = [at EXCEPT ![p] = None]
      /\ UNCHANGED <<top, maps, parent, new>>

\* The mappings are copied, and the child runs.
ForkDone(p) ==
  LET c == kid[p]
  IN  /\ pc[p] = "fork" /\ kern[c].dir # 0 /\ at[p] = None
      /\ top' = [top EXCEPT ![c] = top[p]]
      /\ maps' = [maps EXCEPT ![c] = maps[p]]
      /\ parent' = [parent EXCEPT ![c] = p]
      /\ pc' = [pc EXCEPT ![p] = "user", ![c] = "user"]
      /\ kid' = [kid EXCEPT ![p] = 0]
      /\ UNCHANGED <<kmem, pt, kern, at, new>>
-----------------------------------------------------------------------------
\* A program writes to a page it may write.
Write(p, v) ==
  /\ pc[p] = "user"
  /\ Present(p, v) /\ pt[p][v].w /\ pt[p][v].u
  /\ mem' = [mem EXCEPT ![pt[p][v].frame] = p]
  /\ UNCHANGED <<free, ref, space, pc, parent, locals>>

Killed(p) ==
  /\ pc' = [pc EXCEPT ![p] = "killed"]
  /\ UNCHANGED <<kmem, space, parent, locals>>

\* trap(), T_PGFLT: a page with PTE_COW is copied to a frame of its own,
\* (Mutant: the frame stays as kalloc() gave it.)
NotCopied(f, g) == [mem EXCEPT ![g] = Zero]
Copied(f, g) == [mem EXCEPT ![g] = mem[f]]
CowFault(p, v) ==
  /\ pc[p] = "user" /\ pt[p][v].cow
  /\ \E s \in Grabs(free, 1) :
       /\ free' = free \ {s[1]}
       /\ ref' = [ref EXCEPT ![s[1]] = 1]
       /\ mem' = Copied(pt[p][v].frame, s[1])
       /\ new' = [new EXCEPT ![p] = s[1]]
  /\ at' = [at EXCEPT ![p] = v]
  /\ pc' = [pc EXCEPT ![p] = "fault"]
  /\ UNCHANGED <<space, parent, kid>>

\* the count of the old one goes down, under a lock of its own, and the entry
\* changes.
CowSwitch(p) ==
  LET f == pt[p][at[p]].frame
  IN  /\ pc[p] = "fault"
      /\ ref' = [ref EXCEPT ![f] = @ - 1]
      /\ pt' = [pt EXCEPT ![p][at[p]] = Mapped(new[p])]
      /\ new' = [new EXCEPT ![p] = 0]
      /\ at' = [at EXCEPT ![p] = None]
      /\ pc' = [pc EXCEPT ![p] = "user"]
      /\ UNCHANGED <<free, mem, kern, top, maps, parent, kid>>

\* a page of a mapping is touched for the first time.
InRegion(p, v) == \E m \in maps[p] : v \in m
LazyFault(p, v) ==
  /\ pc[p] = "user" /\ ~Present(p, v) /\ InRegion(p, v)
  /\ \E s \in Grabs(free, IF NeedsTable(p, v) THEN 2 ELSE 1) :
       /\ kalloc(s)
       /\ pt' = [pt EXCEPT ![p][v] = Mapped(s[1])]
       /\ kern' = IF NeedsTable(p, v)
                  THEN [kern EXCEPT ![p][TableOf(v)] = s[2]] ELSE kern
  /\ UNCHANGED <<top, maps, pc, parent, locals>>

\* Neither: a segmentation fault; or memory has run out.
SegFault(p, v) ==
  /\ pc[p] = "user"
  /\ ~pt[p][v].cow /\ ~InRegion(p, v)
  /\ ~(Present(p, v) /\ pt[p][v].w /\ pt[p][v].u)
  /\ Killed(p)
OutOfMemory(p, v) ==
  /\ pc[p] = "user"
  /\ \/ pt[p][v].cow /\ free = {}
     \/ /\ ~Present(p, v) /\ InRegion(p, v)
        /\ Cardinality(free) < IF NeedsTable(p, v) THEN 2 ELSE 1
  /\ Killed(p)
-----------------------------------------------------------------------------
\* growproc() by a page, either way, above what exec() loaded.
SbrkGrow(p) ==
  /\ pc[p] = "user" /\ top[p] < NLOW
  /\ \E s \in Grabs(free, 1) :
       /\ kalloc(s)
       /\ pt' = [pt EXCEPT ![p][top[p]] = Mapped(s[1])]
  /\ top' = [top EXCEPT ![p] = @ + 1]
  /\ UNCHANGED <<kern, maps, pc, parent, locals>>
SbrkShrink(p) ==
  /\ pc[p] = "user" /\ top[p] > NIMAGE
  /\ kfree(free, ref, {pt[p][top[p] - 1].frame})
  /\ pt' = [pt EXCEPT ![p][top[p] - 1] = NoPTE]
  /\ top' = [top EXCEPT ![p] = @ - 1]
  /\ UNCHANGED <<kern, maps, pc, parent, locals>>

\* wmap() takes no frames; wunmap() gives back those its pages have got.
wmap(p, m) ==
  /\ pc[p] = "user"
  /\ Cardinality(maps[p]) < MAX_WMAPS
  /\ \A o \in maps[p] : m \cap o = {}
  /\ maps' = [maps EXCEPT ![p] = @ \cup {m}]
  /\ UNCHANGED <<kmem, pt, kern, top, pc, parent, locals>>
FramesOf(p, W) == {pt[p][v].frame : v \in {w \in W : Present(p, w)}}
Without(p, W) == [v \in Pages |-> IF v \in W THEN NoPTE ELSE pt[p][v]]
wunmap(p, m) ==
  /\ pc[p] = "user" /\ m \in maps[p]
  /\ kfree(free, ref, FramesOf(p, m))
  /\ pt' = [pt EXCEPT ![p] = Without(p, m)]
  /\ maps' = [maps EXCEPT ![p] = @ \ {m}]
  /\ UNCHANGED <<kern, top, pc, parent, locals>>

\* exec() builds the new memory before it frees the old; the mappings stay in
\* wmap_regions, with no pages.
Exec(p) ==
  /\ pc[p] = "user"
  /\ \E s \in Grabs(free, 2 + NIMAGE) :
       /\ free' = (free \ Range(s)) \cup Released(ref, freevm(p))
       /\ ref' = [f \in Frames |-> IF f \in Range(s) THEN 1
                                   ELSE Counts(ref, freevm(p))[f]]
       /\ mem' = [f \in Frames |-> IF f \in Released(ref, freevm(p)) THEN Junk
                                   ELSE LoadedMem(s)[f]]
       /\ pt' = [pt EXCEPT ![p] = Loaded(s)]
       /\ kern' = [kern EXCEPT ![p].dir = s[1], ![p].low = s[2], ![p].high = 0]
  /\ top' = [top EXCEPT ![p] = NIMAGE]
  /\ UNCHANGED <<maps, pc, parent, locals>>
-----------------------------------------------------------------------------
\* exit() removes the mappings; the rest stays for wait().
Exit(p) ==
  LET W == UNION maps[p]
  IN  /\ pc[p] \in {"user", "killed"} /\ p # InitProc
      /\ kfree(free, ref, FramesOf(p, W))
      /\ pt' = [pt EXCEPT ![p] = Without(p, W)]
      /\ maps' = [maps EXCEPT ![p] = {}]
      /\ parent' = [c \in Procs |->
                      IF parent[c] = p THEN InitProc ELSE parent[c]]
      /\ pc' = [pc EXCEPT ![p] = "zombie"]
      /\ UNCHANGED <<kern, top, locals>>

Reap(p, c) ==
  /\ pc[p] = "user" /\ parent[c] = p /\ pc[c] = "zombie"
  /\ kfree(free, ref, freevm(c) \cup {kern[c].stack})
  /\ pt' = [pt EXCEPT ![c] = NoPages]
  /\ kern' = [kern EXCEPT ![c] = NoKern]
  /\ top' = [top EXCEPT ![c] = 0]
  /\ parent' = [parent EXCEPT ![c] = 0]
  /\ pc' = [pc EXCEPT ![c] = "unused"]
  /\ UNCHANGED <<maps, locals>>

\* The windows wmap() is asked for: any run of pages.
Windows == {l..h : l, h \in High} \ {{}}

\* When init is killed, exit() panics: nothing runs any more.
Next ==
  /\ pc[InitProc] # "killed"
  /\ \E p \in Procs :
       \/ \E c \in Procs : ForkStack(p, c) \/ Reap(p, c)
       \/ ForkDir(p) \/ CopyPage(p) \/ ForkFails(p) \/ ForkDone(p)
       \/ \E v \in Pages :
            \/ Write(p, v)
            \/ CowFault(p, v) \/ LazyFault(p, v)
            \/ SegFault(p, v) \/ OutOfMemory(p, v)
       \/ CowSwitch(p)
       \/ SbrkGrow(p) \/ SbrkShrink(p)
       \/ \E m \in Windows : wmap(p, m) \/ wunmap(p, m)
       \/ Exec(p)
       \/ Exit(p)

Spec == Init /\ [][Next]_vars
-----------------------------------------------------------------------------
Holders(f) == {h \in Procs \X Pages : pt[h[1]][h[2]].frame = f}

\* What the kernel keeps frames for: its stacks and tables, and the page a
\* fault is filling.
Uses == {u \in Procs \X DOMAIN NoKern : kern[u[1]][u[2]] # 0}
          \cup {<<p, "new">> : p \in {q \in Procs : new[q] # 0}}
FrameOf(u) == IF u[2] = "new" THEN new[u[1]] ELSE kern[u[1]][u[2]]
KernelFrames == {FrameOf(u) : u \in Uses}

\* No frame has fewer counts than entries that map it, through forks that fail
\* and faults and exits in the middle of them: what is freed is mapped nowhere.
CountCoversHolders ==
  /\ TypeOK
  /\ \A p \in Procs : \A f \in UserFrames(p) :
       f \notin free /\ Cardinality(Holders(f)) <= ref[f]
  /\ KernelFrames \cap free = {}

\* A page that its process can write is in no other page table, so that it was
\* safe to make it writable, and the kernel shares its frames with nobody.  (The
\* pages of mappings are no exception here; see SharedVisible.)
WritersAlone ==
  /\ \A p \in Procs, v \in Pages :
       pt[p][v].w => Holders(pt[p][v].frame) = {<<p, v>>}
  /\ Cardinality(KernelFrames) = Cardinality(Uses)
  /\ \A p \in Procs : KernelFrames \cap UserFrames(p) = {}

\* Copy on write cannot be told from copying: each running process has a memory
\* of its own - code, data, stack and heap -, copied at once by fork(), that only
\* its own steps change.  Mappings, which are MAP_SHARED, are left out.
Memory ==
  [p \in Procs |->
     IF pc[p] \in {"unused", "embryo", "zombie"} THEN [v \in {} |-> Zero]
     ELSE [v \in {w \in Low : Present(p, w)} |-> mem[pt[p][v].frame]]]
PM == INSTANCE PrivateMemory WITH memory <- Memory, Pages <- Low
PrivateMemory == PM!Spec

\* A mapping that fork() copies is shared: "changes made by the child will be
\* visible to the parent and vice versa" (p5/README.md:72).  Violated: copyuvm()
\* protects and copies its pages like all others.
SharedVisible ==
  \A c \in Procs :
    LET p == parent[c]
    IN  p # 0 /\ pc[p] = "user" /\ pc[c] = "user" =>
          \A m \in maps[p] \cap maps[c] : \A v \in m :
            Present(p, v) /\ Present(c, v) =>
              mem[pt[p][v].frame] = mem[pt[c][v].frame]

\* A page that exec() loads read-only stays so: "if the page was initially
\* read-only [...] you should not make it writable" (p5/README.md:214).
\* Violated: the child's entries get PTE_COW whatever the parent's were.
ReadOnlyStays ==
  \A p \in Procs, v \in DOMAIN Image : ~Image[v].w => ~pt[p][v].w

=============================================================================
