---------------------------- MODULE CowMemProofs ----------------------------
(***************************************************************************)
(* Safety of copy on write for any number of processes, frames and pages.  *)
(***************************************************************************)
EXTENDS CowMem, FiniteSetTheorems, TLAPS

\* What the assumption on the constants says of the ranges.
LEMMA Numbers ==
  /\ NPROC \in Nat \ {0} /\ NFRAMES \in Nat /\ NLOW \in Nat /\ NHIGH \in Nat
  /\ NIMAGE \in Nat \ {0} /\ NIMAGE <= NLOW /\ NFRAMES >= 3 + NIMAGE
  /\ 0 \notin Frames /\ Frames \subseteq Nat
  /\ None \notin Pages /\ Pages \subseteq Nat
  /\ Pages = 0..NLOW + NHIGH - 1
  /\ Low \subseteq Pages /\ Low \cap High = {}
  /\ InitProc \in Procs /\ 0 \notin Procs /\ Procs \subseteq Nat
<1> HIDE DEF NIMAGE
<1>1. NIMAGE \in 1..NLOW
  BY CowMemAssumption
<1> QED
  BY <1>1, CowMemAssumption
     DEF Frames, None, Pages, Low, High, InitProc, Procs

\* What one call and two calls of kalloc() return.
LEMMA GrabbedOne ==
  ASSUME NEW S \in SUBSET Frames, NEW s \in Grabs(S, 1)
  PROVE  s[1] \in S /\ Range(s) = {s[1]}
<1> HIDE DEF NIMAGE
<1>1. 1 \in 1..4 + NIMAGE
  BY Numbers
<1>2. s \in [1..1 -> S]
  BY <1>1, CowMemAssumption
<1> QED
  BY <1>2 DEF Range

LEMMA GrabbedTwo ==
  ASSUME NEW S \in SUBSET Frames, NEW s \in Grabs(S, 2)
  PROVE  s[1] \in S /\ s[2] \in S /\ s[1] # s[2] /\ Range(s) = {s[1], s[2]}
<1> HIDE DEF NIMAGE
<1>1. ASSUME NEW n \in 1..4 + NIMAGE, n = 2, NEW r \in Grabs(S, n)
      PROVE  r[1] \in S /\ r[2] \in S /\ r[1] # r[2] /\ Range(r) = {r[1], r[2]}
  <2>1. /\ r \in [1..n -> S]
        /\ \A i, j \in 1..n : r[i] = r[j] => i = j
    BY CowMemAssumption
  <2> QED
    BY <1>1, <2>1 DEF Range
<1>2. 2 \in 1..4 + NIMAGE
  BY Numbers
<1> QED
  BY <1>1, <1>2

\* The lowest page of a set of pages.
LEMMA LeastPage ==
  ASSUME NEW W \in SUBSET Nat, W # {}
  PROVE  Min(W) \in W /\ \A w \in W : Min(W) <= w
<1>1. PICK m \in W : \A w \in W : m <= w
  <2>1. IsWellFoundedOn(OpToRel(<, Nat), Nat)
    BY NatLessThanWellFounded
  <2>2. PICK m \in W : \A y \in W : ~(<<y, m>> \in OpToRel(<, Nat))
    BY <2>1, WFMin
  <2>3. \A y \in W : ~(y < m)
    BY <2>2 DEF OpToRel
  <2> QED
    BY <2>3
<1> QED
  BY <1>1 DEF Min
-----------------------------------------------------------------------------
\* The pages that map a frame, in any page tables.
HoldersIn(t, f) == {h \in Procs \X Pages : t[h[1]][h[2]].frame = f}
PageTables == [Procs -> [Pages -> PTE]]

LEMMA HoldersFinite ==
  ASSUME NEW t, NEW f
  PROVE  /\ IsFiniteSet(HoldersIn(t, f))
         /\ Cardinality(HoldersIn(t, f)) \in Nat
         /\ Cardinality(HoldersIn(t, f)) = 0 <=> HoldersIn(t, f) = {}
<1>1. IsFiniteSet(Procs) /\ IsFiniteSet(Pages)
  BY Numbers, FS_Interval DEF Procs
<1>2. IsFiniteSet(Procs \X Pages)
  BY <1>1, FS_Product
<1>3. HoldersIn(t, f) \in SUBSET (Procs \X Pages)
  BY DEF HoldersIn
<1>4. IsFiniteSet(HoldersIn(t, f))
  BY <1>2, <1>3, FS_Subset
<1> QED
  BY <1>4, FS_CardinalityType, FS_EmptySet

\* Fewer pages map it, one page fewer does, one page more may.
LEMMA HoldersFewer ==
  ASSUME NEW t, NEW u, NEW f, NEW g, HoldersIn(u, g) \subseteq HoldersIn(t, f)
  PROVE  Cardinality(HoldersIn(u, g)) <= Cardinality(HoldersIn(t, f))
BY HoldersFinite, FS_Subset

LEMMA HoldersLost ==
  ASSUME NEW t, NEW u, NEW f, HoldersIn(u, f) \subseteq HoldersIn(t, f),
         NEW h \in HoldersIn(t, f), h \notin HoldersIn(u, f)
  PROVE  Cardinality(HoldersIn(u, f)) <= Cardinality(HoldersIn(t, f)) - 1
<1>1. IsFiniteSet(HoldersIn(t, f) \ {h})
      /\ Cardinality(HoldersIn(t, f) \ {h}) = Cardinality(HoldersIn(t, f)) - 1
  BY HoldersFinite, FS_RemoveElement
<1>2. HoldersIn(u, f) \in SUBSET (HoldersIn(t, f) \ {h})
  OBVIOUS
<1> QED
  BY <1>1, <1>2, FS_Subset

LEMMA HoldersMore ==
  ASSUME NEW t, NEW u, NEW f, NEW h,
         HoldersIn(u, f) \subseteq HoldersIn(t, f) \cup {h}
  PROVE  Cardinality(HoldersIn(u, f)) <= Cardinality(HoldersIn(t, f)) + 1
<1>1. IsFiniteSet(HoldersIn(t, f) \cup {h})
      /\ Cardinality(HoldersIn(t, f) \cup {h}) <= Cardinality(HoldersIn(t, f)) + 1
  BY HoldersFinite, FS_AddElement
<1>2. HoldersIn(u, f) \in SUBSET (HoldersIn(t, f) \cup {h})
  OBVIOUS
<1>3. Cardinality(HoldersIn(u, f)) <= Cardinality(HoldersIn(t, f) \cup {h})
  BY <1>1, <1>2, FS_Subset
<1>4. Cardinality(HoldersIn(t, f) \cup {h}) \in Nat
  BY <1>1, FS_CardinalityType
<1> QED
  BY <1>1, <1>3, <1>4, HoldersFinite

LEMMA HoldersSingle ==
  ASSUME NEW t, NEW f,
         \A q, r \in Procs, v, w \in Pages :
           t[q][v].frame = f /\ t[r][w].frame = f => q = r /\ v = w
  PROVE  Cardinality(HoldersIn(t, f)) <= 1
<1>1. CASE HoldersIn(t, f) = {}
  BY <1>1, FS_EmptySet
<1>2. CASE HoldersIn(t, f) # {}
  <2>1. PICK h \in HoldersIn(t, f) : TRUE
    BY <1>2
  <2>2. h \in Procs \X Pages /\ t[h[1]][h[2]].frame = f
    BY <2>1 DEF HoldersIn
  <2>3. ASSUME NEW g \in HoldersIn(t, f) PROVE g = h
    <3>1. g \in Procs \X Pages /\ t[g[1]][g[2]].frame = f
      BY DEF HoldersIn
    <3>2. g[1] = h[1] /\ g[2] = h[2]
      BY <2>2, <3>1
    <3> QED
      BY <2>2, <3>1, <3>2
  <2>4. HoldersIn(t, f) = {h}
    BY <2>1, <2>3
  <2>5. Cardinality({h}) = 1
    BY FS_Singleton
  <2> QED
    BY <2>4, <2>5
<1> QED
  BY <1>1, <1>2

\* No count is less than the entries; entries are only emptied; and each frame
\* of S that is mapped is mapped once less.
Covers(rf, t) == \A f \in Frames : Cardinality(HoldersIn(t, f)) <= rf[f]
OnlyEmptied(t, u) ==
  \A p \in Procs, v \in Pages :
    u[p][v].frame = t[p][v].frame \/ u[p][v].frame = 0
EachLoses(t, u, S) ==
  \A f \in S, p \in Procs, v \in Pages : t[p][v].frame = f =>
    \E q \in Procs, w \in Pages : t[q][w].frame = f /\ u[q][w].frame # f

\* kfree() of the frames of S: the counts still cover the entries, and what is
\* released is mapped nowhere.
LEMMA FreeSafe ==
  ASSUME NEW t, NEW u, NEW rf \in [Frames -> Nat],
         NEW S \in SUBSET Frames,
         Covers(rf, t), OnlyEmptied(t, u), EachLoses(t, u, S)
  PROVE  /\ Counts(rf, S) \in [Frames -> Nat]
         /\ Released(rf, S) \subseteq S
         /\ Covers(Counts(rf, S), u)
         /\ \A f \in Released(rf, S) : HoldersIn(u, f) = {}
<1>1. Counts(rf, S) \in [Frames -> Nat]
  BY DEF Counts
<1>2. Released(rf, S) \subseteq S
  BY DEF Released
<1>3. ASSUME NEW f \in Frames
      PROVE  HoldersIn(u, f) \subseteq HoldersIn(t, f)
  <2>1. f # 0
    BY Numbers
  <2>2. ASSUME NEW h \in HoldersIn(u, f) PROVE h \in HoldersIn(t, f)
    <3>1. h[1] \in Procs /\ h[2] \in Pages /\ h \in Procs \X Pages
      BY DEF HoldersIn
    <3>2. u[h[1]][h[2]].frame = f
      BY DEF HoldersIn
    <3>3. t[h[1]][h[2]].frame = f
      BY <2>1, <3>1, <3>2 DEF OnlyEmptied
    <3> QED
      BY <3>1, <3>3 DEF HoldersIn
  <2> QED
    BY <2>2
<1>4. ASSUME NEW f \in S
      PROVE  \/ HoldersIn(u, f) = {}
             \/ Cardinality(HoldersIn(u, f)) <= Cardinality(HoldersIn(t, f)) - 1
  <2>1. CASE HoldersIn(t, f) = {}
    BY <1>3, <2>1
  <2>2. CASE HoldersIn(t, f) # {}
    <3>1. PICK q \in Procs, w \in Pages : t[q][w].frame = f /\ u[q][w].frame # f
      BY <2>2 DEF HoldersIn, EachLoses
    <3>2. <<q, w>> \in HoldersIn(t, f) /\ <<q, w>> \notin HoldersIn(u, f)
      BY <3>1 DEF HoldersIn
    <3> QED
      BY <3>2, <1>3, HoldersLost
  <2> QED
    BY <2>1, <2>2
<1>5. ASSUME NEW f \in Frames
      PROVE  Cardinality(HoldersIn(u, f)) <= Counts(rf, S)[f]
  <2>1. Cardinality(HoldersIn(u, f)) <= Cardinality(HoldersIn(t, f))
    BY <1>3, HoldersFewer
  <2>2. Cardinality(HoldersIn(t, f)) <= rf[f] /\ rf[f] \in Nat
    BY DEF Covers
  <2>3. /\ Cardinality(HoldersIn(t, f)) \in Nat
        /\ Cardinality(HoldersIn(u, f)) \in Nat
        /\ Cardinality(HoldersIn(u, f)) = 0 <=> HoldersIn(u, f) = {}
    BY HoldersFinite
  <2>4. Counts(rf, S)[f] = IF f \in S /\ rf[f] > 0 THEN rf[f] - 1 ELSE rf[f]
    BY DEF Counts
  <2>5. CASE f \in S /\ rf[f] > 0
    BY <1>4, <2>2, <2>3, <2>4, <2>5
  <2>6. CASE ~(f \in S /\ rf[f] > 0)
    BY <2>1, <2>2, <2>3, <2>4, <2>6
  <2> QED
    BY <2>5, <2>6
<1>6. ASSUME NEW f \in Released(rf, S) PROVE HoldersIn(u, f) = {}
  <2>1. f \in S /\ rf[f] <= 1 /\ rf[f] \in Nat
    BY DEF Released
  <2>2. Cardinality(HoldersIn(t, f)) <= rf[f]
    BY <2>1 DEF Covers
  <2> QED
    BY <1>4, <2>1, <2>2, HoldersFinite
<1> QED
  BY <1>1, <1>2, <1>5, <1>6 DEF Covers
-----------------------------------------------------------------------------
LEMMA TypeInit == Init => TypeOK
<1> HIDE DEF NIMAGE
<1> SUFFICES ASSUME Init PROVE TypeOK
  OBVIOUS
<1>1. free \subseteq Frames
  BY Numbers DEF Init, Frames
<1>2. ref \in [Frames -> Nat] /\ mem \in [Frames -> Contents]
  BY Numbers DEF Init, Contents
<1>3. pt \in [Procs -> [Pages -> PTE]]
  <2>1. Loaded(BootFrames) \in [Pages -> PTE]
    <3>1. \A v \in Pages : v < NIMAGE =>
            BootFrames[v + 3] \in Frames /\ Image[v] \in [w : BOOLEAN, u : BOOLEAN]
      BY Numbers, CowMemAssumption DEF BootFrames, Frames
    <3> QED
      BY <3>1 DEF Loaded, PTE, NoPTE
  <2> QED
    BY <2>1 DEF Init, PTE, NoPages, NoPTE
<1>4. kern \in [Procs -> Kern]
  <2>1. NoKern \in Kern
    BY DEF Kern, NoKern
  <2>2. 1 \in Frames /\ 2 \in Frames /\ 3 \in Frames
    BY Numbers DEF Frames
  <2>3. [NoKern EXCEPT !.stack = 1, !.dir = 2, !.low = 3] \in Kern
    BY <2>1, <2>2 DEF Kern
  <2> QED
    BY <2>1, <2>3 DEF Init
<1>5. top \in [Procs -> 0..NLOW] /\ maps \in [Procs -> SUBSET SUBSET High]
  BY Numbers DEF Init
<1>6. /\ pc \in [Procs -> {"unused", "embryo", "user", "fork", "fault", "killed",
                       "zombie"}]
      /\ parent \in [Procs -> Procs \cup {0}]
      /\ kid \in [Procs -> Procs \cup {0}]
      /\ at \in [Procs -> Pages \cup {None}]
      /\ new \in [Procs -> Frames \cup {0}]
  BY Numbers DEF Init
<1> QED
  BY <1>1, <1>2, <1>3, <1>4, <1>5, <1>6 DEF TypeOK

\* The frames of a process are frames, and its kernel's are.
LEMMA FramesOfPages ==
  ASSUME TypeOK
  PROVE  /\ \A p \in Procs, v \in Pages :
              /\ pt[p][v].frame \in Frames \cup {0}
              /\ pt[p][v] \in PTE
         /\ \A p \in Procs : /\ UserFrames(p) \subseteq Frames
                             /\ TableFrames(p) \subseteq Frames
                             /\ freevm(p) \subseteq Frames
         /\ \A p \in Procs : \A k \in {"stack"} \cup Tables :
              kern[p][k] \in Frames \cup {0}
         /\ \A p \in Procs : \A W \in SUBSET Pages : FramesOf(p, W) \subseteq Frames
<1>1. ASSUME NEW p \in Procs, NEW v \in Pages
      PROVE  pt[p][v].frame \in Frames \cup {0} /\ pt[p][v] \in PTE
  BY DEF TypeOK, PTE
<1>2. ASSUME NEW p \in Procs, NEW k \in {"stack"} \cup Tables
      PROVE  kern[p][k] \in Frames \cup {0}
  BY DEF TypeOK, Kern
<1>3. ASSUME NEW p \in Procs
      PROVE  UserFrames(p) \subseteq Frames /\ TableFrames(p) \subseteq Frames
  BY <1>1, <1>2 DEF UserFrames, TableFrames, Present
<1>4. ASSUME NEW p \in Procs, NEW W \in SUBSET Pages
      PROVE  FramesOf(p, W) \subseteq Frames
  BY <1>1 DEF FramesOf, Present
<1> QED
  BY <1>1, <1>2, <1>3, <1>4 DEF freevm

\* The frames kalloc() hands out keep their types.
LEMMA KallocType ==
  ASSUME TypeOK, NEW s, kalloc(s)
  PROVE  /\ free' \subseteq Frames /\ ref' \in [Frames -> Nat]
         /\ mem' \in [Frames -> Contents]
BY DEF kalloc, TypeOK, Contents

LEMMA FirstFromType ==
  ASSUME NEW p \in Procs, NEW v \in Nat
  PROVE  \/ FirstFrom(p, v) = None /\ \A w \in Pages : w >= v => ~Present(p, w)
         \/ /\ FirstFrom(p, v) \in Pages /\ FirstFrom(p, v) >= v
            /\ Present(p, FirstFrom(p, v))
            /\ \A w \in Pages : w >= v /\ w < FirstFrom(p, v) => ~Present(p, w)
<1> DEFINE W == {w \in Pages : w >= v /\ Present(p, w)}
<1>1. CASE W = {}
  BY <1>1 DEF FirstFrom
<1>2. CASE W # {}
  <2>1. W \in SUBSET Nat
    BY Numbers
  <2>2. Min(W) \in W /\ \A w \in W : Min(W) <= w
    BY <1>2, <2>1, LeastPage
  <2>3. FirstFrom(p, v) = Min(W)
    BY <1>2 DEF FirstFrom
  <2>4. ASSUME NEW w \in Pages, w >= v, w < Min(W) PROVE ~Present(p, w)
    BY <2>1, <2>2, <2>4, Numbers
  <2> QED
    BY <2>2, <2>3, <2>4
<1> QED
  BY <1>1, <1>2
-----------------------------------------------------------------------------
(***************************************************************************)
(* The invariant that a step preserves.                                    *)
(***************************************************************************)
Parts == {"stack"} \cup Tables
Running(p) == pc[p] \notin {"unused", "embryo", "zombie"}

\* An entry with a flag has a frame; no entry has a frame of the free list.
LiveEntries ==
  \A p \in Procs, v \in Pages :
    /\ pt[p][v].cow \/ pt[p][v].w => Present(p, v)
    /\ pt[p][v].frame \notin free

\* The count of a frame is no less than its entries.
Counted == Covers(ref, pt)

\* The stack and the tables of a process, and the page its fault is filling,
\* are in no page table, not free, and nobody else's.
KernelsApart ==
  /\ \A p, q \in Procs, k, l \in Parts :
       kern[p][k] # 0 /\ kern[p][k] = kern[q][l] => p = q /\ k = l
  /\ \A p, q \in Procs, k \in Parts : new[p] # 0 => new[p] # kern[q][k]
  /\ \A p, q \in Procs : new[p] # 0 /\ new[p] = new[q] => p = q
  /\ \A p, q \in Procs, v \in Pages, k \in Parts :
       Present(q, v) => pt[q][v].frame # kern[p][k]
  /\ \A p, q \in Procs, v \in Pages : Present(q, v) => pt[q][v].frame # new[p]
  /\ \A p \in Procs, k \in Parts : kern[p][k] \notin free
  /\ \A p \in Procs : new[p] \notin free /\ (new[p] # 0 => ref[new[p]] >= 1)

\* A page that may be written has its frame to itself.
Alone ==
  \A p, q \in Procs, v, w \in Pages :
    pt[p][v].w /\ pt[q][w].frame = pt[p][v].frame => q = p /\ w = v

\* An unused slot has no memory, any other has a stack.
Slot(p) ==
  /\ pc[p] = "unused" => kern[p] = NoKern /\ \A v \in Pages : ~Present(p, v)
  /\ pc[p] # "unused" => kern[p].stack # 0

\* The handler of a fault has a copy of the page it will replace.
Fault(p) ==
  /\ pc[p] # "fault" => new[p] = 0
  /\ pc[p] = "fault" =>
       /\ at[p] \in Pages /\ pt[p][at[p]].cow
       /\ new[p] # 0 /\ mem[new[p]] = mem[pt[p][at[p]].frame]
  /\ pc[p] \notin {"fault", "fork"} => at[p] = None

\* The child of a fork is nobody else's, and has the pages copied so far.
CopiedSoFar(p) ==
  IF kern[kid[p]].dir = 0
  THEN at[p] = None /\ \A v \in Pages : ~Present(kid[p], v)
  ELSE \A v \in Pages :
         pt[kid[p]][v].frame =
           IF at[p] = None \/ v < at[p] THEN pt[p][v].frame ELSE 0
Fork(p) ==
  /\ pc[p] = "fork" <=> kid[p] # 0
  /\ pc[p] = "fork" =>
       /\ pc[kid[p]] = "embryo"
       /\ \A q \in Procs : kid[q] = kid[p] => q = p
       /\ at[p] # None => Present(p, at[p])
       /\ CopiedSoFar(p)

\* A program has the pages below its sz, and no others below the window.
Extent(p) ==
  Running(p) => /\ top[p] >= NIMAGE
                /\ \A v \in Low : v < top[p] <=> Present(p, v)

Inv ==
  /\ TypeOK /\ LiveEntries /\ Counted /\ KernelsApart /\ Alone
  /\ \A p \in Procs : Slot(p) /\ Fault(p) /\ Fork(p) /\ Extent(p)

LEMMA Facts ==
  ASSUME Inv, NEW p \in Procs
  PROVE  Slot(p) /\ Fault(p) /\ Fork(p) /\ Extent(p)
BY DEF Inv

\* What a fault and a fork refer to.
LEMMA FaultFrames ==
  ASSUME Inv, NEW p \in Procs, pc[p] = "fault"
  PROVE  /\ new[p] \in Frames \ free /\ at[p] \in Pages
         /\ pt[p][at[p]].frame \in Frames \ free
         /\ pt[p][at[p]].frame # new[p]
         /\ Present(p, at[p])
<1>1. Fault(p) /\ TypeOK /\ LiveEntries /\ KernelsApart
  BY DEF Inv
<1>2. pt[p][at[p]].frame \in Frames \cup {0}
  BY <1>1, FramesOfPages DEF Fault
<1>3. new[p] \in Frames \cup {0}
  BY <1>1 DEF TypeOK
<1> QED
  BY <1>1, <1>2, <1>3 DEF Fault, LiveEntries, KernelsApart, Present

LEMMA ForkKid ==
  ASSUME Inv, NEW p \in Procs, pc[p] = "fork" \/ kid[p] # 0
  PROVE  /\ pc[p] = "fork" /\ kid[p] \in Procs /\ pc[kid[p]] = "embryo"
         /\ kid[p] # p
         /\ \A q \in Procs : kid[q] = kid[p] => q = p
<1>1. Fork(p) /\ kid[p] \in Procs \cup {0}
  BY DEF Inv, TypeOK
<1> QED
  BY <1>1 DEF Fork

\* A free frame is nobody's; what kalloc() returns is one.
LEMMA FreeFrame ==
  ASSUME Inv, NEW g \in free
  PROVE  /\ g \in Frames /\ g # 0
         /\ \A q \in Procs, v \in Pages : pt[q][v].frame # g
         /\ \A q \in Procs, k \in Parts : kern[q][k] # g
         /\ \A q \in Procs : new[q] # g
<1>1. g \in Frames
  BY DEF Inv, TypeOK
<1> QED
  BY <1>1, Numbers DEF Inv, LiveEntries, KernelsApart

LEMMA FreeGrabbed ==
  ASSUME Inv, NEW s \in Grabs(free, 1)
  PROVE  s[1] \in free /\ Range(s) = {s[1]} /\ s[1] \in Frames /\ s[1] # 0
<1>1. free \in SUBSET Frames
  BY DEF Inv, TypeOK
<1>2. s[1] \in free /\ Range(s) = {s[1]}
  BY <1>1, GrabbedOne
<1> QED
  BY <1>2, FreeFrame

\* A step that changes the memory of one process, which takes no part in a
\* fork, leaves the others as the invariant wants them.
LEMMA Solo ==
  ASSUME Inv, NEW p \in Procs,
         pc[p] \notin {"fork", "embryo"}, pc'[p] \notin {"fork", "embryo"},
         kid' = kid,
         \A q \in Procs : q # p =>
           /\ pc'[q] = pc[q] /\ at'[q] = at[q] /\ new'[q] = new[q]
           /\ kern'[q] = kern[q] /\ pt'[q] = pt[q] /\ top'[q] = top[q],
         \A q \in Procs : q # p /\ pc[q] = "fault" =>
           /\ mem'[new[q]] = mem[new[q]]
           /\ mem'[pt[q][at[q]].frame] = mem[pt[q][at[q]].frame]
  PROVE  /\ \A q \in Procs : Fork(q)'
         /\ \A q \in Procs : q # p => Slot(q)' /\ Fault(q)' /\ Extent(q)'
<1>1. ASSUME NEW q \in Procs, q # p
      PROVE  Slot(q)' /\ Extent(q)'
  BY <1>1, Facts DEF Slot, Extent, Running, Present
<1>2. ASSUME NEW q \in Procs, q # p
      PROVE  Fault(q)'
  <2>1. Fault(q)
    BY Facts
  <2> QED
    BY <1>2, <2>1 DEF Fault
<1>3. Fork(p)'
  <2>1. kid[p] = 0
    BY Facts DEF Fork
  <2> QED
    BY <2>1 DEF Fork
<1>4. ASSUME NEW q \in Procs, q # p
      PROVE  Fork(q)'
  <2>1. CASE pc[q] = "fork"
    <3>1. kid[q] \in Procs /\ kid[q] # p
      BY <2>1, ForkKid
    <3>2. Fork(q)
      BY Facts
    <3>3. CopiedSoFar(q)'
      BY <1>4, <2>1, <3>1, <3>2 DEF Fork, CopiedSoFar, Present
    <3> QED
      BY <1>4, <2>1, <3>1, <3>2, <3>3 DEF Fork, Present
  <2>2. CASE pc[q] # "fork"
    <3>1. Fork(q)
      BY Facts
    <3> QED
      BY <1>4, <2>2, <3>1 DEF Fork
  <2> QED
    BY <2>1, <2>2
<1> QED
  BY <1>1, <1>2, <1>3, <1>4
-----------------------------------------------------------------------------
\* Frames are taken from the free list, for entries, parts of the kernel and
\* new pages, each for one.
LEMMA Taken ==
  ASSUME Inv, NEW R \in SUBSET free,
         free' = free \ R,
         \A f \in Frames : ref'[f] = IF f \in R THEN 1 ELSE ref[f],
         \A q \in Procs, v \in Pages :
           \/ pt'[q][v].frame \in R
           \/ pt'[q][v] = pt[q][v],
         \A q \in Procs, k \in Parts :
           kern'[q][k] \in R \/ kern'[q][k] = kern[q][k],
         \A q \in Procs : new'[q] \in R \/ new'[q] = new[q],
         \A f \in R :
           /\ \A q, r \in Procs, v, w \in Pages :
                pt'[q][v].frame = f /\ pt'[r][w].frame = f => q = r /\ v = w
           /\ \A q, r \in Procs, k, l \in Parts :
                kern'[q][k] = f /\ kern'[r][l] = f => q = r /\ k = l
           /\ \A q, r \in Procs : new'[q] = f /\ new'[r] = f => q = r
           /\ \A q, r \in Procs, v \in Pages, k \in Parts :
                ~(pt'[q][v].frame = f /\ kern'[r][k] = f)
           /\ \A q, r \in Procs, v \in Pages :
                ~(pt'[q][v].frame = f /\ new'[r] = f)
           /\ \A q, r \in Procs, k \in Parts :
                ~(kern'[q][k] = f /\ new'[r] = f)
  PROVE  LiveEntries' /\ Counted' /\ KernelsApart' /\ Alone'
<1>1. /\ LiveEntries /\ Counted /\ KernelsApart /\ Alone /\ TypeOK
      /\ R \subseteq Frames /\ 0 \notin R /\ 0 \notin free
  BY Numbers DEF Inv, TypeOK
<1>2. LiveEntries'
  BY <1>1 DEF LiveEntries, Present
<1>3. Counted'
  <2>1. ASSUME NEW f \in R
        PROVE  Cardinality(HoldersIn(pt', f)) <= 1
    BY HoldersSingle
  <2>2. ASSUME NEW f \in Frames, f \notin R
        PROVE  Cardinality(HoldersIn(pt', f)) <= Cardinality(HoldersIn(pt, f))
    <3>1. HoldersIn(pt', f) \subseteq HoldersIn(pt, f)
      BY <2>2 DEF HoldersIn
    <3> QED
      BY <3>1, HoldersFewer
  <2>3. ASSUME NEW f \in Frames
        PROVE  Cardinality(HoldersIn(pt', f)) <= ref'[f]
    <3>1. /\ Cardinality(HoldersIn(pt', f)) \in Nat
          /\ Cardinality(HoldersIn(pt, f)) \in Nat
          /\ ref[f] \in Nat /\ Cardinality(HoldersIn(pt, f)) <= ref[f]
      BY <1>1, HoldersFinite DEF Counted, Covers, TypeOK
    <3> QED
      BY <2>1, <2>2, <3>1
  <2> QED
    BY <2>3 DEF Counted, Covers
<1>4. KernelsApart'
  <2>1. \A p, q \in Procs, k, l \in Parts :
          kern'[p][k] # 0 /\ kern'[p][k] = kern'[q][l] => p = q /\ k = l
    BY <1>1 DEF KernelsApart
  <2>2. \A p, q \in Procs, k \in Parts : new'[p] # 0 => new'[p] # kern'[q][k]
    BY <1>1 DEF KernelsApart
  <2>3. \A p, q \in Procs : new'[p] # 0 /\ new'[p] = new'[q] => p = q
    BY <1>1 DEF KernelsApart
  <2>4. /\ \A p, q \in Procs, v \in Pages, k \in Parts :
             Present(q, v)' => pt'[q][v].frame # kern'[p][k]
        /\ \A p, q \in Procs, v \in Pages :
             Present(q, v)' => pt'[q][v].frame # new'[p]
    BY <1>1 DEF KernelsApart, LiveEntries, Present
  <2>5. \A p \in Procs, k \in Parts : kern'[p][k] \notin free'
    BY <1>1 DEF KernelsApart
  <2>6. \A p \in Procs : new'[p] \notin free' /\ (new'[p] # 0 => ref'[new'[p]] >= 1)
    BY <1>1 DEF KernelsApart, TypeOK
  <2> QED
    BY <2>1, <2>2, <2>3, <2>4, <2>5, <2>6 DEF KernelsApart
<1>5. Alone'
  BY <1>1 DEF Alone, LiveEntries, Present
<1> QED
  BY <1>2, <1>3, <1>4, <1>5

\* kfree() on the frames of S, after the entries and the parts of the kernel
\* that had them are gone.
LEMMA GivenBack ==
  ASSUME Inv, NEW S \in SUBSET Frames, NEW rf \in [Frames -> Nat],
         \A f \in Frames : ref[f] <= rf[f],
         kfree(free, rf, S), UNCHANGED new,
         OnlyEmptied(pt, pt'), EachLoses(pt, pt', S),
         \A q \in Procs, v \in Pages :
           /\ pt'[q][v].w => pt[q][v].w
           /\ pt'[q][v].w \/ pt'[q][v].cow => pt'[q][v].frame # 0,
         \A q \in Procs, k \in Parts :
           kern'[q][k] = 0 \/ (kern'[q][k] = kern[q][k] /\ kern[q][k] \notin S),
         \A q \in Procs : new[q] \notin S
  PROVE  /\ LiveEntries' /\ Counted' /\ KernelsApart' /\ Alone'
         /\ free' \subseteq Frames /\ ref' \in [Frames -> Nat]
         /\ mem' \in [Frames -> Contents]
         /\ \A f \in Frames : mem'[f] = mem[f] \/ HoldersIn(pt', f) = {}
         /\ \A f \in Frames : f \notin S => mem'[f] = mem[f]
<1>1. /\ LiveEntries /\ Counted /\ KernelsApart /\ Alone /\ TypeOK /\ 0 \notin Frames
  BY Numbers DEF Inv
<1>2. Covers(rf, pt)
  <2>1. ASSUME NEW f \in Frames
        PROVE  Cardinality(HoldersIn(pt, f)) <= rf[f]
    <3>1. /\ Cardinality(HoldersIn(pt, f)) \in Nat /\ ref[f] \in Nat /\ rf[f] \in Nat
          /\ Cardinality(HoldersIn(pt, f)) <= ref[f] /\ ref[f] <= rf[f]
      BY <1>1, HoldersFinite DEF Counted, Covers, TypeOK
    <3> QED
      BY <3>1
  <2> QED
    BY <2>1 DEF Covers
<1>3. /\ Counts(rf, S) \in [Frames -> Nat]
      /\ Released(rf, S) \subseteq S
      /\ Covers(Counts(rf, S), pt')
      /\ \A f \in Released(rf, S) : HoldersIn(pt', f) = {}
  BY <1>2, FreeSafe
<1>4. /\ free' = free \cup Released(rf, S) /\ ref' = Counts(rf, S)
      /\ mem' = [f \in Frames |-> IF f \in Released(rf, S) THEN Junk ELSE mem[f]]
  BY DEF kfree
<1>5. LiveEntries'
  <2>1. ASSUME NEW q \in Procs, NEW v \in Pages
        PROVE  pt'[q][v].frame \notin Released(rf, S)
    <3>1. <<q, v>> \in HoldersIn(pt', pt'[q][v].frame)
      BY DEF HoldersIn
    <3> QED
      BY <1>3, <3>1
  <2>2. 0 \notin free
    BY <1>1 DEF TypeOK
  <2> QED
    BY <1>1, <1>4, <2>1, <2>2 DEF LiveEntries, Present, OnlyEmptied
<1>6. Counted'
  BY <1>3, <1>4 DEF Counted
<1>7. KernelsApart'
  <2>1. 0 \notin free'
    BY <1>1, <1>3, <1>4 DEF TypeOK
  <2>2. \A q \in Procs, k \in Parts :
          kern'[q][k] \notin free' /\ (kern'[q][k] = kern[q][k] \/ kern'[q][k] = 0)
    BY <1>1, <1>3, <1>4, <2>1 DEF KernelsApart
  <2>3. ASSUME NEW q \in Procs
        PROVE  new'[q] \notin free' /\ (new'[q] # 0 => ref'[new'[q]] >= 1)
    <3>1. new[q] \notin S /\ new[q] \notin free /\ new[q] \in Frames \cup {0}
      BY <1>1 DEF KernelsApart, TypeOK
    <3>2. new[q] # 0 => ref[new[q]] >= 1 /\ ref'[new[q]] = rf[new[q]]
      BY <1>1, <1>4, <3>1 DEF KernelsApart, Counts
    <3>3. new[q] # 0 => ref[new[q]] \in Nat /\ rf[new[q]] \in Nat
      BY <1>1, <3>1 DEF TypeOK
    <3> QED
      BY <1>3, <1>4, <3>1, <3>2, <3>3
  <2>4. \A q \in Procs, v \in Pages : Present(q, v)' =>
          Present(q, v) /\ pt'[q][v].frame = pt[q][v].frame
    BY DEF Present, OnlyEmptied
  <2>5. \A p, q \in Procs, k, l \in Parts :
          kern'[p][k] # 0 /\ kern'[p][k] = kern'[q][l] => p = q /\ k = l
    BY <1>1, <2>2 DEF KernelsApart
  <2>6. \A p, q \in Procs, k \in Parts : new'[p] # 0 => new'[p] # kern'[q][k]
    BY <1>1, <2>2 DEF KernelsApart
  <2>7. \A p, q \in Procs, v \in Pages, k \in Parts :
             Present(q, v)' => pt'[q][v].frame # kern'[p][k]
    BY <1>1, <2>2, <2>4 DEF KernelsApart, Present
  <2>8. \A p, q \in Procs, v \in Pages : Present(q, v)' => pt'[q][v].frame # new'[p]
    BY <1>1, <2>4 DEF KernelsApart
  <2>9. \A p, q \in Procs : new'[p] # 0 /\ new'[p] = new'[q] => p = q
    BY <1>1 DEF KernelsApart
  <2> QED
    BY <2>2, <2>3, <2>5, <2>6, <2>7, <2>8, <2>9 DEF KernelsApart
<1>8. Alone'
  BY <1>1 DEF Alone, OnlyEmptied
<1>9. /\ free' \subseteq Frames /\ ref' \in [Frames -> Nat]
      /\ mem' \in [Frames -> Contents]
  BY <1>1, <1>3, <1>4 DEF TypeOK, Contents
<1>10. \A f \in Frames : mem'[f] = mem[f] \/ HoldersIn(pt', f) = {}
  BY <1>3, <1>4
<1>11. \A f \in Frames : f \notin S => mem'[f] = mem[f]
  BY <1>3, <1>4
<1> QED
  BY <1>5, <1>6, <1>7, <1>8, <1>9, <1>10, <1>11
-----------------------------------------------------------------------------
LEMMA ForkStackStep ==
  ASSUME Inv, NEW p \in Procs, NEW c \in Procs, ForkStack(p, c)
  PROVE  Inv'
<1>1. PICK s \in Grabs(free, 1) : kalloc(s) /\ kern' = [kern EXCEPT ![c].stack = s[1]]
  BY DEF ForkStack
<1>2. s[1] \in free /\ Range(s) = {s[1]} /\ s[1] \in Frames
  BY FreeGrabbed
<1>3. /\ pc[p] = "user" /\ pc[c] = "unused" /\ p # c /\ TypeOK
      /\ kid[p] = 0 /\ kern[c] = NoKern /\ at[p] = None /\ at[c] = None
      /\ new[c] = 0 /\ kid[c] = 0
      /\ \A v \in Pages : ~Present(c, v)
  BY Facts DEF ForkStack, Fork, Slot, Fault, Inv
<1>4. /\ \A q \in Procs : pc'[q] = IF q = p THEN "fork" ELSE IF q = c THEN "embryo"
                                  ELSE pc[q]
      /\ \A q \in Procs : kid'[q] = IF q = p THEN c ELSE kid[q]
      /\ \A q \in Procs, k \in Parts : kern'[q][k] = IF q = c /\ k = "stack" THEN s[1] ELSE kern[q][k]
      /\ \A q \in Procs : q # c => kern'[q] = kern[q]
      /\ \A f \in Frames : f # s[1] => mem'[f] = mem[f]
      /\ \A f \in Frames : ref'[f] = IF f = s[1] THEN 1 ELSE ref[f]
      /\ UNCHANGED <<pt, at, new, top>>
  BY <1>1, <1>2, <1>3 DEF ForkStack, TypeOK, kalloc, Kern, Tables, Parts
<1>5. LiveEntries' /\ Counted' /\ KernelsApart' /\ Alone'
  <2>1. {s[1]} \in SUBSET free /\ free' = free \ {s[1]}
    BY <1>1, <1>2 DEF kalloc
  <2>2. /\ \A q \in Procs, v \in Pages : pt[q][v].frame # s[1]
        /\ \A q \in Procs, k \in Parts : kern[q][k] # s[1]
        /\ \A q \in Procs : new[q] # s[1]
    BY <1>2, FreeFrame
  <2> DEFINE R == {s[1]}
  <2>3. /\ R \in SUBSET free /\ free' = free \ R
        /\ \A f \in Frames : ref'[f] = IF f \in R THEN 1 ELSE ref[f]
        /\ \A q \in Procs, v \in Pages : pt'[q][v] = pt[q][v] /\ pt'[q][v].frame \notin R
        /\ \A q \in Procs, k \in Parts : kern'[q][k] \in R <=> q = c /\ k = "stack"
        /\ \A q \in Procs, k \in Parts : kern'[q][k] \in R \/ kern'[q][k] = kern[q][k]
        /\ \A q \in Procs : new'[q] = new[q] /\ new'[q] \notin R
    BY <1>4, <2>1, <2>2
  <2> HIDE DEF R
  <2> QED
    BY <2>3, Taken
<1>6. TypeOK'
  BY <1>1, <1>2, <1>3, KallocType DEF ForkStack, TypeOK, Kern
<1>7. NoKern.dir = 0 /\ s[1] # 0 /\ c # 0 /\ kern'[c].dir = kern[c].dir /\ kern'[c].stack = s[1]
  BY <1>2, <1>4, Numbers DEF NoKern, Tables, Parts
<1>8. ASSUME NEW q \in Procs PROVE Slot(q)' /\ Extent(q)'
  BY <1>3, <1>4, <1>7, Facts DEF Slot, Present, Extent, Running
<1>9. ASSUME NEW q \in Procs PROVE Fault(q)'
  BY <1>2, <1>3, <1>4, FaultFrames, Facts DEF Fault
<1>10. ASSUME NEW q \in Procs PROVE Fork(q)'
  <2>1. CASE q = p
    <3>1. CopiedSoFar(p)'
      BY <1>3, <1>4, <1>7 DEF CopiedSoFar, Present
    <3>2. \A r \in Procs : r # p => kid[r] # c
      BY <1>3, <1>7, ForkKid
    <3> QED
      BY <1>3, <1>4, <1>7, <2>1, <3>1, <3>2 DEF Fork
  <2>2. CASE q # p /\ pc[q] = "fork"
    <3>1. kid[q] \in Procs /\ kid[q] # c /\ kid[q] # p
      BY <1>3, <2>2, ForkKid
    <3>2. CopiedSoFar(q)'
      BY <1>4, <2>2, <3>1, Facts DEF CopiedSoFar, Fork, Present
    <3> QED
      BY <1>3, <1>4, <2>2, <3>1, <3>2, Facts DEF Fork, Present
  <2>3. CASE q # p /\ pc[q] # "fork"
    BY <1>3, <1>4, <2>3, Facts DEF Fork
  <2> QED
    BY <2>1, <2>2, <2>3
<1> QED
  BY <1>5, <1>6, <1>8, <1>9, <1>10 DEF Inv

LEMMA ForkDirStep ==
  ASSUME Inv, NEW p \in Procs, ForkDir(p)
  PROVE  Inv'
<1> DEFINE c == kid[p]
<1>1. /\ pc[p] = "fork" /\ kern[c].dir = 0 /\ c \in Procs /\ c # p /\ TypeOK
      /\ pc[c] = "embryo"
      /\ \A q \in Procs : q # p => kid[q] # c
      /\ \A v \in Pages : ~Present(c, v)
  BY ForkKid, Facts DEF ForkDir, Fork, CopiedSoFar, Inv
<1>2. PICK s \in Grabs(free, 1) : kalloc(s) /\ kern' = [kern EXCEPT ![c].dir = s[1]]
  BY DEF ForkDir
<1>3. s[1] \in free /\ Range(s) = {s[1]} /\ s[1] \in Frames /\ s[1] # 0
  BY FreeGrabbed
<1>4. /\ \A q \in Procs, k \in Parts : kern'[q][k] = IF q = c /\ k = "dir" THEN s[1] ELSE kern[q][k]
      /\ \A q \in Procs : q # c => kern'[q] = kern[q]
      /\ kern'[c].dir = s[1] /\ kern'[c].stack = kern[c].stack
      /\ \A q \in Procs : at'[q] = IF q = p THEN FirstFrom(p, 0) ELSE at[q]
      /\ \A f \in Frames : f # s[1] => mem'[f] = mem[f]
      /\ \A f \in Frames : ref'[f] = IF f = s[1] THEN 1 ELSE ref[f]
      /\ UNCHANGED <<pt, new, top, pc, kid>>
  <2> HIDE DEF c
  <2>1. at' = [at EXCEPT ![p] = FirstFrom(p, 0)] /\ UNCHANGED <<pt, new, top, pc, kid>>
    BY DEF ForkDir
  <2> QED
    BY <1>1, <1>2, <1>3, <2>1 DEF TypeOK, kalloc, Kern, Tables, Parts
<1>5. LiveEntries' /\ Counted' /\ KernelsApart' /\ Alone'
  <2>1. {s[1]} \in SUBSET free /\ free' = free \ {s[1]}
    BY <1>2, <1>3 DEF kalloc
  <2>2. /\ \A q \in Procs, v \in Pages : pt[q][v].frame # s[1]
        /\ \A q \in Procs, k \in Parts : kern[q][k] # s[1]
        /\ \A q \in Procs : new[q] # s[1]
    BY <1>3, FreeFrame
  <2> DEFINE R == {s[1]}
  <2>3. /\ R \in SUBSET free /\ free' = free \ R
        /\ \A f \in Frames : ref'[f] = IF f \in R THEN 1 ELSE ref[f]
        /\ \A q \in Procs, v \in Pages : pt'[q][v] = pt[q][v] /\ pt'[q][v].frame \notin R
        /\ \A q \in Procs, k \in Parts : kern'[q][k] \in R <=> q = c /\ k = "dir"
        /\ \A q \in Procs, k \in Parts : kern'[q][k] \in R \/ kern'[q][k] = kern[q][k]
        /\ \A q \in Procs : new'[q] = new[q] /\ new'[q] \notin R
    BY <1>4, <2>1, <2>2
  <2> HIDE DEF R
  <2> QED
    BY <2>3, Taken
<1>6. \/ at'[p] = None /\ \A w \in Pages : ~Present(p, w)
      \/ /\ at'[p] \in Pages /\ Present(p, at'[p])
         /\ \A w \in Pages : w < at'[p] => ~Present(p, w)
  <2>1. at'[p] = FirstFrom(p, 0) /\ \A w \in Pages : w >= 0
    BY <1>4, Numbers
  <2> QED
    BY <2>1, FirstFromType
<1>7. TypeOK'
  <2>1. kern' \in [Procs -> Kern]
    <3> HIDE DEF c
    <3> QED
      BY <1>1, <1>2, <1>3 DEF TypeOK, Kern
  <2>2. at' \in [Procs -> Pages \cup {None}]
    BY <1>1, <1>4, <1>6 DEF ForkDir, TypeOK
  <2> QED
    BY <1>1, <1>2, <2>1, <2>2, KallocType DEF ForkDir, TypeOK
<1>8. ASSUME NEW q \in Procs PROVE Slot(q)' /\ Extent(q)'
  BY <1>1, <1>4, Facts DEF Slot, Present, Extent, Running
<1>9. ASSUME NEW q \in Procs PROVE Fault(q)'
  BY <1>1, <1>3, <1>4, FaultFrames, Facts DEF Fault
<1>10. ASSUME NEW q \in Procs PROVE Fork(q)'
  <2>1. CASE q = p
    <3>1. CopiedSoFar(p)'
      <4>1. ASSUME NEW v \in Pages
            PROVE  pt[c][v].frame = IF at'[p] = None \/ v < at'[p] THEN pt[p][v].frame ELSE 0
        <5>1. pt[c][v].frame = 0
          BY <1>1 DEF Present
        <5>2. at'[p] = None \/ v < at'[p] => pt[p][v].frame = 0
          BY <1>6, Numbers DEF Present
        <5> QED
          BY <5>1, <5>2
      <4> QED
        BY <1>1, <1>3, <1>4, <4>1 DEF CopiedSoFar, Present
    <3>2. at'[p] # None => Present(p, at[p])'
      BY <1>4, <1>6 DEF Present
    <3>3. kid[p] # 0 /\ kid'[p] = c /\ pc'[p] = "fork" /\ pc'[c] = "embryo"
      BY <1>1, <1>4, Numbers
    <3>4. \A r \in Procs : kid'[r] = kid'[p] => r = p
      BY <1>1, <1>4
    <3> QED
      BY <2>1, <3>1, <3>2, <3>3, <3>4 DEF Fork
  <2>2. CASE q # p /\ pc[q] = "fork"
    <3>1. kid[q] \in Procs /\ kid[q] # c
      BY <1>1, <2>2, ForkKid
    <3>2. CopiedSoFar(q)'
      BY <1>4, <2>2, <3>1, Facts DEF CopiedSoFar, Fork, Present
    <3> QED
      BY <1>1, <1>4, <2>2, <3>1, <3>2, Facts DEF Fork, Present
  <2>3. CASE q # p /\ pc[q] # "fork"
    BY <1>4, <2>3, Facts DEF Fork
  <2> QED
    BY <2>1, <2>2, <2>3
<1> QED
  BY <1>5, <1>7, <1>8, <1>9, <1>10 DEF Inv

\* A step of p alone needs only the parts of the invariant about p.
LEMMA SoloInv ==
  ASSUME Inv, NEW p \in Procs,
         pc[p] \notin {"fork", "embryo"}, pc'[p] \notin {"fork", "embryo"},
         kid' = kid,
         \A q \in Procs : q # p =>
           /\ pc'[q] = pc[q] /\ at'[q] = at[q] /\ new'[q] = new[q]
           /\ kern'[q] = kern[q] /\ pt'[q] = pt[q] /\ top'[q] = top[q],
         \A q \in Procs : q # p /\ pc[q] = "fault" =>
           /\ mem'[new[q]] = mem[new[q]]
           /\ mem'[pt[q][at[q]].frame] = mem[pt[q][at[q]].frame],
         TypeOK', LiveEntries', Counted', KernelsApart', Alone',
         Slot(p)', Fault(p)', Extent(p)'
  PROVE  Inv'
<1>1. \A q \in Procs : Slot(q)' /\ Fault(q)' /\ Fork(q)' /\ Extent(q)'
  BY Solo
<1> QED
  BY <1>1 DEF Inv

LEMMA KilledStep ==
  ASSUME Inv, NEW p \in Procs, pc[p] = "user", Killed(p)
  PROVE  Inv'
<1>1. TypeOK'
  BY DEF Inv, Killed, kmem, space, locals, TypeOK
<1>2. /\ pc'[p] = "killed" /\ \A q \in Procs : q # p => pc'[q] = pc[q]
      /\ UNCHANGED <<free, ref, mem, pt, kern, top, kid, at, new>>
  BY DEF Inv, TypeOK, Killed, kmem, space, locals
<1>3. LiveEntries' /\ Counted' /\ KernelsApart' /\ Alone'
  BY <1>2 DEF Inv, LiveEntries, Counted, KernelsApart, Alone, Present
<1>4. Slot(p)' /\ Fault(p)' /\ Extent(p)'
  BY <1>2, Facts DEF Slot, Fault, Extent, Running, Present
<1> QED
  BY <1>1, <1>2, <1>3, <1>4, SoloInv

LEMMA wmapStep ==
  ASSUME Inv, NEW p \in Procs, NEW m \in SUBSET High, wmap(p, m)
  PROVE  Inv'
<1>1. TypeOK'
  BY DEF Inv, wmap, kmem, locals, TypeOK
<1>2. UNCHANGED <<free, ref, mem, pt, kern, top, pc, kid, at, new>> /\ pc[p] = "user"
  BY DEF wmap, kmem, locals
<1>3. LiveEntries' /\ Counted' /\ KernelsApart' /\ Alone'
  BY <1>2 DEF Inv, LiveEntries, Counted, KernelsApart, Alone, Present
<1>4. Slot(p)' /\ Fault(p)' /\ Extent(p)'
  BY <1>2, Facts DEF Slot, Fault, Extent, Running, Present
<1> QED
  BY <1>1, <1>2, <1>3, <1>4, SoloInv

LEMMA WriteStep ==
  ASSUME Inv, NEW p \in Procs, NEW v \in Pages, Write(p, v)
  PROVE  Inv'
<1>1. TypeOK'
  BY DEF Inv, Write, space, locals, TypeOK, Contents
<1>2. /\ UNCHANGED <<free, ref, pt, kern, top, pc, kid, at, new>> /\ pc[p] = "user"
      /\ mem' = [mem EXCEPT ![pt[p][v].frame] = p] /\ pt[p][v].w /\ Present(p, v)
      /\ TypeOK /\ Alone /\ KernelsApart
  BY DEF Write, space, locals, Inv
<1>3. LiveEntries' /\ Counted' /\ KernelsApart' /\ Alone'
  BY <1>2 DEF Inv, LiveEntries, Counted, KernelsApart, Alone, Present
<1>4. Slot(p)' /\ Fault(p)' /\ Extent(p)'
  BY <1>2, Facts DEF Slot, Fault, Extent, Running, Present
<1>5. ASSUME NEW q \in Procs, q # p, pc[q] = "fault"
      PROVE  /\ mem'[new[q]] = mem[new[q]]
             /\ mem'[pt[q][at[q]].frame] = mem[pt[q][at[q]].frame]
  <2>1. new[q] # pt[p][v].frame /\ pt[q][at[q]].frame # pt[p][v].frame
    BY <1>2, <1>5, FaultFrames DEF Alone, KernelsApart
  <2> QED
    BY <1>2, <1>5, <2>1, FaultFrames DEF TypeOK
<1> QED
  BY <1>1, <1>2, <1>3, <1>4, <1>5, SoloInv

LEMMA CowFaultStep ==
  ASSUME Inv, NEW p \in Procs, NEW v \in Pages, CowFault(p, v)
  PROVE  Inv'
<1>1. PICK s \in Grabs(free, 1) :
        /\ free' = free \ {s[1]}
        /\ ref' = [ref EXCEPT ![s[1]] = 1]
        /\ mem' = [mem EXCEPT ![s[1]] = mem[pt[p][v].frame]]
        /\ new' = [new EXCEPT ![p] = s[1]]
  BY DEF CowFault, Copied
<1>2. /\ pc[p] = "user" /\ pt[p][v].cow /\ TypeOK
      /\ at' = [at EXCEPT ![p] = v] /\ pc' = [pc EXCEPT ![p] = "fault"]
      /\ UNCHANGED <<pt, kern, top, maps, parent, kid>>
  BY DEF CowFault, space, Inv
<1>3. s[1] \in free /\ s[1] \in Frames /\ s[1] # 0
  BY FreeGrabbed
<1>4. Present(p, v) /\ pt[p][v].frame \in Frames \ free
  BY <1>2, FramesOfPages DEF Inv, LiveEntries, Present
<1>5. TypeOK'
  <2>1. mem[pt[p][v].frame] \in Contents
    BY <1>2, <1>4 DEF TypeOK
  <2> QED
    BY <1>1, <1>2, <1>3, <2>1 DEF TypeOK, Contents
<1>6. /\ \A q \in Procs : pc'[q] = IF q = p THEN "fault" ELSE pc[q]
      /\ \A q \in Procs : at'[q] = IF q = p THEN v ELSE at[q]
      /\ \A q \in Procs : new'[q] = IF q = p THEN s[1] ELSE new[q]
      /\ \A f \in Frames : f # s[1] => mem'[f] = mem[f]
      /\ mem'[s[1]] = mem[pt[p][v].frame]
      /\ \A f \in Frames : ref'[f] = IF f = s[1] THEN 1 ELSE ref[f]
  BY <1>1, <1>2, <1>3 DEF TypeOK
<1>7. LiveEntries' /\ Counted' /\ KernelsApart' /\ Alone'
  <2>1. /\ \A q \in Procs, w \in Pages : pt[q][w].frame # s[1]
        /\ \A q \in Procs, k \in Parts : kern[q][k] # s[1]
        /\ \A q \in Procs : new[q] # s[1]
    BY <1>3, FreeFrame
  <2> DEFINE R == {s[1]}
  <2>2. /\ R \in SUBSET free /\ free' = free \ R
        /\ \A f \in Frames : ref'[f] = IF f \in R THEN 1 ELSE ref[f]
        /\ \A q \in Procs, w \in Pages : pt'[q][w] = pt[q][w] /\ pt'[q][w].frame \notin R
        /\ \A q \in Procs, k \in Parts : kern'[q][k] = kern[q][k] /\ kern'[q][k] \notin R
        /\ \A q \in Procs : new'[q] \in R <=> q = p
        /\ \A q \in Procs : new'[q] \in R \/ new'[q] = new[q]
    BY <1>1, <1>2, <1>3, <1>6, <2>1
  <2> HIDE DEF R
  <2> QED
    BY <2>2, Taken
<1>8. Slot(p)' /\ Extent(p)'
  BY <1>2, <1>6, Facts DEF Slot, Extent, Running, Present
<1>9. Fault(p)'
  BY <1>2, <1>3, <1>4, <1>6 DEF Fault
<1>10. ASSUME NEW q \in Procs, q # p, pc[q] = "fault"
       PROVE  /\ mem'[new[q]] = mem[new[q]]
              /\ mem'[pt[q][at[q]].frame] = mem[pt[q][at[q]].frame]
  BY <1>3, <1>6, <1>10, FaultFrames
<1> QED
  BY <1>2, <1>5, <1>6, <1>7, <1>8, <1>9, <1>10, SoloInv

LEMMA SbrkGrowStep ==
  ASSUME Inv, NEW p \in Procs, SbrkGrow(p)
  PROVE  Inv'
<1>1. PICK s \in Grabs(free, 1) :
        kalloc(s) /\ pt' = [pt EXCEPT ![p][top[p]] = Mapped(s[1])]
  BY DEF SbrkGrow
<1>2. /\ pc[p] = "user" /\ top[p] < NLOW /\ TypeOK
      /\ top' = [top EXCEPT ![p] = @ + 1]
      /\ UNCHANGED <<kern, maps, pc, parent, kid, at, new>>
  BY DEF SbrkGrow, locals, Inv
<1>3. s[1] \in free /\ Range(s) = {s[1]} /\ s[1] \in Frames /\ s[1] # 0
  BY FreeGrabbed
<1>4. top[p] \in Nat /\ top[p] \in Low /\ top[p] \in Pages /\ ~Present(p, top[p])
  <2>1. top[p] \in 0..NLOW
    BY <1>2 DEF TypeOK
  <2>2. top[p] \in Low
    BY <1>2, <2>1, Numbers DEF Low
  <2> QED
    BY <1>2, <2>1, <2>2, Numbers, Facts DEF Extent, Running
<1>5. /\ Mapped(s[1]) \in PTE /\ Mapped(s[1]).frame = s[1]
  BY <1>3 DEF Mapped, PTE
<1>6. TypeOK'
  <2>1. pt' \in [Procs -> [Pages -> PTE]]
    BY <1>1, <1>2, <1>4, <1>5 DEF TypeOK
  <2>2. top' \in [Procs -> 0..NLOW]
    BY <1>2, <1>4, Numbers DEF TypeOK
  <2> QED
    BY <1>1, <1>2, <2>1, <2>2, KallocType DEF TypeOK
<1>7. /\ \A q \in Procs, w \in Pages :
           pt'[q][w] = IF q = p /\ w = top[p] THEN Mapped(s[1]) ELSE pt[q][w]
      /\ \A q \in Procs : q # p => pt'[q] = pt[q] /\ top'[q] = top[q]
      /\ top'[p] = top[p] + 1
      /\ \A f \in Frames : f # s[1] => mem'[f] = mem[f]
      /\ \A f \in Frames : ref'[f] = IF f = s[1] THEN 1 ELSE ref[f]
      /\ free' = free \ {s[1]}
  BY <1>1, <1>2, <1>3, <1>4 DEF TypeOK, kalloc
<1>8. LiveEntries' /\ Counted' /\ KernelsApart' /\ Alone'
  <2>1. /\ \A q \in Procs, w \in Pages : pt[q][w].frame # s[1]
        /\ \A q \in Procs, k \in Parts : kern[q][k] # s[1]
        /\ \A q \in Procs : new[q] # s[1]
    BY <1>3, FreeFrame
  <2> DEFINE R == {s[1]}
  <2>2. /\ R \in SUBSET free /\ free' = free \ R
        /\ \A f \in Frames : ref'[f] = IF f \in R THEN 1 ELSE ref[f]
        /\ \A q \in Procs, w \in Pages : pt'[q][w].frame \in R <=> q = p /\ w = top[p]
        /\ \A q \in Procs, w \in Pages : pt'[q][w].frame \in R \/ pt'[q][w] = pt[q][w]
        /\ \A q \in Procs, k \in Parts : kern'[q][k] = kern[q][k] /\ kern'[q][k] \notin R
        /\ \A q \in Procs : new'[q] = new[q] /\ new'[q] \notin R
    BY <1>2, <1>3, <1>5, <1>7, <2>1
  <2> HIDE DEF R
  <2> QED
    BY <2>2, Taken
<1>9. Slot(p)' /\ Fault(p)'
  BY <1>2, Facts DEF Slot, Fault
<1>10. Extent(p)'
  <2>1. top[p] >= NIMAGE /\ \A w \in Low : w < top[p] <=> Present(p, w)
    BY <1>2, Facts DEF Extent, Running
  <2>2. ASSUME NEW w \in Low
        PROVE  w < top[p] + 1 <=> pt'[p][w].frame # 0
    <3>1. w \in Nat /\ w \in Pages
      BY Numbers
    <3>2. CASE w = top[p]
      BY <1>3, <1>4, <1>5, <1>7, <3>1, <3>2
    <3>3. CASE w # top[p]
      BY <1>4, <1>7, <2>1, <3>1, <3>3 DEF Present
    <3> QED
      BY <3>2, <3>3
  <2> QED
    BY <1>4, <1>7, <2>1, <2>2, Numbers DEF Extent, Present
<1>11. ASSUME NEW q \in Procs, q # p, pc[q] = "fault"
       PROVE  /\ mem'[new[q]] = mem[new[q]]
              /\ mem'[pt[q][at[q]].frame] = mem[pt[q][at[q]].frame]
  BY <1>3, <1>7, <1>11, FaultFrames
<1> QED
  BY <1>2, <1>6, <1>7, <1>8, <1>9, <1>10, <1>11, SoloInv

LEMMA LazyFaultStep ==
  ASSUME Inv, NEW p \in Procs, NEW v \in Pages, LazyFault(p, v)
  PROVE  Inv'
<1>1. /\ pc[p] = "user" /\ ~Present(p, v) /\ v \in High /\ TypeOK
      /\ UNCHANGED <<top, maps, pc, parent, kid, at, new>>
  BY DEF LazyFault, locals, Inv, InRegion, TypeOK
<1>2. TableOf(v) \in Parts
  BY DEF TableOf, Parts, Tables
<1>3. PICK R, g, h :
        /\ R \in SUBSET free /\ g \in R /\ h \in R
        /\ free' = free \ R
        /\ ref' = [f \in Frames |-> IF f \in R THEN 1 ELSE ref[f]]
        /\ mem' = [f \in Frames |-> IF f \in R THEN Zero ELSE mem[f]]
        /\ pt' = [pt EXCEPT ![p][v] = Mapped(g)]
        /\ \/ kern' = kern
           \/ g # h /\ kern' = [kern EXCEPT ![p][TableOf(v)] = h]
  <2>0. free \in SUBSET Frames
    BY <1>1 DEF TypeOK
  <2>1. CASE NeedsTable(p, v)
    <3>1. PICK s \in Grabs(free, 2) :
            /\ kalloc(s) /\ pt' = [pt EXCEPT ![p][v] = Mapped(s[1])]
            /\ kern' = [kern EXCEPT ![p][TableOf(v)] = s[2]]
      BY <2>1 DEF LazyFault
    <3>2. s[1] \in free /\ s[2] \in free /\ s[1] # s[2] /\ Range(s) = {s[1], s[2]}
      BY <2>0, GrabbedTwo
    <3>3. Range(s) \in SUBSET free /\ s[1] \in Range(s) /\ s[2] \in Range(s)
      BY <3>2
    <3> QED
      BY <3>1, <3>2, <3>3 DEF kalloc
  <2>2. CASE ~NeedsTable(p, v)
    <3>1. PICK s \in Grabs(free, 1) :
            /\ kalloc(s) /\ pt' = [pt EXCEPT ![p][v] = Mapped(s[1])]
            /\ kern' = kern
      BY <2>2 DEF LazyFault
    <3>2. Range(s) \in SUBSET free /\ s[1] \in Range(s)
      BY <3>1, FreeGrabbed
    <3> QED
      BY <3>1, <3>2 DEF kalloc
  <2> QED
    BY <2>1, <2>2
<1>4. /\ R \subseteq Frames /\ 0 \notin R
      /\ \A q \in Procs, w \in Pages : pt[q][w].frame \notin R
      /\ \A q \in Procs, k \in Parts : kern[q][k] \notin R
      /\ \A q \in Procs : new[q] \notin R
  BY <1>3, FreeFrame
<1>5. /\ Mapped(g) \in PTE /\ Mapped(g).frame = g /\ g \in Frames /\ h \in Frames
  BY <1>3, <1>4 DEF Mapped, PTE
<1>6. TypeOK'
  <2>1. pt' \in [Procs -> [Pages -> PTE]]
    BY <1>1, <1>3, <1>5 DEF TypeOK
  <2>2. kern' \in [Procs -> Kern]
    <3>1. kern \in [Procs -> [Parts -> Frames \cup {0}]]
      BY <1>1 DEF TypeOK, Kern, Parts
    <3>2. [kern EXCEPT ![p][TableOf(v)] = h] \in [Procs -> [Parts -> Frames \cup {0}]]
      BY <1>2, <1>5, <3>1
    <3> QED
      BY <1>3, <3>1, <3>2 DEF Kern, Parts
  <2> QED
    BY <1>1, <1>3, <1>4, <2>1, <2>2 DEF TypeOK, Contents
<1>7. /\ \A q \in Procs, w \in Pages :
           pt'[q][w] = IF q = p /\ w = v THEN Mapped(g) ELSE pt[q][w]
      /\ \A q \in Procs : q # p => pt'[q] = pt[q] /\ kern'[q] = kern[q]
      /\ \A f \in Frames : f \notin R => mem'[f] = mem[f]
      /\ \A f \in Frames : ref'[f] = IF f \in R THEN 1 ELSE ref[f]
      /\ \A q \in Procs, k \in Parts :
           \/ kern'[q][k] = kern[q][k]
           \/ q = p /\ k = TableOf(v) /\ kern'[q][k] = h /\ g # h
  BY <1>1, <1>2, <1>3 DEF TypeOK, Kern, Parts
<1>8. LiveEntries' /\ Counted' /\ KernelsApart' /\ Alone'
  <2>1. /\ \A q \in Procs, w \in Pages :
             \/ pt'[q][w] = pt[q][w] /\ pt'[q][w].frame \notin R
             \/ q = p /\ w = v /\ pt'[q][w].frame = g
        /\ \A q \in Procs, k \in Parts :
             \/ kern'[q][k] = kern[q][k] /\ kern'[q][k] \notin R
             \/ q = p /\ k = TableOf(v) /\ kern'[q][k] = h /\ g # h
        /\ \A q \in Procs : new'[q] = new[q] /\ new'[q] \notin R
    BY <1>1, <1>4, <1>5, <1>7
  <2> QED
    BY <1>3, <1>7, <2>1, Taken
<1>9. Slot(p)' /\ Fault(p)'
  <2>1. kern[p].stack # 0 /\ kern'[p].stack = kern[p].stack
    BY <1>1, <1>7, Facts DEF Slot, Parts, Tables, TableOf
  <2> QED
    BY <1>1, <2>1, Facts DEF Slot, Fault
<1>10. Extent(p)'
  <2>1. \A w \in Low : w # v /\ w \in Pages
    BY <1>1, Numbers
  <2> QED
    BY <1>1, <1>7, <2>1, Facts DEF Extent, Running, Present
<1>11. ASSUME NEW q \in Procs, q # p, pc[q] = "fault"
       PROVE  /\ mem'[new[q]] = mem[new[q]]
              /\ mem'[pt[q][at[q]].frame] = mem[pt[q][at[q]].frame]
  BY <1>4, <1>7, <1>11, FaultFrames
<1> QED
  BY <1>1, <1>6, <1>7, <1>8, <1>9, <1>10, <1>11, SoloInv

LEMMA CowSwitchStep ==
  ASSUME Inv, NEW p \in Procs, CowSwitch(p)
  PROVE  Inv'
<1> DEFINE v == at[p]
           f == pt[p][v].frame
           g == new[p]
<1>1. /\ pc[p] = "fault" /\ v \in Pages /\ f \in Frames \ free /\ g \in Frames \ free
      /\ f # g /\ TypeOK /\ g # 0
  BY FaultFrames, Numbers DEF CowSwitch, Inv
<1>2. /\ ref' = [ref EXCEPT ![f] = @ - 1]
      /\ pt' = [pt EXCEPT ![p][v] = Mapped(g)]
      /\ new' = [new EXCEPT ![p] = 0]
      /\ at' = [at EXCEPT ![p] = None]
      /\ pc' = [pc EXCEPT ![p] = "user"]
      /\ UNCHANGED <<free, mem, kern, top, maps, parent, kid>>
  BY DEF CowSwitch
<1> HIDE DEF v, f, g
<1>3. /\ \A q \in Procs, w \in Pages :
           pt'[q][w] = IF q = p /\ w = v THEN Mapped(g) ELSE pt[q][w]
      /\ \A q \in Procs : q # p => pt'[q] = pt[q]
      /\ \A e \in Frames : ref'[e] = IF e = f THEN ref[f] - 1 ELSE ref[e]
      /\ \A q \in Procs : new'[q] = IF q = p THEN 0 ELSE new[q]
      /\ \A q \in Procs : at'[q] = IF q = p THEN None ELSE at[q]
      /\ \A q \in Procs : pc'[q] = IF q = p THEN "user" ELSE pc[q]
      /\ Mapped(g) \in PTE /\ Mapped(g).frame = g
  BY <1>1, <1>2 DEF TypeOK, Mapped, PTE
<1>4. /\ \A q \in Procs, w \in Pages : pt[q][w].frame # g
      /\ \A q \in Procs, k \in Parts : kern[q][k] # g
      /\ \A q \in Procs : q # p => new[q] # g
      /\ \A q \in Procs : new[q] # f
      /\ pt[p][v].frame = f /\ new[p] = g
      /\ ref[g] >= 1
  BY <1>1, FaultFrames DEF Inv, KernelsApart, Present, v, f, g
<1>5. <<p, v>> \in HoldersIn(pt, f) /\ <<p, v>> \notin HoldersIn(pt', f)
  BY <1>1, <1>3, <1>4 DEF HoldersIn
<1>6. Counted' /\ ref' \in [Frames -> Nat]
  <2>1. /\ Cardinality(HoldersIn(pt, f)) \in Nat
        /\ Cardinality(HoldersIn(pt', f)) \in Nat
        /\ Cardinality(HoldersIn(pt, f)) <= ref[f] /\ ref[f] \in Nat
    BY <1>1, HoldersFinite DEF Inv, Counted, Covers, TypeOK
  <2>2. Cardinality(HoldersIn(pt', f)) <= Cardinality(HoldersIn(pt, f)) - 1
    <3>1. HoldersIn(pt', f) \subseteq HoldersIn(pt, f)
      BY <1>1, <1>3 DEF HoldersIn
    <3> QED
      BY <1>5, <3>1, HoldersLost
  <2>3. Cardinality(HoldersIn(pt', f)) <= ref'[f] /\ ref'[f] \in Nat
    BY <1>1, <1>3, <2>1, <2>2
  <2>4. Cardinality(HoldersIn(pt', g)) <= ref'[g]
    <3>1. HoldersIn(pt', g) = {<<p, v>>}
      BY <1>1, <1>3, <1>4 DEF HoldersIn
    <3>2. Cardinality({<<p, v>>}) = 1
      BY FS_Singleton
    <3> QED
      BY <1>1, <1>3, <1>4, <3>1, <3>2
  <2>5. ASSUME NEW e \in Frames, e # f, e # g
        PROVE  Cardinality(HoldersIn(pt', e)) <= ref'[e]
    <3>1. HoldersIn(pt', e) \subseteq HoldersIn(pt, e)
      BY <1>3, <2>5 DEF HoldersIn
    <3>2. /\ Cardinality(HoldersIn(pt, e)) \in Nat
          /\ Cardinality(HoldersIn(pt', e)) \in Nat
          /\ Cardinality(HoldersIn(pt, e)) <= ref[e] /\ ref[e] \in Nat
          /\ Cardinality(HoldersIn(pt', e)) <= Cardinality(HoldersIn(pt, e))
      BY <1>1, <3>1, HoldersFinite, HoldersFewer DEF Inv, Counted, Covers, TypeOK
    <3> QED
      BY <1>3, <2>5, <3>2
  <2>6. ref' \in [Frames -> Nat]
    <3>1. ref' = [e \in Frames |-> IF e = f THEN ref[f] - 1 ELSE ref[e]]
      BY <1>1, <1>2 DEF TypeOK
    <3> QED
      BY <1>1, <1>3, <2>3, <3>1 DEF TypeOK
  <2> QED
    BY <2>3, <2>4, <2>5, <2>6 DEF Counted, Covers
<1>7. TypeOK'
  <2>1. pt' \in [Procs -> [Pages -> PTE]]
    BY <1>1, <1>2, <1>3 DEF TypeOK
  <2> QED
    BY <1>1, <1>2, <1>6, <2>1 DEF TypeOK
<1>8. LiveEntries'
  BY <1>1, <1>2, <1>3 DEF Inv, LiveEntries, Present
<1>9. KernelsApart'
  <2>1. KernelsApart
    BY DEF Inv
  <2>2. \A q \in Procs : new'[q] \notin free' /\ (new'[q] # 0 => ref'[new'[q]] >= 1)
    <3>1. \A q \in Procs : new[q] \in Frames \cup {0}
      BY <1>1 DEF TypeOK
    <3>2. 0 \notin free
      BY <1>1, Numbers DEF TypeOK
    <3> QED
      BY <1>2, <1>3, <1>4, <2>1, <3>1, <3>2 DEF KernelsApart
  <2>3. \A q, r \in Procs, w \in Pages, k \in Parts :
          Present(q, w)' => pt'[q][w].frame # kern'[r][k]
    BY <1>2, <1>3, <1>4, <2>1 DEF KernelsApart, Present
  <2>4. \A q, r \in Procs, w \in Pages :
          Present(q, w)' => pt'[q][w].frame # new'[r]
    BY <1>3, <1>4, <2>1 DEF KernelsApart, Present
  <2> QED
    BY <1>2, <1>3, <2>1, <2>2, <2>3, <2>4 DEF KernelsApart
<1>10. Alone'
  BY <1>3, <1>4 DEF Inv, Alone
<1>11. Slot(p)' /\ Fault(p)'
  BY <1>1, <1>2, <1>3, Facts DEF Slot, Fault
<1>12. Extent(p)'
  BY <1>1, <1>2, <1>3, <1>4, FaultFrames, Facts DEF Extent, Running, Present, v, f
<1> QED
  BY <1>1, <1>2, <1>3, <1>6, <1>7, <1>8, <1>9, <1>10, <1>11, <1>12, SoloInv

\* The pages W of a process are unmapped, and their frames given to kfree().
LEMMA PagesLost ==
  ASSUME Inv, NEW p \in Procs, NEW W \in SUBSET Pages,
         kfree(free, ref, FramesOf(p, W)), UNCHANGED <<kern, new>>,
         pt' = [pt EXCEPT ![p] = Without(p, W)]
  PROVE  /\ LiveEntries' /\ Counted' /\ KernelsApart' /\ Alone'
         /\ free' \subseteq Frames /\ ref' \in [Frames -> Nat]
         /\ mem' \in [Frames -> Contents] /\ pt' \in PageTables
         /\ \A f \in Frames : mem'[f] = mem[f] \/ HoldersIn(pt', f) = {}
         /\ \A f \in Frames : f \notin FramesOf(p, W) => mem'[f] = mem[f]
         /\ \A q \in Procs, v \in Pages :
              pt'[q][v] = IF q = p /\ v \in W THEN NoPTE ELSE pt[q][v]
         /\ \A q \in Procs : q # p => pt'[q] = pt[q]
<1> DEFINE S == FramesOf(p, W)
<1>1. /\ TypeOK /\ LiveEntries /\ KernelsApart /\ S \in SUBSET Frames
      /\ ref \in [Frames -> Nat]
  BY FramesOfPages DEF Inv, TypeOK
<1>2. /\ \A q \in Procs, v \in Pages :
           pt'[q][v] = IF q = p /\ v \in W THEN NoPTE ELSE pt[q][v]
      /\ \A q \in Procs : q # p => pt'[q] = pt[q]
      /\ pt' \in PageTables
  BY <1>1, Numbers DEF TypeOK, Without, PageTables, PTE, NoPTE
<1>3. /\ OnlyEmptied(pt, pt')
      /\ \A q \in Procs, v \in Pages :
           /\ pt'[q][v].w => pt[q][v].w
           /\ pt'[q][v].w \/ pt'[q][v].cow => pt'[q][v].frame # 0
  BY <1>1, <1>2 DEF OnlyEmptied, NoPTE, LiveEntries, Present
<1>4. \A f \in S : f # 0 /\ \E v \in W : pt[p][v].frame = f
  BY DEF FramesOf, Present
<1>5. EachLoses(pt, pt', S)
  BY <1>2, <1>4 DEF EachLoses, NoPTE
<1>6. /\ \A q \in Procs, k \in Parts :
           kern'[q][k] = 0 \/ (kern'[q][k] = kern[q][k] /\ kern[q][k] \notin S)
      /\ \A q \in Procs : new[q] \notin S
  BY <1>1, <1>4 DEF KernelsApart, Present
<1>7. \A f \in Frames : ref[f] <= ref[f]
  BY <1>1
<1> HIDE DEF S
<1>8. kfree(free, ref, S) /\ UNCHANGED new
  BY DEF S
<1>9. /\ LiveEntries' /\ Counted' /\ KernelsApart' /\ Alone'
      /\ free' \subseteq Frames /\ ref' \in [Frames -> Nat]
      /\ mem' \in [Frames -> Contents]
      /\ \A f \in Frames : mem'[f] = mem[f] \/ HoldersIn(pt', f) = {}
      /\ \A f \in Frames : f \notin S => mem'[f] = mem[f]
  BY <1>1, <1>3, <1>5, <1>6, <1>7, <1>8, GivenBack
<1> QED
  BY <1>2, <1>9 DEF S

\* What is released has no entry left, and belongs to no fault: the copy made
\* by a fault remains one.
LEMMA FaultsKept ==
  ASSUME Inv, NEW p \in Procs, NEW S,
         \A f \in Frames : mem'[f] = mem[f] \/ HoldersIn(pt', f) = {},
         \A f \in Frames : f \notin S => mem'[f] = mem[f],
         \A q \in Procs : new[q] \notin S
  PROVE  \A q \in Procs : pt'[q] = pt[q] /\ pc[q] = "fault" =>
           /\ mem'[new[q]] = mem[new[q]]
           /\ mem'[pt[q][at[q]].frame] = mem[pt[q][at[q]].frame]
<1> SUFFICES ASSUME NEW q \in Procs, pt'[q] = pt[q], pc[q] = "fault"
             PROVE  /\ mem'[new[q]] = mem[new[q]]
                    /\ mem'[pt[q][at[q]].frame] = mem[pt[q][at[q]].frame]
  OBVIOUS
<1> DEFINE f == pt[q][at[q]].frame
<1>1. new[q] \in Frames /\ at[q] \in Pages /\ f \in Frames
  BY FaultFrames
<1>2. <<q, at[q]>> \in HoldersIn(pt', f)
  BY <1>1 DEF HoldersIn
<1> QED
  BY <1>1, <1>2

LEMMA wunmapStep ==
  ASSUME Inv, NEW p \in Procs, NEW m, wunmap(p, m)
  PROVE  Inv'
<1>1. /\ pc[p] = "user" /\ m \in SUBSET High /\ TypeOK
      /\ maps' = [maps EXCEPT ![p] = @ \ {m}]
      /\ UNCHANGED <<kern, top, pc, parent, kid, at, new>>
  BY DEF wunmap, locals, Inv, TypeOK
<1>2. m \in SUBSET Pages
  BY <1>1 DEF Pages
<1>3. /\ LiveEntries' /\ Counted' /\ KernelsApart' /\ Alone'
      /\ free' \subseteq Frames /\ ref' \in [Frames -> Nat]
      /\ mem' \in [Frames -> Contents] /\ pt' \in PageTables
      /\ \A f \in Frames : mem'[f] = mem[f] \/ HoldersIn(pt', f) = {}
      /\ \A f \in Frames : f \notin FramesOf(p, m) => mem'[f] = mem[f]
      /\ \A q \in Procs, v \in Pages :
           pt'[q][v] = IF q = p /\ v \in m THEN NoPTE ELSE pt[q][v]
      /\ \A q \in Procs : q # p => pt'[q] = pt[q]
  BY <1>1, <1>2, PagesLost DEF wunmap
<1>4. TypeOK'
  BY <1>1, <1>3 DEF TypeOK, PageTables
<1>5. Slot(p)' /\ Fault(p)'
  BY <1>1, Facts DEF Slot, Fault
<1>6. Extent(p)'
  <2>1. \A v \in Low : v \notin m /\ v \in Pages
    BY <1>1, Numbers
  <2> QED
    BY <1>1, <1>3, <2>1, Facts DEF Extent, Running, Present
<1>7. \A q \in Procs : new[q] \notin FramesOf(p, m)
  BY <1>2 DEF Inv, KernelsApart, FramesOf
<1>8. \A q \in Procs : q # p /\ pc[q] = "fault" =>
        /\ mem'[new[q]] = mem[new[q]]
        /\ mem'[pt[q][at[q]].frame] = mem[pt[q][at[q]].frame]
  BY <1>3, <1>7, FaultsKept
<1> QED
  BY <1>1, <1>3, <1>4, <1>5, <1>6, <1>8, SoloInv

LEMMA ExitStep ==
  ASSUME Inv, NEW p \in Procs, Exit(p)
  PROVE  Inv'
<1> DEFINE W == UNION maps[p]
<1>1. /\ pc[p] \in {"user", "killed"} /\ W \in SUBSET High /\ TypeOK
      /\ maps' = [maps EXCEPT ![p] = {}]
      /\ parent' = [c \in Procs |-> IF parent[c] = p THEN InitProc ELSE parent[c]]
      /\ pc' = [pc EXCEPT ![p] = "zombie"]
      /\ UNCHANGED <<kern, top, kid, at, new>>
  BY DEF Exit, locals, Inv, TypeOK
<1>2. /\ W \in SUBSET Pages /\ kfree(free, ref, FramesOf(p, W))
      /\ pt' = [pt EXCEPT ![p] = Without(p, W)]
  BY <1>1 DEF Pages, Exit
<1> HIDE DEF W
<1>3. /\ LiveEntries' /\ Counted' /\ KernelsApart' /\ Alone'
      /\ free' \subseteq Frames /\ ref' \in [Frames -> Nat]
      /\ mem' \in [Frames -> Contents] /\ pt' \in PageTables
      /\ \A f \in Frames : mem'[f] = mem[f] \/ HoldersIn(pt', f) = {}
      /\ \A f \in Frames : f \notin FramesOf(p, W) => mem'[f] = mem[f]
      /\ \A q \in Procs : q # p => pt'[q] = pt[q]
  BY <1>1, <1>2, PagesLost
<1>4. TypeOK'
  BY <1>1, <1>3, Numbers DEF TypeOK, PageTables
<1>5. /\ pc'[p] = "zombie"
      /\ \A q \in Procs : q # p => pc'[q] = pc[q]
  BY <1>1 DEF TypeOK
<1>6. Slot(p)' /\ Fault(p)' /\ Extent(p)'
  BY <1>1, <1>5, Facts DEF Slot, Fault, Extent, Running
<1>7. \A q \in Procs : new[q] \notin FramesOf(p, W)
  BY <1>2 DEF Inv, KernelsApart, FramesOf
<1>8. \A q \in Procs : q # p /\ pc[q] = "fault" =>
        /\ mem'[new[q]] = mem[new[q]]
        /\ mem'[pt[q][at[q]].frame] = mem[pt[q][at[q]].frame]
  BY <1>3, <1>7, FaultsKept
<1> QED
  BY <1>1, <1>3, <1>4, <1>5, <1>6, <1>8, SoloInv

LEMMA SbrkShrinkStep ==
  ASSUME Inv, NEW p \in Procs, SbrkShrink(p)
  PROVE  Inv'
<1> DEFINE v == top[p] - 1
<1>1. /\ pc[p] = "user" /\ top[p] > NIMAGE /\ TypeOK
      /\ kfree(free, ref, {pt[p][v].frame})
      /\ pt' = [pt EXCEPT ![p][v] = NoPTE]
      /\ top' = [top EXCEPT ![p] = @ - 1]
      /\ UNCHANGED <<kern, maps, pc, parent, kid, at, new>>
  BY DEF SbrkShrink, locals, Inv
<1>2. /\ top[p] \in Nat /\ v \in Nat /\ v \in Low /\ v \in Pages /\ Present(p, v)
      /\ v >= NIMAGE /\ v < top[p]
  <2>1. top[p] \in 0..NLOW
    BY <1>1 DEF TypeOK
  <2>2. v \in Nat /\ v >= NIMAGE /\ v < top[p] /\ v \in Low
    BY <1>1, <2>1, Numbers DEF Low
  <2> HIDE DEF v
  <2>3. Extent(p) /\ Running(p) /\ Low \subseteq Pages
    BY <1>1, Numbers, Facts DEF Running
  <2> QED
    BY <2>1, <2>2, <2>3 DEF Extent
<1> HIDE DEF v
<1>3. FramesOf(p, {v}) = {pt[p][v].frame}
  BY <1>2 DEF FramesOf
<1>4. pt' = [pt EXCEPT ![p] = Without(p, {v})]
  <2>1. [pt[p] EXCEPT ![v] = NoPTE] = Without(p, {v})
    BY <1>1, <1>2 DEF Without, TypeOK
  <2> QED
    BY <1>1, <2>1 DEF TypeOK
<1>5. /\ LiveEntries' /\ Counted' /\ KernelsApart' /\ Alone'
      /\ free' \subseteq Frames /\ ref' \in [Frames -> Nat]
      /\ mem' \in [Frames -> Contents] /\ pt' \in PageTables
      /\ \A f \in Frames : mem'[f] = mem[f] \/ HoldersIn(pt', f) = {}
      /\ \A f \in Frames : f \notin FramesOf(p, {v}) => mem'[f] = mem[f]
      /\ \A q \in Procs, w \in Pages :
           pt'[q][w] = IF q = p /\ w \in {v} THEN NoPTE ELSE pt[q][w]
      /\ \A q \in Procs : q # p => pt'[q] = pt[q]
  <2>1. {v} \in SUBSET Pages /\ kfree(free, ref, FramesOf(p, {v}))
    BY <1>1, <1>2, <1>3
  <2> QED
    BY <1>1, <1>4, <2>1, PagesLost
<1>6. top'[p] = v /\ (\A q \in Procs : q # p => top'[q] = top[q]) /\ v \in 0..NLOW
  BY <1>1, <1>2, Numbers DEF TypeOK, Low, v
<1>7. TypeOK'
  BY <1>1, <1>5, <1>6 DEF TypeOK, PageTables, v
<1>8. Slot(p)' /\ Fault(p)'
  BY <1>1, Facts DEF Slot, Fault
<1>9. Extent(p)'
  <2>1. \A w \in Low : w < top[p] <=> Present(p, w)
    BY <1>1, Facts DEF Extent, Running
  <2>2. ASSUME NEW w \in Low
        PROVE  w < v <=> pt'[p][w].frame # 0
    <3>1. w \in Nat /\ w \in Pages
      BY Numbers
    <3>2. CASE w = v
      BY <1>2, <1>5, <3>1, <3>2 DEF NoPTE
    <3>3. CASE w # v
      BY <1>2, <1>5, <2>1, <3>1, <3>3 DEF Present, v
    <3> QED
      BY <3>2, <3>3
  <2> QED
    BY <1>2, <1>6, <2>2 DEF Extent, Present
<1>10. \A q \in Procs : new[q] \notin FramesOf(p, {v})
  BY <1>2 DEF Inv, KernelsApart, FramesOf
<1>11. \A q \in Procs : q # p /\ pc[q] = "fault" =>
        /\ mem'[new[q]] = mem[new[q]]
        /\ mem'[pt[q][at[q]].frame] = mem[pt[q][at[q]].frame]
  BY <1>5, <1>10, FaultsKept
<1> QED
  BY <1>1, <1>5, <1>6, <1>7, <1>8, <1>9, <1>11, SoloInv

\* All the memory of a process is given to kfree(), by wait() or by a fork()
\* that fails.
LEMMA SlotFreed ==
  ASSUME Inv, NEW c \in Procs, pc[c] # "unused", NEW rf \in [Frames -> Nat],
         \A f \in Frames : ref[f] <= rf[f],
         kfree(free, rf, freevm(c) \cup {kern[c].stack}),
         UNCHANGED new, kern' = [kern EXCEPT ![c] = NoKern],
         pt' \in PageTables, pt'[c] = NoPages,
         \A q \in Procs, v \in Pages : q # c =>
           /\ pt'[q][v].frame = pt[q][v].frame
           /\ pt'[q][v].w => pt[q][v].w
           /\ pt'[q][v].cow => pt[q][v].cow \/ pt[q][v].w
  PROVE  /\ LiveEntries' /\ Counted' /\ KernelsApart' /\ Alone'
         /\ free' \subseteq Frames /\ ref' \in [Frames -> Nat]
         /\ mem' \in [Frames -> Contents] /\ kern' \in [Procs -> Kern]
         /\ kern'[c] = NoKern
         /\ \A q \in Procs : q # c => kern'[q] = kern[q]
         /\ \A f \in Frames : mem'[f] = mem[f] \/ HoldersIn(pt', f) = {}
         /\ \A q \in Procs : pt'[q] = pt[q] /\ pc[q] = "fault" =>
              /\ mem'[new[q]] = mem[new[q]]
              /\ mem'[pt[q][at[q]].frame] = mem[pt[q][at[q]].frame]
<1> DEFINE S == freevm(c) \cup {kern[c].stack}
<1>1. /\ TypeOK /\ LiveEntries /\ KernelsApart /\ kern[c].stack # 0
  BY Facts DEF Inv, Slot
<1>2. /\ kern'[c] = NoKern /\ (\A k \in Parts : NoKern[k] = 0)
      /\ \A q \in Procs : q # c => kern'[q] = kern[q]
      /\ kern' \in [Procs -> Kern]
  BY <1>1 DEF TypeOK, Kern, NoKern, Parts
<1>3. \A v \in Pages : pt'[c][v] = NoPTE
  BY DEF NoPages
<1>4. OnlyEmptied(pt, pt')
  BY <1>3 DEF OnlyEmptied, NoPTE
<1>5. \A q \in Procs, v \in Pages :
        /\ pt'[q][v].w => pt[q][v].w
        /\ pt'[q][v].w \/ pt'[q][v].cow => pt'[q][v].frame # 0
  BY <1>1, <1>3 DEF NoPTE, LiveEntries, Present
<1>6. \A f \in S : /\ f # 0
                   /\ \/ \E v \in Pages : pt[c][v].frame = f
                      \/ \E k \in Parts : kern[c][k] = f
  BY <1>1 DEF freevm, UserFrames, TableFrames, Present, Parts
<1>7. S \in SUBSET Frames
  BY <1>1, FramesOfPages
<1>8. EachLoses(pt, pt', S)
  <2>1. ASSUME NEW f \in S, NEW q \in Procs, NEW v \in Pages, pt[q][v].frame = f
        PROVE  \E r \in Procs, w \in Pages : pt[r][w].frame = f /\ pt'[r][w].frame # f
    <3>0. Present(q, v)
      BY <1>6, <2>1 DEF Present
    <3>1. \A k \in Parts : kern[c][k] # f
      BY <1>1, <2>1, <3>0 DEF KernelsApart
    <3>2. PICK w \in Pages : pt[c][w].frame = f
      BY <1>6, <3>1
    <3> QED
      BY <1>3, <1>6, <3>2 DEF NoPTE
  <2> QED
    BY <2>1 DEF EachLoses
<1>9. \A q \in Procs, k \in Parts :
        kern'[q][k] = 0 \/ (kern'[q][k] = kern[q][k] /\ kern[q][k] \notin S)
  <2>1. ASSUME NEW q \in Procs, NEW k \in Parts, q # c, kern[q][k] \in S
        PROVE  FALSE
    <3>1. kern[q][k] # 0 /\ \A l \in Parts : kern[c][l] # kern[q][k]
      BY <1>1, <1>6, <2>1 DEF KernelsApart
    <3>2. PICK v \in Pages : pt[c][v].frame = kern[q][k]
      BY <1>6, <2>1, <3>1
    <3> QED
      BY <1>1, <3>1, <3>2 DEF KernelsApart, Present
  <2> QED
    BY <1>2, <2>1
<1>10. \A q \in Procs : new[q] \notin S
  BY <1>1, <1>6 DEF KernelsApart, Present
<1> HIDE DEF S
<1>11. kfree(free, rf, S) /\ UNCHANGED new
  BY DEF S
<1>12. /\ LiveEntries' /\ Counted' /\ KernelsApart' /\ Alone'
       /\ free' \subseteq Frames /\ ref' \in [Frames -> Nat]
       /\ mem' \in [Frames -> Contents]
       /\ \A f \in Frames : mem'[f] = mem[f] \/ HoldersIn(pt', f) = {}
       /\ \A f \in Frames : f \notin S => mem'[f] = mem[f]
  BY <1>4, <1>5, <1>7, <1>8, <1>9, <1>10, <1>11, GivenBack
<1>13. \A q \in Procs : pt'[q] = pt[q] /\ pc[q] = "fault" =>
         /\ mem'[new[q]] = mem[new[q]]
         /\ mem'[pt[q][at[q]].frame] = mem[pt[q][at[q]].frame]
  BY <1>10, <1>12, FaultsKept
<1> QED
  BY <1>2, <1>12, <1>13

LEMMA ReapStep ==
  ASSUME Inv, NEW p \in Procs, NEW c \in Procs, Reap(p, c)
  PROVE  Inv'
<1>1. /\ pc[c] = "zombie" /\ TypeOK
      /\ kfree(free, ref, freevm(c) \cup {kern[c].stack})
      /\ pt' = [pt EXCEPT ![c] = NoPages]
      /\ kern' = [kern EXCEPT ![c] = NoKern]
      /\ top' = [top EXCEPT ![c] = 0]
      /\ parent' = [parent EXCEPT ![c] = 0]
      /\ pc' = [pc EXCEPT ![c] = "unused"]
      /\ UNCHANGED <<maps, kid, at, new>>
  BY DEF Reap, locals, Inv
<1>2. /\ pt' \in PageTables /\ pt'[c] = NoPages
      /\ \A q \in Procs : q # c => pt'[q] = pt[q]
  BY <1>1, Numbers DEF TypeOK, PageTables, NoPages, NoPTE, PTE
<1>3. ref \in [Frames -> Nat] /\ \A f \in Frames : ref[f] <= ref[f]
  BY <1>1 DEF TypeOK
<1>4. /\ LiveEntries' /\ Counted' /\ KernelsApart' /\ Alone'
      /\ free' \subseteq Frames /\ ref' \in [Frames -> Nat]
      /\ mem' \in [Frames -> Contents] /\ kern' \in [Procs -> Kern]
      /\ kern'[c] = NoKern
      /\ \A q \in Procs : q # c => kern'[q] = kern[q]
      /\ \A q \in Procs : pt'[q] = pt[q] /\ pc[q] = "fault" =>
           /\ mem'[new[q]] = mem[new[q]]
           /\ mem'[pt[q][at[q]].frame] = mem[pt[q][at[q]].frame]
  BY <1>1, <1>2, <1>3, SlotFreed
<1>5. TypeOK'
  <2>1. 0 \in 0..NLOW
    BY Numbers
  <2> QED
    BY <1>1, <1>2, <1>4, <2>1 DEF TypeOK, PageTables
<1>6. /\ pc'[c] = "unused"
      /\ \A q \in Procs : q # c => pc'[q] = pc[q] /\ top'[q] = top[q]
  BY <1>1 DEF TypeOK
<1>7. Slot(c)' /\ Fault(c)' /\ Extent(c)'
  BY <1>1, <1>2, <1>4, <1>6, Facts
     DEF Slot, Fault, Extent, Running, Present, NoPages, NoPTE
<1> QED
  BY <1>1, <1>2, <1>4, <1>5, <1>6, <1>7, SoloInv

\* The entries fork() leaves the parent and gives the child.
LEMMA EntriesOfFork ==
  ASSUME NEW e \in PTE
  PROVE  /\ Protected(e) \in PTE /\ Protected(e).frame = e.frame
         /\ ~Protected(e).w
         /\ Protected(e).cow => e.cow \/ e.w
         /\ ChildEntry(e) \in PTE /\ ChildEntry(e).frame = e.frame
         /\ ~ChildEntry(e).w
<1>1. e.w \in BOOLEAN /\ e.cow \in BOOLEAN /\ (e.cow \/ e.w) \in BOOLEAN
  BY DEF PTE
<1>2. ASSUME NEW b \in BOOLEAN
      PROVE  /\ [e EXCEPT !.w = FALSE, !.cow = b] \in PTE
             /\ [e EXCEPT !.w = FALSE, !.cow = b].frame = e.frame
             /\ [e EXCEPT !.w = FALSE, !.cow = b].w = FALSE
             /\ [e EXCEPT !.w = FALSE, !.cow = b].cow = b
  BY DEF PTE
<1> QED
  BY <1>1, <1>2 DEF Protected, ChildEntry

LEMMA ForkFailsStep ==
  ASSUME Inv, NEW p \in Procs, ForkFails(p)
  PROVE  Inv'
<1> DEFINE c == kid[p]
           v == at[p]
           rf == IF v = None THEN ref ELSE Shared(ref, pt[p][v].frame)
<1>1. /\ pc[p] = "fork" /\ c \in Procs /\ pc[c] = "embryo" /\ c # p /\ TypeOK
      /\ \A q \in Procs : q # p => kid[q] # c
      /\ v \in Pages \cup {None} /\ (v # None => Present(p, v))
  BY ForkKid, Facts DEF ForkFails, Fork, Inv, TypeOK
<1>2. /\ kfree(free, rf, freevm(c) \cup {kern[c].stack})
      /\ pt' = [q \in Procs |->
           IF q = c THEN NoPages
           ELSE IF q = p /\ v # None THEN [pt[p] EXCEPT ![v] = Protected(@)]
           ELSE pt[q]]
      /\ kern' = [kern EXCEPT ![c] = NoKern]
      /\ pc' = [pc EXCEPT ![p] = "user", ![c] = "unused"]
      /\ kid' = [kid EXCEPT ![p] = 0]
      /\ at' = [at EXCEPT ![p] = None]
      /\ UNCHANGED <<top, maps, parent, new>>
  BY DEF ForkFails
<1>3. rf \in [Frames -> Nat] /\ \A f \in Frames : ref[f] <= rf[f]
  <2>1. v # None => pt[p][v].frame \in Frames
    BY <1>1, FramesOfPages DEF Present
  <2>2. ref \in [Frames -> Nat]
    BY <1>1 DEF TypeOK
  <2>3. CASE v = None
    BY <2>2, <2>3
  <2>4. CASE v # None
    BY <2>1, <2>2, <2>4 DEF Shared
  <2> QED
    BY <2>3, <2>4
<1> HIDE DEF c, v, rf
<1>4. \A q \in Procs, w \in Pages :
        /\ pt[q][w] \in PTE /\ Protected(pt[q][w]) \in PTE
        /\ Protected(pt[q][w]).frame = pt[q][w].frame
        /\ ~Protected(pt[q][w]).w
        /\ Protected(pt[q][w]).cow => pt[q][w].cow \/ pt[q][w].w
  BY <1>1, EntriesOfFork DEF TypeOK
<1>5. /\ pt' \in PageTables /\ pt'[c] = NoPages
      /\ \A q \in Procs : q # c /\ q # p => pt'[q] = pt[q]
      /\ \A w \in Pages : pt'[p][w] = pt[p][w] \/ pt'[p][w] = Protected(pt[p][w])
  <2>1. NoPages \in [Pages -> PTE]
    BY Numbers DEF NoPages, NoPTE, PTE
  <2>2. [pt[p] EXCEPT ![v] = Protected(@)] \in [Pages -> PTE]
    BY <1>1, <1>4 DEF TypeOK
  <2> QED
    BY <1>1, <1>2, <2>1, <2>2 DEF TypeOK, PageTables
<1>6. \A q \in Procs, w \in Pages : q # c =>
        /\ pt'[q][w].frame = pt[q][w].frame
        /\ pt'[q][w].w => pt[q][w].w
        /\ pt'[q][w].cow => pt[q][w].cow \/ pt[q][w].w
  BY <1>4, <1>5
<1>7. /\ LiveEntries' /\ Counted' /\ KernelsApart' /\ Alone'
      /\ free' \subseteq Frames /\ ref' \in [Frames -> Nat]
      /\ mem' \in [Frames -> Contents] /\ kern' \in [Procs -> Kern]
      /\ kern'[c] = NoKern
      /\ \A q \in Procs : q # c => kern'[q] = kern[q]
      /\ \A q \in Procs : pt'[q] = pt[q] /\ pc[q] = "fault" =>
           /\ mem'[new[q]] = mem[new[q]]
           /\ mem'[pt[q][at[q]].frame] = mem[pt[q][at[q]].frame]
  <2>1. pc[c] # "unused"
    BY <1>1
  <2> QED
    BY <1>1, <1>2, <1>3, <1>5, <1>6, <2>1, SlotFreed
<1>8. TypeOK'
  BY <1>1, <1>2, <1>5, <1>7, Numbers DEF TypeOK, PageTables
<1>9. /\ \A q \in Procs : pc'[q] = IF q = p THEN "user" ELSE IF q = c THEN "unused"
                                  ELSE pc[q]
      /\ \A q \in Procs : kid'[q] = IF q = p THEN 0 ELSE kid[q]
      /\ \A q \in Procs : at'[q] = IF q = p THEN None ELSE at[q]
      /\ UNCHANGED <<top, new>>
  BY <1>1, <1>2 DEF TypeOK
<1>10. ASSUME NEW q \in Procs PROVE Slot(q)' /\ Extent(q)' /\ Fault(q)'
  <2>1. CASE q = c
    BY <1>1, <1>5, <1>7, <1>9, <2>1, Facts
       DEF Slot, Extent, Fault, Running, Present, NoPages, NoPTE
  <2>2. CASE q = p
    BY <1>1, <1>6, <1>7, <1>9, <2>2, Numbers, Facts
       DEF Slot, Extent, Fault, Running, Present
  <2>3. CASE q # c /\ q # p
    BY <1>5, <1>7, <1>9, <2>3, Facts DEF Slot, Extent, Fault, Running, Present
  <2> QED
    BY <2>1, <2>2, <2>3
<1>11. ASSUME NEW q \in Procs PROVE Fork(q)'
  <2>1. CASE q = p
    BY <1>9, <2>1 DEF Fork
  <2>2. CASE q # p /\ pc[q] = "fork"
    <3>1. kid[q] \in Procs /\ kid[q] # c /\ kid[q] # p /\ q # c
      BY <1>1, <2>2, ForkKid
    <3>2. CopiedSoFar(q)'
      BY <1>5, <1>7, <1>9, <2>2, <3>1, Facts DEF CopiedSoFar, Fork, Present
    <3> QED
      BY <1>1, <1>5, <1>9, <2>2, <3>1, <3>2, Facts DEF Fork, Present
  <2>3. CASE q # p /\ pc[q] # "fork"
    BY <1>1, <1>9, <2>3, Facts DEF Fork
  <2> QED
    BY <2>1, <2>2, <2>3
<1> QED
  BY <1>7, <1>8, <1>10, <1>11 DEF Inv

LEMMA ForkDoneStep ==
  ASSUME Inv, NEW p \in Procs, ForkDone(p)
  PROVE  Inv'
<1> DEFINE c == kid[p]
<1>1. /\ pc[p] = "fork" /\ c \in Procs /\ pc[c] = "embryo" /\ c # p /\ TypeOK
      /\ \A q \in Procs : q # p => kid[q] # c
      /\ kern[c].dir # 0 /\ at[p] = None
      /\ \A w \in Pages : pt[c][w].frame = pt[p][w].frame
      /\ Extent(p)
  BY ForkKid, Facts DEF ForkDone, Fork, CopiedSoFar, Inv
<1>2. /\ top' = [top EXCEPT ![c] = top[p]]
      /\ maps' = [maps EXCEPT ![c] = maps[p]]
      /\ parent' = [parent EXCEPT ![c] = p]
      /\ pc' = [pc EXCEPT ![p] = "user", ![c] = "user"]
      /\ kid' = [kid EXCEPT ![p] = 0]
      /\ UNCHANGED <<free, ref, mem, pt, kern, at, new>>
  BY DEF ForkDone, kmem
<1> HIDE DEF c
<1>3. TypeOK'
  BY <1>1, <1>2 DEF TypeOK
<1>4. LiveEntries' /\ Counted' /\ KernelsApart' /\ Alone'
  BY <1>2 DEF Inv, LiveEntries, Counted, KernelsApart, Alone, Present
<1>5. /\ \A q \in Procs : pc'[q] = IF q = p \/ q = c THEN "user" ELSE pc[q]
      /\ \A q \in Procs : kid'[q] = IF q = p THEN 0 ELSE kid[q]
      /\ \A q \in Procs : top'[q] = IF q = c THEN top[p] ELSE top[q]
      /\ pc[c] # "unused" /\ pc[p] # "unused"
      /\ UNCHANGED <<mem, pt, kern, at, new>>
  BY <1>1, <1>2 DEF TypeOK
<1>6. ASSUME NEW q \in Procs PROVE Slot(q)' /\ Fault(q)'
  <2>0. Slot(q) /\ Fault(q)
    BY Facts
  <2>1. Slot(q)'
    BY <1>5, <2>0 DEF Slot, Present
  <2>2. new[p] = 0 /\ new[c] = 0 /\ at[c] = None
    BY <1>1, Facts DEF Fault
  <2>3. Fault(q)'
    BY <1>1, <1>5, <2>0, <2>2 DEF Fault
  <2> QED
    BY <2>1, <2>3
<1>7. ASSUME NEW q \in Procs PROVE Extent(q)'
  <2>1. Low \subseteq Pages
    BY Numbers
  <2> QED
    BY <1>1, <1>2, <1>5, <2>1, Facts DEF Extent, Running, Present
<1>8. ASSUME NEW q \in Procs PROVE Fork(q)'
  <2>1. CASE q = p \/ q = c
    BY <1>1, <1>5, <2>1, Facts DEF Fork
  <2>2. CASE q # p /\ q # c /\ pc[q] = "fork"
    <3>1. kid[q] \in Procs /\ kid[q] # c /\ kid[q] # p
      BY <1>1, <2>2, ForkKid
    <3>2. CopiedSoFar(q)'
      BY <1>2, <1>5, <2>2, <3>1, Facts DEF CopiedSoFar, Fork, Present
    <3>3. Fork(q)
      BY Facts
    <3>4. /\ \A r \in Procs : kid'[r] = kid'[q] => r = q
          /\ pc'[kid'[q]] = "embryo" /\ kid'[q] # 0 /\ pc'[q] = "fork"
      BY <1>5, <2>2, <3>1, <3>3 DEF Fork
    <3>5. at'[q] # None => Present(q, at[q])'
      BY <1>2, <2>2, <3>3 DEF Fork, Present
    <3> QED
      BY <3>2, <3>4, <3>5 DEF Fork
  <2>3. CASE q # p /\ q # c /\ pc[q] # "fork"
    BY <1>1, <1>5, <2>3, Facts DEF Fork
  <2> QED
    BY <2>1, <2>2, <2>3
<1> QED
  BY <1>3, <1>4, <1>6, <1>7, <1>8 DEF Inv

LEMMA CopyPageStep ==
  ASSUME Inv, NEW p \in Procs, CopyPage(p)
  PROVE  Inv'
<1> DEFINE c == kid[p]
           v == at[p]
           f == pt[p][v].frame
<1>1. /\ pc[p] = "fork" /\ c \in Procs /\ pc[c] = "embryo" /\ c # p /\ TypeOK
      /\ \A q \in Procs : q # p => kid[q] # c
      /\ v \in Pages /\ Present(p, v) /\ f \in Frames \ free /\ f # 0
      /\ kern[c].dir # 0
      /\ \A w \in Pages : pt[c][w].frame = IF w < v THEN pt[p][w].frame ELSE 0
  <2>1. pc[p] = "fork" /\ v # None
    BY DEF CopyPage
  <2>2. Fork(p) /\ TypeOK /\ LiveEntries
    BY Facts DEF Inv
  <2>3. v \in Pages /\ Present(p, v) /\ kern[c].dir # 0
    BY <2>1, <2>2 DEF Fork, TypeOK, CopiedSoFar
  <2>4. f \in Frames \ free /\ f # 0
    BY <2>2, <2>3, FramesOfPages DEF Present, LiveEntries
  <2>5. \A w \in Pages : pt[c][w].frame = IF w < v THEN pt[p][w].frame ELSE 0
    BY <2>1, <2>2, <2>3 DEF Fork, CopiedSoFar
  <2> QED
    BY <2>1, <2>2, <2>3, <2>4, <2>5, ForkKid
<1>2. PICK R, g :
        /\ R = {} \/ (R = {g} /\ g \in free)
        /\ free' = free \ R
        /\ \A e \in Frames :
             ref'[e] = IF e \in R THEN 1 ELSE IF e = f THEN ref[f] + 1 ELSE ref[e]
        /\ ref' \in [Frames -> Nat] /\ mem' \in [Frames -> Contents]
        /\ \A e \in Frames : e \notin R => mem'[e] = mem[e]
        /\ kern' \in [Procs -> Kern]
        /\ \A q \in Procs : q # c => kern'[q] = kern[q]
        /\ \A k \in Parts :
             \/ kern'[c][k] = kern[c][k]
             \/ R = {g} /\ k = TableOf(v) /\ kern'[c][k] = g
        /\ kern'[c].dir = kern[c].dir /\ kern'[c].stack = kern[c].stack
  <2>1. TableOf(v) \in Parts /\ TableOf(v) # "dir" /\ TableOf(v) # "stack"
    BY DEF TableOf, Parts, Tables
  <2>2. Shared(ref, f) \in [Frames -> Nat]
        /\ \A e \in Frames : Shared(ref, f)[e] = IF e = f THEN ref[f] + 1 ELSE ref[e]
    BY <1>1 DEF Shared, TypeOK
  <2> HIDE DEF c, v, f
  <2>3. CASE ~NeedsTable(c, v)
    <3>1. ref' = Shared(ref, f) /\ UNCHANGED <<free, mem, kern>>
      BY <2>3 DEF CopyPage, c, v, f
    <3> DEFINE R == {}
    <3>2. free' = free \ R /\ R = {} /\ \A e : e \notin R
      BY <3>1
    <3> HIDE DEF R
    <3>3. /\ \A e \in Frames :
               ref'[e] = IF e \in R THEN 1 ELSE IF e = f THEN ref[f] + 1 ELSE ref[e]
          /\ \A e \in Frames : e \notin R => mem'[e] = mem[e]
      BY <2>2, <3>1, <3>2
    <3>4. /\ ref' \in [Frames -> Nat] /\ mem' \in [Frames -> Contents]
          /\ kern' \in [Procs -> Kern]
      BY <1>1, <2>2, <3>1 DEF TypeOK
    <3> QED
      BY <3>1, <3>2, <3>3, <3>4
  <2>4. CASE NeedsTable(c, v)
    <3>1. PICK s \in Grabs(free, 1) :
            /\ free' = free \ {s[1]}
            /\ ref' = [Shared(ref, f) EXCEPT ![s[1]] = 1]
            /\ mem' = [mem EXCEPT ![s[1]] = Zero]
            /\ kern' = [kern EXCEPT ![c][TableOf(v)] = s[1]]
      BY <2>4 DEF CopyPage, c, v, f
    <3> DEFINE g == s[1]
    <3>2. g \in free /\ g \in Frames
      BY FreeGrabbed
    <3> HIDE DEF g
    <3>3. /\ free' = free \ {g}
          /\ ref' = [Shared(ref, f) EXCEPT ![g] = 1]
          /\ mem' = [mem EXCEPT ![g] = Zero]
          /\ kern' = [kern EXCEPT ![c][TableOf(v)] = g]
      BY <3>1 DEF g
    <3>4. /\ ref' \in [Frames -> Nat] /\ mem' \in [Frames -> Contents]
          /\ \A e \in Frames :
               ref'[e] = IF e = g THEN 1 ELSE IF e = f THEN ref[f] + 1 ELSE ref[e]
          /\ \A e \in Frames : e # g => mem'[e] = mem[e]
      BY <1>1, <2>2, <3>2, <3>3 DEF TypeOK, Contents
    <3>5. kern \in [Procs -> [Parts -> Frames \cup {0}]]
      BY <1>1 DEF TypeOK, Kern, Parts
    <3>6. kern' \in [Procs -> [Parts -> Frames \cup {0}]]
      BY <1>1, <2>1, <3>2, <3>3, <3>5
    <3>7. /\ \A q \in Procs : q # c => kern'[q] = kern[q]
          /\ \A k \in Parts : kern'[c][k] = IF k = TableOf(v) THEN g ELSE kern[c][k]
      BY <1>1, <2>1, <3>3, <3>5
    <3>8. kern'[c].dir = kern[c].dir /\ kern'[c].stack = kern[c].stack
      BY <2>1, <3>7 DEF Parts, Tables
    <3>9. kern' \in [Procs -> Kern]
      BY <3>6 DEF Kern, Parts
    <3> DEFINE R == {g}
    <3>10. R = {g} /\ \A e : e \in R <=> e = g
      OBVIOUS
    <3> HIDE DEF R
    <3>11. free' = free \ R
      BY <3>3, <3>10
    <3>12. /\ \A e \in Frames :
                ref'[e] = IF e \in R THEN 1 ELSE IF e = f THEN ref[f] + 1 ELSE ref[e]
           /\ \A e \in Frames : e \notin R => mem'[e] = mem[e]
      BY <3>4, <3>10
    <3> QED
      BY <3>2, <3>4, <3>7, <3>8, <3>9, <3>10, <3>11, <3>12
  <2> QED
    BY <2>3, <2>4
<1>3. /\ pt' = [pt EXCEPT ![p][v] = Protected(pt[p][v]),
                         ![c][v] = ChildEntry(pt[p][v])]
      /\ at' = [at EXCEPT ![p] = FirstFrom(p, v + 1)]
      /\ UNCHANGED <<top, maps, pc, parent, kid, new>>
  BY DEF CopyPage
<1> HIDE DEF c, v, f
<1>4. /\ pt' \in PageTables
      /\ \A q \in Procs : q # c /\ q # p => pt'[q] = pt[q]
      /\ \A w \in Pages : w # v => pt'[p][w] = pt[p][w] /\ pt'[c][w] = pt[c][w]
      /\ pt'[p][v].frame = f /\ ~pt'[p][v].w
      /\ pt'[c][v].frame = f /\ ~pt'[c][v].w
      /\ pt[p][v].frame = f
  <2>1. pt[p][v] \in PTE
    BY <1>1 DEF TypeOK
  <2>2. /\ Protected(pt[p][v]) \in PTE /\ Protected(pt[p][v]).frame = f
        /\ ~Protected(pt[p][v]).w
        /\ ChildEntry(pt[p][v]) \in PTE /\ ChildEntry(pt[p][v]).frame = f
        /\ ~ChildEntry(pt[p][v]).w
    BY <2>1, EntriesOfFork DEF f
  <2> DEFINE e1 == Protected(pt[p][v])
             e2 == ChildEntry(pt[p][v])
  <2> HIDE DEF e1, e2
  <2>3. pt' = [pt EXCEPT ![p][v] = e1, ![c][v] = e2]
    BY <1>3 DEF e1, e2
  <2>4. /\ e1 \in PTE /\ e1.frame = f /\ ~e1.w /\ e2 \in PTE /\ e2.frame = f /\ ~e2.w
    BY <2>2 DEF e1, e2
  <2>5. /\ pt' \in PageTables
        /\ \A q \in Procs : q # c /\ q # p => pt'[q] = pt[q]
        /\ \A w \in Pages : w # v => pt'[p][w] = pt[p][w] /\ pt'[c][w] = pt[c][w]
        /\ pt'[p][v] = e1 /\ pt'[c][v] = e2
    BY <1>1, <2>3, <2>4 DEF TypeOK, PageTables
  <2> QED
    BY <2>4, <2>5 DEF f
<1>5. \A q \in Procs, w \in Pages :
        /\ pt'[q][w].frame = IF q = c /\ w = v THEN f ELSE pt[q][w].frame
        /\ pt'[q][w].w => pt[q][w].w /\ pt'[q][w] = pt[q][w]
        /\ \/ pt'[q][w] = pt[q][w]
           \/ q = c /\ w = v
           \/ q = p /\ w = v
  BY <1>1, <1>4
<1>6. /\ LiveEntries /\ Counted /\ KernelsApart /\ Alone /\ 0 \notin free
  BY <1>1, Numbers DEF Inv, TypeOK
<1>7. LiveEntries'
  BY <1>1, <1>2, <1>4, <1>5, <1>6 DEF LiveEntries, Present
<1>8. Counted'
  <2>1. ASSUME NEW e \in Frames
        PROVE  Cardinality(HoldersIn(pt', e)) <= ref'[e]
    <3>1. /\ Cardinality(HoldersIn(pt, e)) \in Nat
          /\ Cardinality(HoldersIn(pt', e)) \in Nat
          /\ Cardinality(HoldersIn(pt, e)) <= ref[e] /\ ref[e] \in Nat
      BY <1>1, <1>6, HoldersFinite DEF Counted, Covers, TypeOK
    <3>2. CASE e = f
      <4>1. HoldersIn(pt', f) \subseteq HoldersIn(pt, f) \cup {<<c, v>>}
        BY <1>5 DEF HoldersIn
      <4>2. Cardinality(HoldersIn(pt', f)) <= Cardinality(HoldersIn(pt, f)) + 1
        BY <4>1, HoldersMore
      <4>3. f \notin R
        BY <1>1, <1>2
      <4> QED
        BY <1>1, <1>2, <3>1, <3>2, <4>2, <4>3
    <3>3. CASE e # f
      <4>1. HoldersIn(pt', e) \subseteq HoldersIn(pt, e)
        BY <1>5, <3>3 DEF HoldersIn
      <4>2. Cardinality(HoldersIn(pt', e)) <= Cardinality(HoldersIn(pt, e))
        BY <4>1, HoldersFewer
      <4>3. CASE e \in R
        <5>1. e \in free
          BY <1>2, <4>3
        <5>2. HoldersIn(pt, e) = {}
          BY <5>1, FreeFrame DEF HoldersIn
        <5>3. Cardinality(HoldersIn(pt, e)) = 0
          BY <5>2, HoldersFinite
        <5> QED
          BY <1>2, <3>1, <4>2, <4>3, <5>3
      <4>4. CASE e \notin R
        BY <1>2, <3>1, <3>3, <4>2, <4>4
      <4> QED
        BY <4>3, <4>4
    <3> QED
      BY <3>2, <3>3
  <2> QED
    BY <2>1 DEF Counted, Covers
<1>9. KernelsApart'
  <2>1. \A e \in R : /\ e \in free /\ e # 0 /\ e = g
                     /\ \A q \in Procs, w \in Pages : pt[q][w].frame # e
                     /\ \A q \in Procs, k \in Parts : kern[q][k] # e
                     /\ \A q \in Procs : new[q] # e
    BY <1>2, FreeFrame
  <2>2. \A q \in Procs, k \in Parts :
          \/ kern'[q][k] = kern[q][k] /\ kern'[q][k] \notin R
          \/ q = c /\ k = TableOf(v) /\ kern'[q][k] = g /\ g \in R
    BY <1>2, <2>1
  <2>3. \A q \in Procs, w \in Pages : Present(q, w)' =>
          \E r \in Procs, x \in Pages : Present(r, x) /\ pt'[q][w].frame = pt[r][x].frame
    BY <1>1, <1>4, <1>5 DEF Present
  <2>4. \A q \in Procs : new[q] # 0 => ref'[new[q]] >= 1
    <3>1. \A q \in Procs : new[q] # f
      BY <1>1, <1>4, <1>6 DEF KernelsApart
    <3> QED
      BY <1>1, <1>2, <1>6, <2>1, <3>1 DEF KernelsApart, TypeOK
  <2>5. \A q, r \in Procs, k, l \in Parts :
          kern'[q][k] # 0 /\ kern'[q][k] = kern'[r][l] => q = r /\ k = l
    BY <1>6, <2>1, <2>2 DEF KernelsApart
  <2>6. \A q, r \in Procs, k \in Parts : new'[q] # 0 => new'[q] # kern'[r][k]
    BY <1>3, <1>6, <2>1, <2>2 DEF KernelsApart
  <2>7. ASSUME NEW q \in Procs, NEW r \in Procs, NEW w \in Pages, Present(r, w)'
        PROVE  /\ \A k \in Parts : pt'[r][w].frame # kern'[q][k]
               /\ pt'[r][w].frame # new'[q]
    <3>1. PICK a \in Procs, b \in Pages : Present(a, b) /\ pt'[r][w].frame = pt[a][b].frame
      BY <2>3, <2>7
    <3>2. /\ \A k \in Parts : pt[a][b].frame # kern[q][k]
          /\ pt[a][b].frame # new[q]
          /\ pt[a][b].frame \notin R
      BY <1>6, <2>1, <3>1 DEF KernelsApart
    <3> QED
      BY <1>3, <2>2, <3>1, <3>2
  <2>8. \A q \in Procs, k \in Parts : kern'[q][k] \notin free'
    BY <1>2, <1>6, <2>1, <2>2 DEF KernelsApart
  <2>9. \A q \in Procs : new'[q] = new[q] /\ new[q] \notin free'
    BY <1>2, <1>3, <1>6 DEF KernelsApart
  <2>10. \A q, r \in Procs : new'[q] # 0 /\ new'[q] = new'[r] => q = r
    BY <1>6, <2>9 DEF KernelsApart
  <2> QED
    BY <2>4, <2>5, <2>6, <2>7, <2>8, <2>9, <2>10 DEF KernelsApart
<1>10. Alone'
  <2>1. ASSUME NEW a \in Procs, NEW q \in Procs, NEW b \in Pages, NEW w \in Pages,
               pt'[a][b].w, pt'[q][w].frame = pt'[a][b].frame
        PROVE  q = a /\ w = b
    <3>1. pt[a][b].w /\ pt'[a][b].frame = pt[a][b].frame
      BY <1>5, <2>1
    <3>2. pt[a][b].frame # f
      BY <1>1, <1>4, <1>6, <2>1, <3>1 DEF Alone
    <3>3. pt[q][w].frame = pt[a][b].frame
      BY <1>5, <2>1, <3>1, <3>2
    <3> QED
      BY <1>6, <3>1, <3>3 DEF Alone
  <2> QED
    BY <2>1 DEF Alone
<1>11. \/ at'[p] = None /\ \A w \in Pages : w > v => ~Present(p, w)
       \/ /\ at'[p] \in Pages /\ at'[p] > v /\ Present(p, at'[p])
          /\ \A w \in Pages : w > v /\ w < at'[p] => ~Present(p, w)
  <2>1. v \in Nat /\ \A w \in Pages : w \in Nat
    BY <1>1, Numbers
  <2>2. at'[p] = FirstFrom(p, v + 1) /\ v + 1 \in Nat
    BY <1>1, <1>3, <2>1 DEF TypeOK
  <2>3. \A w \in Nat : w > v <=> w >= v + 1
    BY <2>1
  <2> QED
    BY <2>1, <2>2, <2>3, FirstFromType
<1>12. TypeOK'
  <2>1. free' \subseteq Frames /\ at' \in [Procs -> Pages \cup {None}]
    BY <1>1, <1>2, <1>3, <1>11 DEF TypeOK
  <2> QED
    BY <1>1, <1>2, <1>3, <1>4, <2>1 DEF TypeOK, PageTables
<1>13. /\ \A q \in Procs : q # p => at'[q] = at[q]
       /\ UNCHANGED <<pc, kid, new, top>>
  BY <1>1, <1>3 DEF TypeOK
<1>14. ASSUME NEW q \in Procs PROVE Slot(q)' /\ Extent(q)'
  <2>1. Slot(q) /\ Extent(q)
    BY Facts
  <2>2. Slot(q)'
    BY <1>1, <1>2, <1>4, <1>13, <2>1 DEF Slot, Present
  <2>3. q # c => \A w \in Pages : Present(q, w)' <=> Present(q, w)
    BY <1>5 DEF Present
  <2>4. Extent(q)'
    BY <1>1, <1>13, <2>1, <2>3, Numbers DEF Extent, Running
  <2> QED
    BY <2>2, <2>4
<1>15. ASSUME NEW q \in Procs PROVE Fault(q)'
  <2>1. Fault(q)
    BY Facts
  <2>2. CASE pc[q] = "fault"
    <3>1. new[q] \notin R /\ pt[q][at[q]].frame \notin R /\ q # p /\ q # c
      BY <1>1, <1>2, <2>2, FaultFrames
    <3> QED
      BY <1>2, <1>4, <1>13, <2>1, <2>2, <3>1, FaultFrames DEF Fault
  <2>3. CASE pc[q] # "fault"
    BY <1>1, <1>13, <2>1, <2>3 DEF Fault
  <2> QED
    BY <2>2, <2>3
<1>16. ASSUME NEW q \in Procs PROVE Fork(q)'
  <2>1. Fork(q)
    BY Facts
  <2>2. CASE q = p
    <3>1. ASSUME NEW w \in Pages
          PROVE  pt'[c][w].frame =
                   IF at'[p] = None \/ w < at'[p] THEN pt'[p][w].frame ELSE 0
      <4>1. v \in Nat /\ w \in Nat /\ None \notin Pages /\ (at'[p] \in Pages => at'[p] \in Nat)
        BY <1>1, Numbers
      <4>2. CASE w = v
        BY <1>4, <1>11, <4>1, <4>2
      <4>3. CASE w < v
        BY <1>1, <1>4, <1>11, <4>1, <4>3
      <4>4. CASE w > v
        BY <1>1, <1>4, <1>11, <4>1, <4>4 DEF Present
      <4> QED
        BY <4>1, <4>2, <4>3, <4>4
    <3>2. CopiedSoFar(p)'
      BY <1>1, <1>2, <1>13, <3>1 DEF CopiedSoFar, c
    <3>3. at'[p] # None => Present(p, at[p])'
      BY <1>1, <1>5, <1>11 DEF Present
    <3> QED
      BY <1>13, <2>1, <2>2, <3>2, <3>3, <1>1 DEF Fork
  <2>3. CASE q # p /\ pc[q] = "fork"
    <3>1. kid[q] \in Procs /\ kid[q] # c /\ kid[q] # p /\ q # c
      BY <1>1, <2>3, ForkKid
    <3>2. CopiedSoFar(q)'
      BY <1>2, <1>4, <1>13, <2>1, <2>3, <3>1 DEF CopiedSoFar, Fork, Present
    <3> QED
      BY <1>4, <1>13, <2>1, <2>3, <3>1, <3>2 DEF Fork, Present
  <2>4. CASE q # p /\ pc[q] # "fork"
    BY <1>13, <2>1, <2>4 DEF Fork
  <2> QED
    BY <2>2, <2>3, <2>4
<1> QED
  BY <1>7, <1>8, <1>9, <1>10, <1>12, <1>14, <1>15, <1>16 DEF Inv

\* The memory exec() builds: a frame for every table and page.
LEMMA LoadedPages ==
  ASSUME TypeOK, NEW s \in Grabs(free, 2 + NIMAGE)
  PROVE  /\ s \in [1..2 + NIMAGE -> free]
         /\ \A i, j \in 1..2 + NIMAGE : s[i] = s[j] => i = j
         /\ Range(s) = {s[i] : i \in 1..2 + NIMAGE}
         /\ Loaded(s) \in [Pages -> PTE]
         /\ \A v \in Pages : Loaded(s)[v].frame =
                              IF v < NIMAGE THEN s[v + 3] ELSE 0
         /\ \A v \in Pages : v >= NIMAGE => Loaded(s)[v] = NoPTE
<1> HIDE DEF NIMAGE
<1>1. free \in SUBSET Frames
  BY DEF TypeOK
<1>2. ASSUME NEW n \in 1..4 + NIMAGE, n = 2 + NIMAGE
      PROVE  /\ s \in [1..n -> free]
             /\ \A i, j \in 1..n : s[i] = s[j] => i = j
  <2>1. s \in Grabs(free, n)
    BY <1>2
  <2>2. \A r \in Grabs(free, n) :
          r \in [1..n -> free] /\ \A i, j \in 1..n : r[i] = r[j] => i = j
    BY <1>1, CowMemAssumption
  <2> QED
    BY <2>1, <2>2
<1>3. 2 + NIMAGE \in 1..4 + NIMAGE
  BY Numbers
<1>4. /\ s \in [1..2 + NIMAGE -> free]
      /\ \A i, j \in 1..2 + NIMAGE : s[i] = s[j] => i = j
  BY <1>2, <1>3
<1>5. Range(s) = {s[i] : i \in 1..2 + NIMAGE}
  BY <1>4 DEF Range
<1>6. \A v \in Pages : v < NIMAGE =>
        s[v + 3] \in Frames /\ Image[v] \in [w : BOOLEAN, u : BOOLEAN]
  <2>1. \A v \in Pages : v < NIMAGE =>
          v + 3 \in 1..2 + NIMAGE /\ v \in 0..NIMAGE - 1
    BY Numbers
  <2> QED
    BY <1>1, <1>4, <2>1, CowMemAssumption
<1>7. Loaded(s) \in [Pages -> PTE]
  BY <1>6 DEF Loaded, PTE, NoPTE
<1>8. \A v \in Pages : Loaded(s)[v].frame = IF v < NIMAGE THEN s[v + 3] ELSE 0
  BY DEF Loaded, NoPTE
<1>9. \A v \in Pages : v >= NIMAGE => Loaded(s)[v] = NoPTE
  BY Numbers DEF Loaded
<1> QED
  BY <1>4, <1>5, <1>7, <1>8, <1>9

LEMMA ExecStep ==
  ASSUME Inv, NEW p \in Procs, Exec(p)
  PROVE  Inv'
<1> HIDE DEF NIMAGE
<1> DEFINE S == freevm(p)
           u == [pt EXCEPT ![p] = NoPages]
<1>1. /\ TypeOK /\ LiveEntries /\ Counted /\ KernelsApart /\ Alone
      /\ 0 \notin Frames /\ 0 \notin free /\ free \subseteq Frames
  BY Numbers DEF Inv, TypeOK
<1>2. PICK s \in Grabs(free, 2 + NIMAGE) :
        /\ free' = (free \ Range(s)) \cup Released(ref, S)
        /\ ref' = [f \in Frames |-> IF f \in Range(s) THEN 1 ELSE Counts(ref, S)[f]]
        /\ mem' = [f \in Frames |-> IF f \in Released(ref, S) THEN Junk
                                    ELSE LoadedMem(s)[f]]
        /\ pt' = [pt EXCEPT ![p] = Loaded(s)]
        /\ kern' = [kern EXCEPT ![p].dir = s[1], ![p].low = s[2], ![p].high = 0]
  BY DEF Exec
<1>3. /\ pc[p] = "user" /\ top' = [top EXCEPT ![p] = NIMAGE]
      /\ UNCHANGED <<maps, pc, parent, kid, at, new>>
  BY DEF Exec, locals
<1> DEFINE R == Range(s)
           I == 1..2 + NIMAGE
<1>4. /\ s \in [I -> free] /\ (\A i, j \in I : s[i] = s[j] => i = j)
      /\ R = {s[i] : i \in I}
      /\ Loaded(s) \in [Pages -> PTE]
      /\ \A v \in Pages : Loaded(s)[v].frame = IF v < NIMAGE THEN s[v + 3] ELSE 0
      /\ \A v \in Pages : v >= NIMAGE => Loaded(s)[v] = NoPTE
  BY <1>1, LoadedPages
<1>5. /\ R \subseteq free /\ 1 \in I /\ 2 \in I /\ s[1] \in R /\ s[2] \in R /\ s[1] # s[2]
      /\ \A v \in Pages : v < NIMAGE => v + 3 \in I /\ s[v + 3] \in R
  <2>1. 1 \in I /\ 2 \in I /\ \A v \in Pages : v < NIMAGE => v + 3 \in I
    BY Numbers
  <2> HIDE DEF I
  <2> QED
    BY <1>4, <2>1
<1> HIDE DEF S, R, I, u
<1>6. S \in SUBSET Frames
  BY <1>1, FramesOfPages DEF S
<1>7. \A f \in S : /\ f # 0 /\ f \notin free
                   /\ \/ \E v \in Pages : pt[p][v].frame = f
                      \/ \E k \in Tables : kern[p][k] = f
  <2>1. ASSUME NEW f \in UserFrames(p)
        PROVE  f # 0 /\ f \notin free /\ \E v \in Pages : pt[p][v].frame = f
    BY <1>1 DEF UserFrames, Present, LiveEntries
  <2>2. ASSUME NEW f \in TableFrames(p)
        PROVE  f # 0 /\ f \notin free /\ \E k \in Tables : kern[p][k] = f
    <3>1. f # 0 /\ \E k \in Tables : kern[p][k] = f
      BY <2>2 DEF TableFrames
    <3>2. \A k \in Tables : kern[p][k] \notin free
      BY <1>1 DEF KernelsApart, Parts
    <3> QED
      BY <3>1, <3>2
  <2> QED
    BY <2>1, <2>2 DEF S, freevm
<1>8. /\ \A v \in Pages : u[p][v].frame = 0
      /\ \A q \in Procs : q # p => u[q] = pt[q]
  BY <1>1 DEF u, NoPages, NoPTE, TypeOK
<1>9. OnlyEmptied(pt, u) /\ EachLoses(pt, u, S)
  <2>1. OnlyEmptied(pt, u)
    BY <1>8 DEF OnlyEmptied
  <2>2. ASSUME NEW f \in S, NEW q \in Procs, NEW v \in Pages, pt[q][v].frame = f
        PROVE  \E r \in Procs, w \in Pages : pt[r][w].frame = f /\ u[r][w].frame # f
    <3>1. Present(q, v)
      BY <1>7, <2>2 DEF Present
    <3>2. \A k \in Tables : kern[p][k] # f
      BY <1>1, <2>2, <3>1 DEF KernelsApart, Parts
    <3>3. PICK w \in Pages : pt[p][w].frame = f
      BY <1>7, <3>2
    <3> QED
      BY <1>7, <1>8, <3>3
  <2> QED
    BY <2>1, <2>2 DEF EachLoses
<1>10. /\ Counts(ref, S) \in [Frames -> Nat]
       /\ Released(ref, S) \subseteq S
       /\ Covers(Counts(ref, S), u)
       /\ \A f \in Released(ref, S) : HoldersIn(u, f) = {}
  <2>1. ref \in [Frames -> Nat] /\ Covers(ref, pt)
    BY <1>1 DEF TypeOK, Counted
  <2> QED
    BY <1>6, <1>9, <2>1, FreeSafe
<1>11. /\ \A q \in Procs : q # p => pt'[q] = pt[q]
       /\ \A v \in Pages : pt'[p][v] = Loaded(s)[v]
       /\ \A v \in Pages : \/ v < NIMAGE /\ pt'[p][v].frame = s[v + 3] /\ s[v + 3] \in R
                           \/ v >= NIMAGE /\ pt'[p][v] = NoPTE
       /\ pt' \in PageTables
  <2>1. \A v \in Pages : v < NIMAGE \/ v >= NIMAGE
    BY Numbers
  <2> QED
    BY <1>1, <1>2, <1>4, <1>5, <2>1 DEF TypeOK, PageTables
<1>12. \A f \in R : /\ f \in Frames /\ f # 0 /\ f \notin S
                    /\ \A q \in Procs, v \in Pages : pt[q][v].frame # f
                    /\ \A q \in Procs, k \in Parts : kern[q][k] # f
                    /\ \A q \in Procs : new[q] # f
  BY <1>5, <1>7, FreeFrame
<1>13. \A v, w \in Pages : pt'[p][v].frame # 0 /\ pt'[p][v].frame = pt'[p][w].frame => v = w
  <2>1. ASSUME NEW v \in Pages, NEW w \in Pages, v < NIMAGE, w < NIMAGE, s[v + 3] = s[w + 3]
        PROVE  v = w
    <3>1. v + 3 = w + 3
      BY <1>4, <1>5, <2>1
    <3> QED
      BY <3>1, Numbers
  <2> QED
    BY <1>11, <2>1 DEF NoPTE
<1>14. \A q \in Procs, v \in Pages : q # p => pt'[q][v].frame \notin Released(ref, S)
  <2>1. ASSUME NEW q \in Procs, NEW v \in Pages, q # p
        PROVE  <<q, v>> \in HoldersIn(u, pt'[q][v].frame)
    BY <1>8, <1>11, <2>1 DEF HoldersIn
  <2> QED
    BY <1>10, <2>1
<1>15. LiveEntries'
  <2>1. ASSUME NEW q \in Procs, NEW v \in Pages, q # p
        PROVE  /\ pt'[q][v].cow \/ pt'[q][v].w => pt'[q][v].frame # 0
               /\ pt'[q][v].frame \notin free'
    BY <1>1, <1>2, <1>11, <1>14, <2>1 DEF LiveEntries, Present
  <2>2. ASSUME NEW v \in Pages
        PROVE  /\ pt'[p][v].cow \/ pt'[p][v].w => pt'[p][v].frame # 0
               /\ pt'[p][v].frame \notin free'
    BY <1>1, <1>2, <1>6, <1>10, <1>11, <1>12 DEF NoPTE, R
  <2> QED
    BY <2>1, <2>2 DEF LiveEntries, Present
<1>16. Counted'
  <2>1. ASSUME NEW f \in Frames
        PROVE  Cardinality(HoldersIn(pt', f)) <= ref'[f]
    <3>1. CASE f \in R
      <4>1. \A q, r \in Procs, v, w \in Pages :
              pt'[q][v].frame = f /\ pt'[r][w].frame = f => q = r /\ v = w
        BY <1>11, <1>12, <1>13, <3>1
      <4>2. Cardinality(HoldersIn(pt', f)) <= 1
        BY <4>1, HoldersSingle
      <4> QED
        BY <1>2, <3>1, <4>2 DEF R
    <3>2. CASE f \notin R
      <4>1. HoldersIn(pt', f) \subseteq HoldersIn(u, f)
        BY <1>1, <1>8, <1>11, <3>2 DEF HoldersIn, NoPTE
      <4>2. /\ Cardinality(HoldersIn(pt', f)) \in Nat
            /\ Cardinality(HoldersIn(u, f)) \in Nat
            /\ Cardinality(HoldersIn(pt', f)) <= Cardinality(HoldersIn(u, f))
        BY <4>1, HoldersFewer, HoldersFinite
      <4>3. /\ Cardinality(HoldersIn(u, f)) <= Counts(ref, S)[f]
            /\ Counts(ref, S)[f] \in Nat
        BY <1>10 DEF Covers
      <4>4. ref'[f] = Counts(ref, S)[f]
        BY <1>2, <3>2 DEF R
      <4> QED
        BY <4>2, <4>3, <4>4
    <3> QED
      BY <3>1, <3>2
  <2> QED
    BY <2>1 DEF Counted, Covers
<1>17. /\ \A q \in Procs : q # p => kern'[q] = kern[q]
       /\ kern'[p].stack = kern[p].stack
       /\ kern'[p].dir = s[1] /\ kern'[p].low = s[2] /\ kern'[p].high = 0
       /\ kern' \in [Procs -> Kern]
  <2>1. kern \in [Procs -> [Parts -> Frames \cup {0}]]
    BY <1>1 DEF TypeOK, Kern, Parts
  <2>2. s[1] \in Frames /\ s[2] \in Frames
    BY <1>1, <1>5
  <2>3. "dir" \in Parts /\ "low" \in Parts /\ "high" \in Parts /\ "stack" \in Parts
    BY DEF Parts, Tables
  <2>4. kern' \in [Procs -> [Parts -> Frames \cup {0}]]
    BY <1>2, <2>1, <2>2, <2>3
  <2>5. /\ \A q \in Procs : q # p => kern'[q] = kern[q]
        /\ kern'[p].stack = kern[p].stack
        /\ kern'[p].dir = s[1] /\ kern'[p].low = s[2] /\ kern'[p].high = 0
    BY <1>2, <2>1, <2>2, <2>3
  <2> QED
    BY <2>4, <2>5 DEF Kern, Parts
<1>18. /\ \A q \in Procs, k \in Parts :
            \/ kern'[q][k] = 0
            \/ q = p /\ k = "dir" /\ kern'[q][k] = s[1]
            \/ q = p /\ k = "low" /\ kern'[q][k] = s[2]
            \/ kern'[q][k] = kern[q][k] /\ (q # p \/ k = "stack")
       /\ \A q \in Procs : new'[q] = new[q]
  BY <1>3, <1>17 DEF Parts, Tables
<1>19. /\ \A q \in Procs, k \in Parts :
            kern[q][k] # 0 /\ (q # p \/ k = "stack") => kern[q][k] \notin S
       /\ \A q \in Procs : new[q] \notin S
  <2>1. ASSUME NEW q \in Procs, NEW k \in Parts, kern[q][k] # 0, q # p \/ k = "stack",
               kern[q][k] \in S
        PROVE  FALSE
    <3>1. CASE \E v \in Pages : pt[p][v].frame = kern[q][k]
      BY <1>1, <2>1, <3>1 DEF KernelsApart, Present
    <3>2. CASE \E l \in Tables : kern[p][l] = kern[q][k]
      BY <1>1, <2>1, <3>2 DEF KernelsApart, Parts, Tables
    <3> QED
      BY <1>7, <2>1, <3>1, <3>2
  <2>2. ASSUME NEW q \in Procs, new[q] \in S
        PROVE  FALSE
    <3>1. CASE \E v \in Pages : pt[p][v].frame = new[q]
      BY <1>1, <1>7, <2>2, <3>1 DEF KernelsApart, Present
    <3>2. CASE \E l \in Tables : kern[p][l] = new[q]
      <4>1. PICK l \in Tables : kern[p][l] = new[q]
        BY <3>2
      <4>2. l \in Parts /\ new[q] # 0
        BY <1>7, <2>2 DEF Parts
      <4> QED
        BY <1>1, <4>1, <4>2 DEF KernelsApart
    <3> QED
      BY <1>7, <2>2, <3>1, <3>2
  <2> QED
    BY <2>1, <2>2
<1>20. KernelsApart'
  <2>1. s[1] \in R /\ s[2] \in R /\ s[1] # s[2]
    BY <1>5
  <2>2. ASSUME NEW q \in Procs, NEW r \in Procs, NEW k \in Parts, NEW l \in Parts,
               kern'[q][k] # 0, kern'[q][k] = kern'[r][l]
        PROVE  q = r /\ k = l
    BY <1>1, <1>12, <1>18, <2>1, <2>2 DEF KernelsApart
  <2>3. \A q, r \in Procs, k \in Parts : new'[q] # 0 => new'[q] # kern'[r][k]
    BY <1>1, <1>12, <1>18, <2>1 DEF KernelsApart
  <2>4. \A q, r \in Procs : new'[q] # 0 /\ new'[q] = new'[r] => q = r
    BY <1>1, <1>18 DEF KernelsApart
  <2>5. ASSUME NEW q \in Procs, NEW r \in Procs, NEW v \in Pages, NEW k \in Parts,
               pt'[q][v].frame # 0
        PROVE  pt'[q][v].frame # kern'[r][k] /\ pt'[q][v].frame # new'[r]
    <3>1. CASE q # p
      BY <1>1, <1>11, <1>12, <1>18, <2>1, <2>5, <3>1 DEF KernelsApart, Present
    <3>2. CASE q = p
      <4>1. v < NIMAGE /\ pt'[q][v].frame = s[v + 3] /\ s[v + 3] \in R
        BY <1>11, <2>5, <3>2 DEF NoPTE
      <4>2. s[v + 3] # s[1] /\ s[v + 3] # s[2]
        <5>1. v + 3 \in I /\ v + 3 # 1 /\ v + 3 # 2
          BY <1>5, <4>1, Numbers
        <5> QED
          BY <1>4, <1>5, <5>1
      <4> QED
        BY <1>12, <1>18, <4>1, <4>2
    <3> QED
      BY <3>1, <3>2
  <2>6. \A q \in Procs, k \in Parts : kern'[q][k] \notin free'
    <3>1. /\ 0 \notin free' /\ s[1] \notin free' /\ s[2] \notin free'
      BY <1>1, <1>2, <1>6, <1>10, <1>12, <2>1 DEF R
    <3>2. \A q \in Procs, k \in Parts : kern[q][k] \notin free
      BY <1>1 DEF KernelsApart
    <3>3. ASSUME NEW q \in Procs, NEW k \in Parts, kern[q][k] # 0,
                 q # p \/ k = "stack"
          PROVE  kern[q][k] \notin free'
      <4>1. kern[q][k] \notin S /\ kern[q][k] \notin free
        BY <1>19, <3>2, <3>3
      <4> QED
        BY <1>2, <1>10, <4>1
    <3>4. ASSUME NEW q \in Procs, NEW k \in Parts
          PROVE  kern'[q][k] \notin free'
      <4>1. CASE kern'[q][k] \in {0, s[1], s[2]}
        BY <3>1, <4>1
      <4>2. CASE kern'[q][k] # 0 /\ kern'[q][k] = kern[q][k] /\ (q # p \/ k = "stack")
        BY <3>3, <4>2
      <4> QED
        BY <1>18, <4>1, <4>2
    <3> QED
      BY <3>4
  <2>7. ASSUME NEW q \in Procs
        PROVE  new'[q] \notin free' /\ (new'[q] # 0 => ref'[new'[q]] >= 1)
    <3>1. /\ new[q] \notin free /\ new[q] \notin S /\ new[q] \notin R
          /\ new[q] # 0 => new[q] \in Frames /\ ref[new[q]] >= 1
      <4>1. new[q] \notin S /\ new[q] \notin R
        BY <1>12, <1>19
      <4>2. new[q] \notin free /\ (new[q] # 0 => ref[new[q]] >= 1)
        BY <1>1 DEF KernelsApart
      <4>3. new[q] # 0 => new[q] \in Frames
        BY <1>1 DEF TypeOK
      <4> QED
        BY <4>1, <4>2, <4>3
    <3>2. new[q] # 0 => ref'[new[q]] = ref[new[q]]
      BY <1>2, <3>1 DEF Counts, R
    <3> QED
      BY <1>2, <1>10, <1>18, <3>1, <3>2
  <2>8. /\ \A q, r \in Procs, v \in Pages, k \in Parts :
             Present(q, v)' => pt'[q][v].frame # kern'[r][k]
        /\ \A q, r \in Procs, v \in Pages : Present(q, v)' => pt'[q][v].frame # new'[r]
    <3>1. "stack" \in Parts
      BY DEF Parts
    <3> QED
      BY <2>5, <3>1 DEF Present
  <2> QED
    BY <2>2, <2>3, <2>4, <2>6, <2>7, <2>8 DEF KernelsApart
<1>21. Alone'
  <2>1. ASSUME NEW a \in Procs, NEW q \in Procs, NEW b \in Pages, NEW w \in Pages,
               pt'[a][b].w, pt'[q][w].frame = pt'[a][b].frame
        PROVE  q = a /\ w = b
    <3>1. pt'[a][b].frame # 0
      BY <1>15, <2>1 DEF LiveEntries, Present
    <3>2. CASE a # p /\ q # p
      BY <1>1, <1>11, <2>1, <3>2 DEF Alone
    <3>3. CASE a = p /\ q = p
      BY <1>13, <2>1, <3>1, <3>3
    <3>4. CASE (a = p) # (q = p)
      BY <1>11, <1>12, <2>1, <3>1, <3>4 DEF NoPTE
    <3> QED
      BY <3>2, <3>3, <3>4
  <2> QED
    BY <2>1 DEF Alone
<1>22. /\ \A f \in Frames : f \notin R /\ f \notin Released(ref, S) => mem'[f] = mem[f]
       /\ mem' \in [Frames -> Contents]
  <2>1. \A i \in 1..NIMAGE : s[i + 2] \in R
    <3>1. \A i \in 1..NIMAGE : i + 2 \in I
      BY Numbers DEF I
    <3> QED
      BY <1>4, <3>1
  <2>2. ASSUME NEW f \in Frames, f \notin R
        PROVE  LoadedMem(s)[f] = mem[f]
    BY <2>1, <2>2 DEF LoadedMem, R
  <2>3. ASSUME NEW f \in Frames
        PROVE  LoadedMem(s)[f] \in Contents
    BY <1>1 DEF LoadedMem, TypeOK, Contents
  <2> QED
    BY <1>2, <2>2, <2>3 DEF Contents
<1>23. TypeOK'
  <2>1. ref' \in [Frames -> Nat]
    BY <1>2, <1>10
  <2>2. free' \subseteq Frames
    BY <1>1, <1>2, <1>6, <1>10
  <2>3. top' \in [Procs -> 0..NLOW]
    BY <1>1, <1>3, Numbers DEF TypeOK
  <2> QED
    BY <1>1, <1>3, <1>11, <1>17, <1>22, <2>1, <2>2, <2>3 DEF TypeOK, PageTables
<1>24. Slot(p)' /\ Fault(p)'
  BY <1>3, <1>17, Facts DEF Slot, Fault
<1>25. Extent(p)'
  <2>1. top'[p] = NIMAGE /\ Low \subseteq Pages
    BY <1>1, <1>3, Numbers DEF TypeOK
  <2>2. \A v \in Low : v < NIMAGE <=> pt'[p][v].frame # 0
    BY <1>11, <1>12, <2>1, Numbers DEF NoPTE
  <2>3. NIMAGE <= NIMAGE
    BY Numbers
  <2> QED
    BY <2>1, <2>2, <2>3 DEF Extent, Present
<1>26. ASSUME NEW q \in Procs, q # p, pc[q] = "fault"
       PROVE  /\ mem'[new[q]] = mem[new[q]]
              /\ mem'[pt[q][at[q]].frame] = mem[pt[q][at[q]].frame]
  <2>1. /\ new[q] \in Frames /\ at[q] \in Pages /\ pt[q][at[q]].frame \in Frames
        /\ new[q] \notin R /\ pt[q][at[q]].frame \notin R
    BY <1>12, <1>26, FaultFrames
  <2>2. new[q] \notin Released(ref, S)
    BY <1>10, <1>19 DEF Parts
  <2>3. pt[q][at[q]].frame \notin Released(ref, S)
    BY <1>11, <1>14, <1>26, <2>1
  <2> QED
    BY <1>22, <2>1, <2>2, <2>3
<1>27. \A q \in Procs : q # p =>
         /\ pc'[q] = pc[q] /\ at'[q] = at[q] /\ new'[q] = new[q]
         /\ kern'[q] = kern[q] /\ pt'[q] = pt[q] /\ top'[q] = top[q]
  BY <1>1, <1>3, <1>11, <1>17 DEF TypeOK
<1> QED
  BY <1>3, <1>15, <1>16, <1>20, <1>21, <1>23, <1>24, <1>25, <1>26, <1>27, SoloInv
-----------------------------------------------------------------------------
(***************************************************************************)
(* The invariant holds.                                                    *)
(***************************************************************************)
LEMMA InitState ==
  ASSUME Init
  PROVE  /\ \A p \in Procs : pt[p] = IF p = InitProc THEN Loaded(BootFrames) ELSE NoPages
         /\ \A p \in Procs, v \in Pages :
              /\ pt[p][v].frame = IF p = InitProc /\ v < NIMAGE THEN v + 4 ELSE 0
              /\ pt[p][v].frame = 0 => pt[p][v] = NoPTE
              /\ ~pt[p][v].cow
         /\ \A f \in Frames : ref[f] = IF f < 4 + NIMAGE THEN 1 ELSE 0
         /\ \A p \in Procs, k \in Parts :
              kern[p][k] = IF p # InitProc \/ k = "high" THEN 0
                           ELSE IF k = "stack" THEN 1
                           ELSE IF k = "dir" THEN 2 ELSE 3
<1> HIDE DEF NIMAGE
<1>1. \A p \in Procs : pt[p] = IF p = InitProc THEN Loaded(BootFrames) ELSE NoPages
  BY DEF Init
<1>2. \A v \in Pages :
        Loaded(BootFrames)[v] =
          IF v < NIMAGE THEN [frame |-> v + 4, w |-> Image[v].w,
                              u |-> Image[v].u, cow |-> FALSE]
          ELSE NoPTE
  <2>1. ASSUME NEW v \in Pages, v < NIMAGE
        PROVE  BootFrames[v + 3] = v + 4
    <3>1. v + 3 \in 1..2 + NIMAGE /\ v + 3 + 1 = v + 4
      BY <2>1, Numbers
    <3> QED
      BY <3>1 DEF BootFrames
  <2> QED
    BY <2>1 DEF Loaded
<1>3. \A p \in Procs, v \in Pages :
        /\ pt[p][v].frame = IF p = InitProc /\ v < NIMAGE THEN v + 4 ELSE 0
        /\ pt[p][v].frame = 0 => pt[p][v] = NoPTE
        /\ ~pt[p][v].cow
  <2>1. ASSUME NEW v \in Pages, v < NIMAGE
        PROVE  Loaded(BootFrames)[v].frame = v + 4 /\ ~Loaded(BootFrames)[v].cow
               /\ v + 4 # 0
    <3>1. Loaded(BootFrames)[v] = [frame |-> v + 4, w |-> Image[v].w,
                                   u |-> Image[v].u, cow |-> FALSE]
      BY <1>2, <2>1
    <3>2. v + 4 # 0
      BY Numbers
    <3> QED
      BY <3>1, <3>2
  <2>2. ASSUME NEW v \in Pages, ~(v < NIMAGE)
        PROVE  Loaded(BootFrames)[v] = NoPTE
    BY <1>2, <2>2
  <2>3. NoPTE.frame = 0 /\ ~NoPTE.cow /\ \A v \in Pages : NoPages[v] = NoPTE
    BY DEF NoPages, NoPTE
  <2> QED
    BY <1>1, <2>1, <2>2, <2>3
<1>4. \A f \in Frames : ref[f] = IF f < 4 + NIMAGE THEN 1 ELSE 0
  BY DEF Init
<1>5. ASSUME NEW p \in Procs, NEW k \in Parts
      PROVE  kern[p][k] = IF p # InitProc \/ k = "high" THEN 0
                          ELSE IF k = "stack" THEN 1
                          ELSE IF k = "dir" THEN 2 ELSE 3
  <2>1. kern[p] = IF p = InitProc
                  THEN [NoKern EXCEPT !.stack = 1, !.dir = 2, !.low = 3]
                  ELSE NoKern
    BY DEF Init
  <2> QED
    BY <2>1 DEF NoKern, Parts, Tables
<1> QED
  BY <1>1, <1>3, <1>4, <1>5

LEMMA InvInit ==
  ASSUME Init
  PROVE  Inv
<1> HIDE DEF NIMAGE
<1>1. TypeOK /\ free = 4 + NIMAGE..NFRAMES
  BY TypeInit DEF Init
<1>2. /\ \A p \in Procs, v \in Pages :
           /\ pt[p][v].frame = IF p = InitProc /\ v < NIMAGE THEN v + 4 ELSE 0
           /\ pt[p][v].frame = 0 => pt[p][v] = NoPTE
           /\ ~pt[p][v].cow
      /\ \A f \in Frames : ref[f] = IF f < 4 + NIMAGE THEN 1 ELSE 0
      /\ \A p \in Procs, k \in Parts :
           kern[p][k] = IF p # InitProc \/ k = "high" THEN 0
                        ELSE IF k = "stack" THEN 1
                        ELSE IF k = "dir" THEN 2 ELSE 3
  BY InitState
<1>3. \A p \in Procs : /\ pc[p] = IF p = InitProc THEN "user" ELSE "unused"
                       /\ kid[p] = 0 /\ new[p] = 0 /\ at[p] = None
                       /\ top[p] = IF p = InitProc THEN NIMAGE ELSE 0
  BY DEF Init
<1>4. \A p, q \in Procs, v, w \in Pages :
        pt[p][v].frame # 0 /\ pt[p][v].frame = pt[q][w].frame => p = q /\ v = w
  BY <1>2, Numbers
<1>5. LiveEntries
  <2>1. \A p \in Procs, v \in Pages : pt[p][v].frame \notin free
    BY <1>1, <1>2, Numbers
  <2> QED
    BY <1>2, <2>1 DEF LiveEntries, Present, NoPTE
<1>6. Counted
  <2>1. ASSUME NEW f \in Frames
        PROVE  Cardinality(HoldersIn(pt, f)) <= ref[f]
    <3>1. CASE f < 4 + NIMAGE
      <4>1. \A p, q \in Procs, v, w \in Pages :
              pt[p][v].frame = f /\ pt[q][w].frame = f => p = q /\ v = w
        BY <1>4, Numbers
      <4> QED
        BY <1>2, <3>1, <4>1, HoldersSingle
    <3>2. CASE ~(f < 4 + NIMAGE)
      <4>1. \A p \in Procs, v \in Pages : pt[p][v].frame # f
        BY <1>2, <3>2, Numbers
      <4>2. HoldersIn(pt, f) = {}
        BY <4>1 DEF HoldersIn
      <4> QED
        BY <1>2, <3>2, <4>2, FS_EmptySet
    <3> QED
      BY <3>1, <3>2
  <2> QED
    BY <2>1 DEF Counted, Covers
<1>7. KernelsApart
  <2>1. \A p, q \in Procs, k, l \in Parts :
          kern[p][k] # 0 /\ kern[p][k] = kern[q][l] => p = q /\ k = l
    BY <1>2 DEF Parts, Tables
  <2>2. \A p \in Procs, k \in Parts : kern[p][k] \in 0..3
    BY <1>2
  <2>3. \A p \in Procs, v \in Pages : pt[p][v].frame = 0 \/ pt[p][v].frame > 3
    BY <1>2, Numbers
  <2>4. \A f \in free : f > 3
    BY <1>1, Numbers
  <2> QED
    BY <1>3, <2>1, <2>2, <2>3, <2>4 DEF KernelsApart, Present
<1>8. Alone
  <2>1. \A p \in Procs, v \in Pages : pt[p][v].w => pt[p][v].frame # 0
    BY <1>2 DEF NoPTE
  <2> QED
    BY <1>4, <2>1 DEF Alone
<1>9. ASSUME NEW p \in Procs
      PROVE  Slot(p) /\ Fault(p) /\ Fork(p) /\ Extent(p)
  <2>1. p # InitProc => kern[p] = NoKern
    BY DEF Init
  <2>2. Slot(p)
    <3>1. "stack" \in Parts
      BY DEF Parts
    <3>2. pc[p] # "unused" => kern[p].stack # 0
      BY <1>2, <1>3, <3>1
    <3> QED
      BY <1>2, <1>3, <2>1, <3>2 DEF Slot, Present
  <2>3. Fault(p) /\ Fork(p)
    BY <1>3 DEF Fault, Fork
  <2>4. Extent(p)
    <3>1. \A v \in Low : v \in Pages
      BY Numbers
    <3> QED
      BY <1>2, <1>3, <3>1, Numbers DEF Extent, Running, Present
  <2> QED
    BY <2>2, <2>3, <2>4
<1> QED
  BY <1>1, <1>5, <1>6, <1>7, <1>8, <1>9 DEF Inv

LEMMA InvStep ==
  ASSUME Inv, [Next]_vars
  PROVE  Inv'
<1>1. CASE UNCHANGED vars
  BY <1>1 DEF vars, Inv, TypeOK, LiveEntries, Counted, Covers, HoldersIn,
     KernelsApart, Alone, Slot, Fault, Fork, CopiedSoFar, Extent, Running, Present
<1>2. CASE Next
  <2>1. ASSUME NEW p \in Procs, NEW c \in Procs, ForkStack(p, c) PROVE Inv'
    BY <2>1, ForkStackStep
  <2>2. ASSUME NEW p \in Procs, NEW c \in Procs, Reap(p, c) PROVE Inv'
    BY <2>2, ReapStep
  <2>3. ASSUME NEW p \in Procs,
               ForkDir(p) \/ CopyPage(p) \/ ForkFails(p) \/ ForkDone(p)
        PROVE  Inv'
    BY <2>3, ForkDirStep, CopyPageStep, ForkFailsStep, ForkDoneStep
  <2>4. ASSUME NEW p \in Procs, NEW v \in Pages,
               Write(p, v) \/ CowFault(p, v) \/ LazyFault(p, v)
        PROVE  Inv'
    BY <2>4, WriteStep, CowFaultStep, LazyFaultStep
  <2>5. ASSUME NEW p \in Procs, NEW v \in Pages, SegFault(p, v) \/ OutOfMemory(p, v)
        PROVE  Inv'
    <3>1. pc[p] = "user" /\ Killed(p)
      BY <2>5 DEF SegFault, OutOfMemory
    <3> QED
      BY <3>1, KilledStep
  <2>6. ASSUME NEW p \in Procs, CowSwitch(p) \/ SbrkGrow(p) \/ SbrkShrink(p)
        PROVE  Inv'
    BY <2>6, CowSwitchStep, SbrkGrowStep, SbrkShrinkStep
  <2>7. ASSUME NEW p \in Procs, NEW m \in Windows, wmap(p, m) \/ wunmap(p, m)
        PROVE  Inv'
    <3>1. m \in SUBSET High
      <4>1. PICK l \in High, h \in High : m = l..h
        BY DEF Windows
      <4> QED
        BY <4>1, Numbers DEF High
    <3> QED
      BY <2>7, <3>1, wmapStep, wunmapStep
  <2>8. ASSUME NEW p \in Procs, Exec(p) \/ Exit(p)
        PROVE  Inv'
    BY <2>8, ExecStep, ExitStep
  <2> QED
    BY <1>2, <2>1, <2>2, <2>3, <2>4, <2>5, <2>6, <2>7, <2>8 DEF Next
<1> QED
  BY <1>1, <1>2

\* The parts of the invariant hold together, whatever forks, faults and exits
\* interleave.
THEOREM Invariance == Spec => []Inv
<1>1. Init => Inv
  BY InvInit
<1>2. Inv /\ [Next]_vars => Inv'
  BY InvStep
<1> QED
  BY <1>1, <1>2, PTL DEF Spec

LEMMA HoldersAre ==
  ASSUME NEW f
  PROVE  Holders(f) = HoldersIn(pt, f)
BY DEF Holders, HoldersIn

\* Every use of a frame by the kernel has one of its own, which is neither free
\* nor in a page table.
LEMMA UsesApart ==
  ASSUME Inv
  PROVE  /\ \A a, b \in Uses : FrameOf(a) = FrameOf(b) => a = b
         /\ \A a \in Uses : /\ FrameOf(a) # 0 /\ FrameOf(a) \notin free
                            /\ \A q \in Procs, v \in Pages : pt[q][v].frame # FrameOf(a)
<1> DEFINE K == {a \in Procs \X Parts : kern[a[1]][a[2]] # 0}
           N == {<<p, "new">> : p \in {q \in Procs : new[q] # 0}}
<1>1. KernelsApart
  BY DEF Inv
<1>2. DOMAIN NoKern = Parts
  BY DEF NoKern, Parts
<1>3. Uses = K \cup N
  BY <1>2 DEF Uses
<1>4. ASSUME NEW a \in K
      PROVE  /\ a = <<a[1], a[2]>> /\ a[1] \in Procs /\ a[2] \in Parts
             /\ FrameOf(a) = kern[a[1]][a[2]] /\ FrameOf(a) # 0
  BY DEF FrameOf, Parts, Tables
<1>5. ASSUME NEW a \in N
      PROVE  /\ a = <<a[1], "new">> /\ a[1] \in Procs
             /\ FrameOf(a) = new[a[1]] /\ FrameOf(a) # 0
  BY DEF FrameOf
<1> HIDE DEF K, N
<1>6. ASSUME NEW a \in K
      PROVE  /\ FrameOf(a) # 0 /\ FrameOf(a) \notin free
             /\ \A q \in Procs, v \in Pages : pt[q][v].frame # FrameOf(a)
  <2>1. FrameOf(a) # 0 /\ FrameOf(a) \notin free
    BY <1>1, <1>4 DEF KernelsApart
  <2>2. \A q \in Procs, v \in Pages : Present(q, v) => pt[q][v].frame # FrameOf(a)
    BY <1>1, <1>4 DEF KernelsApart
  <2> QED
    BY <2>1, <2>2 DEF Present
<1>7. ASSUME NEW a \in N
      PROVE  /\ FrameOf(a) # 0 /\ FrameOf(a) \notin free
             /\ \A q \in Procs, v \in Pages : pt[q][v].frame # FrameOf(a)
  <2>1. FrameOf(a) # 0 /\ FrameOf(a) \notin free
    BY <1>1, <1>5 DEF KernelsApart
  <2>2. \A q \in Procs, v \in Pages : Present(q, v) => pt[q][v].frame # FrameOf(a)
    BY <1>1, <1>5 DEF KernelsApart
  <2> QED
    BY <2>1, <2>2 DEF Present
<1>8. \A a, b \in K : FrameOf(a) = FrameOf(b) => a = b
  <2> SUFFICES ASSUME NEW a \in K, NEW b \in K, FrameOf(a) = FrameOf(b) PROVE a = b
    OBVIOUS
  <2>1. a[1] = b[1] /\ a[2] = b[2]
    BY <1>1, <1>4 DEF KernelsApart
  <2> QED
    BY <1>4, <2>1
<1>9. \A a, b \in N : FrameOf(a) = FrameOf(b) => a = b
  <2> SUFFICES ASSUME NEW a \in N, NEW b \in N, FrameOf(a) = FrameOf(b) PROVE a = b
    OBVIOUS
  <2>1. a[1] = b[1]
    BY <1>1, <1>5 DEF KernelsApart
  <2> QED
    BY <1>5, <2>1
<1>10. \A a \in K, b \in N : FrameOf(a) # FrameOf(b)
  BY <1>1, <1>4, <1>5 DEF KernelsApart
<1> QED
  BY <1>3, <1>6, <1>7, <1>8, <1>9, <1>10

LEMMA UsesCounted ==
  ASSUME Inv
  PROVE  Cardinality(KernelFrames) = Cardinality(Uses)
<1>1. IsFiniteSet(Uses)
  <2> DEFINE U == Procs \X (Parts \cup {"new"})
  <2>1. IsFiniteSet(Procs)
    BY Numbers, FS_Interval DEF Procs
  <2>2. IsFiniteSet(Parts \cup {"new"})
    <3>1. Parts \cup {"new"} =
            {"stack"} \cup ({"dir"} \cup ({"low"} \cup ({"high"} \cup {"new"})))
      BY DEF Parts, Tables
    <3>2. \A k : IsFiniteSet({k})
      BY FS_Singleton
    <3> QED
      BY <3>1, <3>2, FS_Union
  <2>3. IsFiniteSet(U)
    BY <2>1, <2>2, FS_Product
  <2>4. Uses \in SUBSET U
    BY DEF Uses, NoKern, Parts
  <2> QED
    BY <2>3, <2>4, FS_Subset
<1> DEFINE g == [a \in Uses |-> FrameOf(a)]
<1>2. g \in Bijection(Uses, KernelFrames)
  BY UsesApart DEF KernelFrames, Bijection, Injection, Surjection, IsInjective
<1>3. ExistsBijection(Uses, KernelFrames)
  BY <1>2 DEF ExistsBijection
<1> QED
  BY <1>1, <1>3, FS_Bijection

\* Every field of the state keeps its type, in particular no count of references
\* goes below 0 and a program's sz stays between 0 and the window.
THEOREM TypesKept == Spec => []TypeOK
<1>1. Inv => TypeOK
  BY DEF Inv
<1> QED
  BY <1>1, Invariance, PTL

\* kfree() puts no frame on the free list that a page table still maps or that
\* the kernel uses, for any interleaving of forks that copy page by page, faults
\* that lower a count under a lock of its own, exec(), wunmap(), exit() and
\* wait(): no frame is ever counted less often than it is mapped.
THEOREM NothingMappedIsFree == Spec => []CountCoversHolders
<1>1. ASSUME Inv PROVE CountCoversHolders
  <2>1. TypeOK /\ LiveEntries /\ Counted
    BY <1>1 DEF Inv
  <2>2. ASSUME NEW p \in Procs, NEW f \in UserFrames(p)
        PROVE  f \notin free /\ Cardinality(Holders(f)) <= ref[f]
    <3>1. f \in Frames
      BY <2>1, FramesOfPages
    <3> QED
      BY <2>1, <3>1, HoldersAre DEF UserFrames, LiveEntries, Counted, Covers
  <2>3. KernelFrames \cap free = {}
    BY <1>1, UsesApart DEF KernelFrames
  <2> QED
    BY <2>1, <2>2, <2>3 DEF CountCoversHolders
<1> QED
  BY <1>1, Invariance, PTL

\* What a process may write is mapped once, and the kernel's stacks, tables and
\* half filled pages are in no page table and used once.
THEOREM WritersShareNothing == Spec => []WritersAlone
<1>1. ASSUME Inv PROVE WritersAlone
  <2>1. ASSUME NEW p \in Procs, NEW v \in Pages, pt[p][v].w
        PROVE  Holders(pt[p][v].frame) = {<<p, v>>}
    BY <1>1, <2>1 DEF Inv, Alone, Holders
  <2>2. Cardinality(KernelFrames) = Cardinality(Uses)
    BY <1>1, UsesCounted
  <2>3. ASSUME NEW p \in Procs PROVE KernelFrames \cap UserFrames(p) = {}
    BY <1>1, UsesApart DEF KernelFrames, UserFrames
  <2> QED
    BY <2>1, <2>2, <2>3 DEF WritersAlone
<1> QED
  BY <1>1, Invariance, PTL

-----------------------------------------------------------------------------
(***************************************************************************)
(* Copy on write implements private memories: every step of CowMem is a    *)
(* step of PrivateMemory or none.                                          *)
(***************************************************************************)
\* The pages of its program a process has, and what it reads in them.
Owned(p) == {v \in Low : pt[p][v].frame # 0}
Seen(p) == [v \in Owned(p) |-> mem[pt[p][v].frame]]

\* The memory of a process, now and after a step.
LEMMA MemoryIs ==
  /\ \A p \in Procs : Memory[p] = IF Running(p) THEN Seen(p) ELSE PM!NoMemory
  /\ \A p \in Procs : Memory'[p] = IF Running(p)' THEN Seen(p)' ELSE PM!NoMemory
  /\ Memory = [p \in Procs |-> Memory[p]]
  /\ Memory' = [p \in Procs |-> Memory'[p]]
<1>1. \A p \in Procs : Memory[p] = IF Running(p) THEN Seen(p) ELSE PM!NoMemory
  BY DEF Memory, Running, Seen, Owned, Present, PM!NoMemory
<1>2. \A p \in Procs : Memory'[p] = IF Running(p)' THEN Seen(p)' ELSE PM!NoMemory
  BY DEF Memory, Running, Seen, Owned, Present, PM!NoMemory
<1> QED
  BY <1>1, <1>2 DEF Memory

\* A step that leaves a process its pages and what they hold leaves its memory.
LEMMA ProgramKept ==
  ASSUME NEW p \in Procs, Running(p) <=> Running(p)',
         Running(p) =>
           \A v \in Low :
             /\ pt'[p][v].frame # 0 <=> pt[p][v].frame # 0
             /\ pt[p][v].frame # 0 =>
                  mem'[pt'[p][v].frame] = mem[pt[p][v].frame]
  PROVE  Memory'[p] = Memory[p]
<1>1. CASE Running(p)
  <2>1. Owned(p)' = Owned(p)
    BY <1>1 DEF Owned
  <2>2. Seen(p)' = Seen(p)
    BY <1>1, <2>1 DEF Seen, Owned
  <2> QED
    BY <1>1, <2>2, MemoryIs
<1> QED
  BY <1>1, MemoryIs

LEMMA MemoryKept ==
  ASSUME NEW p \in Procs, Running(p) <=> Running(p)',
         Running(p) =>
           \A v \in Pages :
             /\ pt'[p][v].frame # 0 <=> pt[p][v].frame # 0
             /\ pt[p][v].frame # 0 =>
                  mem'[pt'[p][v].frame] = mem[pt[p][v].frame]
  PROVE  Memory'[p] = Memory[p]
<1>1. Running(p) =>
        \A v \in Low :
          /\ pt'[p][v].frame # 0 <=> pt[p][v].frame # 0
          /\ pt[p][v].frame # 0 =>
               mem'[pt'[p][v].frame] = mem[pt[p][v].frame]
  BY Numbers
<1> QED
  BY <1>1, ProgramKept

LEMMA Stutters ==
  ASSUME \A p \in Procs : Memory'[p] = Memory[p]
  PROVE  UNCHANGED Memory
BY MemoryIs

LEMMA Operates ==
  ASSUME NEW p \in Procs,
         \A q \in Procs : q # p => Memory'[q] = Memory[q],
         PM!Operation(p, Memory[p], Memory'[p])
  PROVE  PM!Next
<1>1. DOMAIN Memory' = Procs
  BY MemoryIs
<1> QED
  BY <1>1 DEF PM!Next, PM!Change

\* What a step takes from the free list no page held, and what it gives back no
\* page holds.
LEMMA TakenOnly ==
  ASSUME Inv, NEW R \in SUBSET free,
         \A f \in Frames : f \notin R => mem'[f] = mem[f]
  PROVE  \A p \in Procs, v \in Pages :
           pt[p][v].frame # 0 => mem'[pt[p][v].frame] = mem[pt[p][v].frame]
<1>1. TypeOK /\ LiveEntries
  BY DEF Inv
<1>2. \A p \in Procs, v \in Pages : pt[p][v].frame # 0 => pt[p][v].frame \in Frames \ R
  BY <1>1, FramesOfPages DEF LiveEntries
<1> QED
  BY <1>2

LEMMA GivenOnly ==
  ASSUME Inv', NEW S, NEW rf, kfree(free, rf, S)
  PROVE  \A p \in Procs, v \in Pages :
           pt'[p][v].frame # 0 => mem'[pt'[p][v].frame] = mem[pt'[p][v].frame]
<1>1. TypeOK' /\ LiveEntries'
  BY DEF Inv
<1>2. \A p \in Procs, v \in Pages :
        /\ pt'[p][v].frame \in Frames \cup {0}
        /\ pt'[p][v].frame \notin Released(rf, S)
  BY <1>1 DEF TypeOK, PTE, LiveEntries, kfree
<1> QED
  BY <1>2 DEF kfree

\* A running program has memory.
LEMMA HasMemory ==
  ASSUME Inv, NEW p \in Procs, pc[p] = "user"
  PROVE  Running(p) /\ Memory[p] = Seen(p) /\ Memory[p] # PM!NoMemory
<1>1. Running(p) /\ Memory[p] = Seen(p)
  BY MemoryIs DEF Running
<1>2. 0 \in Low /\ 0 < top[p]
  BY <1>1, Facts, Numbers DEF Extent, Low, Inv, TypeOK
<1>3. 0 \in DOMAIN Seen(p)
  BY <1>1, <1>2, Facts, Numbers DEF Extent, Present, Seen, Owned
<1>4. 0 \notin DOMAIN PM!NoMemory
  BY DEF PM!NoMemory
<1> QED
  BY <1>1, <1>3, <1>4
-----------------------------------------------------------------------------
\* fork(): nothing happens until its last step, which hands the child its
\* parent's memory.
LEMMA ForkStackHides ==
  ASSUME Inv, NEW p \in Procs, NEW c \in Procs, ForkStack(p, c)
  PROVE  UNCHANGED Memory
<1>1. PICK s \in Grabs(free, 1) : kalloc(s)
  BY DEF ForkStack
<1>2. s[1] \in free /\ Range(s) = {s[1]}
  BY FreeGrabbed
<1>3. \A f \in Frames : f \notin {s[1]} => mem'[f] = mem[f]
  BY <1>1, <1>2 DEF kalloc
<1>4. \A q \in Procs, v \in Pages :
        pt[q][v].frame # 0 => mem'[pt[q][v].frame] = mem[pt[q][v].frame]
  BY <1>2, <1>3, TakenOnly
<1>5. \A q \in Procs : Running(q) <=> Running(q)'
  BY DEF ForkStack, Running, Inv, TypeOK
<1>6. pt' = pt
  BY DEF ForkStack
<1>7. \A q \in Procs : Memory'[q] = Memory[q]
  BY <1>4, <1>5, <1>6, MemoryKept
<1> QED
  BY <1>7, Stutters

LEMMA ForkDirHides ==
  ASSUME Inv, NEW p \in Procs, ForkDir(p)
  PROVE  UNCHANGED Memory
<1>1. PICK s \in Grabs(free, 1) : kalloc(s)
  BY DEF ForkDir
<1>2. s[1] \in free /\ Range(s) = {s[1]}
  BY FreeGrabbed
<1>3. \A f \in Frames : f \notin {s[1]} => mem'[f] = mem[f]
  BY <1>1, <1>2 DEF kalloc
<1>4. \A q \in Procs, v \in Pages :
        pt[q][v].frame # 0 => mem'[pt[q][v].frame] = mem[pt[q][v].frame]
  BY <1>2, <1>3, TakenOnly
<1>5. pt' = pt /\ pc' = pc
  BY DEF ForkDir
<1>6. \A q \in Procs : Memory'[q] = Memory[q]
  BY <1>4, <1>5, MemoryKept DEF Running
<1> QED
  BY <1>6, Stutters

LEMMA CopyPageHides ==
  ASSUME Inv, NEW p \in Procs, CopyPage(p)
  PROVE  UNCHANGED Memory
<1> DEFINE c == kid[p]
           v == at[p]
<1>1. /\ pc[p] = "fork" /\ c \in Procs /\ pc[c] = "embryo" /\ c # p /\ TypeOK
      /\ v \in Pages
  BY ForkKid DEF CopyPage, Inv, TypeOK
<1>2. /\ pt' = [pt EXCEPT ![p][v] = Protected(@), ![c][v] = ChildEntry(pt[p][v])]
      /\ pc' = pc
  BY DEF CopyPage
<1>3. pt[p][v] \in PTE
  BY <1>1, FramesOfPages
<1> HIDE DEF c, v
<1>4. ASSUME NEW q \in Procs, NEW w \in Pages, q # c
      PROVE  pt'[q][w].frame = pt[q][w].frame
  <2>1. pt'[q] = IF q = p THEN [pt[p] EXCEPT ![v] = Protected(@)] ELSE pt[q]
    BY <1>1, <1>2, <1>4 DEF TypeOK
  <2>2. Protected(pt[p][v]).frame = pt[p][v].frame
    BY <1>3, EntriesOfFork
  <2> QED
    BY <1>1, <2>1, <2>2 DEF TypeOK
<1>5. PICK R \in SUBSET free : \A f \in Frames : f \notin R => mem'[f] = mem[f]
  <2>1. CASE UNCHANGED mem
    BY <2>1
  <2>2. CASE \E s \in Grabs(free, 1) : mem' = [mem EXCEPT ![s[1]] = Zero]
    <3>1. PICK s \in Grabs(free, 1) : mem' = [mem EXCEPT ![s[1]] = Zero]
      BY <2>2
    <3>2. s[1] \in free
      BY FreeGrabbed
    <3>3. {s[1]} \in SUBSET free /\ \A f \in Frames : f \notin {s[1]} => mem'[f] = mem[f]
      BY <1>1, <3>1, <3>2 DEF TypeOK
    <3> QED
      BY <3>3
  <2> QED
    BY <2>1, <2>2 DEF CopyPage
<1>6. \A q \in Procs, w \in Pages :
        pt[q][w].frame # 0 => mem'[pt[q][w].frame] = mem[pt[q][w].frame]
  BY <1>5, TakenOnly
<1>7. ASSUME NEW q \in Procs, q # c PROVE Memory'[q] = Memory[q]
  <2>1. Running(q) <=> Running(q)'
    BY <1>2 DEF Running
  <2>2. \A w \in Pages : /\ pt'[q][w].frame # 0 <=> pt[q][w].frame # 0
                         /\ pt[q][w].frame # 0 =>
                              mem'[pt'[q][w].frame] = mem[pt[q][w].frame]
    BY <1>4, <1>6, <1>7
  <2> QED
    BY <2>1, <2>2, MemoryKept
<1>8. Memory'[c] = Memory[c]
  BY <1>1, <1>2, MemoryKept DEF Running
<1> QED
  BY <1>7, <1>8, Stutters

LEMMA ForkFailsHides ==
  ASSUME Inv, Inv', NEW p \in Procs, ForkFails(p)
  PROVE  UNCHANGED Memory
<1> DEFINE c == kid[p]
           v == at[p]
<1>1. /\ pc[p] = "fork" /\ c \in Procs /\ pc[c] = "embryo" /\ c # p /\ TypeOK
      /\ v \in Pages \cup {None}
  BY ForkKid DEF ForkFails, Inv, TypeOK
<1>2. /\ \A q \in Procs : pt'[q] = IF q = c THEN NoPages
                                   ELSE IF q = p /\ v # None
                                   THEN [pt[p] EXCEPT ![v] = Protected(@)]
                                   ELSE pt[q]
      /\ pc' = [pc EXCEPT ![p] = "user", ![c] = "unused"]
  BY DEF ForkFails
<1>3. v # None => pt[p][v] \in PTE
  BY <1>1, FramesOfPages
<1>4. \E rf, S : kfree(free, rf, S)
  BY DEF ForkFails
<1>5. \A q \in Procs, w \in Pages :
        pt'[q][w].frame # 0 => mem'[pt'[q][w].frame] = mem[pt'[q][w].frame]
  BY <1>4, GivenOnly
<1> HIDE DEF c, v
<1>6. \A q \in Procs, w \in Pages : q # c => pt'[q][w].frame = pt[q][w].frame
  BY <1>1, <1>2, <1>3, EntriesOfFork DEF TypeOK
<1>7. ASSUME NEW q \in Procs PROVE Memory'[q] = Memory[q]
  <2>1. Running(q) <=> Running(q)'
    BY <1>1, <1>2 DEF Running, TypeOK
  <2>2. CASE q # c
    <3>1. \A w \in Pages : /\ pt'[q][w].frame # 0 <=> pt[q][w].frame # 0
                           /\ pt[q][w].frame # 0 =>
                                mem'[pt'[q][w].frame] = mem[pt[q][w].frame]
      BY <1>5, <1>6, <2>2
    <3> QED
      BY <2>1, <3>1, MemoryKept
  <2>3. CASE q = c
    BY <1>1, <2>1, <2>3, MemoryKept DEF Running
  <2> QED
    BY <2>2, <2>3
<1> QED
  BY <1>7, Stutters

LEMMA ForkDoneCopies ==
  ASSUME Inv, NEW p \in Procs, ForkDone(p)
  PROVE  PM!Next
<1>1. PICK c \in Procs :
        /\ c = kid[p]
        /\ pc[p] = "fork" /\ pc[c] = "embryo" /\ c # p /\ TypeOK
        /\ kern[c].dir # 0 /\ at[p] = None
  BY ForkKid DEF ForkDone, Inv
<1>2. /\ UNCHANGED <<pt, mem>> /\ pc' = [pc EXCEPT ![p] = "user", ![c] = "user"]
  BY <1>1 DEF ForkDone, kmem
<1>3. CopiedSoFar(p)
  BY <1>1, Facts DEF Fork
<1>4. \A v \in Pages : pt[c][v].frame = pt[p][v].frame
  BY <1>1, <1>3 DEF CopiedSoFar
<1>5. ASSUME NEW q \in Procs, q # c PROVE Memory'[q] = Memory[q]
  <2>1. Running(q) <=> Running(q)'
    BY <1>1, <1>2, <1>5 DEF Running, TypeOK
  <2> QED
    BY <1>2, <2>1, MemoryKept
<1>6. Running(p) /\ ~Running(c) /\ Running(c)'
  BY <1>1, <1>2 DEF Running, TypeOK
<1>7. Memory'[c] = Memory[p] /\ Memory[c] = PM!NoMemory
  <2>1. Seen(c)' = Seen(p)
    BY <1>2, <1>4, Numbers DEF Seen, Owned
  <2> QED
    BY <1>1, <1>6, <2>1, MemoryIs
<1>8. PM!Operation(c, Memory[c], Memory'[c])
  BY <1>7 DEF PM!Operation, PM!Born
<1> QED
  BY <1>1, <1>5, <1>8, Operates
-----------------------------------------------------------------------------
\* A write changes the writer's page and nobody else's; a fault, in both its
\* steps, changes what no one can see.
LEMMA WriteIsPrivate ==
  ASSUME Inv, NEW p \in Procs, NEW v \in Pages, Write(p, v)
  PROVE  PM!Next \/ UNCHANGED Memory
<1>1. /\ pc[p] = "user" /\ pt[p][v].frame # 0 /\ pt[p][v].w
      /\ mem' = [mem EXCEPT ![pt[p][v].frame] = p]
      /\ UNCHANGED <<pt, pc>> /\ TypeOK /\ Alone
  BY DEF Write, Present, space, Inv
<1>2. \A q \in Procs, w \in Pages :
        pt[q][w].frame # 0 =>
          mem'[pt[q][w].frame] = IF q = p /\ w = v THEN p ELSE mem[pt[q][w].frame]
  <2>1. \A q \in Procs, w \in Pages : pt[q][w].frame \in Frames \cup {0}
    BY <1>1, FramesOfPages
  <2>2. \A q \in Procs, w \in Pages :
          pt[q][w].frame = pt[p][v].frame => q = p /\ w = v
    BY <1>1 DEF Alone
  <2> QED
    BY <1>1, <2>1, <2>2 DEF TypeOK
<1>3. ASSUME NEW q \in Procs, q # p PROVE Memory'[q] = Memory[q]
  BY <1>1, <1>2, <1>3, MemoryKept DEF Running
<1>4. Memory[p] = Seen(p) /\ Memory'[p] = Seen(p)'
  BY <1>1, MemoryIs DEF Running
<1>5. Owned(p)' = Owned(p)
  BY <1>1 DEF Owned
<1>6. \A w \in Owned(p) : mem'[pt'[p][w].frame] =
                            IF w = v THEN p ELSE mem[pt[p][w].frame]
  BY <1>1, <1>2, Numbers DEF Owned
<1>7. Seen(p)' = [w \in Owned(p) |-> IF w = v THEN p ELSE mem[pt[p][w].frame]]
  BY <1>5, <1>6 DEF Seen
<1>8. CASE v \in Low
  <2>1. v \in Owned(p)
    BY <1>1, <1>8 DEF Owned
  <2>2. Seen(p)' = [Seen(p) EXCEPT ![v] = p]
    BY <1>7, <2>1 DEF Seen
  <2>3. PM!Operation(p, Memory[p], Memory'[p])
    BY <1>4, <2>1, <2>2 DEF PM!Operation, PM!Write, Seen
  <2> QED
    BY <1>3, <2>3, Operates
<1>9. CASE v \notin Low
  <2>1. Seen(p)' = Seen(p)
    BY <1>7, <1>9 DEF Seen, Owned
  <2>2. \A q \in Procs : Memory'[q] = Memory[q]
    BY <1>3, <1>4, <2>1
  <2> QED
    BY <2>2, Stutters
<1> QED
  BY <1>8, <1>9

LEMMA CowFaultHides ==
  ASSUME Inv, NEW p \in Procs, NEW v \in Pages, CowFault(p, v)
  PROVE  UNCHANGED Memory
<1>1. PICK s \in Grabs(free, 1) : mem' = [mem EXCEPT ![s[1]] = mem[pt[p][v].frame]]
  BY DEF CowFault, Copied
<1>2. /\ pc[p] = "user" /\ pt' = pt /\ pc' = [pc EXCEPT ![p] = "fault"] /\ TypeOK
  BY DEF CowFault, space, Inv
<1>3. s[1] \in free
  BY FreeGrabbed
<1>4. \A f \in Frames : f \notin {s[1]} => mem'[f] = mem[f]
  BY <1>1, <1>2 DEF TypeOK
<1>5. \A q \in Procs, w \in Pages :
        pt[q][w].frame # 0 => mem'[pt[q][w].frame] = mem[pt[q][w].frame]
  BY <1>3, <1>4, TakenOnly
<1>6. \A q \in Procs : Running(q) <=> Running(q)'
  BY <1>2 DEF Running, TypeOK
<1>7. \A q \in Procs : Memory'[q] = Memory[q]
  BY <1>2, <1>5, <1>6, MemoryKept
<1> QED
  BY <1>7, Stutters

LEMMA CowSwitchHides ==
  ASSUME Inv, NEW p \in Procs, CowSwitch(p)
  PROVE  UNCHANGED Memory
<1>1. PICK v \in Pages, g \in Frames :
        /\ v = at[p] /\ g = new[p] /\ pc[p] = "fault" /\ TypeOK
        /\ pt[p][v].frame # 0 /\ g # 0 /\ mem[g] = mem[pt[p][v].frame]
  BY FaultFrames, Facts, Numbers DEF CowSwitch, Fault, Inv
<1>2. /\ pt' = [pt EXCEPT ![p][v] = Mapped(g)] /\ mem' = mem
      /\ pc' = [pc EXCEPT ![p] = "user"]
  BY <1>1 DEF CowSwitch
<1>3. \A q \in Procs : Running(q) <=> Running(q)'
  BY <1>1, <1>2 DEF Running, TypeOK
<1>4. ASSUME NEW q \in Procs, NEW w \in Pages
      PROVE  pt'[q][w].frame = IF q = p /\ w = v THEN g ELSE pt[q][w].frame
  BY <1>1, <1>2 DEF TypeOK, Mapped
<1>5. ASSUME NEW q \in Procs PROVE Memory'[q] = Memory[q]
  <2>1. \A w \in Pages : /\ pt'[q][w].frame # 0 <=> pt[q][w].frame # 0
                         /\ pt[q][w].frame # 0 =>
                              mem'[pt'[q][w].frame] = mem[pt[q][w].frame]
    BY <1>1, <1>2, <1>4
  <2> QED
    BY <1>3, <2>1, MemoryKept
<1> QED
  BY <1>5, Stutters

LEMMA KilledHides ==
  ASSUME Inv, NEW p \in Procs, pc[p] = "user", Killed(p)
  PROVE  UNCHANGED Memory
<1>1. /\ UNCHANGED <<pt, mem>> /\ pc' = [pc EXCEPT ![p] = "killed"] /\ TypeOK
  BY DEF Killed, kmem, space, Inv
<1>2. \A q \in Procs : Running(q) <=> Running(q)'
  BY <1>1 DEF Running, TypeOK
<1>3. \A q \in Procs : Memory'[q] = Memory[q]
  BY <1>1, <1>2, MemoryKept
<1> QED
  BY <1>3, Stutters
-----------------------------------------------------------------------------
\* One page more, cleared; some pages less.
LEMMA OnePageMore ==
  ASSUME Inv, NEW p \in Procs, NEW v \in Low, NEW R \in SUBSET free,
         NEW g \in R,
         pc[p] = "user", pc' = pc, ~Present(p, v),
         mem' = [f \in Frames |-> IF f \in R THEN Zero ELSE mem[f]],
         pt' = [pt EXCEPT ![p][v] = Mapped(g)]
  PROVE  PM!Next
<1>1. TypeOK /\ g \in Frames /\ g # 0 /\ v \in Pages
  BY FreeFrame, Numbers DEF Inv
<1>2. \A q \in Procs, w \in Pages :
        pt'[q][w].frame = IF q = p /\ w = v THEN g ELSE pt[q][w].frame
  BY <1>1 DEF TypeOK, Mapped
<1>3. \A q \in Procs, w \in Pages :
        pt[q][w].frame # 0 => mem'[pt[q][w].frame] = mem[pt[q][w].frame]
  <2>1. \A f \in Frames : f \notin R => mem'[f] = mem[f]
    OBVIOUS
  <2> QED
    BY <2>1, TakenOnly
<1>4. mem'[g] = Zero
  BY <1>1
<1>5. ASSUME NEW q \in Procs, q # p PROVE Memory'[q] = Memory[q]
  <2>1. \A w \in Pages : /\ pt'[q][w].frame # 0 <=> pt[q][w].frame # 0
                         /\ pt[q][w].frame # 0 =>
                              mem'[pt'[q][w].frame] = mem[pt[q][w].frame]
    BY <1>2, <1>3, <1>5
  <2> QED
    BY <2>1, MemoryKept DEF Running
<1>6. Memory[p] = Seen(p) /\ Memory[p] # PM!NoMemory /\ Memory'[p] = Seen(p)'
  BY HasMemory, MemoryIs DEF Running
<1>7. Owned(p)' = Owned(p) \cup {v} /\ v \notin Owned(p)
  BY <1>1, <1>2, Numbers DEF Owned, Present
<1>8. Seen(p)' = [w \in Owned(p) \cup {v} |-> IF w = v THEN Zero ELSE Seen(p)[w]]
  <2>1. \A w \in Owned(p) \cup {v} :
          mem'[pt'[p][w].frame] = IF w = v THEN Zero ELSE Seen(p)[w]
    <3>1. ASSUME NEW w \in Owned(p), w # v
          PROVE  mem'[pt'[p][w].frame] = Seen(p)[w]
      <4>1. w \in Pages /\ pt[p][w].frame # 0 /\ Seen(p)[w] = mem[pt[p][w].frame]
        BY <3>1, Numbers DEF Owned, Seen
      <4>2. pt'[p][w].frame = pt[p][w].frame
        BY <1>2, <3>1, <4>1
      <4>3. mem'[pt[p][w].frame] = mem[pt[p][w].frame]
        BY <1>3, <4>1
      <4> QED
        BY <4>1, <4>2, <4>3
    <3>2. mem'[pt'[p][v].frame] = Zero
      <4>1. pt'[p][v].frame = g
        BY <1>1, <1>2
      <4> QED
        BY <1>4, <4>1
    <3> QED
      BY <3>1, <3>2
  <2> QED
    BY <1>7, <2>1 DEF Seen
<1>9. DOMAIN Seen(p) = Owned(p)
  BY DEF Seen
<1>10. PM!Gain(Memory[p], Memory'[p])
  BY <1>6, <1>7, <1>8, <1>9 DEF PM!Gain
<1> QED
  BY <1>5, <1>10, Operates DEF PM!Operation

LEMMA PagesGone ==
  ASSUME Inv, Inv', NEW p \in Procs, NEW W, NEW S, NEW rf,
         pc[p] = "user", pc' = pc, kfree(free, rf, S),
         \A v \in Pages : pt'[p][v].frame = IF v \in W THEN 0 ELSE pt[p][v].frame,
         \A q \in Procs : q # p => pt'[q] = pt[q]
  PROVE  PM!Next
<1>1. \A q \in Procs, v \in Pages :
        pt'[q][v].frame # 0 => mem'[pt'[q][v].frame] = mem[pt'[q][v].frame]
  BY GivenOnly
<1>2. ASSUME NEW q \in Procs, q # p PROVE Memory'[q] = Memory[q]
  <2>1. \A w \in Pages : /\ pt'[q][w].frame # 0 <=> pt[q][w].frame # 0
                         /\ pt[q][w].frame # 0 =>
                              mem'[pt'[q][w].frame] = mem[pt[q][w].frame]
    BY <1>1, <1>2
  <2> QED
    BY <2>1, MemoryKept DEF Running
<1>3. Memory[p] = Seen(p) /\ Memory'[p] = Seen(p)'
  BY MemoryIs DEF Running
<1>4. Owned(p)' = Owned(p) \ W
  BY Numbers DEF Owned
<1>5. Seen(p)' = [v \in Owned(p) \ W |-> Seen(p)[v]]
  <2>1. \A v \in Owned(p) \ W : mem'[pt'[p][v].frame] = Seen(p)[v]
    BY <1>1, Numbers DEF Owned, Seen
  <2> QED
    BY <1>4, <2>1 DEF Seen
<1>6. DOMAIN Seen(p) = Owned(p)
  BY DEF Seen
<1>7. PM!Lose(Memory[p], Memory'[p])
  BY <1>3, <1>5, <1>6 DEF PM!Lose
<1> QED
  BY <1>2, <1>7, Operates DEF PM!Operation

LEMMA LazyFaultHides ==
  ASSUME Inv, NEW p \in Procs, NEW v \in Pages, LazyFault(p, v)
  PROVE  UNCHANGED Memory
<1>1. /\ v \in High /\ pc' = pc /\ TypeOK /\ free \in SUBSET Frames
  BY DEF LazyFault, InRegion, Inv, TypeOK
<1>2. PICK R, g : /\ R \in SUBSET free /\ g \in R
                  /\ mem' = [f \in Frames |-> IF f \in R THEN Zero ELSE mem[f]]
                  /\ pt' = [pt EXCEPT ![p][v] = Mapped(g)]
  <2>1. CASE NeedsTable(p, v)
    <3>1. PICK s \in Grabs(free, 2) :
            kalloc(s) /\ pt' = [pt EXCEPT ![p][v] = Mapped(s[1])]
      BY <2>1 DEF LazyFault
    <3>2. s[1] \in Range(s) /\ Range(s) \in SUBSET free
      BY <1>1, GrabbedTwo
    <3> QED
      BY <3>1, <3>2 DEF kalloc
  <2>2. CASE ~NeedsTable(p, v)
    <3>1. PICK s \in Grabs(free, 1) :
            kalloc(s) /\ pt' = [pt EXCEPT ![p][v] = Mapped(s[1])]
      BY <2>2 DEF LazyFault
    <3>2. s[1] \in Range(s) /\ Range(s) \in SUBSET free
      BY FreeGrabbed
    <3> QED
      BY <3>1, <3>2 DEF kalloc
  <2> QED
    BY <2>1, <2>2
<1>3. \A f \in Frames : f \notin R => mem'[f] = mem[f]
  BY <1>2
<1>4. \A q \in Procs, w \in Pages :
        pt[q][w].frame # 0 => mem'[pt[q][w].frame] = mem[pt[q][w].frame]
  BY <1>2, <1>3, TakenOnly
<1>5. ASSUME NEW q \in Procs PROVE Memory'[q] = Memory[q]
  <2>1. \A w \in Low : /\ w \in Pages /\ w # v
                       /\ pt'[q][w] = pt[q][w]
    BY <1>1, <1>2, Numbers DEF TypeOK
  <2>2. Running(q) =>
          \A w \in Low : /\ pt'[q][w].frame # 0 <=> pt[q][w].frame # 0
                         /\ pt[q][w].frame # 0 =>
                              mem'[pt'[q][w].frame] = mem[pt[q][w].frame]
    BY <1>4, <2>1
  <2>3. Running(q) <=> Running(q)'
    BY <1>1 DEF Running
  <2> QED
    BY <2>2, <2>3, ProgramKept
<1> QED
  BY <1>5, Stutters

LEMMA SbrkGrowGains ==
  ASSUME Inv, NEW p \in Procs, SbrkGrow(p)
  PROVE  PM!Next
<1>1. PICK s \in Grabs(free, 1) :
        kalloc(s) /\ pt' = [pt EXCEPT ![p][top[p]] = Mapped(s[1])]
  BY DEF SbrkGrow
<1>2. pc[p] = "user" /\ top[p] < NLOW /\ pc' = pc /\ top[p] \in 0..NLOW
  BY DEF SbrkGrow, Inv, TypeOK
<1>3. top[p] \in Pages /\ top[p] \in Low
  BY <1>2, Numbers DEF Low
<1>4. ~Present(p, top[p])
  <2>1. \A v \in Low : v < top[p] <=> Present(p, v)
    BY <1>2, Facts DEF Extent, Running
  <2> QED
    BY <1>2, <1>3, <2>1
<1>5. s[1] \in Range(s) /\ Range(s) \in SUBSET free
  BY FreeGrabbed
<1> QED
  BY <1>1, <1>2, <1>3, <1>4, <1>5, OnePageMore DEF kalloc

LEMMA SbrkShrinkLoses ==
  ASSUME Inv, Inv', NEW p \in Procs, SbrkShrink(p)
  PROVE  PM!Next
<1> DEFINE v == top[p] - 1
<1>1. /\ pc[p] = "user" /\ pc' = pc /\ \E S : kfree(free, ref, S)
      /\ pt' = [pt EXCEPT ![p][v] = NoPTE] /\ TypeOK
  BY DEF SbrkShrink, Inv
<1> HIDE DEF v
<1>2. /\ \A w \in Pages : pt'[p][w].frame = IF w \in {v} THEN 0 ELSE pt[p][w].frame
      /\ \A q \in Procs : q # p => pt'[q] = pt[q]
  BY <1>1 DEF TypeOK, NoPTE
<1> QED
  BY <1>1, <1>2, PagesGone

LEMMA wunmapLoses ==
  ASSUME Inv, Inv', NEW p \in Procs, NEW m, wunmap(p, m)
  PROVE  PM!Next
<1>1. /\ pc[p] = "user" /\ pc' = pc /\ \E S : kfree(free, ref, S)
      /\ pt' = [pt EXCEPT ![p] = Without(p, m)] /\ TypeOK
  BY DEF wunmap, Inv
<1>2. /\ \A w \in Pages : pt'[p][w].frame = IF w \in m THEN 0 ELSE pt[p][w].frame
      /\ \A q \in Procs : q # p => pt'[q] = pt[q]
  BY <1>1 DEF TypeOK, NoPTE, Without
<1> QED
  BY <1>1, <1>2, PagesGone

LEMMA wmapHides ==
  ASSUME Inv, NEW p \in Procs, NEW m, wmap(p, m)
  PROVE  UNCHANGED Memory
BY DEF wmap, kmem, Memory, Present
-----------------------------------------------------------------------------
\* exec() starts afresh, exit() ends; wait() tidies up what nobody sees.
LEMMA ExecIsFresh ==
  ASSUME Inv, Inv', NEW p \in Procs, Exec(p)
  PROVE  PM!Next
<1> HIDE DEF NIMAGE
<1>1. /\ free \in SUBSET Frames /\ TypeOK /\ TypeOK' /\ LiveEntries /\ LiveEntries'
      /\ pc[p] = "user" /\ pc' = pc
  BY DEF Inv, TypeOK, Exec
<1>2. PICK s, X :
        /\ s \in Grabs(free, 2 + NIMAGE) /\ X \subseteq free'
        /\ mem' = [f \in Frames |-> IF f \in X THEN Junk ELSE LoadedMem(s)[f]]
        /\ pt' = [pt EXCEPT ![p] = Loaded(s)]
  BY DEF Exec
<1>3. /\ s \in [1..2 + NIMAGE -> free]
      /\ Range(s) = {s[i] : i \in 1..2 + NIMAGE}
      /\ \A v \in Pages : Loaded(s)[v].frame = IF v < NIMAGE THEN s[v + 3] ELSE 0
  BY <1>1, <1>2, LoadedPages
<1>4. \A q \in Procs, v \in Pages :
        pt'[q][v].frame # 0 =>
          /\ pt'[q][v].frame \in Frames
          /\ mem'[pt'[q][v].frame] = LoadedMem(s)[pt'[q][v].frame]
  <2>1. \A q \in Procs, v \in Pages :
          pt'[q][v].frame \in Frames \cup {0} /\ pt'[q][v].frame \notin X
    BY <1>1, <1>2 DEF TypeOK, PTE, LiveEntries
  <2> QED
    BY <1>2, <2>1
<1>5. ASSUME NEW f \in Frames, f \notin free
      PROVE  LoadedMem(s)[f] = mem[f]
  <2>1. \A i \in 1..NIMAGE : i + 2 \in 1..2 + NIMAGE
    BY Numbers
  <2> QED
    BY <1>3, <1>5, <2>1 DEF LoadedMem
<1>6. ASSUME NEW q \in Procs, q # p PROVE Memory'[q] = Memory[q]
  <2>1. pt'[q] = pt[q]
    BY <1>1, <1>2, <1>6 DEF TypeOK
  <2>2. \A v \in Pages : pt[q][v].frame \notin free
    BY <1>1 DEF LiveEntries
  <2>3. \A v \in Pages : pt[q][v].frame # 0 =>
                           mem'[pt'[q][v].frame] = mem[pt[q][v].frame]
    BY <1>4, <1>5, <2>1, <2>2
  <2> QED
    BY <1>1, <2>1, <2>3, MemoryKept DEF Running
<1>7. Memory[p] # PM!NoMemory /\ Memory'[p] = Seen(p)'
  BY <1>1, HasMemory, MemoryIs DEF Running
<1>8. \A v \in Pages : pt'[p][v].frame = IF v < NIMAGE THEN s[v + 3] ELSE 0
  BY <1>1, <1>2, <1>3 DEF TypeOK
<1>9. ASSUME NEW v \in Pages, v < NIMAGE
      PROVE  pt'[p][v].frame # 0 /\ mem'[pt'[p][v].frame] = Text
  <2>1. v + 3 \in 1..2 + NIMAGE /\ v + 1 \in 1..NIMAGE /\ v + 3 = (v + 1) + 2
    BY <1>9, Numbers
  <2>2. pt'[p][v].frame = s[v + 3] /\ s[v + 3] \in Frames /\ s[v + 3] # 0
    BY <1>1, <1>3, <1>8, <1>9, <2>1, Numbers
  <2>3. LoadedMem(s)[s[v + 3]] = Text
    BY <2>1, <2>2 DEF LoadedMem
  <2> QED
    BY <1>4, <2>2, <2>3
<1>10. Owned(p)' = 0..NIMAGE - 1
  <2>1. \A v : v \in 0..NIMAGE - 1 <=> v \in Low /\ v < NIMAGE
    BY Numbers DEF Low
  <2> QED
    BY <1>8, <1>9, <2>1, Numbers DEF Owned
<1>11. Seen(p)' = Fresh
  <2>1. \A v \in 0..NIMAGE - 1 : mem'[pt'[p][v].frame] = Text
    BY <1>9, Numbers
  <2> QED
    BY <1>10, <2>1 DEF Seen, Fresh
<1>12. PM!Exec(Memory[p], Memory'[p])
  BY <1>7, <1>11 DEF PM!Exec
<1> QED
  BY <1>6, <1>12, Operates DEF PM!Operation

LEMMA ExitEnds ==
  ASSUME Inv, Inv', NEW p \in Procs, Exit(p)
  PROVE  PM!Next
<1>1. /\ p # InitProc /\ pc' = [pc EXCEPT ![p] = "zombie"] /\ TypeOK
      /\ pt' = [pt EXCEPT ![p] = Without(p, UNION maps[p])]
      /\ \E S : kfree(free, ref, S)
  BY DEF Exit, Inv
<1>2. \A q \in Procs, v \in Pages :
        pt'[q][v].frame # 0 => mem'[pt'[q][v].frame] = mem[pt'[q][v].frame]
  BY <1>1, GivenOnly
<1>3. ASSUME NEW q \in Procs, q # p PROVE Memory'[q] = Memory[q]
  <2>1. pt'[q] = pt[q] /\ pc'[q] = pc[q]
    BY <1>1, <1>3 DEF TypeOK
  <2> QED
    BY <1>2, <2>1, MemoryKept DEF Running
<1>4. Memory'[p] = PM!NoMemory
  <2>1. ~Running(p)'
    BY <1>1 DEF Running, TypeOK
  <2> QED
    BY <2>1, MemoryIs
<1> QED
  BY <1>1, <1>3, <1>4, Operates DEF PM!Operation, PM!Exit

LEMMA ReapHides ==
  ASSUME Inv, Inv', NEW p \in Procs, NEW c \in Procs, Reap(p, c)
  PROVE  UNCHANGED Memory
<1>1. /\ pc[c] = "zombie" /\ pc' = [pc EXCEPT ![c] = "unused"] /\ TypeOK
      /\ pt' = [pt EXCEPT ![c] = NoPages]
      /\ \E S : kfree(free, ref, S)
  BY DEF Reap, Inv
<1>2. \A q \in Procs, v \in Pages :
        pt'[q][v].frame # 0 => mem'[pt'[q][v].frame] = mem[pt'[q][v].frame]
  BY <1>1, GivenOnly
<1>3. ASSUME NEW q \in Procs, q # c PROVE Memory'[q] = Memory[q]
  <2>1. pt'[q] = pt[q] /\ pc'[q] = pc[q]
    BY <1>1, <1>3 DEF TypeOK
  <2> QED
    BY <1>2, <2>1, MemoryKept DEF Running
<1>4. Memory'[c] = Memory[c]
  <2>1. ~Running(c) /\ ~Running(c)'
    BY <1>1 DEF Running, TypeOK
  <2> QED
    BY <2>1, MemoryKept
<1> QED
  BY <1>3, <1>4, Stutters
-----------------------------------------------------------------------------
LEMMA InitPrivate ==
  ASSUME Init
  PROVE  PM!Init
<1> HIDE DEF NIMAGE
<1>1. /\ \A p \in Procs, v \in Pages :
           pt[p][v].frame = IF p = InitProc /\ v < NIMAGE THEN v + 4 ELSE 0
      /\ \A p \in Procs : pc[p] = IF p = InitProc THEN "user" ELSE "unused"
      /\ mem = [f \in Frames |-> IF f \in 4..3 + NIMAGE THEN Text
                                 ELSE IF f < 4 THEN Zero ELSE Junk]
  BY InitState DEF Init
<1>2. \A p \in Procs : p # InitProc => Memory[p] = PM!NoMemory
  BY <1>1, MemoryIs DEF Running
<1>3. Owned(InitProc) = 0..NIMAGE - 1
  <2>1. \A v : v \in 0..NIMAGE - 1 <=> v \in Low /\ v < NIMAGE
    BY Numbers DEF Low
  <2>2. \A v \in Pages : v + 4 # 0
    BY Numbers
  <2> QED
    BY <1>1, <2>1, <2>2, Numbers DEF Owned
<1>4. \A v \in 0..NIMAGE - 1 : mem[pt[InitProc][v].frame] = Text
  <2>1. \A v \in 0..NIMAGE - 1 :
          v \in Pages /\ v < NIMAGE /\ v + 4 \in Frames /\ v + 4 \in 4..3 + NIMAGE
    BY Numbers DEF Frames
  <2> QED
    BY <1>1, <2>1, Numbers
<1>5. Memory[InitProc] = Fresh
  <2>1. Memory[InitProc] = Seen(InitProc)
    BY <1>1, MemoryIs, Numbers DEF Running
  <2> QED
    BY <1>3, <1>4, <2>1 DEF Seen, Fresh
<1> QED
  BY <1>2, <1>5, MemoryIs DEF PM!Init

LEMMA StepPrivate ==
  ASSUME Inv, Inv', [Next]_vars
  PROVE  PM!Next \/ UNCHANGED Memory
<1>1. CASE UNCHANGED vars
  BY <1>1 DEF vars, Memory, Present
<1>2. CASE Next
  <2>1. ASSUME NEW p \in Procs, NEW c \in Procs, ForkStack(p, c) \/ Reap(p, c)
        PROVE  UNCHANGED Memory
    BY <2>1, ForkStackHides, ReapHides
  <2>2. ASSUME NEW p \in Procs, ForkDir(p) \/ CopyPage(p) \/ ForkFails(p)
        PROVE  UNCHANGED Memory
    BY <2>2, ForkDirHides, CopyPageHides, ForkFailsHides
  <2>3. ASSUME NEW p \in Procs, ForkDone(p) PROVE PM!Next
    BY <2>3, ForkDoneCopies
  <2>4. ASSUME NEW p \in Procs, NEW v \in Pages, Write(p, v)
        PROVE  PM!Next \/ UNCHANGED Memory
    BY <2>4, WriteIsPrivate
  <2>5. ASSUME NEW p \in Procs, NEW v \in Pages, CowFault(p, v) \/ LazyFault(p, v)
        PROVE  UNCHANGED Memory
    BY <2>5, CowFaultHides, LazyFaultHides
  <2>6. ASSUME NEW p \in Procs, NEW v \in Pages, SegFault(p, v) \/ OutOfMemory(p, v)
        PROVE  UNCHANGED Memory
    <3>1. pc[p] = "user" /\ Killed(p)
      BY <2>6 DEF SegFault, OutOfMemory
    <3> QED
      BY <3>1, KilledHides
  <2>7. ASSUME NEW p \in Procs, CowSwitch(p) PROVE UNCHANGED Memory
    BY <2>7, CowSwitchHides
  <2>8. ASSUME NEW p \in Procs, SbrkGrow(p) \/ SbrkShrink(p) \/ Exec(p) \/ Exit(p)
        PROVE  PM!Next
    BY <2>8, SbrkGrowGains, SbrkShrinkLoses, ExecIsFresh, ExitEnds
  <2>9. ASSUME NEW p \in Procs, NEW m \in Windows, wmap(p, m)
        PROVE  UNCHANGED Memory
    BY <2>9, wmapHides
  <2>10. ASSUME NEW p \in Procs, NEW m \in Windows, wunmap(p, m)
         PROVE  PM!Next
    BY <2>10, wunmapLoses
  <2> HIDE DEF Memory
  <2> QED
    BY <1>2, <2>1, <2>2, <2>3, <2>4, <2>5, <2>6, <2>7, <2>8, <2>9, <2>10 DEF Next
<1> QED
  BY <1>1, <1>2

\* Copy on write cannot be told from copying: for any number of processes,
\* frames and pages, what a program reads in its code, data, stack and heap is
\* what it would read if fork() copied every page at once and no frame were ever
\* shared.  Of the pages of wmap() nothing is said here.
THEOREM CopyOnWriteIsPrivate == Spec => PrivateMemory
<1>1. Init => PM!Init
  BY InitPrivate
<1>2. Inv /\ Inv' /\ [Next]_vars => [PM!Next]_Memory
  BY StepPrivate
<1> QED
  BY <1>1, <1>2, Invariance, PTL DEF Spec, PrivateMemory, PM!Spec
=============================================================================
