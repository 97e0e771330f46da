----------------------------- MODULE InodesProofs -----------------------------
(***************************************************************************)
(* The inode cache and the calls on path names, for any number of          *)
(* processes, inodes and cache entries and any paths: references are       *)
(* counted exactly, what is cached is what is on disk, no inode in use is  *)
(* freed, and processes wait for each other's inodes in iput() only.       *)
(***************************************************************************)
EXTENDS Inodes, FiniteSetTheorems, SequenceTheorems, WellFoundedInduction, TLAPS

-----------------------------------------------------------------------------
(***************************************************************************)
(* The inductive invariant.                                                *)
(***************************************************************************)
Types == {"free", "dir", "file", "dev"}
DiskRec == [type : Types, nlink : Int, ents : [DirNames -> Inums \cup {None}]]
CacheRec ==
  [inum : Inums \cup {None}, ref : Nat, valid : BOOLEAN, lock : Procs \cup {NoProc},
   type : Types, nlink : Int]
Ats == WithIp \cup WithObj \cup {"user"}
PathOps == {"open", "create", "mknod", "mkdir", "link", "unlink", "chdir"}
PutLists == {<<>>} \cup {<<s>> : s \in Slots} \cup {<<s, t>> : s \in Slots, t \in Slots}
Walks == Seq(DirNames)
NoName == ""
CallRec ==
  [at : Ats, op : PathOps \cup {NoName}, path : Walks, new : Paths \cup {<<>>},
   name : DirNames \cup {NoName}, ip : Slots \cup {None},
   obj : Slots \cup Inums \cup {None}, puts : PutLists,
   stage : {"lock", "unref", "free", "invalid"}]

Typed ==
  /\ dinode \in [Inums -> DiskRec]
  /\ icache \in [Slots -> CacheRec]
  /\ cwd \in [Procs -> Slots \cup {None}] /\ fd \in [Procs -> Slots \cup {None}]
  /\ call \in [Procs -> CallRec]
  /\ calls \in 0..CALLS /\ panic \in BOOLEAN

\* Only directories have names, and what is free has nothing.
EntsTyped ==
  /\ \A i \in Inums : dinode[i].type = "free" => dinode[i].ents = NoEntries
  /\ \A i \in Inums, n \in Names : dinode[i].type # "dir" => dinode[i].ents[n] = None
Numbered == \A s \in Slots : icache[s].ref > 0 => icache[s].inum \in Inums

\* Whose lock a call has at which of its steps.
IpLocked ==
  {"namei", "open", "create", "made", "new", "fill", "done", "unlink", "victim",
   "both", "full", "link", "dirlink", "taken", "chdir"}
ObjLocked == {"exists", "fill", "both", "victimless", "takeback"}
InParent ==
  {"create", "made", "new", "fill", "unlink", "victim", "both", "full", "dirlink"}
Walking == {"namex", "namei", "found"}
Making == {"made", "new", "fill"}
MakeOps == {"create", "mknod", "mkdir"}
NoPuts ==
  {"namei", "create", "exists", "made", "new", "fill", "unlink", "victim", "both",
   "link", "dirlink", "takeback", "chdir"}

First(q) == IF Len(q) > 0 THEN q[1] ELSE None
Second(q) == IF Len(q) > 1 THEN q[2] ELSE None

\* The entry that is put is not one that the call has locked.
PutsOther(c) ==
  /\ ~(c.at \in IpLocked /\ c.ip = First(c.puts))
  /\ ~(c.at \in ObjLocked /\ c.obj = First(c.puts))

CallOK(c) ==
  /\ c.at \in WithIp \ {"found"} => c.ip \in Slots
  /\ c.at \in WithObj \ Walking => c.obj \in Slots
  /\ c.at = "made" => c.obj \in Inums
  /\ c.at \in Walking => /\ c.op \in PathOps
                         /\ c.obj = None \/ (c.obj \in Slots /\ c.op = "link")
                         /\ c.at # "found" => c.path # <<>>
  /\ c.at \in Walking \cup {"link"} /\ c.op = "link" => c.new # <<>>
  /\ c.at = "link" => c.op = "link"
  /\ c.at = "found" /\ c.ip # None /\ WantsParent(c) => c.name \in DirNames
  /\ c.at \in InParent => c.name \in DirNames
  /\ c.at \in Making \cup {"create", "old", "exists"} => c.op \in MakeOps
  /\ c.at \in NoPuts => c.puts = <<>>
  /\ c.at = "full" => Second(c.puts) = None
  /\ c.at \in {"fill", "both"} => c.ip # c.obj
  /\ c.stage # "lock" => c.puts # <<>>
  /\ c.stage \in {"free", "invalid"} => PutsOther(c)

HasLock(c, s) ==
  \/ c.at \in IpLocked /\ c.ip = s
  \/ c.at \in ObjLocked /\ c.obj = s
  \/ c.stage \in {"free", "invalid"} /\ First(c.puts) = s
LocksExact == \A p \in Procs, s \in Slots : icache[s].lock = p <=> HasLock(call[p], s)
LockedValid == \A s \in Slots : icache[s].lock # NoProc => icache[s].valid

Counted == \A s \in Slots : icache[s].ref = Cardinality(Holders(s))

\* What is valid is what is on disk, but while the inode goes.
Invalidating(c, s) == c.stage = "invalid" /\ First(c.puts) = s
LikeDisk ==
  ~panic => \A s \in Slots :
    icache[s].ref > 0 /\ icache[s].valid /\ (\A p \in Procs : ~Invalidating(call[p], s)) =>
      /\ icache[s].type = dinode[icache[s].inum].type
      /\ icache[s].nlink = dinode[icache[s].inum].nlink
      /\ icache[s].type # "free"

\* References that were taken or used under the inode's lock: what they lead to
\* is not freed, and keeps its type.
AtParent(c) ==
  \/ c.at \in InParent
  \/ c.at = "found" /\ c.ip # None /\ WantsParent(c)
Linking(c) ==
  \/ c.at \in Walking /\ c.obj # None
  \/ c.at \in {"dirlink", "taken", "bad", "takeback"}
FirmIn(c, s) ==
  \/ AtParent(c) /\ c.ip = s
  \/ Linking(c) /\ c.obj = s
Firm(p, s) == cwd[p] = s \/ fd[p] = s \/ FirmIn(call[p], s)
DiskType(s) == dinode[icache[s].inum].type
FirmTyped(p) ==
  /\ call[p].at # "user" => cwd[p] # None
  /\ \A s \in {cwd[p], fd[p]} \ {None} : DiskType(s) # "free"
  /\ AtParent(call[p]) => DiskType(call[p].ip) = "dir"
  /\ Linking(call[p]) => DiskType(call[p].obj) \notin {"free", "dir"}
NotFreed(p) ==
  call[p].stage = "free" => \A q \in Procs : ~Firm(q, First(call[p].puts))

\* What unlink() has found it still finds.
VictimIs(p) ==
  /\ call[p].at \in {"victim", "both"} =>
       /\ call[p].name \in Names
       /\ Entry(call[p].ip, call[p].name) = icache[call[p].obj].inum
  /\ call[p].at = "full" /\ call[p].puts # <<>> =>
       /\ call[p].name \in Names
       /\ Entry(call[p].ip, call[p].name) = icache[First(call[p].puts)].inum

\* Names lead down a tree, those that are about to be given included.
Fresh(p) == IF call[p].at = "made" THEN call[p].obj ELSE icache[call[p].obj].inum
Below(x, y) ==
  \/ \E n \in Names : dinode[x].ents[n] = y
  \/ \E p \in Procs : call[p].at \in Making /\ icache[call[p].ip].inum = x /\ Fresh(p) = y
Acyclic ==
  \A D \in SUBSET Inums : D # {} => \E x \in D : \A y \in D : ~Below(x, y)

IInv ==
  /\ Typed /\ EntsTyped /\ Numbered /\ OneEntry /\ Counted
  /\ LocksExact /\ LockedValid /\ LikeDisk /\ Acyclic
  /\ \A p \in Procs : CallOK(call[p]) /\ FirmTyped(p) /\ NotFreed(p) /\ VictimIs(p)
-----------------------------------------------------------------------------
(***************************************************************************)
(* What a call has still to put: at most two entries.                      *)
(***************************************************************************)
LEMMA Numbers ==
  /\ 1 \in Slots /\ 2 \in Slots /\ None \notin Slots /\ None \notin Inums
  /\ 1 \in Inums /\ NoProc \notin Procs /\ IsFiniteSet(Procs)
  /\ Slots \subseteq Nat \ {0} /\ Inums \subseteq Nat \ {0}
<1>0. NINODE \in Nat \ {0, 1} /\ NINODES \in Nat \ {0}
  BY InodesAssumption, Zenon
<1>1. NINODE \in Nat /\ NINODE > 1 /\ NINODES \in Nat /\ NINODES > 0
  BY <1>0
<1>2. NoProc \notin Procs /\ IsFiniteSet(Procs)
  BY InodesAssumption, Zenon
<1> QED
  BY <1>1, <1>2 DEF Slots, Inums, None

LEMMA Lists ==
  /\ First(<<>>) = None /\ Second(<<>>) = None
  /\ \A a : First(<<a>>) = a /\ Second(<<a>>) = None
  /\ \A a, b : First(<<a, b>>) = a /\ Second(<<a, b>>) = b
  /\ <<>> \in PutLists
  /\ \A a \in Slots : <<a>> \in PutLists /\ <<a>> # <<>>
  /\ \A a, b \in Slots : <<a, b>> \in PutLists /\ <<a, b>> # <<>>
<1>1. First(<<>>) = None /\ Second(<<>>) = None
  BY DEF First, Second
<1>2. \A a : First(<<a>>) = a /\ Second(<<a>>) = None
  BY DEF First, Second
<1>3. \A a, b : First(<<a, b>>) = a
  BY DEF First
<1>4. \A a, b : Second(<<a, b>>) = b
  BY DEF Second
<1>5. <<>> \in PutLists
  BY DEF PutLists
<1>6. \A a \in Slots : <<a>> \in PutLists /\ <<a>> # <<>>
  BY DEF PutLists
<1>7. \A a, b \in Slots : <<a, b>> \in PutLists
  BY DEF PutLists
<1>8. \A a, b : <<a, b>> # <<>>
  OBVIOUS
<1> QED
  BY <1>1, <1>2, <1>3, <1>4, <1>5, <1>6, <1>7, <1>8

LEMMA Pair ==
  ASSUME NEW S, NEW a \in S, NEW b \in S
  PROVE  <<a>> \o <<b>> = <<a, b>>
<1> DEFINE q == <<a>> \o <<b>>
           r == <<a, b>>
<1>1. <<a>> \in Seq(S) /\ <<b>> \in Seq(S)
  OBVIOUS
<1>2. q \in Seq(S) /\ Len(q) = 2
  BY <1>1
<1>3. q[1] = a /\ q[2] = b
  BY <1>1
<1>4. r \in Seq(S) /\ Len(r) = 2
  OBVIOUS
<1>5. \A i \in 1..2 : q[i] = r[i]
  BY <1>3
<1> HIDE DEF q, r
<1> QED
  BY <1>2, <1>4, <1>5, SeqEqual DEF q, r

LEMMA PutNext ==
  ASSUME NEW q \in PutLists
  PROVE  /\ q = <<>> => First(q) = None /\ Second(q) = None
         /\ q # <<>> => /\ Head(q) \in Slots /\ First(q) = Head(q)
                        /\ Tail(q) \in PutLists
                        /\ First(Tail(q)) = Second(q) /\ Second(Tail(q)) = None
         /\ First(q) \in Slots \cup {None} /\ Second(q) \in Slots \cup {None}
         /\ First(q) \in Slots <=> q # <<>>
         /\ First(q) = None <=> q = <<>>
<1>1. CASE q = <<>>
  BY <1>1, Lists, Numbers
<1>2. CASE q \in {<<s>> : s \in Slots}
  <2>1. PICK s \in Slots : q = <<s>>
    BY <1>2
  <2>2. Head(q) = s /\ Tail(q) = <<>>
    BY <2>1
  <2> QED
    BY <2>1, <2>2, Lists, Numbers
<1>3. CASE q \in {<<s, t>> : s \in Slots, t \in Slots}
  <2>1. PICK s \in Slots, t \in Slots : q = <<s, t>>
    BY <1>3
  <2>2. Head(q) = s
    BY <2>1
  <2>3. Tail(q) = <<t>>
    BY <2>1
  <2> QED
    BY <2>1, <2>2, <2>3, Lists, Numbers
<1> QED
  BY <1>1, <1>2, <1>3 DEF PutLists
-----------------------------------------------------------------------------
(***************************************************************************)
(* Counting references: those of one process, and all others.              *)
(***************************************************************************)
One(b) == IF b THEN 1 ELSE 0

\* References to s of a process with the directory d, the file f and the call c.
Mine(d, f, c, s) ==
  One(d = s) + One(f = s) + One(c.at \in WithIp /\ c.ip = s)
    + One(c.at \in WithObj /\ c.obj = s) + One(First(c.puts) = s) + One(Second(c.puts) = s)

LEMMA OneMore ==
  ASSUME NEW S, IsFiniteSet(S), NEW x, x \notin S, NEW b
  PROVE  LET T == IF b THEN S \cup {x} ELSE S
         IN  IsFiniteSet(T) /\ Cardinality(T) = Cardinality(S) + One(b)
<1>1. Cardinality(S) \in Nat
  BY FS_CardinalityType
<1>2. IsFiniteSet(S \cup {x}) /\ Cardinality(S \cup {x}) = Cardinality(S) + 1
  BY FS_AddElement
<1> QED
  BY <1>1, <1>2 DEF One

LEMMA SixPlaces ==
  ASSUME NEW O, IsFiniteSet(O), NEW p, NEW f \in [Places -> BOOLEAN],
         \A w \in Places : <<p, w>> \notin O,
         NEW T, \A x : x \in T <=> x \in O \/ \E w \in Places : f[w] /\ x = <<p, w>>
  PROVE  /\ IsFiniteSet(T)
         /\ Cardinality(T) = Cardinality(O) + (One(f["cwd"]) + One(f["fd"])
              + One(f["ip"]) + One(f["obj"]) + One(f["put"]) + One(f["next"]))
<1> DEFINE Add(S, w) == IF f[w] THEN S \cup {<<p, w>>} ELSE S
           A1 == Add(O, "cwd")
           A2 == Add(A1, "fd")
           A3 == Add(A2, "ip")
           A4 == Add(A3, "obj")
           A5 == Add(A4, "put")
           A6 == Add(A5, "next")
<1>1. /\ <<p, "cwd">> \notin O /\ <<p, "fd">> \notin O /\ <<p, "ip">> \notin O
      /\ <<p, "obj">> \notin O /\ <<p, "put">> \notin O /\ <<p, "next">> \notin O
  BY DEF Places
<1>2. <<p, "fd">> \notin A1
  BY <1>1
<1>3. <<p, "ip">> \notin A2
  BY <1>1
<1>4. <<p, "obj">> \notin A3
  BY <1>1
<1>5. <<p, "put">> \notin A4
  BY <1>1
<1>6. <<p, "next">> \notin A5
  BY <1>1
<1>7. A6 = T
  BY DEF Places
<1>11. IsFiniteSet(A1) /\ Cardinality(A1) = Cardinality(O) + One(f["cwd"])
  BY <1>1, OneMore
<1> HIDE DEF A1
<1>12. IsFiniteSet(A2) /\ Cardinality(A2) = Cardinality(A1) + One(f["fd"])
  BY <1>2, <1>11, OneMore
<1> HIDE DEF A2
<1>13. IsFiniteSet(A3) /\ Cardinality(A3) = Cardinality(A2) + One(f["ip"])
  BY <1>3, <1>12, OneMore
<1> HIDE DEF A3
<1>14. IsFiniteSet(A4) /\ Cardinality(A4) = Cardinality(A3) + One(f["obj"])
  BY <1>4, <1>13, OneMore
<1> HIDE DEF A4
<1>15. IsFiniteSet(A5) /\ Cardinality(A5) = Cardinality(A4) + One(f["put"])
  BY <1>5, <1>14, OneMore
<1> HIDE DEF A5
<1>16. IsFiniteSet(A6) /\ Cardinality(A6) = Cardinality(A5) + One(f["next"])
  BY <1>6, <1>15, OneMore
<1> HIDE DEF A6
<1>17. Cardinality(O) \in Nat /\ \A b : One(b) \in Nat
  BY FS_CardinalityType DEF One
<1> QED
  BY <1>7, <1>11, <1>12, <1>13, <1>14, <1>15, <1>16, <1>17

\* What a process with the directory d, the file f and the call c holds, and
\* who holds s if these are D, F and C.
HeldIn(d, f, c, w) ==
  CASE w = "cwd" -> d
    [] w = "fd" -> f
    [] w = "ip" -> IF c.at \in WithIp THEN c.ip ELSE None
    [] w = "obj" -> IF c.at \in WithObj THEN c.obj ELSE None
    [] w = "put" -> IF Len(c.puts) > 0 THEN c.puts[1] ELSE None
    [] OTHER -> IF Len(c.puts) > 1 THEN c.puts[2] ELSE None
HoldersIn(D, F, C, s) ==
  {h \in Procs \X Places : HeldIn(D[h[1]], F[h[1]], C[h[1]], h[2]) = s}
OthersIn(D, F, C, p, s) == {h \in HoldersIn(D, F, C, s) : h[1] # p}

LEMMA HoldersAre ==
  ASSUME NEW s
  PROVE  /\ Holders(s) = HoldersIn(cwd, fd, call, s)
         /\ Holders(s)' = HoldersIn(cwd', fd', call', s)
BY DEF Holders, HoldersIn, Held, HeldIn

LEMMA HoldersFinite ==
  ASSUME NEW D, NEW F, NEW C, NEW s
  PROVE  IsFiniteSet(HoldersIn(D, F, C, s))
<1>1. IsFiniteSet(Places)
  <2>1. Places = ((((({"cwd"} \cup {"fd"}) \cup {"ip"}) \cup {"obj"}) \cup {"put"}) \cup {"next"})
    BY DEF Places
  <2>2. \A x : IsFiniteSet({x})
    BY FS_Singleton
  <2> QED
    BY <2>1, <2>2, FS_Union
<1>2. IsFiniteSet(Procs \X Places)
  BY <1>1, Numbers, FS_Product
<1> QED
  BY <1>2, FS_Subset DEF HoldersIn

OwnIn(D, F, C, p, s) ==
  {<<p, w>> : w \in {v \in Places : HeldIn(D[p], F[p], C[p], v) = s}}

LEMMA OwnCount ==
  ASSUME NEW D, NEW F, NEW C, NEW p, NEW s \in Slots,
         NEW O, IsFiniteSet(O), \A w \in Places : <<p, w>> \notin O
  PROVE  /\ Cardinality(O \cup OwnIn(D, F, C, p, s)) =
              Cardinality(O) + Mine(D[p], F[p], C[p], s)
         /\ Mine(D[p], F[p], C[p], s) \in Nat
<1> DEFINE f == [w \in Places |-> HeldIn(D[p], F[p], C[p], w) = s]
           T == O \cup OwnIn(D, F, C, p, s)
<1>1. /\ f["cwd"] <=> D[p] = s
      /\ f["fd"] <=> F[p] = s
      /\ f["ip"] <=> C[p].at \in WithIp /\ C[p].ip = s
      /\ f["obj"] <=> C[p].at \in WithObj /\ C[p].obj = s
      /\ f["put"] <=> First(C[p].puts) = s
      /\ f["next"] <=> Second(C[p].puts) = s
  <2>1. s # None
    BY Numbers
  <2>2. f["cwd"] <=> D[p] = s
    BY DEF Places, HeldIn
  <2>3. f["fd"] <=> F[p] = s
    BY DEF Places, HeldIn
  <2>4. f["ip"] <=> C[p].at \in WithIp /\ C[p].ip = s
    BY <2>1 DEF Places, HeldIn
  <2>5. f["obj"] <=> C[p].at \in WithObj /\ C[p].obj = s
    BY <2>1 DEF Places, HeldIn
  <2>6. f["put"] <=> First(C[p].puts) = s
    BY DEF Places, HeldIn, First
  <2>7. f["next"] <=> Second(C[p].puts) = s
    BY DEF Places, HeldIn, Second
  <2> QED
    BY <2>2, <2>3, <2>4, <2>5, <2>6, <2>7
<1>2. \A x : x \in T <=> x \in O \/ \E w \in Places : f[w] /\ x = <<p, w>>
  BY DEF OwnIn
<1>3. f \in [Places -> BOOLEAN]
  OBVIOUS
<1>4. \A b : One(b) \in Nat
  BY DEF One
<1>5. Mine(D[p], F[p], C[p], s) \in Nat
  BY <1>4 DEF Mine
<1>6. Mine(D[p], F[p], C[p], s) = One(f["cwd"]) + One(f["fd"])
         + One(f["ip"]) + One(f["obj"]) + One(f["put"]) + One(f["next"])
  BY <1>1 DEF Mine, One
<1> HIDE DEF T, f
<1>7. Cardinality(T) = Cardinality(O) + (One(f["cwd"]) + One(f["fd"])
         + One(f["ip"]) + One(f["obj"]) + One(f["put"]) + One(f["next"]))
  BY <1>2, <1>3, SixPlaces
<1> QED
  BY <1>5, <1>6, <1>7 DEF T

LEMMA CountParts ==
  ASSUME NEW D, NEW F, NEW C, NEW p \in Procs, NEW s \in Slots
  PROVE  /\ Cardinality(HoldersIn(D, F, C, s)) =
              Cardinality(OthersIn(D, F, C, p, s)) + Mine(D[p], F[p], C[p], s)
         /\ Cardinality(OthersIn(D, F, C, p, s)) \in Nat
         /\ Mine(D[p], F[p], C[p], s) \in Nat
         /\ \A q \in Procs \ {p} :
              Mine(D[q], F[q], C[q], s) <= Cardinality(OthersIn(D, F, C, p, s))
<1> DEFINE H == HoldersIn(D, F, C, s)
           O == OthersIn(D, F, C, p, s)
<1>1. IsFiniteSet(O) /\ Cardinality(O) \in Nat
  BY HoldersFinite, FS_Subset, FS_CardinalityType DEF OthersIn
<1>2. \A w \in Places : <<p, w>> \notin O
  BY DEF OthersIn
<1>3. H = O \cup OwnIn(D, F, C, p, s)
  <2>1. ASSUME NEW h \in H, h \notin O
        PROVE  h \in OwnIn(D, F, C, p, s)
    <3>1. PICK q \in Procs, w \in Places : h = <<q, w>>
      BY DEF HoldersIn
    <3>2. h[1] = q /\ h[2] = w
      BY <3>1
    <3>3. q = p /\ HeldIn(D[p], F[p], C[p], w) = s
      BY <2>1, <3>2 DEF HoldersIn, OthersIn
    <3> QED
      BY <3>1, <3>3 DEF OwnIn
  <2>2. OwnIn(D, F, C, p, s) \subseteq H
    BY DEF HoldersIn, OwnIn
  <2>3. O \subseteq H
    BY DEF OthersIn
  <2> QED
    BY <2>1, <2>2, <2>3
<1>4. ASSUME NEW q \in Procs \ {p}
      PROVE  Mine(D[q], F[q], C[q], s) <= Cardinality(O)
  <2> DEFINE W == OwnIn(D, F, C, q, s)
  <2>1. W \subseteq O
    BY DEF OwnIn, OthersIn, HoldersIn
  <2>2. IsFiniteSet({}) /\ Cardinality({}) = 0 /\ W = {} \cup W
    BY FS_EmptySet
  <2>3. /\ Cardinality({} \cup W) = Cardinality({}) + Mine(D[q], F[q], C[q], s)
        /\ Mine(D[q], F[q], C[q], s) \in Nat
    BY <2>2, OwnCount, Zenon
  <2>4. Cardinality(W) <= Cardinality(O)
    BY <1>1, <2>1, FS_Subset
  <2> QED
    BY <2>2, <2>3, <2>4
<1>5. /\ Cardinality(O \cup OwnIn(D, F, C, p, s)) = Cardinality(O) + Mine(D[p], F[p], C[p], s)
      /\ Mine(D[p], F[p], C[p], s) \in Nat
  BY <1>1, <1>2, OwnCount, Zenon
<1> QED
  BY <1>1, <1>3, <1>4, <1>5

\* A step of p alone, and what it leaves alone.
OnlyCaller(p) ==
  \A q \in Procs \ {p} : cwd'[q] = cwd[q] /\ fd'[q] = fd[q] /\ call'[q] = call[q]
MineOf(p, s) == Mine(cwd[p], fd[p], call[p], s)

LEMMA Recount ==
  ASSUME NEW p \in Procs, NEW s \in Slots, OnlyCaller(p), Counted,
         NEW n \in Nat, n + MineOf(p, s) = icache[s].ref + MineOf(p, s)'
  PROVE  n = Cardinality(Holders(s))'
<1> DEFINE O == OthersIn(cwd, fd, call, p, s)
<1>1. O = OthersIn(cwd', fd', call', p, s)
  BY DEF OnlyCaller, HoldersIn, OthersIn
<1>2. /\ Cardinality(HoldersIn(cwd', fd', call', s)) = Cardinality(O) + MineOf(p, s)'
      /\ MineOf(p, s)' \in Nat
  BY <1>1, CountParts DEF MineOf
<1>3. /\ Cardinality(HoldersIn(cwd, fd, call, s)) = Cardinality(O) + MineOf(p, s)
      /\ MineOf(p, s) \in Nat /\ Cardinality(O) \in Nat
  BY CountParts DEF MineOf
<1>4. icache[s].ref = Cardinality(HoldersIn(cwd, fd, call, s))
  BY HoldersAre DEF Counted
<1>5. Cardinality(Holders(s))' = Cardinality(HoldersIn(cwd', fd', call', s))
  BY HoldersAre
<1> QED
  BY <1>2, <1>3, <1>4, <1>5

\* Who has a reference is counted, each of two.
LEMMA References ==
  ASSUME Counted, NEW s \in Slots, NEW p \in Procs
  PROVE  /\ MineOf(p, s) \in Nat /\ icache[s].ref \in Nat
         /\ MineOf(p, s) <= icache[s].ref
         /\ \A q \in Procs \ {p} : MineOf(p, s) + MineOf(q, s) <= icache[s].ref
<1> DEFINE O == OthersIn(cwd, fd, call, p, s)
<1>1. /\ Cardinality(HoldersIn(cwd, fd, call, s)) = Cardinality(O) + MineOf(p, s)
      /\ MineOf(p, s) \in Nat /\ Cardinality(O) \in Nat
      /\ \A q \in Procs \ {p} : MineOf(q, s) <= Cardinality(O)
  BY CountParts DEF MineOf
<1>2. icache[s].ref = Cardinality(HoldersIn(cwd, fd, call, s))
  BY HoldersAre DEF Counted
<1>3. ASSUME NEW q \in Procs \ {p}
      PROVE  MineOf(q, s) \in Nat
  BY CountParts DEF MineOf
<1> HIDE DEF O
<1> QED
  BY <1>1, <1>2, <1>3

\* One place is enough.
Holds(d, f, c, s) ==
  \/ d = s \/ f = s
  \/ c.at \in WithIp /\ c.ip = s
  \/ c.at \in WithObj /\ c.obj = s
  \/ First(c.puts) = s \/ Second(c.puts) = s
HoldsSlot(p, s) == Holds(cwd[p], fd[p], call[p], s)

LEMMA SumPositive ==
  ASSUME NEW a1 \in BOOLEAN, NEW a2 \in BOOLEAN, NEW a3 \in BOOLEAN,
         NEW a4 \in BOOLEAN, NEW a5 \in BOOLEAN, NEW a6 \in BOOLEAN
  PROVE  /\ One(a1) + One(a2) + One(a3) + One(a4) + One(a5) + One(a6) \in Nat
         /\ a1 \/ a2 \/ a3 \/ a4 \/ a5 \/ a6
              <=> One(a1) + One(a2) + One(a3) + One(a4) + One(a5) + One(a6) > 0
BY DEF One

LEMMA Positive ==
  ASSUME NEW d, NEW f, NEW c, NEW s
  PROVE  /\ Mine(d, f, c, s) \in Nat
         /\ Holds(d, f, c, s) <=> Mine(d, f, c, s) > 0
<1>1. PICK a1 \in BOOLEAN : a1 <=> d = s
  OBVIOUS
<1>2. PICK a2 \in BOOLEAN : a2 <=> f = s
  OBVIOUS
<1>3. PICK a3 \in BOOLEAN : a3 <=> c.at \in WithIp /\ c.ip = s
  OBVIOUS
<1>4. PICK a4 \in BOOLEAN : a4 <=> c.at \in WithObj /\ c.obj = s
  OBVIOUS
<1>5. PICK a5 \in BOOLEAN : a5 <=> First(c.puts) = s
  OBVIOUS
<1>6. PICK a6 \in BOOLEAN : a6 <=> Second(c.puts) = s
  OBVIOUS
<1>7. Mine(d, f, c, s) = One(a1) + One(a2) + One(a3) + One(a4) + One(a5) + One(a6)
  BY <1>1, <1>2, <1>3, <1>4, <1>5, <1>6 DEF Mine, One
<1>8. Holds(d, f, c, s) <=> a1 \/ a2 \/ a3 \/ a4 \/ a5 \/ a6
  BY <1>1, <1>2, <1>3, <1>4, <1>5, <1>6, Zenon DEF Holds
<1> DEFINE sum == One(a1) + One(a2) + One(a3) + One(a4) + One(a5) + One(a6)
<1>9. sum \in Nat /\ (a1 \/ a2 \/ a3 \/ a4 \/ a5 \/ a6 <=> sum > 0)
  BY SumPositive
<1>10. Mine(d, f, c, s) = sum
  BY <1>7
<1> HIDE DEF sum
<1> QED
  BY <1>8, <1>9, <1>10

LEMMA Referenced ==
  ASSUME Counted, NEW s \in Slots, NEW p \in Procs, HoldsSlot(p, s)
  PROVE  /\ icache[s].ref > 0
         /\ icache[s].ref = 1 => \A q \in Procs \ {p} : ~HoldsSlot(q, s)
<1>1. MineOf(p, s) > 0 /\ MineOf(p, s) \in Nat /\ MineOf(p, s) <= icache[s].ref
      /\ icache[s].ref \in Nat
  BY References, Positive DEF MineOf, HoldsSlot
<1>2. ASSUME NEW q \in Procs \ {p}, HoldsSlot(q, s)
      PROVE  icache[s].ref # 1
  <2>1. MineOf(q, s) > 0 /\ MineOf(q, s) \in Nat
    BY <1>2, References, Positive DEF MineOf, HoldsSlot
  <2>2. MineOf(p, s) + MineOf(q, s) <= icache[s].ref
    BY References
  <2> QED
    BY <1>1, <2>1, <2>2
<1> QED
  BY <1>1, <1>2

\* What is locked or known to stay is held.
LEMMA LockHolds ==
  ASSUME NEW p \in Procs, NEW s \in Slots, CallOK(call[p])
  PROVE  /\ HasLock(call[p], s) => HoldsSlot(p, s)
         /\ Firm(p, s) => HoldsSlot(p, s)
<1>1. IpLocked \subseteq WithIp /\ ObjLocked \subseteq WithObj
  BY DEF IpLocked, ObjLocked, WithIp, WithObj
<1>2. HasLock(call[p], s) => HoldsSlot(p, s)
  BY <1>1, Zenon DEF HasLock, HoldsSlot, Holds
<1>3. FirmIn(call[p], s) => HoldsSlot(p, s)
  <2>1. AtParent(call[p]) => call[p].at \in WithIp
    BY DEF AtParent, InParent, WithIp
  <2>2. Linking(call[p]) => call[p].at \in WithObj
    BY DEF Linking, Walking, WithObj
  <2> QED
    BY <2>1, <2>2 DEF FirmIn, HoldsSlot, Holds
<1> QED
  BY <1>2, <1>3, Zenon DEF Firm, HoldsSlot, Holds
-----------------------------------------------------------------------------
(***************************************************************************)
(* What a step of p must do to keep the invariant.                         *)
(***************************************************************************)
CountsMove(p) ==
  \A s \in Slots : icache'[s].ref + MineOf(p, s) = icache[s].ref + MineOf(p, s)'
LocksMove(p) ==
  \A s \in Slots :
    /\ \/ icache'[s].lock = icache[s].lock
       \/ icache[s].lock \in {p, NoProc} /\ icache'[s].lock \in {p, NoProc}
    /\ icache'[s].lock = p <=> HasLock(call'[p], s)
\* An entry in use keeps its inode; another may be taken for one that has none.
SlotsKept ==
  /\ \A s \in Slots : icache[s].ref > 0 => icache'[s].inum = icache[s].inum
  /\ \A s \in Slots : icache[s].ref = 0 /\ icache'[s].ref > 0 =>
       /\ icache'[s].inum \in Inums /\ ~icache'[s].valid
       /\ \A t \in Slots \ {s} :
            icache'[t].ref > 0 => icache'[t].inum # icache'[s].inum
Loaded(s) ==
  /\ icache'[s].valid
  /\ icache'[s].type = dinode'[icache[s].inum].type
  /\ icache'[s].nlink = dinode'[icache[s].inum].nlink
  /\ icache'[s].type # "free"
Untouched(p, s) ==
  /\ icache'[s].valid = icache[s].valid
  /\ icache'[s].type = icache[s].type /\ icache'[s].nlink = icache[s].nlink
  /\ dinode'[icache[s].inum].type = dinode[icache[s].inum].type
  /\ dinode'[icache[s].inum].nlink = dinode[icache[s].inum].nlink
  /\ ~Invalidating(call[p], s)
CacheMoves(p) ==
  \A s \in Slots : icache[s].ref > 0 =>
    \/ ~icache'[s].valid \/ Loaded(s) \/ Untouched(p, s)
    \/ Invalidating(call'[p], s) \/ \E q \in Procs \ {p} : Invalidating(call[q], s)
\* An inode that others rely on keeps its type, one that p has not locked its names.
TypesKept(p) ==
  \A i \in Inums :
    \/ dinode'[i].type = dinode[i].type \/ dinode[i].type = "free"
    \/ \A q \in Procs \ {p}, s \in Slots : Firm(q, s) => icache[s].inum # i
EntsKept(p) ==
  \A i \in Inums :
    \/ dinode'[i].ents = dinode[i].ents
    \/ \E s \in Slots : icache[s].lock = p /\ icache[s].ref > 0 /\ icache[s].inum = i
FirmMoves(p) ==
  \A s \in Slots : Firm(p, s)' => Firm(p, s) \/ icache[s].lock \in {p, NoProc}

LEMMA Step ==
  ASSUME IInv, NEW p \in Procs, Typed', panic' = panic, OnlyCaller(p), CallOK(call'[p]),
         CountsMove(p), LocksMove(p), SlotsKept, CacheMoves(p), LockedValid',
         TypesKept(p), EntsKept(p), FirmMoves(p),
         EntsTyped', Acyclic', FirmTyped(p)', NotFreed(p)', VictimIs(p)'
  PROVE  IInv'
<1>1. /\ Typed /\ Counted /\ OneEntry /\ Numbered /\ LocksExact /\ LikeDisk
      /\ \A q \in Procs : CallOK(call[q]) /\ FirmTyped(q) /\ NotFreed(q) /\ VictimIs(q)
  BY DEF IInv
<1>2. ASSUME NEW q \in Procs \ {p}
      PROVE  cwd'[q] = cwd[q] /\ fd'[q] = fd[q] /\ call'[q] = call[q]
  BY DEF OnlyCaller
<1>3. \A s \in Slots : icache[s] \in CacheRec /\ icache'[s] \in CacheRec
  BY <1>1 DEF Typed
<1>4. \A s \in Slots : icache[s].ref \in Nat /\ icache'[s].ref \in Nat
                       /\ icache[s].lock \in Procs \cup {NoProc}
  BY <1>3 DEF CacheRec
<1>5. Counted'
  <2>1. ASSUME NEW s \in Slots
        PROVE  icache'[s].ref = Cardinality(Holders(s))'
    BY <1>1, <1>4, Recount DEF CountsMove
  <2> QED
    BY <2>1 DEF Counted
<1>6. Numbered'
  BY <1>1, <1>4 DEF Numbered, SlotsKept
<1>7. OneEntry'
  <2>1. ASSUME NEW s \in Slots, NEW t \in Slots, icache'[s].ref > 0, icache'[t].ref > 0,
               icache'[s].inum = icache'[t].inum
        PROVE  s = t
    <3>1. CASE icache[s].ref > 0 /\ icache[t].ref > 0
      BY <1>1, <2>1, <3>1 DEF OneEntry, SlotsKept
    <3>2. CASE icache[s].ref = 0
      BY <2>1, <3>2 DEF SlotsKept
    <3>3. CASE icache[t].ref = 0
      BY <2>1, <3>3 DEF SlotsKept
    <3> QED
      BY <1>4, <3>1, <3>2, <3>3
  <2> QED
    BY <2>1 DEF OneEntry
<1>8. LocksExact'
  <2>1. ASSUME NEW q \in Procs, NEW s \in Slots
        PROVE  icache'[s].lock = q <=> HasLock(call'[q], s)
    <3>1. CASE q = p
      BY <3>1 DEF LocksMove
    <3>2. CASE q # p
      <4>1. icache'[s].lock = q <=> icache[s].lock = q
        BY <3>2, Numbers DEF LocksMove
      <4> QED
        BY <1>1, <1>2, <3>2, <4>1 DEF LocksExact
    <3> QED
      BY <3>1, <3>2
  <2> QED
    BY <2>1 DEF LocksExact
<1>9. LikeDisk'
  <2>1. ASSUME ~panic, NEW s \in Slots, icache'[s].ref > 0, icache'[s].valid,
               \A q \in Procs : ~Invalidating(call'[q], s)
        PROVE  /\ icache'[s].type = dinode'[icache'[s].inum].type
               /\ icache'[s].nlink = dinode'[icache'[s].inum].nlink
               /\ icache'[s].type # "free"
    <3>1. icache[s].ref > 0
      BY <1>4, <2>1 DEF SlotsKept
    <3>2. icache'[s].inum = icache[s].inum
      BY <3>1 DEF SlotsKept
    <3>3. CASE Loaded(s)
      BY <3>2, <3>3 DEF Loaded
    <3>4. CASE Untouched(p, s)
      <4>1. \A q \in Procs : ~Invalidating(call[q], s)
        BY <1>2, <2>1, <3>4 DEF Untouched
      <4> QED
        BY <1>1, <2>1, <3>1, <3>2, <3>4, <4>1 DEF Untouched, LikeDisk
    <3>5. \A q \in Procs \ {p} : ~Invalidating(call[q], s)
      BY <1>2, <2>1
    <3> QED
      BY <2>1, <3>1, <3>3, <3>4, <3>5 DEF CacheMoves
  <2> QED
    BY <2>1 DEF LikeDisk
<1>10. ASSUME NEW q \in Procs \ {p}
       PROVE  CallOK(call'[q]) /\ FirmTyped(q)' /\ NotFreed(q)' /\ VictimIs(q)'
  <2>1. \A s \in Slots : HoldsSlot(q, s) =>
          icache[s].ref > 0 /\ icache'[s].inum = icache[s].inum /\ icache[s].inum \in Inums
    BY <1>1, Referenced DEF SlotsKept, Numbered
  <2>2. \A s \in Slots : (HasLock(call[q], s) => HoldsSlot(q, s)) /\ (Firm(q, s) => HoldsSlot(q, s))
    BY <1>1, LockHolds
  <2>3. CallOK(call'[q])
    BY <1>1, <1>2
  <2>4. ASSUME NEW s \in Slots, Firm(q, s)
        PROVE  DiskType(s)' = DiskType(s) \/ DiskType(s) = "free"
    BY <2>1, <2>2, <2>4 DEF TypesKept, DiskType
  <2>5. FirmTyped(q)'
    <3>1. cwd[q] \in Slots \cup {None} /\ fd[q] \in Slots \cup {None}
      BY <1>1 DEF Typed
    <3>2. AtParent(call[q]) => call[q].ip \in Slots /\ Firm(q, call[q].ip)
      <4>1. call[q] \in CallRec
        BY <1>1 DEF Typed
      <4>2. call[q].ip \in Slots \cup {None}
        BY <4>1 DEF CallRec
      <4>3. AtParent(call[q]) => call[q].ip \in Slots
        <5>1. InParent \subseteq WithIp \ {"found"}
          BY DEF InParent, WithIp
        <5> QED
          BY <1>1, <4>2, <5>1 DEF AtParent, CallOK
      <4> QED
        BY <4>3 DEF Firm, FirmIn
    <3>3. Linking(call[q]) => call[q].obj \in Slots /\ Firm(q, call[q].obj)
      BY <1>1 DEF Linking, Firm, FirmIn, CallOK, Walking, WithObj
    <3>4. \A s \in {cwd[q], fd[q]} \ {None} : DiskType(s)' # "free"
      BY <1>1, <2>4, <3>1 DEF FirmTyped, Firm
    <3>5. ASSUME AtParent(call[q]), NEW s \in Slots, s = call[q].ip
          PROVE  DiskType(s)' = "dir"
      BY <1>1, <2>4, <3>2, <3>5 DEF FirmTyped
    <3>6. ASSUME Linking(call[q]), NEW s \in Slots, s = call[q].obj
          PROVE  DiskType(s)' \notin {"free", "dir"}
      BY <1>1, <2>4, <3>3, <3>6 DEF FirmTyped
    <3> QED
      BY <1>1, <1>2, <3>2, <3>3, <3>4, <3>5, <3>6 DEF FirmTyped, DiskType
  <2>6. NotFreed(q)'
    <3>1. ASSUME call[q].stage = "free", NEW r \in Procs, Firm(r, First(call[q].puts))'
          PROVE  FALSE
      <4>1. PICK s \in Slots : s = First(call[q].puts)
        <5>1. call[q].puts # <<>> /\ call[q] \in CallRec
          BY <1>1, <3>1 DEF CallOK, Typed
        <5>2. call[q].puts \in PutLists
          BY <5>1 DEF CallRec
        <5> QED
          BY <5>1, <5>2, PutNext
      <4>2. icache[s].lock = q
        BY <1>1, <3>1, <4>1 DEF LocksExact, HasLock
      <4>3. ~Firm(r, s)
        BY <1>1, <3>1, <4>1 DEF NotFreed
      <4>4. CASE r = p
        <5>1. Firm(p, s)'
          BY <1>2, <3>1, <4>1, <4>4 DEF Firm
        <5> QED
          BY <4>2, <4>3, <4>4, <5>1, Numbers DEF FirmMoves
      <4>5. CASE r # p
        BY <1>2, <3>1, <4>1, <4>3, <4>5 DEF Firm
      <4> QED
        BY <4>4, <4>5
    <3> QED
      BY <1>2, <3>1 DEF NotFreed
  <2>7. VictimIs(q)'
    <3>1. ASSUME NEW s \in Slots, HasLock(call[q], s)
          PROVE  \A n : Entry(s, n)' = Entry(s, n)
      <4>1. icache[s].lock = q /\ icache[s].ref > 0 /\ icache[s].inum \in Inums
            /\ icache'[s].inum = icache[s].inum
        BY <1>1, <2>1, <2>2, <3>1 DEF LocksExact
      <4>2. \A t \in Slots : icache[t].lock = p /\ icache[t].ref > 0 =>
              icache[t].inum # icache[s].inum
        BY <1>1, <4>1 DEF OneEntry
      <4>3. dinode'[icache[s].inum].ents = dinode[icache[s].inum].ents
        BY <4>1, <4>2 DEF EntsKept
      <4> QED
        BY <4>1, <4>3 DEF Entry
    <3>2. CASE call[q].at \in {"victim", "both"}
      <4>1. call[q].ip \in Slots /\ HasLock(call[q], call[q].ip)
        BY <1>1, <3>2 DEF CallOK, WithIp, HasLock, IpLocked
      <4>2. call[q].obj \in Slots /\ HoldsSlot(q, call[q].obj)
        BY <1>1, <3>2 DEF CallOK, WithObj, Walking, HoldsSlot, Holds
      <4>3. icache'[call[q].obj].inum = icache[call[q].obj].inum
        BY <2>1, <4>2
      <4>4. Entry(call[q].ip, call[q].name)' = Entry(call[q].ip, call[q].name)
        <5>1. PICK s \in Slots : s = call[q].ip
          BY <4>1
        <5>2. PICK n : n = call[q].name
          OBVIOUS
        <5>3. Entry(s, n)' = Entry(s, n)
          BY <3>1, <4>1, <5>1
        <5> QED
          BY <1>2, <5>1, <5>2, <5>3 DEF Entry
      <4> QED
        BY <1>1, <1>2, <3>2, <4>3, <4>4 DEF VictimIs
    <3>3. CASE call[q].at = "full" /\ call[q].puts # <<>>
      <4>1. call[q].ip \in Slots /\ HasLock(call[q], call[q].ip)
        BY <1>1, <3>3 DEF CallOK, WithIp, HasLock, IpLocked
      <4>2. First(call[q].puts) \in Slots /\ HoldsSlot(q, First(call[q].puts))
        <5>1. call[q] \in CallRec
          BY <1>1 DEF Typed
        <5>2. call[q].puts \in PutLists
          BY <5>1 DEF CallRec
        <5> QED
          BY <3>3, <5>2, PutNext DEF HoldsSlot, Holds
      <4>3. icache'[First(call[q].puts)].inum = icache[First(call[q].puts)].inum
        BY <2>1, <4>2
      <4>4. Entry(call[q].ip, call[q].name)' = Entry(call[q].ip, call[q].name)
        <5>1. PICK s \in Slots : s = call[q].ip
          BY <4>1
        <5>2. PICK n : n = call[q].name
          OBVIOUS
        <5>3. Entry(s, n)' = Entry(s, n)
          BY <3>1, <4>1, <5>1
        <5> QED
          BY <1>2, <5>1, <5>2, <5>3 DEF Entry
      <4> QED
        BY <1>1, <1>2, <3>3, <4>3, <4>4 DEF VictimIs
    <3> QED
      BY <1>2, <3>2, <3>3 DEF VictimIs
  <2> QED
    BY <2>3, <2>5, <2>6, <2>7
<1> QED
  BY <1>5, <1>6, <1>7, <1>8, <1>9, <1>10 DEF IInv
-----------------------------------------------------------------------------
(***************************************************************************)
(* Steps that leave the disk as it is, or change a count of links there.   *)
(***************************************************************************)
MakingKept(p) ==
  call'[p].at \in Making =>
    /\ call[p].at \in Making
    /\ icache'[call'[p].ip].inum = icache[call[p].ip].inum
    /\ Fresh(p)' = Fresh(p)

LEMMA LinksStep ==
  ASSUME IInv, NEW p \in Procs, Typed', panic' = panic,
         \A i \in Inums : dinode'[i].type = dinode[i].type /\ dinode'[i].ents = dinode[i].ents,
         OnlyCaller(p), CallOK(call'[p]), CountsMove(p), LocksMove(p), SlotsKept,
         CacheMoves(p), LockedValid', FirmMoves(p), MakingKept(p),
         FirmTyped(p)', NotFreed(p)', VictimIs(p)'
  PROVE  IInv'
<1>1. TypesKept(p) /\ EntsKept(p)
  BY DEF TypesKept, EntsKept
<1>2. EntsTyped'
  BY DEF IInv, EntsTyped
<1>3. ASSUME NEW q \in Procs, call'[q].at \in Making
      PROVE  /\ call[q].at \in Making
             /\ icache'[call'[q].ip].inum = icache[call[q].ip].inum
             /\ Fresh(q)' = Fresh(q)
  <2>1. CASE q = p
    BY <1>3, <2>1 DEF MakingKept
  <2>2. CASE q # p
    <3>1. call'[q] = call[q] /\ CallOK(call[q]) /\ Counted
      BY <2>2 DEF OnlyCaller, IInv
    <3>2. call[q].ip \in Slots /\ HoldsSlot(q, call[q].ip)
      BY <1>3, <3>1 DEF CallOK, Making, WithIp, HoldsSlot, Holds
    <3>3. icache'[call[q].ip].inum = icache[call[q].ip].inum
      BY <3>1, <3>2, Referenced DEF SlotsKept
    <3>4. call[q].at # "made" => call[q].obj \in Slots /\ HoldsSlot(q, call[q].obj)
      BY <1>3, <3>1 DEF CallOK, Making, WithObj, Walking, HoldsSlot, Holds
    <3>5. call[q].at # "made" => icache'[call[q].obj].inum = icache[call[q].obj].inum
      BY <3>1, <3>4, Referenced DEF SlotsKept
    <3> QED
      BY <1>3, <3>1, <3>3, <3>5 DEF Fresh
  <2> QED
    BY <2>1, <2>2
<1>4. \A x \in Inums : \A y : Below(x, y)' => Below(x, y)
  BY <1>3 DEF Below
<1>5. Acyclic'
  <2>1. Acyclic
    BY DEF IInv
  <2> QED
    BY <1>4, <2>1 DEF Acyclic
<1> QED
  BY <1>1, <1>2, <1>5, Step

LEMMA CacheStep ==
  ASSUME IInv, NEW p \in Procs, Typed', UNCHANGED dinode, panic' = panic,
         OnlyCaller(p), CallOK(call'[p]), CountsMove(p), LocksMove(p), SlotsKept,
         CacheMoves(p), LockedValid', FirmMoves(p), MakingKept(p),
         FirmTyped(p)', NotFreed(p)', VictimIs(p)'
  PROVE  IInv'
<1>1. \A i \in Inums : dinode'[i].type = dinode[i].type /\ dinode'[i].ents = dinode[i].ents
  OBVIOUS
<1> QED
  BY <1>1, LinksStep

\* A lock may be released and a reference moved or put; nothing else changes.
PlainSlots ==
  \A s \in Slots :
    /\ icache'[s].inum = icache[s].inum /\ icache'[s].valid = icache[s].valid
    /\ icache'[s].type = icache[s].type /\ icache'[s].nlink = icache[s].nlink
    /\ icache[s].ref = 0 => icache'[s].ref = 0
    /\ icache'[s].lock \in {icache[s].lock, NoProc}

LEMMA PlainStep ==
  ASSUME IInv, NEW p \in Procs, Typed', UNCHANGED dinode, panic' = panic,
         OnlyCaller(p), CallOK(call'[p]), CountsMove(p), LocksMove(p), PlainSlots,
         call[p].stage # "invalid", call'[p].stage # "free",
         FirmMoves(p), MakingKept(p), FirmTyped(p)', VictimIs(p)'
  PROVE  IInv'
<1>1. \A s \in Slots : icache[s].ref \in Nat
  BY DEF IInv, Typed, CacheRec
<1>2. SlotsKept
  BY <1>1 DEF PlainSlots, SlotsKept
<1>3. CacheMoves(p)
  BY DEF PlainSlots, CacheMoves, Untouched, Invalidating
<1>4. LockedValid'
  BY DEF PlainSlots, LockedValid, IInv
<1>5. NotFreed(p)'
  BY DEF NotFreed
<1> QED
  BY <1>2, <1>3, <1>4, <1>5, CacheStep

LEMMA UnlockDoes ==
  ASSUME Typed, NEW s \in Slots
  PROVE  /\ Unlock(icache, s) \in [Slots -> CacheRec]
         /\ \A t \in Slots :
              /\ Unlock(icache, s)[t].lock = IF t = s THEN NoProc ELSE icache[t].lock
              /\ Unlock(icache, s)[t].ref = icache[t].ref
              /\ Unlock(icache, s)[t].inum = icache[t].inum
              /\ Unlock(icache, s)[t].valid = icache[t].valid
              /\ Unlock(icache, s)[t].type = icache[t].type
              /\ Unlock(icache, s)[t].nlink = icache[t].nlink
BY DEF Typed, CacheRec, Unlock

LEMMA Became ==
  ASSUME Typed, NEW p \in Procs, NEW c \in CallRec, Become(p, c)
  PROVE  /\ call' \in [Procs -> CallRec] /\ call'[p] = c
         /\ \A q \in Procs \ {p} : call'[q] = call[q]
BY DEF Typed, Become

LEMMA UserIs ==
  /\ User \in CallRec /\ User.at = "user" /\ User.stage = "lock" /\ User.puts = <<>>
  /\ User.ip = None /\ User.obj = None /\ User.path = <<>>
<1>1. <<>> \in Walks /\ <<>> \in PutLists /\ "user" \in Ats
  BY Lists DEF Walks, Ats
<1>2. User \in CallRec
  BY <1>1 DEF CallRec, User, NoName
<1>3. /\ User.at = "user" /\ User.stage = "lock" /\ User.puts = <<>>
      /\ User.ip = None /\ User.obj = None /\ User.path = <<>>
  BY DEF User
<1> QED
  BY <1>2, <1>3

LEMMA Users ==
  ASSUME NEW q \in PutLists
  PROVE  LET c == [User EXCEPT !.puts = q]
         IN  /\ c \in CallRec /\ c.at = "user" /\ c.puts = q /\ c.stage = "lock"
             /\ CallOK(c) /\ ~AtParent(c) /\ ~Linking(c)
<1> DEFINE c == [User EXCEPT !.puts = q]
<1>2. c \in CallRec /\ c.at = "user" /\ c.puts = q /\ c.stage = "lock"
  BY UserIs DEF CallRec
<1> HIDE DEF c
<1>5. CallOK(c)
  BY <1>2 DEF CallOK, WithIp, WithObj, Walking, InParent, Making, NoPuts
<1>6. ~AtParent(c) /\ ~Linking(c)
  BY <1>2 DEF AtParent, Linking, InParent, Walking
<1> QED
  BY <1>2, <1>5, <1>6 DEF c

LEMMA HaltStep ==
  ASSUME IInv, panic' = TRUE, UNCHANGED <<icache, cwd, fd, call>>, calls' \in 0..CALLS,
         dinode' \in [Inums -> DiskRec],
         \A i \in Inums : dinode'[i].type = dinode[i].type /\ dinode'[i].ents = dinode[i].ents
  PROVE  IInv'
<1>1. /\ Typed /\ EntsTyped /\ Numbered /\ OneEntry /\ Counted /\ LocksExact
      /\ LockedValid /\ Acyclic
      /\ \A q \in Procs : CallOK(call[q]) /\ FirmTyped(q) /\ NotFreed(q) /\ VictimIs(q)
  BY DEF IInv
<1>2. Typed' /\ Numbered' /\ OneEntry' /\ LocksExact' /\ LockedValid' /\ LikeDisk'
  BY <1>1 DEF Typed, Numbered, OneEntry, LocksExact, LockedValid, LikeDisk
<1>3. EntsTyped'
  BY <1>1 DEF EntsTyped
<1>4. Counted'
  BY <1>1 DEF Counted, Holders, Held
<1>5. Acyclic'
  <2>1. ASSUME NEW x \in Inums, NEW y
        PROVE  Below(x, y)' => Below(x, y)
    BY DEF Below, Fresh
  <2> QED
    BY <1>1, <2>1 DEF Acyclic
<1>6. ASSUME NEW q \in Procs
      PROVE  CallOK(call'[q]) /\ FirmTyped(q)' /\ NotFreed(q)' /\ VictimIs(q)'
  <2>1. \A s \in Slots : HoldsSlot(q, s) => icache[s].inum \in Inums
    BY <1>1, Referenced DEF Numbered
  <2>2. \A s \in Slots : HoldsSlot(q, s) =>
          DiskType(s)' = DiskType(s) /\ \A n : Entry(s, n)' = Entry(s, n)
    BY <2>1 DEF DiskType, Entry
  <2>3. call[q] \in CallRec /\ cwd[q] \in Slots \cup {None} /\ fd[q] \in Slots \cup {None}
    BY <1>1 DEF Typed
  <2>4. call[q].ip \in Slots \cup {None} /\ call[q].puts \in PutLists
    BY <2>3 DEF CallRec
  <2>5. \A s \in {cwd[q], fd[q]} \ {None} : s \in Slots /\ HoldsSlot(q, s)
    BY <2>3 DEF HoldsSlot, Holds
  <2>6. AtParent(call[q]) => call[q].ip \in Slots /\ HoldsSlot(q, call[q].ip)
    BY <1>1, <2>4 DEF AtParent, CallOK, InParent, WithIp, HoldsSlot, Holds
  <2>7. Linking(call[q]) => call[q].obj \in Slots /\ HoldsSlot(q, call[q].obj)
    BY <1>1 DEF Linking, CallOK, Walking, WithObj, HoldsSlot, Holds
  <2>8. FirmTyped(q)'
    <3>1. \A s \in {cwd[q], fd[q]} \ {None} : DiskType(s)' # "free"
      BY <1>1, <2>2, <2>5 DEF FirmTyped
    <3>2. ASSUME AtParent(call[q]), NEW s \in Slots, s = call[q].ip
          PROVE  DiskType(s)' = "dir"
      BY <1>1, <2>2, <2>6, <3>2 DEF FirmTyped
    <3>3. ASSUME Linking(call[q]), NEW s \in Slots, s = call[q].obj
          PROVE  DiskType(s)' \notin {"free", "dir"}
      BY <1>1, <2>2, <2>7, <3>3 DEF FirmTyped
    <3> QED
      BY <1>1, <2>6, <2>7, <3>1, <3>2, <3>3 DEF FirmTyped, DiskType
  <2>9. NotFreed(q)'
    BY <1>1 DEF NotFreed, Firm
  <2>10. VictimIs(q)'
    <3>1. call[q].at \in {"victim", "both", "full"} =>
            call[q].ip \in Slots /\ HoldsSlot(q, call[q].ip)
      BY <1>1 DEF CallOK, WithIp, HoldsSlot, Holds
    <3>2. ASSUME NEW s \in Slots, s = call[q].ip, HoldsSlot(q, s), NEW n, n = call[q].name
          PROVE  dinode'[icache[call[q].ip].inum].ents[call[q].name] = Entry(s, n)
      BY <2>2, <3>2 DEF Entry
    <3> QED
      BY <1>1, <3>1, <3>2 DEF VictimIs, Entry
  <2> QED
    BY <1>1, <2>8, <2>9, <2>10
<1> QED
  BY <1>1, <1>2, <1>3, <1>4, <1>5, <1>6 DEF IInv

LEMMA PanicStep ==
  ASSUME IInv, panic' = TRUE, UNCHANGED <<icache, cwd, fd, call, calls>>,
         dinode' \in [Inums -> DiskRec],
         \A i \in Inums : dinode'[i].type = dinode[i].type /\ dinode'[i].ents = dinode[i].ents
  PROVE  IInv'
<1>1. calls' \in 0..CALLS
  BY DEF IInv, Typed
<1> QED
  BY <1>1, HaltStep

\* A call in progress that has nothing to put.
LEMMA Quiet ==
  ASSUME IInv, NEW p \in Procs, call[p].puts = <<>>
  PROVE  /\ call[p] \in CallRec /\ CallOK(call[p]) /\ call[p].stage = "lock"
         /\ First(call[p].puts) = None /\ Second(call[p].puts) = None
         /\ \A s \in Slots :
              /\ icache[s].lock = p <=> HasLock(call[p], s)
              /\ HasLock(call[p], s) <=> \/ call[p].at \in IpLocked /\ call[p].ip = s
                                         \/ call[p].at \in ObjLocked /\ call[p].obj = s
              /\ MineOf(p, s) = One(cwd[p] = s) + One(fd[p] = s)
                                + One(call[p].at \in WithIp /\ call[p].ip = s)
                                + One(call[p].at \in WithObj /\ call[p].obj = s)
<1>1. call[p] \in CallRec /\ CallOK(call[p]) /\ LocksExact
  BY DEF IInv, Typed
<1>2. First(call[p].puts) = None /\ Second(call[p].puts) = None
  BY Lists
<1>3. call[p].stage = "lock"
  BY <1>1 DEF CallOK
<1>4. ASSUME NEW s \in Slots
      PROVE  MineOf(p, s) = One(cwd[p] = s) + One(fd[p] = s)
                            + One(call[p].at \in WithIp /\ call[p].ip = s)
                            + One(call[p].at \in WithObj /\ call[p].obj = s)
  <2>1. None # s
    BY Numbers
  <2> QED
    BY <1>2, <2>1 DEF MineOf, Mine, One
<1>5. ASSUME NEW s \in Slots
      PROVE  HasLock(call[p], s) <=> \/ call[p].at \in IpLocked /\ call[p].ip = s
                                     \/ call[p].at \in ObjLocked /\ call[p].obj = s
  BY <1>3 DEF HasLock
<1>6. \A s \in Slots : icache[s].lock = p <=> HasLock(call[p], s)
  BY <1>1 DEF LocksExact
<1> QED
  BY <1>1, <1>2, <1>3, <1>4, <1>5, <1>6

LEMMA ReleaseLocks ==
  ASSUME IInv, NEW p \in Procs, call[p].puts = <<>>,
         \/ icache' = icache /\ \A s \in Slots : ~HasLock(call[p], s)
         \/ \E u \in Slots : /\ icache' = Unlock(icache, u)
                             /\ \A s \in Slots : HasLock(call[p], s) <=> s = u
  PROVE  /\ icache' \in [Slots -> CacheRec] /\ PlainSlots
         /\ \A s \in Slots :
              /\ icache'[s].ref = icache[s].ref /\ icache'[s].lock # p
              /\ icache'[s].lock = icache[s].lock
                   \/ (icache[s].lock = p /\ icache'[s].lock = NoProc)
<1>1. Typed /\ NoProc # p
  BY Numbers DEF IInv
<1>2. \A s \in Slots : icache[s].lock = p <=> HasLock(call[p], s)
  BY Quiet
<1>3. CASE icache' = icache /\ \A s \in Slots : ~HasLock(call[p], s)
  BY <1>1, <1>2, <1>3 DEF Typed, PlainSlots
<1>4. CASE \E u \in Slots : /\ icache' = Unlock(icache, u)
                            /\ \A s \in Slots : HasLock(call[p], s) <=> s = u
  <2>1. PICK u \in Slots : /\ icache' = Unlock(icache, u)
                           /\ \A s \in Slots : HasLock(call[p], s) <=> s = u
    BY <1>4
  <2>2. /\ icache' \in [Slots -> CacheRec]
        /\ \A t \in Slots :
             /\ icache'[t].lock = IF t = u THEN NoProc ELSE icache[t].lock
             /\ icache'[t].ref = icache[t].ref
             /\ icache'[t].inum = icache[t].inum
             /\ icache'[t].valid = icache[t].valid
             /\ icache'[t].type = icache[t].type
             /\ icache'[t].nlink = icache[t].nlink
    BY <1>1, <2>1, UnlockDoes
  <2> QED
    BY <1>1, <1>2, <2>1, <2>2 DEF PlainSlots
<1> QED
  BY <1>3, <1>4

\* The end of a call: locks are released, and references put or kept.
LEMMA EndStep ==
  ASSUME IInv, NEW p \in Procs, call[p].puts = <<>>, NEW q \in PutLists, End(p, q),
         cwd' \in [Procs -> Slots \cup {None}], fd' \in [Procs -> Slots \cup {None}],
         \A r \in Procs \ {p} : cwd'[r] = cwd[r] /\ fd'[r] = fd[r],
         calls' \in 0..CALLS, UNCHANGED <<dinode, panic>>,
         \/ icache' = icache /\ \A s \in Slots : ~HasLock(call[p], s)
         \/ \E u \in Slots : /\ icache' = Unlock(icache, u)
                             /\ \A s \in Slots : HasLock(call[p], s) <=> s = u,
         \A s \in Slots :
           One(cwd'[p] = s) + One(fd'[p] = s) + One(First(q) = s) + One(Second(q) = s)
             = One(cwd[p] = s) + One(fd[p] = s)
               + One(call[p].at \in WithIp /\ call[p].ip = s)
               + One(call[p].at \in WithObj /\ call[p].obj = s),
         \A s \in {cwd'[p], fd'[p]} \ {None} :
           \/ s \in {cwd[p], fd[p]}
           \/ icache[s].lock = p /\ DiskType(s) # "free"
  PROVE  IInv'
<1> DEFINE c == [User EXCEPT !.puts = q]
<1>1. Typed /\ FirmTyped(p)
  BY DEF IInv
<1>2. /\ c \in CallRec /\ c.at = "user" /\ c.puts = q /\ c.stage = "lock"
      /\ CallOK(c) /\ ~AtParent(c) /\ ~Linking(c)
  BY Users
<1>3. Become(p, c)
  BY DEF End
<1> HIDE DEF c
<1>4. call' \in [Procs -> CallRec] /\ call'[p] = c /\ \A r \in Procs \ {p} : call'[r] = call[r]
  BY <1>1, <1>2, <1>3, Became
<1>5. /\ icache' \in [Slots -> CacheRec] /\ PlainSlots
      /\ \A s \in Slots :
           /\ icache'[s].ref = icache[s].ref /\ icache'[s].lock # p
           /\ icache'[s].lock = icache[s].lock
                \/ (icache[s].lock = p /\ icache'[s].lock = NoProc)
  BY ReleaseLocks
<1>6. Typed'
  BY <1>1, <1>4, <1>5 DEF Typed
<1>7. OnlyCaller(p)
  BY <1>4 DEF OnlyCaller
<1>8. CountsMove(p)
  <2>1. ASSUME NEW s \in Slots
        PROVE  MineOf(p, s)' = MineOf(p, s)
    <3>1. MineOf(p, s) = One(cwd[p] = s) + One(fd[p] = s)
                         + One(call[p].at \in WithIp /\ call[p].ip = s)
                         + One(call[p].at \in WithObj /\ call[p].obj = s)
      BY Quiet
    <3>2. c.at \notin WithIp /\ c.at \notin WithObj
      BY <1>2 DEF WithIp, WithObj
    <3>3. MineOf(p, s)' = Mine(cwd'[p], fd'[p], c, s)
      BY <1>4 DEF MineOf
    <3>4. Mine(cwd'[p], fd'[p], c, s) =
            One(cwd'[p] = s) + One(fd'[p] = s) + One(First(q) = s) + One(Second(q) = s)
      BY <1>2, <3>2 DEF Mine, One
    <3> QED
      BY <3>1, <3>3, <3>4
  <2> QED
    BY <1>5, <2>1 DEF CountsMove
<1>9. \A s \in Slots : ~HasLock(c, s)
  BY <1>2 DEF HasLock, IpLocked, ObjLocked
<1>10. LocksMove(p)
  BY <1>4, <1>5, <1>9 DEF LocksMove
<1>11. call[p].stage = "lock"
  BY Quiet
<1>12. \A s \in Slots : Firm(p, s)' => s \in {cwd'[p], fd'[p]} \ {None}
  BY <1>2, <1>4, Numbers DEF Firm, FirmIn
<1>13. FirmMoves(p)
  BY <1>12 DEF FirmMoves, Firm
<1>14. FirmTyped(p)'
  <2>1. ASSUME NEW s \in {cwd'[p], fd'[p]} \ {None}
        PROVE  DiskType(s)' # "free"
    <3>1. s \in Slots
      BY <1>6 DEF Typed
    <3>2. DiskType(s)' = DiskType(s)
      BY <1>5, <3>1 DEF DiskType, PlainSlots
    <3> QED
      BY <1>1, <3>2 DEF FirmTyped
  <2> QED
    BY <1>2, <1>4, <2>1 DEF FirmTyped
<1>15. VictimIs(p)' /\ MakingKept(p)
  BY <1>2, <1>4 DEF VictimIs, MakingKept, Making
<1> QED
  BY <1>2, <1>4, <1>5, <1>6, <1>7, <1>8, <1>10, <1>11, <1>13, <1>14, <1>15, PlainStep

\* Under its lock an inode is what is on disk; one that nobody has locked is not
\* about to be marked invalid.
LEMMA LockedIs ==
  ASSUME IInv, ~panic, NEW p \in Procs, NEW s \in Slots, icache[s].lock = p,
         call[p].stage = "lock"
  PROVE  /\ icache[s].ref > 0 /\ icache[s].inum \in Inums /\ icache[s].valid
         /\ icache[s].type = DiskType(s) /\ icache[s].type # "free"
         /\ icache[s].nlink = dinode[icache[s].inum].nlink
<1>1. /\ LocksExact /\ Counted /\ Numbered /\ LockedValid /\ LikeDisk
      /\ CallOK(call[p]) /\ NoProc \notin Procs
  BY Numbers DEF IInv
<1>2. HasLock(call[p], s)
  BY <1>1 DEF LocksExact
<1>3. HoldsSlot(p, s)
  BY <1>1, <1>2, LockHolds
<1>4. icache[s].ref > 0 /\ icache[s].inum \in Inums
  BY <1>1, <1>3, Referenced DEF Numbered
<1>5. icache[s].valid
  BY <1>1 DEF LockedValid
<1>6. \A q \in Procs : ~Invalidating(call[q], s)
  BY <1>1 DEF LocksExact, HasLock, Invalidating
<1> QED
  BY <1>1, <1>4, <1>5, <1>6 DEF LikeDisk, DiskType

LEMMA UnlockedIs ==
  ASSUME IInv, NEW s \in Slots, icache[s].lock = NoProc
  PROVE  /\ \A q \in Procs : ~Invalidating(call[q], s) /\ ~HasLock(call[q], s)
         /\ ~panic /\ icache[s].ref > 0 /\ icache[s].valid =>
              /\ icache[s].type = DiskType(s) /\ icache[s].type # "free"
              /\ icache[s].nlink = dinode[icache[s].inum].nlink
<1>1. LocksExact /\ LikeDisk /\ NoProc \notin Procs
  BY Numbers DEF IInv
<1>2. \A q \in Procs : ~HasLock(call[q], s)
  BY <1>1 DEF LocksExact
<1>3. \A q \in Procs : ~Invalidating(call[q], s)
  BY <1>2 DEF HasLock, Invalidating
<1> QED
  BY <1>1, <1>2, <1>3 DEF LikeDisk, DiskType

\* The one reference of a call is put after its lock.
LEMMA EndPut ==
  ASSUME IInv, NEW p \in Procs, call[p].puts = <<>>, NEW s \in Slots, End(p, <<s>>),
         icache' = Unlock(icache, s), \A t \in Slots : HasLock(call[p], t) <=> t = s,
         UNCHANGED <<dinode, cwd, fd, calls, panic>>,
         \/ call[p].at \in WithIp /\ call[p].at \notin WithObj /\ call[p].ip = s
         \/ call[p].at \notin WithIp /\ call[p].at \in WithObj /\ call[p].obj = s
  PROVE  IInv'
<1>1. cwd' \in [Procs -> Slots \cup {None}] /\ fd' \in [Procs -> Slots \cup {None}]
      /\ calls' \in 0..CALLS
  BY DEF IInv, Typed
<1>2. \A r \in Procs : cwd'[r] = cwd[r] /\ fd'[r] = fd[r]
  OBVIOUS
<1>3. ASSUME NEW t \in Slots
      PROVE  One(cwd'[p] = t) + One(fd'[p] = t) + One(First(<<s>>) = t) + One(Second(<<s>>) = t)
               = One(cwd[p] = t) + One(fd[p] = t)
                 + One(call[p].at \in WithIp /\ call[p].ip = t)
                 + One(call[p].at \in WithObj /\ call[p].obj = t)
  <2>1. First(<<s>>) = s /\ Second(<<s>>) # t
    BY Lists, Numbers
  <2> QED
    BY <1>2, <2>1 DEF One
<1>4. \A t \in {cwd'[p], fd'[p]} \ {None} :
        t \in {cwd[p], fd[p]} \/ (icache[t].lock = p /\ DiskType(t) # "free")
  BY <1>2
<1>5. <<s>> \in PutLists
  BY Lists
<1> QED
  BY <1>1, <1>2, <1>3, <1>4, <1>5, EndStep

LEMMA OpenEnds ==
  ASSUME IInv, NEW p \in Procs, sys_open(p)
  PROVE  IInv'
<1> DEFINE s == call[p].ip
<1>1. /\ ~panic /\ call[p].at = "open" /\ call[p].puts = <<>> /\ icache' = Unlock(icache, s)
      /\ UNCHANGED <<dinode, cwd, calls, panic>>
  BY DEF sys_open, Doing
<1>2. Typed /\ CallOK(call[p]) /\ call[p].stage = "lock"
  BY <1>1, Quiet DEF IInv
<1>3. s \in Slots
  BY <1>1, <1>2 DEF CallOK, WithIp
<1>4. \A t \in Slots : HasLock(call[p], t) <=> t = s
  BY <1>1, Quiet DEF IpLocked, ObjLocked
<1>5. icache[s].lock = p
  BY <1>1, <1>3, <1>4, Quiet
<1>6. DiskType(s) # "free"
  BY <1>1, <1>2, <1>3, <1>5, LockedIs
<1>7. "open" \in WithIp /\ "open" \notin WithObj
  BY DEF WithIp, WithObj
<1>8. None \notin Slots
  BY Numbers
<1>9. CASE fd[p] = None /\ fd' = [fd EXCEPT ![p] = s] /\ End(p, <<>>)
  <2>1. cwd' \in [Procs -> Slots \cup {None}] /\ fd' \in [Procs -> Slots \cup {None}]
        /\ calls' \in 0..CALLS /\ fd'[p] = s
    BY <1>1, <1>2, <1>3, <1>9 DEF Typed
  <2>2. \A r \in Procs \ {p} : cwd'[r] = cwd[r] /\ fd'[r] = fd[r]
    BY <1>1, <1>2, <1>9 DEF Typed
  <2>3. ASSUME NEW t \in Slots
        PROVE  One(cwd'[p] = t) + One(fd'[p] = t) + One(First(<<>>) = t) + One(Second(<<>>) = t)
                 = One(cwd[p] = t) + One(fd[p] = t)
                   + One(call[p].at \in WithIp /\ call[p].ip = t)
                   + One(call[p].at \in WithObj /\ call[p].obj = t)
    <3>1. First(<<>>) # t /\ Second(<<>>) # t /\ fd[p] # t /\ cwd'[p] = cwd[p]
      BY <1>1, <1>8, <1>9, Lists
    <3> QED
      BY <1>1, <1>7, <2>1, <3>1 DEF One
  <2>4. \A t \in {cwd'[p], fd'[p]} \ {None} :
          t \in {cwd[p], fd[p]} \/ (icache[t].lock = p /\ DiskType(t) # "free")
    BY <1>1, <1>5, <1>6, <2>1
  <2>5. <<>> \in PutLists
    BY Lists
  <2> HIDE DEF s
  <2> QED
    BY <1>1, <1>3, <1>4, <1>9, <2>1, <2>2, <2>3, <2>4, <2>5, EndStep
<1>10. CASE End(p, <<s>>) /\ UNCHANGED fd
  <2> HIDE DEF s
  <2>1. call[p].at \in WithIp /\ call[p].at \notin WithObj /\ s = call[p].ip
    BY <1>1, <1>7 DEF s
  <2> QED
    BY <1>1, <1>3, <1>4, <1>10, <2>1, EndPut
<1> QED
  BY <1>9, <1>10 DEF sys_open

LEMMA ExistsEnds ==
  ASSUME IInv, NEW p \in Procs, Exists(p), ~(call[p].op = "create" /\ icache[call[p].obj].type = "file")
  PROVE  IInv'
<1>1. /\ call[p].at = "exists" /\ call[p].puts = <<>> /\ End(p, <<call[p].obj>>)
      /\ icache' = Unlock(icache, call[p].obj) /\ UNCHANGED <<dinode, cwd, fd, calls, panic>>
  BY DEF Exists, Doing
<1>2. PICK s \in Slots : s = call[p].obj
  BY <1>1, Quiet DEF CallOK, WithObj, Walking
<1>3. \A t \in Slots : HasLock(call[p], t) <=> t = s
  BY <1>1, <1>2, Quiet DEF IpLocked, ObjLocked
<1>4. call[p].at \notin WithIp /\ call[p].at \in WithObj
  BY <1>1 DEF WithIp, WithObj
<1> QED
  BY <1>1, <1>2, <1>3, <1>4, EndPut

LEMMA CreateDoneEnds ==
  ASSUME IInv, NEW p \in Procs, CreateDone(p)
  PROVE  IInv'
<1>1. /\ call[p].at = "done" /\ call[p].puts = <<>> /\ End(p, <<call[p].ip>>)
      /\ icache' = Unlock(icache, call[p].ip) /\ UNCHANGED <<dinode, cwd, fd, calls, panic>>
  BY DEF CreateDone, Doing
<1>2. PICK s \in Slots : s = call[p].ip
  BY <1>1, Quiet DEF CallOK, WithIp
<1>3. \A t \in Slots : HasLock(call[p], t) <=> t = s
  BY <1>1, <1>2, Quiet DEF IpLocked, ObjLocked
<1>4. call[p].at \in WithIp /\ call[p].at \notin WithObj
  BY <1>1 DEF WithIp, WithObj
<1> QED
  BY <1>1, <1>2, <1>3, <1>4, EndPut

LEMMA NoUnlinkEnds ==
  ASSUME IInv, NEW p \in Procs, NoUnlink(p)
  PROVE  IInv'
<1>1. /\ call[p].at = "unlink" /\ call[p].puts = <<>> /\ End(p, <<call[p].ip>>)
      /\ icache' = Unlock(icache, call[p].ip) /\ UNCHANGED <<dinode, cwd, fd, calls, panic>>
  BY DEF NoUnlink, Doing
<1>2. PICK s \in Slots : s = call[p].ip
  BY <1>1, Quiet DEF CallOK, WithIp
<1>3. \A t \in Slots : HasLock(call[p], t) <=> t = s
  BY <1>1, <1>2, Quiet DEF IpLocked, ObjLocked
<1>4. call[p].at \in WithIp /\ call[p].at \notin WithObj
  BY <1>1 DEF WithIp, WithObj
<1> QED
  BY <1>1, <1>2, <1>3, <1>4, EndPut

LEMMA NotEmptyDoneEnds ==
  ASSUME IInv, NEW p \in Procs, NotEmptyDone(p)
  PROVE  IInv'
<1>1. /\ call[p].at = "full" /\ call[p].puts = <<>> /\ End(p, <<call[p].ip>>)
      /\ icache' = Unlock(icache, call[p].ip) /\ UNCHANGED <<dinode, cwd, fd, calls, panic>>
  BY DEF NotEmptyDone, Doing
<1>2. PICK s \in Slots : s = call[p].ip
  BY <1>1, Quiet DEF CallOK, WithIp
<1>3. \A t \in Slots : HasLock(call[p], t) <=> t = s
  BY <1>1, <1>2, Quiet DEF IpLocked, ObjLocked
<1>4. call[p].at \in WithIp /\ call[p].at \notin WithObj
  BY <1>1 DEF WithIp, WithObj
<1> QED
  BY <1>1, <1>2, <1>3, <1>4, EndPut

LEMMA LinkDirEnds ==
  ASSUME IInv, NEW p \in Procs, LinkOld(p), icache[call[p].ip].type = "dir"
  PROVE  IInv'
<1>1. /\ call[p].at = "link" /\ call[p].puts = <<>> /\ End(p, <<call[p].ip>>)
      /\ icache' = Unlock(icache, call[p].ip) /\ UNCHANGED <<dinode, cwd, fd, calls, panic>>
  BY DEF LinkOld, Doing
<1>2. PICK s \in Slots : s = call[p].ip
  BY <1>1, Quiet DEF CallOK, WithIp
<1>3. \A t \in Slots : HasLock(call[p], t) <=> t = s
  BY <1>1, <1>2, Quiet DEF IpLocked, ObjLocked
<1>4. call[p].at \in WithIp /\ call[p].at \notin WithObj
  BY <1>1 DEF WithIp, WithObj
<1> QED
  BY <1>1, <1>2, <1>3, <1>4, EndPut

LEMMA ChdirEnds ==
  ASSUME IInv, NEW p \in Procs, sys_chdir(p)
  PROVE  IInv'
<1>1. /\ ~panic /\ call[p].at = "chdir" /\ call[p].puts = <<>>
      /\ icache' = Unlock(icache, call[p].ip) /\ UNCHANGED <<dinode, fd, calls, panic>>
  BY DEF sys_chdir, Doing
<1>2. PICK s \in Slots : s = call[p].ip
  BY <1>1, Quiet DEF CallOK, WithIp
<1>3. \A t \in Slots : HasLock(call[p], t) <=> t = s
  BY <1>1, <1>2, Quiet DEF IpLocked, ObjLocked
<1>4. call[p].at \in WithIp /\ call[p].at \notin WithObj
  BY <1>1 DEF WithIp, WithObj
<1>5. CASE End(p, <<s>>) /\ UNCHANGED cwd
  BY <1>1, <1>2, <1>3, <1>4, <1>5, EndPut
<1>6. CASE icache[s].type = "dir" /\ cwd' = [cwd EXCEPT ![p] = s] /\ End(p, <<cwd[p]>>)
  \* (A process that has left its directory in exit() makes no calls.)
  <2>1. cwd \in [Procs -> Slots \cup {None}] /\ fd \in [Procs -> Slots \cup {None}]
        /\ calls \in 0..CALLS
    BY DEF IInv, Typed
  <2>2. cwd' \in [Procs -> Slots \cup {None}] /\ fd' \in [Procs -> Slots \cup {None}]
        /\ calls' \in 0..CALLS /\ cwd'[p] = s
        /\ \A r \in Procs \ {p} : cwd'[r] = cwd[r] /\ fd'[r] = fd[r]
    BY <1>1, <1>6, <2>1
  <2>3. cwd[p] \in Slots
    BY <1>1, <2>1 DEF IInv, FirmTyped
  <2>4. ASSUME NEW t \in Slots
        PROVE  One(cwd'[p] = t) + One(fd'[p] = t) + One(First(<<cwd[p]>>) = t) + One(Second(<<cwd[p]>>) = t)
                 = One(cwd[p] = t) + One(fd[p] = t)
                   + One(call[p].at \in WithIp /\ call[p].ip = t)
                   + One(call[p].at \in WithObj /\ call[p].obj = t)
    <3>1. First(<<cwd[p]>>) = cwd[p] /\ Second(<<cwd[p]>>) # t
      BY Lists, Numbers
    <3> QED
      BY <1>1, <1>2, <1>4, <2>2, <3>1 DEF One
  <2>5. icache[s].lock = p /\ DiskType(s) # "free"
    BY <1>1, <1>3, Quiet, LockedIs
  <2>6. \A t \in {cwd'[p], fd'[p]} \ {None} :
          t \in {cwd[p], fd[p]} \/ (icache[t].lock = p /\ DiskType(t) # "free")
    BY <1>1, <2>2, <2>5
  <2>7. <<cwd[p]>> \in PutLists
    BY <2>3, Lists
  <2> QED
    BY <1>1, <1>2, <1>3, <1>6, <2>2, <2>4, <2>6, <2>7, EndStep
<1> QED
  BY <1>2, <1>5, <1>6 DEF sys_chdir

LEMMA NotFoundEnds ==
  ASSUME IInv, NEW p \in Procs, NotFound(p), call[p].obj = None
  PROVE  IInv'
<1>1. /\ call[p].at = "found" /\ call[p].puts = <<>> /\ call[p].ip = None /\ Become(p, User)
      /\ UNCHANGED <<dinode, icache, cwd, fd, calls, panic>>
  BY DEF NotFound, Doing
<1>2. End(p, <<>>)
  <2>1. User = [User EXCEPT !.puts = <<>>]
    BY UserIs DEF CallRec
  <2> QED
    BY <1>1, <2>1 DEF End
<1>3. cwd' \in [Procs -> Slots \cup {None}] /\ fd' \in [Procs -> Slots \cup {None}]
      /\ calls' \in 0..CALLS
  BY <1>1 DEF IInv, Typed
<1>4. \A r \in Procs : cwd'[r] = cwd[r] /\ fd'[r] = fd[r]
  BY <1>1
<1>5. \A s \in Slots : ~HasLock(call[p], s)
  BY <1>1, Quiet DEF IpLocked, ObjLocked
<1>6. ASSUME NEW t \in Slots
      PROVE  One(cwd'[p] = t) + One(fd'[p] = t) + One(First(<<>>) = t) + One(Second(<<>>) = t)
               = One(cwd[p] = t) + One(fd[p] = t)
                 + One(call[p].at \in WithIp /\ call[p].ip = t)
                 + One(call[p].at \in WithObj /\ call[p].obj = t)
  <2>1. First(<<>>) # t /\ Second(<<>>) # t /\ call[p].ip # t /\ call[p].obj # t
    BY <1>1, Lists, Numbers
  <2> QED
    BY <1>4, <2>1 DEF One
<1>7. \A t \in {cwd'[p], fd'[p]} \ {None} :
        t \in {cwd[p], fd[p]} \/ (icache[t].lock = p /\ DiskType(t) # "free")
  BY <1>4
<1>8. <<>> \in PutLists
  BY Lists
<1> QED
  BY <1>1, <1>2, <1>3, <1>4, <1>5, <1>6, <1>7, <1>8, EndStep

LEMMA CloseEnds ==
  ASSUME IInv, NEW p \in Procs, sys_close(p)
  PROVE  IInv'
<1>1. /\ call[p].at = "user" /\ call[p].puts = <<>> /\ fd[p] # None /\ calls < CALLS
      /\ fd' = [fd EXCEPT ![p] = None] /\ End(p, <<fd[p]>>) /\ calls' = calls + 1
      /\ UNCHANGED <<dinode, icache, cwd, panic>>
  BY DEF sys_close, Doing
<1>2. cwd \in [Procs -> Slots \cup {None}] /\ fd \in [Procs -> Slots \cup {None}]
      /\ calls \in 0..CALLS
  BY DEF IInv, Typed
<1>3. CALLS \in Nat
  BY InodesAssumption, Zenon
<1>4. cwd' \in [Procs -> Slots \cup {None}] /\ fd' \in [Procs -> Slots \cup {None}]
      /\ fd'[p] = None /\ \A r \in Procs \ {p} : cwd'[r] = cwd[r] /\ fd'[r] = fd[r]
  BY <1>1, <1>2
<1>5. calls' \in 0..CALLS
  BY <1>1, <1>2, <1>3
<1>6. call[p].at \notin WithIp /\ call[p].at \notin WithObj
      /\ call[p].at \notin IpLocked /\ call[p].at \notin ObjLocked
  BY <1>1 DEF WithIp, WithObj, IpLocked, ObjLocked
<1>7. \A s \in Slots : ~HasLock(call[p], s)
  BY <1>1, <1>6, Quiet
<1>8. fd[p] \in Slots
  BY <1>1, <1>2
<1>9. ASSUME NEW t \in Slots
      PROVE  One(cwd'[p] = t) + One(fd'[p] = t) + One(First(<<fd[p]>>) = t) + One(Second(<<fd[p]>>) = t)
               = One(cwd[p] = t) + One(fd[p] = t)
                 + One(call[p].at \in WithIp /\ call[p].ip = t)
                 + One(call[p].at \in WithObj /\ call[p].obj = t)
  <2>1. First(<<fd[p]>>) = fd[p] /\ Second(<<fd[p]>>) # t /\ None # t
    BY Lists, Numbers
  <2> QED
    BY <1>1, <1>4, <1>6, <2>1 DEF One
<1>10. \A t \in {cwd'[p], fd'[p]} \ {None} :
         t \in {cwd[p], fd[p]} \/ (icache[t].lock = p /\ DiskType(t) # "free")
  BY <1>1, <1>4
<1>11. <<fd[p]>> \in PutLists
  BY <1>8, Lists
<1> QED
  BY <1>1, <1>4, <1>5, <1>7, <1>9, <1>10, <1>11, EndStep

LEMMA ExitEnds ==
  ASSUME IInv, NEW p \in Procs, exit(p)
  PROVE  IInv'
<1> DEFINE q == (IF fd[p] # None THEN <<fd[p]>> ELSE <<>>) \o <<cwd[p]>>
<1>1. /\ call[p].at = "user" /\ call[p].puts = <<>> /\ cwd[p] # None /\ calls < CALLS
      /\ fd' = [fd EXCEPT ![p] = None] /\ cwd' = [cwd EXCEPT ![p] = None]
      /\ End(p, q) /\ calls' = calls + 1 /\ UNCHANGED <<dinode, icache, panic>>
  BY DEF exit, Doing
<1>2. cwd \in [Procs -> Slots \cup {None}] /\ fd \in [Procs -> Slots \cup {None}]
      /\ calls \in 0..CALLS
  BY DEF IInv, Typed
<1>3. CALLS \in Nat
  BY InodesAssumption, Zenon
<1>4. cwd' \in [Procs -> Slots \cup {None}] /\ fd' \in [Procs -> Slots \cup {None}]
      /\ fd'[p] = None /\ cwd'[p] = None
      /\ \A r \in Procs \ {p} : cwd'[r] = cwd[r] /\ fd'[r] = fd[r]
  BY <1>1, <1>2
<1>5. calls' \in 0..CALLS
  BY <1>1, <1>2, <1>3
<1>6. call[p].at \notin WithIp /\ call[p].at \notin WithObj
      /\ call[p].at \notin IpLocked /\ call[p].at \notin ObjLocked
  BY <1>1 DEF WithIp, WithObj, IpLocked, ObjLocked
<1>7. \A s \in Slots : ~HasLock(call[p], s)
  BY <1>1, <1>6, Quiet
<1>8. cwd[p] \in Slots /\ (fd[p] = None \/ fd[p] \in Slots)
  BY <1>1, <1>2
<1>9. q = IF fd[p] # None THEN <<fd[p], cwd[p]>> ELSE <<cwd[p]>>
  <2>1. <<>> \o <<cwd[p]>> = <<cwd[p]>>
    OBVIOUS
  <2>2. fd[p] # None => <<fd[p]>> \o <<cwd[p]>> = <<fd[p], cwd[p]>>
    BY <1>8, Pair
  <2> QED
    BY <2>1, <2>2
<1>10. q \in PutLists
  BY <1>8, <1>9, Lists
<1>11. ASSUME NEW t \in Slots
       PROVE  One(cwd'[p] = t) + One(fd'[p] = t) + One(First(q) = t) + One(Second(q) = t)
                = One(cwd[p] = t) + One(fd[p] = t)
                  + One(call[p].at \in WithIp /\ call[p].ip = t)
                  + One(call[p].at \in WithObj /\ call[p].obj = t)
  <2>1. None # t
    BY Numbers
  <2>2. CASE fd[p] # None
    <3>1. First(q) = fd[p] /\ Second(q) = cwd[p]
      BY <1>9, <2>2, Lists
    <3> HIDE DEF q
    <3> QED
      BY <1>4, <1>6, <2>1, <3>1 DEF One
  <2>3. CASE fd[p] = None
    <3>1. First(q) = cwd[p] /\ Second(q) = None
      BY <1>9, <2>3, Lists
    <3> HIDE DEF q
    <3> QED
      BY <1>4, <1>6, <2>1, <2>3, <3>1 DEF One
  <2> QED
    BY <2>2, <2>3
<1>12. \A t \in {cwd'[p], fd'[p]} \ {None} :
         t \in {cwd[p], fd[p]} \/ (icache[t].lock = p /\ DiskType(t) # "free")
  BY <1>4
<1> HIDE DEF q
<1> QED
  BY <1>1, <1>4, <1>5, <1>7, <1>10, <1>11, <1>12, EndStep

\* A call goes on; locks may be released and references moved.
LEMMA GoStep ==
  ASSUME IInv, NEW p \in Procs, NEW c \in CallRec, CallOK(c), Become(p, c),
         UNCHANGED <<dinode, cwd, fd, panic>>, calls' \in 0..CALLS,
         icache' \in [Slots -> CacheRec], PlainSlots,
         \A s \in Slots : icache'[s].ref + MineOf(p, s)
                            = icache[s].ref + Mine(cwd[p], fd[p], c, s),
         \A s \in Slots : icache'[s].lock = p <=> HasLock(c, s),
         \A s \in Slots : icache'[s].lock = icache[s].lock \/ icache[s].lock = p,
         call[p].stage # "invalid", c.stage # "free",
         \A s \in Slots : FirmIn(c, s) => FirmIn(call[p], s) \/ icache[s].lock = p,
         c.at # "user" => cwd[p] # None,
         AtParent(c) => DiskType(c.ip) = "dir",
         Linking(c) => DiskType(c.obj) \notin {"free", "dir"},
         c.at \notin Making, VictimIs(p)'
  PROVE  IInv'
<1>1. Typed /\ FirmTyped(p) /\ CallOK(call[p])
  BY DEF IInv
<1>2. call' \in [Procs -> CallRec] /\ call'[p] = c /\ \A r \in Procs \ {p} : call'[r] = call[r]
  BY <1>1, Became
<1>3. Typed'
  BY <1>1, <1>2 DEF Typed
<1>4. OnlyCaller(p)
  BY <1>2 DEF OnlyCaller
<1>5. CountsMove(p)
  BY <1>2 DEF CountsMove, MineOf
<1>6. LocksMove(p)
  <2>1. ASSUME NEW s \in Slots, icache'[s].lock # icache[s].lock
        PROVE  icache[s].lock = p /\ icache'[s].lock = NoProc
    BY <2>1 DEF PlainSlots
  <2> QED
    BY <1>2, <2>1 DEF LocksMove
<1>7. FirmMoves(p)
  BY <1>2 DEF FirmMoves, Firm
<1>8. MakingKept(p)
  BY <1>2 DEF MakingKept
<1>9. FirmTyped(p)'
  <2>1. \A s \in Slots : DiskType(s)' = DiskType(s)
    BY DEF DiskType, PlainSlots
  <2>2. cwd[p] \in Slots \cup {None} /\ fd[p] \in Slots \cup {None}
    BY <1>1 DEF Typed
  <2>3. AtParent(c) => c.ip \in Slots
    <3>1. c.ip \in Slots \cup {None}
      BY DEF CallRec
    <3> QED
      BY <3>1 DEF AtParent, CallOK, InParent, WithIp
  <2>4. Linking(c) => c.obj \in Slots
    BY DEF Linking, CallOK, Walking, WithObj
  <2>5. ASSUME AtParent(c), NEW s \in Slots, s = c.ip
        PROVE  DiskType(s)' = "dir"
    BY <2>1, <2>5
  <2>6. ASSUME Linking(c), NEW s \in Slots, s = c.obj
        PROVE  DiskType(s)' \notin {"free", "dir"}
    BY <2>1, <2>6
  <2>7. \A s \in {cwd'[p], fd'[p]} \ {None} : DiskType(s)' # "free"
    BY <1>1, <2>1, <2>2 DEF FirmTyped
  <2> QED
    BY <1>2, <2>3, <2>4, <2>5, <2>6, <2>7 DEF FirmTyped, DiskType
<1> QED
  BY <1>2, <1>3, <1>4, <1>5, <1>6, <1>7, <1>8, <1>9, PlainStep

LEMMA NotFoundGoes ==
  ASSUME IInv, NEW p \in Procs, NotFound(p), call[p].obj # None
  PROVE  IInv'
<1> DEFINE c == [call[p] EXCEPT !.at = "bad"]
<1>1. /\ call[p].at = "found" /\ call[p].puts = <<>> /\ call[p].ip = None /\ Become(p, c)
      /\ UNCHANGED <<dinode, icache, cwd, fd, calls, panic>>
  BY DEF NotFound, Doing
<1>2. Typed /\ FirmTyped(p) /\ call[p] \in CallRec /\ CallOK(call[p]) /\ call[p].stage = "lock"
  BY <1>1, Quiet DEF IInv
<1>3. "bad" \in Ats
  BY DEF Ats, WithObj
<1>4. c \in CallRec /\ c.at = "bad" /\ c.obj = call[p].obj /\ c.ip = None /\ c.puts = <<>>
      /\ c.stage = "lock"
  BY <1>1, <1>2, <1>3 DEF CallRec
<1> HIDE DEF c
<1>5. c.obj \in Slots /\ Linking(call[p])
  BY <1>1, <1>2, <1>4 DEF CallOK, Walking, Linking
<1>6. CallOK(c)
  BY <1>4, <1>5 DEF CallOK, WithIp, WithObj, Walking, Making, InParent, NoPuts
<1>7. ~AtParent(c) /\ Linking(c)
  BY <1>4 DEF AtParent, Linking, InParent
<1>8. \A s \in Slots : MineOf(p, s) = Mine(cwd[p], fd[p], c, s)
  <2>1. ASSUME NEW s \in Slots
        PROVE  MineOf(p, s) = Mine(cwd[p], fd[p], c, s)
    <3>1. None # s /\ First(c.puts) = None /\ Second(c.puts) = None
      BY <1>4, Numbers, Lists
    <3>2. c.at \notin WithIp /\ c.at \in WithObj /\ call[p].at \in WithObj
      BY <1>1, <1>4 DEF WithIp, WithObj
    <3>3. MineOf(p, s) = One(cwd[p] = s) + One(fd[p] = s)
                         + One(call[p].at \in WithIp /\ call[p].ip = s)
                         + One(call[p].at \in WithObj /\ call[p].obj = s)
      BY <1>1, Quiet
    <3> QED
      BY <1>1, <1>4, <3>1, <3>2, <3>3 DEF Mine, One
  <2> QED
    BY <2>1
<1>9. \A s \in Slots : ~HasLock(c, s) /\ ~HasLock(call[p], s)
  BY <1>1, <1>4, Quiet DEF HasLock, IpLocked, ObjLocked
<1>10. /\ icache' \in [Slots -> CacheRec] /\ PlainSlots
       /\ \A s \in Slots :
            /\ icache'[s].ref = icache[s].ref /\ icache'[s].lock # p
            /\ icache'[s].lock = icache[s].lock
                 \/ (icache[s].lock = p /\ icache'[s].lock = NoProc)
  BY <1>1, <1>9, ReleaseLocks
<1>11. \A s \in Slots : FirmIn(c, s) => FirmIn(call[p], s)
  BY <1>4, <1>5, <1>7 DEF FirmIn
<1>12. VictimIs(p)' /\ c.at \notin Making /\ calls' \in 0..CALLS
  <2>1. call'[p] = c /\ calls \in 0..CALLS
    BY <1>1, <1>2, <1>4, Became DEF Typed
  <2> QED
    BY <1>1, <1>4, <2>1 DEF VictimIs, Making
<1>13. cwd[p] # None /\ DiskType(c.obj) \notin {"free", "dir"}
  BY <1>1, <1>2, <1>4, <1>5 DEF FirmTyped
<1> QED
  BY <1>1, <1>2, <1>4, <1>6, <1>7, <1>8, <1>9, <1>10, <1>11, <1>12, <1>13, GoStep

LEMMA ExistsGoes ==
  ASSUME IInv, NEW p \in Procs, Exists(p), call[p].op = "create", icache[call[p].obj].type = "file"
  PROVE  IInv'
<1> DEFINE c == [call[p] EXCEPT !.at = "open", !.ip = call[p].obj]
<1>1. /\ call[p].at = "exists" /\ call[p].puts = <<>> /\ Become(p, c)
      /\ UNCHANGED <<dinode, icache, cwd, fd, calls, panic>>
  BY DEF Exists, Doing
<1>2. Typed /\ FirmTyped(p) /\ call[p] \in CallRec /\ CallOK(call[p]) /\ call[p].stage = "lock"
  BY <1>1, Quiet DEF IInv
<1>3. "open" \in Ats
  BY DEF Ats, WithIp
<1>4. call[p].obj \in Slots
  BY <1>1, <1>2 DEF CallOK, WithObj, Walking
<1>5. c \in CallRec /\ c.at = "open" /\ c.ip = call[p].obj /\ c.puts = <<>> /\ c.stage = "lock"
  BY <1>1, <1>2, <1>3, <1>4 DEF CallRec
<1> HIDE DEF c
<1>6. CallOK(c)
  BY <1>4, <1>5 DEF CallOK, WithIp, WithObj, Walking, Making, InParent, NoPuts
<1>7. ~AtParent(c) /\ ~Linking(c)
  BY <1>5 DEF AtParent, Linking, InParent, Walking
<1>8. \A s \in Slots : MineOf(p, s) = Mine(cwd[p], fd[p], c, s)
  <2>1. ASSUME NEW s \in Slots
        PROVE  MineOf(p, s) = Mine(cwd[p], fd[p], c, s)
    <3>1. None # s /\ First(c.puts) = None /\ Second(c.puts) = None
      BY <1>5, Numbers, Lists
    <3>2. c.at \in WithIp /\ c.at \notin WithObj
          /\ call[p].at \in WithObj /\ call[p].at \notin WithIp
      BY <1>1, <1>5 DEF WithIp, WithObj
    <3>3. MineOf(p, s) = One(cwd[p] = s) + One(fd[p] = s)
                         + One(call[p].at \in WithIp /\ call[p].ip = s)
                         + One(call[p].at \in WithObj /\ call[p].obj = s)
      BY <1>1, Quiet
    <3> QED
      BY <1>5, <3>1, <3>2, <3>3 DEF Mine, One
  <2> QED
    BY <2>1
<1>9. \A s \in Slots : HasLock(c, s) <=> HasLock(call[p], s)
  BY <1>1, <1>2, <1>5 DEF HasLock, IpLocked, ObjLocked
<1>10. icache' \in [Slots -> CacheRec] /\ PlainSlots
  BY <1>1, <1>2 DEF Typed, PlainSlots
<1>11. \A s \in Slots : ~FirmIn(c, s)
  BY <1>7 DEF FirmIn
<1>12. VictimIs(p)' /\ c.at \notin Making /\ calls' \in 0..CALLS
  <2>1. call'[p] = c /\ calls \in 0..CALLS
    BY <1>1, <1>2, <1>5, Became DEF Typed
  <2> QED
    BY <1>1, <1>5, <2>1 DEF VictimIs, Making
<1>13. cwd[p] # None
  BY <1>1, <1>2 DEF FirmTyped
<1>14. \A s \in Slots : icache'[s].lock = p <=> HasLock(c, s)
  BY <1>1, <1>9, Quiet
<1> QED
  BY <1>1, <1>2, <1>5, <1>6, <1>7, <1>8, <1>10, <1>11, <1>12, <1>13, <1>14, GoStep

LEMMA TakenGoes ==
  ASSUME IInv, NEW p \in Procs, Taken(p)
  PROVE  IInv'
<1> DEFINE c == [call[p] EXCEPT !.at = "bad", !.puts = <<call[p].ip>>]
<1>1. /\ call[p].at = "taken" /\ call[p].puts = <<>> /\ Become(p, c)
      /\ icache' = Unlock(icache, call[p].ip) /\ UNCHANGED <<dinode, cwd, fd, calls, panic>>
  BY DEF Taken, Doing, Goon
<1>2. Typed /\ FirmTyped(p) /\ call[p] \in CallRec /\ CallOK(call[p]) /\ call[p].stage = "lock"
  BY <1>1, Quiet DEF IInv
<1>3. PICK u \in Slots : u = call[p].ip
  BY <1>1, <1>2 DEF CallOK, WithIp
<1>4. call[p].obj \in Slots /\ Linking(call[p])
  BY <1>1, <1>2 DEF CallOK, WithObj, Walking, Linking
<1>5. <<u>> \in PutLists /\ First(<<u>>) = u /\ Second(<<u>>) = None /\ <<u>> # <<>>
  BY Lists
<1>6. "bad" \in Ats
  BY DEF Ats, WithObj
<1>7. c \in CallRec /\ c.at = "bad" /\ c.ip = u /\ c.obj = call[p].obj /\ c.puts = <<u>>
      /\ c.stage = "lock"
  <2>1. PICK q \in PutLists : q = <<u>>
    BY <1>5
  <2>2. c = [call[p] EXCEPT !.at = "bad", !.puts = q]
    BY <1>3, <2>1
  <2> HIDE DEF c
  <2>3. c \in CallRec /\ c.at = "bad" /\ c.ip = call[p].ip /\ c.obj = call[p].obj
        /\ c.puts = q /\ c.stage = call[p].stage /\ c.name = call[p].name
    BY <1>2, <1>6, <2>2 DEF CallRec
  <2> QED
    BY <1>2, <1>3, <2>1, <2>3
<1> HIDE DEF c
<1>8. CallOK(c)
  BY <1>4, <1>7 DEF CallOK, WithIp, WithObj, Walking, Making, InParent, NoPuts
<1>9. ~AtParent(c) /\ Linking(c)
  BY <1>7 DEF AtParent, Linking, InParent
<1>10. \A t \in Slots : HasLock(call[p], t) <=> t = u
  BY <1>1, <1>3, Quiet DEF IpLocked, ObjLocked
<1>11. /\ icache' \in [Slots -> CacheRec] /\ PlainSlots
       /\ \A s \in Slots :
            /\ icache'[s].ref = icache[s].ref /\ icache'[s].lock # p
            /\ icache'[s].lock = icache[s].lock
                 \/ (icache[s].lock = p /\ icache'[s].lock = NoProc)
  BY <1>1, <1>3, <1>10, ReleaseLocks
<1>12. ASSUME NEW s \in Slots
       PROVE  icache'[s].ref + MineOf(p, s) = icache[s].ref + Mine(cwd[p], fd[p], c, s)
  <2>1. None # s /\ First(c.puts) = call[p].ip /\ Second(c.puts) = None
    BY <1>3, <1>5, <1>7, Numbers
  <2>2. c.at \notin WithIp /\ c.at \in WithObj
        /\ call[p].at \in WithObj /\ call[p].at \in WithIp
    BY <1>1, <1>7 DEF WithIp, WithObj
  <2>3. MineOf(p, s) = One(cwd[p] = s) + One(fd[p] = s)
                       + One(call[p].at \in WithIp /\ call[p].ip = s)
                       + One(call[p].at \in WithObj /\ call[p].obj = s)
    BY <1>1, Quiet
  <2>4. MineOf(p, s) = Mine(cwd[p], fd[p], c, s)
    BY <1>7, <2>1, <2>2, <2>3 DEF Mine, One
  <2> QED
    BY <1>11, <2>4
<1>13. \A s \in Slots : ~HasLock(c, s)
  BY <1>7 DEF HasLock, IpLocked, ObjLocked
<1>14. \A s \in Slots : FirmIn(c, s) => FirmIn(call[p], s)
  BY <1>4, <1>7, <1>9 DEF FirmIn
<1>15. VictimIs(p)' /\ c.at \notin Making /\ calls' \in 0..CALLS
  <2>1. call'[p] = c /\ calls \in 0..CALLS
    BY <1>1, <1>2, <1>7, Became DEF Typed
  <2> QED
    BY <1>1, <1>7, <2>1 DEF VictimIs, Making
<1>16. cwd[p] # None /\ DiskType(c.obj) \notin {"free", "dir"}
  BY <1>1, <1>2, <1>4, <1>7 DEF FirmTyped
<1> QED
  BY <1>1, <1>2, <1>7, <1>8, <1>9, <1>11, <1>12, <1>13, <1>14, <1>15, <1>16, GoStep

LEMMA NotEmptyGoes ==
  ASSUME IInv, NEW p \in Procs, NotEmpty(p)
  PROVE  IInv'
<1> DEFINE c == [call[p] EXCEPT !.at = "full", !.puts = <<call[p].obj>>]
<1>1. /\ call[p].at = "both" /\ call[p].puts = <<>> /\ Become(p, c)
      /\ icache' = Unlock(icache, call[p].obj) /\ UNCHANGED <<dinode, cwd, fd, calls, panic>>
  BY DEF NotEmpty, Doing, Goon
<1>2. Typed /\ FirmTyped(p) /\ VictimIs(p) /\ LocksExact
      /\ call[p] \in CallRec /\ CallOK(call[p]) /\ call[p].stage = "lock"
  BY <1>1, Quiet DEF IInv
<1>3. PICK u \in Slots : u = call[p].obj
  BY <1>1, <1>2 DEF CallOK, WithObj, Walking
<1>4. PICK d \in Slots : d = call[p].ip /\ d # u
  BY <1>1, <1>2, <1>3 DEF CallOK, WithIp
<1>5. <<u>> \in PutLists /\ First(<<u>>) = u /\ Second(<<u>>) = None /\ <<u>> # <<>>
  BY Lists
<1>6. "full" \in Ats
  BY DEF Ats, WithIp
<1>7. c \in CallRec /\ c.at = "full" /\ c.ip = d /\ c.obj = u /\ c.puts = <<u>>
      /\ c.stage = "lock" /\ c.name = call[p].name
  <2>1. PICK q \in PutLists : q = <<u>>
    BY <1>5
  <2>2. c = [call[p] EXCEPT !.at = "full", !.puts = q]
    BY <1>3, <2>1
  <2> HIDE DEF c
  <2>3. c \in CallRec /\ c.at = "full" /\ c.ip = call[p].ip /\ c.obj = call[p].obj
        /\ c.puts = q /\ c.stage = call[p].stage /\ c.name = call[p].name
    BY <1>2, <1>6, <2>2 DEF CallRec
  <2> QED
    BY <1>2, <1>3, <1>4, <2>1, <2>3
<1> HIDE DEF c
<1>8. call[p].name \in DirNames
  BY <1>1, <1>2 DEF CallOK, InParent
<1>9. CallOK(c)
  BY <1>5, <1>7, <1>8 DEF CallOK, WithIp, WithObj, Walking, Making, InParent, NoPuts
<1>10. AtParent(c) /\ AtParent(call[p]) /\ ~Linking(c)
  BY <1>1, <1>7 DEF AtParent, Linking, InParent, Walking
<1>11. \A t \in Slots : HasLock(call[p], t) <=> t = u \/ t = d
  BY <1>1, <1>3, <1>4, Quiet DEF IpLocked, ObjLocked
<1>12. \A t \in Slots : HasLock(c, t) <=> t = d
  BY <1>7 DEF HasLock, IpLocked, ObjLocked
<1>13. /\ icache' \in [Slots -> CacheRec]
       /\ \A t \in Slots :
            /\ icache'[t].lock = IF t = u THEN NoProc ELSE icache[t].lock
            /\ icache'[t].ref = icache[t].ref
            /\ icache'[t].inum = icache[t].inum
            /\ icache'[t].valid = icache[t].valid
            /\ icache'[t].type = icache[t].type
            /\ icache'[t].nlink = icache[t].nlink
  BY <1>1, <1>2, <1>3, UnlockDoes
<1>14. PlainSlots
  BY <1>13 DEF PlainSlots
<1>15. \A t \in Slots : icache[t].lock = p <=> t = u \/ t = d
  BY <1>2, <1>11 DEF LocksExact
<1>16. NoProc # p
  BY Numbers
<1>17. \A t \in Slots : icache'[t].lock = p <=> HasLock(c, t)
  BY <1>4, <1>12, <1>13, <1>15, <1>16
<1>18. \A t \in Slots : icache'[t].lock = icache[t].lock \/ icache[t].lock = p
  BY <1>13, <1>15
<1>19. ASSUME NEW s \in Slots
       PROVE  icache'[s].ref + MineOf(p, s) = icache[s].ref + Mine(cwd[p], fd[p], c, s)
  <2>1. None # s /\ First(c.puts) = call[p].obj /\ Second(c.puts) = None
    BY <1>3, <1>5, <1>7, Numbers
  <2>2. c.at \in WithIp /\ c.at \notin WithObj
        /\ call[p].at \in WithObj /\ call[p].at \in WithIp
    BY <1>1, <1>7 DEF WithIp, WithObj
  <2>3. MineOf(p, s) = One(cwd[p] = s) + One(fd[p] = s)
                       + One(call[p].at \in WithIp /\ call[p].ip = s)
                       + One(call[p].at \in WithObj /\ call[p].obj = s)
    BY <1>1, Quiet
  <2>4. MineOf(p, s) = Mine(cwd[p], fd[p], c, s)
    BY <1>4, <1>7, <2>1, <2>2, <2>3 DEF Mine, One
  <2> QED
    BY <1>13, <2>4
<1>20. \A s \in Slots : FirmIn(c, s) => FirmIn(call[p], s)
  BY <1>4, <1>7, <1>10 DEF FirmIn
<1>21. call'[p] = c /\ calls \in 0..CALLS
  BY <1>1, <1>2, <1>7, Became DEF Typed
<1>22. VictimIs(p)'
  <2>1. call[p].name \in Names /\ Entry(d, call[p].name) = icache[u].inum
    BY <1>1, <1>2, <1>3, <1>4 DEF VictimIs
  <2>2. dinode'[icache'[d].inum].ents[call[p].name] = icache'[u].inum
    BY <1>1, <1>13, <2>1 DEF Entry
  <2> QED
    BY <1>5, <1>7, <1>21, <2>1, <2>2 DEF VictimIs, Entry
<1>23. cwd[p] # None /\ DiskType(c.ip) = "dir" /\ c.at \notin Making
  BY <1>1, <1>2, <1>4, <1>7, <1>10 DEF FirmTyped, Making
<1> QED
  BY <1>1, <1>2, <1>7, <1>9, <1>10, <1>13, <1>14, <1>17, <1>18, <1>19, <1>20, <1>21,
     <1>22, <1>23, GoStep
-----------------------------------------------------------------------------
(***************************************************************************)
(* iput()                                                                  *)
(***************************************************************************)
\* A call that has something to put.
LEMMA Putting ==
  ASSUME IInv, NEW p \in Procs, call[p].puts # <<>>
  PROVE  /\ call[p] \in CallRec /\ CallOK(call[p]) /\ call[p].at \notin NoPuts
         /\ Head(call[p].puts) \in Slots /\ First(call[p].puts) = Head(call[p].puts)
         /\ Tail(call[p].puts) \in PutLists /\ call[p].puts \in PutLists
         /\ First(Tail(call[p].puts)) = Second(call[p].puts)
         /\ Second(Tail(call[p].puts)) = None
         /\ HoldsSlot(p, Head(call[p].puts))
         /\ icache[Head(call[p].puts)].ref \in Nat /\ icache[Head(call[p].puts)].ref > 0
         /\ icache[Head(call[p].puts)].inum \in Inums
<1>1. call[p] \in CallRec /\ CallOK(call[p]) /\ Counted /\ Numbered /\ Typed
  BY DEF IInv, Typed
<1>2. call[p].puts \in PutLists
  BY <1>1 DEF CallRec
<1>3. call[p].at \notin NoPuts
  BY <1>1 DEF CallOK
<1>4. Head(call[p].puts) \in Slots /\ First(call[p].puts) = Head(call[p].puts)
      /\ Tail(call[p].puts) \in PutLists
      /\ First(Tail(call[p].puts)) = Second(call[p].puts)
      /\ Second(Tail(call[p].puts)) = None
  BY <1>2, PutNext
<1>5. HoldsSlot(p, Head(call[p].puts))
  BY <1>4 DEF HoldsSlot, Holds
<1>6. icache[Head(call[p].puts)].ref > 0
  BY <1>1, <1>4, <1>5, Referenced
<1>7. icache[Head(call[p].puts)].ref \in Nat /\ icache[Head(call[p].puts)].inum \in Inums
  BY <1>1, <1>4, <1>6 DEF Typed, CacheRec, Numbered
<1> QED
  BY <1>1, <1>2, <1>3, <1>4, <1>5, <1>6, <1>7

\* What a call relies on does not depend on what it has still to put.
LEMMA PutsApart ==
  ASSUME NEW c, NEW e, e.at = c.at, e.op = c.op, e.ip = c.ip, e.obj = c.obj
  PROVE  /\ AtParent(e) <=> AtParent(c)
         /\ Linking(e) <=> Linking(c)
         /\ \A s : FirmIn(e, s) <=> FirmIn(c, s)
<1>1. AtParent(e) <=> AtParent(c)
  BY DEF AtParent, WantsParent
<1>2. Linking(e) <=> Linking(c)
  BY DEF Linking
<1> QED
  BY <1>1, <1>2 DEF FirmIn

LEMMA UnrefStep ==
  ASSUME IInv, NEW p \in Procs, call[p].puts # <<>>, call[p].stage \in {"lock", "unref"},
         Unref(p, Head(call[p].puts), icache), UNCHANGED <<dinode, cwd, fd, calls, panic>>
  PROVE  IInv'
<1> DEFINE c == [call[p] EXCEPT !.puts = Tail(@), !.stage = "lock"]
           q == call[p].puts
           s == Head(q)
<1>1. Typed /\ FirmTyped(p) /\ VictimIs(p) /\ LocksExact
  BY DEF IInv
<1>2. /\ call[p] \in CallRec /\ CallOK(call[p]) /\ call[p].at \notin NoPuts
      /\ s \in Slots /\ First(q) = s /\ Tail(q) \in PutLists
      /\ First(Tail(q)) = Second(q) /\ Second(Tail(q)) = None
      /\ icache[s].ref \in Nat /\ icache[s].ref > 0
  BY Putting
<1>3. icache' = [icache EXCEPT ![s].ref = @ - 1] /\ Become(p, c)
  BY DEF Unref
<1>4. PICK r \in PutLists : r = Tail(q)
  BY <1>2
<1>5. c = [call[p] EXCEPT !.puts = r, !.stage = "lock"]
  BY <1>4
<1> HIDE DEF c
<1>6. /\ c \in CallRec /\ c.at = call[p].at /\ c.ip = call[p].ip /\ c.obj = call[p].obj
      /\ c.puts = r /\ c.stage = "lock" /\ c.name = call[p].name
      /\ c.op = call[p].op /\ c.path = call[p].path /\ c.new = call[p].new
  BY <1>2, <1>5 DEF CallRec
<1>7. CallOK(c)
  BY <1>2, <1>4, <1>6 DEF CallOK, WantsParent
<1>8. /\ AtParent(c) <=> AtParent(call[p])
      /\ Linking(c) <=> Linking(call[p])
      /\ \A t : FirmIn(c, t) <=> FirmIn(call[p], t)
  BY <1>6, PutsApart, Zenon
<1> HIDE DEF q, s
<1>9. /\ icache' \in [Slots -> CacheRec]
      /\ \A t \in Slots :
           /\ icache'[t].lock = icache[t].lock
           /\ icache'[t].ref = IF t = s THEN icache[t].ref - 1 ELSE icache[t].ref
           /\ icache'[t].inum = icache[t].inum
           /\ icache'[t].valid = icache[t].valid
           /\ icache'[t].type = icache[t].type
           /\ icache'[t].nlink = icache[t].nlink
  <2>1. PICK n \in Nat : n = icache[s].ref - 1
    BY <1>2
  <2>2. icache' = [icache EXCEPT ![s].ref = n]
    BY <1>3, <2>1
  <2> QED
    <3>1. icache \in [Slots -> CacheRec]
      BY <1>1 DEF Typed
    <3>2. icache' \in [Slots -> CacheRec]
      <4>1. icache[s] \in CacheRec
        BY <1>2, <3>1
      <4>2. [icache[s] EXCEPT !.ref = n] \in CacheRec
        BY <4>1 DEF CacheRec
      <4>3. icache' = [icache EXCEPT ![s] = [icache[s] EXCEPT !.ref = n]]
        BY <2>2, <3>1
      <4> QED
        BY <3>1, <4>2, <4>3
    <3>3. ASSUME NEW t \in Slots
          PROVE  /\ icache'[t].lock = icache[t].lock
                 /\ icache'[t].ref = IF t = s THEN n ELSE icache[t].ref
                 /\ icache'[t].inum = icache[t].inum
                 /\ icache'[t].valid = icache[t].valid
                 /\ icache'[t].type = icache[t].type
                 /\ icache'[t].nlink = icache[t].nlink
      BY <1>2, <2>2, <3>1 DEF CacheRec
    <3> QED
      BY <2>1, <3>2, <3>3
<1>10. PlainSlots
  BY <1>2, <1>9 DEF PlainSlots
<1>11. ASSUME NEW t \in Slots
       PROVE  icache'[t].ref + MineOf(p, t) = icache[t].ref + Mine(cwd[p], fd[p], c, t)
  <2> DEFINE other == One(cwd[p] = t) + One(fd[p] = t)
                      + One(call[p].at \in WithIp /\ call[p].ip = t)
                      + One(call[p].at \in WithObj /\ call[p].obj = t)
  <2>1. None # t
    BY Numbers
  <2>2. other \in Nat
    BY DEF One
  <2>3. MineOf(p, t) = other + One(s = t) + One(Second(q) = t)
    BY <1>2 DEF MineOf, Mine, q
  <2>4. Mine(cwd[p], fd[p], c, t) = other + One(Second(q) = t) + One(None = t)
    BY <1>2, <1>4, <1>6 DEF Mine
  <2>5. icache[t].ref \in Nat
    BY <1>1 DEF Typed, CacheRec
  <2> HIDE DEF other
  <2> QED
    BY <1>9, <2>1, <2>2, <2>3, <2>4, <2>5 DEF One
<1>12. \A t \in Slots : HasLock(c, t) <=> HasLock(call[p], t)
  BY <1>6 DEF HasLock
<1>13. \A t \in Slots : icache'[t].lock = p <=> HasLock(c, t)
  BY <1>1, <1>9, <1>12 DEF LocksExact
<1>14. call'[p] = c /\ calls \in 0..CALLS
  BY <1>1, <1>3, <1>6, Became DEF Typed
<1>15. VictimIs(p)'
  <2>1. c.at \notin {"victim", "both"}
    BY <1>2, <1>6 DEF NoPuts
  <2>2. c.at = "full" => c.puts = <<>>
    <3>1. c.at = "full" => First(r) = None
      BY <1>2, <1>4, <1>6 DEF CallOK, q
    <3> QED
      BY <1>6, <3>1, PutNext
  <2> QED
    BY <1>14, <2>1, <2>2 DEF VictimIs
<1>16. /\ c.at # "user" => cwd[p] # None
       /\ AtParent(c) => DiskType(c.ip) = "dir"
       /\ Linking(c) => DiskType(c.obj) \notin {"free", "dir"}
       /\ c.at \notin Making
  BY <1>1, <1>2, <1>6, <1>8 DEF FirmTyped, NoPuts, Making
<1> QED
  BY <1>1, <1>3, <1>6, <1>7, <1>8, <1>9, <1>10, <1>11, <1>13, <1>14, <1>15, <1>16, GoStep

\* A call that does nothing but change its stage.
AtStage(c, st) == [c EXCEPT !.stage = st]
LEMMA StageIs ==
  ASSUME IInv, NEW p \in Procs, call[p].puts # <<>>,
         NEW st \in {"lock", "unref", "free", "invalid"},
         NEW c, c = AtStage(call[p], st),
         st \in {"free", "invalid"} => PutsOther(call[p])
  PROVE  /\ c \in CallRec /\ CallOK(c) /\ c.stage = st /\ c.puts = call[p].puts
         /\ c.at = call[p].at /\ c.at \notin NoPuts /\ c.at \notin Making
         /\ c.ip = call[p].ip /\ c.obj = call[p].obj /\ c.name = call[p].name
         /\ AtParent(c) <=> AtParent(call[p])
         /\ Linking(c) <=> Linking(call[p])
         /\ \A s : FirmIn(c, s) <=> FirmIn(call[p], s)
         /\ \A s \in Slots : Mine(cwd[p], fd[p], c, s) = MineOf(p, s)
<1>1. call[p] \in CallRec /\ CallOK(call[p]) /\ call[p].at \notin NoPuts
  BY Putting
<1>2. /\ c \in CallRec /\ c.at = call[p].at /\ c.ip = call[p].ip /\ c.obj = call[p].obj
      /\ c.puts = call[p].puts /\ c.stage = st /\ c.name = call[p].name
      /\ c.op = call[p].op /\ c.path = call[p].path /\ c.new = call[p].new
  BY <1>1 DEF CallRec, AtStage
<1>3. CallOK(c)
  BY <1>1, <1>2 DEF CallOK, WantsParent, PutsOther
<1>4. /\ AtParent(c) <=> AtParent(call[p])
      /\ Linking(c) <=> Linking(call[p])
      /\ \A s : FirmIn(c, s) <=> FirmIn(call[p], s)
  BY <1>2, PutsApart, Zenon
<1>5. \A s \in Slots : Mine(cwd[p], fd[p], c, s) = MineOf(p, s)
  BY <1>2 DEF Mine, MineOf
<1>6. c.at \notin NoPuts /\ c.at \notin Making
  BY <1>1, <1>2 DEF NoPuts, Making
<1> QED
  BY <1>2, <1>3, <1>4, <1>5, <1>6

LEMMA IputWaits ==
  ASSUME IInv, NEW p \in Procs, call[p].puts # <<>>, call[p].stage = "lock",
         Become(p, [call[p] EXCEPT !.stage = "unref"]),
         UNCHANGED <<dinode, icache, cwd, fd, calls, panic>>
  PROVE  IInv'
<1> DEFINE c == [call[p] EXCEPT !.stage = "unref"]
<1>1. Typed /\ FirmTyped(p) /\ VictimIs(p) /\ LocksExact
  BY DEF IInv
<1>2. /\ c \in CallRec /\ CallOK(c) /\ c.stage = "unref" /\ c.puts = call[p].puts
      /\ c.at = call[p].at /\ c.at \notin NoPuts /\ c.at \notin Making
      /\ c.ip = call[p].ip /\ c.obj = call[p].obj /\ c.name = call[p].name
      /\ AtParent(c) <=> AtParent(call[p])
      /\ Linking(c) <=> Linking(call[p])
      /\ \A s : FirmIn(c, s) <=> FirmIn(call[p], s)
      /\ \A s \in Slots : Mine(cwd[p], fd[p], c, s) = MineOf(p, s)
  <2> HIDE DEF c
  <2>1. c = AtStage(call[p], "unref")
    BY DEF c, AtStage
  <2>2. "unref" \in {"lock", "unref", "free", "invalid"}
    OBVIOUS
  <2> QED
    BY <2>1, <2>2, StageIs
<1>3. Become(p, c)
  OBVIOUS
<1> HIDE DEF c
<1>4. icache' \in [Slots -> CacheRec] /\ PlainSlots
  BY <1>1 DEF Typed, PlainSlots
<1>5. \A t \in Slots : icache'[t].lock = p <=> HasLock(c, t)
  BY <1>1, <1>2 DEF LocksExact, HasLock
<1>6. call'[p] = c /\ calls' \in 0..CALLS
  BY <1>1, <1>2, <1>3, Became DEF Typed
<1>7. VictimIs(p)'
  BY <1>1, <1>2, <1>6 DEF VictimIs, Entry
<1>8. /\ c.at # "user" => cwd[p] # None
      /\ AtParent(c) => DiskType(c.ip) = "dir"
      /\ Linking(c) => DiskType(c.obj) \notin {"free", "dir"}
  BY <1>1, <1>2 DEF FirmTyped
<1> QED
  BY <1>2, <1>3, <1>4, <1>5, <1>6, <1>7, <1>8, GoStep

\* With one reference left, nobody relies on the inode but through it.
LEMMA LastOfAll ==
  ASSUME IInv, NEW p \in Procs, call[p].puts # <<>>, icache[Head(call[p].puts)].ref = 1
  PROVE  \A q \in Procs : ~Firm(q, Head(call[p].puts))
<1> DEFINE s == Head(call[p].puts)
<1>1. Counted /\ \A q \in Procs : CallOK(call[q])
  BY DEF IInv
<1>2. s \in Slots /\ First(call[p].puts) = s /\ HoldsSlot(p, s)
  BY Putting
<1>3. ASSUME NEW q \in Procs \ {p}
      PROVE  ~Firm(q, s)
  BY <1>1, <1>2, LockHolds, Referenced
<1>4. ASSUME Firm(p, s)
      PROVE  FALSE
  <2> DEFINE other == One(cwd[p] = s) + One(fd[p] = s)
                      + One(call[p].at \in WithIp /\ call[p].ip = s)
                      + One(call[p].at \in WithObj /\ call[p].obj = s)
  <2>1. \/ cwd[p] = s \/ fd[p] = s
        \/ call[p].at \in WithIp /\ call[p].ip = s
        \/ call[p].at \in WithObj /\ call[p].obj = s
    <3>1. AtParent(call[p]) => call[p].at \in WithIp
      BY DEF AtParent, InParent, WithIp
    <3>2. Linking(call[p]) => call[p].at \in WithObj
      BY DEF Linking, Walking, WithObj
    <3> QED
      BY <1>4, <3>1, <3>2 DEF Firm, FirmIn
  <2>2. other \in Nat /\ other > 0
    BY <2>1 DEF One
  <2>3. MineOf(p, s) = other + One(First(call[p].puts) = s) + One(Second(call[p].puts) = s)
    BY DEF MineOf, Mine
  <2>4. MineOf(p, s) <= icache[s].ref
    BY <1>1, <1>2, References
  <2> HIDE DEF other, s
  <2>5. One(First(call[p].puts) = s) = 1 /\ One(Second(call[p].puts) = s) \in Nat
    BY <1>2 DEF One
  <2> QED
    BY <2>2, <2>3, <2>4, <2>5 DEF s
<1> QED
  BY <1>3, <1>4

LEMMA IputLocks ==
  ASSUME IInv, NEW p \in Procs, ~panic, call[p].puts # <<>>, call[p].stage = "lock",
         NEW s \in Slots, s = Head(call[p].puts), icache[s].lock = NoProc,
         icache[s].valid, icache[s].ref = 1,
         icache' = [icache EXCEPT ![s].lock = p],
         Become(p, [call[p] EXCEPT !.stage = "free"]),
         UNCHANGED <<dinode, cwd, fd, calls, panic>>
  PROVE  IInv'
<1> DEFINE c == [call[p] EXCEPT !.stage = "free"]
<1>1. Typed /\ FirmTyped(p) /\ VictimIs(p) /\ LocksExact /\ LockedValid
  BY DEF IInv
<1>2. /\ c \in CallRec /\ CallOK(c) /\ c.stage = "free" /\ c.puts = call[p].puts
      /\ c.at = call[p].at /\ c.at \notin NoPuts /\ c.at \notin Making
      /\ c.ip = call[p].ip /\ c.obj = call[p].obj /\ c.name = call[p].name
      /\ AtParent(c) <=> AtParent(call[p])
      /\ Linking(c) <=> Linking(call[p])
      /\ \A t : FirmIn(c, t) <=> FirmIn(call[p], t)
      /\ \A t \in Slots : Mine(cwd[p], fd[p], c, t) = MineOf(p, t)
  <2> HIDE DEF c
  <2>1. c = AtStage(call[p], "free")
    BY DEF c, AtStage
  <2>2. "free" \in {"lock", "unref", "free", "invalid"}
    OBVIOUS
  <2>3. PutsOther(call[p])
    BY <1>1, Putting, Numbers DEF PutsOther, LocksExact, HasLock
  <2> QED
    BY <2>1, <2>2, <2>3, StageIs, SMTT(30)
<1>3. Become(p, c)
  OBVIOUS
<1> HIDE DEF c
<1>4. First(call[p].puts) = s
  BY Putting
<1>5. call' \in [Procs -> CallRec] /\ call'[p] = c /\ \A q \in Procs \ {p} : call'[q] = call[q]
  BY <1>1, <1>2, <1>3, Became
<1>6. /\ icache' \in [Slots -> CacheRec]
      /\ \A t \in Slots :
           /\ icache'[t].lock = IF t = s THEN p ELSE icache[t].lock
           /\ icache'[t].ref = icache[t].ref
           /\ icache'[t].inum = icache[t].inum
           /\ icache'[t].valid = icache[t].valid
           /\ icache'[t].type = icache[t].type
           /\ icache'[t].nlink = icache[t].nlink
  <2>1. icache \in [Slots -> CacheRec]
    BY <1>1 DEF Typed
  <2> QED
    BY <2>1, SMTT(30) DEF CacheRec
<1>7. Typed'
  BY <1>1, <1>5, <1>6 DEF Typed
<1>8. OnlyCaller(p)
  BY <1>5 DEF OnlyCaller
<1>9. CountsMove(p)
  BY <1>2, <1>5, <1>6 DEF CountsMove, MineOf
<1>10. LocksMove(p)
  <2>1. \A t \in Slots : HasLock(c, t) <=> HasLock(call[p], t) \/ t = s
    BY <1>2, <1>4 DEF HasLock
  <2>2. \A t \in Slots : icache[t].lock = p <=> HasLock(call[p], t)
    BY <1>1 DEF LocksExact
  <2> QED
    BY <1>5, <1>6, <2>1, <2>2 DEF LocksMove
<1>11. \A t \in Slots : icache[t].ref \in Nat
  BY <1>1 DEF Typed, CacheRec
<1>12. SlotsKept
  BY <1>6, <1>11 DEF SlotsKept
<1>13. CacheMoves(p)
  BY <1>6 DEF CacheMoves, Untouched, Invalidating
<1>14. LockedValid'
  BY <1>1, <1>6 DEF LockedValid
<1>15. FirmMoves(p)
  BY <1>2, <1>5 DEF FirmMoves, Firm
<1>16. MakingKept(p)
  BY <1>2, <1>5 DEF MakingKept
<1>17. cwd[p] \in Slots \cup {None} /\ fd[p] \in Slots \cup {None}
       /\ call[p].ip \in Slots \cup {None} /\ CallOK(call[p])
  BY <1>1, SMTT(30) DEF IInv, Typed, CallRec
<1>18. FirmTyped(p)'
  <2>1. \A t \in Slots : DiskType(t)' = DiskType(t)
    BY <1>6 DEF DiskType
  <2>2. AtParent(call[p]) => call[p].ip \in Slots
    BY <1>17 DEF AtParent, CallOK, InParent, WithIp
  <2>3. Linking(call[p]) => call[p].obj \in Slots
    BY <1>17 DEF Linking, CallOK, Walking, WithObj
  <2>4. ASSUME AtParent(c), NEW t \in Slots, t = c.ip
        PROVE  DiskType(t)' = "dir"
    BY <1>1, <1>2, <2>1, <2>4 DEF FirmTyped
  <2>5. ASSUME Linking(c), NEW t \in Slots, t = c.obj
        PROVE  DiskType(t)' \notin {"free", "dir"}
    BY <1>1, <1>2, <2>1, <2>5 DEF FirmTyped
  <2>6. \A t \in {cwd'[p], fd'[p]} \ {None} : DiskType(t)' # "free"
    BY <1>1, <1>17, <2>1 DEF FirmTyped
  <2>7. c.at # "user" => cwd[p] # None
    BY <1>1, <1>2 DEF FirmTyped
  <2> QED
    BY <1>2, <1>5, <2>2, <2>3, <2>4, <2>5, <2>6, <2>7, ZenonT(60) DEF FirmTyped, DiskType
<1>19. NotFreed(p)'
  <2>1. \A q \in Procs : ~Firm(q, s)
    BY LastOfAll
  <2>2. ASSUME NEW q \in Procs
        PROVE  ~(cwd'[q] = s \/ fd'[q] = s \/ FirmIn(call'[q], s))
    BY <1>2, <1>5, <2>1, SMTT(30) DEF Firm
  <2> QED
    BY <1>2, <1>4, <1>5, <2>2 DEF NotFreed, Firm
<1>20. VictimIs(p)'
  <2>1. ASSUME call[p].at = "full"
        PROVE  dinode'[icache'[call[p].ip].inum].ents[call[p].name] = icache'[First(call[p].puts)].inum
    <3>1. call[p].ip \in Slots
      BY <1>17, <2>1 DEF CallOK, WithIp
    <3>2. call[p].puts # <<>>
      BY <1>1
    <3>3. Entry(call[p].ip, call[p].name) = icache[s].inum
      BY <1>1, <1>4, <2>1, <3>2 DEF VictimIs
    <3>4. icache'[call[p].ip].inum = icache[call[p].ip].inum /\ icache'[s].inum = icache[s].inum
      BY <1>6, <3>1
    <3>5. dinode' = dinode
      BY <1>1
    <3> QED
      BY <1>4, <3>3, <3>4, <3>5 DEF Entry
  <2> QED
    BY <1>1, <1>2, <1>5, <2>1, ZenonT(60) DEF VictimIs, Entry, NoPuts
<1> QED
  BY <1>2, <1>5, <1>7, <1>8, <1>9, <1>10, <1>12, <1>13, <1>14, <1>15, <1>16, <1>18, <1>19,
     <1>20, CacheStep

LEMMA IputStep ==
  ASSUME IInv, NEW p \in Procs, iput(p)
  PROVE  IInv'
<1>1. /\ ~panic /\ call[p].puts # <<>> /\ call[p].stage = "lock"
      /\ UNCHANGED <<dinode, cwd, fd, calls, panic>>
  BY DEF iput
<1>2. PICK s \in Slots : s = Head(call[p].puts)
  BY <1>1, Putting
<1>3. icache[s].lock = NoProc
  BY <1>2 DEF iput
<1>4. CASE Become(p, [call[p] EXCEPT !.stage = "unref"]) /\ UNCHANGED icache
  BY <1>1, <1>4, IputWaits
<1>5. CASE /\ ToFree(s) /\ icache' = [icache EXCEPT ![s].lock = p]
           /\ Become(p, [call[p] EXCEPT !.stage = "free"])
  <2>1. icache[s].valid /\ icache[s].ref = 1
    BY <1>5 DEF ToFree
  <2> QED
    BY <1>1, <1>2, <1>3, <1>5, <2>1, IputLocks
<1> QED
  BY <1>2, <1>4, <1>5 DEF iput

LEMMA IputUnrefStep ==
  ASSUME IInv, NEW p \in Procs, IputUnref(p)
  PROVE  IInv'
BY UnrefStep DEF IputUnref

\* The inode goes: nobody relies on it.
LEMMA IputFreeStep ==
  ASSUME IInv, NEW p \in Procs, IputFree(p)
  PROVE  IInv'
<1> DEFINE c == [call[p] EXCEPT !.stage = "invalid"]
<1>1. /\ call[p].puts # <<>> /\ call[p].stage = "free" /\ Become(p, c)
      /\ UNCHANGED <<cwd, fd, calls, panic>>
  BY DEF IputFree
<1>2. PICK s \in Slots : s = Head(call[p].puts)
  BY <1>1, Putting
<1>3. PICK i \in Inums : i = icache[s].inum
  BY <1>1, <1>2, Putting
<1>4. dinode' = [dinode EXCEPT ![i] = FreeInode] /\ icache' = [icache EXCEPT ![s].type = "free"]
  BY <1>2, <1>3 DEF IputFree
<1>5. /\ Typed /\ FirmTyped(p) /\ VictimIs(p) /\ NotFreed(p) /\ LocksExact /\ LockedValid
      /\ EntsTyped /\ Counted /\ OneEntry /\ Numbered /\ Acyclic
      /\ \A q \in Procs : CallOK(call[q])
  BY DEF IInv
<1>6. /\ c \in CallRec /\ CallOK(c) /\ c.stage = "invalid" /\ c.puts = call[p].puts
      /\ c.at = call[p].at /\ c.at \notin NoPuts /\ c.at \notin Making
      /\ c.ip = call[p].ip /\ c.obj = call[p].obj /\ c.name = call[p].name
      /\ AtParent(c) <=> AtParent(call[p])
      /\ Linking(c) <=> Linking(call[p])
      /\ \A t : FirmIn(c, t) <=> FirmIn(call[p], t)
      /\ \A t \in Slots : Mine(cwd[p], fd[p], c, t) = MineOf(p, t)
  <2> HIDE DEF c
  <2>1. c = AtStage(call[p], "invalid")
    BY DEF c, AtStage
  <2>2. "invalid" \in {"lock", "unref", "free", "invalid"}
    OBVIOUS
  <2>3. PutsOther(call[p])
    BY <1>1, <1>5 DEF CallOK
  <2> QED
    BY <1>1, <2>1, <2>2, <2>3, StageIs
<1> HIDE DEF c
<1>7. First(call[p].puts) = s /\ icache[s].ref > 0
  BY <1>1, <1>2, Putting
<1>8. call' \in [Procs -> CallRec] /\ call'[p] = c /\ \A q \in Procs \ {p} : call'[q] = call[q]
  BY <1>1, <1>5, <1>6, Became
<1>9. /\ icache' \in [Slots -> CacheRec]
      /\ \A t \in Slots :
           /\ icache'[t].lock = icache[t].lock
           /\ icache'[t].ref = icache[t].ref
           /\ icache'[t].inum = icache[t].inum
           /\ icache'[t].valid = icache[t].valid
           /\ t # s => icache'[t].type = icache[t].type
           /\ icache'[t].nlink = icache[t].nlink
  <2>1. icache \in [Slots -> CacheRec] /\ "free" \in Types
    BY <1>5 DEF Typed, Types
  <2> QED
    BY <1>4, <2>1 DEF CacheRec
<1>10. NoEntries \in [DirNames -> Inums \cup {None}] /\ \A n \in Names : NoEntries[n] = None
  BY DEF NoEntries, DirNames
<1>11. FreeInode \in DiskRec /\ FreeInode.type = "free" /\ FreeInode.ents = NoEntries
  BY <1>10 DEF FreeInode, DiskRec, Types
<1>12. /\ dinode' \in [Inums -> DiskRec] /\ dinode'[i] = FreeInode
       /\ \A j \in Inums \ {i} : dinode'[j] = dinode[j]
  BY <1>4, <1>5, <1>11 DEF Typed
<1>13. Typed'
  BY <1>1, <1>5, <1>8, <1>9, <1>12 DEF Typed
<1>14. OnlyCaller(p)
  BY <1>1, <1>8 DEF OnlyCaller
<1>15. CountsMove(p)
  BY <1>1, <1>6, <1>8, <1>9 DEF CountsMove, MineOf
<1>16. LocksMove(p) /\ icache[s].lock = p
  <2>1. \A t \in Slots : HasLock(c, t) <=> HasLock(call[p], t)
    BY <1>1, <1>6 DEF HasLock
  <2>2. \A t \in Slots : icache[t].lock = p <=> HasLock(call[p], t)
    BY <1>5 DEF LocksExact
  <2>3. HasLock(call[p], s)
    BY <1>1, <1>7 DEF HasLock
  <2> QED
    BY <1>8, <1>9, <2>1, <2>2, <2>3 DEF LocksMove
<1>17. SlotsKept
  BY <1>5, <1>9 DEF SlotsKept, Typed, CacheRec
<1>18. \A t \in Slots \ {s} : icache[t].ref > 0 => icache[t].inum \in Inums \ {i}
  BY <1>3, <1>5, <1>7 DEF OneEntry, Numbered
<1>19. CacheMoves(p)
  <2>1. Invalidating(call'[p], s)
    BY <1>6, <1>7, <1>8 DEF Invalidating
  <2>2. \A t \in Slots \ {s} : icache[t].ref > 0 => Untouched(p, t)
    BY <1>1, <1>9, <1>12, <1>18 DEF Untouched, Invalidating
  <2> QED
    BY <2>1, <2>2 DEF CacheMoves
<1>20. LockedValid'
  BY <1>5, <1>9 DEF LockedValid
<1>21. \A q \in Procs : ~Firm(q, s)
  BY <1>1, <1>5, <1>7 DEF NotFreed
<1>22. \A q \in Procs, t \in Slots : Firm(q, t) =>
         t # s /\ icache[t].ref > 0 /\ icache[t].inum \in Inums \ {i}
  BY <1>5, <1>18, <1>21, LockHolds, Referenced
<1>23. TypesKept(p)
  BY <1>12, <1>22 DEF TypesKept
<1>24. EntsKept(p)
  BY <1>3, <1>7, <1>12, <1>16 DEF EntsKept
<1>25. FirmMoves(p)
  BY <1>1, <1>6, <1>8 DEF FirmMoves, Firm
<1>26. EntsTyped'
  BY <1>5, <1>10, <1>11, <1>12 DEF EntsTyped
<1>27. Acyclic'
  <2>1. ASSUME NEW q \in Procs, call'[q].at \in Making
        PROVE  /\ call[q].at \in Making
               /\ icache'[call'[q].ip].inum = icache[call[q].ip].inum
               /\ Fresh(q)' = Fresh(q)
    <3>1. call'[q] = call[q]
      BY <1>6, <1>8, <2>1
    <3>2. call[q].ip \in Slots /\ (call[q].at # "made" => call[q].obj \in Slots)
      BY <1>5, <2>1, <3>1 DEF CallOK, Making, WithIp, WithObj, Walking
    <3> QED
      BY <1>9, <2>1, <3>1, <3>2 DEF Fresh
  <2>2. ASSUME NEW x \in Inums, NEW y \in Inums, Below(x, y)'
        PROVE  Below(x, y)
    <3>1. CASE \E n \in Names : dinode'[x].ents[n] = y
      BY <1>10, <1>11, <1>12, <3>1, Numbers DEF Below
    <3>2. CASE \E q \in Procs : /\ call'[q].at \in Making /\ icache'[call'[q].ip].inum = x
                                /\ Fresh(q)' = y
      BY <2>1, <3>2 DEF Below
    <3> QED
      BY <2>2, <3>1, <3>2 DEF Below
  <2> QED
    BY <1>5, <2>2 DEF Acyclic
<1>28. FirmTyped(p)'
  <2>1. \A t \in Slots : Firm(p, t) => DiskType(t)' = DiskType(t)
    BY <1>9, <1>12, <1>22 DEF DiskType
  <2>2. cwd[p] \in Slots \cup {None} /\ fd[p] \in Slots \cup {None}
        /\ call[p].ip \in Slots \cup {None}
    BY <1>5 DEF Typed, CallRec
  <2>3. AtParent(call[p]) => call[p].ip \in Slots
    BY <1>5, <2>2 DEF AtParent, CallOK, InParent, WithIp
  <2>4. Linking(call[p]) => call[p].obj \in Slots
    BY <1>5 DEF Linking, CallOK, Walking, WithObj
  <2>5. ASSUME AtParent(c), NEW t \in Slots, t = c.ip
        PROVE  DiskType(t)' = "dir"
    BY <1>5, <1>6, <2>1, <2>5 DEF FirmTyped, Firm, FirmIn
  <2>6. ASSUME Linking(c), NEW t \in Slots, t = c.obj
        PROVE  DiskType(t)' \notin {"free", "dir"}
    BY <1>5, <1>6, <2>1, <2>6 DEF FirmTyped, Firm, FirmIn
  <2>7. \A t \in {cwd'[p], fd'[p]} \ {None} : DiskType(t)' # "free"
    BY <1>1, <1>5, <2>1, <2>2 DEF FirmTyped, Firm
  <2>8. c.at # "user" => cwd'[p] # None
    BY <1>1, <1>5, <1>6 DEF FirmTyped
  <2> QED
    BY <1>6, <1>8, <2>3, <2>4, <2>5, <2>6, <2>7, <2>8 DEF FirmTyped, DiskType
<1>29. NotFreed(p)'
  BY <1>6, <1>8 DEF NotFreed
<1>30. VictimIs(p)'
  <2>1. ASSUME call[p].at = "full"
        PROVE  dinode'[icache'[call[p].ip].inum].ents[call[p].name] = icache'[First(call[p].puts)].inum
    <3>1. call[p].ip \in Slots
      BY <1>5, <2>1 DEF CallOK, WithIp
    <3>2. Firm(p, call[p].ip)
      BY <2>1 DEF Firm, FirmIn, AtParent, InParent
    <3>3. icache[call[p].ip].inum \in Inums \ {i}
      BY <1>22, <3>1, <3>2
    <3> QED
      BY <1>1, <1>5, <1>7, <1>9, <1>12, <2>1, <3>1, <3>3 DEF VictimIs, Entry
  <2> QED
    BY <1>1, <1>5, <1>6, <1>8, <2>1 DEF VictimIs, Entry, NoPuts
<1> QED
  BY <1>1, <1>6, <1>8, <1>13, <1>14, <1>15, <1>16, <1>17, <1>19, <1>20, <1>23, <1>24, <1>25,
     <1>26, <1>27, <1>28, <1>29, <1>30, Step

LEMMA IputInvalidStep ==
  ASSUME IInv, NEW p \in Procs, IputInvalid(p)
  PROVE  IInv'
<1> DEFINE c == [call[p] EXCEPT !.stage = "unref"]
<1>1. /\ call[p].puts # <<>> /\ call[p].stage = "invalid" /\ Become(p, c)
      /\ UNCHANGED <<dinode, cwd, fd, calls, panic>>
  BY DEF IputInvalid
<1>2. PICK s \in Slots : s = Head(call[p].puts)
  BY <1>1, Putting
<1>3. icache' = [Unlock(icache, s) EXCEPT ![s].valid = FALSE]
  BY <1>2 DEF IputInvalid, Invalidate
<1>4. /\ Typed /\ FirmTyped(p) /\ VictimIs(p) /\ LocksExact /\ LockedValid
      /\ CallOK(call[p])
  BY DEF IInv
<1>5. /\ c \in CallRec /\ CallOK(c) /\ c.stage = "unref" /\ c.puts = call[p].puts
      /\ c.at = call[p].at /\ c.at \notin NoPuts /\ c.at \notin Making
      /\ c.ip = call[p].ip /\ c.obj = call[p].obj /\ c.name = call[p].name
      /\ AtParent(c) <=> AtParent(call[p])
      /\ Linking(c) <=> Linking(call[p])
      /\ \A t : FirmIn(c, t) <=> FirmIn(call[p], t)
      /\ \A t \in Slots : Mine(cwd[p], fd[p], c, t) = MineOf(p, t)
  <2> HIDE DEF c
  <2>1. c = AtStage(call[p], "unref")
    BY DEF c, AtStage
  <2>2. "unref" \in {"lock", "unref", "free", "invalid"}
    OBVIOUS
  <2> QED
    BY <1>1, <2>1, <2>2, StageIs
<1> HIDE DEF c
<1>6. First(call[p].puts) = s
  BY <1>1, <1>2, Putting
<1>7. call' \in [Procs -> CallRec] /\ call'[p] = c /\ \A q \in Procs \ {p} : call'[q] = call[q]
  BY <1>1, <1>4, <1>5, Became
<1>8. /\ icache' \in [Slots -> CacheRec]
      /\ \A t \in Slots :
           /\ icache'[t].lock = IF t = s THEN NoProc ELSE icache[t].lock
           /\ icache'[t].ref = icache[t].ref
           /\ icache'[t].inum = icache[t].inum
           /\ icache'[t].valid = IF t = s THEN FALSE ELSE icache[t].valid
           /\ icache'[t].type = icache[t].type
           /\ icache'[t].nlink = icache[t].nlink
  <2> DEFINE u == Unlock(icache, s)
  <2>1. /\ u \in [Slots -> CacheRec]
        /\ \A t \in Slots :
             /\ u[t].lock = IF t = s THEN NoProc ELSE icache[t].lock
             /\ u[t].ref = icache[t].ref
             /\ u[t].inum = icache[t].inum
             /\ u[t].valid = icache[t].valid
             /\ u[t].type = icache[t].type
             /\ u[t].nlink = icache[t].nlink
    BY <1>4, UnlockDoes
  <2>2. icache' = [u EXCEPT ![s].valid = FALSE]
    BY <1>3
  <2> HIDE DEF u
  <2>3. icache' \in [Slots -> CacheRec]
    BY <2>1, <2>2 DEF CacheRec
  <2>4. ASSUME NEW t \in Slots
        PROVE  /\ icache'[t].lock = u[t].lock /\ icache'[t].ref = u[t].ref
               /\ icache'[t].inum = u[t].inum
               /\ icache'[t].valid = IF t = s THEN FALSE ELSE u[t].valid
               /\ icache'[t].type = u[t].type /\ icache'[t].nlink = u[t].nlink
    BY <2>1, <2>2 DEF CacheRec
  <2> QED
    BY <2>1, <2>3, <2>4
<1>9. Typed'
  BY <1>1, <1>4, <1>7, <1>8 DEF Typed
<1>10. OnlyCaller(p)
  BY <1>1, <1>7 DEF OnlyCaller
<1>11. CountsMove(p)
  BY <1>1, <1>5, <1>7, <1>8 DEF CountsMove, MineOf
<1>12. LocksMove(p) /\ NoProc # p
  <2>1. \A t \in Slots : HasLock(call[p], t) <=> HasLock(c, t) \/ t = s
    BY <1>1, <1>5, <1>6 DEF HasLock
  <2>2. ~HasLock(c, s)
    <3>1. PutsOther(call[p])
      BY <1>1, <1>4 DEF CallOK
    <3> QED
      BY <1>5, <1>6, <3>1 DEF HasLock, PutsOther
  <2>3. \A t \in Slots : icache[t].lock = p <=> HasLock(call[p], t)
    BY <1>4 DEF LocksExact
  <2> QED
    BY <1>7, <1>8, <2>1, <2>2, <2>3, Numbers DEF LocksMove
<1>13. SlotsKept
  <2>1. \A t \in Slots : icache[t].ref \in Nat
    BY <1>4 DEF Typed, CacheRec
  <2> QED
    <3>1. \A t \in Slots : icache'[t].inum = icache[t].inum /\ icache'[t].ref = icache[t].ref
      BY <1>8
    <3>2. \A t \in Slots : icache[t].ref = 0 => ~(icache'[t].ref > 0)
      BY <2>1, <3>1
    <3> QED
      BY <3>1, <3>2 DEF SlotsKept
<1>14. CacheMoves(p)
  <2>1. \A t \in Slots \ {s} : Untouched(p, t)
    BY <1>1, <1>6, <1>8 DEF Untouched, Invalidating
  <2> QED
    BY <1>8, <2>1 DEF CacheMoves
<1>15. LockedValid'
  BY <1>4, <1>8 DEF LockedValid
<1>16. FirmMoves(p)
  BY <1>1, <1>5, <1>7 DEF FirmMoves, Firm
<1>17. MakingKept(p)
  BY <1>5, <1>7 DEF MakingKept
<1>18. cwd[p] \in Slots \cup {None} /\ fd[p] \in Slots \cup {None}
       /\ call[p].ip \in Slots \cup {None}
  BY <1>4 DEF Typed, CallRec
<1>19. FirmTyped(p)'
  <2>1. \A t \in Slots : DiskType(t)' = DiskType(t)
    BY <1>1, <1>8 DEF DiskType
  <2>2. AtParent(call[p]) => call[p].ip \in Slots
    BY <1>4, <1>18 DEF AtParent, CallOK, InParent, WithIp
  <2>3. Linking(call[p]) => call[p].obj \in Slots
    BY <1>4 DEF Linking, CallOK, Walking, WithObj
  <2>4. ASSUME AtParent(c), NEW t \in Slots, t = c.ip
        PROVE  DiskType(t)' = "dir"
    BY <1>4, <1>5, <2>1, <2>4 DEF FirmTyped
  <2>5. ASSUME Linking(c), NEW t \in Slots, t = c.obj
        PROVE  DiskType(t)' \notin {"free", "dir"}
    BY <1>4, <1>5, <2>1, <2>5 DEF FirmTyped
  <2>6. \A t \in {cwd'[p], fd'[p]} \ {None} : DiskType(t)' # "free"
    BY <1>1, <1>4, <1>18, <2>1 DEF FirmTyped
  <2>7. c.at # "user" => cwd'[p] # None
    BY <1>1, <1>4, <1>5 DEF FirmTyped
  <2> QED
    BY <1>5, <1>7, <2>2, <2>3, <2>4, <2>5, <2>6, <2>7 DEF FirmTyped, DiskType
<1>20. NotFreed(p)'
  BY <1>5, <1>7 DEF NotFreed
<1>21. VictimIs(p)'
  <2>1. ASSUME call[p].at = "full"
        PROVE  dinode'[icache'[call[p].ip].inum].ents[call[p].name] = icache'[First(call[p].puts)].inum
    <3>1. call[p].ip \in Slots
      BY <1>4, <2>1 DEF CallOK, WithIp
    <3> QED
      BY <1>1, <1>2, <1>4, <1>6, <1>8, <2>1, <3>1 DEF VictimIs, Entry
  <2> QED
    BY <1>1, <1>4, <1>5, <1>7, <2>1 DEF VictimIs, Entry, NoPuts
<1> QED
  BY <1>1, <1>5, <1>7, <1>9, <1>10, <1>11, <1>12, <1>13, <1>14, <1>15, <1>16, <1>17, <1>19,
     <1>20, <1>21, CacheStep
-----------------------------------------------------------------------------
(***************************************************************************)
(* ilock()                                                                 *)
(***************************************************************************)
AtStep(c, at) == [c EXCEPT !.at = at]

LEMMA StepIs ==
  ASSUME Typed, NEW p \in Procs, call[p].puts = <<>>, CallOK(call[p]), NEW at \in Ats
  PROVE  LET c == AtStep(call[p], at)
         IN  /\ c \in CallRec /\ c.at = at /\ c.puts = <<>> /\ c.stage = "lock"
             /\ c.op = call[p].op /\ c.path = call[p].path /\ c.new = call[p].new
             /\ c.name = call[p].name /\ c.ip = call[p].ip /\ c.obj = call[p].obj
<1>1. call[p] \in CallRec
  BY DEF Typed
<1>2. call[p].stage = "lock"
  BY DEF CallOK
<1> QED
  BY <1>1, <1>2 DEF CallRec, AtStep

Loading(p, s) == Load([icache EXCEPT ![s].lock = p], s)
LEMMA LoadDoes ==
  ASSUME IInv, ~panic, NEW p \in Procs, NEW s \in Slots, HoldsSlot(p, s), icache[s].lock = NoProc,
         NEW c, c = Loading(p, s)
  PROVE  /\ c \in [Slots -> CacheRec]
         /\ \A t \in Slots \ {s} : c[t] = icache[t]
         /\ c[s].lock = p /\ c[s].ref = icache[s].ref /\ c[s].inum = icache[s].inum
         /\ c[s].valid /\ c[s].type = DiskType(s)
         /\ c[s].nlink = dinode[icache[s].inum].nlink
<1> DEFINE l == [icache EXCEPT ![s].lock = p]
<1>0. c = Load(l, s)
  BY DEF Loading
<1>1. Typed /\ Counted /\ Numbered
  BY DEF IInv
<1>2. icache \in [Slots -> CacheRec] /\ dinode \in [Inums -> DiskRec]
  BY <1>1 DEF Typed
<1>3. icache[s].ref > 0 /\ icache[s].inum \in Inums
  BY <1>1, Referenced DEF Numbered
<1>4. /\ l \in [Slots -> CacheRec]
      /\ \A t \in Slots \ {s} : l[t] = icache[t]
      /\ l[s].lock = p /\ l[s].ref = icache[s].ref /\ l[s].inum = icache[s].inum
      /\ l[s].valid = icache[s].valid /\ l[s].type = icache[s].type
      /\ l[s].nlink = icache[s].nlink
  BY <1>2 DEF CacheRec
<1> HIDE DEF l
<1>5. CASE l[s].valid
  <2>1. c = l
    BY <1>0, <1>5 DEF Load
  <2>2. icache[s].type = DiskType(s) /\ icache[s].nlink = dinode[icache[s].inum].nlink
    BY <1>3, <1>4, <1>5, UnlockedIs
  <2> QED
    BY <1>4, <1>5, <2>1, <2>2 DEF l
<1>6. CASE ~l[s].valid
  <2>1. PICK d \in DiskRec : d = dinode[icache[s].inum]
    BY <1>2, <1>3
  <2>2. c = [l EXCEPT ![s] = [@ EXCEPT !.valid = TRUE, !.type = d.type, !.nlink = d.nlink]]
    BY <1>0, <1>4, <1>6, <2>1 DEF Load
  <2>3. d.type \in Types /\ d.nlink \in Int
    BY <2>1 DEF DiskRec
  <2> DEFINE r == [l[s] EXCEPT !.valid = TRUE, !.type = d.type, !.nlink = d.nlink]
  <2>4. /\ r \in CacheRec /\ r.lock = p /\ r.ref = icache[s].ref /\ r.inum = icache[s].inum
        /\ r.valid /\ r.type = d.type /\ r.nlink = d.nlink
    BY <1>4, <2>3 DEF CacheRec
  <2>5. c = [l EXCEPT ![s] = r]
    BY <2>2
  <2> HIDE DEF r
  <2>6. c \in [Slots -> CacheRec] /\ c[s] = r /\ \A t \in Slots \ {s} : c[t] = icache[t]
    BY <1>4, <2>4, <2>5
  <2> QED
    BY <2>1, <2>4, <2>6 DEF DiskType
<1> QED
  BY <1>5, <1>6

LEMMA LockStep ==
  ASSUME IInv, ~panic, NEW p \in Procs, call[p].puts = <<>>, NEW s \in Slots,
         HoldsSlot(p, s), NEW at \in Ats, Ilock(p, s, at), NEW c, c = AtStep(call[p], at),
         CallOK(c), \A t \in Slots : HasLock(c, t) <=> HasLock(call[p], t) \/ t = s,
         \A t \in Slots : Mine(cwd[p], fd[p], c, t) = MineOf(p, t),
         AtParent(c) => AtParent(call[p]), Linking(c) => Linking(call[p]),
         at \in Making => at = "fill" /\ call[p].at = "new",
         at = "both" => call[p].at = "victim", at \notin {"victim", "full"},
         call[p].at # "user"
  PROVE  IInv'
<1>1. /\ Typed /\ FirmTyped(p) /\ VictimIs(p) /\ LocksExact /\ LockedValid
      /\ CallOK(call[p]) /\ Counted
  BY DEF IInv
<1>2. icache[s].lock = NoProc /\ UNCHANGED <<dinode, cwd, fd, calls>>
  BY DEF Ilock
<1> DEFINE l == Loading(p, s)
<1>3. /\ l \in [Slots -> CacheRec]
      /\ \A t \in Slots \ {s} : l[t] = icache[t]
      /\ l[s].lock = p /\ l[s].ref = icache[s].ref /\ l[s].inum = icache[s].inum
      /\ l[s].valid /\ l[s].type = DiskType(s)
      /\ l[s].nlink = dinode[icache[s].inum].nlink
  BY <1>2, LoadDoes
<1>4. CASE l[s].type = "free"
  <2>1. panic' = TRUE /\ UNCHANGED <<icache, call>>
    BY <1>4 DEF Ilock, Loading
  <2>2. dinode' \in [Inums -> DiskRec]
    BY <1>1, <1>2 DEF Typed
  <2> QED
    BY <1>2, <2>1, <2>2, PanicStep
<1>5. CASE l[s].type # "free"
  <2>1. icache' = l /\ Become(p, c) /\ UNCHANGED panic
    BY <1>5 DEF Ilock, AtStep, Loading
  <2> HIDE DEF l
  <2>2. /\ c \in CallRec /\ c.at = at /\ c.puts = <<>> /\ c.stage = "lock"
        /\ c.op = call[p].op /\ c.path = call[p].path /\ c.new = call[p].new
        /\ c.name = call[p].name /\ c.ip = call[p].ip /\ c.obj = call[p].obj
    BY <1>1, StepIs
  <2>3. call' \in [Procs -> CallRec] /\ call'[p] = c /\ \A q \in Procs \ {p} : call'[q] = call[q]
    BY <1>1, <2>1, <2>2, Became
  <2>4. Typed'
    BY <1>1, <1>2, <1>3, <2>1, <2>3 DEF Typed
  <2>5. OnlyCaller(p)
    BY <1>2, <2>3 DEF OnlyCaller
  <2>6. \A t \in Slots : icache'[t].ref = icache[t].ref /\ icache'[t].inum = icache[t].inum
    BY <1>3, <2>1
  <2>7. CountsMove(p)
    BY <1>2, <2>3, <2>6 DEF CountsMove, MineOf
  <2>8. LocksMove(p)
    <3>1. \A t \in Slots : icache[t].lock = p <=> HasLock(call[p], t)
      BY <1>1 DEF LocksExact
    <3> QED
      BY <1>2, <1>3, <2>1, <2>3, <3>1 DEF LocksMove
  <2>9. \A t \in Slots : icache[t].ref \in Nat
    BY <1>1 DEF Typed, CacheRec
  <2>10. SlotsKept
    BY <2>6, <2>9 DEF SlotsKept
  <2>11. CacheMoves(p)
    <3>1. Loaded(s)
      BY <1>2, <1>3, <1>5, <2>1 DEF Loaded, DiskType
    <3>2. call[p].stage = "lock"
      BY <1>1 DEF CallOK
    <3>3. \A t \in Slots \ {s} : Untouched(p, t)
      BY <1>2, <1>3, <2>1, <3>2 DEF Untouched, Invalidating
    <3> QED
      BY <3>1, <3>3 DEF CacheMoves
  <2>12. LockedValid'
    BY <1>1, <1>3, <2>1 DEF LockedValid
  <2>13. FirmMoves(p)
    <3>1. \A t : FirmIn(c, t) => FirmIn(call[p], t)
      BY <2>2 DEF FirmIn
    <3> QED
      BY <1>2, <2>3, <3>1 DEF FirmMoves, Firm
  <2>14. cwd[p] \in Slots \cup {None} /\ fd[p] \in Slots \cup {None}
         /\ call[p].ip \in Slots \cup {None}
    BY <1>1 DEF Typed, CallRec
  <2>15. MakingKept(p)
    <3>1. ASSUME at \in Making
          PROVE  call[p].ip \in Slots /\ call[p].obj \in Slots
      BY <1>1, <3>1 DEF CallOK, WithIp, WithObj, Walking
    <3>2. ASSUME at \in Making
          PROVE  Fresh(p)' = Fresh(p)
      BY <2>2, <2>3, <2>6, <3>1, <3>2 DEF Fresh
    <3> QED
      BY <2>2, <2>3, <2>6, <3>1, <3>2 DEF MakingKept, Making
  <2>16. FirmTyped(p)'
    <3>1. \A t \in Slots : DiskType(t)' = DiskType(t)
      BY <1>2, <2>6 DEF DiskType
    <3>2. AtParent(call[p]) => call[p].ip \in Slots
      BY <1>1, <2>14 DEF AtParent, CallOK, InParent, WithIp
    <3>3. Linking(call[p]) => call[p].obj \in Slots
      BY <1>1 DEF Linking, CallOK, Walking, WithObj
    <3>4. ASSUME AtParent(c), NEW t \in Slots, t = c.ip
          PROVE  DiskType(t)' = "dir"
      BY <1>1, <2>2, <3>1, <3>4 DEF FirmTyped
    <3>5. ASSUME Linking(c), NEW t \in Slots, t = c.obj
          PROVE  DiskType(t)' \notin {"free", "dir"}
      BY <1>1, <2>2, <3>1, <3>5 DEF FirmTyped
    <3>6. \A t \in {cwd'[p], fd'[p]} \ {None} : DiskType(t)' # "free"
      BY <1>1, <1>2, <2>14, <3>1 DEF FirmTyped
    <3>7. cwd'[p] # None
      BY <1>1, <1>2 DEF FirmTyped
    <3> QED
      BY <2>2, <2>3, <3>2, <3>3, <3>4, <3>5, <3>6, <3>7 DEF FirmTyped, DiskType
  <2>17. NotFreed(p)'
    BY <2>2, <2>3 DEF NotFreed
  <2>18. VictimIs(p)'
    <3>1. ASSUME at = "both"
          PROVE  /\ call[p].name \in Names
                 /\ dinode'[icache'[call[p].ip].inum].ents[call[p].name] = icache'[call[p].obj].inum
      <4>1. call[p].ip \in Slots /\ call[p].obj \in Slots
        BY <1>1, <3>1 DEF CallOK, WithIp, WithObj, Walking
      <4> QED
        BY <1>1, <1>2, <2>6, <3>1, <4>1 DEF VictimIs, Entry
    <3> QED
      BY <2>2, <2>3, <3>1 DEF VictimIs, Entry
  <2> QED
    BY <1>2, <2>1, <2>3, <2>4, <2>5, <2>7, <2>8, <2>10, <2>11, <2>12, <2>13, <2>15, <2>16,
       <2>17, <2>18, CacheStep
<1> QED
  BY <1>4, <1>5

LEMMA NamexLockStep ==
  ASSUME IInv, NEW p \in Procs, NamexLock(p)
  PROVE  IInv'
<1> DEFINE c == AtStep(call[p], "namei")
<1>1. /\ ~panic /\ call[p].at = "namex" /\ call[p].puts = <<>>
      /\ Ilock(p, call[p].ip, "namei")
  BY DEF NamexLock, Doing
<1>2. Typed /\ FirmTyped(p) /\ CallOK(call[p]) /\ call[p].stage = "lock" /\ "namei" \in Ats
  BY <1>1, Quiet DEF IInv, Ats, WithIp, WithObj
<1>3. /\ c \in CallRec /\ c.at = "namei" /\ c.puts = <<>> /\ c.stage = "lock"
      /\ c.op = call[p].op /\ c.path = call[p].path /\ c.new = call[p].new
      /\ c.name = call[p].name /\ c.ip = call[p].ip /\ c.obj = call[p].obj
  BY <1>1, <1>2, StepIs
<1>0. c = AtStep(call[p], "namei")
  OBVIOUS
<1> HIDE DEF c
<1>4. PICK s \in Slots : s = call[p].ip
  BY <1>1, <1>2 DEF CallOK, WithIp, WithObj, Walking
<1>5. HoldsSlot(p, s)
  BY <1>1, <1>4 DEF HoldsSlot, Holds, WithIp, WithObj
<1>6. icache[s].lock = NoProc /\ ~HasLock(call[p], s)
  BY <1>1, <1>4, UnlockedIs DEF Ilock
<1>7. CallOK(c)
  BY <1>1, <1>2, <1>3, <1>4, <1>6
     DEF CallOK, WithIp, WithObj, Walking, Making, InParent, NoPuts, HasLock, IpLocked, WantsParent
<1>8. \A t \in Slots : HasLock(c, t) <=> HasLock(call[p], t) \/ t = s
  BY <1>1, <1>2, <1>3, <1>4 DEF HasLock, IpLocked, ObjLocked
<1>9. ASSUME NEW t \in Slots
      PROVE  Mine(cwd[p], fd[p], c, t) = MineOf(p, t)
  <2>1. c.at \in WithIp <=> call[p].at \in WithIp
    BY <1>1, <1>3 DEF WithIp
  <2>2. c.at \in WithObj <=> call[p].at \in WithObj
    BY <1>1, <1>3 DEF WithObj
  <2> QED
    BY <1>1, <1>3, <2>1, <2>2 DEF Mine, MineOf
<1>10. (AtParent(c) => AtParent(call[p])) /\ (Linking(c) => Linking(call[p]))
  BY <1>1, <1>3 DEF AtParent, Linking, InParent, Walking
<1> QED
  BY <1>0, <1>1, <1>2, <1>4, <1>5, <1>7, <1>8, <1>9, <1>10, LockStep DEF Making

LEMMA LockOldStep ==
  ASSUME IInv, NEW p \in Procs, LockOld(p)
  PROVE  IInv'
<1> DEFINE c == AtStep(call[p], "exists")
<1>1. /\ ~panic /\ call[p].at = "old" /\ call[p].puts = <<>>
      /\ Ilock(p, call[p].obj, "exists")
  BY DEF LockOld, Doing
<1>2. Typed /\ FirmTyped(p) /\ CallOK(call[p]) /\ call[p].stage = "lock" /\ "exists" \in Ats
  BY <1>1, Quiet DEF IInv, Ats, WithIp, WithObj
<1>3. /\ c \in CallRec /\ c.at = "exists" /\ c.puts = <<>> /\ c.stage = "lock"
      /\ c.op = call[p].op /\ c.path = call[p].path /\ c.new = call[p].new
      /\ c.name = call[p].name /\ c.ip = call[p].ip /\ c.obj = call[p].obj
  BY <1>1, <1>2, StepIs
<1>0. c = AtStep(call[p], "exists")
  OBVIOUS
<1> HIDE DEF c
<1>4. PICK s \in Slots : s = call[p].obj
  BY <1>1, <1>2 DEF CallOK, WithIp, WithObj, Walking
<1>5. HoldsSlot(p, s)
  BY <1>1, <1>4 DEF HoldsSlot, Holds, WithIp, WithObj
<1>6. icache[s].lock = NoProc /\ ~HasLock(call[p], s)
  BY <1>1, <1>4, UnlockedIs DEF Ilock
<1>7. CallOK(c)
  BY <1>1, <1>2, <1>3, <1>4, <1>6
     DEF CallOK, WithIp, WithObj, Walking, Making, InParent, NoPuts, HasLock, IpLocked, WantsParent
<1>8. \A t \in Slots : HasLock(c, t) <=> HasLock(call[p], t) \/ t = s
  BY <1>1, <1>2, <1>3, <1>4 DEF HasLock, IpLocked, ObjLocked
<1>9. ASSUME NEW t \in Slots
      PROVE  Mine(cwd[p], fd[p], c, t) = MineOf(p, t)
  <2>1. c.at \in WithIp <=> call[p].at \in WithIp
    BY <1>1, <1>3 DEF WithIp
  <2>2. c.at \in WithObj <=> call[p].at \in WithObj
    BY <1>1, <1>3 DEF WithObj
  <2> QED
    BY <1>1, <1>3, <2>1, <2>2 DEF Mine, MineOf
<1>10. (AtParent(c) => AtParent(call[p])) /\ (Linking(c) => Linking(call[p]))
  BY <1>1, <1>3 DEF AtParent, Linking, InParent, Walking
<1> QED
  BY <1>0, <1>1, <1>2, <1>4, <1>5, <1>7, <1>8, <1>9, <1>10, LockStep DEF Making

LEMMA LockNewStep ==
  ASSUME IInv, NEW p \in Procs, LockNew(p)
  PROVE  IInv'
<1> DEFINE c == AtStep(call[p], "fill")
<1>1. /\ ~panic /\ call[p].at = "new" /\ call[p].puts = <<>>
      /\ Ilock(p, call[p].obj, "fill")
  BY DEF LockNew, Doing
<1>2. Typed /\ FirmTyped(p) /\ CallOK(call[p]) /\ call[p].stage = "lock" /\ "fill" \in Ats
  BY <1>1, Quiet DEF IInv, Ats, WithIp, WithObj
<1>3. /\ c \in CallRec /\ c.at = "fill" /\ c.puts = <<>> /\ c.stage = "lock"
      /\ c.op = call[p].op /\ c.path = call[p].path /\ c.new = call[p].new
      /\ c.name = call[p].name /\ c.ip = call[p].ip /\ c.obj = call[p].obj
  BY <1>1, <1>2, StepIs
<1>0. c = AtStep(call[p], "fill")
  OBVIOUS
<1> HIDE DEF c
<1>4. PICK s \in Slots : s = call[p].obj
  BY <1>1, <1>2 DEF CallOK, WithIp, WithObj, Walking
<1>5. HoldsSlot(p, s)
  BY <1>1, <1>4 DEF HoldsSlot, Holds, WithIp, WithObj
<1>6. icache[s].lock = NoProc /\ ~HasLock(call[p], s)
  BY <1>1, <1>4, UnlockedIs DEF Ilock
<1>7. CallOK(c)
  BY <1>1, <1>2, <1>3, <1>4, <1>6
     DEF CallOK, WithIp, WithObj, Walking, Making, InParent, NoPuts, HasLock, IpLocked, WantsParent
<1>8. \A t \in Slots : HasLock(c, t) <=> HasLock(call[p], t) \/ t = s
  BY <1>1, <1>2, <1>3, <1>4 DEF HasLock, IpLocked, ObjLocked
<1>9. ASSUME NEW t \in Slots
      PROVE  Mine(cwd[p], fd[p], c, t) = MineOf(p, t)
  <2>1. c.at \in WithIp <=> call[p].at \in WithIp
    BY <1>1, <1>3 DEF WithIp
  <2>2. c.at \in WithObj <=> call[p].at \in WithObj
    BY <1>1, <1>3 DEF WithObj
  <2> QED
    BY <1>1, <1>3, <2>1, <2>2 DEF Mine, MineOf
<1>10. (AtParent(c) => AtParent(call[p])) /\ (Linking(c) => Linking(call[p]))
  BY <1>1, <1>3 DEF AtParent, Linking, InParent, Walking
<1> QED
  BY <1>0, <1>1, <1>2, <1>4, <1>5, <1>7, <1>8, <1>9, <1>10, LockStep DEF Making

LEMMA LockVictimStep ==
  ASSUME IInv, NEW p \in Procs, LockVictim(p)
  PROVE  IInv'
<1> DEFINE c == AtStep(call[p], "both")
<1>1. /\ ~panic /\ call[p].at = "victim" /\ call[p].puts = <<>>
      /\ Ilock(p, call[p].obj, "both")
  BY DEF LockVictim, Doing
<1>2. Typed /\ FirmTyped(p) /\ CallOK(call[p]) /\ call[p].stage = "lock" /\ "both" \in Ats
  BY <1>1, Quiet DEF IInv, Ats, WithIp, WithObj
<1>3. /\ c \in CallRec /\ c.at = "both" /\ c.puts = <<>> /\ c.stage = "lock"
      /\ c.op = call[p].op /\ c.path = call[p].path /\ c.new = call[p].new
      /\ c.name = call[p].name /\ c.ip = call[p].ip /\ c.obj = call[p].obj
  BY <1>1, <1>2, StepIs
<1>0. c = AtStep(call[p], "both")
  OBVIOUS
<1> HIDE DEF c
<1>4. PICK s \in Slots : s = call[p].obj
  BY <1>1, <1>2 DEF CallOK, WithIp, WithObj, Walking
<1>5. HoldsSlot(p, s)
  BY <1>1, <1>4 DEF HoldsSlot, Holds, WithIp, WithObj
<1>6. icache[s].lock = NoProc /\ ~HasLock(call[p], s)
  BY <1>1, <1>4, UnlockedIs DEF Ilock
<1>7. CallOK(c)
  BY <1>1, <1>2, <1>3, <1>4, <1>6
     DEF CallOK, WithIp, WithObj, Walking, Making, InParent, NoPuts, HasLock, IpLocked, WantsParent
<1>8. \A t \in Slots : HasLock(c, t) <=> HasLock(call[p], t) \/ t = s
  BY <1>1, <1>2, <1>3, <1>4 DEF HasLock, IpLocked, ObjLocked
<1>9. ASSUME NEW t \in Slots
      PROVE  Mine(cwd[p], fd[p], c, t) = MineOf(p, t)
  <2>1. c.at \in WithIp <=> call[p].at \in WithIp
    BY <1>1, <1>3 DEF WithIp
  <2>2. c.at \in WithObj <=> call[p].at \in WithObj
    BY <1>1, <1>3 DEF WithObj
  <2> QED
    BY <1>1, <1>3, <2>1, <2>2 DEF Mine, MineOf
<1>10. (AtParent(c) => AtParent(call[p])) /\ (Linking(c) => Linking(call[p]))
  BY <1>1, <1>3 DEF AtParent, Linking, InParent, Walking
<1> QED
  BY <1>0, <1>1, <1>2, <1>4, <1>5, <1>7, <1>8, <1>9, <1>10, LockStep DEF Making

LEMMA LinkBadStep ==
  ASSUME IInv, NEW p \in Procs, LinkBad(p)
  PROVE  IInv'
<1> DEFINE c == AtStep(call[p], "takeback")
<1>1. /\ ~panic /\ call[p].at = "bad" /\ call[p].puts = <<>>
      /\ Ilock(p, call[p].obj, "takeback")
  BY DEF LinkBad, Doing
<1>2. Typed /\ FirmTyped(p) /\ CallOK(call[p]) /\ call[p].stage = "lock" /\ "takeback" \in Ats
  BY <1>1, Quiet DEF IInv, Ats, WithIp, WithObj
<1>3. /\ c \in CallRec /\ c.at = "takeback" /\ c.puts = <<>> /\ c.stage = "lock"
      /\ c.op = call[p].op /\ c.path = call[p].path /\ c.new = call[p].new
      /\ c.name = call[p].name /\ c.ip = call[p].ip /\ c.obj = call[p].obj
  BY <1>1, <1>2, StepIs
<1>0. c = AtStep(call[p], "takeback")
  OBVIOUS
<1> HIDE DEF c
<1>4. PICK s \in Slots : s = call[p].obj
  BY <1>1, <1>2 DEF CallOK, WithIp, WithObj, Walking
<1>5. HoldsSlot(p, s)
  BY <1>1, <1>4 DEF HoldsSlot, Holds, WithIp, WithObj
<1>6. icache[s].lock = NoProc /\ ~HasLock(call[p], s)
  BY <1>1, <1>4, UnlockedIs DEF Ilock
<1>7. CallOK(c)
  BY <1>1, <1>2, <1>3, <1>4, <1>6
     DEF CallOK, WithIp, WithObj, Walking, Making, InParent, NoPuts, HasLock, IpLocked, WantsParent
<1>8. \A t \in Slots : HasLock(c, t) <=> HasLock(call[p], t) \/ t = s
  BY <1>1, <1>2, <1>3, <1>4 DEF HasLock, IpLocked, ObjLocked
<1>9. ASSUME NEW t \in Slots
      PROVE  Mine(cwd[p], fd[p], c, t) = MineOf(p, t)
  <2>1. c.at \in WithIp <=> call[p].at \in WithIp
    BY <1>1, <1>3 DEF WithIp
  <2>2. c.at \in WithObj <=> call[p].at \in WithObj
    BY <1>1, <1>3 DEF WithObj
  <2> QED
    BY <1>1, <1>3, <2>1, <2>2 DEF Mine, MineOf
<1>10. (AtParent(c) => AtParent(call[p])) /\ (Linking(c) => Linking(call[p]))
  BY <1>1, <1>3 DEF AtParent, Linking, InParent, Walking
<1> QED
  BY <1>0, <1>1, <1>2, <1>4, <1>5, <1>7, <1>8, <1>9, <1>10, LockStep DEF Making

LEMMA FoundLockStep ==
  ASSUME IInv, NEW p \in Procs, FoundLock(p)
  PROVE  IInv'
<1> DEFINE at == AfterLock(call[p])
           c == AtStep(call[p], at)
<1>1. /\ ~panic /\ call[p].at = "found" /\ call[p].puts = <<>> /\ call[p].ip # None
      /\ Ilock(p, call[p].ip, at)
  BY DEF FoundLock, Doing
<1>2. Typed /\ FirmTyped(p) /\ call[p] \in CallRec /\ CallOK(call[p]) /\ call[p].stage = "lock"
  BY <1>1, Quiet DEF IInv
<1>3. /\ call[p].op \in PathOps
      /\ call[p].obj = None \/ (call[p].obj \in Slots /\ call[p].op = "link")
      /\ call[p].op = "link" => call[p].new # <<>>
      /\ WantsParent(call[p]) => call[p].name \in DirNames
  BY <1>1, <1>2 DEF CallOK, Walking
<1>4. \/ at = "create" /\ call[p].op \in MakeOps /\ call[p].obj = None /\ WantsParent(call[p])
      \/ at = "dirlink" /\ call[p].op = "link" /\ call[p].obj # None /\ WantsParent(call[p])
      \/ at = "unlink" /\ call[p].op = "unlink" /\ call[p].obj = None /\ WantsParent(call[p])
      \/ at \in {"open", "chdir", "link"} /\ call[p].op = at /\ call[p].obj = None
         /\ ~WantsParent(call[p])
  BY <1>3 DEF AfterLock, MakeOps, PathOps, WantsParent
<1>5. at \in Ats
  BY <1>4 DEF Ats, WithIp
<1>6. /\ c \in CallRec /\ c.at = at /\ c.puts = <<>> /\ c.stage = "lock"
      /\ c.op = call[p].op /\ c.path = call[p].path /\ c.new = call[p].new
      /\ c.name = call[p].name /\ c.ip = call[p].ip /\ c.obj = call[p].obj
  BY <1>1, <1>2, <1>5, StepIs
<1>7. c = AtStep(call[p], at)
  OBVIOUS
<1> HIDE DEF c, at
<1>8. PICK s \in Slots : s = call[p].ip
  BY <1>1, <1>2 DEF CallRec
<1>9. HoldsSlot(p, s)
  BY <1>1, <1>8 DEF HoldsSlot, Holds, WithIp
<1>10. CallOK(c)
  <2>1. at \in {"create", "dirlink", "unlink", "open", "chdir", "link"}
    BY <1>4
  <2>2. c.at \in InParent => c.name \in DirNames
    BY <1>3, <1>4, <1>6 DEF InParent
  <2>3. c.at \in WithObj => c.obj \in Slots
    BY <1>3, <1>4, <1>6 DEF WithObj
  <2>4. c.at = "link" => c.op = "link" /\ c.new # <<>>
    BY <1>3, <1>4, <1>6
  <2>5. c.at \in Making \cup {"create", "old", "exists"} => c.op \in MakeOps
    BY <1>4, <1>6 DEF Making
  <2> QED
    BY <1>6, <1>8, <2>1, <2>2, <2>3, <2>4, <2>5 DEF CallOK, Walking, Making
<1>11. \A t \in Slots : HasLock(c, t) <=> HasLock(call[p], t) \/ t = s
  BY <1>1, <1>2, <1>4, <1>6, <1>8 DEF HasLock, IpLocked, ObjLocked
<1>12. ASSUME NEW t \in Slots
       PROVE  Mine(cwd[p], fd[p], c, t) = MineOf(p, t)
  <2>1. c.at \in WithIp /\ call[p].at \in WithIp
    BY <1>1, <1>4, <1>6 DEF WithIp
  <2>2. c.at \in WithObj /\ c.obj = t <=> call[p].at \in WithObj /\ call[p].obj = t
    BY <1>1, <1>4, <1>6, Numbers DEF WithObj
  <2> QED
    BY <1>1, <1>6, <2>1, <2>2 DEF Mine, MineOf, One
<1>13. (AtParent(c) => AtParent(call[p])) /\ (Linking(c) => Linking(call[p]))
  BY <1>1, <1>4, <1>6 DEF AtParent, Linking, InParent, Walking
<1>14. at \notin Making /\ at \notin {"both", "victim", "full"}
  BY <1>4 DEF Making
<1> QED
  BY <1>1, <1>5, <1>7, <1>8, <1>9, <1>10, <1>11, <1>12, <1>13, <1>14, LockStep
-----------------------------------------------------------------------------
(***************************************************************************)
(* iget()                                                                  *)
(***************************************************************************)
LEMMA LowestIsOne ==
  ASSUME NEW S \in SUBSET Slots, S # {}
  PROVE  Lowest(S) \in S
<1>1. Slots \subseteq Nat
  BY Numbers
<1> DEFINE R == OpToRel(<, Nat)
<1>2. IsWellFoundedOn(R, Nat)
  BY NatLessThanWellFounded
<1>3. PICK x \in S : \A y \in S : <<y, x>> \notin R
  BY <1>1, <1>2, WFMin
<1>4. ASSUME NEW y \in S
      PROVE  x <= y
  <2>1. x \in Nat /\ y \in Nat
    BY <1>1
  <2>2. ~(y < x)
    BY <1>3, <2>1 DEF OpToRel
  <2> QED
    BY <2>1, <2>2
<1> QED
  BY <1>4 DEF Lowest

LEMMA IgetOn ==
  ASSUME Typed, NEW i \in Inums, CanGet(i), NEW s, s = SlotFor(i),
         NEW h \in [Slots -> CacheRec],
         \A t \in Slots : h[t].ref = icache[t].ref /\ h[t].inum = icache[t].inum,
         NEW g, g = Iget(h, i)
  PROVE  /\ s \in Slots /\ g \in [Slots -> CacheRec]
         /\ \A t \in Slots : g[t].lock = h[t].lock
         /\ \A t \in Slots \ {s} : g[t] = h[t]
         /\ g[s].ref = icache[s].ref + 1 /\ g[s].inum = i
         /\ icache[s].ref > 0 => /\ icache[s].inum = i /\ g[s].valid = h[s].valid
                                 /\ g[s].type = h[s].type /\ g[s].nlink = h[s].nlink
         /\ icache[s].ref = 0 => ~g[s].valid /\ \A t \in Slots : icache[t].ref > 0 => icache[t].inum # i
<1>1. icache \in [Slots -> CacheRec]
  BY DEF Typed
<1>2. \A t \in Slots : icache[t].ref \in Nat
  BY <1>1 DEF CacheRec
<1>3. CASE Cached(i) # {}
  <2>1. s \in Cached(i)
    BY <1>3, LowestIsOne DEF SlotFor, Cached
  <2>2. s \in Slots /\ icache[s].ref > 0 /\ icache[s].inum = i
    BY <2>1 DEF Cached
  <2>3. PICK n \in Nat : n = icache[s].ref + 1
    BY <1>2, <2>2
  <2>4. g = [h EXCEPT ![s].ref = n]
    BY <1>3, <2>2, <2>3 DEF Iget
  <2>5. g \in [Slots -> CacheRec]
    BY <2>2, <2>4 DEF CacheRec
  <2>6. \A t \in Slots \ {s} : g[t] = h[t]
    BY <2>4
  <2>7. /\ g[s].ref = n /\ g[s].inum = h[s].inum /\ g[s].lock = h[s].lock
        /\ g[s].valid = h[s].valid /\ g[s].type = h[s].type
        /\ g[s].nlink = h[s].nlink
    BY <2>2, <2>4 DEF CacheRec
  <2> QED
    BY <1>2, <2>2, <2>3, <2>5, <2>6, <2>7
<1>4. CASE Cached(i) = {}
  <2>1. s \in Unused
    BY <1>4, LowestIsOne DEF SlotFor, CanGet, Unused
  <2>2. s \in Slots /\ icache[s].ref = 0
    BY <2>1 DEF Unused
  <2>3. \A t \in Slots : icache[t].ref > 0 => icache[t].inum # i
    BY <1>4 DEF Cached
  <2> DEFINE r == [h[s] EXCEPT !.inum = i, !.ref = 1, !.valid = FALSE]
  <2>4. /\ r \in CacheRec /\ r.lock = h[s].lock /\ r.inum = i /\ r.ref = 1 /\ ~r.valid
    BY <2>2 DEF CacheRec
  <2>5. g = [h EXCEPT ![s] = r]
    BY <1>4 DEF Iget
  <2> HIDE DEF r
  <2>6. g \in [Slots -> CacheRec] /\ g[s] = r /\ \A t \in Slots \ {s} : g[t] = h[t]
    BY <2>2, <2>4, <2>5
  <2> QED
    BY <2>2, <2>3, <2>4, <2>6
<1> QED
  BY <1>3, <1>4

LEMMA IgetDoes ==
  ASSUME Typed, NEW i \in Inums, CanGet(i), NEW s, s = SlotFor(i), NEW g, g = Iget(icache, i)
  PROVE  /\ s \in Slots /\ g \in [Slots -> CacheRec]
         /\ \A t \in Slots : g[t].lock = icache[t].lock
         /\ \A t \in Slots \ {s} : g[t] = icache[t]
         /\ g[s].ref = icache[s].ref + 1 /\ g[s].inum = i
         /\ icache[s].ref > 0 => /\ icache[s].inum = i /\ g[s].valid = icache[s].valid
                                 /\ g[s].type = icache[s].type /\ g[s].nlink = icache[s].nlink
         /\ icache[s].ref = 0 => ~g[s].valid /\ \A t \in Slots : icache[t].ref > 0 => icache[t].inum # i
<1>1. PICK h \in [Slots -> CacheRec] : h = icache
  BY DEF Typed
<1>2. /\ g = Iget(h, i)
      /\ \A t \in Slots : h[t].ref = icache[t].ref /\ h[t].inum = icache[t].inum
  BY <1>1
<1>3. /\ s \in Slots /\ g \in [Slots -> CacheRec]
      /\ \A t \in Slots : g[t].lock = h[t].lock
      /\ \A t \in Slots \ {s} : g[t] = h[t]
      /\ g[s].ref = icache[s].ref + 1 /\ g[s].inum = i
      /\ icache[s].ref > 0 => /\ icache[s].inum = i /\ g[s].valid = h[s].valid
                              /\ g[s].type = h[s].type /\ g[s].nlink = h[s].nlink
      /\ icache[s].ref = 0 => ~g[s].valid /\ \A t \in Slots : icache[t].ref > 0 => icache[t].inum # i
  BY <1>2, IgetOn
<1> QED
  BY <1>1, <1>3

\* The cache after iget() of inode i in entry s, but for locks.
GetsSlot(i, s) ==
  /\ \A t \in Slots \ {s} :
       /\ icache'[t].ref = icache[t].ref /\ icache'[t].inum = icache[t].inum
       /\ icache'[t].valid = icache[t].valid
       /\ icache'[t].type = icache[t].type /\ icache'[t].nlink = icache[t].nlink
  /\ icache'[s].ref = icache[s].ref + 1 /\ icache'[s].inum = i
  /\ icache[s].ref > 0 =>
       /\ icache[s].inum = i /\ icache'[s].valid = icache[s].valid
       /\ icache'[s].type = icache[s].type /\ icache'[s].nlink = icache[s].nlink
  /\ icache[s].ref = 0 =>
       ~icache'[s].valid /\ \A t \in Slots : icache[t].ref > 0 => icache[t].inum # i

LEMMA GotSlot ==
  ASSUME Typed, NEW i \in Inums, CanGet(i), NEW s, s = SlotFor(i),
         \/ icache' = Iget(icache, i)
         \/ \E u \in Slots : icache' = Unlock(Iget(icache, i), u)
  PROVE  s \in Slots /\ icache' \in [Slots -> CacheRec] /\ GetsSlot(i, s)
<1> DEFINE g == Iget(icache, i)
<1>1. /\ s \in Slots /\ g \in [Slots -> CacheRec]
      /\ \A t \in Slots : g[t].lock = icache[t].lock
      /\ \A t \in Slots \ {s} : g[t] = icache[t]
      /\ g[s].ref = icache[s].ref + 1 /\ g[s].inum = i
      /\ icache[s].ref > 0 => /\ icache[s].inum = i /\ g[s].valid = icache[s].valid
                              /\ g[s].type = icache[s].type /\ g[s].nlink = icache[s].nlink
      /\ icache[s].ref = 0 => ~g[s].valid /\ \A t \in Slots : icache[t].ref > 0 => icache[t].inum # i
  <2> HIDE DEF g
  <2>1. g = Iget(icache, i)
    BY DEF g
  <2> QED
    BY <2>1, IgetDoes
<1> HIDE DEF g
<1>2. CASE icache' = g
  BY <1>1, <1>2 DEF GetsSlot
<1>3. CASE \E u \in Slots : icache' = Unlock(g, u)
  <2>1. PICK u \in Slots : icache' = Unlock(g, u)
    BY <1>3
  <2>2. icache' = [g EXCEPT ![u].lock = NoProc]
    BY <2>1 DEF Unlock
  <2>3. icache' \in [Slots -> CacheRec]
    BY <1>1, <2>2 DEF CacheRec
  <2>4. \A t \in Slots :
          /\ icache'[t].ref = g[t].ref /\ icache'[t].inum = g[t].inum
          /\ icache'[t].valid = g[t].valid
          /\ icache'[t].type = g[t].type /\ icache'[t].nlink = g[t].nlink
    BY <1>1, <2>2 DEF CacheRec
  <2> QED
    BY <1>1, <2>3, <2>4 DEF GetsSlot
<1> QED
  BY <1>2, <1>3 DEF g

\* A call takes a reference and goes on.
LEMMA GetStep ==
  ASSUME IInv, NEW p \in Procs, NEW i \in Inums, CanGet(i), NEW s, s = SlotFor(i),
         \/ icache' = Iget(icache, i)
         \/ \E u \in Slots : icache' = Unlock(Iget(icache, i), u),
         NEW c \in CallRec, CallOK(c), Become(p, c),
         UNCHANGED <<dinode, cwd, fd, panic>>, calls' \in 0..CALLS,
         \A t \in Slots : Mine(cwd[p], fd[p], c, t) = MineOf(p, t) + One(t = s),
         \A t \in Slots : icache'[t].lock = p <=> HasLock(c, t),
         \A t \in Slots : \/ icache'[t].lock = icache[t].lock
                          \/ icache[t].lock = p /\ icache'[t].lock = NoProc,
         call[p].stage # "invalid", c.stage # "free",
         AtParent(c) => AtParent(call[p]) /\ c.ip = call[p].ip,
         Linking(c) => Linking(call[p]) /\ c.obj = call[p].obj,
         cwd[p] # None, MakingKept(p), VictimIs(p)'
  PROVE  IInv'
<1>1. Typed /\ FirmTyped(p) /\ CallOK(call[p]) /\ LockedValid /\ Counted /\ LocksExact
      /\ \A q \in Procs : CallOK(call[q])
  BY DEF IInv
<1>2. call' \in [Procs -> CallRec] /\ call'[p] = c /\ \A r \in Procs \ {p} : call'[r] = call[r]
  BY <1>1, Became
<1>3. s \in Slots /\ icache' \in [Slots -> CacheRec] /\ GetsSlot(i, s)
  BY <1>1, GotSlot
<1>4. Typed'
  BY <1>1, <1>2, <1>3 DEF Typed
<1>5. OnlyCaller(p)
  BY <1>2 DEF OnlyCaller
<1>6. \A t \in Slots : icache[t].ref \in Nat /\ icache'[t].ref \in Nat
  BY <1>1, <1>3 DEF Typed, CacheRec
<1>7. CountsMove(p)
  <2>1. ASSUME NEW t \in Slots
        PROVE  icache'[t].ref + MineOf(p, t) = icache[t].ref + MineOf(p, t)'
    <3>1. MineOf(p, t)' = MineOf(p, t) + One(t = s)
      BY <1>2 DEF MineOf
    <3>2. icache'[t].ref = icache[t].ref + One(t = s)
      BY <1>3, <1>6 DEF GetsSlot, One
    <3>3. MineOf(p, t) \in Nat /\ One(t = s) \in Nat
      BY <1>1, References DEF One
    <3> QED
      BY <1>6, <3>1, <3>2, <3>3
  <2> QED
    BY <2>1 DEF CountsMove
<1>8. LocksMove(p)
  BY <1>2 DEF LocksMove
<1>9. SlotsKept
  <2>1. ASSUME NEW t \in Slots, icache[t].ref > 0
        PROVE  icache'[t].inum = icache[t].inum
    BY <1>3, <2>1 DEF GetsSlot
  <2>2. ASSUME NEW t \in Slots, icache[t].ref = 0, icache'[t].ref > 0
        PROVE  /\ icache'[t].inum \in Inums /\ ~icache'[t].valid
               /\ \A r \in Slots \ {t} : icache'[r].ref > 0 => icache'[r].inum # icache'[t].inum
    <3>1. t = s
      BY <1>3, <2>2 DEF GetsSlot
    <3> QED
      BY <1>3, <2>2, <3>1 DEF GetsSlot
  <2> QED
    BY <2>1, <2>2 DEF SlotsKept
<1>10. CacheMoves(p)
  <2>1. ASSUME NEW t \in Slots, icache[t].ref > 0
        PROVE  Untouched(p, t)
    BY <1>3, <2>1 DEF Untouched, Invalidating, GetsSlot
  <2> QED
    BY <2>1 DEF CacheMoves
<1>11. LockedValid'
  <2>1. ASSUME NEW t \in Slots, icache'[t].lock # NoProc
        PROVE  icache'[t].valid
    <3>1. icache[t].lock # NoProc /\ icache[t].valid
      BY <1>1, <2>1 DEF LockedValid
    <3>2. icache[t].lock \in Procs
      BY <1>1, <3>1 DEF Typed, CacheRec
    <3>3. HoldsSlot(icache[t].lock, t)
      BY <1>1, <3>2, LockHolds DEF LocksExact
    <3>4. icache[t].ref > 0
      BY <1>1, <3>2, <3>3, Referenced
    <3> QED
      BY <1>3, <3>1, <3>4 DEF GetsSlot
  <2> QED
    BY <2>1 DEF LockedValid
<1>12. \A t \in Slots : FirmIn(c, t) => FirmIn(call[p], t)
  BY DEF FirmIn
<1>13. FirmMoves(p)
  BY <1>2, <1>12 DEF FirmMoves, Firm
<1>14. NotFreed(p)'
  BY <1>2 DEF NotFreed
<1>15. \A t \in Slots : Firm(p, t) => DiskType(t)' = DiskType(t)
  <2>1. \A t \in Slots : Firm(p, t) => icache[t].ref > 0
    BY <1>1, LockHolds, Referenced
  <2> QED
    BY <1>9, <2>1 DEF SlotsKept, DiskType
<1>16. FirmTyped(p)'
  <2>1. cwd[p] \in Slots \cup {None} /\ fd[p] \in Slots \cup {None}
        /\ c.ip \in Slots \cup {None}
    BY <1>1 DEF Typed, CallRec
  <2>2. AtParent(c) => c.ip \in Slots
    BY <2>1 DEF AtParent, CallOK, InParent, WithIp
  <2>3. Linking(c) => c.obj \in Slots
    BY DEF Linking, CallOK, Walking, WithObj
  <2>4. ASSUME AtParent(c), NEW t \in Slots, t = c.ip
        PROVE  DiskType(t)' = "dir"
    BY <1>1, <1>15, <2>4 DEF FirmTyped, Firm, FirmIn
  <2>5. ASSUME Linking(c), NEW t \in Slots, t = c.obj
        PROVE  DiskType(t)' \notin {"free", "dir"}
    BY <1>1, <1>15, <2>5 DEF FirmTyped, Firm, FirmIn
  <2>6. \A t \in {cwd'[p], fd'[p]} \ {None} : DiskType(t)' # "free"
    BY <1>1, <1>15, <2>1 DEF FirmTyped, Firm
  <2> QED
    BY <1>2, <2>2, <2>3, <2>4, <2>5, <2>6 DEF FirmTyped, DiskType
<1> QED
  BY <1>2, <1>4, <1>5, <1>7, <1>8, <1>9, <1>10, <1>11, <1>13, <1>14, <1>16, CacheStep
-----------------------------------------------------------------------------
(***************************************************************************)
(* namex()                                                                 *)
(***************************************************************************)
LEMMA WalkOn ==
  ASSUME NEW q \in Walks, q # <<>>
  PROVE  /\ Head(q) \in DirNames /\ Tail(q) \in Walks /\ Len(q) \in Nat
         /\ Len(q) # 1 => Tail(q) # <<>>
<1>1. q \in Seq(DirNames)
  BY DEF Walks
<1>2. Head(q) \in DirNames /\ Tail(q) \in Seq(DirNames) /\ Len(q) \in Nat
  BY <1>1
<1>3. Len(Tail(q)) = Len(q) - 1 /\ Len(q) > 0
  BY <1>1
<1>4. Tail(q) = <<>> => Len(q) = 1
  BY <1>2, <1>3
<1> QED
  BY <1>2, <1>4 DEF Walks

LEMMA EntryTyped ==
  ASSUME IInv, NEW s \in Slots, icache[s].inum \in Inums, NEW n \in DirNames
  PROVE  Entry(s, n) \in Inums \cup {None}
<1>1. dinode[icache[s].inum] \in DiskRec
  BY DEF IInv, Typed
<1> QED
  BY <1>1 DEF DiskRec, Entry

LEMMA NamexAt ==
  ASSUME IInv, ~panic, NEW p \in Procs, call[p].at = "namei", call[p].puts = <<>>,
         NEW s, s = call[p].ip
  PROVE  /\ s \in Slots /\ icache[s].lock = p /\ \A t \in Slots : HasLock(call[p], t) <=> t = s
         /\ icache[s].ref > 0 /\ icache[s].inum \in Inums /\ icache[s].type = DiskType(s)
         /\ call[p].path \in Walks /\ call[p].path # <<>>
         /\ call[p].op \in PathOps
         /\ call[p].obj = None \/ (call[p].obj \in Slots /\ call[p].op = "link")
         /\ call[p].op = "link" => call[p].new # <<>>
         /\ Linking(call[p]) <=> call[p].obj # None
         /\ ~AtParent(call[p]) /\ cwd[p] # None
         /\ \A t \in Slots : MineOf(p, t) = One(cwd[p] = t) + One(fd[p] = t)
                                            + One(s = t) + One(call[p].obj = t)
<1>1. call[p] \in CallRec /\ CallOK(call[p]) /\ call[p].stage = "lock" /\ FirmTyped(p)
  BY Quiet DEF IInv
<1>2. s \in Slots
  BY <1>1 DEF CallOK, WithIp
<1>3. \A t \in Slots : HasLock(call[p], t) <=> t = s
  BY <1>2, Quiet DEF IpLocked, ObjLocked
<1>4. icache[s].lock = p
  BY <1>2, <1>3, Quiet
<1>5. icache[s].ref > 0 /\ icache[s].inum \in Inums /\ icache[s].type = DiskType(s)
  BY <1>1, <1>2, <1>4, LockedIs
<1>6. /\ call[p].path \in Walks /\ call[p].path # <<>>
      /\ call[p].op \in PathOps
      /\ call[p].obj = None \/ (call[p].obj \in Slots /\ call[p].op = "link")
      /\ call[p].op = "link" => call[p].new # <<>>
  BY <1>1 DEF CallRec, CallOK, Walking
<1>7. Linking(call[p]) <=> call[p].obj # None
  BY DEF Linking, Walking
<1>8. ~AtParent(call[p]) /\ cwd[p] # None
  BY <1>1 DEF AtParent, InParent, FirmTyped
<1>9. "namei" \in WithIp /\ "namei" \in WithObj
  BY DEF WithIp, WithObj
<1>10. ASSUME NEW t \in Slots
       PROVE  MineOf(p, t) = One(cwd[p] = t) + One(fd[p] = t) + One(s = t) + One(call[p].obj = t)
  <2>1. MineOf(p, t) = One(cwd[p] = t) + One(fd[p] = t)
                       + One(call[p].at \in WithIp /\ call[p].ip = t)
                       + One(call[p].at \in WithObj /\ call[p].obj = t)
    BY Quiet
  <2> QED
    BY <1>9, <2>1 DEF One
<1> QED
  BY <1>2, <1>3, <1>4, <1>5, <1>6, <1>7, <1>8, <1>10

\* The walk ends here.
LEMMA NamexStops ==
  ASSUME IInv, NEW p \in Procs, ~panic, call[p].at = "namei", call[p].puts = <<>>,
         icache' = Unlock(icache, call[p].ip),
         Become(p, [call[p] EXCEPT !.at = "found", !.ip = None, !.puts = <<call[p].ip>>]),
         UNCHANGED <<dinode, cwd, fd, calls, panic>>
  PROVE  IInv'
<1>1. Typed /\ FirmTyped(p) /\ call[p] \in CallRec /\ call[p].stage = "lock"
  BY Quiet DEF IInv
<1>2. PICK s : s = call[p].ip
  OBVIOUS
<1>3. /\ s \in Slots /\ icache[s].lock = p /\ \A t \in Slots : HasLock(call[p], t) <=> t = s
      /\ call[p].path \in Walks /\ call[p].path # <<>>
      /\ call[p].op \in PathOps
      /\ call[p].obj = None \/ (call[p].obj \in Slots /\ call[p].op = "link")
      /\ call[p].op = "link" => call[p].new # <<>>
      /\ Linking(call[p]) <=> call[p].obj # None
      /\ ~AtParent(call[p]) /\ cwd[p] # None
      /\ \A t \in Slots : MineOf(p, t) = One(cwd[p] = t) + One(fd[p] = t)
                                         + One(s = t) + One(call[p].obj = t)
  BY <1>2, NamexAt
<1>4. PICK q \in PutLists : q = <<s>>
  BY <1>3, Lists
<1>5. First(q) = s /\ Second(q) = None
  BY <1>4, Lists
<1>6. PICK c : c = [call[p] EXCEPT !.at = "found", !.ip = None, !.puts = q]
  OBVIOUS
<1>7. Become(p, c)
  BY <1>2, <1>4, <1>6
<1>8. /\ c \in CallRec /\ c.at = "found" /\ c.ip = None /\ c.puts = q /\ c.stage = "lock"
      /\ c.obj = call[p].obj /\ c.op = call[p].op /\ c.new = call[p].new
  BY <1>1, <1>6 DEF CallRec, Ats, WithIp
<1>9. CallOK(c)
  BY <1>3, <1>8 DEF CallOK, WithIp, WithObj, Walking, Making, InParent, NoPuts
<1>10. ~AtParent(c) /\ (Linking(c) <=> Linking(call[p]))
  BY <1>3, <1>8 DEF AtParent, Linking, InParent, Walking
<1>11. /\ icache' \in [Slots -> CacheRec] /\ PlainSlots
       /\ \A t \in Slots :
            /\ icache'[t].ref = icache[t].ref /\ icache'[t].lock # p
            /\ icache'[t].lock = icache[t].lock
                 \/ (icache[t].lock = p /\ icache'[t].lock = NoProc)
  BY <1>2, <1>3, ReleaseLocks
<1>12. ASSUME NEW t \in Slots
       PROVE  icache'[t].ref + MineOf(p, t) = icache[t].ref + Mine(cwd[p], fd[p], c, t)
  <2>1. None # t
    BY Numbers
  <2>2. c.at \in WithIp /\ c.at \in WithObj
    BY <1>8 DEF WithIp, WithObj
  <2>3. Mine(cwd[p], fd[p], c, t) = One(cwd[p] = t) + One(fd[p] = t) + One(None = t)
                                    + One(call[p].obj = t) + One(s = t) + One(None = t)
    BY <1>5, <1>8, <2>2 DEF Mine
  <2>4. MineOf(p, t) = Mine(cwd[p], fd[p], c, t)
    BY <1>3, <2>1, <2>3 DEF One
  <2> QED
    BY <1>11, <2>4
<1>13. \A t \in Slots : ~HasLock(c, t)
  BY <1>8 DEF HasLock, IpLocked, ObjLocked
<1>14. \A t \in Slots : FirmIn(c, t) => FirmIn(call[p], t)
  BY <1>8, <1>10 DEF FirmIn
<1>15. VictimIs(p)' /\ c.at \notin Making /\ calls' \in 0..CALLS
  <2>1. call'[p] = c /\ calls \in 0..CALLS
    BY <1>1, <1>7, <1>8, Became DEF Typed
  <2> QED
    BY <1>8, <2>1 DEF VictimIs, Making
<1>16. Linking(c) => DiskType(c.obj) \notin {"free", "dir"}
  BY <1>1, <1>8, <1>10 DEF FirmTyped
<1> QED
  BY <1>1, <1>3, <1>7, <1>8, <1>9, <1>10, <1>11, <1>12, <1>13, <1>14, <1>15, <1>16, GoStep

\* or at the parent of what is named,
LEMMA NamexAtParent ==
  ASSUME IInv, NEW p \in Procs, ~panic, call[p].at = "namei", call[p].puts = <<>>,
         icache[call[p].ip].type = "dir", icache' = Unlock(icache, call[p].ip),
         Become(p, [call[p] EXCEPT !.at = "found", !.name = Head(call[p].path)]),
         UNCHANGED <<dinode, cwd, fd, calls, panic>>
  PROVE  IInv'
<1>1. Typed /\ FirmTyped(p) /\ call[p] \in CallRec /\ call[p].stage = "lock"
  BY Quiet DEF IInv
<1>2. PICK s : s = call[p].ip
  OBVIOUS
<1>3. /\ s \in Slots /\ icache[s].lock = p /\ \A t \in Slots : HasLock(call[p], t) <=> t = s
      /\ icache[s].type = DiskType(s)
      /\ call[p].path \in Walks /\ call[p].path # <<>>
      /\ call[p].op \in PathOps
      /\ call[p].obj = None \/ (call[p].obj \in Slots /\ call[p].op = "link")
      /\ call[p].op = "link" => call[p].new # <<>>
      /\ Linking(call[p]) <=> call[p].obj # None
      /\ ~AtParent(call[p]) /\ cwd[p] # None
      /\ \A t \in Slots : MineOf(p, t) = One(cwd[p] = t) + One(fd[p] = t)
                                         + One(s = t) + One(call[p].obj = t)
  BY <1>2, NamexAt
<1>4. PICK n \in DirNames : n = Head(call[p].path)
  BY <1>3, WalkOn
<1>5. PICK c : c = [call[p] EXCEPT !.at = "found", !.name = n]
  OBVIOUS
<1>6. Become(p, c)
  BY <1>4, <1>5
<1>7. /\ c \in CallRec /\ c.at = "found" /\ c.ip = s /\ c.puts = <<>> /\ c.stage = "lock"
      /\ c.obj = call[p].obj /\ c.op = call[p].op /\ c.new = call[p].new /\ c.name = n
  BY <1>1, <1>2, <1>5 DEF CallRec, Ats, WithIp
<1>8. CallOK(c)
  BY <1>3, <1>7 DEF CallOK, WithIp, WithObj, Walking, Making, InParent, NoPuts
<1>9. Linking(c) <=> Linking(call[p])
  BY <1>3, <1>7 DEF Linking, Walking
<1>10. /\ icache' \in [Slots -> CacheRec] /\ PlainSlots
       /\ \A t \in Slots :
            /\ icache'[t].ref = icache[t].ref /\ icache'[t].lock # p
            /\ icache'[t].lock = icache[t].lock
                 \/ (icache[t].lock = p /\ icache'[t].lock = NoProc)
  BY <1>2, <1>3, ReleaseLocks
<1>11. ASSUME NEW t \in Slots
       PROVE  icache'[t].ref + MineOf(p, t) = icache[t].ref + Mine(cwd[p], fd[p], c, t)
  <2>1. None # t /\ First(c.puts) = None /\ Second(c.puts) = None
    BY <1>7, Lists, Numbers
  <2>2. c.at \in WithIp /\ c.at \in WithObj
    BY <1>7 DEF WithIp, WithObj
  <2>3. Mine(cwd[p], fd[p], c, t) = One(cwd[p] = t) + One(fd[p] = t) + One(s = t)
                                    + One(call[p].obj = t) + One(None = t) + One(None = t)
    BY <1>7, <2>1, <2>2 DEF Mine
  <2>4. MineOf(p, t) = Mine(cwd[p], fd[p], c, t)
    BY <1>3, <2>1, <2>3 DEF One
  <2> QED
    BY <1>10, <2>4
<1>12. \A t \in Slots : ~HasLock(c, t)
  BY <1>7 DEF HasLock, IpLocked, ObjLocked
<1>13. \A t \in Slots : FirmIn(c, t) => FirmIn(call[p], t) \/ icache[t].lock = p
  BY <1>3, <1>7, <1>9 DEF FirmIn
<1>14. VictimIs(p)' /\ c.at \notin Making /\ calls' \in 0..CALLS
  <2>1. call'[p] = c /\ calls \in 0..CALLS
    BY <1>1, <1>6, <1>7, Became DEF Typed
  <2> QED
    BY <1>7, <2>1 DEF VictimIs, Making
<1>15. /\ AtParent(c) => DiskType(c.ip) = "dir"
       /\ Linking(c) => DiskType(c.obj) \notin {"free", "dir"}
  BY <1>1, <1>2, <1>3, <1>7, <1>9 DEF FirmTyped
<1> QED
  BY <1>1, <1>3, <1>6, <1>7, <1>8, <1>10, <1>11, <1>12, <1>13, <1>14, <1>15, GoStep

\* or goes on in what the element leads to.
LEMMA NamexGets ==
  ASSUME IInv, NEW p \in Procs, ~panic, call[p].at = "namei", call[p].puts = <<>>,
         ~(WantsParent(call[p]) /\ Len(call[p].path) = 1),
         NEW i \in Inums, CanGet(i), NEW s, s = call[p].ip, NEW u, u = SlotFor(i),
         icache' = Unlock(Iget(icache, i), s),
         Become(p, [call[p] EXCEPT !.ip = u, !.path = Tail(@), !.puts = <<s>>,
                      !.at = IF Len(call[p].path) = 1 THEN "found" ELSE "namex"]),
         UNCHANGED <<dinode, cwd, fd, calls, panic>>
  PROVE  IInv'
<1>1. Typed /\ FirmTyped(p) /\ call[p] \in CallRec /\ call[p].stage = "lock" /\ LocksExact
  BY Quiet DEF IInv
<1>2. /\ s \in Slots /\ icache[s].lock = p /\ \A t \in Slots : HasLock(call[p], t) <=> t = s
      /\ call[p].path \in Walks /\ call[p].path # <<>>
      /\ call[p].op \in PathOps
      /\ call[p].obj = None \/ (call[p].obj \in Slots /\ call[p].op = "link")
      /\ call[p].op = "link" => call[p].new # <<>>
      /\ Linking(call[p]) <=> call[p].obj # None
      /\ ~AtParent(call[p]) /\ cwd[p] # None
      /\ \A t \in Slots : MineOf(p, t) = One(cwd[p] = t) + One(fd[p] = t)
                                         + One(s = t) + One(call[p].obj = t)
  BY NamexAt
<1>3. u \in Slots
  BY <1>1, <1>2, GotSlot
<1>4. PICK q \in PutLists : q = <<s>>
  BY <1>2, Lists
<1>5. First(q) = s /\ Second(q) = None
  BY <1>4, Lists
<1>6. PICK w \in Walks : w = Tail(call[p].path)
  BY <1>2, WalkOn
<1>7. PICK at \in {"found", "namex"} : at = IF Len(call[p].path) = 1 THEN "found" ELSE "namex"
  OBVIOUS
<1>8. PICK c : c = [call[p] EXCEPT !.ip = u, !.path = w, !.puts = q, !.at = at]
  OBVIOUS
<1>9. Become(p, c)
  BY <1>4, <1>6, <1>7, <1>8
<1>10. /\ c \in CallRec /\ c.at = at /\ c.ip = u /\ c.puts = q /\ c.stage = "lock" /\ c.path = w
       /\ c.obj = call[p].obj /\ c.op = call[p].op /\ c.new = call[p].new
  <2>1. at \in Ats
    BY DEF Ats, WithIp
  <2> QED
    BY <1>1, <1>3, <1>8, <2>1 DEF CallRec
<1>11. (at = "namex" => w # <<>>) /\ (at = "found" => ~WantsParent(call[p]))
  BY <1>2, <1>6, <1>7, WalkOn
<1>12. WantsParent(c) <=> WantsParent(call[p])
  BY <1>10 DEF WantsParent
<1>13. CallOK(c)
  BY <1>2, <1>3, <1>10, <1>11, <1>12
     DEF CallOK, WithIp, WithObj, Walking, Making, InParent, NoPuts
<1>14. ~AtParent(c) /\ (Linking(c) <=> Linking(call[p]))
  BY <1>2, <1>10, <1>11, <1>12 DEF AtParent, Linking, InParent, Walking
<1>15. ASSUME NEW t \in Slots
       PROVE  Mine(cwd[p], fd[p], c, t) = MineOf(p, t) + One(t = u)
  <2>1. None # t
    BY Numbers
  <2>2. c.at \in WithIp /\ c.at \in WithObj
    BY <1>10 DEF WithIp, WithObj
  <2>3. Mine(cwd[p], fd[p], c, t) = One(cwd[p] = t) + One(fd[p] = t) + One(u = t)
                                    + One(call[p].obj = t) + One(s = t) + One(None = t)
    BY <1>5, <1>10, <2>2 DEF Mine
  <2>4. MineOf(p, t) = One(cwd[p] = t) + One(fd[p] = t) + One(s = t) + One(call[p].obj = t)
    BY <1>2
  <2> QED
    BY <2>1, <2>3, <2>4 DEF One
<1>16. \A t \in Slots : ~HasLock(c, t)
  BY <1>10 DEF HasLock, IpLocked, ObjLocked
<1>17. \A t \in Slots : icache'[t].lock = IF t = s THEN NoProc ELSE icache[t].lock
  <2> DEFINE g == Iget(icache, i)
  <2>1. g \in [Slots -> CacheRec] /\ \A t \in Slots : g[t].lock = icache[t].lock
    <3> HIDE DEF g
    <3>1. g = Iget(icache, i)
      BY DEF g
    <3> QED
      BY <1>1, <3>1, IgetDoes
  <2>2. icache' = [g EXCEPT ![s].lock = NoProc]
    BY DEF Unlock
  <2> HIDE DEF g
  <2> QED
    BY <1>2, <2>1, <2>2 DEF CacheRec
<1>18. \A t \in Slots : icache[t].lock = p <=> t = s
  BY <1>1, <1>2 DEF LocksExact
<1>19. VictimIs(p)' /\ MakingKept(p) /\ calls' \in 0..CALLS
  <2>1. call'[p] = c /\ calls \in 0..CALLS
    BY <1>1, <1>9, <1>10, Became DEF Typed
  <2> QED
    BY <1>10, <2>1 DEF VictimIs, MakingKept, Making
<1>20. \A t \in Slots : icache'[t].lock = p <=> HasLock(c, t)
  BY <1>16, <1>17, <1>18, Numbers
<1>21. \A t \in Slots : \/ icache'[t].lock = icache[t].lock
                        \/ icache[t].lock = p /\ icache'[t].lock = NoProc
  BY <1>17, <1>18
<1> QED
  BY <1>1, <1>2, <1>9, <1>10, <1>13, <1>14, <1>15, <1>19, <1>20, <1>21, GetStep

LEMMA NamexStepStep ==
  ASSUME IInv, NEW p \in Procs, NamexStep(p)
  PROVE  IInv'
<1> DEFINE c == call[p]
           s == c.ip
           n == Head(c.path)
           i == Entry(s, n)
<1>1. ~panic /\ c.at = "namei" /\ c.puts = <<>> /\ UNCHANGED <<dinode, cwd, fd, calls>>
  BY DEF NamexStep, Doing
<1>2. CASE /\ icache' = Unlock(icache, s) /\ UNCHANGED panic
           /\ Become(p, [c EXCEPT !.at = "found", !.ip = None, !.puts = <<s>>])
  BY <1>1, <1>2, NamexStops
<1>3. CASE /\ icache[s].type = "dir" /\ icache' = Unlock(icache, s) /\ UNCHANGED panic
           /\ Become(p, [c EXCEPT !.at = "found", !.name = n])
  BY <1>1, <1>3, NamexAtParent
<1>4. CASE /\ icache[s].type = "dir" /\ ~(WantsParent(c) /\ Len(c.path) = 1)
           /\ i # None
           /\ IF ~CanGet(i) THEN panic' = TRUE /\ UNCHANGED <<icache, call>>
              ELSE /\ icache' = Release(Iget(icache, i), s)
                   /\ Become(p, [c EXCEPT !.ip = SlotFor(i), !.path = Tail(@),
                        !.puts = PutIp(s),
                        !.at = IF Len(c.path) = 1 THEN "found" ELSE "namex"])
                   /\ UNCHANGED panic
  <2>1. CASE ~CanGet(i)
    <3>1. dinode' \in [Inums -> DiskRec]
      BY <1>1 DEF IInv, Typed
    <3> QED
      BY <1>1, <1>4, <2>1, <3>1, PanicStep
  <2>2. CASE CanGet(i)
    <3>1. s \in Slots /\ icache[s].inum \in Inums /\ n \in DirNames
      <4>1. s \in Slots /\ icache[s].inum \in Inums /\ c.path \in Walks /\ c.path # <<>>
        BY <1>1, NamexAt
      <4> QED
        BY <4>1, WalkOn
    <3>2. i \in Inums
      BY <1>4, <3>1, EntryTyped
    <3>3. PICK j \in Inums : j = i
      BY <3>2
    <3>4. PICK r, u : r = s /\ u = SlotFor(j)
      OBVIOUS
    <3>5. icache' = Unlock(Iget(icache, j), r) /\ UNCHANGED panic
      BY <1>4, <2>2, <3>3, <3>4 DEF Release
    <3>6. Become(p, [call[p] EXCEPT !.ip = u, !.path = Tail(@), !.puts = <<r>>,
                      !.at = IF Len(call[p].path) = 1 THEN "found" ELSE "namex"])
      BY <1>4, <2>2, <3>3, <3>4 DEF PutIp
    <3> QED
      BY <1>1, <1>4, <2>2, <3>3, <3>4, <3>5, <3>6, NamexGets
  <2> QED
    BY <2>1, <2>2
<1> QED
  BY <1>2, <1>3, <1>4 DEF NamexStep

LEMMA IgetLocks ==
  ASSUME Typed, NEW i \in Inums, CanGet(i)
  PROVE  /\ icache' = Iget(icache, i) => \A t \in Slots : icache'[t].lock = icache[t].lock
         /\ \A s \in Slots : icache' = Unlock(Iget(icache, i), s) =>
              \A t \in Slots : icache'[t].lock = IF t = s THEN NoProc ELSE icache[t].lock
<1> DEFINE g == Iget(icache, i)
<1>1. g \in [Slots -> CacheRec] /\ \A t \in Slots : g[t].lock = icache[t].lock
  <2> HIDE DEF g
  <2>1. g = Iget(icache, i)
    BY DEF g
  <2> QED
    BY <2>1, IgetDoes
<1>2. ASSUME NEW s \in Slots, icache' = Unlock(g, s), NEW t \in Slots
      PROVE  icache'[t].lock = IF t = s THEN NoProc ELSE icache[t].lock
  <2>1. icache' = [g EXCEPT ![s].lock = NoProc]
    BY <1>2 DEF Unlock
  <2> HIDE DEF g
  <2> QED
    BY <1>1, <2>1 DEF CacheRec
<1> HIDE DEF g
<1> QED
  BY <1>1, <1>2 DEF g
-----------------------------------------------------------------------------
(***************************************************************************)
(* The calls under the lock of the parent that take an inode.              *)
(***************************************************************************)
\* A call in a directory, which it has locked.
LEMMA ParentAt ==
  ASSUME IInv, ~panic, NEW p \in Procs, call[p].at \in InParent \cup {"taken"},
         call[p].puts = <<>>, NEW s, s = call[p].ip
  PROVE  /\ s \in Slots /\ icache[s].lock = p /\ HasLock(call[p], s)
         /\ icache[s].ref > 0 /\ icache[s].inum \in Inums /\ icache[s].type = DiskType(s)
         /\ icache[s].nlink = dinode[icache[s].inum].nlink
         /\ call[p].at \in InParent => /\ AtParent(call[p]) /\ DiskType(s) = "dir"
                                       /\ call[p].name \in DirNames
         /\ cwd[p] # None
<1>1. CallOK(call[p]) /\ call[p].stage = "lock" /\ FirmTyped(p)
  BY Quiet DEF IInv
<1>2. s \in Slots
  BY <1>1 DEF CallOK, WithIp, InParent
<1>3. HasLock(call[p], s)
  BY <1>2, Quiet DEF IpLocked, ObjLocked, InParent
<1>4. icache[s].lock = p
  BY <1>2, <1>3, Quiet
<1>5. icache[s].ref > 0 /\ icache[s].inum \in Inums /\ icache[s].type = DiskType(s)
      /\ icache[s].nlink = dinode[icache[s].inum].nlink
  BY <1>1, <1>2, <1>4, LockedIs
<1>6. ASSUME call[p].at \in InParent
      PROVE  AtParent(call[p]) /\ DiskType(s) = "dir" /\ call[p].name \in DirNames
  BY <1>1, <1>6 DEF AtParent, FirmTyped, CallOK
<1>7. cwd[p] # None
  BY <1>1 DEF FirmTyped, InParent
<1> QED
  BY <1>2, <1>3, <1>4, <1>5, <1>6, <1>7

LEMMA CreateOldStep ==
  ASSUME IInv, NEW p \in Procs, CreateOld(p)
  PROVE  IInv'
<1>1. /\ ~panic /\ call[p].at = "create" /\ call[p].puts = <<>>
      /\ UNCHANGED <<dinode, cwd, fd, calls>>
  BY DEF CreateOld, Doing
<1>2. Typed /\ FirmTyped(p) /\ call[p] \in CallRec /\ CallOK(call[p])
      /\ call[p].stage = "lock" /\ LocksExact
  BY <1>1, Quiet DEF IInv
<1>3. PICK s : s = call[p].ip
  OBVIOUS
<1>4. s \in Slots /\ icache[s].lock = p /\ icache[s].inum \in Inums
      /\ call[p].name \in DirNames /\ cwd[p] # None
  BY <1>1, <1>3, ParentAt DEF InParent
<1>5. Entry(s, call[p].name) \in Inums
  BY <1>3, <1>4, EntryTyped DEF CreateOld
<1>6. PICK i \in Inums : i = Entry(s, call[p].name)
  BY <1>5
<1>7. CASE ~CanGet(i)
  <2>1. panic' = TRUE /\ UNCHANGED <<icache, call>>
    BY <1>3, <1>6, <1>7 DEF CreateOld
  <2>2. dinode' \in [Inums -> DiskRec]
    BY <1>1, <1>2 DEF Typed
  <2> QED
    BY <1>1, <2>1, <2>2, PanicStep
<1>8. CASE CanGet(i)
  <2>1. PICK u : u = SlotFor(i)
    OBVIOUS
  <2>2. /\ icache' = Unlock(Iget(icache, i), s)
        /\ Become(p, [call[p] EXCEPT !.at = "old", !.obj = u, !.puts = <<s>>])
        /\ UNCHANGED panic
    BY <1>3, <1>6, <1>8, <2>1 DEF CreateOld
  <2>3. u \in Slots
    BY <1>2, <1>4, <1>8, <2>1, <2>2, GotSlot
  <2>4. PICK q \in PutLists : q = <<s>>
    BY <1>4, Lists
  <2>5. First(q) = s /\ Second(q) = None
    BY <2>4, Lists
  <2>6. PICK c : c = [call[p] EXCEPT !.at = "old", !.obj = u, !.puts = q]
    OBVIOUS
  <2>7. Become(p, c)
    BY <2>2, <2>4, <2>6
  <2>8. /\ c \in CallRec /\ c.at = "old" /\ c.ip = s /\ c.obj = u /\ c.puts = q
        /\ c.stage = "lock" /\ c.op = call[p].op
    BY <1>2, <1>3, <2>3, <2>6 DEF CallRec, Ats, WithObj
  <2>9. CallOK(c)
    <3>1. call[p].op \in MakeOps
      BY <1>1, <1>2 DEF CallOK
    <3> QED
      BY <2>3, <2>8, <3>1 DEF CallOK, WithIp, WithObj, Walking, Making, InParent, NoPuts
  <2>10. ~AtParent(c) /\ ~Linking(c)
    BY <2>8 DEF AtParent, Linking, InParent, Walking
  <2>11. ASSUME NEW t \in Slots
         PROVE  Mine(cwd[p], fd[p], c, t) = MineOf(p, t) + One(t = u)
    <3>1. None # t
      BY Numbers
    <3>2. c.at \notin WithIp /\ c.at \in WithObj
          /\ call[p].at \in WithIp /\ call[p].at \notin WithObj
      BY <1>1, <2>8 DEF WithIp, WithObj
    <3>3. Mine(cwd[p], fd[p], c, t) = One(cwd[p] = t) + One(fd[p] = t) + One(FALSE)
                                      + One(u = t) + One(s = t) + One(None = t)
      BY <2>5, <2>8, <3>2 DEF Mine, One
    <3>4. MineOf(p, t) = One(cwd[p] = t) + One(fd[p] = t)
                         + One(call[p].at \in WithIp /\ call[p].ip = t)
                         + One(call[p].at \in WithObj /\ call[p].obj = t)
      BY <1>1, Quiet
    <3> QED
      BY <1>3, <3>1, <3>2, <3>3, <3>4 DEF One
  <2>12. \A t \in Slots : ~HasLock(c, t)
    BY <2>8 DEF HasLock, IpLocked, ObjLocked
  <2>13. \A t \in Slots : icache'[t].lock = IF t = s THEN NoProc ELSE icache[t].lock
    BY <1>2, <1>4, <1>8, <2>2, IgetLocks
  <2>14. \A t \in Slots : icache[t].lock = p <=> t = s
    <3>1. \A t \in Slots : HasLock(call[p], t) <=> t = s
      BY <1>1, <1>3, Quiet DEF IpLocked, ObjLocked
    <3> QED
      BY <1>2, <3>1 DEF LocksExact
  <2>15. VictimIs(p)' /\ MakingKept(p) /\ calls' \in 0..CALLS
    <3>1. call'[p] = c /\ calls \in 0..CALLS
      BY <1>2, <2>7, <2>8, Became DEF Typed
    <3> QED
      BY <1>1, <2>8, <3>1 DEF VictimIs, MakingKept, Making
  <2>16. \A t \in Slots : icache'[t].lock = p <=> HasLock(c, t)
    BY <2>12, <2>13, <2>14, Numbers
  <2>17. \A t \in Slots : \/ icache'[t].lock = icache[t].lock
                          \/ icache[t].lock = p /\ icache'[t].lock = NoProc
    BY <2>13, <2>14
  <2> QED
    BY <1>1, <1>2, <1>4, <1>8, <2>1, <2>2, <2>7, <2>8, <2>9, <2>10, <2>11, <2>15, <2>16,
       <2>17, GetStep
<1> QED
  BY <1>7, <1>8

LEMMA IallocGetStep ==
  ASSUME IInv, NEW p \in Procs, IallocGet(p)
  PROVE  IInv'
<1>1. /\ ~panic /\ call[p].at = "made" /\ call[p].puts = <<>>
      /\ UNCHANGED <<dinode, cwd, fd, calls>>
  BY DEF IallocGet, Doing
<1>2. Typed /\ FirmTyped(p) /\ call[p] \in CallRec /\ CallOK(call[p])
      /\ call[p].stage = "lock" /\ LocksExact
  BY <1>1, Quiet DEF IInv
<1>3. PICK s : s = call[p].ip
  OBVIOUS
<1>4. s \in Slots /\ icache[s].lock = p /\ icache[s].inum \in Inums /\ icache[s].ref > 0
      /\ call[p].name \in DirNames /\ cwd[p] # None /\ AtParent(call[p])
  BY <1>1, <1>3, ParentAt DEF InParent
<1>5. PICK i \in Inums : i = call[p].obj
  BY <1>1, <1>2 DEF CallOK
<1>6. CASE ~CanGet(i)
  <2>1. panic' = TRUE /\ UNCHANGED <<icache, call>>
    BY <1>5, <1>6 DEF IallocGet
  <2>2. dinode' \in [Inums -> DiskRec]
    BY <1>1, <1>2 DEF Typed
  <2> QED
    BY <1>1, <2>1, <2>2, PanicStep
<1>7. CASE CanGet(i)
  <2>1. PICK u : u = SlotFor(i)
    OBVIOUS
  <2>2. /\ icache' = Iget(icache, i) /\ UNCHANGED panic
        /\ Become(p, [call[p] EXCEPT !.at = "new", !.obj = u])
    BY <1>5, <1>7, <2>1 DEF IallocGet
  <2>3. u \in Slots /\ GetsSlot(i, u)
    BY <1>2, <1>7, <2>1, <2>2, GotSlot
  <2>4. PICK c : c = [call[p] EXCEPT !.at = "new", !.obj = u]
    OBVIOUS
  <2>5. Become(p, c)
    BY <2>2, <2>4
  <2>6. /\ c \in CallRec /\ c.at = "new" /\ c.ip = s /\ c.obj = u /\ c.puts = <<>>
        /\ c.stage = "lock" /\ c.op = call[p].op /\ c.name = call[p].name
    BY <1>1, <1>2, <1>3, <2>3, <2>4 DEF CallRec, Ats, WithObj
  <2>7. CallOK(c)
    <3>1. call[p].op \in MakeOps
      BY <1>1, <1>2 DEF CallOK, Making
    <3> QED
      BY <1>4, <2>3, <2>6, <3>1 DEF CallOK, WithIp, WithObj, Walking, Making, InParent, NoPuts
  <2>8. AtParent(c) /\ ~Linking(c)
    BY <2>6 DEF AtParent, Linking, InParent, Walking
  <2>9. ASSUME NEW t \in Slots
        PROVE  Mine(cwd[p], fd[p], c, t) = MineOf(p, t) + One(t = u)
    <3>1. None # t /\ First(c.puts) = None /\ Second(c.puts) = None
      BY <2>6, Numbers, Lists
    <3>2. c.at \in WithIp /\ c.at \in WithObj
          /\ call[p].at \in WithIp /\ call[p].at \notin WithObj
      BY <1>1, <2>6 DEF WithIp, WithObj
    <3>3. Mine(cwd[p], fd[p], c, t) = One(cwd[p] = t) + One(fd[p] = t) + One(s = t)
                                      + One(u = t) + One(None = t) + One(None = t)
      BY <2>6, <3>1, <3>2 DEF Mine
    <3>4. MineOf(p, t) = One(cwd[p] = t) + One(fd[p] = t)
                         + One(call[p].at \in WithIp /\ call[p].ip = t)
                         + One(call[p].at \in WithObj /\ call[p].obj = t)
      BY <1>1, Quiet
    <3> QED
      BY <1>3, <3>1, <3>2, <3>3, <3>4 DEF One
  <2>10. \A t \in Slots : HasLock(c, t) <=> HasLock(call[p], t)
    BY <1>1, <1>2, <1>3, <2>6 DEF HasLock, IpLocked, ObjLocked
  <2>11. \A t \in Slots : icache'[t].lock = icache[t].lock
    BY <1>2, <1>7, <2>2, IgetLocks
  <2>12. \A t \in Slots : icache'[t].lock = p <=> HasLock(c, t)
    BY <1>2, <2>10, <2>11 DEF LocksExact
  <2>13. call'[p] = c /\ calls' \in 0..CALLS
    BY <1>1, <1>2, <2>5, <2>6, Became DEF Typed
  <2>14. VictimIs(p)'
    BY <2>6, <2>13 DEF VictimIs
  <2>15. MakingKept(p)
    <3>1. icache'[s].inum = icache[s].inum
      BY <1>4, <2>3 DEF GetsSlot
    <3>2. icache'[u].inum = i
      BY <2>3 DEF GetsSlot
    <3>3. Fresh(p) = i /\ Fresh(p)' = i
      BY <1>1, <1>5, <2>6, <2>13, <3>2 DEF Fresh
    <3> QED
      BY <1>1, <1>3, <2>6, <2>13, <3>1, <3>3 DEF MakingKept, Making
  <2> QED
    BY <1>1, <1>2, <1>3, <1>4, <1>7, <2>1, <2>2, <2>5, <2>6, <2>7, <2>8, <2>9, <2>11,
       <2>12, <2>13, <2>14, <2>15, GetStep
<1> QED
  BY <1>6, <1>7

LEMMA UnlinkStep ==
  ASSUME IInv, NEW p \in Procs, Unlink(p)
  PROVE  IInv'
<1>1. /\ ~panic /\ call[p].at = "unlink" /\ call[p].puts = <<>>
      /\ call[p].name \notin {".", ".."}
      /\ UNCHANGED <<dinode, cwd, fd, calls>>
  BY DEF Unlink, Doing
<1>2. Typed /\ FirmTyped(p) /\ call[p] \in CallRec /\ CallOK(call[p])
      /\ call[p].stage = "lock" /\ LocksExact
  BY <1>1, Quiet DEF IInv
<1>3. PICK s : s = call[p].ip
  OBVIOUS
<1>4. s \in Slots /\ icache[s].lock = p /\ icache[s].inum \in Inums /\ icache[s].ref > 0
      /\ call[p].name \in DirNames /\ cwd[p] # None /\ AtParent(call[p])
  BY <1>1, <1>3, ParentAt DEF InParent
<1>5. Entry(s, call[p].name) \in Inums
  BY <1>3, <1>4, EntryTyped DEF Unlink
<1>6. PICK i \in Inums : i = Entry(s, call[p].name)
  BY <1>5
<1>7. CASE ~CanGet(i)
  <2>1. panic' = TRUE /\ UNCHANGED <<icache, call>>
    BY <1>3, <1>6, <1>7 DEF Unlink
  <2>2. dinode' \in [Inums -> DiskRec]
    BY <1>1, <1>2 DEF Typed
  <2> QED
    BY <1>1, <2>1, <2>2, PanicStep
<1>8. CASE CanGet(i)
  <2>1. PICK u : u = SlotFor(i)
    OBVIOUS
  <2>2. /\ icache' = Iget(icache, i) /\ UNCHANGED panic
        /\ Become(p, [call[p] EXCEPT !.at = "victim", !.obj = u])
    BY <1>3, <1>6, <1>8, <2>1 DEF Unlink
  <2>3. u \in Slots /\ GetsSlot(i, u)
    BY <1>2, <1>8, <2>1, <2>2, GotSlot
  <2>4. PICK c : c = [call[p] EXCEPT !.at = "victim", !.obj = u]
    OBVIOUS
  <2>5. Become(p, c)
    BY <2>2, <2>4
  <2>6. /\ c \in CallRec /\ c.at = "victim" /\ c.ip = s /\ c.obj = u /\ c.puts = <<>>
        /\ c.stage = "lock" /\ c.op = call[p].op /\ c.name = call[p].name
    BY <1>1, <1>2, <1>3, <2>3, <2>4 DEF CallRec, Ats, WithObj
  <2>7. CallOK(c)
    BY <1>4, <2>3, <2>6 DEF CallOK, WithIp, WithObj, Walking, Making, InParent, NoPuts
  <2>8. AtParent(c) /\ ~Linking(c)
    BY <2>6 DEF AtParent, Linking, InParent, Walking
  <2>9. ASSUME NEW t \in Slots
        PROVE  Mine(cwd[p], fd[p], c, t) = MineOf(p, t) + One(t = u)
    <3>1. None # t /\ First(c.puts) = None /\ Second(c.puts) = None
      BY <2>6, Numbers, Lists
    <3>2. c.at \in WithIp /\ c.at \in WithObj
          /\ call[p].at \in WithIp /\ call[p].at \notin WithObj
      BY <1>1, <2>6 DEF WithIp, WithObj
    <3>3. Mine(cwd[p], fd[p], c, t) = One(cwd[p] = t) + One(fd[p] = t) + One(s = t)
                                      + One(u = t) + One(None = t) + One(None = t)
      BY <2>6, <3>1, <3>2 DEF Mine
    <3>4. MineOf(p, t) = One(cwd[p] = t) + One(fd[p] = t)
                         + One(call[p].at \in WithIp /\ call[p].ip = t)
                         + One(call[p].at \in WithObj /\ call[p].obj = t)
      BY <1>1, Quiet
    <3> QED
      BY <1>3, <3>1, <3>2, <3>3, <3>4 DEF One
  <2>10. \A t \in Slots : HasLock(c, t) <=> HasLock(call[p], t)
    BY <1>1, <1>2, <1>3, <2>6 DEF HasLock, IpLocked, ObjLocked
  <2>11. \A t \in Slots : icache'[t].lock = icache[t].lock
    BY <1>2, <1>8, <2>2, IgetLocks
  <2>12. \A t \in Slots : icache'[t].lock = p <=> HasLock(c, t)
    BY <1>2, <2>10, <2>11 DEF LocksExact
  <2>13. call'[p] = c /\ calls' \in 0..CALLS
    BY <1>1, <1>2, <2>5, <2>6, Became DEF Typed
  <2>14. VictimIs(p)'
    <3>1. icache'[s].inum = icache[s].inum /\ icache'[u].inum = i
      BY <1>4, <2>3 DEF GetsSlot
    <3>2. dinode'[icache'[s].inum].ents[call[p].name] = i
      BY <1>1, <1>6, <3>1 DEF Entry
    <3>3. call[p].name \in Names
      BY <1>1, <1>4 DEF DirNames
    <3> QED
      BY <2>6, <2>13, <3>1, <3>2, <3>3 DEF VictimIs, Entry
  <2>15. MakingKept(p)
    BY <2>6, <2>13 DEF MakingKept, Making
  <2> QED
    BY <1>1, <1>2, <1>3, <1>4, <1>8, <2>1, <2>2, <2>5, <2>6, <2>7, <2>8, <2>9, <2>11,
       <2>12, <2>13, <2>14, <2>15, GetStep
<1> QED
  BY <1>7, <1>8

\* dirlink() of a name that is there.
LEMMA DirlinkGets ==
  ASSUME IInv, NEW p \in Procs, Doing(p, "dirlink"), NEW i \in Inums, CanGet(i),
         NEW u, u = SlotFor(i), icache' = Iget(icache, i), Goon(p, "taken", <<u>>),
         UNCHANGED <<dinode, cwd, fd, calls, panic>>
  PROVE  IInv'
<1>1. ~panic /\ call[p].at = "dirlink" /\ call[p].puts = <<>>
  BY DEF Doing
<1>2. Typed /\ FirmTyped(p) /\ call[p] \in CallRec /\ CallOK(call[p])
      /\ call[p].stage = "lock" /\ LocksExact
  BY <1>1, Quiet DEF IInv
<1>3. PICK s : s = call[p].ip
  OBVIOUS
<1>4. s \in Slots /\ cwd[p] # None
  BY <1>1, <1>3, ParentAt DEF InParent
<1>5. u \in Slots /\ GetsSlot(i, u)
  BY <1>2, GotSlot
<1>6. PICK q \in PutLists : q = <<u>>
  BY <1>5, Lists
<1>7. First(q) = u /\ Second(q) = None
  BY <1>6, Lists
<1>8. PICK c : c = [call[p] EXCEPT !.at = "taken", !.puts = q]
  OBVIOUS
<1>9. Become(p, c)
  BY <1>6, <1>8 DEF Goon
<1>10. /\ c \in CallRec /\ c.at = "taken" /\ c.ip = s /\ c.obj = call[p].obj /\ c.puts = q
       /\ c.stage = "lock" /\ c.op = call[p].op
  BY <1>2, <1>3, <1>8 DEF CallRec, Ats, WithObj
<1>11. CallOK(c)
  <2>1. call[p].obj \in Slots
    BY <1>1, <1>2 DEF CallOK, WithObj, Walking
  <2> QED
    BY <1>4, <1>10, <2>1 DEF CallOK, WithIp, WithObj, Walking, Making, InParent, NoPuts
<1>12. ~AtParent(c) /\ Linking(call[p])
  BY <1>1, <1>10 DEF AtParent, Linking, InParent, Walking
<1>13. ASSUME NEW t \in Slots
       PROVE  Mine(cwd[p], fd[p], c, t) = MineOf(p, t) + One(t = u)
  <2>1. None # t
    BY Numbers
  <2>2. c.at \in WithIp /\ c.at \in WithObj
        /\ call[p].at \in WithIp /\ call[p].at \in WithObj
    BY <1>1, <1>10 DEF WithIp, WithObj
  <2>3. Mine(cwd[p], fd[p], c, t) = One(cwd[p] = t) + One(fd[p] = t) + One(s = t)
                                    + One(call[p].obj = t) + One(u = t) + One(None = t)
    BY <1>7, <1>10, <2>2 DEF Mine
  <2>4. MineOf(p, t) = One(cwd[p] = t) + One(fd[p] = t)
                       + One(call[p].at \in WithIp /\ call[p].ip = t)
                       + One(call[p].at \in WithObj /\ call[p].obj = t)
    BY <1>1, Quiet
  <2> QED
    BY <1>3, <2>1, <2>2, <2>3, <2>4 DEF One
<1>14. \A t \in Slots : HasLock(c, t) <=> HasLock(call[p], t)
  BY <1>1, <1>2, <1>3, <1>10 DEF HasLock, IpLocked, ObjLocked
<1>15. \A t \in Slots : icache'[t].lock = icache[t].lock
  BY <1>2, IgetLocks
<1>16. \A t \in Slots : icache'[t].lock = p <=> HasLock(c, t)
  BY <1>2, <1>14, <1>15 DEF LocksExact
<1>17. call'[p] = c /\ calls' \in 0..CALLS
  BY <1>2, <1>9, <1>10, Became DEF Typed
<1>18. VictimIs(p)' /\ MakingKept(p)
  BY <1>10, <1>17 DEF VictimIs, MakingKept, Making
<1> QED
  BY <1>2, <1>4, <1>9, <1>10, <1>11, <1>12, <1>13, <1>15, <1>16, <1>17, <1>18, GetStep
-----------------------------------------------------------------------------
(***************************************************************************)
(* A count of links changes under the lock.                                *)
(***************************************************************************)
LEMMA LinksSet ==
  ASSUME IInv, ~panic, NEW p \in Procs, NEW s \in Slots, icache[s].lock = p,
         call[p].stage = "lock", NEW n \in Int, dinode' = Iupdate(dinode, s, n),
         \A t \in Slots : icache[t].ref > 0 =>
           /\ icache'[t].valid = icache[t].valid /\ icache'[t].type = icache[t].type
           /\ icache'[t].nlink = IF t = s THEN n ELSE icache[t].nlink
  PROVE  /\ dinode' \in [Inums -> DiskRec] /\ CacheMoves(p)
         /\ \A i \in Inums : dinode'[i].type = dinode[i].type /\ dinode'[i].ents = dinode[i].ents
<1>1. dinode \in [Inums -> DiskRec] /\ OneEntry /\ Numbered
  BY DEF IInv, Typed
<1>2. /\ icache[s].ref > 0 /\ icache[s].inum \in Inums /\ icache[s].valid
      /\ icache[s].type = DiskType(s) /\ icache[s].type # "free"
  BY LockedIs
<1>3. PICK j \in Inums : j = icache[s].inum
  BY <1>2
<1>4. dinode' = [dinode EXCEPT ![j].nlink = n]
  BY <1>3 DEF Iupdate
<1>5. dinode' \in [Inums -> DiskRec]
  BY <1>1, <1>4 DEF DiskRec
<1>6. \A i \in Inums : /\ dinode'[i].type = dinode[i].type /\ dinode'[i].ents = dinode[i].ents
                       /\ dinode'[i].nlink = IF i = j THEN n ELSE dinode[i].nlink
  BY <1>1, <1>4 DEF DiskRec
<1>7. Loaded(s)
  BY <1>2, <1>3, <1>6 DEF Loaded, DiskType
<1>8. ASSUME NEW t \in Slots \ {s}, icache[t].ref > 0
      PROVE  Untouched(p, t)
  <2>1. icache[t].inum \in Inums /\ icache[t].inum # j
    BY <1>1, <1>2, <1>3, <1>8 DEF OneEntry, Numbered
  <2> QED
    BY <1>6, <1>8, <2>1 DEF Untouched, Invalidating
<1>9. CacheMoves(p)
  BY <1>7, <1>8 DEF CacheMoves
<1> QED
  BY <1>5, <1>6, <1>9

LEMMA LastLinks ==
  ASSUME IInv, NEW p \in Procs, NEW at \in {"victimless", "takeback"}, Doing(p, at),
         NEW s \in Slots, s = call[p].obj, NEW n \in Int,
         dinode' = Iupdate(dinode, s, n), icache' = Unlock(SetLinks(icache, s, n), s),
         End(p, <<s>>), UNCHANGED <<cwd, fd, calls, panic>>
  PROVE  IInv'
<1>1. ~panic /\ call[p].at = at /\ call[p].puts = <<>>
  BY DEF Doing
<1>2. Typed /\ FirmTyped(p) /\ CallOK(call[p]) /\ call[p].stage = "lock" /\ LocksExact
      /\ LockedValid
  BY <1>1, Quiet DEF IInv
<1>3. \A t \in Slots : icache[t].lock = p <=> t = s
  BY <1>1, <1>2, Quiet DEF IpLocked, ObjLocked
<1>4. icache \in [Slots -> CacheRec]
  BY <1>2 DEF Typed
<1>5. PICK g : g = SetLinks(icache, s, n)
  OBVIOUS
<1>6. g \in [Slots -> CacheRec]
  BY <1>4, <1>5 DEF CacheRec, SetLinks
<1>7. icache' = [g EXCEPT ![s].lock = NoProc]
  BY <1>5 DEF Unlock
<1>8. icache' \in [Slots -> CacheRec]
  BY <1>6, <1>7 DEF CacheRec
<1>9. \A t \in Slots :
        /\ icache'[t].ref = icache[t].ref /\ icache'[t].inum = icache[t].inum
        /\ icache'[t].valid = icache[t].valid /\ icache'[t].type = icache[t].type
        /\ icache'[t].nlink = IF t = s THEN n ELSE icache[t].nlink
        /\ icache'[t].lock = IF t = s THEN NoProc ELSE icache[t].lock
  <2>1. \A t \in Slots :
          /\ g[t].ref = icache[t].ref /\ g[t].inum = icache[t].inum
          /\ g[t].valid = icache[t].valid /\ g[t].type = icache[t].type
          /\ g[t].nlink = IF t = s THEN n ELSE icache[t].nlink
          /\ g[t].lock = icache[t].lock
    BY <1>4, <1>5 DEF CacheRec, SetLinks
  <2> QED
    BY <1>6, <1>7, <2>1 DEF CacheRec
<1>10. /\ dinode' \in [Inums -> DiskRec] /\ CacheMoves(p)
       /\ \A i \in Inums : dinode'[i].type = dinode[i].type /\ dinode'[i].ents = dinode[i].ents
  BY <1>1, <1>2, <1>3, <1>9, LinksSet
<1>11. PICK q \in PutLists : q = <<s>>
  BY Lists
<1>12. First(q) = s /\ Second(q) = None
  BY <1>11, Lists
<1> DEFINE c == [User EXCEPT !.puts = q]
<1>13. /\ c \in CallRec /\ c.at = "user" /\ c.puts = q /\ c.stage = "lock"
       /\ CallOK(c) /\ ~AtParent(c) /\ ~Linking(c)
  BY Users
<1>14. Become(p, c)
  BY <1>11 DEF End
<1> HIDE DEF c
<1>15. call' \in [Procs -> CallRec] /\ call'[p] = c /\ \A r \in Procs \ {p} : call'[r] = call[r]
  BY <1>2, <1>13, <1>14, Became
<1>16. Typed'
  BY <1>2, <1>8, <1>10, <1>15 DEF Typed
<1>17. OnlyCaller(p)
  BY <1>15 DEF OnlyCaller
<1>18. CountsMove(p)
  <2>1. ASSUME NEW t \in Slots
        PROVE  MineOf(p, t)' = MineOf(p, t)
    <3>1. MineOf(p, t) = One(cwd[p] = t) + One(fd[p] = t)
                         + One(call[p].at \in WithIp /\ call[p].ip = t)
                         + One(call[p].at \in WithObj /\ call[p].obj = t)
      BY <1>1, Quiet
    <3>2. c.at \notin WithIp /\ c.at \notin WithObj
          /\ call[p].at \notin WithIp /\ call[p].at \in WithObj /\ None # t
      BY <1>1, <1>13, Numbers DEF WithIp, WithObj
    <3>3. MineOf(p, t)' = Mine(cwd[p], fd[p], c, t)
      BY <1>15 DEF MineOf
    <3>4. Mine(cwd[p], fd[p], c, t) = One(cwd[p] = t) + One(fd[p] = t) + One(s = t)
      BY <1>12, <1>13, <3>2 DEF Mine, One
    <3>5. MineOf(p, t) = One(cwd[p] = t) + One(fd[p] = t) + One(s = t)
      BY <3>1, <3>2 DEF One
    <3> QED
      BY <3>3, <3>4, <3>5
  <2> QED
    BY <1>9, <2>1 DEF CountsMove
<1>19. \A t \in Slots : ~HasLock(c, t)
  BY <1>13 DEF HasLock, IpLocked, ObjLocked
<1>20. LocksMove(p)
  BY <1>3, <1>9, <1>15, <1>19, Numbers DEF LocksMove
<1>21. SlotsKept
  <2>1. \A t \in Slots : icache[t].ref \in Nat
    BY <1>4 DEF CacheRec
  <2> QED
    BY <1>9, <2>1 DEF SlotsKept
<1>22. LockedValid'
  BY <1>2, <1>9 DEF LockedValid
<1>23. \A t \in Slots : Firm(p, t)' => Firm(p, t)
  BY <1>13, <1>15 DEF Firm, FirmIn
<1>24. FirmMoves(p)
  BY <1>23 DEF FirmMoves
<1>25. cwd[p] \in Slots \cup {None} /\ fd[p] \in Slots \cup {None}
  BY <1>2 DEF Typed
<1>26. FirmTyped(p)'
  <2>1. \A t \in Slots : HoldsSlot(p, t) => DiskType(t)' = DiskType(t)
    <3>1. \A t \in Slots : HoldsSlot(p, t) => icache[t].inum \in Inums
      BY Referenced DEF IInv, Numbered
    <3> QED
      BY <1>9, <1>10, <3>1 DEF DiskType
  <2>2. \A t \in {cwd'[p], fd'[p]} \ {None} : DiskType(t)' # "free"
    BY <1>2, <1>25, <2>1 DEF FirmTyped, HoldsSlot, Holds
  <2> QED
    BY <1>13, <1>15, <2>2 DEF FirmTyped
<1>27. NotFreed(p)' /\ VictimIs(p)' /\ MakingKept(p)
  BY <1>13, <1>15 DEF NotFreed, VictimIs, MakingKept, Making
<1> QED
  BY <1>10, <1>13, <1>15, <1>16, <1>17, <1>18, <1>20, <1>21, <1>22, <1>24, <1>26, <1>27,
     LinksStep

LEMMA UnlinkDoneEnds ==
  ASSUME IInv, NEW p \in Procs, UnlinkDone(p)
  PROVE  IInv'
<1>1. Doing(p, "victimless")
  BY DEF UnlinkDone
<1>2. call[p].obj \in Slots /\ icache[call[p].obj] \in CacheRec
  BY <1>1 DEF IInv, CallOK, WithObj, Walking, Doing, Typed
<1>3. PICK s \in Slots, n \in Int : s = call[p].obj /\ n = icache[s].nlink - 1
  BY <1>2 DEF CacheRec
<1> QED
  BY <1>1, <1>3, LastLinks DEF UnlinkDone

LEMMA TakeBackEnds ==
  ASSUME IInv, NEW p \in Procs, TakeBack(p)
  PROVE  IInv'
<1>1. Doing(p, "takeback")
  BY DEF TakeBack
<1>2. call[p].obj \in Slots /\ icache[call[p].obj] \in CacheRec
  BY <1>1 DEF IInv, CallOK, WithObj, Walking, Doing, Typed
<1>3. PICK s \in Slots, n \in Int : s = call[p].obj /\ n = icache[s].nlink - 1
  BY <1>2 DEF CacheRec
<1> QED
  BY <1>1, <1>3, LastLinks DEF TakeBack
-----------------------------------------------------------------------------
(***************************************************************************)
(* A walk begins.                                                          *)
(***************************************************************************)
Rest(path) == IF Head(path) = "/" THEN Tail(path) ELSE path

LEMMA RestOfPath ==
  ASSUME NEW path \in Paths
  PROVE  Rest(path) \in Walks /\ Rest(path) # <<>>
<1> DEFINE All == DirNames \cup {"/"}
<1>1. /\ path \in Seq(All) /\ path # <<>> /\ path # <<"/">>
      /\ \A k \in 2..Len(path) : path[k] # "/"
  BY InodesAssumption, Zenon
<1> HIDE DEF All
<1>2. Len(path) \in Nat /\ Len(path) > 0 /\ Head(path) = path[1]
      /\ \A k \in 1..Len(path) : path[k] \in All
  BY <1>1
<1>3. CASE Head(path) = "/"
  <2>0. PICK t : t = Tail(path)
    OBVIOUS
  <2>1. t \in Seq(All) /\ Len(t) = Len(path) - 1
        /\ \A k \in 1..Len(t) : t[k] = path[k + 1]
    BY <1>1, <1>2, <2>0
  <2>2. ASSUME NEW k \in 1..Len(t)
        PROVE  t[k] \in DirNames
    <3>1. k + 1 \in 2..Len(path) /\ k + 1 \in 1..Len(path)
      BY <1>2, <2>1
    <3>2. path[k + 1] # "/" /\ path[k + 1] \in All
      BY <1>1, <1>2, <3>1
    <3> QED
      BY <2>1, <3>2 DEF All
  <2>3. t \in Seq(DirNames)
    BY <2>1, <2>2
  <2>4. ASSUME t = <<>>
        PROVE  FALSE
    <3> DEFINE r == <<"/">>
    <3>0. Len(t) = 0
      BY <2>4
    <3>1. Len(path) = 1
      BY <1>2, <2>1, <3>0
    <3>2. r \in Seq(All) /\ Len(r) = 1 /\ r[1] = "/"
      BY DEF All
    <3> HIDE DEF r
    <3>3. path = r
      BY <1>1, <1>2, <1>3, <3>1, <3>2, SeqEqual
    <3> QED
      BY <1>1, <3>3 DEF r
  <2> QED
    BY <1>3, <2>0, <2>3, <2>4 DEF Rest, Walks
<1>4. CASE Head(path) # "/"
  <2>1. ASSUME NEW k \in 1..Len(path)
        PROVE  path[k] \in DirNames
    <3>1. k = 1 \/ k \in 2..Len(path)
      BY <1>2
    <3>2. path[k] # "/" /\ path[k] \in All
      BY <1>1, <1>2, <1>4, <3>1
    <3> QED
      BY <3>2 DEF All
  <2>2. path \in Seq(DirNames)
    BY <1>1, <2>1
  <2> QED
    BY <1>1, <1>4, <2>2 DEF Rest, Walks
<1> QED
  BY <1>3, <1>4

\* A call with the operation op, and a second path.
Called(op, new) == [User EXCEPT !.op = op, !.new = new]
Walking0(c, s, w) == [c EXCEPT !.at = "namex", !.ip = s, !.path = w]

LEMMA CalledIs ==
  ASSUME NEW op \in PathOps, NEW new \in Paths \cup {<<>>}, op = "link" => new # <<>>,
         NEW s \in Slots, NEW w \in Walks, w # <<>>,
         NEW c, c = Walking0(Called(op, new), s, w)
  PROVE  /\ c \in CallRec /\ c.at = "namex" /\ c.ip = s /\ c.obj = None /\ c.puts = <<>>
         /\ c.stage = "lock" /\ CallOK(c) /\ ~AtParent(c) /\ ~Linking(c)
         /\ \A t \in Slots : ~HasLock(c, t)
<1>1. PICK d : d = Called(op, new)
  OBVIOUS
<1>2. d \in CallRec /\ d.op = op /\ d.new = new /\ d.obj = None /\ d.puts = <<>>
      /\ d.stage = "lock"
  BY <1>1, UserIs DEF CallRec, Called
<1>3. c = [d EXCEPT !.at = "namex", !.ip = s, !.path = w]
  BY <1>1 DEF Walking0
<1>4. c \in CallRec /\ c.at = "namex" /\ c.ip = s /\ c.path = w /\ c.op = op /\ c.new = new
      /\ c.obj = None /\ c.puts = <<>> /\ c.stage = "lock"
  BY <1>2, <1>3 DEF CallRec, Ats, WithIp
<1>5. CallOK(c)
  BY <1>4, Numbers DEF CallOK, WithIp, WithObj, Walking, Making, InParent, NoPuts
<1>6. ~AtParent(c) /\ ~Linking(c)
  BY <1>4 DEF AtParent, Linking, InParent
<1>7. \A t \in Slots : ~HasLock(c, t)
  BY <1>4 DEF HasLock, IpLocked, ObjLocked
<1> QED
  BY <1>4, <1>5, <1>6, <1>7

LEMMA PathCallStep ==
  ASSUME IInv, NEW p \in Procs, PathCall(p)
  PROVE  IInv'
<1>1. /\ ~panic /\ call[p].at = "user" /\ call[p].puts = <<>> /\ cwd[p] # None
      /\ calls < CALLS /\ calls' = calls + 1 /\ UNCHANGED <<dinode, cwd, fd>>
  BY DEF PathCall, Doing
<1>2. Typed /\ FirmTyped(p) /\ call[p] \in CallRec /\ CallOK(call[p])
      /\ call[p].stage = "lock" /\ LocksExact
  BY <1>1, Quiet DEF IInv
<1>3. calls' \in 0..CALLS
  <2>1. CALLS \in Nat
    BY InodesAssumption, Zenon
  <2>2. calls \in 0..CALLS
    BY <1>2 DEF Typed
  <2> QED
    BY <1>1, <2>1, <2>2
<1>4. PICK op \in PathOps, path \in Paths, new \in Paths \cup {<<>>} :
        /\ op = "link" => new # <<>>
        /\ Namex(p, Called(op, new), path, icache)
  <2>1. PICK op \in Ops \ {"close", "exit"}, path \in Paths,
             new \in IF "link" \in Ops THEN Paths ELSE {<<>>} :
          Namex(p, [User EXCEPT !.op = op, !.new = IF op = "link" THEN new ELSE <<>>],
                path, icache)
    BY DEF PathCall
  <2>2. op \in PathOps
    <3>1. Ops \subseteq {"open", "create", "mknod", "mkdir", "link", "unlink",
                         "chdir", "close", "exit"}
      BY InodesAssumption, Zenon
    <3> QED
      BY <3>1 DEF PathOps
  <2>3. op = "link" => new \in Paths
    OBVIOUS
  <2>4. \A x \in Paths : x # <<>>
    BY InodesAssumption, Zenon
  <2>5. PICK n \in Paths \cup {<<>>} : n = IF op = "link" THEN new ELSE <<>>
    BY <2>3
  <2>6. op = "link" => n # <<>>
    BY <2>3, <2>4, <2>5
  <2>7. Namex(p, Called(op, n), path, icache)
    BY <2>1, <2>5 DEF Called
  <2> QED
    BY <2>2, <2>6, <2>7
<1>5. PICK w \in Walks : w = Rest(path) /\ w # <<>>
  BY RestOfPath
<1>6. ASSUME NEW t \in Slots
      PROVE  MineOf(p, t) = One(cwd[p] = t) + One(fd[p] = t)
  <2>1. call[p].at \notin WithIp /\ call[p].at \notin WithObj
    BY <1>1 DEF WithIp, WithObj
  <2>2. MineOf(p, t) = One(cwd[p] = t) + One(fd[p] = t)
                       + One(call[p].at \in WithIp /\ call[p].ip = t)
                       + One(call[p].at \in WithObj /\ call[p].obj = t)
    BY <1>1, Quiet
  <2> QED
    BY <2>1, <2>2 DEF One
<1>7. \A t \in Slots : icache[t].lock # p
  <2>1. \A t \in Slots : ~HasLock(call[p], t)
    BY <1>1, <1>2 DEF HasLock, IpLocked, ObjLocked
  <2> QED
    BY <1>2, <2>1 DEF LocksExact
<1>8. ASSUME NEW s \in Slots, NEW c, c = Walking0(Called(op, new), s, w), Become(p, c)
      PROVE  /\ c \in CallRec /\ c.at = "namex" /\ c.stage = "lock" /\ CallOK(c)
             /\ ~AtParent(c) /\ ~Linking(c)
             /\ \A t \in Slots : ~HasLock(c, t)
             /\ \A t \in Slots : Mine(cwd[p], fd[p], c, t) = MineOf(p, t) + One(t = s)
             /\ call'[p] = c /\ VictimIs(p)' /\ MakingKept(p)
  <2>1. /\ c \in CallRec /\ c.at = "namex" /\ c.ip = s /\ c.obj = None /\ c.puts = <<>>
        /\ c.stage = "lock" /\ CallOK(c) /\ ~AtParent(c) /\ ~Linking(c)
        /\ \A t \in Slots : ~HasLock(c, t)
    BY <1>4, <1>5, <1>8, CalledIs
  <2>2. ASSUME NEW t \in Slots
        PROVE  Mine(cwd[p], fd[p], c, t) = MineOf(p, t) + One(t = s)
    <3>1. None # t /\ First(c.puts) = None /\ Second(c.puts) = None
      BY <2>1, Numbers, Lists
    <3>2. c.at \in WithIp /\ c.at \in WithObj
      BY <2>1 DEF WithIp, WithObj
    <3>3. Mine(cwd[p], fd[p], c, t) = One(cwd[p] = t) + One(fd[p] = t) + One(s = t)
                                      + One(None = t) + One(None = t) + One(None = t)
      BY <2>1, <3>1, <3>2 DEF Mine
    <3> QED
      BY <1>6, <3>1, <3>3 DEF One
  <2>3. call'[p] = c
    BY <1>2, <1>8, <2>1, Became
  <2>4. VictimIs(p)' /\ MakingKept(p)
    BY <2>1, <2>3 DEF VictimIs, MakingKept, Making
  <2> QED
    BY <2>1, <2>2, <2>3, <2>4
<1>9. CASE Head(path) = "/" /\ ~CanGet(1)
  <2>1. panic' = TRUE /\ UNCHANGED <<icache, call>>
    BY <1>4, <1>9 DEF Namex
  <2>2. dinode' \in [Inums -> DiskRec]
    BY <1>1, <1>2 DEF Typed
  <2> QED
    BY <1>1, <1>3, <2>1, <2>2, HaltStep
<1>10. CASE Head(path) = "/" /\ CanGet(1)
  <2>0. PICK i \in Inums : i = 1
    BY Numbers
  <2>1. PICK s : i = 1 /\ s = SlotFor(i)
    BY <2>0
  <2>2. PICK c : c = Walking0(Called(op, new), s, w)
    OBVIOUS
  <2>3. icache' = Iget(icache, i) /\ Become(p, c) /\ UNCHANGED panic
    BY <1>4, <1>5, <1>10, <2>1, <2>2 DEF Namex, Rest, Walking0
  <2>4. s \in Slots
    BY <1>2, <1>10, <2>1, <2>3, GotSlot
  <2>5. \A t \in Slots : icache'[t].lock = icache[t].lock
    BY <1>2, <1>10, <2>1, <2>3, IgetLocks
  <2>6. /\ c \in CallRec /\ c.at = "namex" /\ c.stage = "lock" /\ CallOK(c)
        /\ ~AtParent(c) /\ ~Linking(c)
        /\ \A t \in Slots : ~HasLock(c, t)
        /\ \A t \in Slots : Mine(cwd[p], fd[p], c, t) = MineOf(p, t) + One(t = s)
        /\ VictimIs(p)' /\ MakingKept(p)
    BY <1>8, <2>2, <2>3, <2>4
  <2>7. \A t \in Slots : icache'[t].lock = p <=> HasLock(c, t)
    BY <1>7, <2>5, <2>6
  <2> QED
    BY <1>1, <1>2, <1>3, <1>10, <2>1, <2>3, <2>5, <2>6, <2>7, GetStep
<1>11. CASE Head(path) # "/"
  <2>1. PICK s \in Slots : s = cwd[p]
    BY <1>1, <1>2 DEF Typed
  <2>2. PICK c : c = Walking0(Called(op, new), s, w)
    OBVIOUS
  <2>3. icache' = [icache EXCEPT ![s].ref = @ + 1] /\ Become(p, c) /\ UNCHANGED panic
    BY <1>4, <1>5, <1>11, <2>1, <2>2 DEF Namex, Rest, Walking0
  <2>4. icache \in [Slots -> CacheRec]
    BY <1>2 DEF Typed
  <2>5. icache[s].ref \in Nat /\ icache[s].ref > 0
    <3>1. HoldsSlot(p, s)
      BY <2>1 DEF HoldsSlot, Holds
    <3> QED
      BY <2>4, <3>1, Referenced DEF CacheRec, IInv
  <2>6. PICK n \in Nat : n = icache[s].ref + 1
    BY <2>5
  <2>7. icache' = [icache EXCEPT ![s].ref = n]
    BY <2>3, <2>6
  <2>8. icache' \in [Slots -> CacheRec]
    BY <2>4, <2>7 DEF CacheRec
  <2>9. \A t \in Slots :
          /\ icache'[t].ref = icache[t].ref + One(t = s)
          /\ icache'[t].inum = icache[t].inum /\ icache'[t].valid = icache[t].valid
          /\ icache'[t].type = icache[t].type /\ icache'[t].nlink = icache[t].nlink
          /\ icache'[t].lock = icache[t].lock
    BY <2>4, <2>6, <2>7 DEF CacheRec, One
  <2>10. /\ c \in CallRec /\ c.at = "namex" /\ c.stage = "lock" /\ CallOK(c)
         /\ ~AtParent(c) /\ ~Linking(c)
         /\ \A t \in Slots : ~HasLock(c, t)
         /\ \A t \in Slots : Mine(cwd[p], fd[p], c, t) = MineOf(p, t) + One(t = s)
         /\ VictimIs(p)'
    BY <1>8, <2>2, <2>3
  <2>11. PlainSlots
    <3>1. \A t \in Slots : icache[t].ref = 0 => t # s
      BY <2>5
    <3> QED
      BY <2>9, <3>1 DEF PlainSlots, One
  <2>12. \A t \in Slots : icache'[t].ref + MineOf(p, t)
                            = icache[t].ref + Mine(cwd[p], fd[p], c, t)
    <3>1. \A t \in Slots : icache[t].ref \in Nat
      BY <2>4 DEF CacheRec
    <3>2. \A t \in Slots : MineOf(p, t) \in Nat /\ One(t = s) \in Nat
      BY Positive DEF MineOf, One
    <3> QED
      BY <2>9, <2>10, <3>1, <3>2
  <2>13. \A t \in Slots : icache'[t].lock = p <=> HasLock(c, t)
    BY <1>7, <2>9, <2>10
  <2>14. \A t \in Slots : ~FirmIn(c, t)
    BY <2>10 DEF FirmIn
  <2>15. c.at \notin Making /\ \A t \in Slots : icache'[t].lock = icache[t].lock
    BY <2>9, <2>10 DEF Making
  <2> QED
    BY <1>1, <1>2, <1>3, <2>3, <2>8, <2>10, <2>11, <2>12, <2>13, <2>14, <2>15, GoStep
<1> QED
  BY <1>9, <1>10, <1>11

\* sys_link(): the file has a link more, and the walk to its new parent begins.
LEMMA LinkedIs ==
  ASSUME NEW d \in CallRec, CallOK(d), d.at = "link", d.puts = <<>>, NEW s \in Slots, d.ip = s,
         NEW u \in Slots, NEW w \in Walks, w # <<>>,
         NEW c, c = Walking0([d EXCEPT !.obj = s], u, w)
  PROVE  /\ c \in CallRec /\ c.at = "namex" /\ c.ip = u /\ c.obj = s /\ c.puts = <<>>
         /\ c.stage = "lock" /\ CallOK(c) /\ ~AtParent(c) /\ Linking(c)
         /\ \A t \in Slots : ~HasLock(c, t)
<1>1. PICK e : e = [d EXCEPT !.obj = s]
  OBVIOUS
<1>2. d.stage = "lock" /\ d.op = "link" /\ d.new # <<>>
  BY DEF CallOK
<1>3. /\ e \in CallRec /\ e.obj = s /\ e.puts = <<>> /\ e.stage = "lock" /\ e.op = "link"
      /\ e.new # <<>>
  BY <1>1, <1>2 DEF CallRec
<1>4. c = [e EXCEPT !.at = "namex", !.ip = u, !.path = w]
  BY <1>1 DEF Walking0
<1>5. /\ c \in CallRec /\ c.at = "namex" /\ c.ip = u /\ c.path = w /\ c.obj = s
      /\ c.puts = <<>> /\ c.stage = "lock" /\ c.op = "link" /\ c.new # <<>>
  BY <1>3, <1>4 DEF CallRec, Ats, WithIp
<1>6. CallOK(c)
  BY <1>5 DEF CallOK, WithIp, WithObj, Walking, Making, InParent, NoPuts, PathOps
<1>7. ~AtParent(c) /\ Linking(c)
  BY <1>5, Numbers DEF AtParent, Linking, InParent, Walking
<1>8. \A t \in Slots : ~HasLock(c, t)
  BY <1>5 DEF HasLock, IpLocked, ObjLocked
<1> QED
  BY <1>5, <1>6, <1>7, <1>8

LEMMA LinkWalks ==
  ASSUME IInv, NEW p \in Procs, ~panic, call[p].at = "link", call[p].puts = <<>>,
         NEW s \in Slots, call[p].ip = s, icache[s].type # "dir", NEW n \in Int,
         dinode' = Iupdate(dinode, s, n), UNCHANGED <<cwd, fd, calls, panic>>,
         NEW u \in Slots, NEW w \in Walks, w # <<>>,
         NEW c, c = Walking0([call[p] EXCEPT !.obj = s], u, w), Become(p, c),
         icache' \in [Slots -> CacheRec],
         \A t \in Slots :
           /\ icache'[t].ref = icache[t].ref + One(t = u)
           /\ icache'[t].lock = IF t = s THEN NoProc ELSE icache[t].lock
           /\ icache[t].ref > 0 =>
                /\ icache'[t].inum = icache[t].inum /\ icache'[t].valid = icache[t].valid
                /\ icache'[t].type = icache[t].type
                /\ icache'[t].nlink = IF t = s THEN n ELSE icache[t].nlink,
         SlotsKept
  PROVE  IInv'
<1>1. /\ Typed /\ FirmTyped(p) /\ call[p] \in CallRec /\ CallOK(call[p])
      /\ call[p].stage = "lock" /\ LocksExact /\ LockedValid /\ Counted /\ Numbered
      /\ \A q \in Procs : CallOK(call[q])
  BY Quiet DEF IInv
<1>2. \A t \in Slots : icache[t].lock = p <=> t = s
  BY <1>1, Quiet DEF IpLocked, ObjLocked
<1>3. icache[s].ref > 0 /\ icache[s].inum \in Inums /\ icache[s].type = DiskType(s)
      /\ icache[s].type # "free"
  BY <1>1, <1>2, LockedIs
<1>4. /\ dinode' \in [Inums -> DiskRec] /\ CacheMoves(p)
      /\ \A i \in Inums : dinode'[i].type = dinode[i].type /\ dinode'[i].ents = dinode[i].ents
  BY <1>1, <1>2, LinksSet
<1>5. /\ c \in CallRec /\ c.at = "namex" /\ c.ip = u /\ c.obj = s /\ c.puts = <<>>
      /\ c.stage = "lock" /\ CallOK(c) /\ ~AtParent(c) /\ Linking(c)
      /\ \A t \in Slots : ~HasLock(c, t)
  BY <1>1, LinkedIs
<1>6. call' \in [Procs -> CallRec] /\ call'[p] = c /\ \A r \in Procs \ {p} : call'[r] = call[r]
  BY <1>1, <1>5, Became
<1>7. Typed'
  BY <1>1, <1>4, <1>6 DEF Typed
<1>8. OnlyCaller(p)
  BY <1>6 DEF OnlyCaller
<1>9. \A t \in Slots : icache[t].ref \in Nat
  BY <1>1 DEF Typed, CacheRec
<1>10. CountsMove(p)
  <2>1. ASSUME NEW t \in Slots
        PROVE  icache'[t].ref + MineOf(p, t) = icache[t].ref + MineOf(p, t)'
    <3>1. None # t /\ First(c.puts) = None /\ Second(c.puts) = None
      BY <1>5, Numbers, Lists
    <3>2. /\ c.at \in WithIp /\ c.at \in WithObj
          /\ call[p].at \in WithIp /\ call[p].at \notin WithObj
      BY <1>5 DEF WithIp, WithObj
    <3>3. Mine(cwd[p], fd[p], c, t) = One(cwd[p] = t) + One(fd[p] = t) + One(u = t)
                                      + One(s = t) + One(None = t) + One(None = t)
      BY <1>5, <3>1, <3>2 DEF Mine
    <3>4. MineOf(p, t) = One(cwd[p] = t) + One(fd[p] = t)
                         + One(call[p].at \in WithIp /\ call[p].ip = t)
                         + One(call[p].at \in WithObj /\ call[p].obj = t)
      BY Quiet
    <3>5. Mine(cwd[p], fd[p], c, t) = MineOf(p, t) + One(t = u)
      BY <3>1, <3>2, <3>3, <3>4 DEF One
    <3>6. MineOf(p, t)' = MineOf(p, t) + One(t = u)
      BY <1>6, <3>5 DEF MineOf
    <3>7. MineOf(p, t) \in Nat /\ One(t = u) \in Nat
      BY Positive DEF MineOf, One
    <3> QED
      BY <1>9, <3>6, <3>7
  <2> QED
    BY <2>1 DEF CountsMove
<1>11. LocksMove(p)
  BY <1>2, <1>5, <1>6, Numbers DEF LocksMove
<1>12. LockedValid'
  <2>1. ASSUME NEW t \in Slots, icache'[t].lock # NoProc
        PROVE  icache'[t].valid
    <3>1. icache[t].lock # NoProc /\ icache[t].valid
      BY <1>1, <2>1 DEF LockedValid
    <3>2. icache[t].lock \in Procs
      BY <1>1, <3>1 DEF Typed, CacheRec
    <3>3. HoldsSlot(icache[t].lock, t)
      BY <1>1, <3>2, LockHolds DEF LocksExact
    <3>4. icache[t].ref > 0
      BY <1>1, <3>2, <3>3, Referenced
    <3> QED
      BY <3>1, <3>4
  <2> QED
    BY <2>1 DEF LockedValid
<1>13. \A t \in Slots : FirmIn(c, t) => t = s
  BY <1>5 DEF FirmIn
<1>14. FirmMoves(p)
  BY <1>2, <1>6, <1>13 DEF FirmMoves, Firm
<1>15. \A t \in Slots : HoldsSlot(p, t) => DiskType(t)' = DiskType(t)
  <2>1. \A t \in Slots : HoldsSlot(p, t) => icache[t].ref > 0 /\ icache[t].inum \in Inums
    BY <1>1, Referenced DEF Numbered
  <2> QED
    BY <1>4, <2>1 DEF SlotsKept, DiskType
<1>16. FirmTyped(p)'
  <2>1. cwd[p] \in Slots \cup {None} /\ fd[p] \in Slots \cup {None}
    BY <1>1 DEF Typed
  <2>2. \A t \in {cwd'[p], fd'[p]} \ {None} : DiskType(t)' # "free"
    BY <1>1, <1>15, <2>1 DEF FirmTyped, HoldsSlot, Holds
  <2>3. DiskType(s)' \notin {"free", "dir"}
    BY <1>3, <1>4 DEF DiskType, SlotsKept
  <2>4. cwd'[p] # None
    BY <1>1 DEF FirmTyped
  <2> QED
    BY <1>5, <1>6, <2>2, <2>3, <2>4 DEF FirmTyped, DiskType
<1>17. NotFreed(p)' /\ VictimIs(p)' /\ MakingKept(p)
  BY <1>5, <1>6 DEF NotFreed, VictimIs, MakingKept, Making
<1> QED
  BY <1>4, <1>5, <1>6, <1>7, <1>8, <1>10, <1>11, <1>12, <1>14, <1>16, <1>17, LinksStep

\* The disk alone.
LEMMA DiskLinks ==
  ASSUME Typed, NEW s \in Slots, icache[s].inum \in Inums, NEW n \in Int,
         dinode' = Iupdate(dinode, s, n)
  PROVE  /\ dinode' \in [Inums -> DiskRec]
         /\ \A i \in Inums : dinode'[i].type = dinode[i].type /\ dinode'[i].ents = dinode[i].ents
<1>1. PICK j \in Inums : j = icache[s].inum
  OBVIOUS
<1>2. dinode' = [dinode EXCEPT ![j].nlink = n] /\ dinode \in [Inums -> DiskRec]
  BY <1>1 DEF Iupdate, Typed
<1> QED
  BY <1>2 DEF DiskRec

LEMMA LinkOldStep ==
  ASSUME IInv, NEW p \in Procs, LinkOld(p), icache[call[p].ip].type # "dir"
  PROVE  IInv'
<1>1. /\ ~panic /\ call[p].at = "link" /\ call[p].puts = <<>> /\ UNCHANGED <<cwd, fd, calls>>
  BY DEF LinkOld, Doing
<1>2. /\ Typed /\ FirmTyped(p) /\ call[p] \in CallRec /\ CallOK(call[p])
      /\ call[p].stage = "lock" /\ LocksExact
  BY <1>1, Quiet DEF IInv
<1>3. PICK s \in Slots : s = call[p].ip
  BY <1>1, <1>2 DEF CallOK, WithIp
<1>4. icache \in [Slots -> CacheRec] /\ icache[s].nlink \in Int
  BY <1>2 DEF Typed, CacheRec
<1>5. PICK n \in Int : n = icache[s].nlink + 1
  BY <1>4
<1>6. PICK path \in Paths : path = call[p].new
  <2>1. call[p].new # <<>> /\ call[p].new \in Paths \cup {<<>>}
    BY <1>1, <1>2 DEF CallOK, CallRec
  <2> QED
    BY <2>1
<1>7. PICK h : h = Unlock(SetLinks(icache, s, n), s)
  OBVIOUS
<1>8. /\ dinode' = Iupdate(dinode, s, n)
      /\ Namex(p, [call[p] EXCEPT !.obj = s], path, h)
  BY <1>3, <1>5, <1>6, <1>7 DEF LinkOld
<1>9. h \in [Slots -> CacheRec]
      /\ \A t \in Slots :
           /\ h[t].ref = icache[t].ref /\ h[t].inum = icache[t].inum
           /\ h[t].valid = icache[t].valid /\ h[t].type = icache[t].type
           /\ h[t].nlink = IF t = s THEN n ELSE icache[t].nlink
           /\ h[t].lock = IF t = s THEN NoProc ELSE icache[t].lock
  <2>1. PICK g : g = SetLinks(icache, s, n)
    OBVIOUS
  <2>2. g \in [Slots -> CacheRec]
    BY <1>4, <2>1 DEF CacheRec, SetLinks
  <2>3. \A t \in Slots :
          /\ g[t].ref = icache[t].ref /\ g[t].inum = icache[t].inum
          /\ g[t].valid = icache[t].valid /\ g[t].type = icache[t].type
          /\ g[t].nlink = IF t = s THEN n ELSE icache[t].nlink
          /\ g[t].lock = icache[t].lock
    BY <1>4, <2>1 DEF CacheRec, SetLinks
  <2>4. h = [g EXCEPT ![s].lock = NoProc]
    BY <1>7, <2>1 DEF Unlock
  <2>5. h \in [Slots -> CacheRec]
    BY <2>2, <2>4 DEF CacheRec
  <2> QED
    BY <2>2, <2>3, <2>4, <2>5 DEF CacheRec
<1>10. PICK w \in Walks : w = Rest(path) /\ w # <<>>
  BY RestOfPath
<1>11. \A t \in Slots : icache[t].ref \in Nat
  BY <1>4 DEF CacheRec
<1>12. CASE Head(path) = "/" /\ ~CanGet(1)
  <2>1. panic' = TRUE /\ UNCHANGED <<icache, call>>
    BY <1>8, <1>12 DEF Namex
  <2>2. icache[s].inum \in Inums
    <3>1. \A t \in Slots : icache[t].lock = p <=> t = s
      BY <1>1, <1>2, <1>3, Quiet DEF IpLocked, ObjLocked
    <3> QED
      BY <1>1, <1>2, <3>1, LockedIs
  <2>3. /\ dinode' \in [Inums -> DiskRec]
        /\ \A i \in Inums : dinode'[i].type = dinode[i].type /\ dinode'[i].ents = dinode[i].ents
    BY <1>2, <1>8, <2>2, DiskLinks
  <2> QED
    BY <1>1, <2>1, <2>3, PanicStep
<1>13. CASE Head(path) = "/" /\ CanGet(1)
  <2>0. PICK i \in Inums : i = 1
    BY Numbers
  <2>1. PICK u : i = 1 /\ u = SlotFor(i)
    BY <2>0
  <2>2. PICK c : c = Walking0([call[p] EXCEPT !.obj = s], u, w)
    OBVIOUS
  <2>3. PICK g : g = Iget(h, i)
    OBVIOUS
  <2>4. icache' = g /\ Become(p, c) /\ UNCHANGED panic
    BY <1>8, <1>10, <1>13, <2>1, <2>2, <2>3 DEF Namex, Rest, Walking0
  <2>5. /\ u \in Slots /\ g \in [Slots -> CacheRec]
        /\ \A t \in Slots : g[t].lock = h[t].lock
        /\ \A t \in Slots \ {u} : g[t] = h[t]
        /\ g[u].ref = icache[u].ref + 1 /\ g[u].inum = i
        /\ icache[u].ref > 0 => /\ icache[u].inum = i /\ g[u].valid = h[u].valid
                                /\ g[u].type = h[u].type /\ g[u].nlink = h[u].nlink
        /\ icache[u].ref = 0 =>
             ~g[u].valid /\ \A t \in Slots : icache[t].ref > 0 => icache[t].inum # i
    BY <1>2, <1>9, <1>13, <2>1, <2>3, IgetOn
  <2>6. \A t \in Slots :
          /\ icache'[t].ref = icache[t].ref + One(t = u)
          /\ icache'[t].lock = IF t = s THEN NoProc ELSE icache[t].lock
          /\ icache[t].ref > 0 =>
               /\ icache'[t].inum = icache[t].inum /\ icache'[t].valid = icache[t].valid
               /\ icache'[t].type = icache[t].type
               /\ icache'[t].nlink = IF t = s THEN n ELSE icache[t].nlink
    BY <1>9, <1>11, <2>4, <2>5 DEF One
  <2>7. SlotsKept
    <3>1. ASSUME NEW t \in Slots, icache[t].ref = 0, icache'[t].ref > 0
          PROVE  /\ icache'[t].inum \in Inums /\ ~icache'[t].valid
                 /\ \A r \in Slots \ {t} : icache'[r].ref > 0 => icache'[r].inum # icache'[t].inum
      <4>1. t = u
        BY <2>6, <3>1 DEF One
      <4>2. ASSUME NEW r \in Slots \ {u}, icache'[r].ref > 0
            PROVE  icache'[r].inum # i
        <5>1. icache[r].ref > 0
          BY <1>11, <2>6, <4>2 DEF One
        <5> QED
          BY <2>5, <2>6, <3>1, <4>1, <5>1
      <4> QED
        BY <2>4, <2>5, <3>1, <4>1, <4>2
    <3> QED
      BY <2>6, <3>1 DEF SlotsKept
  <2> QED
    BY <1>1, <1>3, <1>8, <1>10, <2>2, <2>4, <2>5, <2>6, <2>7, LinkWalks
<1>14. CASE Head(path) # "/"
  <2>1. PICK u \in Slots : u = cwd[p]
    BY <1>1, <1>2 DEF Typed, FirmTyped
  <2>2. PICK c : c = Walking0([call[p] EXCEPT !.obj = s], u, w)
    OBVIOUS
  <2>3. icache' = [h EXCEPT ![u].ref = @ + 1] /\ Become(p, c) /\ UNCHANGED panic
    BY <1>8, <1>10, <1>14, <2>1, <2>2 DEF Namex, Rest, Walking0
  <2>4. icache[u].ref > 0
    <3>1. HoldsSlot(p, u)
      BY <2>1 DEF HoldsSlot, Holds
    <3> QED
      BY <3>1, Referenced DEF IInv
  <2>5. PICK m \in Nat : m = icache[u].ref + 1
    BY <1>11
  <2>6. icache' = [h EXCEPT ![u].ref = m]
    BY <1>9, <2>3, <2>5
  <2>7. icache' \in [Slots -> CacheRec]
    BY <1>9, <2>6 DEF CacheRec
  <2>8. \A t \in Slots :
          /\ icache'[t].ref = IF t = u THEN m ELSE h[t].ref
          /\ icache'[t].lock = h[t].lock /\ icache'[t].inum = h[t].inum
          /\ icache'[t].valid = h[t].valid /\ icache'[t].type = h[t].type
          /\ icache'[t].nlink = h[t].nlink
    BY <1>9, <2>6 DEF CacheRec
  <2>9. \A t \in Slots :
          /\ icache'[t].ref = icache[t].ref + One(t = u)
          /\ icache'[t].lock = IF t = s THEN NoProc ELSE icache[t].lock
          /\ icache[t].ref > 0 =>
               /\ icache'[t].inum = icache[t].inum /\ icache'[t].valid = icache[t].valid
               /\ icache'[t].type = icache[t].type
               /\ icache'[t].nlink = IF t = s THEN n ELSE icache[t].nlink
    BY <1>9, <1>11, <2>5, <2>8 DEF One
  <2>10. SlotsKept
    <3>1. \A t \in Slots : icache[t].ref = 0 => icache'[t].ref = 0
      BY <2>4, <2>9 DEF One
    <3> QED
      BY <2>9, <3>1 DEF SlotsKept
  <2> QED
    BY <1>1, <1>3, <1>8, <1>10, <2>1, <2>2, <2>3, <2>7, <2>9, <2>10, LinkWalks
<1> QED
  BY <1>12, <1>13, <1>14
-----------------------------------------------------------------------------
(***************************************************************************)
(* Names come and go.                                                      *)
(***************************************************************************)
LEMMA NamesStep ==
  ASSUME IInv, NEW p \in Procs, call[p].puts = <<>>, NEW c \in CallRec, CallOK(c), Become(p, c),
         UNCHANGED <<cwd, fd, calls, panic>>,
         icache' \in [Slots -> CacheRec], dinode' \in [Inums -> DiskRec],
         \A t \in Slots :
           /\ icache'[t].ref = icache[t].ref /\ icache'[t].inum = icache[t].inum
           /\ icache'[t].valid = icache[t].valid
           /\ \/ icache'[t].lock = icache[t].lock
              \/ icache[t].lock = p /\ icache'[t].lock = NoProc
           /\ icache'[t].lock = p <=> HasLock(c, t)
           /\ Mine(cwd[p], fd[p], c, t) = MineOf(p, t),
         CacheMoves(p), EntsKept(p), EntsTyped', Acyclic', VictimIs(p)',
         \A i \in Inums : dinode'[i].type = dinode[i].type \/ dinode[i].type = "free",
         AtParent(c) => AtParent(call[p]) /\ c.ip = call[p].ip,
         Linking(c) => Linking(call[p]) /\ c.obj = call[p].obj,
         c.stage # "free", c.at # "user" => call[p].at # "user"
  PROVE  IInv'
<1>1. /\ Typed /\ FirmTyped(p) /\ call[p] \in CallRec /\ CallOK(call[p])
      /\ LockedValid /\ Counted /\ Numbered
  BY Quiet DEF IInv
<1>2. call' \in [Procs -> CallRec] /\ call'[p] = c /\ \A r \in Procs \ {p} : call'[r] = call[r]
  BY <1>1, Became
<1>3. Typed'
  BY <1>1, <1>2 DEF Typed
<1>4. OnlyCaller(p)
  BY <1>2 DEF OnlyCaller
<1>5. \A t \in Slots : icache[t].ref \in Nat
  BY <1>1 DEF Typed, CacheRec
<1>6. CountsMove(p)
  BY <1>2 DEF CountsMove, MineOf
<1>7. LocksMove(p)
  BY <1>2 DEF LocksMove
<1>8. SlotsKept
  BY <1>5 DEF SlotsKept
<1>9. LockedValid'
  <2>1. ASSUME NEW t \in Slots, icache'[t].lock # NoProc
        PROVE  icache'[t].valid
    BY <1>1, <2>1 DEF LockedValid
  <2> QED
    BY <2>1 DEF LockedValid
<1>10. TypesKept(p)
  BY DEF TypesKept
<1>11. \A t \in Slots : FirmIn(c, t) => FirmIn(call[p], t)
  BY DEF FirmIn
<1>12. FirmMoves(p)
  BY <1>2, <1>11 DEF FirmMoves, Firm
<1>13. \A t \in Slots : HoldsSlot(p, t) =>
         DiskType(t)' = DiskType(t) \/ DiskType(t) = "free"
  <2>1. \A t \in Slots : HoldsSlot(p, t) => icache[t].inum \in Inums
    BY <1>1, Referenced DEF Numbered
  <2> QED
    BY <2>1 DEF DiskType
<1>14. FirmTyped(p)'
  <2>1. cwd[p] \in Slots \cup {None} /\ fd[p] \in Slots \cup {None}
        /\ c.ip \in Slots \cup {None}
    BY <1>1 DEF Typed, CallRec
  <2>2. AtParent(c) => c.ip \in Slots
    BY <2>1 DEF AtParent, CallOK, InParent, WithIp
  <2>3. Linking(c) => c.obj \in Slots
    BY DEF Linking, CallOK, Walking, WithObj
  <2>4. \A t \in Slots : Firm(p, t) => HoldsSlot(p, t)
    BY <1>1, LockHolds
  <2>5. ASSUME AtParent(c), NEW t \in Slots, t = c.ip
        PROVE  DiskType(t)' = "dir"
    <3>1. Firm(p, t) /\ DiskType(t) = "dir"
      BY <1>1, <2>5 DEF FirmTyped, Firm, FirmIn
    <3> QED
      BY <1>13, <2>4, <3>1
  <2>6. ASSUME Linking(c), NEW t \in Slots, t = c.obj
        PROVE  DiskType(t)' \notin {"free", "dir"}
    <3>1. Firm(p, t) /\ DiskType(t) \notin {"free", "dir"}
      BY <1>1, <2>6 DEF FirmTyped, Firm, FirmIn
    <3> QED
      BY <1>13, <2>4, <3>1
  <2>7. \A t \in {cwd'[p], fd'[p]} \ {None} : DiskType(t)' # "free"
    BY <1>1, <1>13, <2>1, <2>4 DEF FirmTyped, Firm
  <2>8. c.at # "user" => cwd'[p] # None
    <3>1. call[p].at # "user" => cwd[p] # None
      BY <1>1 DEF FirmTyped
    <3> QED
      BY <3>1
  <2> QED
    BY <1>2, <2>2, <2>3, <2>5, <2>6, <2>7, <2>8 DEF FirmTyped, DiskType
<1>15. NotFreed(p)'
  BY <1>2 DEF NotFreed
<1> QED
  BY <1>2, <1>3, <1>4, <1>6, <1>7, <1>8, <1>9, <1>10, <1>12, <1>14, <1>15, Step

\* Who makes an inode has locked the directory that it will be in.
LEMMA MakersIn ==
  ASSUME IInv, NEW q \in Procs, call[q].at \in Making
  PROVE  /\ call[q].ip \in Slots /\ icache[call[q].ip].lock = q /\ icache[call[q].ip].ref > 0
         /\ icache[call[q].ip].inum \in Inums
         /\ dinode[icache[call[q].ip].inum].type = "dir"
         /\ call[q].at # "made" => call[q].obj \in Slots
<1>1. CallOK(call[q]) /\ FirmTyped(q) /\ LocksExact /\ Counted /\ Numbered
  BY DEF IInv
<1>2. call[q].ip \in Slots /\ HasLock(call[q], call[q].ip) /\ HoldsSlot(q, call[q].ip)
  BY <1>1 DEF CallOK, Making, WithIp, HasLock, IpLocked, HoldsSlot, Holds
<1>3. icache[call[q].ip].lock = q
  BY <1>1, <1>2 DEF LocksExact
<1>4. icache[call[q].ip].ref > 0 /\ icache[call[q].ip].inum \in Inums
  BY <1>1, <1>2, Referenced DEF Numbered
<1>5. dinode[icache[call[q].ip].inum].type = "dir"
  BY <1>1 DEF FirmTyped, AtParent, InParent, Making, DiskType
<1>6. call[q].at # "made" => call[q].obj \in Slots
  BY <1>1 DEF CallOK, Making, WithObj, Walking
<1> QED
  BY <1>2, <1>3, <1>4, <1>5, <1>6

LEMMA OthersMake ==
  ASSUME IInv, NEW p \in Procs, NEW q \in Procs \ {p}, call'[q] = call[q],
         \A t \in Slots : icache'[t].inum = icache[t].inum, call[q].at \in Making
  PROVE  icache'[call'[q].ip].inum = icache[call[q].ip].inum /\ Fresh(q)' = Fresh(q)
<1>1. call[q].ip \in Slots /\ (call[q].at # "made" => call[q].obj \in Slots)
  BY MakersIn
<1>2. icache'[call'[q].ip].inum = icache[call[q].ip].inum
  BY <1>1
<1>3. Fresh(q)' = Fresh(q)
  BY <1>1 DEF Fresh
<1> QED
  BY <1>2, <1>3

\* Edges go, or lead to what leads nowhere.
LEMMA Fewer ==
  ASSUME Acyclic, \A x, y \in Inums : Below(x, y)' => Below(x, y)
  PROVE  Acyclic'
<1>1. ASSUME NEW D \in SUBSET Inums, D # {}
      PROVE  \E x \in D : \A y \in D : ~Below(x, y)'
  <2>1. PICK x \in D : \A y \in D : ~Below(x, y)
    BY <1>1 DEF Acyclic
  <2> QED
    BY <2>1
<1> QED
  BY <1>1 DEF Acyclic

LEMMA NewLeaf ==
  ASSUME Acyclic, NEW j \in Inums, \A y \in Inums : ~Below(j, y)',
         \A x, y \in Inums : Below(x, y)' /\ y # j => Below(x, y)
  PROVE  Acyclic'
<1>1. ASSUME NEW D \in SUBSET Inums, D # {}
      PROVE  \E x \in D : \A y \in D : ~Below(x, y)'
  <2>1. CASE j \in D
    BY <2>1
  <2>2. CASE j \notin D
    <3>1. PICK x \in D : \A y \in D : ~Below(x, y)
      BY <1>1 DEF Acyclic
    <3> QED
      BY <2>2, <3>1
  <2> QED
    BY <2>1, <2>2
<1> QED
  BY <1>1 DEF Acyclic

\* dirlink() gives the name.
LEMMA DirlinkGives ==
  ASSUME IInv, NEW p \in Procs, Doing(p, "dirlink"), NEW s, s = call[p].ip, NEW o, o = call[p].obj,
         dinode' = [dinode EXCEPT ![icache[s].inum].ents[call[p].name] = icache[o].inum],
         icache' = Unlock(icache, s), End(p, <<s, o>>),
         UNCHANGED <<cwd, fd, calls, panic>>
  PROVE  IInv'
<1>1. ~panic /\ call[p].at = "dirlink" /\ call[p].puts = <<>>
  BY DEF Doing
<1>2. /\ Typed /\ FirmTyped(p) /\ call[p] \in CallRec /\ CallOK(call[p])
      /\ call[p].stage = "lock" /\ LocksExact /\ EntsTyped /\ Acyclic /\ Counted /\ Numbered
  BY <1>1, Quiet DEF IInv
<1>3. s \in Slots /\ icache[s].lock = p /\ icache[s].inum \in Inums /\ icache[s].ref > 0
      /\ DiskType(s) = "dir" /\ call[p].name \in DirNames
  BY <1>1, ParentAt DEF InParent
<1>4. o \in Slots /\ Linking(call[p]) /\ HoldsSlot(p, o)
  BY <1>1, <1>2 DEF CallOK, WithObj, Walking, Linking, HoldsSlot, Holds
<1>5. DiskType(o) \notin {"free", "dir"} /\ icache[o].inum \in Inums
  BY <1>2, <1>4, Referenced DEF FirmTyped, Numbered
<1>6. PICK d \in Inums, j \in Inums, n \in DirNames :
        d = icache[s].inum /\ j = icache[o].inum /\ n = call[p].name
  BY <1>3, <1>5
<1>7. dinode[d].type = "dir" /\ dinode[j].type \notin {"free", "dir"} /\ d # j
  BY <1>3, <1>5, <1>6 DEF DiskType
<1>8. dinode \in [Inums -> DiskRec]
  BY <1>2 DEF Typed
<1>9. PICK e : e = [dinode[d].ents EXCEPT ![n] = j]
  OBVIOUS
<1>10. dinode[d].ents \in [DirNames -> Inums \cup {None}]
  BY <1>8 DEF DiskRec
<1>11. e \in [DirNames -> Inums \cup {None}] /\ \A m \in DirNames \ {n} : e[m] = dinode[d].ents[m]
  BY <1>9, <1>10
<1>12. PICK e1 : e1 = [dinode[d] EXCEPT !.ents = e]
  OBVIOUS
<1>13. /\ e1 \in DiskRec /\ e1.type = dinode[d].type /\ e1.nlink = dinode[d].nlink
       /\ e1.ents = e
  <2>1. dinode[d] \in DiskRec /\ e \in [DirNames -> Inums \cup {None}]
    BY <1>8, <1>11
  <2> QED
    BY <1>12, <2>1 DEF DiskRec
<1>14. /\ dinode' \in [Inums -> DiskRec] /\ dinode'[d].ents = e
       /\ \A i \in Inums : /\ dinode'[i].type = dinode[i].type
                           /\ dinode'[i].nlink = dinode[i].nlink
                           /\ i # d => dinode'[i].ents = dinode[i].ents
  <2>1. dinode' = [dinode EXCEPT ![d] = e1]
    BY <1>6, <1>9, <1>12
  <2> QED
    BY <1>8, <1>13, <2>1
<1>15. PICK q \in PutLists : q = <<s, o>>
  BY <1>3, <1>4, Lists
<1>16. First(q) = s /\ Second(q) = o
  BY <1>15, Lists
<1> DEFINE c == [User EXCEPT !.puts = q]
<1>17. /\ c \in CallRec /\ c.at = "user" /\ c.puts = q /\ c.stage = "lock"
       /\ CallOK(c) /\ ~AtParent(c) /\ ~Linking(c)
  BY Users
<1>18. Become(p, c)
  BY <1>15 DEF End
<1> HIDE DEF c
<1>19. call'[p] = c /\ \A r \in Procs \ {p} : call'[r] = call[r]
  BY <1>2, <1>17, <1>18, Became
<1>20. /\ icache' \in [Slots -> CacheRec]
       /\ \A t \in Slots :
            /\ icache'[t].lock = IF t = s THEN NoProc ELSE icache[t].lock
            /\ icache'[t].ref = icache[t].ref /\ icache'[t].inum = icache[t].inum
            /\ icache'[t].valid = icache[t].valid
            /\ icache'[t].type = icache[t].type /\ icache'[t].nlink = icache[t].nlink
  BY <1>2, <1>3, UnlockDoes
<1>21. \A t \in Slots : icache[t].lock = p <=> t = s
  BY <1>1, <1>2, Quiet DEF IpLocked, ObjLocked
<1>22. \A t \in Slots : ~HasLock(c, t)
  BY <1>17 DEF HasLock, IpLocked, ObjLocked
<1>23. ASSUME NEW t \in Slots
       PROVE  Mine(cwd[p], fd[p], c, t) = MineOf(p, t)
  <2>1. /\ c.at \notin WithIp /\ c.at \notin WithObj
        /\ call[p].at \in WithIp /\ call[p].at \in WithObj
    BY <1>1, <1>17 DEF WithIp, WithObj
  <2>2. Mine(cwd[p], fd[p], c, t) = One(cwd[p] = t) + One(fd[p] = t) + One(FALSE)
                                    + One(FALSE) + One(s = t) + One(o = t)
    BY <1>16, <1>17, <2>1 DEF Mine, One
  <2>3. MineOf(p, t) = One(cwd[p] = t) + One(fd[p] = t)
                       + One(call[p].at \in WithIp /\ call[p].ip = t)
                       + One(call[p].at \in WithObj /\ call[p].obj = t)
    BY <1>1, Quiet
  <2> QED
    BY <2>1, <2>2, <2>3 DEF One
<1>24. CacheMoves(p)
  <2>1. ASSUME NEW t \in Slots, icache[t].ref > 0
        PROVE  Untouched(p, t)
    <3>1. icache[t].inum \in Inums
      BY <1>2, <2>1 DEF Numbered
    <3> QED
      BY <1>2, <1>14, <1>20, <3>1 DEF Untouched, Invalidating
  <2> QED
    BY <2>1 DEF CacheMoves
<1>25. EntsKept(p)
  BY <1>3, <1>6, <1>14 DEF EntsKept
<1>26. EntsTyped'
  <2>1. dinode'[d].type = "dir"
    BY <1>7, <1>14
  <2>2. ASSUME NEW i \in Inums, i # d
        PROVE  dinode'[i].type = dinode[i].type /\ dinode'[i].ents = dinode[i].ents
    BY <1>14, <2>2
  <2> QED
    BY <1>2, <2>1, <2>2, Zenon DEF EntsTyped
<1>27. Acyclic'
  <2>1. ASSUME NEW r \in Procs, call'[r].at \in Making
        PROVE  /\ call[r].at \in Making /\ r # p
               /\ icache'[call'[r].ip].inum = icache[call[r].ip].inum
               /\ Fresh(r)' = Fresh(r)
               /\ icache[call[r].ip].inum # j
    <3>1. r # p
      BY <1>17, <1>19, <2>1 DEF Making
    <3>2. r \in Procs \ {p} /\ call'[r] = call[r] /\ call[r].at \in Making
      BY <1>19, <2>1, <3>1
    <3>3. icache'[call'[r].ip].inum = icache[call[r].ip].inum /\ Fresh(r)' = Fresh(r)
      <4>1. \A t \in Slots : icache'[t].inum = icache[t].inum
        BY <1>20
      <4> QED
        BY <3>2, <4>1, OthersMake
    <3>4. icache[call[r].ip].inum # j
      BY <1>7, <3>2, MakersIn
    <3> QED
      BY <3>1, <3>2, <3>3, <3>4
  <2>2. ASSUME NEW y \in Inums
        PROVE  ~Below(j, y)'
    <3>1. \A m \in Names : dinode'[j].ents[m] # y
      <4>1. dinode'[j].ents = dinode[j].ents
        BY <1>7, <1>14
      <4>2. \A m \in Names : dinode[j].ents[m] = None
        BY <1>2, <1>7 DEF EntsTyped
      <4> QED
        BY <4>1, <4>2, Numbers
    <3> QED
      BY <2>1, <3>1 DEF Below
  <2>3. ASSUME NEW x \in Inums, NEW y \in Inums, Below(x, y)', y # j
        PROVE  Below(x, y)
    <3>1. ASSUME NEW m \in Names, dinode'[x].ents[m] = y
          PROVE  dinode[x].ents[m] = y
      <4>1. m \in DirNames
        BY DEF DirNames
      <4>2. CASE x = d
        <5>1. e[m] = y
          BY <1>14, <3>1, <4>2
        <5>2. m # n
          BY <1>9, <1>10, <2>3, <4>1, <5>1
        <5> QED
          BY <1>11, <4>1, <4>2, <5>1, <5>2
      <4>3. CASE x # d
        BY <1>14, <3>1, <4>3
      <4> QED
        BY <4>2, <4>3
    <3> QED
      BY <2>1, <2>3, <3>1 DEF Below
  <2> QED
    BY <1>2, <2>2, <2>3, NewLeaf
<1>28. VictimIs(p)'
  BY <1>17, <1>19 DEF VictimIs
<1>29. \A t \in Slots :
         /\ icache'[t].ref = icache[t].ref /\ icache'[t].inum = icache[t].inum
         /\ icache'[t].valid = icache[t].valid
         /\ \/ icache'[t].lock = icache[t].lock
            \/ icache[t].lock = p /\ icache'[t].lock = NoProc
         /\ icache'[t].lock = p <=> HasLock(c, t)
         /\ Mine(cwd[p], fd[p], c, t) = MineOf(p, t)
  BY <1>20, <1>21, <1>22, <1>23, Numbers
<1>30. \A i \in Inums : dinode'[i].type = dinode[i].type \/ dinode[i].type = "free"
  BY <1>14
<1>31. c.stage # "free" /\ (c.at # "user" => call[p].at # "user")
  BY <1>17
<1> QED
  BY <1>1, <1>14, <1>17, <1>18, <1>20, <1>24, <1>25, <1>26, <1>27, <1>28, <1>29, <1>30, <1>31,
     NamesStep

LEMMA DirlinkStep ==
  ASSUME IInv, NEW p \in Procs, Dirlink(p)
  PROVE  IInv'
<1>1. Doing(p, "dirlink")
  BY DEF Dirlink
<1>2. PICK s, o : s = call[p].ip /\ o = call[p].obj
  OBVIOUS
<1>3. s \in Slots /\ icache[s].inum \in Inums /\ call[p].name \in DirNames
  BY <1>1, <1>2, ParentAt DEF InParent, Doing
<1>4. CASE Entry(s, call[p].name) # None
  <2>1. PICK i \in Inums : i = Entry(s, call[p].name)
    BY <1>3, <1>4, EntryTyped
  <2>2. CASE ~CanGet(i)
    <3>1. Panic
      BY <1>2, <1>4, <2>1, <2>2 DEF Dirlink
    <3>2. dinode' \in [Inums -> DiskRec]
      BY <3>1 DEF Panic, IInv, Typed
    <3> QED
      BY <3>1, <3>2, PanicStep DEF Panic
  <2>3. CASE CanGet(i)
    <3>1. PICK u : u = SlotFor(i)
      OBVIOUS
    <3>2. icache' = Iget(icache, i) /\ Goon(p, "taken", <<u>>)
          /\ UNCHANGED <<dinode, cwd, fd, calls, panic>>
      BY <1>2, <1>4, <2>1, <2>3, <3>1 DEF Dirlink
    <3> QED
      BY <1>1, <2>3, <3>1, <3>2, DirlinkGets
  <2> QED
    BY <2>2, <2>3
<1>5. CASE Entry(s, call[p].name) = None
  <2>1. /\ dinode' = [dinode EXCEPT ![icache[s].inum].ents[call[p].name] = icache[o].inum]
        /\ icache' = Unlock(icache, s) /\ End(p, <<s, o>>)
        /\ UNCHANGED <<cwd, fd, calls, panic>>
    BY <1>2, <1>5 DEF Dirlink
  <2> QED
    BY <1>1, <1>2, <2>1, DirlinkGives
<1> QED
  BY <1>4, <1>5

\* unlink() takes the name.
Unnamed(r, m, n) == [r EXCEPT !.ents = [r.ents EXCEPT ![m] = None], !.nlink = n]
Replaced(D, d, r) == [D EXCEPT ![d] = r]

LEMMA UnlinkTakes ==
  ASSUME IInv, NEW p \in Procs, Doing(p, "both"), NEW s \in Slots, call[p].ip = s, NEW n \in Int,
         NEW d \in Inums, icache[s].inum = d, NEW r, r = Unnamed(dinode[d], call[p].name, n),
         dinode' = Replaced(dinode, d, r),
         icache' = Unlock(SetLinks(icache, s, n), s), Goon(p, "victimless", <<s>>),
         UNCHANGED <<cwd, fd, calls, panic>>
  PROVE  IInv'
<1>1. ~panic /\ call[p].at = "both" /\ call[p].puts = <<>>
  BY DEF Doing
<1>2. /\ Typed /\ FirmTyped(p) /\ call[p] \in CallRec /\ CallOK(call[p])
      /\ call[p].stage = "lock" /\ LocksExact /\ EntsTyped /\ Acyclic /\ Counted /\ Numbered
      /\ OneEntry
  BY <1>1, Quiet DEF IInv
<1>3. s \in Slots /\ icache[s].lock = p /\ icache[s].inum \in Inums /\ icache[s].ref > 0
      /\ DiskType(s) = "dir" /\ icache[s].type = "dir" /\ call[p].name \in DirNames
  BY <1>1, ParentAt DEF InParent
<1>4. PICK o \in Slots : o = call[p].obj /\ o # s
  BY <1>1, <1>2 DEF CallOK, WithObj, Walking
<1>5. d \in Inums /\ \E m \in DirNames : m = call[p].name
  BY <1>3
<1> PICK m \in DirNames : m = call[p].name
  BY <1>5
<1>6. dinode \in [Inums -> DiskRec] /\ dinode[d].type = "dir"
  BY <1>2, <1>3, <1>5 DEF Typed, DiskType
<1>7. PICK e : e = [dinode[d].ents EXCEPT ![m] = None]
  OBVIOUS
<1>8. dinode[d].ents \in [DirNames -> Inums \cup {None}]
  BY <1>5, <1>6 DEF DiskRec
<1>9. e \in [DirNames -> Inums \cup {None}] /\ e[m] = None
      /\ \A x \in DirNames \ {m} : e[x] = dinode[d].ents[x]
  BY <1>7, <1>8
<1>10. r = [dinode[d] EXCEPT !.ents = e, !.nlink = n]
  BY <1>7 DEF Unnamed
<1>11. r \in DiskRec /\ r.type = dinode[d].type /\ r.nlink = n /\ r.ents = e
  <2>1. dinode[d] \in DiskRec /\ e \in [DirNames -> Inums \cup {None}]
    BY <1>5, <1>6, <1>9
  <2> QED
    BY <1>10, <2>1 DEF DiskRec
<1>12. /\ dinode' \in [Inums -> DiskRec] /\ dinode'[d].ents = e /\ dinode'[d].nlink = n
       /\ \A i \in Inums : /\ dinode'[i].type = dinode[i].type
                           /\ i # d => /\ dinode'[i].ents = dinode[i].ents
                                       /\ dinode'[i].nlink = dinode[i].nlink
  <2>1. dinode' = [dinode EXCEPT ![d] = r]
    BY DEF Replaced
  <2> QED
    BY <1>5, <1>6, <1>11, <2>1
<1>13. /\ icache' \in [Slots -> CacheRec]
       /\ \A t \in Slots :
            /\ icache'[t].lock = IF t = s THEN NoProc ELSE icache[t].lock
            /\ icache'[t].ref = icache[t].ref /\ icache'[t].inum = icache[t].inum
            /\ icache'[t].valid = icache[t].valid /\ icache'[t].type = icache[t].type
            /\ icache'[t].nlink = IF t = s THEN n ELSE icache[t].nlink
  <2>1. icache \in [Slots -> CacheRec]
    BY <1>2 DEF Typed
  <2>2. PICK g : g = SetLinks(icache, s, n)
    OBVIOUS
  <2>3. g \in [Slots -> CacheRec]
    BY <2>1, <2>2 DEF CacheRec, SetLinks
  <2>4. \A t \in Slots :
          /\ g[t].ref = icache[t].ref /\ g[t].inum = icache[t].inum
          /\ g[t].valid = icache[t].valid /\ g[t].type = icache[t].type
          /\ g[t].nlink = IF t = s THEN n ELSE icache[t].nlink
          /\ g[t].lock = icache[t].lock
    BY <1>3, <2>1, <2>2 DEF CacheRec, SetLinks
  <2>5. icache' = [g EXCEPT ![s].lock = NoProc]
    BY <2>2 DEF Unlock
  <2>6. icache' \in [Slots -> CacheRec]
    BY <1>3, <2>3, <2>5 DEF CacheRec
  <2>7. \A t \in Slots :
          /\ icache'[t].lock = IF t = s THEN NoProc ELSE g[t].lock
          /\ icache'[t].ref = g[t].ref /\ icache'[t].inum = g[t].inum
          /\ icache'[t].valid = g[t].valid /\ icache'[t].type = g[t].type
          /\ icache'[t].nlink = g[t].nlink
    BY <1>3, <2>3, <2>5 DEF CacheRec
  <2>8. ASSUME NEW t \in Slots
        PROVE  /\ icache'[t].lock = IF t = s THEN NoProc ELSE icache[t].lock
               /\ icache'[t].ref = icache[t].ref /\ icache'[t].inum = icache[t].inum
               /\ icache'[t].valid = icache[t].valid /\ icache'[t].type = icache[t].type
               /\ icache'[t].nlink = IF t = s THEN n ELSE icache[t].nlink
    <3>1. icache'[t].lock = IF t = s THEN NoProc ELSE icache[t].lock
      BY <2>4, <2>7
    <3>2. icache'[t].nlink = IF t = s THEN n ELSE icache[t].nlink
      BY <2>4, <2>7
    <3>3. icache'[t].ref = icache[t].ref /\ icache'[t].inum = icache[t].inum
      BY <2>4, <2>7
    <3>4. icache'[t].valid = icache[t].valid /\ icache'[t].type = icache[t].type
      BY <2>4, <2>7
    <3> QED
      BY <3>1, <3>2, <3>3, <3>4
  <2> QED
    BY <2>6, <2>8
<1>14. PICK q \in PutLists : q = <<s>>
  BY <1>3, Lists
<1>15. First(q) = s /\ Second(q) = None
  BY <1>14, Lists
<1>16. PICK c : c = [call[p] EXCEPT !.at = "victimless", !.puts = q]
  OBVIOUS
<1>17. Become(p, c)
  BY <1>14, <1>16 DEF Goon
<1>18. /\ c \in CallRec /\ c.at = "victimless" /\ c.obj = o /\ c.puts = q /\ c.stage = "lock"
  BY <1>2, <1>4, <1>16 DEF CallRec, Ats, WithObj
<1>19. CallOK(c)
  BY <1>4, <1>18 DEF CallOK, WithIp, WithObj, Walking, Making, InParent, NoPuts
<1>20. ~AtParent(c) /\ ~Linking(c)
  BY <1>18 DEF AtParent, Linking, InParent, Walking
<1>21. call'[p] = c /\ \A x \in Procs \ {p} : call'[x] = call[x]
  BY <1>2, <1>17, <1>18, Became
<1>22. \A t \in Slots : icache[t].lock = p <=> t \in {s, o}
  BY <1>1, <1>2, <1>4, Quiet DEF IpLocked, ObjLocked
<1>23. \A t \in Slots : HasLock(c, t) <=> t = o
  BY <1>18 DEF HasLock, IpLocked, ObjLocked
<1>24. ASSUME NEW t \in Slots
       PROVE  Mine(cwd[p], fd[p], c, t) = MineOf(p, t)
  <2>1. /\ c.at \notin WithIp /\ c.at \in WithObj
        /\ call[p].at \in WithIp /\ call[p].at \in WithObj /\ None # t
    BY <1>1, <1>18, Numbers DEF WithIp, WithObj
  <2>2. Mine(cwd[p], fd[p], c, t) = One(cwd[p] = t) + One(fd[p] = t) + One(FALSE)
                                    + One(o = t) + One(s = t) + One(FALSE)
    BY <1>15, <1>18, <2>1 DEF Mine, One
  <2>3. MineOf(p, t) = One(cwd[p] = t) + One(fd[p] = t)
                       + One(call[p].at \in WithIp /\ call[p].ip = t)
                       + One(call[p].at \in WithObj /\ call[p].obj = t)
    BY <1>1, Quiet
  <2> QED
    BY <1>4, <2>1, <2>2, <2>3 DEF One
<1>25. CacheMoves(p)
  <2>1. Loaded(s)
    <3>1. icache[s].valid /\ icache[s].type = DiskType(s) /\ icache[s].type # "free"
      BY <1>1, <1>2, <1>3, LockedIs
    <3> QED
      BY <1>3, <1>5, <1>12, <1>13, <3>1 DEF Loaded, DiskType
  <2>2. ASSUME NEW t \in Slots \ {s}, icache[t].ref > 0
        PROVE  Untouched(p, t)
    <3>1. icache[t].inum \in Inums /\ icache[t].inum # d
      BY <1>2, <1>3, <1>5, <2>2 DEF Numbered, OneEntry
    <3> QED
      BY <1>2, <1>12, <1>13, <2>2, <3>1 DEF Untouched, Invalidating
  <2> QED
    BY <2>1, <2>2 DEF CacheMoves
<1>26. EntsKept(p)
  BY <1>3, <1>5, <1>12 DEF EntsKept
<1>27. EntsTyped'
  <2>1. dinode'[d].type = "dir"
    BY <1>5, <1>6, <1>12
  <2>2. ASSUME NEW i \in Inums, i # d
        PROVE  dinode'[i].type = dinode[i].type /\ dinode'[i].ents = dinode[i].ents
    BY <1>12, <2>2
  <2>3. ASSUME NEW i \in Inums, dinode'[i].type = "free"
        PROVE  dinode'[i].ents = NoEntries
    <3>1. i # d
      BY <2>1, <2>3
    <3> QED
      BY <1>2, <2>2, <2>3, <3>1 DEF EntsTyped
  <2>4. ASSUME NEW i \in Inums, NEW a \in Names, dinode'[i].type # "dir"
        PROVE  dinode'[i].ents[a] = None
    <3>1. i # d
      BY <2>1, <2>4
    <3> QED
      BY <1>2, <2>2, <2>4, <3>1 DEF EntsTyped
  <2> QED
    BY <2>3, <2>4 DEF EntsTyped
<1>28. Acyclic'
  <2>1. ASSUME NEW x \in Procs, call'[x].at \in Making
        PROVE  /\ call[x].at \in Making
               /\ icache'[call'[x].ip].inum = icache[call[x].ip].inum
               /\ Fresh(x)' = Fresh(x)
    <3>1. x # p
      BY <1>18, <1>21, <2>1 DEF Making
    <3>2. x \in Procs \ {p} /\ call'[x] = call[x] /\ call[x].at \in Making
      BY <1>21, <2>1, <3>1
    <3>3. \A t \in Slots : icache'[t].inum = icache[t].inum
      BY <1>13
    <3> QED
      BY <3>2, <3>3, OthersMake
  <2>2. ASSUME NEW x \in Inums, NEW y \in Inums, Below(x, y)'
        PROVE  Below(x, y)
    <3>1. ASSUME NEW a \in Names, dinode'[x].ents[a] = y
          PROVE  dinode[x].ents[a] = y
      <4>1. a \in DirNames
        BY DEF DirNames
      <4>2. CASE x = d
        BY <1>9, <1>12, <3>1, <4>1, <4>2, Numbers
      <4>3. CASE x # d
        BY <1>12, <3>1, <4>3
      <4> QED
        BY <4>2, <4>3
    <3> QED
      BY <2>1, <2>2, <3>1 DEF Below
  <2> QED
    BY <1>2, <2>2, Fewer
<1>29. VictimIs(p)'
  BY <1>18, <1>21 DEF VictimIs
<1>30. \A t \in Slots :
         /\ icache'[t].ref = icache[t].ref /\ icache'[t].inum = icache[t].inum
         /\ icache'[t].valid = icache[t].valid
         /\ \/ icache'[t].lock = icache[t].lock
            \/ icache[t].lock = p /\ icache'[t].lock = NoProc
         /\ icache'[t].lock = p <=> HasLock(c, t)
         /\ Mine(cwd[p], fd[p], c, t) = MineOf(p, t)
  <2>1. ASSUME NEW t \in Slots
        PROVE  /\ \/ icache'[t].lock = icache[t].lock
                  \/ icache[t].lock = p /\ icache'[t].lock = NoProc
               /\ icache'[t].lock = p <=> HasLock(c, t)
    <3>1. CASE t = s
      <4>1. icache[t].lock = p /\ icache'[t].lock = NoProc /\ NoProc # p
        BY <1>3, <1>13, <3>1, Numbers
      <4>2. ~HasLock(c, t)
        BY <1>4, <1>23, <3>1
      <4> QED
        BY <4>1, <4>2
    <3>2. CASE t # s
      <4>1. icache'[t].lock = icache[t].lock
        BY <1>13, <3>2
      <4>2. icache[t].lock = p <=> t = o
        BY <1>22, <3>2
      <4> QED
        BY <1>23, <4>1, <4>2
    <3> QED
      BY <3>1, <3>2
  <2> QED
    BY <1>13, <1>24, <2>1
<1>31. \A i \in Inums : dinode'[i].type = dinode[i].type \/ dinode[i].type = "free"
  BY <1>12
<1>32. c.stage # "free" /\ call[p].at # "user"
  BY <1>1, <1>18
<1> QED
  BY <1>1, <1>12, <1>13, <1>17, <1>18, <1>19, <1>20, <1>25, <1>26, <1>27, <1>28, <1>29, <1>30,
     <1>31, <1>32, NamesStep

LEMMA UnlinkEntryStep ==
  ASSUME IInv, NEW p \in Procs, UnlinkEntry(p)
  PROVE  IInv'
<1>1. Doing(p, "both")
  BY DEF UnlinkEntry
<1>2. CASE Panic
  <2>1. dinode' \in [Inums -> DiskRec]
    BY <1>2 DEF Panic, IInv, Typed
  <2> QED
    BY <1>2, <2>1, PanicStep DEF Panic
<1>3. CASE ~Panic
  <2>1. PICK s \in Slots : s = call[p].ip /\ icache[s] \in CacheRec
    BY <1>1 DEF IInv, CallOK, WithIp, Doing, Typed
  <2>2. PICK n \in Int : n = icache[s].nlink - IF icache[call[p].obj].type = "dir" THEN 1 ELSE 0
    BY <2>1 DEF CacheRec
  <2>3. PICK d, m, r : d = icache[s].inum /\ m = call[p].name /\ r = Unnamed(dinode[d], m, n)
    OBVIOUS
  <2>4. /\ dinode' = [dinode EXCEPT ![d].ents[m] = None, ![d].nlink = n]
        /\ icache' = Unlock(SetLinks(icache, s, n), s) /\ Goon(p, "victimless", <<s>>)
        /\ UNCHANGED <<cwd, fd, calls, panic>>
    BY <1>3, <2>1, <2>2, <2>3 DEF UnlinkEntry
  <2>5. dinode \in [Inums -> DiskRec] /\ d \in Inums /\ icache[s].inum = d
    BY <1>1, <2>1, <2>3, ParentAt DEF InParent, IInv, Typed, Doing
  <2>6. dinode' = Replaced(dinode, d, r)
    BY <2>3, <2>4, <2>5 DEF Unnamed, Replaced, DiskRec
  <2>7. call[p].ip = s /\ r = Unnamed(dinode[d], call[p].name, n)
    BY <2>1, <2>3
  <2> QED
    BY <1>1, <2>4, <2>5, <2>6, <2>7, UnlinkTakes
<1> QED
  BY <1>2, <1>3

\* create() gives the name, to an inode with the entries "dots".
Filled(r, dots) == [r EXCEPT !.nlink = 1, !.ents = dots]
Named(r, m, i, n) == [r EXCEPT !.nlink = n, !.ents = [r.ents EXCEPT ![m] = i]]

LEMMA DotsAre ==
  ASSUME NEW op, NEW i \in Inums, NEW d \in Inums, NEW dots, dots = Dots(op, i, d)
  PROVE  dots \in [DirNames -> Inums \cup {None}] /\ \A n \in Names : dots[n] = None
<1>1. NoEntries \in [DirNames -> Inums \cup {None}] /\ \A n \in DirNames : NoEntries[n] = None
  BY DEF NoEntries
<1>2. PICK z : z = NoEntries
  OBVIOUS
<1>3. "." \notin Names /\ ".." \notin Names
  <2>1. {".", "..", "/", ""} \cap Names = {}
    BY InodesAssumption, Zenon
  <2> QED
    BY <2>1, Zenon
<1>4. Names \subseteq DirNames
  BY DEF DirNames
<1>5. CASE op = "mkdir"
  <2>1. dots = [z EXCEPT !["."] = i, ![".."] = d]
    BY <1>2, <1>5 DEF Dots
  <2>2. dots \in [DirNames -> Inums \cup {None}]
    BY <1>1, <1>2, <2>1
  <2>3. ASSUME NEW n \in Names
        PROVE  dots[n] = None
    BY <1>1, <1>2, <1>3, <1>4, <2>1
  <2> QED
    BY <2>2, <2>3
<1>6. CASE op # "mkdir"
  BY <1>1, <1>4, <1>6 DEF Dots
<1> QED
  BY <1>5, <1>6

LEMMA FilledIs ==
  ASSUME NEW z \in DiskRec, NEW dots \in [DirNames -> Inums \cup {None}],
         NEW r, r = Filled(z, dots)
  PROVE  r \in DiskRec /\ r.type = z.type /\ r.nlink = 1 /\ r.ents = dots
<1>1. PICK k \in Int : k = 1
  OBVIOUS
<1>2. PICK y : y = [z EXCEPT !.nlink = k]
  OBVIOUS
<1>3. y \in DiskRec
  BY <1>2 DEF DiskRec
<1>4. y.type = z.type /\ y.nlink = k
  BY <1>2 DEF DiskRec
<1>5. r = [y EXCEPT !.ents = dots]
  BY <1>1, <1>2 DEF Filled
<1>6. r \in DiskRec
  BY <1>3, <1>5 DEF DiskRec
<1>7. r.type = y.type /\ r.nlink = y.nlink /\ r.ents = dots
  BY <1>3, <1>5 DEF DiskRec
<1> QED
  BY <1>1, <1>4, <1>6, <1>7

LEMMA NamedIs ==
  ASSUME NEW z \in DiskRec, NEW m \in DirNames, NEW i \in Inums, NEW n \in Int,
         NEW r, r = Named(z, m, i, n)
  PROVE  /\ r \in DiskRec /\ r.type = z.type /\ r.nlink = n
         /\ r.ents \in [DirNames -> Inums \cup {None}] /\ r.ents[m] = i
         /\ \A x \in DirNames \ {m} : r.ents[x] = z.ents[x]
<1>0. PICK e : e = [z.ents EXCEPT ![m] = i]
  OBVIOUS
<1>1. z.ents \in [DirNames -> Inums \cup {None}]
  BY DEF DiskRec
<1>2. e \in [DirNames -> Inums \cup {None}] /\ e[m] = i
      /\ \A x \in DirNames \ {m} : e[x] = z.ents[x]
  BY <1>0, <1>1
<1>3. PICK f : f = e
  OBVIOUS
<1>4. PICK y : y = [z EXCEPT !.nlink = n]
  OBVIOUS
<1>5. y \in DiskRec
  BY <1>4 DEF DiskRec
<1>6. y.type = z.type /\ y.nlink = n
  BY <1>4 DEF DiskRec
<1>7. r = [y EXCEPT !.ents = f]
  BY <1>0, <1>3, <1>4 DEF Named
<1>8. r \in DiskRec
  BY <1>2, <1>3, <1>5, <1>7 DEF DiskRec
<1>9. r.type = y.type /\ r.nlink = y.nlink /\ r.ents = f
  BY <1>5, <1>7 DEF DiskRec
<1> QED
  BY <1>2, <1>3, <1>6, <1>8, <1>9

\* What create() does, for the parent's slot s and the new inode's slot o.
Gives(p, s, o, d, i, n, c) ==
  /\ Doing(p, "fill") /\ call[p].ip = s /\ call[p].obj = o
  /\ icache[s].inum = d /\ icache[o].inum = i /\ i # d
  /\ call[p].name \in DirNames /\ dinode' \in [Inums -> DiskRec]
  /\ \A x \in Inums : dinode'[x].type = dinode[x].type
  /\ dinode'[i].nlink = 1 /\ \A a \in Names : dinode'[i].ents[a] = None
  /\ dinode'[d].nlink = n /\ dinode'[d].ents[call[p].name] = i
  /\ \A a \in DirNames \ {call[p].name} : dinode'[d].ents[a] = dinode[d].ents[a]
  /\ \A x \in Inums \ {i, d} : dinode'[x] = dinode[x]
  /\ icache' = Unlock(SetLinks(SetLinks(icache, o, 1), s, n), s)
  /\ c.at \in {"open", "done"} /\ c.ip = o /\ c.stage = "lock"
  /\ First(c.puts) = s /\ Second(c.puts) = None /\ c.op = call[p].op
  /\ Become(p, c) /\ UNCHANGED <<cwd, fd, calls, panic>>

LEMMA CreateGives ==
  ASSUME IInv, NEW p \in Procs, NEW s \in Slots, NEW o \in Slots, NEW d \in Inums,
         NEW i \in Inums, NEW n \in Int, NEW c \in CallRec, Gives(p, s, o, d, i, n, c)
  PROVE  IInv'
<1> USE DEF Gives
<1>1. ~panic /\ call[p].at = "fill" /\ call[p].puts = <<>>
  BY DEF Doing
<1>2. /\ Typed /\ FirmTyped(p) /\ call[p] \in CallRec /\ CallOK(call[p])
      /\ call[p].stage = "lock" /\ LocksExact /\ EntsTyped /\ Acyclic /\ Counted /\ Numbered
      /\ OneEntry
  BY <1>1, Quiet DEF IInv
<1>3. \A t \in Slots : icache[t].lock = p <=> t \in {s, o}
  <2>1. \A t \in Slots : HasLock(call[p], t) <=> t \in {s, o}
    BY <1>1, Quiet DEF IpLocked, ObjLocked
  <2> QED
    BY <1>2, <2>1 DEF LocksExact
<1>4. /\ icache[s].ref > 0 /\ icache[s].valid /\ icache[s].type # "free"
      /\ dinode[d].type = icache[s].type
  BY <1>1, <1>2, <1>3, LockedIs DEF DiskType
<1>5. /\ icache[o].ref > 0 /\ icache[o].valid /\ icache[o].type # "free"
      /\ dinode[i].type = icache[o].type
  BY <1>1, <1>2, <1>3, LockedIs DEF DiskType
<1>6. dinode[d].type = "dir" /\ s # o
  <2>1. DiskType(s) = "dir"
    BY <1>1, ParentAt DEF InParent
  <2> QED
    BY <2>1 DEF DiskType
<1>7. dinode[d] \in DiskRec /\ dinode[i] \in DiskRec /\ dinode \in [Inums -> DiskRec]
  BY <1>2 DEF Typed
<1>8. PICK m \in DirNames : m = call[p].name
  OBVIOUS
<1>9. PICK ri \in DiskRec, rd \in DiskRec : ri = dinode'[i] /\ rd = dinode'[d]
  OBVIOUS
<1>10. PICK q, at : q = c.puts /\ at = c.at
  OBVIOUS
<1>11. rd.ents[m] = i /\ \A x \in DirNames \ {m} : rd.ents[x] = dinode[d].ents[x]
  BY <1>8, <1>9
<1>12. ri.type = dinode[i].type /\ ri.nlink = 1 /\ \A a \in Names : ri.ents[a] = None
  BY <1>9
<1>13. rd.type = dinode[d].type /\ rd.nlink = n
  BY <1>9
<1>14. /\ dinode' \in [Inums -> DiskRec] /\ dinode'[d] = rd /\ dinode'[i] = ri
       /\ \A x \in Inums \ {i, d} : dinode'[x] = dinode[x]
  BY <1>9
<1>15. \A x \in Inums : dinode'[x].type = dinode[x].type
  OBVIOUS
<1>16. /\ icache' \in [Slots -> CacheRec]
       /\ \A t \in Slots :
            /\ icache'[t].ref = icache[t].ref /\ icache'[t].inum = icache[t].inum
            /\ icache'[t].valid = icache[t].valid /\ icache'[t].type = icache[t].type
            /\ t # s => icache'[t].lock = icache[t].lock
            /\ t \notin {s, o} => icache'[t].nlink = icache[t].nlink
       /\ icache'[s].lock = NoProc /\ icache'[s].nlink = n /\ icache'[o].nlink = 1
  <2>1. icache \in [Slots -> CacheRec]
    BY <1>2 DEF Typed
  <2>2. PICK f : f = SetLinks(icache, o, 1)
    OBVIOUS
  <2>3. PICK g : g = SetLinks(f, s, n)
    OBVIOUS
  <2>4. f \in [Slots -> CacheRec]
    BY <2>1, <2>2 DEF CacheRec, SetLinks
  <2>5. g \in [Slots -> CacheRec]
    BY <2>3, <2>4 DEF CacheRec, SetLinks
  <2>6. /\ f[o].nlink = 1 /\ \A t \in Slots \ {o} : f[t].nlink = icache[t].nlink
        /\ \A t \in Slots :
             /\ f[t].ref = icache[t].ref /\ f[t].inum = icache[t].inum
             /\ f[t].valid = icache[t].valid /\ f[t].type = icache[t].type
             /\ f[t].lock = icache[t].lock
    BY <2>1, <2>2 DEF CacheRec, SetLinks
  <2>7. /\ g[s].nlink = n /\ \A t \in Slots \ {s} : g[t].nlink = f[t].nlink
        /\ \A t \in Slots :
             /\ g[t].ref = f[t].ref /\ g[t].inum = f[t].inum
             /\ g[t].valid = f[t].valid /\ g[t].type = f[t].type
             /\ g[t].lock = f[t].lock
    BY <2>3, <2>4 DEF CacheRec, SetLinks
  <2>8. icache' = [g EXCEPT ![s].lock = NoProc]
    BY <2>2, <2>3 DEF Unlock
  <2>9. icache' \in [Slots -> CacheRec]
    BY <2>5, <2>8 DEF CacheRec
  <2>10. /\ icache'[s].lock = NoProc /\ \A t \in Slots \ {s} : icache'[t].lock = g[t].lock
         /\ \A t \in Slots :
             /\ icache'[t].ref = g[t].ref /\ icache'[t].inum = g[t].inum
             /\ icache'[t].valid = g[t].valid /\ icache'[t].type = g[t].type
             /\ icache'[t].nlink = g[t].nlink
    BY <2>5, <2>8 DEF CacheRec
  <2>11. ASSUME NEW t \in Slots
         PROVE  /\ icache'[t].ref = icache[t].ref /\ icache'[t].inum = icache[t].inum
                /\ icache'[t].type = icache[t].type
    BY <2>6, <2>7, <2>10
  <2>12. \A t \in Slots : icache'[t].valid = icache[t].valid
    BY <2>6, <2>7, <2>10
  <2>13. ASSUME NEW t \in Slots
         PROVE  /\ t # s => icache'[t].lock = icache[t].lock
                /\ t \notin {s, o} => icache'[t].nlink = icache[t].nlink
    BY <2>6, <2>7, <2>10
  <2>14. icache'[s].lock = NoProc /\ icache'[s].nlink = n /\ icache'[o].nlink = 1
    BY <1>6, <2>6, <2>7, <2>10
  <2> QED
    BY <2>9, <2>11, <2>12, <2>13, <2>14
<1>17. First(q) = s /\ Second(q) = None
  BY <1>10
<1>18. /\ c \in CallRec /\ c.at = at /\ c.ip = o /\ c.puts = q /\ c.stage = "lock"
       /\ c.op = call[p].op /\ at \in {"open", "done"}
  BY <1>10
<1>19. CallOK(c)
  BY <1>18 DEF CallOK, WithIp, WithObj, Walking, Making, InParent, NoPuts
<1>20. ~AtParent(c) /\ ~Linking(c)
  BY <1>18 DEF AtParent, Linking, InParent, Walking
<1>21. call'[p] = c /\ \A x \in Procs \ {p} : call'[x] = call[x]
  BY <1>2, <1>18, Became
<1>22. \A t \in Slots : HasLock(c, t) <=> t = o
  BY <1>18 DEF HasLock, IpLocked, ObjLocked
<1>23. ASSUME NEW t \in Slots
       PROVE  Mine(cwd[p], fd[p], c, t) = MineOf(p, t)
  <2>1. /\ c.at \in WithIp /\ c.at \notin WithObj
        /\ call[p].at \in WithIp /\ call[p].at \in WithObj /\ None # t
    BY <1>1, <1>18, Numbers DEF WithIp, WithObj
  <2>2. Mine(cwd[p], fd[p], c, t) = One(cwd[p] = t) + One(fd[p] = t) + One(o = t)
                                    + One(FALSE) + One(s = t) + One(FALSE)
    BY <1>17, <1>18, <2>1 DEF Mine, One
  <2>3. MineOf(p, t) = One(cwd[p] = t) + One(fd[p] = t)
                       + One(call[p].at \in WithIp /\ call[p].ip = t)
                       + One(call[p].at \in WithObj /\ call[p].obj = t)
    BY <1>1, Quiet
  <2> QED
    BY <2>1, <2>2, <2>3 DEF One
<1>24. CacheMoves(p)
  <2>1. Loaded(s)
    BY <1>4, <1>13, <1>14, <1>16 DEF Loaded
  <2>2. Loaded(o)
    BY <1>5, <1>12, <1>14, <1>16 DEF Loaded
  <2>3. ASSUME NEW t \in Slots \ {s, o}, icache[t].ref > 0
        PROVE  Untouched(p, t)
    <3>1. icache[t].inum \in Inums \ {i, d}
      BY <1>2, <1>4, <1>5, <2>3 DEF Numbered, OneEntry
    <3> QED
      BY <1>2, <1>14, <1>16, <2>3, <3>1 DEF Untouched, Invalidating
  <2> QED
    BY <2>1, <2>2, <2>3 DEF CacheMoves
<1>25. EntsKept(p)
  BY <1>3, <1>4, <1>5, <1>14 DEF EntsKept
<1>26. EntsTyped'
  <2>1. dinode'[d].type = "dir" /\ dinode'[i].type # "free"
    BY <1>5, <1>6, <1>12, <1>13, <1>14
  <2>2. ASSUME NEW x \in Inums, dinode'[x].type = "free"
        PROVE  dinode'[x].ents = NoEntries
    <3>1. x \notin {i, d}
      BY <2>1, <2>2
    <3> QED
      BY <1>2, <1>14, <2>2, <3>1 DEF EntsTyped
  <2>3. ASSUME NEW x \in Inums, NEW a \in Names, dinode'[x].type # "dir"
        PROVE  dinode'[x].ents[a] = None
    <3>1. x # d
      BY <2>1, <2>3
    <3>2. CASE x = i
      BY <3>2
    <3>3. CASE x # i
      BY <1>2, <1>14, <2>3, <3>1, <3>3 DEF EntsTyped
    <3> QED
      BY <3>2, <3>3
  <2> QED
    BY <2>2, <2>3 DEF EntsTyped
<1>27. Acyclic'
  <2>1. ASSUME NEW x \in Procs, call'[x].at \in Making
        PROVE  /\ call[x].at \in Making
               /\ icache'[call'[x].ip].inum = icache[call[x].ip].inum
               /\ Fresh(x)' = Fresh(x)
    <3>1. x # p
      BY <1>18, <1>21, <2>1 DEF Making
    <3>2. x \in Procs \ {p} /\ call'[x] = call[x] /\ call[x].at \in Making
      BY <1>21, <2>1, <3>1
    <3>3. \A t \in Slots : icache'[t].inum = icache[t].inum
      BY <1>16
    <3> QED
      BY <3>2, <3>3, OthersMake
  <2>2. Below(d, i)
    BY <1>1 DEF Below, Fresh, Making
  <2>3. ASSUME NEW x \in Inums, NEW y \in Inums, Below(x, y)'
        PROVE  Below(x, y)
    <3>1. ASSUME NEW a \in Names, dinode'[x].ents[a] = y
          PROVE  Below(x, y)
      <4>1. a \in DirNames /\ y # None
        BY Numbers DEF DirNames
      <4>2. CASE x = d
        <5>1. rd.ents[a] = y
          BY <1>13, <1>14, <3>1, <4>2
        <5>2. CASE a = m
          BY <1>11, <2>2, <4>2, <5>1, <5>2
        <5>3. CASE a # m
          <6>1. dinode[x].ents[a] = y
            BY <1>11, <4>1, <4>2, <5>1, <5>3
          <6> QED
            BY <6>1 DEF Below
        <5> QED
          BY <5>2, <5>3
      <4>3. CASE x = i
        BY <1>12, <1>14, <3>1, <4>1, <4>3
      <4>4. CASE x \notin {i, d}
        <5>1. dinode[x].ents[a] = y
          BY <1>14, <3>1, <4>4
        <5> QED
          BY <5>1 DEF Below
      <4> QED
        BY <4>2, <4>3, <4>4
    <3>2. ASSUME NEW z \in Procs, call'[z].at \in Making,
                 icache'[call'[z].ip].inum = x, Fresh(z)' = y
          PROVE  Below(x, y)
      BY <2>1, <3>2 DEF Below
    <3> QED
      BY <2>3, <3>1, <3>2 DEF Below
  <2> QED
    BY <1>2, <2>3, Fewer
<1>28. VictimIs(p)'
  BY <1>18, <1>21 DEF VictimIs
<1>29. \A t \in Slots :
         /\ icache'[t].ref = icache[t].ref /\ icache'[t].inum = icache[t].inum
         /\ icache'[t].valid = icache[t].valid
         /\ \/ icache'[t].lock = icache[t].lock
            \/ icache[t].lock = p /\ icache'[t].lock = NoProc
         /\ icache'[t].lock = p <=> HasLock(c, t)
         /\ Mine(cwd[p], fd[p], c, t) = MineOf(p, t)
  <2>1. ASSUME NEW t \in Slots
        PROVE  /\ \/ icache'[t].lock = icache[t].lock
                  \/ icache[t].lock = p /\ icache'[t].lock = NoProc
               /\ icache'[t].lock = p <=> HasLock(c, t)
    <3>1. CASE t = s
      <4>1. icache[t].lock = p /\ icache'[t].lock = NoProc /\ NoProc # p
        BY <1>3, <1>16, <3>1, Numbers
      <4>2. ~HasLock(c, t)
        BY <1>6, <1>22, <3>1
      <4> QED
        BY <4>1, <4>2
    <3>2. CASE t # s
      <4>1. icache'[t].lock = icache[t].lock
        BY <1>16, <3>2
      <4>2. icache[t].lock = p <=> t = o
        BY <1>3, <3>2
      <4> QED
        BY <1>22, <4>1, <4>2
    <3> QED
      BY <3>1, <3>2
  <2> QED
    BY <1>16, <1>23, <2>1
<1>30. \A x \in Inums : dinode'[x].type = dinode[x].type \/ dinode[x].type = "free"
  BY <1>15
<1>31. c.stage # "free" /\ call[p].at # "user"
  BY <1>1, <1>18
<1> QED
  BY <1>1, <1>14, <1>16, <1>18, <1>19, <1>20, <1>24, <1>25, <1>26, <1>27, <1>28, <1>29, <1>30,
     <1>31, NamesStep

LEMMA CreateLinkStep ==
  ASSUME IInv, NEW p \in Procs, CreateLink(p)
  PROVE  IInv'
<1>1. Doing(p, "fill") /\ call[p].at = "fill" /\ call[p].puts = <<>> /\ ~panic
  BY DEF CreateLink, Doing
<1>2. Typed /\ CallOK(call[p]) /\ OneEntry /\ call[p] \in CallRec
  BY DEF IInv, Typed
<1>3. PICK s \in Slots, o \in Slots : s = call[p].ip /\ o = call[p].obj
  BY <1>1, <1>2 DEF CallOK, WithIp, WithObj, Walking
<1>4. /\ icache[s].inum \in Inums /\ icache[s].ref > 0 /\ call[p].name \in DirNames
      /\ icache[s].nlink = dinode[icache[s].inum].nlink
  BY <1>1, <1>3, ParentAt DEF InParent
<1>5. icache[o].inum \in Inums /\ icache[o].ref > 0
  <2>1. HoldsSlot(p, o)
    BY <1>1, <1>3 DEF HoldsSlot, Holds, WithObj
  <2> QED
    BY <2>1, Referenced DEF IInv, Numbered
<1>6. PICK d \in Inums, i \in Inums, m \in DirNames :
        d = icache[s].inum /\ i = icache[o].inum /\ m = call[p].name
  BY <1>4, <1>5
<1>7. i # d
  <2>1. s # o
    BY <1>1, <1>2, <1>3 DEF CallOK
  <2> QED
    BY <1>2, <1>4, <1>5, <1>6, <2>1 DEF OneEntry
<1>8. icache[s].nlink \in Int
  BY <1>2 DEF Typed, CacheRec
<1>9. PICK n \in Int : n = icache[s].nlink + IF call[p].op = "mkdir" THEN 1 ELSE 0
  BY <1>8
<1>10a. PICK dots : dots = Dots(call[p].op, i, d)
  OBVIOUS
<1>10b. PICK at \in {"open", "done"} : at = IF call[p].op = "create" THEN "open" ELSE "done"
  OBVIOUS
<1>10c. PICK q \in PutLists : q = <<s>> /\ First(q) = s /\ Second(q) = None
  BY Lists
<1>11. PICK ri, rd, c :
         /\ ri = Filled(dinode[i], dots)
         /\ rd = Named(dinode[d], m, i, n)
         /\ c = [call[p] EXCEPT !.at = at, !.ip = o, !.puts = q]
  OBVIOUS
<1>12. /\ icache' = Unlock(SetLinks(SetLinks(icache, o, 1), s, n), s)
       /\ dinode' = [dinode EXCEPT ![i].nlink = 1, ![i].ents = dots,
                                   ![d].nlink = n, ![d].ents[m] = i]
       /\ Become(p, c) /\ UNCHANGED <<cwd, fd, calls, panic>>
  BY <1>3, <1>6, <1>9, <1>10a, <1>10b, <1>10c, <1>11 DEF CreateLink
<1>13. dinode \in [Inums -> DiskRec]
  BY <1>2 DEF Typed
<1>14. dinode' = Replaced(Replaced(dinode, i, ri), d, rd)
  BY <1>7, <1>11, <1>12, <1>13 DEF Replaced, Filled, Named, DiskRec
<1>15. call[p].ip = s /\ call[p].obj = o /\ icache[s].inum = d /\ icache[o].inum = i
       /\ call[p].name = m
  BY <1>3, <1>6
<1>16. call[p].stage = "lock"
  BY <1>1, Quiet DEF IInv
<1>17. /\ c \in CallRec /\ c.at = at /\ c.ip = o /\ c.puts = q /\ c.stage = "lock"
       /\ c.op = call[p].op
  BY <1>2, <1>11, <1>16 DEF CallRec, Ats, WithIp
<1>18. dots \in [DirNames -> Inums \cup {None}] /\ \A a \in Names : dots[a] = None
  BY <1>10a, DotsAre
<1>19. /\ ri \in DiskRec /\ ri.type = dinode[i].type /\ ri.nlink = 1 /\ ri.ents = dots
       /\ rd \in DiskRec /\ rd.type = dinode[d].type /\ rd.nlink = n
       /\ rd.ents \in [DirNames -> Inums \cup {None}] /\ rd.ents[m] = i
       /\ \A x \in DirNames \ {m} : rd.ents[x] = dinode[d].ents[x]
  <2>1. dinode[i] \in DiskRec /\ dinode[d] \in DiskRec
    BY <1>13
  <2>2. ri \in DiskRec /\ ri.type = dinode[i].type /\ ri.nlink = 1 /\ ri.ents = dots
    BY <1>11, <1>18, <2>1, FilledIs
  <2>3. /\ rd \in DiskRec /\ rd.type = dinode[d].type /\ rd.nlink = n
        /\ rd.ents \in [DirNames -> Inums \cup {None}] /\ rd.ents[m] = i
        /\ \A x \in DirNames \ {m} : rd.ents[x] = dinode[d].ents[x]
    BY <1>11, <2>1, NamedIs
  <2> QED
    BY <2>2, <2>3
<1>21. /\ dinode' \in [Inums -> DiskRec] /\ dinode'[d] = rd /\ dinode'[i] = ri
       /\ \A x \in Inums \ {i, d} : dinode'[x] = dinode[x]
  BY <1>7, <1>13, <1>14, <1>19 DEF Replaced
<1>20. First(q) = s /\ Second(q) = None /\ icache' = Unlock(SetLinks(SetLinks(icache, o, 1), s, n), s)
  BY <1>10c, <1>12
<1>22. /\ dinode' \in [Inums -> DiskRec]
       /\ \A x \in Inums : dinode'[x].type = dinode[x].type
       /\ dinode'[i].nlink = 1 /\ \A a \in Names : dinode'[i].ents[a] = None
       /\ dinode'[d].nlink = n /\ dinode'[d].ents[call[p].name] = i
       /\ \A a \in DirNames \ {call[p].name} : dinode'[d].ents[a] = dinode[d].ents[a]
       /\ \A x \in Inums \ {i, d} : dinode'[x] = dinode[x]
  BY <1>15, <1>18, <1>19, <1>21
<1>23. /\ c.at \in {"open", "done"} /\ First(c.puts) = s /\ Second(c.puts) = None
       /\ call[p].name \in DirNames
  BY <1>6, <1>10c, <1>17
<1>24. Gives(p, s, o, d, i, n, c)
  BY <1>1, <1>7, <1>12, <1>15, <1>17, <1>20, <1>22, <1>23 DEF Gives
<1> QED
  BY <1>17, <1>24, CreateGives, Zenon

\* ialloc() takes an inode that nothing leads to: an entry that still has it is
\* being invalidated.
LEMMA IallocTakes ==
  ASSUME IInv, NEW p \in Procs, Doing(p, "create"), NEW i \in Inums, dinode[i].type = "free",
         NEW ty \in Types \ {"free"}, dinode' = [dinode EXCEPT ![i].type = ty],
         NEW c, c = [call[p] EXCEPT !.at = "made", !.obj = i], Become(p, c),
         UNCHANGED <<icache, cwd, fd, calls, panic>>
  PROVE  IInv'
<1>1. ~panic /\ call[p].at = "create" /\ call[p].puts = <<>>
  BY DEF Doing
<1>2. /\ Typed /\ call[p] \in CallRec /\ CallOK(call[p])
      /\ call[p].stage = "lock" /\ LocksExact /\ EntsTyped /\ Acyclic /\ Numbered /\ LikeDisk
  BY <1>1, Quiet DEF IInv
<1>3. PICK s : s = call[p].ip
  OBVIOUS
<1>4. /\ s \in Slots /\ icache[s].inum \in Inums /\ DiskType(s) = "dir" /\ AtParent(call[p])
      /\ call[p].name \in DirNames
  BY <1>1, <1>3, ParentAt DEF InParent
<1>5. PICK d \in Inums : d = icache[s].inum /\ dinode[d].type = "dir" /\ d # i
  BY <1>4 DEF DiskType
<1>6. dinode \in [Inums -> DiskRec]
  BY <1>2 DEF Typed
<1>7. PICK r : r = [dinode[i] EXCEPT !.type = ty]
  OBVIOUS
<1>8. r \in DiskRec /\ r.type = ty /\ r.nlink = dinode[i].nlink /\ r.ents = dinode[i].ents
  BY <1>6, <1>7 DEF DiskRec
<1>9. /\ dinode' \in [Inums -> DiskRec] /\ dinode'[i].type = ty
      /\ \A x \in Inums : dinode'[x].ents = dinode[x].ents /\ dinode'[x].nlink = dinode[x].nlink
      /\ \A x \in Inums \ {i} : dinode'[x].type = dinode[x].type
  <2>1. dinode' = [dinode EXCEPT ![i] = r]
    BY <1>7
  <2> QED
    BY <1>6, <1>8, <2>1
<1>10. dinode[i].ents = NoEntries /\ \A n \in Names : dinode[i].ents[n] = None
  BY <1>2 DEF EntsTyped
<1>11. /\ c \in CallRec /\ c.at = "made" /\ c.ip = s /\ c.obj = i /\ c.puts = <<>>
       /\ c.stage = "lock" /\ c.op = call[p].op /\ c.name = call[p].name
  BY <1>1, <1>2, <1>3 DEF CallRec, Ats, WithIp
<1>12. CallOK(c)
  <2>1. call[p].op \in MakeOps
    BY <1>1, <1>2 DEF CallOK
  <2> QED
    BY <1>4, <1>11, <2>1 DEF CallOK, WithIp, WithObj, Walking, Making, InParent, NoPuts
<1>13. ~Linking(c) /\ c.ip = call[p].ip /\ c.stage # "free" /\ call[p].at # "user"
  BY <1>1, <1>3, <1>11 DEF Linking, Walking
<1>14. call'[p] = c /\ \A q \in Procs \ {p} : call'[q] = call[q]
  BY <1>2, <1>11, Became
<1>15. ASSUME NEW t \in Slots
       PROVE  /\ icache[t].lock = p <=> HasLock(c, t)
              /\ Mine(cwd[p], fd[p], c, t) = MineOf(p, t)
  <2>1. None # t
    BY Numbers
  <2>2. icache[t].lock = p <=> s = t
    BY <1>1, <1>3, Quiet DEF IpLocked, ObjLocked
  <2>3. HasLock(c, t) <=> s = t
    BY <1>11 DEF HasLock, IpLocked, ObjLocked
  <2>4. /\ c.at \in WithIp /\ c.at \notin WithObj
        /\ call[p].at \in WithIp /\ call[p].at \notin WithObj
    BY <1>1, <1>11 DEF WithIp, WithObj
  <2>5. First(c.puts) # t /\ Second(c.puts) # t
    BY <1>11, <2>1, Lists
  <2>6. Mine(cwd[p], fd[p], c, t) = One(cwd[p] = t) + One(fd[p] = t) + One(s = t)
                                    + One(FALSE) + One(FALSE) + One(FALSE)
    BY <1>11, <2>4, <2>5 DEF Mine, One
  <2>7. MineOf(p, t) = One(cwd[p] = t) + One(fd[p] = t)
                       + One(call[p].at \in WithIp /\ call[p].ip = t)
                       + One(call[p].at \in WithObj /\ call[p].obj = t)
    BY <1>1, Quiet
  <2>8. MineOf(p, t) = One(cwd[p] = t) + One(fd[p] = t) + One(s = t) + One(FALSE)
    BY <1>3, <2>4, <2>7 DEF One
  <2> QED
    BY <2>2, <2>3, <2>6, <2>8 DEF One
<1>16. CacheMoves(p)
  <2>1. ASSUME NEW t \in Slots, icache[t].ref > 0, icache[t].inum # i
        PROVE  Untouched(p, t)
    <3>1. icache[t].inum \in Inums \ {i}
      BY <1>2, <2>1 DEF Numbered
    <3> QED
      BY <1>2, <1>9, <3>1 DEF Untouched, Invalidating
  <2>2. ASSUME NEW t \in Slots, icache[t].ref > 0, icache[t].inum = i, icache[t].valid
        PROVE  \E q \in Procs \ {p} : Invalidating(call[q], t)
    <3>1. PICK q \in Procs : Invalidating(call[q], t)
      BY <1>1, <1>2, <2>2 DEF LikeDisk
    <3>2. q # p
      BY <1>2, <3>1 DEF Invalidating
    <3> QED
      BY <3>1, <3>2
  <2> QED
    BY <2>1, <2>2 DEF CacheMoves
<1>17. EntsKept(p)
  BY <1>9 DEF EntsKept
<1>18. EntsTyped'
  <2>1. ASSUME NEW x \in Inums, dinode'[x].type = "free"
        PROVE  dinode'[x].ents = NoEntries
    BY <1>2, <1>9, <2>1 DEF EntsTyped
  <2>2. ASSUME NEW x \in Inums, NEW n \in Names, dinode'[x].type # "dir"
        PROVE  dinode'[x].ents[n] = None
    <3>1. CASE x = i
      BY <1>9, <1>10, <3>1
    <3>2. CASE x # i
      BY <1>2, <1>9, <2>2, <3>2 DEF EntsTyped
    <3> QED
      BY <3>1, <3>2
  <2> QED
    BY <2>1, <2>2 DEF EntsTyped
<1>19. Acyclic'
  <2>1. ASSUME NEW q \in Procs \ {p}, call'[q].at \in Making
        PROVE  /\ call[q].at \in Making
               /\ icache'[call'[q].ip].inum = icache[call[q].ip].inum
               /\ Fresh(q)' = Fresh(q) /\ icache[call[q].ip].inum # i
    <3>1. call'[q] = call[q] /\ call[q].at \in Making
      BY <1>14, <2>1
    <3>2. \A t \in Slots : icache'[t].inum = icache[t].inum
      OBVIOUS
    <3>3. icache'[call'[q].ip].inum = icache[call[q].ip].inum /\ Fresh(q)' = Fresh(q)
      BY <3>1, <3>2, OthersMake
    <3>4. dinode[icache[call[q].ip].inum].type = "dir"
      BY <3>1, MakersIn
    <3> QED
      BY <3>1, <3>3, <3>4
  <2>2. icache'[call'[p].ip].inum = d /\ Fresh(p)' = i
    BY <1>5, <1>11, <1>14 DEF Fresh
  <2>3. ASSUME NEW y \in Inums
        PROVE  ~Below(i, y)'
    <3>1. \A n \in Names : dinode'[i].ents[n] # y
      BY <1>9, <1>10, Numbers
    <3>2. ASSUME NEW q \in Procs, call'[q].at \in Making
          PROVE  icache'[call'[q].ip].inum # i
      BY <1>5, <2>1, <2>2, <3>2
    <3> QED
      BY <3>1, <3>2 DEF Below
  <2>4. ASSUME NEW x \in Inums, NEW y \in Inums, Below(x, y)', y # i
        PROVE  Below(x, y)
    <3>1. ASSUME NEW n \in Names, dinode'[x].ents[n] = y
          PROVE  Below(x, y)
      <4>1. dinode[x].ents[n] = y
        BY <1>9, <3>1
      <4> QED
        BY <4>1 DEF Below
    <3>2. ASSUME NEW q \in Procs, call'[q].at \in Making,
                 icache'[call'[q].ip].inum = x, Fresh(q)' = y
          PROVE  Below(x, y)
      <4>1. q # p
        BY <2>2, <2>4, <3>2
      <4> QED
        BY <2>1, <3>2, <4>1 DEF Below
    <3> QED
      BY <2>4, <3>1, <3>2 DEF Below
  <2> QED
    BY <1>2, <2>3, <2>4, NewLeaf
<1>20. VictimIs(p)'
  BY <1>11, <1>14 DEF VictimIs
<1>21. \A x \in Inums : dinode'[x].type = dinode[x].type \/ dinode[x].type = "free"
  BY <1>9
<1>22. icache' \in [Slots -> CacheRec]
  BY <1>2 DEF Typed
<1>23. \A t \in Slots :
         /\ icache'[t].ref = icache[t].ref /\ icache'[t].inum = icache[t].inum
         /\ icache'[t].valid = icache[t].valid
         /\ \/ icache'[t].lock = icache[t].lock
            \/ icache[t].lock = p /\ icache'[t].lock = NoProc
         /\ icache'[t].lock = p <=> HasLock(c, t)
         /\ Mine(cwd[p], fd[p], c, t) = MineOf(p, t)
  BY <1>15
<1> QED
  BY <1>1, <1>4, <1>9, <1>11, <1>12, <1>13, <1>16, <1>17, <1>18, <1>19, <1>20, <1>21, <1>22, <1>23,
     NamesStep

LEMMA IallocStep ==
  ASSUME IInv, NEW p \in Procs, ialloc(p)
  PROVE  IInv'
<1>1. Doing(p, "create") /\ UNCHANGED <<icache, cwd, fd, calls>>
  BY DEF ialloc
<1>2. CASE FreeInums = {}
  <2>1. panic' = TRUE /\ UNCHANGED <<dinode, call>>
    BY <1>2 DEF ialloc
  <2>2. dinode' \in [Inums -> DiskRec]
    BY <2>1 DEF IInv, Typed
  <2> QED
    BY <1>1, <2>1, <2>2, PanicStep
<1>3. CASE FreeInums # {}
  <2>1. PICK ty : ty = TypeOf(call[p].op)
    OBVIOUS
  <2>2. PICK i \in FreeInums :
          /\ dinode' = [dinode EXCEPT ![i].type = ty]
          /\ Become(p, [call[p] EXCEPT !.at = "made", !.obj = i])
          /\ UNCHANGED panic
    BY <1>3, <2>1 DEF ialloc
  <2>3. ty \in Types \ {"free"}
    BY <2>1 DEF TypeOf, Types
  <2>4. i \in Inums /\ dinode[i].type = "free"
    BY DEF FreeInums
  <2>5. PICK c : c = [call[p] EXCEPT !.at = "made", !.obj = i]
    OBVIOUS
  <2> QED
    BY <1>1, <2>2, <2>3, <2>4, <2>5, IallocTakes
<1> QED
  BY <1>2, <1>3
-----------------------------------------------------------------------------
(***************************************************************************)
(* The start: every process is in the root directory, some have a file.    *)
(***************************************************************************)
Got(k, i, n) == [k EXCEPT !.inum = i, !.ref = n]
Read(k, ty, n) == [k EXCEPT !.valid = TRUE, !.type = ty, !.nlink = n]

LEMMA EntryMade ==
  ASSUME NEW k \in CacheRec, NEW i \in Inums, NEW n \in Nat,
         NEW r, r = Got(k, i, n)
  PROVE  /\ r \in CacheRec /\ r.inum = i /\ r.ref = n /\ (r.valid <=> k.valid)
         /\ r.lock = k.lock
<1>1. PICK y : y = [k EXCEPT !.inum = i]
  OBVIOUS
<1>2. y \in CacheRec
  BY <1>1 DEF CacheRec
<1>3. y.inum = i /\ (y.valid <=> k.valid) /\ y.lock = k.lock
  BY <1>1 DEF CacheRec
<1>4. r = [y EXCEPT !.ref = n]
  BY <1>1 DEF Got
<1>5. r \in CacheRec
  BY <1>2, <1>4 DEF CacheRec
<1>6. r.inum = y.inum /\ r.ref = n /\ (r.valid <=> y.valid) /\ r.lock = y.lock
  BY <1>2, <1>4 DEF CacheRec
<1> QED
  BY <1>3, <1>5, <1>6

LEMMA EntryLoaded ==
  ASSUME NEW k \in CacheRec, NEW ty \in Types, NEW n \in Int,
         NEW r, r = Read(k, ty, n)
  PROVE  /\ r \in CacheRec /\ r.inum = k.inum /\ r.ref = k.ref /\ r.lock = k.lock
         /\ r.valid /\ r.type = ty /\ r.nlink = n
<1>1. PICK y : y = [k EXCEPT !.type = ty]
  OBVIOUS
<1>2. y \in CacheRec
  BY <1>1 DEF CacheRec
<1>3. y.inum = k.inum /\ y.ref = k.ref /\ y.lock = k.lock /\ y.type = ty
  BY <1>1 DEF CacheRec
<1>4. PICK z : z = [y EXCEPT !.nlink = n]
  OBVIOUS
<1>5. z \in CacheRec
  BY <1>2, <1>4 DEF CacheRec
<1>6. z.inum = y.inum /\ z.ref = y.ref /\ z.lock = y.lock /\ z.type = y.type /\ z.nlink = n
  BY <1>2, <1>4 DEF CacheRec
<1>7. r = [z EXCEPT !.valid = TRUE]
  BY <1>1, <1>4 DEF Read
<1>8. r \in CacheRec
  BY <1>5, <1>7 DEF CacheRec
<1>9. r.inum = z.inum /\ r.ref = z.ref /\ r.lock = z.lock /\ r.type = z.type /\ r.nlink = z.nlink
  BY <1>5, <1>7 DEF CacheRec
<1>10. r.valid
  BY <1>5, <1>7 DEF CacheRec
<1> QED
  BY <1>3, <1>6, <1>8, <1>9, <1>10

LEMMA StartDisk ==
  /\ InitDisk \in [Inums -> DiskRec]
  /\ \A i \in Inums : InitDisk[i].type # "dir" => InitDisk[i].ents = NoEntries
  /\ InitDisk[1].type = "dir" /\ InitDisk[OPENED].type # "free" /\ OPENED \in Inums \ {1}
  /\ \A D \in SUBSET Inums : D # {} =>
       \E x \in D : \A n \in Names : InitDisk[x].ents[n] \notin D
<1>1. InitDisk \in [Inums -> [type : {"free", "dir", "file", "dev"}, nlink : Nat,
                              ents : [DirNames -> Inums \cup {None}]]]
  BY InitDiskAssumption, Zenon
<1>2. InitDisk \in [Inums -> DiskRec]
  BY <1>1 DEF DiskRec, Types
<1>3. /\ \A i \in Inums : InitDisk[i].type # "dir" => InitDisk[i].ents = NoEntries
      /\ InitDisk[1].type = "dir" /\ InitDisk[OPENED].type # "free"
  BY InitDiskAssumption, Zenon
<1>4. OPENED \in Inums \ {1}
  BY InodesAssumption, Zenon
<1>5. NoLoop(LAMBDA x, n : InitDisk[x].ents[n])
  BY InitDiskAssumption, Zenon
<1>6. \A D \in SUBSET Inums : D # {} =>
        \E x \in D : \A n \in Names : InitDisk[x].ents[n] \notin D
  BY <1>5 DEF NoLoop
<1> QED
  BY <1>2, <1>3, <1>4, <1>6

LEMMA Started ==
  ASSUME NEW openers \in SUBSET Procs, dinode = InitDisk,
         NEW k \in CacheRec, k.inum = None, k.ref = 0, ~k.valid, k.lock = NoProc,
         NEW r1 \in CacheRec, r1.inum = 1, r1.ref = Cardinality(Procs), ~r1.valid,
         r1.lock = NoProc,
         NEW r2 \in CacheRec, r2.inum = OPENED, r2.ref = Cardinality(openers), r2.valid,
         r2.lock = NoProc, r2.type = InitDisk[OPENED].type, r2.nlink = InitDisk[OPENED].nlink,
         icache = [s \in Slots |-> IF s = 1 THEN r1 ELSE IF s = 2 /\ openers # {} THEN r2 ELSE k],
         cwd = [p \in Procs |-> 1],
         fd = [p \in Procs |-> IF p \in openers THEN 2 ELSE None],
         InitCalls
  PROVE  IInv
<1>3. PICK n1, n2 : n1 = Cardinality(Procs) /\ n2 = Cardinality(openers)
  OBVIOUS
<1>4. IsFiniteSet(Procs) /\ IsFiniteSet(openers)
  BY Numbers, FS_Subset
<1>5. n1 \in Nat /\ n2 \in Nat
  BY <1>3, <1>4, FS_CardinalityType
<1>6. PICK i \in Inums \ {1} : i = OPENED
  BY StartDisk
<1>2. k.inum = None /\ k.ref = 0
  OBVIOUS
<1>11. r1.inum = 1 /\ r1.ref = n1 /\ ~r1.valid
  BY <1>3
<1>13. r2.inum = i /\ r2.ref = n2 /\ r2.valid /\ r2.type = InitDisk[i].type
       /\ r2.nlink = InitDisk[i].nlink
  BY <1>3, <1>6
<1>15. /\ \A s \in Slots : icache[s] \in CacheRec /\ icache[s].lock = NoProc
       /\ icache[1] = r1 /\ (openers # {} => icache[2] = r2)
       /\ \A s \in Slots \ {1} : s # 2 \/ openers = {} => icache[s] = k
  BY Numbers
<1>16. \A p \in Procs : call[p] = User
  BY DEF InitCalls
<1>17. /\ \A p \in Procs : cwd[p] = 1 /\ fd[p] = IF p \in openers THEN 2 ELSE None
       /\ calls = 0 /\ panic = FALSE
  BY DEF InitCalls
<1>18. Typed
  <2>1. icache \in [Slots -> CacheRec]
    BY <1>15
  <2>2. dinode \in [Inums -> DiskRec]
    BY StartDisk
  <2>3. cwd \in [Procs -> Slots \cup {None}] /\ fd \in [Procs -> Slots \cup {None}]
    BY Numbers
  <2>4. call \in [Procs -> CallRec]
    BY UserIs DEF InitCalls
  <2>5. CALLS \in Nat
    BY InodesAssumption, Zenon
  <2>6. calls \in 0..CALLS
    BY <1>17, <2>5
  <2> QED
    BY <1>17, <2>1, <2>2, <2>3, <2>4, <2>6 DEF Typed
<1>19. EntsTyped
  <2>1. \A n \in Names : NoEntries[n] = None
    BY DEF NoEntries, DirNames
  <2> QED
    BY <2>1, StartDisk DEF EntsTyped
<1>20. Numbered
  BY <1>2, <1>11, <1>13, <1>15, Numbers DEF Numbered
<1>21. OneEntry
  BY <1>2, <1>11, <1>13, <1>15 DEF OneEntry
<1>22. ASSUME NEW p \in Procs
       PROVE  /\ Held(p, "cwd") = 1 /\ Held(p, "fd") = IF p \in openers THEN 2 ELSE None
              /\ Held(p, "ip") = None /\ Held(p, "obj") = None
              /\ Held(p, "put") = None /\ Held(p, "next") = None
  BY <1>16, <1>17, UserIs DEF Held, WithIp, WithObj
<1>23. Counted
  <2>1. Holders(1) = Procs \X {"cwd"}
    BY <1>22, Numbers DEF Holders, Places, None
  <2>2. Holders(2) = openers \X {"fd"}
    BY <1>22, Numbers DEF Holders, Places, None
  <2>3. ASSUME NEW s \in Slots \ {1, 2}
        PROVE  Holders(s) = {}
    BY <1>22, Numbers DEF Holders, Places, None
  <2>4. ASSUME NEW S, IsFiniteSet(S), NEW w
        PROVE  Cardinality(S \X {w}) = Cardinality(S)
    <3>1. IsFiniteSet({w}) /\ Cardinality({w}) = 1
      BY FS_Singleton
    <3>2. Cardinality(S \X {w}) = Cardinality(S) * Cardinality({w}) /\ Cardinality(S) \in Nat
      BY <2>4, <3>1, FS_Product, FS_CardinalityType
    <3> QED
      BY <3>1, <3>2
  <2>5. Cardinality({}) = 0
    BY FS_EmptySet
  <2>6. icache[1].ref = Cardinality(Holders(1))
    <3>1. Cardinality(Procs \X {"cwd"}) = Cardinality(Procs)
      BY <1>4, <2>4, Zenon
    <3>2. icache[1].ref = n1
      BY <1>11, <1>15
    <3> QED
      BY <1>3, <2>1, <3>1, <3>2, Zenon
  <2>7. icache[2].ref = Cardinality(Holders(2))
    <3>1. CASE openers = {}
      <4>1. Holders(2) = {}
        BY <2>2, <3>1
      <4> QED
        BY <1>2, <1>15, <2>5, <3>1, <4>1, Numbers
    <3>2. CASE openers # {}
      <4>1. Cardinality(openers \X {"fd"}) = Cardinality(openers)
        BY <1>4, <2>4, Zenon
      <4>2. icache[2].ref = n2
        BY <1>13, <1>15, <3>2
      <4> QED
        BY <1>3, <2>2, <4>1, <4>2, Zenon
    <3> QED
      BY <3>1, <3>2
  <2>8. ASSUME NEW s \in Slots \ {1, 2}
        PROVE  icache[s].ref = Cardinality(Holders(s))
    BY <1>2, <1>15, <2>3, <2>5
  <2> QED
    BY <2>6, <2>7, <2>8 DEF Counted
<1>24. \A p \in Procs, s \in Slots : ~HasLock(call[p], s)
  BY <1>16, UserIs DEF HasLock, IpLocked, ObjLocked
<1>25. LocksExact /\ LockedValid
  BY <1>15, <1>24, Numbers DEF LocksExact, LockedValid
<1>26. LikeDisk
  BY <1>2, <1>6, <1>11, <1>13, <1>15, StartDisk DEF LikeDisk
<1>27. Acyclic
  <2>1. \A x, y \in Inums : Below(x, y) => \E n \in Names : InitDisk[x].ents[n] = y
    BY <1>16, UserIs DEF Below, Making
  <2> QED
    BY <2>1, StartDisk DEF Acyclic
<1>28. ASSUME NEW p \in Procs
       PROVE  CallOK(call[p]) /\ FirmTyped(p) /\ NotFreed(p) /\ VictimIs(p)
  <2>1. /\ call[p] = User /\ call[p].at = "user" /\ call[p].stage = "lock"
        /\ call[p].puts = <<>>
    BY <1>16, UserIs
  <2>2. CallOK(call[p])
    BY <2>1 DEF CallOK, WithIp, WithObj, Walking, Making, InParent, NoPuts
  <2>3. NotFreed(p) /\ VictimIs(p)
    BY <2>1 DEF NotFreed, VictimIs
  <2>4. ~AtParent(call[p]) /\ ~Linking(call[p])
    BY <2>1 DEF AtParent, Linking, InParent, Walking
  <2>5. DiskType(1) = "dir"
    BY <1>11, <1>15, StartDisk DEF DiskType
  <2>6. p \in openers => DiskType(2) # "free"
    BY <1>6, <1>13, <1>15, StartDisk DEF DiskType
  <2>7. \A s \in {cwd[p], fd[p]} \ {None} : DiskType(s) # "free"
    BY <1>17, <2>5, <2>6
  <2> QED
    BY <2>1, <2>2, <2>3, <2>4, <2>7 DEF FirmTyped
<1> QED
  BY <1>18, <1>19, <1>20, <1>21, <1>23, <1>25, <1>26, <1>27, <1>28 DEF IInv

LEMMA InitHolds ==
  ASSUME Init
  PROVE  IInv
<1>1. PICK openers \in SUBSET Procs :
        /\ dinode = InitDisk
        /\ icache = [s \in Slots |->
             IF s = 1 THEN [NoInode EXCEPT !.inum = 1, !.ref = Cardinality(Procs)]
             ELSE IF s = 2 /\ openers # {}
               THEN [NoInode EXCEPT !.inum = OPENED, !.ref = Cardinality(openers),
                       !.valid = TRUE, !.type = InitDisk[OPENED].type,
                       !.nlink = InitDisk[OPENED].nlink]
             ELSE NoInode]
        /\ cwd = [p \in Procs |-> 1]
        /\ fd = [p \in Procs |-> IF p \in openers THEN 2 ELSE None]
        /\ InitCalls
  BY DEF Init
<1>2. PICK k : k = NoInode
  OBVIOUS
<1>3. /\ k \in CacheRec /\ k.inum = None /\ k.ref = 0 /\ ~k.valid /\ k.lock = NoProc
  BY <1>2 DEF NoInode, CacheRec, Types
<1>4. PICK n1, n2 : n1 = Cardinality(Procs) /\ n2 = Cardinality(openers)
  OBVIOUS
<1>5. IsFiniteSet(Procs) /\ IsFiniteSet(openers)
  BY Numbers, FS_Subset
<1>6. n1 \in Nat /\ n2 \in Nat
  BY <1>4, <1>5, FS_CardinalityType
<1>7. PICK i \in Inums, j \in Inums : i = OPENED /\ j = 1
  BY StartDisk, Numbers
<1>8. PICK ty \in Types, nl \in Int : ty = InitDisk[i].type /\ nl = InitDisk[i].nlink
  BY StartDisk DEF DiskRec
<1>9. PICK r0, r1, r2 : r1 = Got(k, j, n1) /\ r0 = Got(k, i, n2) /\ r2 = Read(r0, ty, nl)
  OBVIOUS
<1>10. r1 \in CacheRec /\ r1.inum = j /\ r1.ref = n1 /\ (r1.valid <=> k.valid) /\ r1.lock = k.lock
  <2>1. k \in CacheRec /\ j \in Inums /\ n1 \in Nat /\ r1 = Got(k, j, n1)
    BY <1>3, <1>6, <1>9
  <2> QED
    BY <2>1, EntryMade
<1>11. r0 \in CacheRec /\ r0.inum = i /\ r0.ref = n2 /\ r0.lock = k.lock
  <2>1. k \in CacheRec /\ i \in Inums /\ n2 \in Nat /\ r0 = Got(k, i, n2)
    BY <1>3, <1>6, <1>9
  <2> QED
    BY <2>1, EntryMade
<1>12. /\ r2 \in CacheRec /\ r2.inum = r0.inum /\ r2.ref = r0.ref /\ r2.valid
       /\ r2.lock = r0.lock /\ r2.type = ty /\ r2.nlink = nl
  BY <1>9, <1>11, EntryLoaded
<1>13. icache = [s \in Slots |-> IF s = 1 THEN r1 ELSE IF s = 2 /\ openers # {} THEN r2 ELSE k]
  <2>1. r1 = [NoInode EXCEPT !.inum = 1, !.ref = Cardinality(Procs)]
    BY <1>2, <1>4, <1>7, <1>9 DEF Got
  <2>2. r2 = [NoInode EXCEPT !.inum = OPENED, !.ref = Cardinality(openers),
                !.valid = TRUE, !.type = InitDisk[OPENED].type,
                !.nlink = InitDisk[OPENED].nlink]
    BY <1>2, <1>4, <1>7, <1>8, <1>9 DEF Got, Read
  <2> QED
    BY <1>1, <1>2, <2>1, <2>2, Zenon
<1>14. r1.inum = 1 /\ r1.ref = Cardinality(Procs) /\ ~r1.valid /\ r1.lock = NoProc
  BY <1>3, <1>4, <1>7, <1>10
<1>15. /\ r2.inum = OPENED /\ r2.ref = Cardinality(openers) /\ r2.lock = NoProc
       /\ r2.type = InitDisk[OPENED].type /\ r2.nlink = InitDisk[OPENED].nlink
  BY <1>3, <1>4, <1>7, <1>8, <1>11, <1>12
<1> QED
  BY <1>1, <1>3, <1>10, <1>12, <1>13, <1>14, <1>15, Started
-----------------------------------------------------------------------------
(***************************************************************************)
(* Every step keeps the invariant.                                         *)
(***************************************************************************)
LEMMA KernelStep ==
  ASSUME IInv, NEW p \in Procs, Kernel(p)
  PROVE  IInv'
<1>1. CASE iput(p) \/ IputFree(p) \/ IputInvalid(p) \/ IputUnref(p)
  BY <1>1, IputStep, IputFreeStep, IputInvalidStep, IputUnrefStep
<1>2. CASE NamexLock(p) \/ NamexStep(p)
  BY <1>2, NamexLockStep, NamexStepStep
<1>3. CASE NotFound(p)
  BY <1>3, NotFoundEnds, NotFoundGoes
<1>4. CASE FoundLock(p)
  BY <1>4, FoundLockStep
<1>5. CASE sys_open(p) \/ sys_chdir(p)
  BY <1>5, OpenEnds, ChdirEnds
<1>6. CASE CreateOld(p) \/ LockOld(p)
  BY <1>6, CreateOldStep, LockOldStep
<1>7. CASE Exists(p)
  BY <1>7, ExistsEnds, ExistsGoes
<1>8. CASE ialloc(p) \/ IallocGet(p) \/ LockNew(p)
  BY <1>8, IallocStep, IallocGetStep, LockNewStep
<1>9. CASE CreateLink(p) \/ CreateDone(p)
  BY <1>9, CreateLinkStep, CreateDoneEnds
<1>10. CASE NoUnlink(p) \/ Unlink(p) \/ LockVictim(p)
  BY <1>10, NoUnlinkEnds, UnlinkStep, LockVictimStep
<1>11. CASE NotEmpty(p) \/ NotEmptyDone(p)
  BY <1>11, NotEmptyGoes, NotEmptyDoneEnds
<1>12. CASE UnlinkEntry(p) \/ UnlinkDone(p)
  BY <1>12, UnlinkEntryStep, UnlinkDoneEnds
<1>13. CASE LinkOld(p)
  BY <1>13, LinkDirEnds, LinkOldStep
<1>14. CASE Dirlink(p) \/ Taken(p)
  BY <1>14, DirlinkStep, TakenGoes
<1>15. CASE LinkBad(p) \/ TakeBack(p)
  BY <1>15, LinkBadStep, TakeBackEnds
<1> QED
  BY <1>1, <1>2, <1>3, <1>4, <1>5, <1>6, <1>7, <1>8, <1>9, <1>10, <1>11, <1>12, <1>13, <1>14,
     <1>15, Zenon DEF Kernel

LEMMA Stutter ==
  ASSUME IInv, UNCHANGED vars
  PROVE  IInv'
<1>2. dinode' = dinode /\ icache' = icache /\ cwd' = cwd /\ fd' = fd /\ call' = call
      /\ calls' = calls /\ panic' = panic
  BY DEF vars
<1>4. Typed' /\ EntsTyped' /\ Numbered' /\ OneEntry' /\ LocksExact' /\ LockedValid'
  BY <1>2 DEF IInv, Typed, EntsTyped, Numbered, OneEntry, LocksExact, LockedValid
<1>5. Counted'
  BY <1>2 DEF IInv, Counted, Holders, Held
<1>6. LikeDisk'
  BY <1>2 DEF IInv, LikeDisk
<1>7. Acyclic'
  BY <1>2 DEF IInv, Acyclic, Below, Fresh
<1>8. ASSUME NEW p \in Procs
      PROVE  CallOK(call'[p]) /\ FirmTyped(p)' /\ NotFreed(p)' /\ VictimIs(p)'
  BY <1>2 DEF IInv, FirmTyped, NotFreed, VictimIs, Firm, DiskType, Entry
<1> QED
  BY <1>4, <1>5, <1>6, <1>7, <1>8 DEF IInv

LEMMA NextStep ==
  ASSUME IInv, [Next]_vars
  PROVE  IInv'
<1>1. CASE Next
  <2>1. PICK p \in Procs : PathCall(p) \/ sys_close(p) \/ exit(p) \/ Kernel(p)
    BY <1>1 DEF Next
  <2> QED
    BY <2>1, PathCallStep, CloseEnds, ExitEnds, KernelStep
<1>2. CASE UNCHANGED vars
  BY <1>2, Stutter
<1> QED
  BY <1>1, <1>2
-----------------------------------------------------------------------------
(***************************************************************************)
(* What the invariant says.                                                *)
(***************************************************************************)

\* The invariant holds whatever the processes call, in whatever order.
THEOREM InodesInvariant == Spec => []IInv
<1>1. Init => IInv
  BY InitHolds
<1>2. IInv /\ [Next]_vars => IInv'
  BY NextStep
<1> QED
  BY <1>1, <1>2, PTL DEF Spec

LEMMA ExactIs ==
  ASSUME IInv
  PROVE  RefsExact
<1>1. Typed /\ EntsTyped /\ Numbered /\ OneEntry /\ Counted
  BY DEF IInv
<1>2. \A i \in Inums :
        /\ dinode[i].type \in {"free", "dir", "file", "dev"}
        /\ dinode[i].nlink \in Int
        /\ dinode[i].ents \in [DirNames -> Inums \cup {None}]
        /\ dinode[i].type # "dir" => \A n \in Names : dinode[i].ents[n] = None
  BY <1>1 DEF Typed, EntsTyped, DiskRec, Types
<1>3. \A s \in Slots :
        /\ icache[s].ref \in Nat /\ icache[s].nlink \in Int
        /\ icache[s].lock \in Procs \cup {NoProc}
        /\ icache[s].ref > 0 => icache[s].inum \in Inums
  BY <1>1 DEF Typed, Numbered, CacheRec
<1>4. TypeOK
  BY <1>1, <1>2, <1>3 DEF TypeOK, Typed
<1> QED
  BY <1>1, <1>4 DEF RefsExact, Counted

\* ip->ref is what will be put: iget(), idup() and iput() of all calls, on every
\* way out of them, keep the count of an inode exact, and its entry in the
\* cache the only one.
THEOREM ReferencesExact == Spec => []RefsExact
<1>1. IInv => RefsExact
  BY ExactIs
<1> QED
  BY <1>1, InodesInvariant, PTL

\* The inode of the current directory and of the open file of a process is not
\* freed, whatever the others unlink.
THEOREM InUseKept == Spec => []InUse
<1>1. IInv => InUse
  BY DEF IInv, InUse, FirmTyped, DiskType
<1> QED
  BY <1>1, InodesInvariant, PTL

\* The kernel stops without a change, but for the link that link() has counted
\* when its walk finds no free entry.
LEMMA StopsAt ==
  ASSUME NEW p \in Procs, PathCall(p) \/ sys_close(p) \/ exit(p) \/ Kernel(p), panic' # panic
  PROVE  icache' = icache /\ (dinode' = dinode \/ LinkOld(p))
<1>1. CASE PathCall(p)
  BY <1>1 DEF PathCall, Namex
<1>2. CASE sys_close(p) \/ exit(p) \/ sys_open(p) \/ sys_chdir(p)
  BY <1>2 DEF sys_close, exit, sys_open, sys_chdir
<1>3. CASE iput(p) \/ IputFree(p) \/ IputInvalid(p) \/ IputUnref(p)
  BY <1>3 DEF iput, IputFree, IputInvalid, IputUnref
<1>4. CASE NamexLock(p) \/ FoundLock(p) \/ LockOld(p) \/ LockNew(p) \/ LockVictim(p) \/ LinkBad(p)
  BY <1>4 DEF NamexLock, FoundLock, LockOld, LockNew, LockVictim, LinkBad, Ilock
<1>5. CASE NamexStep(p)
  BY <1>5 DEF NamexStep
<1>6. CASE NotFound(p) \/ Exists(p) \/ CreateLink(p) \/ CreateDone(p)
  BY <1>6 DEF NotFound, Exists, CreateLink, CreateDone
<1>7. CASE CreateOld(p) \/ ialloc(p) \/ IallocGet(p) \/ Unlink(p)
  BY <1>7 DEF CreateOld, ialloc, IallocGet, Unlink
<1>8. CASE NoUnlink(p) \/ NotEmpty(p) \/ NotEmptyDone(p) \/ UnlinkDone(p) \/ Taken(p) \/ TakeBack(p)
  BY <1>8 DEF NoUnlink, NotEmpty, NotEmptyDone, UnlinkDone, Taken, TakeBack
<1>9. CASE UnlinkEntry(p) \/ Dirlink(p)
  BY <1>9 DEF UnlinkEntry, Dirlink, Panic
<1>10. CASE LinkOld(p)
  BY <1>10 DEF LinkOld, Namex
<1> QED
  BY <1>1, <1>2, <1>3, <1>4, <1>5, <1>6, <1>7, <1>8, <1>9, <1>10, Zenon DEF Kernel

LEMMA LikeDiskIs ==
  ASSUME IInv, ~panic
  PROVE  CachedIsDisk
BY UnlockedIs DEF CachedIsDisk, DiskType

LEMMA StopsLikeDisk ==
  ASSUME IInv, NEW p \in Procs, LinkOld(p), icache' = icache, CachedIsDisk
  PROVE  CachedIsDisk'
<1>1. /\ ~panic /\ call[p].at = "link" /\ call[p].puts = <<>>
  BY DEF LinkOld, Doing
<1>2. /\ Typed /\ CallOK(call[p]) /\ OneEntry /\ Numbered /\ Counted /\ LocksExact
      /\ NoProc \notin Procs
  BY Numbers DEF IInv
<1>3. PICK s \in Slots : s = call[p].ip
  BY <1>1, <1>2 DEF CallOK, WithIp
<1>4. icache[s].lock = p /\ icache[s].ref > 0
  <2>1. HasLock(call[p], s) /\ HoldsSlot(p, s)
    BY <1>1, <1>3 DEF HasLock, IpLocked, HoldsSlot, Holds, WithIp
  <2> QED
    BY <1>2, <2>1, Referenced DEF LocksExact
<1>5. CASE icache[s].type = "dir"
  BY <1>3, <1>5 DEF LinkOld, CachedIsDisk
<1>6. CASE icache[s].type # "dir"
  <2>1. PICK n : dinode' = Iupdate(dinode, s, n)
    BY <1>3, <1>6 DEF LinkOld
  <2>2. \A i \in Inums : i # icache[s].inum => dinode'[i] = dinode[i]
    BY <1>2, <2>1 DEF Iupdate, Typed
  <2>3. ASSUME NEW t \in Slots, icache[t].ref > 0, icache[t].lock = NoProc
        PROVE  icache[t].inum \in Inums /\ icache[t].inum # icache[s].inum
    BY <1>2, <1>4, <2>3 DEF Numbered, OneEntry
  <2> QED
    BY <2>2, <2>3 DEF CachedIsDisk
<1> QED
  BY <1>5, <1>6

\* What is valid and not locked is what the disk says: ilock() never finds in the
\* cache an inode that was freed, or freed and allocated again.
THEOREM CacheLikeDisk == Spec => []CachedIsDisk
<1>1. Init => IInv /\ CachedIsDisk
  <2>1. Init => ~panic
    BY DEF Init, InitCalls
  <2> QED
    BY <2>1, InitHolds, LikeDiskIs
<1>2. ASSUME IInv, CachedIsDisk, [Next]_vars
      PROVE  IInv' /\ CachedIsDisk'
  <2>1. IInv'
    BY <1>2, NextStep
  <2>2. CASE UNCHANGED vars
    BY <1>2, <2>1, <2>2 DEF vars, CachedIsDisk
  <2>3. CASE Next
    <3>1. PICK p \in Procs : PathCall(p) \/ sys_close(p) \/ exit(p) \/ Kernel(p)
      BY <2>3 DEF Next
    <3>2. CASE ~panic'
      <4>1. (IInv /\ ~panic => CachedIsDisk)'
        BY LikeDiskIs, PTL
      <4> QED
        BY <2>1, <3>2, <4>1
    <3>3. CASE panic'
      <4>1. ~panic
        BY <3>1, Zenon DEF Kernel, PathCall, sys_close, exit, sys_open, sys_chdir, iput,
           IputFree, IputInvalid, IputUnref, NamexLock, FoundLock, LockOld, LockNew, LockVictim,
           LinkBad, NamexStep, NotFound, Exists, CreateLink, CreateDone, CreateOld, ialloc,
           IallocGet, Unlink, NoUnlink, NotEmpty, NotEmptyDone, UnlinkDone, Taken, TakeBack,
           UnlinkEntry, Dirlink, LinkOld, Doing
      <4>2. panic' # panic
        BY <3>3, <4>1
      <4>3. icache' = icache /\ (dinode' = dinode \/ LinkOld(p))
        BY <3>1, <4>2, StopsAt
      <4>4. CASE dinode' = dinode
        BY <1>2, <2>1, <4>3, <4>4 DEF CachedIsDisk
      <4>5. CASE LinkOld(p)
        BY <1>2, <2>1, <4>3, <4>5, StopsLikeDisk
      <4> QED
        BY <4>3, <4>4, <4>5
    <3> QED
      BY <3>2, <3>3
  <2> QED
    BY <1>2, <2>1, <2>2, <2>3
<1> QED
  BY <1>1, <1>2, PTL DEF Spec
-----------------------------------------------------------------------------
\* Who waits while it has a lock, and is not in iput() under one, has locked a
\* directory and waits for what is below it.
LEMMA WaitsBelow ==
  ASSUME IInv, NEW q \in Procs, ~PutsUnderLock(q), Wanted(q) # None,
         NEW s \in Slots, icache[s].lock = q
  PROVE  /\ Wanted(q) \in Slots /\ icache[Wanted(q)].inum \in Inums /\ icache[s].inum \in Inums
         /\ Below(icache[s].inum, icache[Wanted(q)].inum)
<1>1. /\ Typed /\ call[q] \in CallRec /\ CallOK(call[q]) /\ LocksExact /\ Numbered /\ Counted
      /\ VictimIs(q) /\ NoProc \notin Procs
  BY Numbers DEF IInv, Typed
<1>2. HasLock(call[q], s) /\ HoldsSlot(q, s)
  BY <1>1, LockHolds DEF LocksExact
<1>3. icache[s].inum \in Inums
  BY <1>1, <1>2, Referenced DEF Numbered
<1>4. call[q].puts \in PutLists
  BY <1>1 DEF CallRec
<1>5. CASE call[q].puts # <<>>
  <2>1. call[q].stage = "lock" /\ Wanted(q) = Head(call[q].puts)
    BY <1>5 DEF Wanted
  <2>2. Head(call[q].puts) \in Slots /\ First(call[q].puts) = Head(call[q].puts)
    BY <1>4, <1>5, PutNext
  <2>3. call[q].at = "full" /\ call[q].ip = s
    BY <1>1, <1>2, <1>5, <2>1 DEF HasLock, PutsUnderLock, CallOK, NoPuts, IpLocked, ObjLocked
  <2>4. PICK w \in Slots : w = First(call[q].puts) /\ w = Wanted(q)
    BY <2>1, <2>2
  <2>5. call[q].name \in Names /\ Entry(s, call[q].name) = icache[w].inum
    BY <1>1, <1>5, <2>3, <2>4 DEF VictimIs
  <2>6. HoldsSlot(q, w)
    BY <2>4 DEF HoldsSlot, Holds
  <2>7. icache[w].inum \in Inums
    BY <1>1, <2>6, Referenced DEF Numbered
  <2>8. Below(icache[s].inum, icache[w].inum)
    BY <2>5 DEF Below, Entry
  <2> QED
    BY <1>3, <2>4, <2>7, <2>8
<1>6. CASE call[q].puts = <<>>
  <2>1. call[q].stage = "lock"
    BY <1>1, <1>6 DEF CallOK
  <2>2. \/ call[q].at \in IpLocked /\ call[q].ip = s
        \/ call[q].at \in ObjLocked /\ call[q].obj = s
    BY <1>2, <2>1 DEF HasLock
  <2>3. call[q].at \in {"new", "victim"} /\ Wanted(q) = call[q].obj
    BY <1>6, <2>2 DEF Wanted, IpLocked, ObjLocked
  <2>4. call[q].ip = s /\ call[q].obj \in Slots
    BY <1>1, <2>2, <2>3 DEF ObjLocked, CallOK, WithObj, Walking
  <2>5. PICK w \in Slots : w = call[q].obj /\ w = Wanted(q)
    BY <2>3, <2>4
  <2>6. HoldsSlot(q, w)
    BY <2>3, <2>5 DEF HoldsSlot, Holds, WithObj
  <2>7. icache[w].inum \in Inums
    BY <1>1, <2>6, Referenced DEF Numbered
  <2>8. CASE call[q].at = "victim"
    <3>1. call[q].name \in Names /\ Entry(s, call[q].name) = icache[w].inum
      BY <1>1, <2>4, <2>5, <2>8 DEF VictimIs
    <3>2. Below(icache[s].inum, icache[w].inum)
      BY <3>1 DEF Below, Entry
    <3> QED
      BY <1>3, <2>5, <2>7, <3>2
  <2>9. CASE call[q].at = "new"
    <3>1. Fresh(q) = icache[w].inum
      BY <2>5, <2>9 DEF Fresh
    <3>2. Below(icache[s].inum, icache[w].inum)
      BY <2>4, <2>9, <3>1 DEF Below, Making
    <3> QED
      BY <1>3, <2>5, <2>7, <3>2
  <2> QED
    BY <2>3, <2>8, <2>9
<1> QED
  BY <1>5, <1>6

LEMMA WantedSlot ==
  ASSUME IInv, NEW p \in Procs, Wanted(p) # None
  PROVE  Wanted(p) \in Slots
<1>1. call[p] \in CallRec /\ CallOK(call[p]) /\ call[p].puts \in PutLists
  BY DEF IInv, Typed, CallRec
<1>2. call[p].ip \in Slots \cup {None}
  BY <1>1 DEF CallRec
<1>3. call[p].at \in {"old", "new", "victim", "bad"} => call[p].obj \in Slots
  BY <1>1 DEF CallOK, WithObj, Walking
<1>4. call[p].puts # <<>> => Head(call[p].puts) \in Slots
  BY <1>1, PutNext
<1> QED
  BY <1>2, <1>3, <1>4 DEF Wanted

\* Processes that wait for each other's inodes: one of them is in iput() while it
\* keeps the lock of what it has linked or unlinked.  Names lead down a tree, and
\* all other code locks a directory before what is in it.
THEOREM WaitsInOrder == Spec => []DeadlocksOnlyInPut
<1>1. ASSUME IInv, NEW D \in SUBSET Procs, Deadlocked(D), \A p \in D : ~PutsUnderLock(p)
      PROVE  FALSE
  <2> DEFINE C == {icache[Wanted(p)].inum : p \in D}
  <2>1. \A p \in D : Wanted(p) \in Slots /\ icache[Wanted(p)].lock \in D
    BY <1>1, WantedSlot DEF Deadlocked
  <2>2. ASSUME NEW p \in D
        PROVE  \E q \in D : /\ icache[Wanted(p)].inum \in Inums
                            /\ icache[Wanted(q)].inum \in Inums
                            /\ Below(icache[Wanted(p)].inum, icache[Wanted(q)].inum)
    <3>1. PICK s \in Slots, q \in D : s = Wanted(p) /\ q = icache[s].lock
      BY <2>1
    <3>2. q \in Procs /\ ~PutsUnderLock(q) /\ Wanted(q) # None
      BY <1>1, <3>1 DEF Deadlocked
    <3> QED
      BY <1>1, <3>1, <3>2, WaitsBelow
  <2>3. C \in SUBSET Inums
    BY <2>2
  <2>4. C # {}
    BY <1>1 DEF Deadlocked
  <2>5. ASSUME NEW x \in C
        PROVE  \E y \in C : Below(x, y)
    <3>1. PICK p \in D : x = icache[Wanted(p)].inum
      OBVIOUS
    <3>2. PICK q \in D : Below(icache[Wanted(p)].inum, icache[Wanted(q)].inum)
      BY <2>2
    <3>3. icache[Wanted(q)].inum \in C
      OBVIOUS
    <3> QED
      BY <3>1, <3>2, <3>3
  <2>6. Acyclic
    BY <1>1 DEF IInv
  <2> HIDE DEF C
  <2> QED
    BY <2>3, <2>4, <2>5, <2>6 DEF Acyclic
<1>2. IInv => DeadlocksOnlyInPut
  BY <1>1 DEF DeadlocksOnlyInPut
<1> QED
  BY <1>2, InodesInvariant, PTL
=============================================================================
