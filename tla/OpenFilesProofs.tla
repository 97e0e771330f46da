--------------------------- MODULE OpenFilesProofs ---------------------------
(***************************************************************************)
(* The file table and the pipes, for any number of processes, files,       *)
(* descriptors and pipes: counts are exact, ends are closed once, and      *)
(* nobody sleeps without reason.                                           *)
(***************************************************************************)
EXTENDS OpenFiles, FiniteSetTheorems, TLAPS

-----------------------------------------------------------------------------
(***************************************************************************)
(* nread and nwrite count modulo UINT.                                     *)
(***************************************************************************)
LEMMA Remainder ==
  ASSUME NEW U \in Nat \ {0}, NEW a \in Int
  PROVE  /\ a % U \in 0..U-1
         /\ a \in 0..U-1 => a % U = a
         /\ a \in U..2*U-1 => a % U = a - U
         /\ a \in -U..-1 => a % U = a + U
OBVIOUS

LEMMA Distance ==
  ASSUME NEW U \in Nat \ {0}, NEW a \in 0..U-1, NEW b \in 0..U-1
  PROVE  /\ (a - b) % U \in 0..U-1
         /\ (a - b) % U = IF a >= b THEN a - b ELSE a - b + U
         /\ a = b <=> (a - b) % U = 0
<1>1. PICK d \in Int : d = a - b
  OBVIOUS
<1>2. d % U \in 0..U-1
  BY Remainder
<1>3. CASE a >= b
  <2>1. d \in 0..U-1
    BY <1>1, <1>3
  <2>2. d % U = d
    BY <2>1, Remainder
  <2> QED
    BY <1>1, <1>2, <1>3, <2>2
<1>4. CASE a < b
  <2>1. d \in -U..-1
    BY <1>1, <1>4
  <2>2. d % U = d + U
    BY <2>1, Remainder
  <2> QED
    BY <1>1, <1>2, <1>4, <2>2
<1> QED
  BY <1>3, <1>4

LEMMA Onward ==
  ASSUME NEW U \in Nat \ {0}, NEW a \in 0..U-1, NEW n \in 0..U-1
  PROVE  \E e \in 0..U-1 : e = (a + n) % U /\ e = IF a + n < U THEN a + n ELSE a + n - U
<1>1. PICK d \in Int : d = a + n
  OBVIOUS
<1>2. d < U => d \in 0..U-1
  BY <1>1
<1>3. ~(d < U) => d \in U..2*U-1
  BY <1>1
<1>4. d % U = IF d < U THEN d ELSE d - U
  BY <1>2, <1>3, Remainder, Zenon
<1>5. d % U \in 0..U-1
  BY Remainder
<1> QED
  BY <1>1, <1>4, <1>5

LEMMA Added ==
  ASSUME NEW U \in Nat \ {0}, NEW a \in 0..U-1, NEW b \in 0..U-1, NEW n \in 0..U-1,
         ((a - b) % U) + n < U
  PROVE  (((a + n) % U) - b) % U = ((a - b) % U) + n
<1>1. PICK d \in 0..U-1 : d = (a - b) % U /\ d = IF a >= b THEN a - b ELSE a - b + U
  BY Distance
<1>2. PICK e \in 0..U-1 : e = (a + n) % U /\ e = IF a + n < U THEN a + n ELSE a + n - U
  BY Onward
<1>3. (e - b) % U = IF e >= b THEN e - b ELSE e - b + U
  BY Distance
<1>4. d + n < U => (e - b) % U = d + n
  BY <1>1, <1>2, <1>3
<1> QED
  BY <1>1, <1>2, <1>4

LEMMA Taken ==
  ASSUME NEW U \in Nat \ {0}, NEW a \in 0..U-1, NEW b \in 0..U-1, NEW n \in 0..U-1,
         n <= (a - b) % U
  PROVE  (a - ((b + n) % U)) % U = ((a - b) % U) - n
<1>1. PICK d \in 0..U-1 : d = (a - b) % U /\ d = IF a >= b THEN a - b ELSE a - b + U
  BY Distance
<1>2. PICK e \in 0..U-1 : e = (b + n) % U /\ e = IF b + n < U THEN b + n ELSE b + n - U
  BY Onward
<1>3. (a - e) % U = IF a >= e THEN a - e ELSE a - e + U
  BY Distance
<1>4. n <= d => (a - e) % U = d - n
  BY <1>1, <1>2, <1>3
<1> QED
  BY <1>1, <1>2, <1>4

LEMMA Level ==
  ASSUME NEW U \in Nat \ {0}, NEW a \in 0..U-1, NEW b \in 0..U-1, NEW n \in 0..U-1
  PROVE  a = (b + n) % U <=> (a - b) % U = n
<1>1. PICK d \in 0..U-1 : d = (a - b) % U /\ d = IF a >= b THEN a - b ELSE a - b + U
  BY Distance
<1>2. PICK e \in 0..U-1 : e = (b + n) % U /\ e = IF b + n < U THEN b + n ELSE b + n - U
  BY Onward
<1> QED
  BY <1>1, <1>2
-----------------------------------------------------------------------------
(***************************************************************************)
(* What a call has left to close: at most two things, of three kinds.      *)
(***************************************************************************)
LEMMA Items ==
  /\ ToSet(<<>>) = {}
  /\ \A a : ToSet(<<a>>) = {a} /\ Head(<<a>>) = a /\ Tail(<<a>>) = <<>>
  /\ \A a, b : ToSet(<<a, b>>) = {a, b} /\ Head(<<a, b>>) = a /\ Tail(<<a, b>>) = <<b>>
  /\ <<>> \o <<>> = <<>>
  /\ \A a : <<>> \o <<a>> = <<a>> /\ <<a>> \o <<>> = <<a>>
  /\ \A a, b : <<a>> \o <<b>> = <<a, b>>
  /\ \A a : <<a>> # <<>> /\ \A b : <<a, b>> # <<>>
<1>1. ToSet(<<>>) = {}
  BY DEF ToSet
<1>2. \A a : ToSet(<<a>>) = {a}
  BY DEF ToSet
<1>3. \A a, b : ToSet(<<a, b>>) = {a, b}
  BY DEF ToSet
<1>4. \A a : Head(<<a>>) = a /\ Tail(<<a>>) = <<>>
  OBVIOUS
<1>5. \A a, b : Head(<<a, b>>) = a /\ Tail(<<a, b>>) = <<b>>
  <2>1. \A a, b : Head(<<a, b>>) = a
    OBVIOUS
  <2>2. \A a, b : Tail(<<a, b>>) = <<b>>
    OBVIOUS
  <2> QED
    BY <2>1, <2>2
<1>6. <<>> \o <<>> = <<>>
  OBVIOUS
<1>7. \A a : <<>> \o <<a>> = <<a>> /\ <<a>> \o <<>> = <<a>>
  OBVIOUS
<1>8. ASSUME NEW a, NEW b
      PROVE  <<a>> \o <<b>> = <<a, b>>
  <2> DEFINE S == Seq({a, b})
  <2>1. <<a>> \in S /\ <<b>> \in S /\ <<a, b>> \in S
    OBVIOUS
  <2>2. Len(<<a>>) = 1 /\ Len(<<b>>) = 1 /\ Len(<<a, b>>) = 2
    OBVIOUS
  <2>3. <<a>> \o <<b>> \in S /\ Len(<<a>> \o <<b>>) = 2
    BY <2>1, <2>2
  <2>4. (<<a>> \o <<b>>)[1] = a /\ (<<a>> \o <<b>>)[2] = b
    BY <2>1, <2>2
  <2>5. \A s, t \in S :
          Len(s) = 2 /\ Len(t) = 2 /\ s[1] = t[1] /\ s[2] = t[2] => s = t
    OBVIOUS
  <2> QED
    BY <2>1, <2>2, <2>3, <2>4, <2>5
<1>9. \A a : <<a>> # <<>> /\ \A b : <<a, b>> # <<>>
  OBVIOUS
<1> QED
  BY <1>1, <1>2, <1>3, <1>4, <1>5, <1>6, <1>7, <1>8, <1>9

LEMMA Kinds ==
  /\ \A f, g : AFile(f) = AFile(g) => f = g
  /\ \A f, k, w : AFile(f) # AnEnd(k, w)
  /\ \A f : AFile(f) # AnInode /\ AFile(f).is = "file" /\ AFile(f).file = f
  /\ \A k, l, w, x : AnEnd(k, w) = AnEnd(l, x) => k = l /\ w = x
  /\ \A k, w : /\ AnEnd(k, w) # AnInode /\ AnEnd(k, w).is = "pipe"
               /\ AnEnd(k, w).pipe = k /\ AnEnd(k, w).writable = w
  /\ AnInode.is = "inode"
BY DEF AFile, AnEnd, AnInode

LEMMA LowestIs ==
  ASSUME NEW S \in SUBSET Nat, S # {}
  PROVE  Lowest(S) \in S
<1>1. PICK m \in S : \A y \in S : m <= y
  <2>1. IsWellFoundedOn(OpToRel(<, Nat), Nat)
    BY NatLessThanWellFounded
  <2>2. PICK m \in S : \A y \in S : ~(<<y, m>> \in OpToRel(<, Nat))
    BY <2>1, WFMin
  <2>3. \A y \in S : ~(y < m)
    BY <2>2 DEF OpToRel
  <2> QED
    BY <2>3
<1> QED
  BY <1>1 DEF Lowest
-----------------------------------------------------------------------------
(***************************************************************************)
(* Counting: a set that changes in one place.                              *)
(***************************************************************************)
One(b) == IF b THEN 1 ELSE 0

LEMMA CountChange ==
  ASSUME NEW S, NEW T, NEW x, IsFiniteSet(S), S \ {x} = T \ {x}
  PROVE  /\ IsFiniteSet(T) /\ Cardinality(S) \in Nat /\ Cardinality(T) \in Nat
         /\ Cardinality(T) + One(x \in S) = Cardinality(S) + One(x \in T)
<1>1. /\ IsFiniteSet(S \ {x})
      /\ Cardinality(S \ {x}) = IF x \in S THEN Cardinality(S) - 1 ELSE Cardinality(S)
  BY FS_RemoveElement
<1>2. x \notin T => T = T \ {x}
  OBVIOUS
<1>3. x \in T => T = (T \ {x}) \cup {x}
  OBVIOUS
<1>4. IsFiniteSet(T) /\
      Cardinality(T) = IF x \in T THEN Cardinality(S \ {x}) + 1 ELSE Cardinality(S \ {x})
  BY <1>1, <1>2, <1>3, FS_AddElement
<1>5. Cardinality(S) \in Nat /\ Cardinality(T) \in Nat /\ Cardinality(S \ {x}) \in Nat
  BY <1>1, <1>4, FS_CardinalityType
<1> QED
  BY <1>1, <1>4, <1>5 DEF One
-----------------------------------------------------------------------------
(***************************************************************************)
(* The state of the table: what a file, a process and its call may be.     *)
(***************************************************************************)
FileRec ==
  [ref : Nat, type : {"none", "inode"}]
    \cup [ref : Nat, type : {"pipe"}, pipe : Pipes, writable : BOOLEAN]
Pcs ==
  {User, Unused, [at |-> "open"], [at |-> "exit"], [at |-> "embryo"]}
    \cup [at : {"fork"}, child : Procs]
    \cup [at : {"pipe"}, rf : Files, wf : Files \cup {NoFile}]

Typed ==
  /\ file \in [Files -> FileRec]
  /\ \A f \in Files : file[f].ref = 0 => file[f] = NoneFile
  /\ ofile \in [Procs -> [Fds -> Files \cup {NoFile}]]
  /\ pc \in [Procs -> Pcs]
  /\ work = [p \in Procs |-> work[p]]
  /\ refs \in Nat
  /\ panic = FALSE

\* A file that nothing but one call in progress names.
Single(f) == file[f].ref = 1 /\ file[f].type # "inode"
Fresh(f) == file[f].ref = 1 /\ file[f].type = "none"

\* What can be left to close: the seven ways a call can be half way out.
Work(p) ==
  \/ work[p] = <<>>
  \/ \E f \in Files : Single(f) /\ work[p] = <<AFile(f)>>
  \/ \E f, g \in Files :
       f # g /\ Single(f) /\ Single(g) /\ work[p] = <<AFile(f), AFile(g)>>
  \/ \E f \in Files : Fresh(f) /\ work[p] = <<AFile(f), AnInode>>
  \/ \E k \in Pipes, w \in BOOLEAN : work[p] = <<AnEnd(k, w)>>
  \/ \E k \in Pipes, w \in BOOLEAN, g \in Files :
       Single(g) /\ work[p] = <<AnEnd(k, w), AFile(g)>>
  \/ work[p] = <<AnInode>>

Call(p) ==
  /\ work[p] # <<>> => pc[p].at \in {"user", "exit"}
  /\ pc[p].at = "pipe" =>
       /\ Fresh(pc[p].rf)
       /\ pc[p].wf # NoFile => Fresh(pc[p].wf) /\ pc[p].wf # pc[p].rf

\* A child being made has one parent that makes it.
Forks ==
  \A p \in Procs : pc[p].at = "fork" =>
    /\ pc[pc[p].child].at = "embryo"
    /\ \A q \in Procs : pc[q].at = "fork" /\ pc[q].child = pc[p].child => q = p

FilesInv ==
  /\ Typed /\ RefsExact /\ InodeRefs /\ Forks
  /\ \A p \in Procs : Work(p) /\ Call(p)

\* What the call of p will give back.
InCall(p, f) ==
  \/ pc[p].at = "pipe" /\ (pc[p].rf = f \/ pc[p].wf = f)
  \/ AFile(f) \in ToSet(work[p])
EndIn(p, k, w) == AnEnd(k, w) \in ToSet(work[p])
InodeIn(p) == AnInode \in ToSet(work[p])
EndOf(f, k, w) == file[f].type = "pipe" /\ file[f].pipe = k /\ file[f].writable = w

LEMMA FileRecs ==
  /\ NoneFile \in FileRec /\ NoneFile.ref = 0 /\ NoneFile.type = "none"
  /\ [ref |-> 1, type |-> "inode"] \in FileRec
  /\ \A k \in Pipes, w \in BOOLEAN :
       /\ PipeEnd(k, w) \in FileRec
       /\ PipeEnd(k, w).ref = 1 /\ PipeEnd(k, w).type = "pipe"
       /\ PipeEnd(k, w).pipe = k /\ PipeEnd(k, w).writable = w
  /\ \A r \in FileRec :
       /\ r.ref \in Nat /\ r.type \in {"none", "inode", "pipe"}
       /\ r.type = "pipe" => r.pipe \in Pipes /\ r.writable \in BOOLEAN
  /\ \A r \in FileRec, n \in Nat :
       /\ [r EXCEPT !.ref = n] \in FileRec
       /\ [r EXCEPT !.ref = n].ref = n
       /\ [r EXCEPT !.ref = n].type = r.type
       /\ r.type = "pipe" => /\ [r EXCEPT !.ref = n].pipe = r.pipe
                             /\ [r EXCEPT !.ref = n].writable = r.writable
<1>1. NoneFile \in FileRec /\ NoneFile.ref = 0 /\ NoneFile.type = "none"
  BY DEF NoneFile, FileRec
<1>2. [ref |-> 1, type |-> "inode"] \in FileRec
  BY DEF FileRec
<1>3. \A k \in Pipes, w \in BOOLEAN :
        /\ PipeEnd(k, w) \in FileRec
        /\ PipeEnd(k, w).ref = 1 /\ PipeEnd(k, w).type = "pipe"
        /\ PipeEnd(k, w).pipe = k /\ PipeEnd(k, w).writable = w
  BY DEF PipeEnd, FileRec
<1>4. \A r \in FileRec :
        /\ r.ref \in Nat /\ r.type \in {"none", "inode", "pipe"}
        /\ r.type = "pipe" => r.pipe \in Pipes /\ r.writable \in BOOLEAN
  BY DEF FileRec
<1>5. ASSUME NEW r \in FileRec, NEW n \in Nat
      PROVE  /\ [r EXCEPT !.ref = n] \in FileRec
             /\ [r EXCEPT !.ref = n].ref = n
             /\ [r EXCEPT !.ref = n].type = r.type
             /\ r.type = "pipe" => /\ [r EXCEPT !.ref = n].pipe = r.pipe
                                   /\ [r EXCEPT !.ref = n].writable = r.writable
  <2>1. CASE r \in [ref : Nat, type : {"none", "inode"}]
    BY <2>1 DEF FileRec
  <2>2. CASE r \in [ref : Nat, type : {"pipe"}, pipe : Pipes, writable : BOOLEAN]
    BY <2>2 DEF FileRec
  <2> QED
    BY <2>1, <2>2 DEF FileRec
<1> QED
  BY <1>1, <1>2, <1>3, <1>4, <1>5

LEMMA PcKinds ==
  /\ User \in Pcs /\ Unused \in Pcs /\ [at |-> "open"] \in Pcs
  /\ [at |-> "exit"] \in Pcs /\ [at |-> "embryo"] \in Pcs
  /\ User.at = "user" /\ Unused.at = "unused"
  /\ \A q \in Procs : [at |-> "fork", child |-> q] \in Pcs
  /\ \A f \in Files, g \in Files \cup {NoFile} : [at |-> "pipe", rf |-> f, wf |-> g] \in Pcs
  /\ \A c \in Pcs :
       /\ c.at \in {"user", "unused", "open", "exit", "embryo", "fork", "pipe"}
       /\ c.at = "user" => c = User
       /\ c.at = "fork" => c.child \in Procs
       /\ c.at = "pipe" =>
            /\ c.rf \in Files /\ c.wf \in Files \cup {NoFile}
            /\ \A g \in Files : [c EXCEPT !.wf = g] = [at |-> "pipe", rf |-> c.rf, wf |-> g]
<1>1. /\ User \in Pcs /\ Unused \in Pcs /\ [at |-> "open"] \in Pcs
      /\ [at |-> "exit"] \in Pcs /\ [at |-> "embryo"] \in Pcs
      /\ User.at = "user" /\ Unused.at = "unused"
  BY DEF Pcs, User, Unused
<1>2. \A q \in Procs : [at |-> "fork", child |-> q] \in Pcs
  BY DEF Pcs
<1>3. \A f \in Files, g \in Files \cup {NoFile} : [at |-> "pipe", rf |-> f, wf |-> g] \in Pcs
  BY DEF Pcs
<1>4. ASSUME NEW c \in Pcs
      PROVE  /\ c.at \in {"user", "unused", "open", "exit", "embryo", "fork", "pipe"}
             /\ c.at = "user" => c = User
             /\ c.at = "fork" => c.child \in Procs
             /\ c.at = "pipe" =>
                  /\ c.rf \in Files /\ c.wf \in Files \cup {NoFile}
                  /\ \A g \in Files : [c EXCEPT !.wf = g] = [at |-> "pipe", rf |-> c.rf, wf |-> g]
  <2>1. CASE c \in {User, Unused, [at |-> "open"], [at |-> "exit"], [at |-> "embryo"]}
    BY <2>1 DEF User, Unused
  <2>2. CASE c \in [at : {"fork"}, child : Procs]
    BY <2>2
  <2>3. CASE c \in [at : {"pipe"}, rf : Files, wf : Files \cup {NoFile}]
    BY <2>3
  <2> QED
    BY <2>1, <2>2, <2>3 DEF Pcs
<1> QED
  BY <1>1, <1>2, <1>3, <1>4

LEMMA FdsHasZero == 0 \in Fds /\ IsFiniteSet(Fds) /\ Fds \subseteq Nat
<1>1. 0 \in Fds /\ Fds \subseteq Nat
  BY OpenFilesAssumption DEF Fds
<1>2. NOFILE-1 \in Int
  BY OpenFilesAssumption
<1>3. IsFiniteSet(0..NOFILE-1)
  BY <1>2, FS_Interval
<1> QED
  BY <1>1, <1>3 DEF Fds
-----------------------------------------------------------------------------
(***************************************************************************)
(* Counting who names a file, an end of a pipe, an inode, before and after *)
(* a step: one process p, one descriptor (x, d) and one file g change.     *)
(***************************************************************************)
LEMMA Finite ==
  /\ IsFiniteSet(Files) /\ IsFiniteSet(Procs) /\ IsFiniteSet(Procs \X Fds)
  /\ \A f : Namers(f) \subseteq Procs \X Fds /\ IsFiniteSet(Namers(f))
  /\ \A f : InCalls(f) \subseteq Procs /\ IsFiniteSet(InCalls(f))
<1>1. IsFiniteSet(Files) /\ IsFiniteSet(Procs) /\ IsFiniteSet(Procs \X Fds)
  BY PipeAssumption, OpenFilesAssumption, FdsHasZero, FS_Product
<1>2. ASSUME NEW f
      PROVE  Namers(f) \subseteq Procs \X Fds /\ IsFiniteSet(Namers(f))
  <2>1. Namers(f) \subseteq Procs \X Fds
    BY DEF Namers
  <2> QED
    BY <1>1, <2>1, FS_Subset
<1>3. ASSUME NEW f
      PROVE  InCalls(f) \subseteq Procs /\ IsFiniteSet(InCalls(f))
  <2>1. InCalls(f) \subseteq Procs
    BY DEF InCalls
  <2> QED
    BY <1>1, <2>1, FS_Subset
<1> QED
  BY <1>1, <1>2, <1>3

LEMMA Naming ==
  /\ \A f, q, d : <<q, d>> \in Namers(f) <=> q \in Procs /\ d \in Fds /\ ofile[q][d] = f
  /\ \A f, q : q \in InCalls(f) <=> q \in Procs /\ InCall(q, f)
  /\ \A f : \A y \in Namers(f) : \E q \in Procs, d \in Fds : y = <<q, d>>
<1>1. \A f, q, d : <<q, d>> \in Namers(f) <=> q \in Procs /\ d \in Fds /\ ofile[q][d] = f
  BY DEF Namers
<1>2. \A f, q : q \in InCalls(f) <=> q \in Procs /\ InCall(q, f)
  BY DEF InCalls, InCall
<1>3. \A f : \A y \in Namers(f) : \E q \in Procs, d \in Fds : y = <<q, d>>
  BY DEF Namers
<1> QED
  BY <1>1, <1>2, <1>3

LEMMA NamingAfter ==
  /\ \A f, q, d : <<q, d>> \in Namers(f)' <=> q \in Procs /\ d \in Fds /\ ofile'[q][d] = f
  /\ \A f, q : q \in InCalls(f)' <=> q \in Procs /\ InCall(q, f)'
  /\ \A f : \A y \in Namers(f)' : \E q \in Procs, d \in Fds : y = <<q, d>>
<1>1. \A f, q, d : <<q, d>> \in Namers(f)' <=> q \in Procs /\ d \in Fds /\ ofile'[q][d] = f
  BY DEF Namers
<1>2. \A f, q : q \in InCalls(f)' <=> q \in Procs /\ InCall(q, f)'
  BY DEF InCalls, InCall
<1>3. \A f : \A y \in Namers(f)' : \E q \in Procs, d \in Fds : y = <<q, d>>
  BY DEF Namers
<1> QED
  BY <1>1, <1>2, <1>3

LEMMA RefsStep ==
  ASSUME NEW f, NEW p \in Procs, NEW x \in Procs, NEW d \in Fds,
         \A q \in Procs, e \in Fds :
           q # x \/ e # d => (ofile'[q][e] = f <=> ofile[q][e] = f),
         \A q \in Procs \ {p} : InCall(q, f)' <=> InCall(q, f)
  PROVE  /\ Cardinality(Namers(f)) \in Nat /\ Cardinality(Namers(f)') \in Nat
         /\ Cardinality(InCalls(f)) \in Nat /\ Cardinality(InCalls(f)') \in Nat
         /\ Cardinality(Namers(f)') + One(ofile[x][d] = f)
              = Cardinality(Namers(f)) + One(ofile'[x][d] = f)
         /\ Cardinality(InCalls(f)') + One(InCall(p, f))
              = Cardinality(InCalls(f)) + One(InCall(p, f)')
<1>1. Namers(f) \ {<<x, d>>} = Namers(f)' \ {<<x, d>>}
  <2>1. ASSUME NEW y, y \in Namers(f) \ {<<x, d>>}
        PROVE  y \in Namers(f)'
    <3>1. PICK q \in Procs, e \in Fds : y = <<q, e>>
      BY <2>1, Naming
    <3> QED
      BY <2>1, <3>1, Naming, NamingAfter
  <2>2. ASSUME NEW y, y \in Namers(f)' \ {<<x, d>>}
        PROVE  y \in Namers(f)
    <3>1. PICK q \in Procs, e \in Fds : y = <<q, e>>
      BY <2>2, NamingAfter
    <3> QED
      BY <2>2, <3>1, Naming, NamingAfter
  <2> QED
    BY <2>1, <2>2
<1>2. InCalls(f) \ {p} = InCalls(f)' \ {p}
  <2>1. ASSUME NEW y
        PROVE  y \in InCalls(f) \ {p} <=> y \in InCalls(f)' \ {p}
    <3>1. y \in InCalls(f) <=> y \in Procs /\ InCall(y, f)
      BY Naming
    <3>2. y \in InCalls(f)' <=> y \in Procs /\ InCall(y, f)'
      BY NamingAfter
    <3> QED
      BY <3>1, <3>2
  <2> QED
    BY <2>1
<1>3. One(<<x, d>> \in Namers(f)) = One(ofile[x][d] = f)
      /\ One(<<x, d>> \in Namers(f)') = One(ofile'[x][d] = f)
  BY Naming, NamingAfter
<1>4. One(p \in InCalls(f)) = One(InCall(p, f)) /\ One(p \in InCalls(f)') = One(InCall(p, f)')
  <2>1. p \in InCalls(f) <=> InCall(p, f)
    BY Naming
  <2>2. p \in InCalls(f)' <=> InCall(p, f)'
    BY NamingAfter
  <2> QED
    BY <2>1, <2>2 DEF One
<1>5. /\ Cardinality(Namers(f)) \in Nat /\ Cardinality(Namers(f)') \in Nat
      /\ Cardinality(Namers(f)') + One(<<x, d>> \in Namers(f))
           = Cardinality(Namers(f)) + One(<<x, d>> \in Namers(f)')
  BY <1>1, Finite, CountChange
<1>6. /\ Cardinality(InCalls(f)) \in Nat /\ Cardinality(InCalls(f)') \in Nat
      /\ Cardinality(InCalls(f)') + One(p \in InCalls(f))
           = Cardinality(InCalls(f)) + One(p \in InCalls(f)')
  BY <1>2, Finite, CountChange
<1> QED
  BY <1>3, <1>4, <1>5, <1>6

LEMMA AtLeast ==
  ASSUME NEW S, IsFiniteSet(S)
  PROVE  /\ Cardinality(S) \in Nat
         /\ \A a : a \in S => Cardinality(S) >= 1
         /\ \A a, b : a \in S /\ b \in S /\ a # b => Cardinality(S) >= 2
<1>1. Cardinality(S) \in Nat
  BY FS_CardinalityType
<1>2. ASSUME NEW a, a \in S
      PROVE  Cardinality(S) >= 1
  <2>1. Cardinality({}) = 0
    BY FS_EmptySet
  <2>2. S # {}
    BY <1>2
  <2> QED
    BY <1>1, <2>2, FS_EmptySet
<1>3. ASSUME NEW a, NEW b, a \in S, b \in S, a # b
      PROVE  Cardinality(S) >= 2
  <2>1. IsFiniteSet(S \ {a}) /\ Cardinality(S \ {a}) = Cardinality(S) - 1
    BY <1>3, FS_RemoveElement
  <2>2. S \ {a} # {}
    BY <1>3
  <2>3. Cardinality(S \ {a}) \in Nat /\ Cardinality(S \ {a}) # 0
    BY <2>1, <2>2, FS_CardinalityType, FS_EmptySet
  <2> QED
    BY <1>1, <2>1, <2>3
<1> QED
  BY <1>1, <1>2, <1>3

\* A file that is named has a count; one that is named twice, a count of two.
LEMMA Named ==
  ASSUME FilesInv, NEW f \in Files
  PROVE  /\ \A q \in Procs : InCall(q, f) => file[f].ref >= 1
         /\ \A q \in Procs, d \in Fds : ofile[q][d] = f => file[f].ref >= 1
         /\ \A q, r \in Procs : q # r /\ InCall(q, f) /\ InCall(r, f) => file[f].ref >= 2
         /\ \A q, r \in Procs, d \in Fds : InCall(q, f) /\ ofile[r][d] = f => file[f].ref >= 2
         /\ \A q, r \in Procs, d, e \in Fds :
              (q # r \/ d # e) /\ ofile[q][d] = f /\ ofile[r][e] = f => file[f].ref >= 2
<1>1. file[f].ref = Cardinality(Namers(f)) + Cardinality(InCalls(f))
  BY DEF FilesInv, RefsExact
<1>3. /\ Cardinality(Namers(f)) \in Nat
      /\ \A a : a \in Namers(f) => Cardinality(Namers(f)) >= 1
      /\ \A a, b : a \in Namers(f) /\ b \in Namers(f) /\ a # b => Cardinality(Namers(f)) >= 2
  BY Finite, AtLeast
<1>4. /\ Cardinality(InCalls(f)) \in Nat
      /\ \A a : a \in InCalls(f) => Cardinality(InCalls(f)) >= 1
      /\ \A a, b : a \in InCalls(f) /\ b \in InCalls(f) /\ a # b => Cardinality(InCalls(f)) >= 2
  BY Finite, AtLeast
<1>5. \A q \in Procs : InCall(q, f) => Cardinality(InCalls(f)) >= 1
  BY <1>4, Naming
<1>6. \A q \in Procs, d \in Fds : ofile[q][d] = f => Cardinality(Namers(f)) >= 1
  BY <1>3, Naming
<1>7. \A q, r \in Procs : q # r /\ InCall(q, f) /\ InCall(r, f) => Cardinality(InCalls(f)) >= 2
  BY <1>4, Naming
<1>8. ASSUME NEW q \in Procs, NEW r \in Procs, NEW d \in Fds, NEW e \in Fds,
             q # r \/ d # e, ofile[q][d] = f, ofile[r][e] = f
      PROVE  Cardinality(Namers(f)) >= 2
  <2>1. <<q, d>> \in Namers(f) /\ <<r, e>> \in Namers(f)
    BY <1>8, Naming
  <2>2. <<q, d>> # <<r, e>>
    BY <1>8
  <2> QED
    BY <1>3, <2>1, <2>2
<1> QED
  BY <1>1, <1>3, <1>4, <1>5, <1>6, <1>7, <1>8

LEMMA EndsStep ==
  ASSUME NEW k, NEW w, NEW p \in Procs, NEW g \in Files,
         \A f \in Files \ {g} : EndOf(f, k, w)' <=> EndOf(f, k, w),
         \A q \in Procs \ {p} : EndIn(q, k, w)' <=> EndIn(q, k, w)
  PROVE  /\ Owners(k, w) \in Nat /\ Owners(k, w)' \in Nat
         /\ Owners(k, w)' + One(EndOf(g, k, w)) + One(EndIn(p, k, w))
              = Owners(k, w) + One(EndOf(g, k, w)') + One(EndIn(p, k, w)')
<1> DEFINE S == {f \in Files : EndOf(f, k, w)}
           P == {q \in Procs : EndIn(q, k, w)}
<1>1. /\ S = {f \in Files : IsEnd(f, w) /\ file[f].pipe = k}
      /\ P = {q \in Procs : AnEnd(k, w) \in ToSet(work[q])}
  BY OpenFilesAssumption DEF IsEnd, EndOf, EndIn, NoFile
<1>2. /\ S' = {f \in Files : IsEnd(f, w) /\ file[f].pipe = k}'
      /\ P' = {q \in Procs : AnEnd(k, w) \in ToSet(work[q])}'
  BY OpenFilesAssumption DEF IsEnd, EndOf, EndIn, NoFile
<1>3. Owners(k, w) = Cardinality(S) + Cardinality(P)
  BY <1>1, Zenon DEF Owners
<1>4. Owners(k, w)' = Cardinality(S') + Cardinality(P')
  BY <1>2, Zenon DEF Owners
<1>5. IsFiniteSet(S) /\ IsFiniteSet(P)
  BY Finite, FS_Subset
<1>6. S \ {g} = S' \ {g} /\ P \ {p} = P' \ {p}
  <2>1. \A f : f \in S \ {g} <=> f \in S' \ {g}
    OBVIOUS
  <2>2. \A q : q \in P \ {p} <=> q \in P' \ {p}
    OBVIOUS
  <2> QED
    BY <2>1, <2>2
<1>7. /\ One(g \in S) = One(EndOf(g, k, w)) /\ One(g \in S') = One(EndOf(g, k, w)')
      /\ One(p \in P) = One(EndIn(p, k, w)) /\ One(p \in P') = One(EndIn(p, k, w)')
  <2>1. /\ g \in S <=> EndOf(g, k, w)
        /\ g \in S' <=> EndOf(g, k, w)'
    OBVIOUS
  <2>2. /\ p \in P <=> EndIn(p, k, w)
        /\ p \in P' <=> EndIn(p, k, w)'
    OBVIOUS
  <2> QED
    BY <2>1, <2>2 DEF One
<1> HIDE DEF S, P
<1>8. /\ Cardinality(S) \in Nat /\ Cardinality(S') \in Nat
      /\ Cardinality(S') + One(g \in S) = Cardinality(S) + One(g \in S')
  BY <1>5, <1>6, CountChange
<1>9. /\ Cardinality(P) \in Nat /\ Cardinality(P') \in Nat
      /\ Cardinality(P') + One(p \in P) = Cardinality(P) + One(p \in P')
  BY <1>5, <1>6, CountChange
<1>10. One(g \in S) \in Nat /\ One(g \in S') \in Nat /\ One(p \in P) \in Nat /\ One(p \in P') \in Nat
  BY DEF One
<1> QED
  BY <1>3, <1>4, <1>7, <1>8, <1>9, <1>10

LEMMA InodeStep ==
  ASSUME InodeRefs, refs' \in Nat, NEW p \in Procs, NEW g \in Files,
         \A f \in Files \ {g} : (file'[f].type = "inode") <=> (file[f].type = "inode"),
         \A q \in Procs \ {p} : (pc'[q].at = "open") <=> (pc[q].at = "open"),
         \A q \in Procs \ {p} : InodeIn(q)' <=> InodeIn(q),
         refs' + One(file[g].type = "inode") + One(pc[p].at = "open") + One(InodeIn(p))
           = refs + One(file'[g].type = "inode") + One(pc'[p].at = "open") + One(InodeIn(p)')
  PROVE  InodeRefs'
<1> DEFINE S == {f \in Files : file[f].type = "inode"}
           O == {q \in Procs : pc[q].at = "open"}
           P == {q \in Procs : InodeIn(q)}
<1>1. refs = Cardinality(S) + Cardinality(O) + Cardinality(P)
  BY DEF InodeRefs, InodeIn
<1>2. InodeRefs' <=> refs' = Cardinality(S') + Cardinality(O') + Cardinality(P')
  BY DEF InodeRefs, InodeIn
<1>3. IsFiniteSet(S) /\ IsFiniteSet(O) /\ IsFiniteSet(P)
  BY Finite, FS_Subset
<1>4. S \ {g} = S' \ {g} /\ O \ {p} = O' \ {p} /\ P \ {p} = P' \ {p}
  <2>1. \A f : f \in S \ {g} <=> f \in S' \ {g}
    OBVIOUS
  <2>2. \A q : q \in O \ {p} <=> q \in O' \ {p}
    OBVIOUS
  <2>3. \A q : q \in P \ {p} <=> q \in P' \ {p}
    OBVIOUS
  <2> QED
    BY <2>1, <2>2, <2>3
<1>5. /\ One(g \in S) = One(file[g].type = "inode") /\ One(g \in S') = One(file'[g].type = "inode")
      /\ One(p \in O) = One(pc[p].at = "open") /\ One(p \in O') = One(pc'[p].at = "open")
      /\ One(p \in P) = One(InodeIn(p)) /\ One(p \in P') = One(InodeIn(p)')
  <2>1. /\ g \in S <=> file[g].type = "inode"
        /\ g \in S' <=> file'[g].type = "inode"
    OBVIOUS
  <2>2. /\ p \in O <=> pc[p].at = "open"
        /\ p \in O' <=> pc'[p].at = "open"
    OBVIOUS
  <2>3. /\ p \in P <=> InodeIn(p)
        /\ p \in P' <=> InodeIn(p)'
    OBVIOUS
  <2> QED
    BY <2>1, <2>2, <2>3 DEF One
<1> HIDE DEF S, O, P
<1>6. /\ Cardinality(S) \in Nat /\ Cardinality(S') \in Nat
      /\ Cardinality(S') + One(g \in S) = Cardinality(S) + One(g \in S')
  BY <1>3, <1>4, CountChange
<1>7. /\ Cardinality(O) \in Nat /\ Cardinality(O') \in Nat
      /\ Cardinality(O') + One(p \in O) = Cardinality(O) + One(p \in O')
  BY <1>3, <1>4, CountChange
<1>8. /\ Cardinality(P) \in Nat /\ Cardinality(P') \in Nat
      /\ Cardinality(P') + One(p \in P) = Cardinality(P) + One(p \in P')
  BY <1>3, <1>4, CountChange
<1>9. PICK s \in {0,1}, t \in {0,1}, o \in {0,1}, u \in {0,1}, a \in {0,1}, b \in {0,1} :
        /\ s = One(g \in S) /\ t = One(g \in S')
        /\ o = One(p \in O) /\ u = One(p \in O')
        /\ a = One(p \in P) /\ b = One(p \in P')
  BY DEF One
<1>11. /\ refs' + s + o + a = refs + t + u + b
       /\ Cardinality(S') + s = Cardinality(S) + t
       /\ Cardinality(O') + o = Cardinality(O) + u
       /\ Cardinality(P') + a = Cardinality(P) + b
  BY <1>5, <1>6, <1>7, <1>8, <1>9, Zenon
<1>10. refs' = Cardinality(S') + Cardinality(O') + Cardinality(P')
  BY <1>1, <1>6, <1>7, <1>8, <1>11
<1> QED
  BY <1>2, <1>10
-----------------------------------------------------------------------------
(***************************************************************************)
(* A step of p leaves the calls of the others as they were.                *)
(***************************************************************************)
Touch(p) ==
  /\ \A f \in Files : file'[f] # file[f] =>
       \/ file[f].ref = 0
       \/ InCall(p, f)
       \/ \E x \in Procs, d \in Fds : ofile[x][d] = f
  /\ \A q \in Procs \ {p} :
       /\ work'[q] = work[q]
       /\ \/ pc'[q] = pc[q]
          \/ /\ pc[q].at \notin {"user", "exit", "open", "pipe"}
             /\ pc'[q].at \notin {"open", "pipe"}

LEMMA InWork ==
  ASSUME NEW p \in Procs
  PROVE  /\ \A f : work[p] = <<AFile(f)>> => InCall(p, f)
         /\ \A f, g : work[p] = <<AFile(f), AFile(g)>> => InCall(p, f) /\ InCall(p, g)
         /\ \A f : work[p] = <<AFile(f), AnInode>> => InCall(p, f)
         /\ \A f, k, w : work[p] = <<AnEnd(k, w), AFile(f)>> => InCall(p, f)
         /\ pc[p].at = "pipe" => InCall(p, pc[p].rf) /\ InCall(p, pc[p].wf)
<1>1. \A f : work[p] = <<AFile(f)>> => InCall(p, f)
  BY Items DEF InCall
<1>2. ASSUME NEW f, NEW g, work[p] = <<AFile(f), AFile(g)>>
      PROVE  InCall(p, f) /\ InCall(p, g)
  BY <1>2, Items DEF InCall
<1>3. ASSUME NEW f, work[p] = <<AFile(f), AnInode>>
      PROVE  InCall(p, f)
  BY <1>3, Items DEF InCall
<1>4. ASSUME NEW f, NEW k, NEW w, work[p] = <<AnEnd(k, w), AFile(f)>>
      PROVE  InCall(p, f)
  BY <1>4, Items DEF InCall
<1> QED
  BY <1>1, <1>2, <1>3, <1>4 DEF InCall

LEMMA Others ==
  ASSUME FilesInv, NEW p \in Procs, Touch(p), NEW q \in Procs \ {p}
  PROVE  /\ Work(q)' /\ Call(q)'
         /\ \A f : InCall(q, f)' <=> InCall(q, f)
         /\ \A k, w : EndIn(q, k, w)' <=> EndIn(q, k, w)
         /\ InodeIn(q)' <=> InodeIn(q)
         /\ (pc'[q].at = "open") <=> (pc[q].at = "open")
<1>1. work'[q] = work[q]
  BY DEF Touch
<1>2. \/ pc'[q] = pc[q]
      \/ /\ pc[q].at \notin {"user", "exit", "open", "pipe"}
         /\ pc'[q].at \notin {"open", "pipe"}
  BY DEF Touch
<1>3. ASSUME NEW f \in Files, file[f].ref = 1, InCall(q, f)
      PROVE  file'[f] = file[f]
  <2>1. ~InCall(p, f) /\ \A x \in Procs, d \in Fds : ofile[x][d] # f
    BY <1>3, Named
  <2> QED
    BY <1>3, <2>1 DEF Touch
<1>4. Work(q) /\ Call(q) /\ pc[q] \in Pcs
  BY DEF FilesInv, Typed
<1>5. Work(q)'
  <2>1. \A f \in Files : Single(f) /\ InCall(q, f) => Single(f)'
    BY <1>3 DEF Single
  <2>2. \A f \in Files : Fresh(f) /\ InCall(q, f) => Fresh(f)'
    BY <1>3 DEF Fresh
  <2>3. CASE work[q] = <<>>
    BY <1>1, <2>3 DEF Work
  <2>4. CASE \E f \in Files : Single(f) /\ work[q] = <<AFile(f)>>
    <3>1. \E f \in Files : Single(f)' /\ work'[q] = <<AFile(f)>>
      BY <1>1, <2>1, <2>4, InWork
    <3> QED
      BY <3>1 DEF Work
  <2>5. CASE \E f, g \in Files :
               f # g /\ Single(f) /\ Single(g) /\ work[q] = <<AFile(f), AFile(g)>>
    <3>1. \E f, g \in Files :
             f # g /\ Single(f)' /\ Single(g)' /\ work'[q] = <<AFile(f), AFile(g)>>
      BY <1>1, <2>1, <2>5, InWork
    <3> QED
      BY <3>1 DEF Work
  <2>6. CASE \E f \in Files : Fresh(f) /\ work[q] = <<AFile(f), AnInode>>
    <3>1. \E f \in Files : Fresh(f)' /\ work'[q] = <<AFile(f), AnInode>>
      BY <1>1, <2>2, <2>6, InWork
    <3> QED
      BY <3>1 DEF Work
  <2>7. CASE \E k \in Pipes, w \in BOOLEAN : work[q] = <<AnEnd(k, w)>>
    BY <1>1, <2>7 DEF Work
  <2>8. CASE \E k \in Pipes, w \in BOOLEAN, g \in Files :
               Single(g) /\ work[q] = <<AnEnd(k, w), AFile(g)>>
    <3>1. \E k \in Pipes, w \in BOOLEAN, g \in Files :
             Single(g)' /\ work'[q] = <<AnEnd(k, w), AFile(g)>>
      BY <1>1, <2>1, <2>8, InWork
    <3> QED
      BY <3>1 DEF Work
  <2>9. CASE work[q] = <<AnInode>>
    BY <1>1, <2>9 DEF Work
  <2> QED
    BY <1>4, <2>3, <2>4, <2>5, <2>6, <2>7, <2>8, <2>9 DEF Work
<1>6. Call(q)'
  <2>1. CASE pc'[q] = pc[q]
    <3>1. pc[q].at = "pipe" => pc[q].rf \in Files /\ pc[q].wf \in Files \cup {NoFile}
      BY <1>4, PcKinds
    <3>2. ASSUME pc[q].at = "pipe"
          PROVE  Fresh(pc[q].rf)' /\ (pc[q].wf # NoFile => Fresh(pc[q].wf)')
      <4>1. \A f \in Files : Fresh(f) /\ InCall(q, f) => file'[f].ref = 1 /\ file'[f].type = "none"
        BY <1>3 DEF Fresh
      <4>2. Fresh(pc[q].rf) /\ (pc[q].wf # NoFile => Fresh(pc[q].wf))
        BY <1>4, <3>2 DEF Call
      <4>3. InCall(q, pc[q].rf) /\ InCall(q, pc[q].wf)
        BY <3>2 DEF InCall
      <4> QED
        BY <2>1, <3>1, <3>2, <4>1, <4>2, <4>3 DEF Fresh
    <3> QED
      BY <1>1, <1>4, <2>1, <3>2 DEF Call, Fresh
  <2>2. CASE /\ pc[q].at \notin {"user", "exit", "open", "pipe"}
             /\ pc'[q].at \notin {"open", "pipe"}
    BY <1>1, <1>4, <2>2 DEF Call
  <2> QED
    BY <1>2, <2>1, <2>2
<1>7. \A f : InCall(q, f)' <=> InCall(q, f)
  BY <1>1, <1>2 DEF InCall
<1>8. \A k, w : EndIn(q, k, w)' <=> EndIn(q, k, w)
  BY <1>1 DEF EndIn
<1>9. InodeIn(q)' <=> InodeIn(q)
  BY <1>1 DEF InodeIn
<1> QED
  BY <1>2, <1>5, <1>6, <1>7, <1>8, <1>9
-----------------------------------------------------------------------------
(***************************************************************************)
(* What a step of p has to keep, and that it is enough.                    *)
(***************************************************************************)
Moves(f, p, x, d) ==
  /\ \A q \in Procs, e \in Fds :
       q # x \/ e # d => (ofile'[q][e] = f <=> ofile[q][e] = f)
  /\ file'[f].ref + One(ofile[x][d] = f) + One(InCall(p, f))
       = file[f].ref + One(ofile'[x][d] = f) + One(InCall(p, f)')
RefsMove(p) == \A f \in Files : \E x \in Procs, d \in Fds : Moves(f, p, x, d)

SameKind(f) ==
  /\ file'[f].type = file[f].type
  /\ file[f].type = "pipe" => file'[f].pipe = file[f].pipe
                              /\ file'[f].writable = file[f].writable
InodeMove(p, g) ==
  refs' + One(file[g].type = "inode") + One(pc[p].at = "open") + One(InodeIn(p))
    = refs + One(file'[g].type = "inode") + One(pc'[p].at = "open") + One(InodeIn(p)')
EndMove(p, g) ==
  \A k \in Pipes, w \in BOOLEAN :
    One(EndOf(g, k, w)) + One(EndIn(p, k, w)) = One(EndOf(g, k, w)') + One(EndIn(p, k, w)')
OwnersSame == \A k \in Pipes, w \in BOOLEAN : Owners(k, w)' = Owners(k, w)

LEMMA RefsKept ==
  ASSUME FilesInv, NEW p \in Procs, Touch(p), Typed', RefsMove(p)
  PROVE  RefsExact'
<1> SUFFICES ASSUME NEW f \in Files
             PROVE  file'[f].ref = Cardinality(Namers(f)') + Cardinality(InCalls(f)')
  BY DEF RefsExact
<1>1. PICK x \in Procs, d \in Fds : Moves(f, p, x, d)
  BY DEF RefsMove
<1>2. \A q \in Procs \ {p} : InCall(q, f)' <=> InCall(q, f)
  BY Others
<1>3. /\ Cardinality(Namers(f)) \in Nat /\ Cardinality(Namers(f)') \in Nat
      /\ Cardinality(InCalls(f)) \in Nat /\ Cardinality(InCalls(f)') \in Nat
      /\ Cardinality(Namers(f)') + One(ofile[x][d] = f)
           = Cardinality(Namers(f)) + One(ofile'[x][d] = f)
      /\ Cardinality(InCalls(f)') + One(InCall(p, f))
           = Cardinality(InCalls(f)) + One(InCall(p, f)')
  BY <1>1, <1>2, RefsStep DEF Moves
<1>4. file[f].ref = Cardinality(Namers(f)) + Cardinality(InCalls(f))
  BY DEF FilesInv, RefsExact
<1>5. file'[f].ref \in Nat /\ file[f].ref \in Nat
  BY FileRecs DEF Typed, FilesInv
<1>6. PICK a \in {0,1}, b \in {0,1}, c \in {0,1}, e \in {0,1} :
        /\ a = One(ofile[x][d] = f) /\ b = One(ofile'[x][d] = f)
        /\ c = One(InCall(p, f)) /\ e = One(InCall(p, f)')
  BY DEF One
<1>7. /\ file'[f].ref + a + c = file[f].ref + b + e
      /\ Cardinality(Namers(f)') + a = Cardinality(Namers(f)) + b
      /\ Cardinality(InCalls(f)') + c = Cardinality(InCalls(f)) + e
  BY <1>1, <1>3, <1>6, Zenon DEF Moves
<1> QED
  BY <1>3, <1>4, <1>5, <1>7

LEMMA FilesStep ==
  ASSUME FilesInv, NEW p \in Procs, NEW g \in Files, Touch(p), Typed', Forks',
         Work(p)', Call(p)', RefsMove(p), InodeMove(p, g),
         \A f \in Files \ {g} : SameKind(f)
  PROVE  FilesInv'
<1>1. RefsExact'
  BY RefsKept
<1>2. \A q \in Procs : Work(q)' /\ Call(q)'
  BY Others
<1>3. InodeRefs'
  <2>1. InodeRefs /\ refs' \in Nat
    BY DEF FilesInv, Typed
  <2>2. \A f \in Files \ {g} : (file'[f].type = "inode") <=> (file[f].type = "inode")
    BY DEF SameKind
  <2>3. \A q \in Procs \ {p} : (pc'[q].at = "open") <=> (pc[q].at = "open")
    BY Others
  <2>4. \A q \in Procs \ {p} : InodeIn(q)' <=> InodeIn(q)
    BY Others
  <2> QED
    BY <2>1, <2>2, <2>3, <2>4, InodeStep DEF InodeMove
<1> QED
  BY <1>1, <1>2, <1>3 DEF FilesInv

LEMMA OwnersStep ==
  ASSUME FilesInv, NEW p \in Procs, NEW g \in Files, Touch(p), EndMove(p, g),
         \A f \in Files \ {g} : SameKind(f)
  PROVE  OwnersSame
<1> SUFFICES ASSUME NEW k \in Pipes, NEW w \in BOOLEAN
             PROVE  Owners(k, w)' = Owners(k, w)
  BY DEF OwnersSame
<1>1. \A f \in Files \ {g} : EndOf(f, k, w)' <=> EndOf(f, k, w)
  BY DEF SameKind, EndOf
<1>2. \A q \in Procs \ {p} : EndIn(q, k, w)' <=> EndIn(q, k, w)
  BY Others
<1>3. /\ Owners(k, w) \in Nat /\ Owners(k, w)' \in Nat
      /\ Owners(k, w)' + One(EndOf(g, k, w)) + One(EndIn(p, k, w))
           = Owners(k, w) + One(EndOf(g, k, w)') + One(EndIn(p, k, w)')
  BY <1>1, <1>2, EndsStep
<1>4. One(EndOf(g, k, w)) + One(EndIn(p, k, w)) = One(EndOf(g, k, w)') + One(EndIn(p, k, w)')
  BY DEF EndMove
<1>5. PICK a \in {0,1}, b \in {0,1}, c \in {0,1}, e \in {0,1} :
        /\ a = One(EndOf(g, k, w)) /\ b = One(EndOf(g, k, w)')
        /\ c = One(EndIn(p, k, w)) /\ e = One(EndIn(p, k, w)')
  BY DEF One
<1>6. Owners(k, w)' + a + c = Owners(k, w) + b + e /\ a + c = b + e
  BY <1>3, <1>4, <1>5, Zenon
<1> QED
  BY <1>3, <1>6

\* What the transfers of the others rest on.
SameEnd(f) ==
  /\ file'[f].type = "pipe"
  /\ file'[f].pipe = file[f].pipe
  /\ file'[f].writable = file[f].writable
FilesOnly(p) ==
  /\ \A f \in Files : file[f].type = "pipe" =>
       \/ SameEnd(f)
       \/ file[f].ref = 1 /\ (InCall(p, f) \/ \E d \in Fds : ofile[p][d] = f)
  /\ \A q \in Procs \ {p} :
       /\ work'[q] = work[q]
       /\ pc[q].at = "user" => pc'[q] = pc[q]
       /\ \A d \in Fds : ofile[q][d] # NoFile => ofile'[q][d] = ofile[q][d]
  /\ xfer[p] = NoXfer \/ pc[p] # User \/ work[p] # <<>>
-----------------------------------------------------------------------------
(***************************************************************************)
(* The calls that leave the files alone.                                   *)
(***************************************************************************)
LEMMA SameFiles ==
  ASSUME FilesInv, NEW p \in Procs, UNCHANGED <<file, ofile, panic>>,
         pc' \in [Procs -> Pcs], work' = [q \in Procs |-> work'[q]], refs' \in Nat, Forks',
         \A q \in Procs \ {p} :
           /\ work'[q] = work[q]
           /\ \/ pc'[q] = pc[q]
              \/ /\ pc[q].at \notin {"user", "exit", "open", "pipe"}
                 /\ pc'[q].at \notin {"open", "pipe"},
         Work(p)', Call(p)', 
         \A f \in Files : InCall(p, f)' <=> InCall(p, f),
         \A k, w : EndIn(p, k, w)' <=> EndIn(p, k, w),
         refs' + One(pc[p].at = "open") + One(InodeIn(p))
           = refs + One(pc'[p].at = "open") + One(InodeIn(p)'),
         xfer[p] = NoXfer \/ pc[p] # User \/ work[p] # <<>>
  PROVE  FilesInv' /\ FilesOnly(p) /\ OwnersSame
<1>1. PICK g \in Files : TRUE
  BY OpenFilesAssumption
<1>2. Typed'
  BY DEF FilesInv, Typed
<1>3. Touch(p) /\ \A f \in Files : SameKind(f)
  BY DEF Touch, SameKind
<1>4. RefsMove(p)
  <2> SUFFICES ASSUME NEW f \in Files
               PROVE  Moves(f, p, p, 0)
    BY FdsHasZero DEF RefsMove
  <2>1. One(InCall(p, f)) = One(InCall(p, f)')
    BY DEF One
  <2> QED
    BY <2>1 DEF Moves
<1>5. InodeMove(p, g)
  <2>1. PICK a \in {0,1}, b \in {0,1}, c \in {0,1}, d \in {0,1}, e \in {0,1} :
          /\ a = One(file[g].type = "inode")
          /\ b = One(pc[p].at = "open") /\ c = One(pc'[p].at = "open")
          /\ d = One(InodeIn(p)) /\ e = One(InodeIn(p)')
    BY DEF One
  <2>2. refs \in Nat /\ refs' + b + d = refs + c + e
    BY <2>1, Zenon DEF FilesInv, Typed
  <2>3. refs' + a + b + d = refs + a + c + e
    BY <2>2
  <2> QED
    BY <2>1, <2>3 DEF InodeMove
<1>6. EndMove(p, g)
  <2> SUFFICES ASSUME NEW k \in Pipes, NEW w \in BOOLEAN
               PROVE  One(EndOf(g, k, w)) + One(EndIn(p, k, w))
                        = One(EndOf(g, k, w)') + One(EndIn(p, k, w)')
    BY DEF EndMove
  <2>1. EndOf(g, k, w) <=> EndOf(g, k, w)'
    BY DEF EndOf
  <2>2. One(EndOf(g, k, w)) = One(EndOf(g, k, w)') /\ One(EndIn(p, k, w)) = One(EndIn(p, k, w)')
    BY <2>1 DEF One
  <2> QED
    BY <2>2
<1>7. FilesOnly(p)
  BY DEF FilesOnly, SameEnd
<1>8. FilesInv'
  BY <1>2, <1>3, <1>4, <1>5, FilesStep
<1>9. OwnersSame
  BY <1>3, <1>6, OwnersStep
<1> QED
  BY <1>7, <1>8, <1>9

LEMMA Idle ==
  ASSUME NEW p \in Procs
  PROVE  /\ work[p] = <<>> => /\ \A k, w : ~EndIn(p, k, w)
                              /\ ~InodeIn(p)
                              /\ pc[p].at # "pipe" => \A f : ~InCall(p, f)
         /\ work'[p] = <<>> => /\ \A k, w : ~EndIn(p, k, w)'
                               /\ ~InodeIn(p)'
                               /\ pc'[p].at # "pipe" => \A f : ~InCall(p, f)'
         /\ work'[p] = <<>> => Work(p)' /\ (pc'[p].at # "pipe" => Call(p)')
<1>1. work[p] = <<>> => ToSet(work[p]) = {}
  BY Items
<1>2. work'[p] = <<>> => ToSet(work'[p]) = {}
  BY Items
<1> QED
  BY <1>1, <1>2 DEF EndIn, InodeIn, InCall, Work, Call

\* Work(p)' and what is in it, for each way a call is half way out.
LEMMA ToClose ==
  ASSUME NEW p \in Procs, pc'[p].at \in {"user", "exit"}
  PROVE  /\ Call(p)'
         /\ \A f \in Files : work'[p] = <<AFile(f)>> =>
              /\ Single(f)' => Work(p)'
              /\ \A h : InCall(p, h)' <=> h = f
              /\ \A k, w : ~EndIn(p, k, w)'
              /\ ~InodeIn(p)'
         /\ \A f, g \in Files : work'[p] = <<AFile(f), AFile(g)>> =>
              /\ f # g /\ Single(f)' /\ Single(g)' => Work(p)'
              /\ \A h : InCall(p, h)' <=> h \in {f, g}
              /\ \A k, w : ~EndIn(p, k, w)'
              /\ ~InodeIn(p)'
         /\ \A f \in Files : work'[p] = <<AFile(f), AnInode>> =>
              /\ Fresh(f)' => Work(p)'
              /\ \A h : InCall(p, h)' <=> h = f
              /\ \A k, w : ~EndIn(p, k, w)'
              /\ InodeIn(p)'
         /\ \A k \in Pipes, w \in BOOLEAN : work'[p] = <<AnEnd(k, w)>> =>
              /\ Work(p)'
              /\ \A h : ~InCall(p, h)'
              /\ \A l, x : EndIn(p, l, x)' <=> l = k /\ x = w
              /\ ~InodeIn(p)'
         /\ \A k \in Pipes, w \in BOOLEAN, f \in Files : work'[p] = <<AnEnd(k, w), AFile(f)>> =>
              /\ Single(f)' => Work(p)'
              /\ \A h : InCall(p, h)' <=> h = f
              /\ \A l, x : EndIn(p, l, x)' <=> l = k /\ x = w
              /\ ~InodeIn(p)'
         /\ work'[p] = <<AnInode>> =>
              /\ Work(p)'
              /\ \A h : ~InCall(p, h)'
              /\ \A k, w : ~EndIn(p, k, w)'
              /\ InodeIn(p)'
<1>0. Call(p)'
  BY DEF Call
<1>1. ASSUME NEW f \in Files, work'[p] = <<AFile(f)>>
      PROVE  /\ Single(f)' => Work(p)'
             /\ \A h : InCall(p, h)' <=> h = f
             /\ \A k, w : ~EndIn(p, k, w)'
             /\ ~InodeIn(p)'
  <2>1. ToSet(work'[p]) = {AFile(f)}
    BY <1>1, Items
  <2> QED
    BY <1>1, <2>1, Kinds DEF Work, InCall, EndIn, InodeIn
<1>2. ASSUME NEW f \in Files, NEW g \in Files, work'[p] = <<AFile(f), AFile(g)>>
      PROVE  /\ f # g /\ Single(f)' /\ Single(g)' => Work(p)'
             /\ \A h : InCall(p, h)' <=> h \in {f, g}
             /\ \A k, w : ~EndIn(p, k, w)'
             /\ ~InodeIn(p)'
  <2>1. ToSet(work'[p]) = {AFile(f), AFile(g)}
    BY <1>2, Items
  <2> QED
    BY <1>2, <2>1, Kinds DEF Work, InCall, EndIn, InodeIn
<1>3. ASSUME NEW f \in Files, work'[p] = <<AFile(f), AnInode>>
      PROVE  /\ Fresh(f)' => Work(p)'
             /\ \A h : InCall(p, h)' <=> h = f
             /\ \A k, w : ~EndIn(p, k, w)'
             /\ InodeIn(p)'
  <2>1. ToSet(work'[p]) = {AFile(f), AnInode}
    BY <1>3, Items
  <2> QED
    BY <1>3, <2>1, Kinds DEF Work, InCall, EndIn, InodeIn
<1>4. ASSUME NEW k \in Pipes, NEW w \in BOOLEAN, work'[p] = <<AnEnd(k, w)>>
      PROVE  /\ Work(p)'
             /\ \A h : ~InCall(p, h)'
             /\ \A l, x : EndIn(p, l, x)' <=> l = k /\ x = w
             /\ ~InodeIn(p)'
  <2>1. ToSet(work'[p]) = {AnEnd(k, w)}
    BY <1>4, Items
  <2> QED
    BY <1>4, <2>1, Kinds DEF Work, InCall, EndIn, InodeIn
<1>5. ASSUME NEW k \in Pipes, NEW w \in BOOLEAN, NEW f \in Files,
             work'[p] = <<AnEnd(k, w), AFile(f)>>
      PROVE  /\ Single(f)' => Work(p)'
             /\ \A h : InCall(p, h)' <=> h = f
             /\ \A l, x : EndIn(p, l, x)' <=> l = k /\ x = w
             /\ ~InodeIn(p)'
  <2>1. ToSet(work'[p]) = {AnEnd(k, w), AFile(f)}
    BY <1>5, Items
  <2> QED
    BY <1>5, <2>1, Kinds DEF Work, InCall, EndIn, InodeIn
<1>6. ASSUME work'[p] = <<AnInode>>
      PROVE  /\ Work(p)'
             /\ \A h : ~InCall(p, h)'
             /\ \A k, w : ~EndIn(p, k, w)'
             /\ InodeIn(p)'
  <2>1. ToSet(work'[p]) = {AnInode}
    BY <1>6, Items
  <2> QED
    BY <1>6, <2>1, Kinds DEF Work, InCall, EndIn, InodeIn
<1> QED
  BY <1>0, <1>1, <1>2, <1>3, <1>4, <1>5, <1>6

\* The same before the step, for the item at the head.
LEMMA AtHead ==
  ASSUME FilesInv, NEW p \in Procs, work[p] # <<>>
  PROVE  /\ Head(work[p]).is = "inode" =>
              work[p] = <<AnInode>> /\ Tail(work[p]) = <<>>
         /\ Head(work[p]).is = "pipe" =>
              \E k \in Pipes, w \in BOOLEAN :
                /\ Head(work[p]).pipe = k /\ Head(work[p]).writable = w
                /\ \/ work[p] = <<AnEnd(k, w)>> /\ Tail(work[p]) = <<>>
                   \/ \E g \in Files : /\ Single(g) /\ work[p] = <<AnEnd(k, w), AFile(g)>>
                                       /\ Tail(work[p]) = <<AFile(g)>>
         /\ Head(work[p]).is = "file" =>
              \E f \in Files :
                /\ Head(work[p]).file = f /\ Single(f)
                /\ \/ work[p] = <<AFile(f)>> /\ Tail(work[p]) = <<>>
                   \/ \E g \in Files : /\ f # g /\ Single(g) /\ work[p] = <<AFile(f), AFile(g)>>
                                       /\ Tail(work[p]) = <<AFile(g)>>
                   \/ /\ Fresh(f) /\ work[p] = <<AFile(f), AnInode>>
                      /\ Tail(work[p]) = <<AnInode>>
<1> DEFINE h == Head(work[p])
           t == Tail(work[p])
<1>1. Work(p)
  BY DEF FilesInv
<1>2. CASE \E f \in Files : Single(f) /\ work[p] = <<AFile(f)>>
  <2>1. PICK f \in Files : Single(f) /\ work[p] = <<AFile(f)>>
    BY <1>2
  <2>2. h = AFile(f) /\ t = <<>>
    BY <2>1, Items
  <2>3. h.is = "file" /\ h.file = f
    BY <2>2, Kinds
  <2> QED
    BY <2>1, <2>2, <2>3
<1>3. CASE \E f, g \in Files :
             f # g /\ Single(f) /\ Single(g) /\ work[p] = <<AFile(f), AFile(g)>>
  <2>1. PICK f \in Files, g \in Files :
          f # g /\ Single(f) /\ Single(g) /\ work[p] = <<AFile(f), AFile(g)>>
    BY <1>3
  <2>2. h = AFile(f) /\ t = <<AFile(g)>>
    BY <2>1, Items
  <2>3. h.is = "file" /\ h.file = f
    BY <2>2, Kinds
  <2> QED
    BY <2>1, <2>2, <2>3
<1>4. CASE \E f \in Files : Fresh(f) /\ work[p] = <<AFile(f), AnInode>>
  <2>1. PICK f \in Files : Fresh(f) /\ work[p] = <<AFile(f), AnInode>>
    BY <1>4
  <2>2. h = AFile(f) /\ t = <<AnInode>>
    BY <2>1, Items
  <2>3. h.is = "file" /\ h.file = f /\ Single(f)
    BY <2>1, <2>2, Kinds DEF Fresh, Single
  <2> QED
    BY <2>1, <2>2, <2>3
<1>5. CASE \E k \in Pipes, w \in BOOLEAN : work[p] = <<AnEnd(k, w)>>
  <2>1. PICK k \in Pipes, w \in BOOLEAN : work[p] = <<AnEnd(k, w)>>
    BY <1>5
  <2>2. h = AnEnd(k, w) /\ t = <<>>
    BY <2>1, Items
  <2>3. h.is = "pipe" /\ h.pipe = k /\ h.writable = w
    BY <2>2, Kinds
  <2> QED
    BY <2>1, <2>2, <2>3
<1>6. CASE \E k \in Pipes, w \in BOOLEAN, g \in Files :
             Single(g) /\ work[p] = <<AnEnd(k, w), AFile(g)>>
  <2>1. PICK k \in Pipes, w \in BOOLEAN, g \in Files :
          Single(g) /\ work[p] = <<AnEnd(k, w), AFile(g)>>
    BY <1>6
  <2>2. h = AnEnd(k, w) /\ t = <<AFile(g)>>
    BY <2>1, Items
  <2>3. h.is = "pipe" /\ h.pipe = k /\ h.writable = w
    BY <2>2, Kinds
  <2> QED
    BY <2>1, <2>2, <2>3
<1>7. CASE work[p] = <<AnInode>>
  <2>1. h = AnInode /\ t = <<>>
    BY <1>7, Items
  <2>2. h.is = "inode"
    BY <2>1, Kinds
  <2> QED
    BY <1>7, <2>1, <2>2
<1> QED
  BY <1>1, <1>2, <1>3, <1>4, <1>5, <1>6, <1>7 DEF Work

LEMMA iputStep ==
  ASSUME FilesInv, NEW p \in Procs, iput(p)
  PROVE  FilesInv' /\ FilesOnly(p) /\ OwnersSame
<1>1. /\ work[p] # <<>> /\ Head(work[p]).is = "inode" /\ work' = [work EXCEPT ![p] = Tail(@)]
      /\ refs' = refs - 1 /\ UNCHANGED <<file, ofile, pc, panic>>
  BY DEF iput
<1>2. work[p] = <<AnInode>> /\ Tail(work[p]) = <<>>
  BY <1>1, AtHead
<1>3. /\ work'[p] = <<>> /\ work' = [q \in Procs |-> work'[q]]
      /\ \A q \in Procs \ {p} : work'[q] = work[q]
  BY <1>1, <1>2 DEF FilesInv, Typed
<1>4. pc \in [Procs -> Pcs] /\ Call(p) /\ refs \in Nat /\ Forks /\ InodeRefs
  BY DEF FilesInv, Typed
<1>5. pc[p].at \in {"user", "exit"}
  BY <1>1, <1>4 DEF Call
<1>6. ToSet(work[p]) = {AnInode}
  BY <1>2, Items
<1>7. InodeIn(p) /\ (\A f : ~InCall(p, f)) /\ \A k, w : ~EndIn(p, k, w)
  BY <1>5, <1>6, Kinds DEF InodeIn, InCall, EndIn
<1>8. Work(p)' /\ Call(p)' /\ ~InodeIn(p)' /\ (\A f : ~InCall(p, f)') /\ \A k, w : ~EndIn(p, k, w)'
  BY <1>1, <1>3, <1>5, Idle
<1>9. refs >= 1
  <2> DEFINE P == {q \in Procs : AnInode \in ToSet(work[q])}
  <2>1. p \in P /\ IsFiniteSet(P)
    BY <1>7, Finite, FS_Subset DEF InodeIn
  <2>2. Cardinality(P) >= 1 /\ Cardinality(P) \in Nat
    BY <2>1, AtLeast
  <2>3. /\ Cardinality({f \in Files : file[f].type = "inode"}) \in Nat
        /\ Cardinality({q \in Procs : pc[q].at = "open"}) \in Nat
    BY Finite, FS_Subset, FS_CardinalityType
  <2> QED
    BY <1>4, <2>2, <2>3 DEF InodeRefs
<1>10. refs' \in Nat /\ pc' \in [Procs -> Pcs] /\ Forks'
  BY <1>1, <1>4, <1>9 DEF Forks
<1>11. refs' + One(pc[p].at = "open") + One(InodeIn(p))
         = refs + One(pc'[p].at = "open") + One(InodeIn(p)')
  BY <1>1, <1>4, <1>5, <1>7, <1>8 DEF One
<1> QED
  BY <1>1, <1>3, <1>7, <1>8, <1>10, <1>11, SameFiles

\* A call that p makes or ends by its program counter only.
LEMMA PcStep ==
  ASSUME FilesInv, NEW p \in Procs, NEW q \in Procs, NEW c \in Pcs, NEW d \in Pcs,
         pc' = [pc EXCEPT ![p] = c, ![q] = d],
         UNCHANGED <<file, ofile, work, panic>>, refs' \in Nat, Forks',
         work[p] = <<>>, pc[p].at # "pipe", c.at # "pipe",
         q # p => /\ pc[q].at \notin {"user", "exit", "open", "pipe"}
                  /\ d.at \notin {"open", "pipe"},
         q = p => d = c,
         refs' + One(pc[p].at = "open") = refs + One(c.at = "open"),
         xfer[p] = NoXfer \/ pc[p] # User
  PROVE  FilesInv' /\ FilesOnly(p) /\ OwnersSame
<1>1. pc \in [Procs -> Pcs] /\ refs \in Nat /\ work = [r \in Procs |-> work[r]]
  BY DEF FilesInv, Typed
<1>2. /\ pc'[p] = c /\ pc' \in [Procs -> Pcs]
      /\ \A r \in Procs \ {p} : pc'[r] = IF r = q THEN d ELSE pc[r]
  BY <1>1
<1>3. work'[p] = <<>> /\ work' = [r \in Procs |-> work'[r]]
  BY <1>1
<1>4. ~InodeIn(p) /\ (\A f : ~InCall(p, f)) /\ \A k, w : ~EndIn(p, k, w)
  BY Idle
<1>5. Work(p)' /\ Call(p)' /\ ~InodeIn(p)' /\ (\A f : ~InCall(p, f)') /\ \A k, w : ~EndIn(p, k, w)'
  BY <1>2, <1>3, Idle
<1>6. One(InodeIn(p)) = 0 /\ One(InodeIn(p)') = 0
  BY <1>4, <1>5 DEF One
<1>7. refs' + One(pc[p].at = "open") + One(InodeIn(p))
         = refs + One(pc'[p].at = "open") + One(InodeIn(p)')
  <2>1. One(pc[p].at = "open") \in {0,1} /\ One(c.at = "open") \in {0,1}
    BY DEF One
  <2>2. One(pc'[p].at = "open") = One(c.at = "open")
    BY <1>2
  <2> QED
    BY <1>1, <1>6, <2>1, <2>2
<1>8. \A r \in Procs \ {p} :
        /\ work'[r] = work[r]
        /\ \/ pc'[r] = pc[r]
           \/ /\ pc[r].at \notin {"user", "exit", "open", "pipe"}
              /\ pc'[r].at \notin {"open", "pipe"}
  BY <1>2
<1> QED
  BY <1>2, <1>3, <1>4, <1>5, <1>7, <1>8, SameFiles

LEMMA forkStep ==
  ASSUME FilesInv, NEW p \in Procs, fork(p)
  PROVE  FilesInv' /\ FilesOnly(p) /\ OwnersSame
<1>1. /\ pc[p] = User /\ xfer[p] = NoXfer /\ work[p] = <<>>
      /\ UNCHANGED <<file, ofile, work, refs, panic>>
  BY DEF fork, Calls
<1>2. PICK q \in Procs : /\ pc[q] = Unused
                         /\ pc' = [pc EXCEPT ![p] = [at |-> "fork", child |-> q],
                                             ![q] = [at |-> "embryo"]]
  BY DEF fork
<1>3. pc \in [Procs -> Pcs] /\ Forks /\ refs \in Nat
  BY DEF FilesInv, Typed
<1>4. pc[p].at = "user" /\ pc[q].at = "unused" /\ p # q
  BY <1>1, <1>2, PcKinds
<1>5. /\ pc'[p].at = "fork" /\ pc'[p].child = q /\ pc'[q].at = "embryo"
      /\ \A r \in Procs : r # p /\ r # q => pc'[r] = pc[r]
  BY <1>2, <1>3, <1>4
<1>6. \A r \in Procs : pc[r].at = "fork" => pc[r].child \in Procs /\ pc[pc[r].child].at = "embryo"
  BY <1>3, PcKinds DEF Forks
<1>7. Forks'
  <2>1. \A r \in Procs : pc[r].at = "fork" => pc[r].child # q /\ pc[r].child # p
    BY <1>4, <1>6
  <2> SUFFICES ASSUME NEW r \in Procs, pc'[r].at = "fork"
               PROVE  /\ pc'[pc'[r].child].at = "embryo"
                      /\ \A s \in Procs : pc'[s].at = "fork" /\ pc'[s].child = pc'[r].child => s = r
    BY DEF Forks
  <2>2. CASE r = p
    BY <1>5, <2>1, <2>2
  <2>3. CASE r # p
    <3>1. r # q /\ pc'[r] = pc[r]
      BY <1>5, <2>3
    <3>2. pc[r].child \in Procs /\ pc[r].child # q /\ pc[r].child # p /\ pc[pc[r].child].at = "embryo"
      BY <1>6, <2>1, <3>1
    <3>3. ASSUME NEW s \in Procs, pc'[s].at = "fork", pc'[s].child = pc'[r].child
          PROVE  s = r
      <4>1. s # q /\ s # p
        BY <1>5, <3>1, <3>2, <3>3
      <4>2. pc[s].at = "fork" /\ pc[s].child = pc[r].child
        BY <1>5, <3>1, <3>3, <4>1
      <4> QED
        BY <1>3, <3>1, <4>2 DEF Forks
    <3> QED
      BY <1>5, <3>1, <3>2, <3>3
  <2> QED
    BY <2>2, <2>3
<1>8. [at |-> "fork", child |-> q] \in Pcs /\ [at |-> "embryo"] \in Pcs
  BY PcKinds
<1>9. refs' + One(pc[p].at = "open") = refs + One([at |-> "fork", child |-> q].at = "open")
  BY <1>1, <1>3, <1>4 DEF One
<1> QED
  BY <1>1, <1>2, <1>3, <1>4, <1>7, <1>8, <1>9, PcStep

LEMMA ForkDoneStep ==
  ASSUME FilesInv, NEW p \in Procs, ForkDone(p)
  PROVE  FilesInv' /\ FilesOnly(p) /\ OwnersSame
<1>1. /\ pc[p].at = "fork" /\ work[p] = <<>>
      /\ pc' = [pc EXCEPT ![p] = User, ![pc[p].child] = User]
      /\ UNCHANGED <<file, ofile, work, refs, panic>>
  BY DEF ForkDone, In
<1>2. pc \in [Procs -> Pcs] /\ Forks /\ refs \in Nat
  BY DEF FilesInv, Typed
<1>3. PICK q \in Procs : q = pc[p].child
  BY <1>1, <1>2, PcKinds
<1>4. pc[q].at = "embryo" /\ p # q
  BY <1>1, <1>2, <1>3 DEF Forks
<1>5. /\ pc'[p].at = "user" /\ pc'[q].at = "user"
      /\ \A r \in Procs : r # p /\ r # q => pc'[r] = pc[r]
  BY <1>1, <1>2, <1>3, PcKinds
<1>6. Forks'
  <2> SUFFICES ASSUME NEW r \in Procs, pc'[r].at = "fork"
               PROVE  /\ pc'[pc'[r].child].at = "embryo"
                      /\ \A s \in Procs : pc'[s].at = "fork" /\ pc'[s].child = pc'[r].child => s = r
    BY DEF Forks
  <2>1. r # p /\ r # q /\ pc'[r] = pc[r]
    BY <1>5
  <2>2. pc[r].child # q
    BY <1>1, <1>2, <1>3, <2>1 DEF Forks
  <2>3. pc[r].child \in Procs /\ pc[pc[r].child].at = "embryo"
    BY <1>2, <2>1, PcKinds DEF Forks
  <2>4. pc[r].child # p
    BY <1>1, <2>3
  <2>5. pc'[pc'[r].child].at = "embryo"
    BY <1>5, <2>1, <2>2, <2>3, <2>4
  <2>6. ASSUME NEW s \in Procs, pc'[s].at = "fork", pc'[s].child = pc'[r].child
        PROVE  s = r
    <3>1. s # p /\ s # q /\ pc'[s] = pc[s]
      BY <1>5, <2>6
    <3> QED
      BY <1>2, <2>1, <2>6, <3>1 DEF Forks
  <2> QED
    BY <2>5, <2>6
<1>7. refs' + One(pc[p].at = "open") = refs + One(User.at = "open")
  BY <1>1, <1>2, PcKinds DEF One
<1> QED
  BY <1>1, <1>2, <1>3, <1>4, <1>6, <1>7, PcKinds, PcStep

\* A process that neither forks nor is being made changes its own state only.
LEMMA ForksKept ==
  ASSUME FilesInv, NEW p \in Procs, NEW c, pc' = [pc EXCEPT ![p] = c],
         c.at # "fork", pc[p].at # "embryo"
  PROVE  Forks'
<1>1. pc \in [Procs -> Pcs] /\ Forks
  BY DEF FilesInv, Typed
<1>2. pc'[p] = c /\ \A r \in Procs : r # p => pc'[r] = pc[r]
  BY <1>1
<1> SUFFICES ASSUME NEW r \in Procs, pc'[r].at = "fork"
             PROVE  /\ pc'[pc'[r].child].at = "embryo"
                    /\ \A s \in Procs : pc'[s].at = "fork" /\ pc'[s].child = pc'[r].child => s = r
  BY DEF Forks
<1>3. r # p /\ pc'[r] = pc[r]
  BY <1>2
<1>4. pc[r].child \in Procs /\ pc[pc[r].child].at = "embryo"
  BY <1>1, <1>3, PcKinds DEF Forks
<1>5. pc'[pc'[r].child].at = "embryo"
  BY <1>2, <1>3, <1>4
<1>6. ASSUME NEW s \in Procs, pc'[s].at = "fork", pc'[s].child = pc'[r].child
      PROVE  s = r
  <2>1. s # p /\ pc'[s] = pc[s]
    BY <1>2, <1>6
  <2> QED
    BY <1>1, <1>3, <1>6, <2>1 DEF Forks
<1> QED
  BY <1>5, <1>6

LEMMA OwnPcStep ==
  ASSUME FilesInv, NEW p \in Procs, NEW c \in Pcs,
         pc' = [pc EXCEPT ![p] = c],
         UNCHANGED <<file, ofile, work, panic>>, refs' \in Nat,
         work[p] = <<>>, pc[p].at \notin {"pipe", "embryo"}, c.at \notin {"pipe", "fork"},
         refs' + One(pc[p].at = "open") = refs + One(c.at = "open"),
         xfer[p] = NoXfer \/ pc[p] # User
  PROVE  FilesInv' /\ FilesOnly(p) /\ OwnersSame
<1>1. Forks'
  BY ForksKept
<1>2. pc' = [pc EXCEPT ![p] = c, ![p] = c]
  BY DEF FilesInv, Typed
<1> QED
  BY <1>1, <1>2, PcStep

LEMMA exitStep ==
  ASSUME FilesInv, NEW p \in Procs, exit(p)
  PROVE  FilesInv' /\ FilesOnly(p) /\ OwnersSame
<1>1. /\ pc[p] = User /\ xfer[p] = NoXfer /\ work[p] = <<>>
      /\ pc' = [pc EXCEPT ![p] = [at |-> "exit"]]
      /\ UNCHANGED <<file, ofile, work, refs, panic>>
  BY DEF exit, Goto
<1>2. pc[p].at = "user" /\ refs \in Nat
  BY <1>1, PcKinds DEF FilesInv, Typed
<1>3. [at |-> "exit"].at = "exit" /\ [at |-> "exit"] \in Pcs
  BY PcKinds
<1>4. refs' + One(pc[p].at = "open") = refs + One([at |-> "exit"].at = "open")
  BY <1>1, <1>2, <1>3 DEF One
<1> QED
  BY <1>1, <1>2, <1>3, <1>4, OwnPcStep

LEMMA ExitDoneStep ==
  ASSUME FilesInv, NEW p \in Procs, ExitDone(p)
  PROVE  FilesInv' /\ FilesOnly(p) /\ OwnersSame
<1>1. /\ pc[p].at = "exit" /\ work[p] = <<>>
      /\ pc' = [pc EXCEPT ![p] = Unused]
      /\ UNCHANGED <<file, ofile, work, refs, panic>>
  BY DEF ExitDone, Goto, In
<1>2. refs \in Nat /\ pc[p] # User
  BY <1>1, PcKinds DEF FilesInv, Typed
<1>3. Unused.at = "unused" /\ Unused \in Pcs
  BY PcKinds
<1>4. refs' + One(pc[p].at = "open") = refs + One(Unused.at = "open")
  BY <1>1, <1>2, <1>3 DEF One
<1> QED
  BY <1>1, <1>2, <1>3, <1>4, OwnPcStep

LEMMA sys_openStep ==
  ASSUME FilesInv, NEW p \in Procs, sys_open(p)
  PROVE  FilesInv' /\ FilesOnly(p) /\ OwnersSame
<1>1. /\ pc[p] = User /\ xfer[p] = NoXfer /\ work[p] = <<>>
      /\ pc' = [pc EXCEPT ![p] = [at |-> "open"]] /\ refs' = refs + 1
      /\ UNCHANGED <<file, ofile, work, panic>>
  BY DEF sys_open, Calls, Goto
<1>2. pc[p].at = "user" /\ refs \in Nat /\ refs' \in Nat
  BY <1>1, PcKinds DEF FilesInv, Typed
<1>3. [at |-> "open"].at = "open" /\ [at |-> "open"] \in Pcs
  BY PcKinds
<1>4. refs' + One(pc[p].at = "open") = refs + One([at |-> "open"].at = "open")
  BY <1>1, <1>2, <1>3 DEF One
<1> QED
  BY <1>1, <1>2, <1>3, <1>4, OwnPcStep
-----------------------------------------------------------------------------
(***************************************************************************)
(* The calls that give a file back.                                        *)
(***************************************************************************)
\* What fileclose() makes of a file that somebody names.
LEMMA FilecloseDoes ==
  ASSUME Typed, NEW p \in Procs, NEW f \in Files, NEW rest, file[f].ref >= 1,
         Fileclose(p, f, rest)
  PROVE  /\ panic' = FALSE
         /\ work' = [q \in Procs |-> work'[q]]
         /\ \A q \in Procs \ {p} : work'[q] = work[q]
         /\ \A g \in Files \ {f} : file'[g] = file[g]
         /\ file' \in [Files -> FileRec]
         /\ file'[f].ref = file[f].ref - 1
         /\ file'[f].ref = 0 => file'[f] = NoneFile
         /\ file[f].ref > 1 => SameKind(f) /\ work'[p] = <<>> \o rest
         /\ file[f].ref = 1 =>
              /\ file'[f] = NoneFile
              /\ file[f].type = "none" => work'[p] = <<>> \o rest
              /\ file[f].type = "inode" => work'[p] = <<AnInode>> \o rest
              /\ file[f].type = "pipe" =>
                   work'[p] = <<AnEnd(file[f].pipe, file[f].writable)>> \o rest
<1>1. /\ file' = DropRef(f) /\ panic' = FALSE
      /\ work' = [work EXCEPT ![p] = LeftToClose(f) \o rest]
  <2>1. file[f].ref \in Nat
    BY FileRecs DEF Typed
  <2>2. ~(file[f].ref < 1)
    BY <2>1
  <2> QED
    BY <2>2 DEF Fileclose, Typed
<1>2. /\ work' = [q \in Procs |-> work'[q]]
      /\ \A q \in Procs \ {p} : work'[q] = work[q]
      /\ work'[p] = LeftToClose(f) \o rest
  BY <1>1 DEF Typed
<1>3. file[f].ref \in Nat /\ file[f].type \in {"none", "inode", "pipe"} /\ file[f] \in FileRec
  BY FileRecs DEF Typed
<1>4. CASE file[f].ref > 1
  <2>1. PICK n \in Nat : n = file[f].ref - 1 /\ n > 0
    BY <1>3, <1>4
  <2>2. file' = [file EXCEPT ![f] = [file[f] EXCEPT !.ref = n]]
    BY <1>1, <1>4, <2>1 DEF DropRef
  <2>3. /\ \A g \in Files \ {f} : file'[g] = file[g]
        /\ file' \in [Files -> FileRec]
        /\ file'[f] = [file[f] EXCEPT !.ref = n]
    <3>1. [file[f] EXCEPT !.ref = n] \in FileRec
      BY <1>3, FileRecs
    <3> QED
      BY <2>2, <3>1 DEF Typed
  <2>4. file'[f].ref = n /\ SameKind(f)
    BY <1>3, <2>3, FileRecs DEF SameKind
  <2>5. LeftToClose(f) = <<>>
    BY <1>4 DEF LeftToClose
  <2> QED
    BY <1>1, <1>2, <1>4, <2>1, <2>3, <2>4, <2>5
<1>5. CASE file[f].ref = 1
  <2>1. file' = [file EXCEPT ![f] = NoneFile]
    BY <1>1, <1>5 DEF DropRef
  <2>2. /\ \A g \in Files \ {f} : file'[g] = file[g]
        /\ file' \in [Files -> FileRec]
        /\ file'[f] = NoneFile /\ file'[f].ref = 0
    BY <2>1, FileRecs DEF Typed
  <2>3. /\ file[f].type = "none" => LeftToClose(f) = <<>>
        /\ file[f].type = "inode" => LeftToClose(f) = <<AnInode>>
        /\ file[f].type = "pipe" => LeftToClose(f) = <<AnEnd(file[f].pipe, file[f].writable)>>
    BY <1>5 DEF LeftToClose
  <2>4. file'[f].ref = file[f].ref - 1 /\ ~(file[f].ref > 1)
    BY <1>5, <2>2
  <2>5. /\ file[f].type = "none" => work'[p] = <<>> \o rest
        /\ file[f].type = "inode" => work'[p] = <<AnInode>> \o rest
        /\ file[f].type = "pipe" =>
             work'[p] = <<AnEnd(file[f].pipe, file[f].writable)>> \o rest
    BY <1>2, <2>3, Zenon
  <2> QED
    BY <1>1, <1>2, <2>2, <2>4, <2>5, Zenon
<1>6. file[f].ref > 1 \/ file[f].ref = 1
  BY <1>3
<1> QED
  BY <1>4, <1>5, <1>6, Zenon

LEMMA DescriptorClosed ==
  ASSUME FilesInv, NEW p \in Procs, NEW d \in Fds, ofile[p][d] # NoFile,
         work[p] = <<>>, pc[p].at \in {"user", "exit"},
         ofile' = [ofile EXCEPT ![p][d] = NoFile],
         Fileclose(p, ofile[p][d], <<>>), UNCHANGED <<pc, refs>>,
         xfer[p] = NoXfer \/ pc[p] # User
  PROVE  FilesInv' /\ FilesOnly(p) /\ OwnersSame
<1>1. PICK f \in Files : f = ofile[p][d]
  BY DEF FilesInv, Typed
<1>2. file[f].ref >= 1 /\ Typed /\ file[f].ref \in Nat /\ file[f].type \in {"none", "inode", "pipe"}
  BY <1>1, Named, FileRecs DEF FilesInv, Typed
<1>3. /\ panic' = FALSE
      /\ work' = [q \in Procs |-> work'[q]]
      /\ \A q \in Procs \ {p} : work'[q] = work[q]
      /\ \A g \in Files \ {f} : file'[g] = file[g]
      /\ file' \in [Files -> FileRec]
      /\ file'[f].ref = file[f].ref - 1
      /\ file'[f].ref = 0 => file'[f] = NoneFile
      /\ file[f].ref > 1 => SameKind(f) /\ work'[p] = <<>>
      /\ file[f].ref = 1 =>
           /\ file'[f] = NoneFile
           /\ file[f].type = "none" => work'[p] = <<>>
           /\ file[f].type = "inode" => work'[p] = <<AnInode>>
           /\ file[f].type = "pipe" => work'[p] = <<AnEnd(file[f].pipe, file[f].writable)>>
  <2>1. PICK rest : rest = <<>>
    OBVIOUS
  <2>2. (\A a : <<a>> \o rest = <<a>>) /\ <<>> \o rest = <<>>
    BY <2>1, Items
  <2>3. Fileclose(p, f, rest)
    BY <1>1, <2>1
  <2>4. /\ panic' = FALSE
        /\ work' = [q \in Procs |-> work'[q]]
        /\ \A q \in Procs \ {p} : work'[q] = work[q]
        /\ \A g \in Files \ {f} : file'[g] = file[g]
        /\ file' \in [Files -> FileRec]
        /\ file'[f].ref = file[f].ref - 1
        /\ file'[f].ref = 0 => file'[f] = NoneFile
        /\ file[f].ref > 1 => SameKind(f) /\ work'[p] = <<>> \o rest
        /\ file[f].ref = 1 =>
              /\ file'[f] = NoneFile
              /\ file[f].type = "none" => work'[p] = <<>> \o rest
              /\ file[f].type = "inode" => work'[p] = <<AnInode>> \o rest
              /\ file[f].type = "pipe" =>
                   work'[p] = <<AnEnd(file[f].pipe, file[f].writable)>> \o rest
    BY <1>2, <2>3, FilecloseDoes
  <2> QED
    BY <2>2, <2>4, Zenon
<1>4. /\ ofile' \in [Procs -> [Fds -> Files \cup {NoFile}]]
      /\ ofile'[p][d] = NoFile
      /\ \A q \in Procs, e \in Fds : q # p \/ e # d => ofile'[q][e] = ofile[q][e]
  BY <1>2 DEF Typed
<1>5. Typed' /\ Forks'
  <2>1. \A g \in Files : file'[g].ref = 0 => file'[g] = NoneFile
    BY <1>2, <1>3 DEF Typed
  <2>3. pc' \in [Procs -> Pcs] /\ refs' \in Nat
    BY <1>2 DEF Typed
  <2>4. Typed'
    BY <1>3, <1>4, <2>1, <2>3, Zenon DEF Typed
  <2>2. Forks'
    BY DEF FilesInv, Forks
  <2> QED
    BY <2>2, <2>4
<1>6. Touch(p)
  BY <1>1, <1>3 DEF Touch
<1>7. (\A h : ~InCall(p, h)) /\ (\A k, w : ~EndIn(p, k, w)) /\ ~InodeIn(p)
  BY Idle
<1>8. /\ Work(p)' /\ Call(p)' /\ \A h : ~InCall(p, h)'
      /\ \A k \in Pipes, w \in BOOLEAN : EndIn(p, k, w)' <=>
           file[f].ref = 1 /\ EndOf(f, k, w)
      /\ InodeIn(p)' <=> file[f].ref = 1 /\ file[f].type = "inode"
  <2>1. CASE work'[p] = <<>>
    <3>1. file[f].ref = 1 => file[f].type = "none"
      BY <1>2, <1>3, <2>1, Items
    <3> QED
      BY <2>1, <3>1, Idle DEF EndOf
  <2>2. CASE file[f].ref = 1 /\ file[f].type = "inode"
    BY <1>3, <2>2, ToClose DEF EndOf
  <2>3. CASE file[f].ref = 1 /\ file[f].type = "pipe"
    <3>1. file[f].pipe \in Pipes /\ file[f].writable \in BOOLEAN
      BY <1>2, <2>3, FileRecs DEF Typed
    <3> QED
      BY <1>3, <2>3, <3>1, ToClose DEF EndOf
  <2> QED
    BY <1>2, <1>3, <2>1, <2>2, <2>3
<1>9. RefsMove(p)
  <2> SUFFICES ASSUME NEW h \in Files
               PROVE  Moves(h, p, p, d)
    BY DEF RefsMove
  <2>1. \A q \in Procs, e \in Fds : q # p \/ e # d => (ofile'[q][e] = h <=> ofile[q][e] = h)
    BY <1>4
  <2>2. One(InCall(p, h)) = 0 /\ One(InCall(p, h)') = 0
    BY <1>7, <1>8 DEF One
  <2>3. NoFile \notin Files
    BY OpenFilesAssumption DEF NoFile
  <2>4. CASE h = f
    <3>1. One(ofile[p][d] = h) = 1 /\ One(ofile'[p][d] = h) = 0
      BY <1>1, <1>4, <2>3, <2>4 DEF One
    <3> QED
      BY <1>2, <1>3, <2>1, <2>2, <2>4, <3>1 DEF Moves
  <2>5. CASE h # f
    <3>1. One(ofile[p][d] = h) = 0 /\ One(ofile'[p][d] = h) = 0
      BY <1>1, <1>4, <2>3, <2>5 DEF One
    <3> QED
      BY <1>3, <2>1, <2>2, <2>5, <3>1 DEF Moves
  <2> QED
    BY <2>4, <2>5
<1>10. InodeMove(p, f)
  <2>1. One(pc[p].at = "open") = 0 /\ One(pc'[p].at = "open") = 0 /\ One(InodeIn(p)) = 0
    BY <1>7 DEF One
  <2>2. One(file[f].type = "inode") = One(file'[f].type = "inode") + One(InodeIn(p)')
    BY <1>2, <1>3, <1>8, FileRecs DEF One, SameKind
  <2>3. refs \in Nat /\ One(file'[f].type = "inode") \in Nat /\ One(InodeIn(p)') \in Nat
    BY <1>2 DEF One, Typed
  <2> QED
    BY <2>1, <2>2, <2>3 DEF InodeMove
<1>11. EndMove(p, f)
  <2> SUFFICES ASSUME NEW k \in Pipes, NEW w \in BOOLEAN
               PROVE  One(EndOf(f, k, w)) + One(EndIn(p, k, w))
                        = One(EndOf(f, k, w)') + One(EndIn(p, k, w)')
    BY DEF EndMove
  <2>1. One(EndIn(p, k, w)) = 0
    BY <1>7 DEF One
  <2>2. CASE file[f].ref > 1
    <3>1. EndOf(f, k, w)' <=> EndOf(f, k, w)
      BY <1>3, <2>2 DEF EndOf, SameKind
    <3>2. ~EndIn(p, k, w)'
      BY <1>8, <2>2
    <3> QED
      BY <2>1, <3>1, <3>2 DEF One
  <2>3. CASE file[f].ref = 1
    <3>1. ~EndOf(f, k, w)'
      BY <1>3, <2>3, FileRecs DEF EndOf
    <3>2. EndIn(p, k, w)' <=> EndOf(f, k, w)
      BY <1>8, <2>3
    <3> QED
      BY <2>1, <3>1, <3>2 DEF One
  <2> QED
    BY <1>2, <2>2, <2>3
<1>12. \A g \in Files \ {f} : SameKind(g)
  BY <1>3 DEF SameKind
<1>13. FilesOnly(p)
  <2>1. ASSUME NEW g \in Files, file[g].type = "pipe"
        PROVE  SameEnd(g) \/ (file[g].ref = 1 /\ \E e \in Fds : ofile[p][e] = g)
    BY <1>1, <1>2, <1>3, <2>1 DEF SameEnd, SameKind
  <2>2. \A q \in Procs \ {p} : \A e \in Fds : ofile'[q][e] = ofile[q][e]
    BY <1>4
  <2> QED
    BY <1>3, <2>1, <2>2 DEF FilesOnly
<1> QED
  BY <1>5, <1>6, <1>8, <1>9, <1>10, <1>11, <1>12, <1>13, FilesStep, OwnersStep

LEMMA sys_closeStep ==
  ASSUME FilesInv, NEW p \in Procs, NEW fd \in Fds, sys_close(p, fd)
  PROVE  FilesInv' /\ FilesOnly(p) /\ OwnersSame
<1>1. pc[p].at = "user"
  BY PcKinds DEF sys_close, Calls
<1> QED
  BY <1>1, DescriptorClosed DEF sys_close, Calls

LEMMA ExitFileStep ==
  ASSUME FilesInv, NEW p \in Procs, ExitFile(p)
  PROVE  FilesInv' /\ FilesOnly(p) /\ OwnersSame
<1> DEFINE d == Lowest(Fds \ FreeFds(p))
<1>1. pc[p].at = "exit" /\ work[p] = <<>> /\ FreeFds(p) # Fds
  BY DEF ExitFile, In
<1>2. d \in Fds \ FreeFds(p)
  <2>1. Fds \ FreeFds(p) # {} /\ Fds \ FreeFds(p) \subseteq Nat
    BY <1>1, FdsHasZero DEF FreeFds
  <2> QED
    BY <2>1, LowestIs
<1>3. d \in Fds /\ ofile[p][d] # NoFile
  BY <1>2 DEF FreeFds
<1>4. ofile' = [ofile EXCEPT ![p][d] = NoFile] /\ Fileclose(p, ofile[p][d], <<>>)
      /\ UNCHANGED <<pc, refs>>
  BY DEF ExitFile
<1>5. pc[p] # User
  BY <1>1, PcKinds
<1> HIDE DEF d
<1> QED
  BY <1>1, <1>3, <1>4, <1>5, DescriptorClosed

LEMMA filecloseStep ==
  ASSUME FilesInv, NEW p \in Procs, fileclose(p)
  PROVE  FilesInv' /\ FilesOnly(p) /\ OwnersSame
<1>1. /\ work[p] # <<>> /\ Head(work[p]).is = "file"
      /\ Fileclose(p, Head(work[p]).file, Tail(work[p])) /\ UNCHANGED <<ofile, pc, refs>>
  BY DEF fileclose
<1>2. PICK f \in Files :
        /\ Head(work[p]).file = f /\ Single(f)
        /\ \/ work[p] = <<AFile(f)>> /\ Tail(work[p]) = <<>>
           \/ \E g \in Files : /\ f # g /\ Single(g) /\ work[p] = <<AFile(f), AFile(g)>>
                               /\ Tail(work[p]) = <<AFile(g)>>
           \/ Fresh(f) /\ work[p] = <<AFile(f), AnInode>> /\ Tail(work[p]) = <<AnInode>>
  BY <1>1, AtHead
<1>3. /\ Typed /\ Forks /\ Call(p) /\ file[f].ref = 1 /\ file[f].type \in {"none", "pipe"}
      /\ file[f].type = "pipe" => file[f].pipe \in Pipes /\ file[f].writable \in BOOLEAN
  BY <1>2, FileRecs DEF FilesInv, Typed, Single
<1>4. pc[p].at \in {"user", "exit"} /\ pc'[p] = pc[p]
  BY <1>1, <1>3 DEF Call
<1> DEFINE rest == Tail(work[p])
<1>5. /\ panic' = FALSE
      /\ work' = [q \in Procs |-> work'[q]]
      /\ \A q \in Procs \ {p} : work'[q] = work[q]
      /\ \A g \in Files \ {f} : file'[g] = file[g]
      /\ file' \in [Files -> FileRec]
      /\ file'[f] = NoneFile
      /\ file[f].type = "none" => work'[p] = <<>> \o rest
      /\ file[f].type = "pipe" => work'[p] = <<AnEnd(file[f].pipe, file[f].writable)>> \o rest
  <2>1. Fileclose(p, f, rest) /\ file[f].ref >= 1
    BY <1>1, <1>2, <1>3
  <2> HIDE DEF rest
  <2> QED
    BY <1>3, <2>1, FilecloseDoes
<1>6. Typed' /\ Forks'
  BY <1>1, <1>3, <1>5 DEF Typed, Forks
<1>7. InCall(p, f) /\ Touch(p)
  BY <1>2, <1>5, <1>1, InWork DEF Touch
<1>8. /\ Work(p)' /\ Call(p)'
      /\ \A h \in Files : InCall(p, h)' <=> InCall(p, h) /\ h # f
      /\ \A k \in Pipes, w \in BOOLEAN : ~EndIn(p, k, w) /\ (EndIn(p, k, w)' <=> EndOf(f, k, w))
      /\ InodeIn(p)' <=> InodeIn(p)
  <2>1. CASE work[p] = <<AFile(f)>> /\ rest = <<>>
    <3>1. ToSet(work[p]) = {AFile(f)}
      BY <2>1, Items
    <3>2. /\ \A h : InCall(p, h) <=> h = f
          /\ \A k, w : ~EndIn(p, k, w)
          /\ ~InodeIn(p)
      BY <1>4, <3>1, Kinds DEF InCall, EndIn, InodeIn
    <3>3. CASE file[f].type = "none"
      <4>1. work'[p] = <<>>
        BY <1>5, <2>1, <3>3, Items
      <4> QED
        BY <1>4, <3>2, <3>3, <4>1, Idle DEF EndOf
    <3>4. CASE file[f].type = "pipe"
      <4>1. work'[p] = <<AnEnd(file[f].pipe, file[f].writable)>>
        BY <1>5, <2>1, <3>4, Items
      <4> QED
        BY <1>3, <1>4, <3>2, <3>4, <4>1, ToClose DEF EndOf
    <3> QED
      BY <1>3, <3>3, <3>4
  <2>2. CASE \E g \in Files : /\ f # g /\ Single(g) /\ work[p] = <<AFile(f), AFile(g)>>
                              /\ rest = <<AFile(g)>>
    <3>0. PICK g \in Files : /\ f # g /\ Single(g) /\ work[p] = <<AFile(f), AFile(g)>>
                             /\ rest = <<AFile(g)>>
      BY <2>2
    <3>1. ToSet(work[p]) = {AFile(f), AFile(g)}
      BY <3>0, Items
    <3>2. /\ \A h : InCall(p, h) <=> h \in {f, g}
          /\ \A k, w : ~EndIn(p, k, w)
          /\ ~InodeIn(p)
      BY <1>4, <3>1, Kinds DEF InCall, EndIn, InodeIn
    <3>5. Single(g)'
      BY <1>5, <3>0 DEF Single
    <3>3. CASE file[f].type = "none"
      <4>1. work'[p] = <<AFile(g)>>
        BY <1>5, <3>0, <3>3, Items
      <4> QED
        BY <1>4, <3>0, <3>2, <3>3, <3>5, <4>1, ToClose DEF EndOf
    <3>4. CASE file[f].type = "pipe"
      <4>1. work'[p] = <<AnEnd(file[f].pipe, file[f].writable), AFile(g)>>
        BY <1>5, <3>0, <3>4, Items
      <4> QED
        BY <1>3, <1>4, <3>0, <3>2, <3>4, <3>5, <4>1, ToClose DEF EndOf
    <3> QED
      BY <1>3, <3>3, <3>4
  <2>3. CASE Fresh(f) /\ work[p] = <<AFile(f), AnInode>> /\ rest = <<AnInode>>
    <3>1. ToSet(work[p]) = {AFile(f), AnInode}
      BY <2>3, Items
    <3>2. /\ \A h : InCall(p, h) <=> h = f
          /\ \A k, w : ~EndIn(p, k, w)
          /\ InodeIn(p)
      BY <1>4, <3>1, Kinds DEF InCall, EndIn, InodeIn
    <3>3. file[f].type = "none"
      BY <2>3 DEF Fresh
    <3>4. work'[p] = <<AnInode>>
      BY <1>5, <2>3, <3>3, Items
    <3> QED
      BY <1>4, <3>2, <3>3, <3>4, ToClose DEF EndOf
  <2> QED
    BY <1>2, <2>1, <2>2, <2>3
<1> HIDE DEF rest
<1>9. RefsMove(p)
  <2> SUFFICES ASSUME NEW h \in Files
               PROVE  Moves(h, p, p, 0)
    BY FdsHasZero DEF RefsMove
  <2>1. One(ofile[p][0] = h) \in Nat /\ ofile' = ofile
    BY <1>1 DEF One
  <2>2. CASE h = f
    <3>1. One(InCall(p, h)) = 1 /\ One(InCall(p, h)') = 0
      BY <1>7, <1>8, <2>2 DEF One
    <3>2. file[h].ref = 1 /\ file'[h].ref = 0
      BY <1>3, <1>5, <2>2, FileRecs
    <3> QED
      BY <2>1, <3>1, <3>2 DEF Moves
  <2>3. CASE h # f
    <3>1. One(InCall(p, h)) = One(InCall(p, h)')
      BY <1>8, <2>3 DEF One
    <3> QED
      BY <1>5, <2>1, <2>3, <3>1 DEF Moves
  <2> QED
    BY <2>2, <2>3
<1>10. InodeMove(p, f)
  <2>1. One(file[f].type = "inode") = 0 /\ One(file'[f].type = "inode") = 0
    BY <1>3, <1>5, FileRecs DEF One
  <2>2. One(pc'[p].at = "open") = One(pc[p].at = "open") /\ One(InodeIn(p)) = One(InodeIn(p)')
    BY <1>4, <1>8 DEF One
  <2> QED
    BY <1>1, <2>1, <2>2 DEF InodeMove
<1>11. EndMove(p, f)
  <2> SUFFICES ASSUME NEW k \in Pipes, NEW w \in BOOLEAN
               PROVE  One(EndOf(f, k, w)) + One(EndIn(p, k, w))
                        = One(EndOf(f, k, w)') + One(EndIn(p, k, w)')
    BY DEF EndMove
  <2>1. One(EndIn(p, k, w)) = 0
    BY <1>8 DEF One
  <2>2. ~EndOf(f, k, w)'
    BY <1>5, FileRecs DEF EndOf
  <2>3. EndIn(p, k, w)' <=> EndOf(f, k, w)
    BY <1>8
  <2> QED
    BY <2>1, <2>2, <2>3 DEF One
<1>12. \A g \in Files \ {f} : SameKind(g)
  BY <1>5 DEF SameKind
<1>13. FilesOnly(p)
  <2>1. ASSUME NEW g \in Files, file[g].type = "pipe"
        PROVE  SameEnd(g) \/ (file[g].ref = 1 /\ InCall(p, g))
    BY <1>3, <1>5, <1>7, <2>1 DEF SameEnd
  <2> QED
    BY <1>1, <1>5, <2>1 DEF FilesOnly
<1> QED
  BY <1>6, <1>7, <1>8, <1>9, <1>10, <1>11, <1>12, <1>13, FilesStep, OwnersStep
-----------------------------------------------------------------------------
(***************************************************************************)
(* The calls that take a reference more, or a file.                        *)
(***************************************************************************)
LEMMA DescriptorCopied ==
  ASSUME FilesInv, NEW p \in Procs, NEW r \in Procs, NEW d \in Fds, NEW f \in Files,
         NEW e \in Fds, ofile[p][e] = f, ofile[r][d] = NoFile,
         ofile' = [ofile EXCEPT ![r][d] = f], file' = filedup(f),
         panic' = (file[f].ref < 1), UNCHANGED <<pc, work, refs>>,
         xfer[p] = NoXfer \/ pc[p] # User \/ work[p] # <<>>
  PROVE  FilesInv' /\ FilesOnly(p) /\ OwnersSame
<1>1. file[f].ref >= 1 /\ Typed /\ file[f].ref \in Nat /\ file[f] \in FileRec
  BY Named, FileRecs DEF FilesInv, Typed
<1>2. PICK n \in Nat : n = file[f].ref + 1
  BY <1>1
<1>3. /\ file' \in [Files -> FileRec]
      /\ file'[f].ref = n /\ SameKind(f)
      /\ \A g \in Files \ {f} : file'[g] = file[g]
  <2>1. file' = [file EXCEPT ![f] = [file[f] EXCEPT !.ref = n]]
    BY <1>2 DEF filedup
  <2>2. [file[f] EXCEPT !.ref = n] \in FileRec
    BY <1>1, FileRecs
  <2>3. /\ file' \in [Files -> FileRec]
        /\ file'[f] = [file[f] EXCEPT !.ref = n]
        /\ \A g \in Files \ {f} : file'[g] = file[g]
    BY <1>1, <2>1, <2>2 DEF Typed
  <2> QED
    BY <1>1, <2>3, FileRecs DEF SameKind
<1>4. /\ ofile' \in [Procs -> [Fds -> Files \cup {NoFile}]]
      /\ ofile'[r][d] = f
      /\ \A q \in Procs, i \in Fds : q # r \/ i # d => ofile'[q][i] = ofile[q][i]
  BY <1>1 DEF Typed
<1>5. Typed'
  <2>1. \A g \in Files : file'[g].ref = 0 => file'[g] = NoneFile
    BY <1>1, <1>2, <1>3 DEF Typed
  <2>2. pc' \in [Procs -> Pcs] /\ refs' \in Nat /\ work' = [q \in Procs |-> work'[q]]
    BY <1>1 DEF Typed
  <2>3. panic' = FALSE
    <3>1. (file[f].ref < 1) = FALSE
      BY <1>1
    <3> QED
      BY <3>1, Zenon
  <2> QED
    BY <1>3, <1>4, <2>1, <2>2, <2>3, Zenon DEF Typed
<1>6. Touch(p)
  BY <1>3 DEF Touch
<1>7. Forks' /\ \A g \in Files : SameKind(g)
  BY <1>3 DEF FilesInv, Forks, SameKind
<1>8. /\ \A h : InCall(p, h)' <=> InCall(p, h)
      /\ \A k, w : EndIn(p, k, w)' <=> EndIn(p, k, w)
      /\ InodeIn(p)' <=> InodeIn(p)
  BY DEF InCall, EndIn, InodeIn
<1>9. Work(p)' /\ Call(p)'
  <2>1. \A h \in Files : file[h].ref = 1 /\ InCall(p, h) => file'[h] = file[h]
    <3>1. InCall(p, f) => file[f].ref >= 2
      BY Named
    <3> QED
      BY <1>3, <3>1
  <2>2. \A h \in Files : /\ Single(h) /\ InCall(p, h) => Single(h)'
                         /\ Fresh(h) /\ InCall(p, h) => Fresh(h)'
    BY <2>1 DEF Single, Fresh
  <2>3. Work(p) /\ Call(p) /\ pc[p] \in Pcs
    BY DEF FilesInv, Typed
  <2>4. Work(p)'
    <3>1. CASE \E g \in Files : Single(g) /\ work[p] = <<AFile(g)>>
      <4>1. \E g \in Files : Single(g)' /\ work'[p] = <<AFile(g)>>
        BY <2>2, <3>1, InWork
      <4> QED
        BY <4>1 DEF Work
    <3>2. CASE \E g, h \in Files :
                 g # h /\ Single(g) /\ Single(h) /\ work[p] = <<AFile(g), AFile(h)>>
      <4>1. \E g, h \in Files :
               g # h /\ Single(g)' /\ Single(h)' /\ work'[p] = <<AFile(g), AFile(h)>>
        BY <2>2, <3>2, InWork
      <4> QED
        BY <4>1 DEF Work
    <3>3. CASE \E g \in Files : Fresh(g) /\ work[p] = <<AFile(g), AnInode>>
      <4>1. \E g \in Files : Fresh(g)' /\ work'[p] = <<AFile(g), AnInode>>
        BY <2>2, <3>3, InWork
      <4> QED
        BY <4>1 DEF Work
    <3>4. CASE \E k \in Pipes, w \in BOOLEAN, g \in Files :
                 Single(g) /\ work[p] = <<AnEnd(k, w), AFile(g)>>
      <4>1. \E k \in Pipes, w \in BOOLEAN, g \in Files :
               Single(g)' /\ work'[p] = <<AnEnd(k, w), AFile(g)>>
        BY <2>2, <3>4, InWork
      <4> QED
        BY <4>1 DEF Work
    <3> QED
      BY <2>3, <3>1, <3>2, <3>3, <3>4 DEF Work
  <2>5. Call(p)'
    <3>1. ASSUME pc[p].at = "pipe"
          PROVE  Fresh(pc[p].rf)' /\ (pc[p].wf # NoFile => Fresh(pc[p].wf)')
      BY <2>2, <2>3, <3>1, PcKinds, InWork DEF Call
    <3> QED
      BY <2>3, <3>1 DEF Call, Fresh
  <2> QED
    BY <2>4, <2>5
<1>10. RefsMove(p)
  <2> SUFFICES ASSUME NEW h \in Files
               PROVE  Moves(h, p, r, d)
    BY DEF RefsMove
  <2>1. \A q \in Procs, i \in Fds : q # r \/ i # d => (ofile'[q][i] = h <=> ofile[q][i] = h)
    BY <1>4
  <2>2. One(InCall(p, h)) = One(InCall(p, h)') /\ One(InCall(p, h)) \in Nat
    BY <1>8 DEF One
  <2>3. NoFile \notin Files
    BY OpenFilesAssumption DEF NoFile
  <2>4. CASE h = f
    <3>1. One(ofile[r][d] = h) = 0 /\ One(ofile'[r][d] = h) = 1
      BY <1>4, <2>3, <2>4 DEF One
    <3> QED
      BY <1>1, <1>2, <1>3, <2>1, <2>2, <2>4, <3>1 DEF Moves
  <2>5. CASE h # f
    <3>1. One(ofile[r][d] = h) = 0 /\ One(ofile'[r][d] = h) = 0
      BY <1>4, <2>3, <2>5 DEF One
    <3> QED
      BY <1>3, <2>1, <2>2, <2>5, <3>1 DEF Moves
  <2> QED
    BY <2>4, <2>5
<1>11. InodeMove(p, f)
  <2>1. One(file[f].type = "inode") = One(file'[f].type = "inode")
    BY <1>3 DEF One, SameKind
  <2>2. One(pc'[p].at = "open") = One(pc[p].at = "open") /\ One(InodeIn(p)) = One(InodeIn(p)')
    BY <1>8 DEF One
  <2> QED
    BY <2>1, <2>2 DEF InodeMove
<1>12. EndMove(p, f)
  <2> SUFFICES ASSUME NEW k \in Pipes, NEW w \in BOOLEAN
               PROVE  One(EndOf(f, k, w)) + One(EndIn(p, k, w))
                        = One(EndOf(f, k, w)') + One(EndIn(p, k, w)')
    BY DEF EndMove
  <2>1. EndOf(f, k, w)' <=> EndOf(f, k, w)
    BY <1>3 DEF EndOf, SameKind
  <2> QED
    BY <1>8, <2>1 DEF One
<1>13. FilesOnly(p)
  <2>1. \A g \in Files : file[g].type = "pipe" => SameEnd(g)
    BY <1>7 DEF SameEnd, SameKind
  <2>2. \A q \in Procs \ {p} : \A i \in Fds : ofile[q][i] # NoFile => ofile'[q][i] = ofile[q][i]
    BY <1>4
  <2> QED
    BY <2>1, <2>2 DEF FilesOnly
<1> QED
  BY <1>5, <1>6, <1>7, <1>9, <1>10, <1>11, <1>12, <1>13, FilesStep, OwnersStep

LEMMA TableKept ==
  ASSUME FilesInv, UNCHANGED fileVars
  PROVE  FilesInv'
<1>0. UNCHANGED file /\ UNCHANGED ofile /\ UNCHANGED pc /\ UNCHANGED work /\ UNCHANGED refs
      /\ UNCHANGED panic
  BY DEF fileVars
<1>1. Typed'
  BY <1>0 DEF FilesInv, Typed
<1>2. RefsExact'
  BY <1>0 DEF FilesInv, RefsExact, Namers, InCalls
<1>3. InodeRefs'
  BY <1>0 DEF FilesInv, InodeRefs
<1>4. Forks'
  BY <1>0 DEF FilesInv, Forks
<1>5. \A q \in Procs : Work(q)' /\ Call(q)'
  <2> SUFFICES ASSUME NEW q \in Procs
               PROVE  Work(q)' /\ Call(q)'
    OBVIOUS
  <2>1. Work(q) /\ Call(q)
    BY DEF FilesInv
  <2> QED
    BY <1>0, <2>1 DEF Work, Call, Single, Fresh
<1> QED
  BY <1>1, <1>2, <1>3, <1>4, <1>5 DEF FilesInv

LEMMA SameTable ==
  ASSUME FilesInv, NEW p \in Procs, UNCHANGED fileVars,
         xfer[p] = NoXfer \/ pc[p] # User \/ work[p] # <<>>
  PROVE  FilesInv' /\ FilesOnly(p) /\ OwnersSame
<1>1. FilesInv'
  BY TableKept
<1>2. OwnersSame
  BY DEF OwnersSame, fileVars, Owners, IsEnd
<1>3. FilesOnly(p)
  BY DEF FilesOnly, fileVars, SameEnd
<1> QED
  BY <1>1, <1>2, <1>3

LEMMA FreeFd ==
  ASSUME NEW p \in Procs, FreeFds(p) # {}
  PROVE  /\ Lowest(FreeFds(p)) \in Fds
         /\ ofile[p][Lowest(FreeFds(p))] = NoFile
<1>1. FreeFds(p) \in SUBSET Nat
  BY FdsHasZero DEF FreeFds
<1>2. Lowest(FreeFds(p)) \in FreeFds(p)
  BY <1>1, LowestIs
<1> QED
  BY <1>2 DEF FreeFds

LEMMA FreeFile ==
  ASSUME Typed, FreeFiles # {}
  PROVE  /\ Lowest(FreeFiles) \in Files
         /\ file[Lowest(FreeFiles)] = NoneFile
         /\ file[Lowest(FreeFiles)].ref = 0
<1>1. FreeFiles \in SUBSET Nat
  BY OpenFilesAssumption DEF FreeFiles
<1>2. Lowest(FreeFiles) \in FreeFiles
  BY <1>1, LowestIs
<1> QED
  BY <1>2 DEF FreeFiles, Typed

LEMMA sys_dupStep ==
  ASSUME FilesInv, NEW p \in Procs, NEW fd \in Fds, sys_dup(p, fd)
  PROVE  FilesInv' /\ FilesOnly(p) /\ OwnersSame
<1>1. xfer[p] = NoXfer /\ ofile[p][fd] # NoFile /\ UNCHANGED <<pc, work, refs>>
  BY DEF sys_dup, Calls
<1>2. PICK f \in Files : f = ofile[p][fd]
  BY <1>1 DEF FilesInv, Typed
<1>3. CASE FreeFds(p) = {}
  <2>1. UNCHANGED <<file, ofile>> /\ panic' = FALSE
    BY <1>3 DEF sys_dup
  <2>2. UNCHANGED fileVars
    BY <1>1, <2>1 DEF fileVars, FilesInv, Typed
  <2> QED
    BY <1>1, <2>2, SameTable
<1>4. CASE FreeFds(p) # {}
  <2>1. PICK d \in Fds : d = Lowest(FreeFds(p)) /\ ofile[p][d] = NoFile
    BY <1>4, FreeFd
  <2>2. /\ ofile' = [ofile EXCEPT ![p][d] = f] /\ file' = filedup(f)
        /\ panic' = (file[f].ref < 1)
    BY <1>2, <1>4, <2>1 DEF sys_dup
  <2> QED
    BY <1>1, <1>2, <2>1, <2>2, DescriptorCopied
<1> QED
  BY <1>3, <1>4

LEMMA ForkFileStep ==
  ASSUME FilesInv, NEW p \in Procs, ForkFile(p)
  PROVE  FilesInv' /\ FilesOnly(p) /\ OwnersSame
<1>1. pc[p].at = "fork" /\ UNCHANGED <<pc, work, refs>> /\ ToCopy(p, pc[p].child) # {}
  BY DEF ForkFile, In
<1>2. PICK q \in Procs : q = pc[p].child
  BY <1>1, PcKinds DEF FilesInv, Typed
<1>3. PICK d \in Fds : d = Lowest(ToCopy(p, q)) /\ ofile[p][d] # NoFile /\ ofile[q][d] = NoFile
  <2>1. ToCopy(p, q) \in SUBSET Nat /\ ToCopy(p, q) # {}
    BY <1>1, <1>2, FdsHasZero DEF ToCopy
  <2>2. Lowest(ToCopy(p, q)) \in ToCopy(p, q)
    BY <2>1, LowestIs
  <2> QED
    BY <2>2 DEF ToCopy
<1>4. PICK f \in Files : f = ofile[p][d]
  BY <1>3 DEF FilesInv, Typed
<1>5. /\ ofile' = [ofile EXCEPT ![q][d] = f] /\ file' = filedup(f)
      /\ panic' = (file[f].ref < 1)
  BY <1>2, <1>3, <1>4 DEF ForkFile
<1>6. pc[p] # User
  BY <1>1, PcKinds
<1> QED
  BY <1>1, <1>3, <1>4, <1>5, <1>6, DescriptorCopied

\* A free file becomes r, for a descriptor d of p or for its call.
Takes(p, f, r, d, c) ==
  /\ file[f] = NoneFile /\ file' = [file EXCEPT ![f] = r]
  /\ r.ref = 1 /\ r.type \in {"none", "inode"}
  /\ UNCHANGED <<refs, panic>>
  /\ ofile' \in [Procs -> [Fds -> Files \cup {NoFile}]]
  /\ \A q \in Procs, i \in Fds : q # p \/ i # d => ofile'[q][i] = ofile[q][i]
  /\ ofile[p][d] = f => ofile'[p][d] = f
  /\ \A h \in Files \ {f} : ofile'[p][d] = h <=> ofile[p][d] = h
  /\ pc' = [pc EXCEPT ![p] = c] /\ c.at # "fork" /\ pc[p].at # "embryo"
  /\ work' = [q \in Procs |-> work'[q]]
  /\ \A q \in Procs \ {p} : work'[q] = work[q]
  /\ \A h \in Files \ {f} : InCall(p, h)' <=> InCall(p, h)
  /\ One(InCall(p, f)') + One(ofile'[p][d] = f) = 1
  /\ \A k, w : EndIn(p, k, w)' <=> EndIn(p, k, w)
  /\ One(pc[p].at = "open") + One(InodeIn(p))
       = One(r.type = "inode") + One(c.at = "open") + One(InodeIn(p)')
  /\ xfer[p] = NoXfer \/ pc[p] # User

LEMMA FileTaken ==
  ASSUME FilesInv, NEW p \in Procs, NEW f \in Files, NEW r \in FileRec, NEW d \in Fds,
         NEW c \in Pcs, Takes(p, f, r, d, c), Work(p)', Call(p)'
  PROVE  FilesInv' /\ FilesOnly(p) /\ OwnersSame
<1> USE DEF Takes
<1>1. file[f].ref = 0 /\ file[f].type = "none" /\ Typed
  BY FileRecs DEF FilesInv
<1>2. /\ file' \in [Files -> FileRec] /\ file'[f] = r
      /\ \A g \in Files \ {f} : file'[g] = file[g]
  BY <1>1 DEF Typed
<1>3. /\ pc' \in [Procs -> Pcs] /\ pc'[p] = c
      /\ \A q \in Procs \ {p} : pc'[q] = pc[q]
  BY <1>1 DEF Typed
<1>4. Typed'
  <2>1. \A g \in Files : file'[g].ref = 0 => file'[g] = NoneFile
    BY <1>1, <1>2 DEF Typed
  <2>2. refs' \in Nat /\ panic' = FALSE
    BY <1>1 DEF Typed
  <2> QED
    BY <1>2, <1>3, <2>1, <2>2, Zenon DEF Typed
<1>5. Touch(p) /\ Forks'
  <2>1. Touch(p)
    BY <1>1, <1>2, <1>3 DEF Touch
  <2>2. Forks'
    BY ForksKept
  <2> QED
    BY <2>1, <2>2
<1>6. ~InCall(p, f) /\ ofile[p][d] # f
  BY <1>1, Named
<1>7. RefsMove(p)
  <2> SUFFICES ASSUME NEW h \in Files
               PROVE  Moves(h, p, p, d)
    BY DEF RefsMove
  <2>1. \A q \in Procs, i \in Fds : q # p \/ i # d => (ofile'[q][i] = h <=> ofile[q][i] = h)
    OBVIOUS
  <2>2. CASE h = f
    <3>1. One(ofile[p][d] = h) = 0 /\ One(InCall(p, h)) = 0
      BY <1>6, <2>2 DEF One
    <3>2. PICK a \in {0,1}, b \in {0,1} :
            a = One(InCall(p, h)') /\ b = One(ofile'[p][d] = h)
      BY DEF One
    <3>3. a + b = 1
      BY <2>2, <3>2, Zenon
    <3>4. file'[h].ref = 1 /\ file[h].ref = 0
      BY <1>1, <1>2, <2>2
    <3>5. file'[h].ref + 0 + 0 = file[h].ref + b + a
      BY <3>3, <3>4
    <3> QED
      BY <2>1, <3>1, <3>2, <3>5 DEF Moves
  <2>3. CASE h # f
    <3>1. /\ One(InCall(p, h)) = One(InCall(p, h)')
          /\ One(ofile[p][d] = h) = One(ofile'[p][d] = h)
      <4>1. /\ InCall(p, h) <=> InCall(p, h)'
            /\ ofile[p][d] = h <=> ofile'[p][d] = h
        BY <2>3
      <4> QED
        BY <4>1 DEF One
    <3> QED
      BY <1>2, <2>1, <2>3, <3>1 DEF Moves
  <2> QED
    BY <2>2, <2>3
<1>8. InodeMove(p, f)
  <2>1. One(file[f].type = "inode") = 0 /\ One(file'[f].type = "inode") = One(r.type = "inode")
    BY <1>1, <1>2 DEF One
  <2>2. One(pc'[p].at = "open") = One(c.at = "open")
    BY <1>3
  <2>3. PICK a \in {0,1}, b \in {0,1}, s \in {0,1}, t \in {0,1}, u \in {0,1} :
          /\ a = One(pc[p].at = "open") /\ b = One(InodeIn(p))
          /\ s = One(r.type = "inode") /\ t = One(c.at = "open") /\ u = One(InodeIn(p)')
    BY DEF One
  <2>4. a + b = s + t + u
    BY <2>3, Zenon
  <2>5. refs' = refs /\ refs \in Nat
    BY <1>1 DEF Typed
  <2>6. refs' + 0 + a + b = refs + s + t + u
    BY <2>4, <2>5
  <2> QED
    BY <2>1, <2>2, <2>3, <2>6 DEF InodeMove
<1>9. EndMove(p, f)
  <2> SUFFICES ASSUME NEW k \in Pipes, NEW w \in BOOLEAN
               PROVE  One(EndOf(f, k, w)) + One(EndIn(p, k, w))
                        = One(EndOf(f, k, w)') + One(EndIn(p, k, w)')
    BY DEF EndMove
  <2>1. ~EndOf(f, k, w)' /\ ~EndOf(f, k, w)
    BY <1>1, <1>2 DEF EndOf
  <2>2. EndIn(p, k, w)' <=> EndIn(p, k, w)
    OBVIOUS
  <2> QED
    BY <2>1, <2>2 DEF One
<1>10. \A g \in Files \ {f} : SameKind(g)
  BY <1>2 DEF SameKind
<1>11. FilesOnly(p)
  <2>1. \A g \in Files : file[g].type = "pipe" => SameEnd(g)
    BY <1>1, <1>2 DEF SameEnd
  <2> QED
    BY <1>3, <2>1 DEF FilesOnly
<1> QED
  BY <1>4, <1>5, <1>7, <1>8, <1>9, <1>10, <1>11, FilesStep, OwnersStep

LEMMA OpenFileStep ==
  ASSUME FilesInv, NEW p \in Procs, OpenFile(p)
  PROVE  FilesInv' /\ FilesOnly(p) /\ OwnersSame
<1>1. /\ pc[p].at = "open" /\ work[p] = <<>> /\ pc' = [pc EXCEPT ![p] = User]
      /\ UNCHANGED <<refs, panic>>
  BY DEF OpenFile, In, Goto
<1>2. /\ Typed /\ pc[p] # User /\ User \in Pcs /\ User.at = "user"
  BY <1>1, PcKinds DEF FilesInv
<1>3. /\ pc' \in [Procs -> Pcs] /\ pc'[p] = User /\ pc'[p].at \in {"user", "exit"}
      /\ \A q \in Procs \ {p} : pc'[q] = pc[q]
  BY <1>1, <1>2 DEF Typed
<1>4. (\A h : ~InCall(p, h)) /\ (\A k, w : ~EndIn(p, k, w)) /\ ~InodeIn(p)
  BY <1>1, Idle
<1>5. CASE FreeFiles = {}
  <2>1. work' = [work EXCEPT ![p] = <<AnInode>>] /\ UNCHANGED <<file, ofile>>
    BY <1>5 DEF OpenFile
  <2>2. /\ work'[p] = <<AnInode>> /\ work' = [q \in Procs |-> work'[q]]
        /\ \A q \in Procs \ {p} : work'[q] = work[q]
    BY <1>2, <2>1 DEF Typed
  <2>3. /\ Work(p)' /\ Call(p)' /\ InodeIn(p)'
        /\ (\A h : ~InCall(p, h)') /\ \A k, w : ~EndIn(p, k, w)'
    BY <1>3, <2>2, ToClose
  <2>4. Forks' /\ refs \in Nat /\ refs' = refs
    BY <1>1, <1>2, ForksKept DEF Typed
  <2>5. refs' + One(pc[p].at = "open") + One(InodeIn(p))
          = refs + One(pc'[p].at = "open") + One(InodeIn(p)')
    BY <1>1, <1>2, <1>3, <1>4, <2>3, <2>4 DEF One
  <2> QED
    BY <1>1, <1>2, <1>3, <1>4, <2>1, <2>2, <2>3, <2>4, <2>5, SameFiles
<1>6. CASE FreeFiles # {}
  <2>1. PICK f \in Files : f = Lowest(FreeFiles) /\ file[f] = NoneFile
    BY <1>2, <1>6, FreeFile
  <2>2. NoFile \notin Files /\ f # NoFile
    BY <2>1, OpenFilesAssumption DEF NoFile
  <2>3. CASE FreeFds(p) = {}
    <3>1. /\ file' = NewFile(f) /\ work' = [work EXCEPT ![p] = CloseAndPut(f)]
          /\ UNCHANGED ofile
      BY <1>6, <2>1, <2>3 DEF OpenFile
    <3>2. PICK r \in FileRec : r = [NoneFile EXCEPT !.ref = 1]
      BY FileRecs
    <3>3. file' = [file EXCEPT ![f] = r] /\ r.ref = 1 /\ r.type = "none"
      BY <2>1, <3>1, <3>2, FileRecs DEF NewFile
    <3>4. /\ work'[p] = <<AFile(f), AnInode>> /\ work' = [q \in Procs |-> work'[q]]
          /\ \A q \in Procs \ {p} : work'[q] = work[q]
      BY <1>2, <3>1 DEF Typed, CloseAndPut
    <3>5. Fresh(f)'
      BY <1>2, <3>3 DEF Fresh, Typed
    <3>6. /\ Work(p)' /\ Call(p)' /\ InodeIn(p)'
          /\ \A h : InCall(p, h)' <=> h = f
          /\ \A k, w : ~EndIn(p, k, w)'
      BY <1>3, <3>4, <3>5, ToClose
    <3>7. PICK d \in Fds : d = 0
      BY FdsHasZero
    <3>8. ofile[p][d] # f
      BY <2>1, Named, FileRecs
    <3>9. One(InCall(p, f)') + One(ofile'[p][d] = f) = 1
      BY <3>1, <3>6, <3>8 DEF One
    <3>10. One(pc[p].at = "open") + One(InodeIn(p))
             = One(r.type = "inode") + One(User.at = "open") + One(InodeIn(p)')
      BY <1>1, <1>2, <1>4, <3>3, <3>6 DEF One
    <3>11. ofile' \in [Procs -> [Fds -> Files \cup {NoFile}]] /\ ofile' = ofile
      BY <1>2, <3>1 DEF Typed
    <3>12. pc[p].at # "embryo" /\ User.at # "fork"
      BY <1>1, <1>2
    <3>13. \A h \in Files \ {f} : InCall(p, h)' <=> InCall(p, h)
      BY <1>4, <3>6
    <3>14. \A k, w : EndIn(p, k, w)' <=> EndIn(p, k, w)
      BY <1>4, <3>6
    <3>15. /\ \A q \in Procs, i \in Fds : q # p \/ i # d => ofile'[q][i] = ofile[q][i]
           /\ ofile[p][d] = f => ofile'[p][d] = f
           /\ \A h \in Files \ {f} : ofile'[p][d] = h <=> ofile[p][d] = h
      BY <3>11
    <3>16. UNCHANGED <<refs, panic>> /\ r.type \in {"none", "inode"}
           /\ (xfer[p] = NoXfer \/ pc[p] # User)
      BY <1>1, <1>2, <3>3
    <3>17. Takes(p, f, r, d, User)
      BY <1>1, <2>1, <3>3, <3>4, <3>9, <3>10, <3>11, <3>12, <3>13, <3>14, <3>15, <3>16, Zenon
         DEF Takes
    <3> QED
      BY <1>2, <3>6, <3>17, FileTaken
  <2>4. CASE FreeFds(p) # {}
    <3>1. PICK d \in Fds : d = Lowest(FreeFds(p)) /\ ofile[p][d] = NoFile
      BY <2>4, FreeFd
    <3>2. PICK r \in FileRec : r = [ref |-> 1, type |-> "inode"]
      BY FileRecs
    <3>3. /\ file' = [file EXCEPT ![f] = r]
          /\ ofile' = [ofile EXCEPT ![p][d] = f]
          /\ UNCHANGED work
      BY <1>6, <2>1, <2>4, <3>1, <3>2 DEF OpenFile
    <3>4. r.ref = 1 /\ r.type = "inode"
      BY <3>2
    <3>5. /\ ofile' \in [Procs -> [Fds -> Files \cup {NoFile}]]
          /\ ofile'[p][d] = f
          /\ \A q \in Procs, i \in Fds : q # p \/ i # d => ofile'[q][i] = ofile[q][i]
      BY <1>2, <3>3 DEF Typed
    <3>6. /\ Work(p)' /\ Call(p)' /\ ~InodeIn(p)'
          /\ (\A h : ~InCall(p, h)') /\ \A k, w : ~EndIn(p, k, w)'
      BY <1>1, <1>3, <3>3, Idle
    <3>7. One(InCall(p, f)') + One(ofile'[p][d] = f) = 1
      BY <3>5, <3>6 DEF One
    <3>8. One(pc[p].at = "open") + One(InodeIn(p))
            = One(r.type = "inode") + One(User.at = "open") + One(InodeIn(p)')
      BY <1>1, <1>2, <1>4, <3>4, <3>6 DEF One
    <3>9. pc[p].at # "embryo" /\ User.at # "fork"
      BY <1>1, <1>2
    <3>10. \A h \in Files \ {f} : ofile'[p][d] = h <=> ofile[p][d] = h
      BY <2>2, <3>1, <3>5
    <3>11. work' = [q \in Procs |-> work'[q]] /\ \A q \in Procs : work'[q] = work[q]
      BY <1>2, <3>3 DEF Typed
    <3>12. \A h \in Files \ {f} : InCall(p, h)' <=> InCall(p, h)
      BY <1>4, <3>6
    <3>13. \A k, w : EndIn(p, k, w)' <=> EndIn(p, k, w)
      BY <1>4, <3>6
    <3>14. UNCHANGED <<refs, panic>> /\ r.type \in {"none", "inode"}
           /\ (xfer[p] = NoXfer \/ pc[p] # User)
           /\ (ofile[p][d] = f => ofile'[p][d] = f)
      BY <1>1, <1>2, <3>4, <3>5
    <3>15. /\ \A q \in Procs \ {p} : work'[q] = work[q]
           /\ r.type \in {"none", "inode"}
      BY <3>4, <3>11
    <3>16. Takes(p, f, r, d, User)
      BY <1>1, <2>1, <3>3, <3>4, <3>5, <3>7, <3>8, <3>9, <3>10, <3>11, <3>12, <3>13, <3>14,
         <3>15, Zenon DEF Takes
    <3> QED
      BY <1>2, <3>6, <3>16, FileTaken
  <2> QED
    BY <2>3, <2>4
<1> QED
  BY <1>5, <1>6

\* pipe() is a call that holds one new file, then two.
LEMMA PipeFileTaken ==
  ASSUME FilesInv, NEW p \in Procs, NEW f \in Files, NEW c \in Pcs,
         file[f] = NoneFile, file' = NewFile(f), pc' = [pc EXCEPT ![p] = c],
         work[p] = <<>>, UNCHANGED <<ofile, work, refs, panic>>,
         pc[p].at \in {"user", "pipe"}, xfer[p] = NoXfer \/ pc[p] # User,
         c.at = "pipe",
         \/ c.rf = f /\ c.wf = NoFile /\ pc[p].at = "user"
         \/ c.rf = pc[p].rf /\ c.wf = f /\ pc[p].at = "pipe" /\ pc[p].wf = NoFile
  PROVE  FilesInv' /\ FilesOnly(p) /\ OwnersSame
<1>1. Typed /\ Call(p) /\ pc[p] \in Pcs
  BY DEF FilesInv, Typed
<1>2. pc'[p] = c /\ work'[p] = <<>>
  BY <1>1 DEF Typed
<1>3. ToSet(<<>>) = {} /\ ToSet(work[p]) = {} /\ ToSet(work'[p]) = {}
  BY <1>2, Items
<1>4. /\ (\A k, w : ~EndIn(p, k, w)) /\ ~InodeIn(p)
      /\ (\A k, w : ~EndIn(p, k, w)') /\ ~InodeIn(p)'
      /\ \A h : InCall(p, h) <=> pc[p].at = "pipe" /\ (pc[p].rf = h \/ pc[p].wf = h)
      /\ \A h : InCall(p, h)' <=> (c.rf = h \/ c.wf = h)
  BY <1>2, <1>3 DEF InCall, EndIn, InodeIn
<1>5. NoFile \notin Files /\ f # NoFile
  BY OpenFilesAssumption DEF NoFile
<1>6. \A h \in Files \ {f} : InCall(p, h)' <=> InCall(p, h)
  BY <1>4, <1>5
<1>7. InCall(p, f)'
  BY <1>4
<1>8. PICK r \in FileRec : r = [NoneFile EXCEPT !.ref = 1]
  BY FileRecs
<1>9. file' = [file EXCEPT ![f] = r] /\ r.ref = 1 /\ r.type = "none"
  BY <1>8, FileRecs DEF NewFile
<1>10. PICK d \in Fds : d = 0
  BY FdsHasZero
<1>11. ofile[p][d] # f
  BY Named, FileRecs
<1>12. One(InCall(p, f)') + One(ofile'[p][d] = f) = 1
  BY <1>7, <1>11 DEF One
<1>13. One(pc[p].at = "open") + One(InodeIn(p))
         = One(r.type = "inode") + One(c.at = "open") + One(InodeIn(p)')
  BY <1>4, <1>9 DEF One
<1>14. Work(p)'
  BY <1>2, Idle
<1>15. Call(p)'
  <2>1. \A h \in Files : h # f => file'[h] = file[h]
    BY <1>1, <1>9 DEF Typed
  <2>2. Fresh(f)'
    BY <1>1, <1>9 DEF Typed, Fresh
  <2>3. CASE c.rf = f /\ c.wf = NoFile
    BY <1>2, <2>2, <2>3 DEF Call, Fresh
  <2>4. CASE c.rf = pc[p].rf /\ c.wf = f /\ pc[p].at = "pipe"
    <3>1. c.rf \in Files /\ Fresh(c.rf)
      BY <1>1, <2>4, PcKinds DEF Call
    <3>2. c.rf # f
      BY <3>1, FileRecs DEF Fresh
    <3>3. Fresh(c.rf)'
      BY <2>1, <3>1, <3>2 DEF Fresh
    <3> QED
      BY <1>2, <2>2, <2>4, <3>2, <3>3 DEF Call, Fresh
  <2> QED
    BY <2>3, <2>4
<1>16. /\ ofile' \in [Procs -> [Fds -> Files \cup {NoFile}]] /\ ofile' = ofile
       /\ work' = [q \in Procs |-> work'[q]] /\ \A q \in Procs : work'[q] = work[q]
  BY <1>1 DEF Typed
<1>17. pc[p].at # "embryo" /\ c.at # "fork"
  OBVIOUS
<1>18. \A k, w : EndIn(p, k, w)' <=> EndIn(p, k, w)
  BY <1>4
<1>19. /\ \A q \in Procs, i \in Fds : q # p \/ i # d => ofile'[q][i] = ofile[q][i]
       /\ ofile[p][d] = f => ofile'[p][d] = f
       /\ \A h \in Files \ {f} : ofile'[p][d] = h <=> ofile[p][d] = h
  BY <1>16
<1>20. UNCHANGED <<refs, panic>> /\ r.type \in {"none", "inode"}
  BY <1>9
<1>21. Takes(p, f, r, d, c)
  BY <1>6, <1>9, <1>12, <1>13, <1>16, <1>17, <1>18, <1>19, <1>20 DEF Takes
<1> QED
  BY <1>14, <1>15, <1>21, FileTaken

LEMMA sys_pipeStep ==
  ASSUME FilesInv, NEW p \in Procs, sys_pipe(p)
  PROVE  FilesInv' /\ FilesOnly(p) /\ OwnersSame
<1>1. /\ pc[p] = User /\ xfer[p] = NoXfer /\ work[p] = <<>> /\ pc[p].at = "user"
      /\ UNCHANGED <<ofile, work, refs, panic>>
  BY PcKinds DEF sys_pipe, Calls
<1>2. CASE FreeFiles = {}
  <2>1. UNCHANGED fileVars
    BY <1>1, <1>2 DEF sys_pipe, fileVars
  <2> QED
    BY <1>1, <2>1, SameTable
<1>3. CASE FreeFiles # {}
  <2>1. PICK f \in Files : f = Lowest(FreeFiles) /\ file[f] = NoneFile
    BY <1>3, FreeFile DEF FilesInv
  <2>2. PICK c \in Pcs : c = [at |-> "pipe", rf |-> f, wf |-> NoFile]
    BY PcKinds
  <2>3. file' = NewFile(f) /\ pc' = [pc EXCEPT ![p] = c]
    BY <1>3, <2>1, <2>2 DEF sys_pipe, Goto
  <2>4. c.at = "pipe" /\ c.rf = f /\ c.wf = NoFile
    BY <2>2
  <2> QED
    BY <1>1, <2>1, <2>3, <2>4, PipeFileTaken
<1> QED
  BY <1>2, <1>3

LEMMA PipeWriteEndStep ==
  ASSUME FilesInv, NEW p \in Procs, PipeWriteEnd(p)
  PROVE  FilesInv' /\ FilesOnly(p) /\ OwnersSame
<1>1. /\ pc[p].at = "pipe" /\ work[p] = <<>> /\ pc[p].wf = NoFile
      /\ UNCHANGED <<ofile, refs, panic>>
  BY DEF PipeWriteEnd, In
<1>2. /\ Typed /\ pc[p] # User /\ pc[p] \in Pcs /\ pc[p].rf \in Files
      /\ Fresh(pc[p].rf) /\ Call(p)
  BY <1>1, PcKinds DEF FilesInv, Typed, Call
<1>3. CASE FreeFiles = {}
  <2>0. PICK g \in Files : g = pc[p].rf /\ Fresh(g)
    BY <1>2
  <2>1. /\ pc' = [pc EXCEPT ![p] = User] /\ work' = [work EXCEPT ![p] = <<AFile(g)>>]
        /\ UNCHANGED file
    BY <1>3, <2>0 DEF PipeWriteEnd, Goto
  <2>2. /\ work'[p] = <<AFile(g)>> /\ work' = [q \in Procs |-> work'[q]]
        /\ \A q \in Procs \ {p} : work'[q] = work[q]
    BY <1>2, <2>1 DEF Typed
  <2>3. /\ pc' \in [Procs -> Pcs] /\ pc'[p].at = "user"
        /\ \A q \in Procs \ {p} : pc'[q] = pc[q]
    BY <1>2, <2>1, PcKinds DEF Typed
  <2>4. Single(g)'
    BY <2>0, <2>1 DEF Fresh, Single
  <2>5. /\ Work(p)' /\ Call(p)' /\ ~InodeIn(p)'
        /\ (\A h : InCall(p, h)' <=> h = g) /\ \A k, w : ~EndIn(p, k, w)'
    BY <1>2, <2>2, <2>3, <2>4, ToClose
  <2>6. ToSet(work[p]) = {} /\ NoFile \notin Files
    BY <1>1, Items, OpenFilesAssumption DEF NoFile
  <2>7. /\ (\A k, w : ~EndIn(p, k, w)) /\ ~InodeIn(p)
        /\ \A h \in Files : InCall(p, h) <=> h = g
    BY <1>1, <2>0, <2>6 DEF EndIn, InodeIn, InCall
  <2>8. Forks' /\ refs \in Nat /\ refs' = refs
    <3>1. User.at # "fork" /\ pc[p].at # "embryo"
      BY <1>1, PcKinds
    <3> QED
      BY <1>1, <1>2, <2>1, <3>1, ForksKept DEF Typed
  <2>9. refs' + One(pc[p].at = "open") + One(InodeIn(p))
          = refs + One(pc'[p].at = "open") + One(InodeIn(p)')
    BY <1>1, <2>3, <2>5, <2>7, <2>8 DEF One
  <2>10. \A h \in Files : InCall(p, h)' <=> InCall(p, h)
    BY <2>5, <2>7
  <2>11. \A k, w : EndIn(p, k, w)' <=> EndIn(p, k, w)
    BY <2>5, <2>7
  <2> QED
    BY <1>1, <1>2, <2>1, <2>2, <2>3, <2>5, <2>8, <2>9, <2>10, <2>11, SameFiles
<1>4. CASE FreeFiles # {}
  <2>1. PICK f \in Files : f = Lowest(FreeFiles) /\ file[f] = NoneFile
    BY <1>2, <1>4, FreeFile
  <2>2. PICK c \in Pcs : c = [pc[p] EXCEPT !.wf = f] /\ c = [at |-> "pipe", rf |-> pc[p].rf, wf |-> f]
    BY <1>1, <1>2, PcKinds
  <2>3. /\ file' = NewFile(f) /\ pc' = [pc EXCEPT ![p] = c] /\ UNCHANGED work
    BY <1>4, <2>1, <2>2 DEF PipeWriteEnd, Goto
  <2>4. c.at = "pipe" /\ c.rf = pc[p].rf /\ c.wf = f
    BY <2>2
  <2> QED
    BY <1>1, <1>2, <2>1, <2>3, <2>4, PipeFileTaken
<1> QED
  BY <1>3, <1>4

\* The two ends of a new pipe.
NewEnds(k) ==
  /\ ~pipe[k].alloc /\ pipe' = [pipe EXCEPT ![k] = NewPipe]
  /\ \A l \in Pipes, w \in BOOLEAN : Owners(l, w)' = Owners(l, w) + One(l = k)

LEMMA PipePageStep ==
  ASSUME FilesInv, NEW p \in Procs, PipePage(p)
  PROVE  /\ FilesInv' /\ FilesOnly(p)
         /\ (OwnersSame /\ pipe' = pipe) \/ \E k \in Pipes : NewEnds(k)
<1>1. /\ pc[p].at = "pipe" /\ work[p] = <<>> /\ pc[p].wf # NoFile
      /\ pc' = [pc EXCEPT ![p] = User] /\ UNCHANGED <<refs, panic>>
  BY DEF PipePage, In, Goto
<1>2. Typed /\ pc[p] # User /\ Call(p) /\ pc[p] \in Pcs
  BY <1>1, PcKinds DEF FilesInv, Typed
<1>3. PICK f \in Files, g \in Files :
        f = pc[p].rf /\ g = pc[p].wf /\ Fresh(f) /\ Fresh(g) /\ f # g
  BY <1>1, <1>2, PcKinds DEF Call
<1>4. /\ pc' \in [Procs -> Pcs] /\ pc'[p].at = "user"
      /\ \A q \in Procs \ {p} : pc'[q] = pc[q]
  BY <1>1, <1>2, PcKinds DEF Typed
<1>5. Forks' /\ refs \in Nat /\ refs' = refs
  <2>1. User.at # "fork" /\ pc[p].at # "embryo"
    BY <1>1, PcKinds
  <2> QED
    BY <1>1, <1>2, <2>1, ForksKept DEF Typed
<1>6. /\ (\A k, w : ~EndIn(p, k, w)) /\ ~InodeIn(p)
      /\ \A h : InCall(p, h) <=> h \in {f, g}
  <2>1. ToSet(work[p]) = {}
    BY <1>1, Items
  <2> QED
    BY <1>1, <1>3, <2>1 DEF EndIn, InodeIn, InCall
<1>7. CloseBoth(p) = <<AFile(f), AFile(g)>>
  BY <1>3 DEF CloseBoth
<1>8. ASSUME work' = [work EXCEPT ![p] = CloseBoth(p)], Single(f)', Single(g)'
      PROVE  /\ work' = [q \in Procs |-> work'[q]]
             /\ \A q \in Procs \ {p} : work'[q] = work[q]
             /\ Work(p)' /\ Call(p)' /\ ~InodeIn(p)'
             /\ (\A h : InCall(p, h)' <=> InCall(p, h))
             /\ \A k, w : EndIn(p, k, w)' <=> EndIn(p, k, w)
  <2>1. /\ work' = [q \in Procs |-> work'[q]]
        /\ \A q \in Procs \ {p} : work'[q] = work[q]
        /\ work'[p] = <<AFile(f), AFile(g)>>
    BY <1>2, <1>7, <1>8 DEF Typed
  <2>2. /\ Work(p)' /\ Call(p)' /\ ~InodeIn(p)'
        /\ (\A h : InCall(p, h)' <=> h \in {f, g})
        /\ \A k, w : ~EndIn(p, k, w)'
    BY <1>3, <1>4, <1>8, <2>1, ToClose
  <2> QED
    BY <1>6, <2>1, <2>2
<1>9. CASE work' = [work EXCEPT ![p] = CloseBoth(p)] /\ UNCHANGED <<file, ofile, pipe>>
  <2>1. Single(f)' /\ Single(g)'
    BY <1>3, <1>9 DEF Fresh, Single
  <2>2. /\ work' = [q \in Procs |-> work'[q]]
        /\ \A q \in Procs \ {p} : work'[q] = work[q]
        /\ Work(p)' /\ Call(p)' /\ ~InodeIn(p)'
        /\ (\A h : InCall(p, h)' <=> InCall(p, h))
        /\ \A k, w : EndIn(p, k, w)' <=> EndIn(p, k, w)
    BY <1>8, <1>9, <2>1
  <2>3. refs' + One(pc[p].at = "open") + One(InodeIn(p))
          = refs + One(pc'[p].at = "open") + One(InodeIn(p)')
    BY <1>1, <1>4, <1>5, <1>6, <2>2 DEF One
  <2> QED
    BY <1>1, <1>2, <1>4, <1>5, <1>9, <2>2, <2>3, SameFiles
<1>10. CASE \E k \in {q \in Pipes : ~pipe[q].alloc} :
              /\ pipe' = [pipe EXCEPT ![k] = NewPipe]
              /\ file' = [file EXCEPT ![pc[p].rf] = PipeEnd(k, FALSE),
                                      ![pc[p].wf] = PipeEnd(k, TRUE)]
              /\ IF Cardinality(FreeFds(p)) < 2
                   THEN work' = [work EXCEPT ![p] = CloseBoth(p)] /\ UNCHANGED ofile
                   ELSE LET fd0 == Lowest(FreeFds(p))
                            fd1 == Lowest(FreeFds(p) \ {fd0})
                        IN  /\ ofile' = [ofile EXCEPT ![p][fd0] = pc[p].rf,
                                                      ![p][fd1] = pc[p].wf]
                            /\ UNCHANGED work
  <2>1. PICK k \in Pipes :
          /\ ~pipe[k].alloc
          /\ pipe' = [pipe EXCEPT ![k] = NewPipe]
          /\ file' = [file EXCEPT ![f] = PipeEnd(k, FALSE), ![g] = PipeEnd(k, TRUE)]
          /\ IF Cardinality(FreeFds(p)) < 2
               THEN work' = [work EXCEPT ![p] = CloseBoth(p)] /\ UNCHANGED ofile
               ELSE LET fd0 == Lowest(FreeFds(p))
                        fd1 == Lowest(FreeFds(p) \ {fd0})
                    IN  /\ ofile' = [ofile EXCEPT ![p][fd0] = f, ![p][fd1] = g]
                        /\ UNCHANGED work
    BY <1>3, <1>10
  <2>2. /\ file' \in [Files -> FileRec]
        /\ file'[f] = PipeEnd(k, FALSE) /\ file'[g] = PipeEnd(k, TRUE)
        /\ \A h \in Files \ {f, g} : file'[h] = file[h]
    <3>1. PipeEnd(k, FALSE) \in FileRec /\ PipeEnd(k, TRUE) \in FileRec
      BY FileRecs
    <3> QED
      BY <1>2, <1>3, <2>1, <3>1 DEF Typed
  <2>3. /\ file'[f].ref = 1 /\ file'[f].type = "pipe" /\ file'[f].pipe = k /\ file'[f].writable = FALSE
        /\ file'[g].ref = 1 /\ file'[g].type = "pipe" /\ file'[g].pipe = k /\ file'[g].writable = TRUE
        /\ file[f].ref = 1 /\ file[f].type = "none" /\ file[g].ref = 1 /\ file[g].type = "none"
    <3>1. \A w \in BOOLEAN : /\ PipeEnd(k, w).ref = 1 /\ PipeEnd(k, w).type = "pipe"
                             /\ PipeEnd(k, w).pipe = k /\ PipeEnd(k, w).writable = w
      BY FileRecs
    <3>2. /\ file'[f].ref = 1 /\ file'[f].type = "pipe"
          /\ file'[f].pipe = k /\ file'[f].writable = FALSE
      BY <2>2, <3>1
    <3>3. /\ file'[g].ref = 1 /\ file'[g].type = "pipe"
          /\ file'[g].pipe = k /\ file'[g].writable = TRUE
      BY <2>2, <3>1
    <3> QED
      BY <1>3, <3>2, <3>3 DEF Fresh
  <2>4. Single(f)' /\ Single(g)'
    BY <2>3 DEF Single
  <2>5. /\ work' = [q \in Procs |-> work'[q]]
        /\ \A q \in Procs \ {p} : work'[q] = work[q] /\ ofile'[q] = ofile[q]
        /\ ofile' \in [Procs -> [Fds -> Files \cup {NoFile}]]
        /\ Work(p)' /\ Call(p)' /\ ~InodeIn(p)' /\ \A l, w : ~EndIn(p, l, w)'
        /\ RefsMove(p)
    <3>0. NoFile \notin Files
      BY OpenFilesAssumption DEF NoFile
    <3>1. CASE Cardinality(FreeFds(p)) < 2
      <4>1. work' = [work EXCEPT ![p] = CloseBoth(p)] /\ ofile' = ofile
        BY <2>1, <3>1
      <4>2. /\ work' = [q \in Procs |-> work'[q]]
            /\ \A q \in Procs \ {p} : work'[q] = work[q]
            /\ Work(p)' /\ Call(p)' /\ ~InodeIn(p)'
            /\ (\A h : InCall(p, h)' <=> InCall(p, h))
            /\ \A l, w : EndIn(p, l, w)' <=> EndIn(p, l, w)
        BY <1>8, <2>4, <4>1
      <4>3. RefsMove(p)
        <5> SUFFICES ASSUME NEW h \in Files
                     PROVE  Moves(h, p, p, 0)
          BY FdsHasZero DEF RefsMove
        <5>1. One(InCall(p, h)') = One(InCall(p, h))
          BY <4>2 DEF One
        <5>2. file'[h].ref = file[h].ref
          BY <2>2, <2>3
        <5> QED
          BY <4>1, <5>1, <5>2 DEF Moves
      <4> QED
        BY <1>2, <1>6, <4>1, <4>2, <4>3 DEF Typed
    <3>2. CASE ~(Cardinality(FreeFds(p)) < 2)
      <4>0. IsFiniteSet(FreeFds(p)) /\ FreeFds(p) \subseteq Fds
        BY FdsHasZero, FS_Subset DEF FreeFds
      <4>1. Cardinality(FreeFds(p)) \in Nat /\ FreeFds(p) # {}
        BY <3>2, <4>0, FS_CardinalityType, FS_EmptySet
      <4>2. PICK d \in Fds : d = Lowest(FreeFds(p)) /\ ofile[p][d] = NoFile
        BY <4>1, FreeFd
      <4>3. FreeFds(p) \ {d} # {}
        <5>0. d \in FreeFds(p)
          BY <4>2 DEF FreeFds
        <5>1. /\ IsFiniteSet(FreeFds(p) \ {d})
              /\ Cardinality(FreeFds(p) \ {d}) = Cardinality(FreeFds(p)) - 1
          BY <4>0, <5>0, FS_RemoveElement
        <5>2. Cardinality(FreeFds(p) \ {d}) # 0
          BY <3>2, <4>1, <5>1
        <5> QED
          BY <5>1, <5>2, FS_EmptySet
      <4>4. PICK e \in Fds : e = Lowest(FreeFds(p) \ {d}) /\ e # d /\ ofile[p][e] = NoFile
        <5>1. FreeFds(p) \ {d} \in SUBSET Nat
          BY <4>0, FdsHasZero
        <5>2. Lowest(FreeFds(p) \ {d}) \in FreeFds(p) \ {d}
          BY <4>3, <5>1, LowestIs
        <5> QED
          BY <5>2 DEF FreeFds
      <4>5. ofile' = [ofile EXCEPT ![p][d] = f, ![p][e] = g] /\ work' = work
        BY <2>1, <3>2, <4>2, <4>4
      <4>6. /\ ofile' \in [Procs -> [Fds -> Files \cup {NoFile}]]
            /\ \A q \in Procs \ {p} : ofile'[q] = ofile[q]
            /\ ofile'[p][d] = f /\ ofile'[p][e] = g
            /\ \A i \in Fds \ {d, e} : ofile'[p][i] = ofile[p][i]
        BY <1>2, <4>4, <4>5 DEF Typed
      <4>7. work'[p] = <<>> /\ work' = [q \in Procs |-> work'[q]]
        BY <1>1, <1>2, <4>5 DEF Typed
      <4>8. /\ Work(p)' /\ Call(p)' /\ ~InodeIn(p)'
            /\ (\A h : ~InCall(p, h)') /\ \A l, w : ~EndIn(p, l, w)'
        BY <1>4, <4>7, Idle
      <4>9. RefsMove(p)
        <5> SUFFICES ASSUME NEW h \in Files
                     PROVE  \E i \in Fds : Moves(h, p, p, i)
          BY DEF RefsMove
        <5>1. One(InCall(p, h)') = 0
          BY <4>8 DEF One
        <5>2. CASE h = f
          <6>1. One(InCall(p, h)) = 1 /\ One(ofile[p][d] = h) = 0 /\ One(ofile'[p][d] = h) = 1
            BY <1>6, <3>0, <4>2, <4>6, <5>2 DEF One
          <6>2. \A q \in Procs, i \in Fds :
                  q # p \/ i # d => (ofile'[q][i] = h <=> ofile[q][i] = h)
            BY <1>3, <3>0, <4>4, <4>6, <5>2
          <6> QED
            BY <2>3, <5>1, <5>2, <6>1, <6>2 DEF Moves
        <5>3. CASE h = g
          <6>1. One(InCall(p, h)) = 1 /\ One(ofile[p][e] = h) = 0 /\ One(ofile'[p][e] = h) = 1
            BY <1>6, <3>0, <4>4, <4>6, <5>3 DEF One
          <6>2. \A q \in Procs, i \in Fds :
                  q # p \/ i # e => (ofile'[q][i] = h <=> ofile[q][i] = h)
            BY <1>3, <3>0, <4>2, <4>6, <5>3
          <6> QED
            BY <2>3, <5>1, <5>3, <6>1, <6>2 DEF Moves
        <5>4. CASE h # f /\ h # g
          <6>1. One(InCall(p, h)) = 0
            BY <1>6, <5>4 DEF One
          <6>2. \A q \in Procs, i \in Fds : ofile'[q][i] = h <=> ofile[q][i] = h
            BY <3>0, <4>2, <4>4, <4>6, <5>4
          <6>3. One(ofile[p][d] = h) = One(ofile'[p][d] = h)
            BY <6>2 DEF One
          <6> QED
            BY <2>2, <5>1, <5>4, <6>1, <6>2, <6>3 DEF Moves
        <5> QED
          BY <5>2, <5>3, <5>4
      <4> QED
        BY <4>5, <4>6, <4>7, <4>8, <4>9
    <3> QED
      BY <3>1, <3>2
  <2>6. Typed'
    <3>1. ASSUME NEW h \in Files, file'[h].ref = 0
          PROVE  file'[h] = NoneFile
      <4>1. h # f /\ h # g
        BY <2>3, <3>1
      <4>2. file'[h] = file[h]
        BY <2>2, <4>1
      <4> QED
        BY <1>2, <3>1, <4>2 DEF Typed
    <3>2. panic' = FALSE /\ refs' \in Nat
      BY <1>1, <1>2, <1>5 DEF Typed
    <3> QED
      BY <1>4, <2>2, <2>5, <3>1, <3>2, Zenon DEF Typed
  <2>7. Touch(p)
    BY <1>4, <1>6, <2>2, <2>5 DEF Touch
  <2>8. InodeRefs'
    <3>1. \A h \in Files : (file'[h].type = "inode") <=> (file[h].type = "inode")
      BY <2>2, <2>3
    <3>2. \A q \in Procs \ {p} : (pc'[q].at = "open") <=> (pc[q].at = "open")
      BY <1>4
    <3>3. \A q \in Procs \ {p} : InodeIn(q)' <=> InodeIn(q)
      BY <2>5 DEF InodeIn
    <3>4. refs' + One(file[f].type = "inode") + One(pc[p].at = "open") + One(InodeIn(p))
            = refs + One(file'[f].type = "inode") + One(pc'[p].at = "open") + One(InodeIn(p)')
      BY <1>1, <1>4, <1>5, <1>6, <2>3, <2>5 DEF One
    <3>5. InodeRefs /\ refs' \in Nat
      BY <1>5 DEF FilesInv
    <3> QED
      BY <3>1, <3>2, <3>3, <3>4, <3>5, InodeStep
  <2>9. FilesInv'
    <3>1. \A q \in Procs : Work(q)' /\ Call(q)'
      BY <2>5, <2>7, Others
    <3>2. RefsExact'
      BY <2>5, <2>6, <2>7, RefsKept
    <3> QED
      BY <1>5, <2>6, <2>8, <3>1, <3>2 DEF FilesInv
  <2>10. FilesOnly(p)
    <3>1. \A h \in Files : file[h].type = "pipe" => SameEnd(h)
      BY <2>2, <2>3 DEF SameEnd
    <3> QED
      BY <1>2, <1>4, <2>5, <3>1 DEF FilesOnly
  <2>11. NewEnds(k)
    <3> SUFFICES ASSUME NEW l \in Pipes, NEW w \in BOOLEAN
                 PROVE  Owners(l, w)' = Owners(l, w) + One(l = k)
      BY <2>1 DEF NewEnds
    <3>1. PICK h \in Files : h = IF w THEN g ELSE f
      OBVIOUS
    <3>2. \A i \in Files \ {h} : EndOf(i, l, w)' <=> EndOf(i, l, w)
      BY <2>2, <2>3, <3>1 DEF EndOf
    <3>3. \A q \in Procs \ {p} : EndIn(q, l, w)' <=> EndIn(q, l, w)
      BY <2>5 DEF EndIn
    <3>4. /\ Owners(l, w) \in Nat /\ Owners(l, w)' \in Nat
          /\ Owners(l, w)' + One(EndOf(h, l, w)) + One(EndIn(p, l, w))
               = Owners(l, w) + One(EndOf(h, l, w)') + One(EndIn(p, l, w)')
      BY <3>2, <3>3, EndsStep
    <3>5. /\ One(EndIn(p, l, w)) = 0 /\ One(EndIn(p, l, w)') = 0
          /\ One(EndOf(h, l, w)) = 0 /\ One(EndOf(h, l, w)') = One(l = k)
      BY <1>6, <2>3, <2>5, <3>1 DEF One, EndOf
    <3>6. One(l = k) \in {0, 1}
      BY DEF One
    <3> QED
      BY <3>4, <3>5, <3>6
  <2> QED
    BY <2>9, <2>10, <2>11
<1> QED
  BY <1>9, <1>10 DEF PipePage

\* The last step of closing an end: one owner less.
EndClosed(k, w) ==
  /\ pipeclose(k, w)
  /\ \A l \in Pipes, x \in BOOLEAN : Owners(l, x) = Owners(l, x)' + One(l = k /\ x = w)

LEMMA CloseEndStep ==
  ASSUME FilesInv, NEW p \in Procs, CloseEnd(p)
  PROVE  /\ FilesInv' /\ FilesOnly(p)
         /\ \E k \in Pipes, w \in BOOLEAN : EndIn(p, k, w) /\ EndClosed(k, w)
<1>1. /\ work[p] # <<>> /\ Head(work[p]).is = "pipe"
      /\ pipeclose(Head(work[p]).pipe, Head(work[p]).writable)
      /\ work' = [work EXCEPT ![p] = Tail(work[p])]
      /\ UNCHANGED <<file, ofile, pc, refs, panic>>
  BY DEF CloseEnd
<1>2. PICK k \in Pipes, w \in BOOLEAN :
        /\ Head(work[p]).pipe = k /\ Head(work[p]).writable = w
        /\ \/ work[p] = <<AnEnd(k, w)>> /\ Tail(work[p]) = <<>>
           \/ \E g \in Files : /\ Single(g) /\ work[p] = <<AnEnd(k, w), AFile(g)>>
                               /\ Tail(work[p]) = <<AFile(g)>>
  BY <1>1, AtHead
<1>3. /\ Typed /\ Forks /\ Call(p) /\ InodeRefs
      /\ pc[p].at \in {"user", "exit"} /\ pc'[p] = pc[p]
  BY <1>1 DEF FilesInv, Call
<1>4. /\ work'[p] = Tail(work[p]) /\ work' = [q \in Procs |-> work'[q]]
      /\ \A q \in Procs \ {p} : work'[q] = work[q]
  BY <1>1, <1>3 DEF Typed
<1>5. /\ Work(p)' /\ Call(p)' /\ ~InodeIn(p) /\ ~InodeIn(p)'
      /\ \A h : InCall(p, h)' <=> InCall(p, h)
      /\ \A l, x : (EndIn(p, l, x) <=> l = k /\ x = w) /\ ~EndIn(p, l, x)'
  <2>1. CASE work[p] = <<AnEnd(k, w)>> /\ Tail(work[p]) = <<>>
    <3>1. ToSet(work[p]) = {AnEnd(k, w)}
      BY <2>1, Items
    <3>2. /\ \A h : ~InCall(p, h)
          /\ \A l, x : EndIn(p, l, x) <=> l = k /\ x = w
          /\ ~InodeIn(p)
      BY <1>3, <3>1, Kinds DEF InCall, EndIn, InodeIn
    <3> QED
      BY <1>3, <1>4, <2>1, <3>2, Idle
  <2>2. CASE \E g \in Files : /\ Single(g) /\ work[p] = <<AnEnd(k, w), AFile(g)>>
                              /\ Tail(work[p]) = <<AFile(g)>>
    <3>0. PICK g \in Files : /\ Single(g) /\ work[p] = <<AnEnd(k, w), AFile(g)>>
                             /\ Tail(work[p]) = <<AFile(g)>>
      BY <2>2
    <3>1. ToSet(work[p]) = {AnEnd(k, w), AFile(g)}
      BY <3>0, Items
    <3>2. /\ \A h : InCall(p, h) <=> h = g
          /\ \A l, x : EndIn(p, l, x) <=> l = k /\ x = w
          /\ ~InodeIn(p)
      BY <1>3, <3>1, Kinds DEF InCall, EndIn, InodeIn
    <3>3. Single(g)'
      BY <1>1, <3>0 DEF Single
    <3> QED
      BY <1>3, <1>4, <3>0, <3>2, <3>3, ToClose
  <2> QED
    BY <1>2, <2>1, <2>2
<1>6. Typed' /\ Forks' /\ Touch(p)
  <2>1. Typed'
    BY <1>1, <1>3, <1>4 DEF Typed
  <2>2. Forks'
    BY <1>1, <1>3 DEF Forks
  <2>3. Touch(p)
    BY <1>1, <1>4 DEF Touch
  <2> QED
    BY <2>1, <2>2, <2>3
<1>7. RefsMove(p)
  <2> SUFFICES ASSUME NEW h \in Files
               PROVE  Moves(h, p, p, 0)
    BY FdsHasZero DEF RefsMove
  <2>1. One(InCall(p, h)) = One(InCall(p, h)')
    BY <1>5 DEF One
  <2> QED
    BY <1>1, <2>1 DEF Moves
<1>8. PICK g \in Files : TRUE
  BY OpenFilesAssumption
<1>9. InodeMove(p, g)
  <2>1. One(InodeIn(p)) = One(InodeIn(p)')
    BY <1>5 DEF One
  <2> QED
    BY <1>1, <2>1 DEF InodeMove
<1>10. \A h \in Files : SameKind(h)
  BY <1>1 DEF SameKind
<1>11. FilesInv'
  BY <1>5, <1>6, <1>7, <1>9, <1>10, FilesStep
<1>12. FilesOnly(p)
  BY <1>1, <1>4 DEF FilesOnly, SameEnd
<1>13. EndClosed(k, w)
  <2> SUFFICES ASSUME NEW l \in Pipes, NEW x \in BOOLEAN
               PROVE  Owners(l, x) = Owners(l, x)' + One(l = k /\ x = w)
    BY <1>1, <1>2 DEF EndClosed
  <2>1. \A h \in Files \ {g} : EndOf(h, l, x)' <=> EndOf(h, l, x)
    BY <1>1 DEF EndOf
  <2>2. \A q \in Procs \ {p} : EndIn(q, l, x)' <=> EndIn(q, l, x)
    BY <1>4 DEF EndIn
  <2>3. /\ Owners(l, x) \in Nat /\ Owners(l, x)' \in Nat
        /\ Owners(l, x)' + One(EndOf(g, l, x)) + One(EndIn(p, l, x))
             = Owners(l, x) + One(EndOf(g, l, x)') + One(EndIn(p, l, x)')
    BY <2>1, <2>2, EndsStep
  <2>4. One(EndOf(g, l, x)') = One(EndOf(g, l, x)) /\ One(EndOf(g, l, x)) \in {0, 1}
    BY <1>1 DEF EndOf, One
  <2>5. /\ One(EndIn(p, l, x)) = One(l = k /\ x = w) /\ One(EndIn(p, l, x)') = 0
        /\ One(l = k /\ x = w) \in {0, 1}
    BY <1>5 DEF One
  <2> QED
    BY <2>3, <2>4, <2>5
<1> QED
  BY <1>5, <1>11, <1>12, <1>13
-----------------------------------------------------------------------------
(***************************************************************************)
(* The table in every reachable state.                                     *)
(***************************************************************************)
LEMMA FilesStart ==
  ASSUME Init
  PROVE  FilesInv
<1>1. /\ file = [f \in Files |-> NoneFile]
      /\ ofile = [p \in Procs |-> [fd \in Fds |-> NoFile]]
      /\ pc = [p \in Procs |-> IF p = InitProc THEN User ELSE Unused]
      /\ work = [p \in Procs |-> <<>>]
      /\ refs = 0 /\ panic = FALSE
  BY DEF Init
<1>2. \A p \in Procs : pc[p] \in Pcs /\ pc[p].at \in {"user", "unused"} /\ work[p] = <<>>
  BY <1>1, PcKinds
<1>3. \A f \in Files : file[f] = NoneFile /\ file[f].ref = 0 /\ file[f].type = "none"
  BY <1>1, FileRecs
<1>4. Typed
  BY <1>1, <1>2, <1>3, FileRecs DEF Typed
<1>5. \A p \in Procs : (\A f : ~InCall(p, f)) /\ ~InodeIn(p)
  BY <1>2, Idle
<1>6. RefsExact
  <2> SUFFICES ASSUME NEW f \in Files
               PROVE  file[f].ref = Cardinality(Namers(f)) + Cardinality(InCalls(f))
    BY DEF RefsExact
  <2>1. f # NoFile
    BY OpenFilesAssumption DEF NoFile
  <2>2. Namers(f) = {}
    <3>1. \A q \in Procs, d \in Fds : ofile[q][d] # f
      BY <1>1, <2>1
    <3> QED
      BY <3>1, Naming
  <2>3. InCalls(f) = {}
    <3>1. InCalls(f) \subseteq Procs
      BY Finite
    <3> QED
      BY <1>5, <3>1, Naming
  <2> QED
    BY <1>3, <2>2, <2>3, FS_EmptySet
<1>7. InodeRefs
  <2>1. {f \in Files : file[f].type = "inode"} = {}
    BY <1>3
  <2>2. {p \in Procs : pc[p].at = "open"} = {}
    BY <1>2
  <2>3. {p \in Procs : AnInode \in ToSet(work[p])} = {}
    BY <1>5 DEF InodeIn
  <2>4. Cardinality({}) = 0
    BY FS_EmptySet
  <2>5. refs = Cardinality({}) + Cardinality({}) + Cardinality({})
    BY <1>1, <2>4
  <2> QED
    BY <2>1, <2>2, <2>3, <2>5, Zenon DEF InodeRefs
<1>8. Forks
  BY <1>2 DEF Forks
<1>9. \A p \in Procs : Work(p) /\ Call(p)
  BY <1>2 DEF Work, Call
<1> QED
  BY <1>4, <1>6, <1>7, <1>8, <1>9 DEF FilesInv

LEMMA FilesNext ==
  ASSUME FilesInv, [Next]_vars
  PROVE  FilesInv'
<1>1. CASE UNCHANGED vars
  BY <1>1, TableKept DEF vars
<1>2. ASSUME NEW p \in Procs, Kernel(p)
      PROVE  FilesInv'
  <2>1. CASE fileclose(p)
    BY <2>1, filecloseStep
  <2>2. CASE CloseEnd(p)
    BY <2>2, CloseEndStep
  <2>3. CASE iput(p)
    BY <2>3, iputStep
  <2>4. CASE OpenFile(p)
    BY <2>4, OpenFileStep
  <2>5. CASE PipeWriteEnd(p)
    BY <2>5, PipeWriteEndStep
  <2>6. CASE PipePage(p)
    BY <2>6, PipePageStep
  <2>7. CASE PipeIO(p)
    BY <2>7, TableKept DEF PipeIO
  <2>8. CASE ForkFile(p)
    BY <2>8, ForkFileStep
  <2>9. CASE ForkDone(p)
    BY <2>9, ForkDoneStep
  <2>10. CASE ExitFile(p)
    BY <2>10, ExitFileStep
  <2>11. CASE ExitDone(p)
    BY <2>11, ExitDoneStep
  <2> QED
    BY <1>2, <2>1, <2>2, <2>3, <2>4, <2>5, <2>6, <2>7, <2>8, <2>9, <2>10, <2>11 DEF Kernel
<1>3. ASSUME NEW p \in Procs, sys_open(p) \/ sys_pipe(p) \/ fork(p) \/ exit(p) \/ Kill(p)
      PROVE  FilesInv'
  <2>1. CASE sys_open(p)
    BY <2>1, sys_openStep
  <2>2. CASE sys_pipe(p)
    BY <2>2, sys_pipeStep
  <2>3. CASE fork(p)
    BY <2>3, forkStep
  <2>4. CASE exit(p)
    BY <2>4, exitStep
  <2>5. CASE Kill(p)
    BY <2>5, TableKept DEF Kill
  <2> QED
    BY <1>3, <2>1, <2>2, <2>3, <2>4, <2>5
<1>4. ASSUME NEW p \in Procs, NEW fd \in Fds,
             sys_dup(p, fd) \/ sys_close(p, fd) \/ sys_write(p, fd) \/ sys_read(p, fd)
      PROVE  FilesInv'
  <2>1. CASE sys_dup(p, fd)
    BY <2>1, sys_dupStep
  <2>2. CASE sys_close(p, fd)
    BY <2>2, sys_closeStep
  <2>3. CASE sys_write(p, fd)
    BY <2>3, TableKept DEF sys_write
  <2>4. CASE sys_read(p, fd)
    BY <2>4, TableKept DEF sys_read
  <2> QED
    BY <1>4, <2>1, <2>2, <2>3, <2>4
<1> QED
  BY <1>1, <1>2, <1>3, <1>4 DEF Next

\* The inductive invariant of the file table and of the calls on it: what a call
\* of fork(), exit(), pipe(), open(), dup() or close() has half done is one of
\* the few ways the code can be half way, and every count is exact meanwhile.
THEOREM FilesInvariant == Spec => []FilesInv
<1>1. Init => FilesInv
  BY FilesStart
<1>2. FilesInv /\ [Next]_vars => FilesInv'
  BY FilesNext
<1> QED
  BY <1>1, <1>2, PTL DEF Spec

-----------------------------------------------------------------------------
(***************************************************************************)
(* The pipes and their sleepers: an end is closed once, nobody sleeps      *)
(* without reason.                                                         *)
(***************************************************************************)

PipeRec ==
  [alloc : {TRUE}, nread : 0..UINT-1, nwrite : 0..UINT-1,
   data : [0..PIPESIZE-1 -> Nat], readopen : BOOLEAN, writeopen : BOOLEAN]
Xfers ==
  {NoXfer} \cup [at : {"read"}, pipe : Pipes, n : Nat \ {0}]
           \cup [at : {"write"}, pipe : Pipes, bytes : Seq(Nat)]
Channels == {Awake} \cup {Readers(k) : k \in Pipes} \cup {Writers(k) : k \in Pipes}

PipeTyped ==
  /\ pipe \in [Pipes -> {NoPipe} \cup PipeRec]
  /\ pipelock \in [Pipes -> Procs \cup {NoProc}]
  /\ chan \in [Procs -> Channels]
  /\ killed \in [Procs -> BOOLEAN]
  /\ xfer \in [Procs -> Xfers]

\* An end of a pipe that is open, and a process that is at work on it.
Flag(k, w) == pipe[k].alloc /\ IF w THEN pipe[k].writeopen ELSE pipe[k].readopen
On(p, k, w) == /\ xfer[p].at = (IF w THEN "write" ELSE "read")
               /\ xfer[p].pipe = k

\* A transfer keeps a descriptor of its end.
Transfer(p) ==
  xfer[p] # NoXfer =>
    /\ pc[p] = User /\ work[p] = <<>>
    /\ \E fd \in Fds : /\ IsEnd(ofile[p][fd], xfer[p].at = "write")
                       /\ file[ofile[p][fd]].pipe = xfer[p].pipe
Sleep(p) ==
  \A k \in Pipes : /\ chan[p] = Readers(k) => On(p, k, FALSE)
                   /\ chan[p] = Writers(k) => On(p, k, TRUE)
Lock(k) ==
  \A p \in Procs : pipelock[k] = p =>
    /\ chan[p] = Awake
    /\ On(p, k, FALSE) \/ On(p, k, TRUE)
    /\ On(p, k, FALSE) => Empty(k) /\ pipe[k].writeopen
    /\ On(p, k, TRUE) => /\ Full(k) /\ pipe[k].readopen
                         /\ \A q \in Procs : chan[q] # Readers(k)

\* The waits of one pipe: SleepersWait, for k.
Waits(k) ==
  /\ \A p \in Procs :
       /\ chan[p] = Readers(k) => pipe[k].alloc /\ pipe[k].writeopen
       /\ chan[p] = Writers(k) => pipe[k].alloc /\ pipe[k].readopen /\ Full(k)
  /\ ~ \E p, q \in Procs : chan[p] = Readers(k) /\ chan[q] = Writers(k)

Ends(k) ==
  /\ pipe[k].alloc => Held(k) <= PIPESIZE /\ (pipe[k].readopen \/ pipe[k].writeopen)
  /\ \A w \in BOOLEAN : Owners(k, w) = One(Flag(k, w))

PipesInv ==
  /\ PipeTyped
  /\ \A p \in Procs : Transfer(p) /\ Sleep(p)
  /\ \A k \in Pipes : Ends(k) /\ Lock(k) /\ Waits(k)

LEMMA Channel ==
  /\ \A k, l : Readers(k) = Readers(l) => k = l
  /\ \A k, l : Writers(k) = Writers(l) => k = l
  /\ \A k, l : Readers(k) # Writers(l) /\ Readers(k) # Awake /\ Writers(k) # Awake
  /\ Awake \in Channels /\ \A k \in Pipes : Readers(k) \in Channels /\ Writers(k) \in Channels
<1>1. \A k, l : Readers(k) = Readers(l) => k = l
  BY DEF Readers
<1>2. \A k, l : Writers(k) = Writers(l) => k = l
  BY DEF Writers
<1>3. ASSUME NEW k, NEW l
      PROVE  Readers(k) # Writers(l) /\ Readers(k) # Awake /\ Writers(k) # Awake
  <2>1. Readers(k)[1] = "nread" /\ Writers(l)[1] = "nwrite" /\ Awake[1] = "awake"
        /\ Writers(k)[1] = "nwrite"
    BY DEF Readers, Writers, Awake
  <2> QED
    BY <2>1
<1> QED
  BY <1>1, <1>2, <1>3 DEF Channels

LEMMA XferKinds ==
  ASSUME NEW x \in Xfers
  PROVE  /\ x.at \in {"none", "read", "write"}
         /\ x.at = "none" <=> x = NoXfer
         /\ x # NoXfer => x.pipe \in Pipes
         /\ x.at = "read" => x.n \in Nat \ {0}
         /\ x.at = "write" => x.bytes \in Seq(Nat)
         /\ NoXfer \in Xfers
<1>1. CASE x = NoXfer
  BY <1>1 DEF NoXfer, Xfers
<1>2. CASE x \in [at : {"read"}, pipe : Pipes, n : Nat \ {0}]
  BY <1>2 DEF NoXfer, Xfers
<1>3. CASE x \in [at : {"write"}, pipe : Pipes, bytes : Seq(Nat)]
  BY <1>3 DEF NoXfer, Xfers
<1> QED
  BY <1>1, <1>2, <1>3 DEF Xfers

LEMMA PipeRecs ==
  /\ NoPipe.alloc = FALSE /\ NewPipe \in PipeRec
  /\ NewPipe.readopen = TRUE /\ NewPipe.writeopen = TRUE
  /\ NewPipe.nread = 0 /\ NewPipe.nwrite = 0
  /\ \A r \in PipeRec :
       /\ r.alloc = TRUE /\ r.nread \in 0..UINT-1 /\ r.nwrite \in 0..UINT-1
       /\ r.data \in [0..PIPESIZE-1 -> Nat]
       /\ r.readopen \in BOOLEAN /\ r.writeopen \in BOOLEAN
<1>1. 0 \in 0..UINT-1 /\ [i \in 0..PIPESIZE-1 |-> Blank] \in [0..PIPESIZE-1 -> Nat]
  BY PipeAssumption DEF Blank
<1>2. NewPipe \in PipeRec
  BY <1>1 DEF NewPipe, PipeRec
<1>3. /\ NoPipe.alloc = FALSE
      /\ NewPipe.readopen = TRUE /\ NewPipe.writeopen = TRUE
      /\ NewPipe.nread = 0 /\ NewPipe.nwrite = 0
  BY DEF NoPipe, NewPipe
<1>4. \A r \in PipeRec :
        /\ r.alloc = TRUE /\ r.nread \in 0..UINT-1 /\ r.nwrite \in 0..UINT-1
        /\ r.data \in [0..PIPESIZE-1 -> Nat]
        /\ r.readopen \in BOOLEAN /\ r.writeopen \in BOOLEAN
  BY DEF PipeRec
<1> QED
  BY <1>2, <1>3, <1>4

\* Whoever transfers has its end open; nobody is about to close that end.
LEMMA EndInUse ==
  ASSUME FilesInv, PipesInv, NEW p \in Procs, NEW k \in Pipes, NEW w \in BOOLEAN, On(p, k, w)
  PROVE  /\ Flag(k, w) /\ pipe[k] \in PipeRec
         /\ \A q \in Procs : ~EndIn(q, k, w)
         /\ xfer[p] # NoXfer
<1> DEFINE S == {f \in Files : IsEnd(f, w) /\ file[f].pipe = k}
           P == {q \in Procs : AnEnd(k, w) \in ToSet(work[q])}
<1>1. Owners(k, w) = Cardinality(S) + Cardinality(P) /\ Owners(k, w) = One(Flag(k, w))
  BY DEF Owners, PipesInv, Ends
<1>2. IsFiniteSet(S) /\ IsFiniteSet(P)
  BY Finite, FS_Subset
<1>3. xfer[p] # NoXfer /\ xfer[p].pipe = k /\ (xfer[p].at = "write") = w
  BY DEF On, NoXfer
<1>4. PICK fd \in Fds : IsEnd(ofile[p][fd], w) /\ file[ofile[p][fd]].pipe = k
  BY <1>3 DEF PipesInv, Transfer
<1>5. ofile[p][fd] \in S
  BY <1>4 DEF IsEnd, FilesInv, Typed
<1>6. \A q \in Procs : EndIn(q, k, w) => q \in P
  BY DEF EndIn
<1> HIDE DEF S, P
<1>7. Cardinality(S) \in Nat /\ Cardinality(S) >= 1 /\ Cardinality(P) \in Nat
  BY <1>2, <1>5, AtLeast
<1>8. Flag(k, w) /\ Cardinality(P) = 0
  BY <1>1, <1>7 DEF One
<1>9. \A q \in Procs : ~EndIn(q, k, w)
  BY <1>2, <1>6, <1>8, AtLeast
<1>10. pipe[k] \in PipeRec
  BY <1>8, PipeRecs DEF Flag, PipesInv, PipeTyped
<1> QED
  BY <1>3, <1>8, <1>9, <1>10
-----------------------------------------------------------------------------
(***************************************************************************)
(* Steps that leave the pipes and the sleepers alone.                      *)
(***************************************************************************)
LEMMA TransfersKept ==
  ASSUME FilesInv, PipesInv, NEW p \in Procs, FilesOnly(p), UNCHANGED xfer
  PROVE  /\ \A q \in Procs : Transfer(q)'
         /\ xfer[p] = NoXfer
         /\ \A q \in Procs : \A k, w : On(q, k, w)' <=> On(q, k, w)
<1>1. xfer[p] = NoXfer
  BY DEF FilesOnly, PipesInv, Transfer
<1>2. ASSUME NEW q \in Procs
      PROVE  Transfer(q)'
  <2> SUFFICES ASSUME xfer[q] # NoXfer
               PROVE  /\ pc'[q] = User /\ work'[q] = <<>>
                      /\ \E fd \in Fds : /\ IsEnd(ofile[q][fd], xfer[q].at = "write")'
                                         /\ file'[ofile'[q][fd]].pipe = xfer[q].pipe
    BY DEF Transfer
  <2>1. q # p /\ pc[q] = User /\ work[q] = <<>> /\ pc[q].at = "user"
    BY <1>1, PcKinds DEF PipesInv, Transfer
  <2>2. PICK fd \in Fds : /\ IsEnd(ofile[q][fd], xfer[q].at = "write")
                          /\ file[ofile[q][fd]].pipe = xfer[q].pipe
    BY DEF PipesInv, Transfer
  <2>3. PICK f \in Files : f = ofile[q][fd] /\ f # NoFile /\ file[f].type = "pipe"
    BY <2>2 DEF IsEnd, FilesInv, Typed
  <2>4. ofile'[q][fd] = f /\ pc'[q] = User /\ work'[q] = <<>>
    BY <2>1, <2>3 DEF FilesOnly
  <2>5. SameEnd(f)
    <3>1. ~(file[f].ref = 1 /\ (InCall(p, f) \/ \E d \in Fds : ofile[p][d] = f))
      <4>1. InCall(p, f) => file[f].ref >= 2
        BY <2>3, Named
      <4>2. \A d \in Fds : ofile[p][d] = f => file[f].ref >= 2
        BY <2>1, <2>3, Named
      <4> QED
        BY <4>1, <4>2
    <3> QED
      BY <2>3, <3>1 DEF FilesOnly
  <2> QED
    BY <2>2, <2>3, <2>4, <2>5 DEF SameEnd, IsEnd
<1>3. \A q \in Procs : \A k, w : On(q, k, w)' <=> On(q, k, w)
  BY DEF On
<1> QED
  BY <1>1, <1>2, <1>3

LEMMA QuietStep ==
  ASSUME FilesInv, PipesInv, NEW p \in Procs, FilesOnly(p), OwnersSame,
         UNCHANGED <<pipe, pipelock, chan, xfer>>, killed' \in [Procs -> BOOLEAN]
  PROVE  PipesInv'
<1>1. PipeTyped'
  BY DEF PipesInv, PipeTyped
<1>2. \A q \in Procs : Transfer(q)'
  BY TransfersKept
<1>3. \A q \in Procs : Sleep(q)'
  BY DEF PipesInv, Sleep, On
<1>4. ASSUME NEW k \in Pipes
      PROVE  Ends(k)' /\ Lock(k)' /\ Waits(k)'
  <2>0. Ends(k) /\ Lock(k) /\ Waits(k)
    BY DEF PipesInv
  <2>1. Ends(k)'
    BY <2>0 DEF Ends, OwnersSame, Flag, Held
  <2>2. Lock(k)'
    BY <2>0 DEF Lock, On, Empty, Full
  <2>3. Waits(k)'
    BY <2>0 DEF Waits, Full
  <2> QED
    BY <2>1, <2>2, <2>3
<1> QED
  BY <1>1, <1>2, <1>3, <1>4 DEF PipesInv

LEMMA NewEndsStep ==
  ASSUME FilesInv, PipesInv, NEW p \in Procs, FilesOnly(p), NEW k \in Pipes, NewEnds(k),
         UNCHANGED <<pipelock, chan, killed, xfer>>
  PROVE  PipesInv'
<1>1. /\ pipe'[k] = NewPipe /\ \A l \in Pipes \ {k} : pipe'[l] = pipe[l]
      /\ ~pipe[k].alloc /\ NewPipe \in PipeRec
  BY PipeRecs DEF NewEnds, PipesInv, PipeTyped
<1>2. PipeTyped'
  BY <1>1 DEF NewEnds, PipesInv, PipeTyped
<1>3. \A q \in Procs : Transfer(q)'
  BY TransfersKept
<1>4. \A q \in Procs : Sleep(q)'
  BY DEF PipesInv, Sleep, On
<1>5. \A q \in Procs, w \in BOOLEAN : ~On(q, k, w)
  BY <1>1, EndInUse DEF Flag
<1>6. ASSUME NEW l \in Pipes, l # k
      PROVE  Ends(l)' /\ Lock(l)' /\ Waits(l)'
  <2>0. Ends(l) /\ Lock(l) /\ Waits(l) /\ pipe'[l] = pipe[l]
    BY <1>1, <1>6 DEF PipesInv
  <2>1. \A w \in BOOLEAN : Owners(l, w)' = Owners(l, w)
    <3> TAKE w \in BOOLEAN
    <3>1. One(l = k) = 0 /\ Owners(l, w) \in Nat
      <4>1. Owners(l, w) = One(Flag(l, w))
        BY <2>0 DEF Ends
      <4> QED
        BY <1>6, <4>1 DEF One
    <3> QED
      BY <3>1 DEF NewEnds
  <2>2. Ends(l)'
    BY <2>0, <2>1 DEF Ends, Flag, Held
  <2>3. Lock(l)'
    BY <2>0 DEF Lock, On, Empty, Full
  <2>4. Waits(l)'
    BY <2>0 DEF Waits, Full
  <2> QED
    BY <2>2, <2>3, <2>4
<1>7. Ends(k)'
  <2>1. Held(k)' = 0
    <3>1. Held(k)' = (NewPipe.nwrite - NewPipe.nread) % UINT
      BY <1>1 DEF Held
    <3>2. UINT \in Nat \ {0} /\ 0 \in 0..UINT-1
      BY PipeAssumption
    <3> QED
      BY <3>1, <3>2, PipeRecs, Distance
  <2>2. ASSUME NEW w \in BOOLEAN
        PROVE  Owners(k, w)' = One(Flag(k, w)')
    <3>1. Owners(k, w) = 0
      BY <1>1 DEF PipesInv, Ends, Flag, One
    <3>2. Owners(k, w)' = Owners(k, w) + One(k = k)
      BY DEF NewEnds
    <3>3. Flag(k, w)'
      BY <1>1, PipeRecs DEF Flag
    <3> QED
      BY <3>1, <3>2, <3>3 DEF One
  <2>3. PIPESIZE >= 0 /\ pipe'[k].readopen
    BY <1>1, PipeRecs, PipeAssumption
  <2> QED
    BY <2>1, <2>2, <2>3 DEF Ends
<1>8. Lock(k)'
  BY <1>5 DEF PipesInv, Lock
<1>9. Waits(k)'
  BY <1>5 DEF PipesInv, Waits, Sleep
<1> QED
  BY <1>2, <1>3, <1>4, <1>6, <1>7, <1>8, <1>9 DEF PipesInv

LEMMA EndClosedStep ==
  ASSUME FilesInv, PipesInv, NEW p \in Procs, FilesOnly(p), NEW k \in Pipes, NEW w \in BOOLEAN,
         EndIn(p, k, w), EndClosed(k, w)
  PROVE  PipesInv'
<1>1. /\ pipelock[k] = NoProc /\ UNCHANGED <<pipelock, killed, xfer>>
      /\ pipe' = [pipe EXCEPT ![k] =
           IF OtherEndClosed(k, w) THEN NoPipe
           ELSE IF w THEN [pipe[k] EXCEPT !.writeopen = FALSE]
                     ELSE [pipe[k] EXCEPT !.readopen = FALSE]]
      /\ chan' = Wakeup(IF w THEN Readers(k) ELSE Writers(k))
  BY DEF EndClosed, pipeclose
<1>2. \A q \in Procs : ~On(q, k, w)
  BY EndInUse
<1>3. Flag(k, w) /\ pipe[k] \in PipeRec
  <2> DEFINE P == {q \in Procs : AnEnd(k, w) \in ToSet(work[q])}
  <2>1. p \in P /\ IsFiniteSet(P)
    BY Finite, FS_Subset DEF EndIn
  <2>2. /\ Cardinality(P) \in Nat /\ Cardinality(P) >= 1
        /\ Cardinality({f \in Files : IsEnd(f, w) /\ file[f].pipe = k}) \in Nat
    BY <2>1, AtLeast, Finite, FS_Subset, FS_CardinalityType
  <2>3. Owners(k, w) >= 1 /\ Owners(k, w) = One(Flag(k, w))
    BY <2>2 DEF Owners, PipesInv, Ends
  <2>4. Flag(k, w)
    BY <2>3 DEF One
  <2> QED
    BY <2>4, PipeRecs DEF Flag, PipesInv, PipeTyped
<1>4. /\ \A l \in Pipes \ {k} : pipe'[l] = pipe[l]
      /\ pipe'[k] \in {NoPipe} \cup PipeRec
      /\ ~Flag(k, w)'
      /\ \A x \in BOOLEAN : x # w => (Flag(k, x)' <=> Flag(k, x))
      /\ pipe'[k].alloc => /\ pipe'[k].readopen \/ pipe'[k].writeopen
                           /\ pipe'[k].nread = pipe[k].nread /\ pipe'[k].nwrite = pipe[k].nwrite
  <2>1. \A l \in Pipes \ {k} : pipe'[l] = pipe[l]
    BY <1>1 DEF PipesInv, PipeTyped
  <2>2. CASE OtherEndClosed(k, w)
    <3>1. pipe'[k] = NoPipe
      BY <1>1, <2>2 DEF PipesInv, PipeTyped
    <3>2. \A x \in BOOLEAN : x # w => ~Flag(k, x)
      BY <2>2 DEF OtherEndClosed, Flag
    <3> QED
      BY <2>1, <3>1, <3>2, PipeRecs DEF Flag
  <2>3. CASE ~OtherEndClosed(k, w) /\ w
    <3>1. pipe'[k] = [pipe[k] EXCEPT !.writeopen = FALSE]
      BY <1>1, <2>3 DEF PipesInv, PipeTyped
    <3>2. /\ pipe'[k] \in PipeRec
          /\ pipe'[k].writeopen = FALSE /\ pipe'[k].readopen = pipe[k].readopen
          /\ pipe'[k].alloc = pipe[k].alloc
          /\ pipe'[k].nread = pipe[k].nread /\ pipe'[k].nwrite = pipe[k].nwrite
      BY <1>3, <3>1 DEF PipeRec
    <3> QED
      BY <1>3, <2>1, <2>3, <3>2 DEF Flag, OtherEndClosed
  <2>4. CASE ~OtherEndClosed(k, w) /\ ~w
    <3>1. pipe'[k] = [pipe[k] EXCEPT !.readopen = FALSE]
      BY <1>1, <2>4 DEF PipesInv, PipeTyped
    <3>2. /\ pipe'[k] \in PipeRec
          /\ pipe'[k].readopen = FALSE /\ pipe'[k].writeopen = pipe[k].writeopen
          /\ pipe'[k].alloc = pipe[k].alloc
          /\ pipe'[k].nread = pipe[k].nread /\ pipe'[k].nwrite = pipe[k].nwrite
      BY <1>3, <3>1 DEF PipeRec
    <3> QED
      BY <1>3, <2>1, <2>4, <3>2 DEF Flag, OtherEndClosed
  <2> QED
    BY <2>2, <2>3, <2>4
<1>5. chan' \in [Procs -> Channels]
      /\ \A q \in Procs : chan'[q] = chan[q] \/ chan'[q] = Awake
  <2>1. chan \in [Procs -> Channels] /\ Awake \in Channels
    BY Channel DEF PipesInv, PipeTyped
  <2> QED
    BY <1>1, <2>1 DEF Wakeup
<1>6. PipeTyped'
  <2>1. pipe' \in [Pipes -> {NoPipe} \cup PipeRec]
    BY <1>1, <1>4 DEF PipesInv, PipeTyped
  <2> QED
    BY <1>1, <1>5, <2>1 DEF PipesInv, PipeTyped
<1>7. (\A q \in Procs : Transfer(q)') /\ \A q \in Procs : \A l, x : On(q, l, x)' <=> On(q, l, x)
  BY <1>1, TransfersKept
<1>8. \A q \in Procs : Sleep(q)'
  BY <1>5, <1>7, Channel DEF PipesInv, Sleep
<1>9. ASSUME NEW l \in Pipes, l # k
      PROVE  Ends(l)' /\ Lock(l)' /\ Waits(l)'
  <2>0. Ends(l) /\ Lock(l) /\ Waits(l) /\ pipe'[l] = pipe[l]
    BY <1>4, <1>9 DEF PipesInv
  <2>1. \A x \in BOOLEAN : Owners(l, x)' = One(Flag(l, x))
    <3> TAKE x \in BOOLEAN
    <3>1. Owners(l, x) = Owners(l, x)' + One(l = k /\ x = w)
      BY DEF EndClosed
    <3>2. One(l = k /\ x = w) = 0
      BY <1>9 DEF One
    <3>3. Owners(l, x)' \in Nat
      BY Finite, FS_Subset, FS_CardinalityType DEF Owners
    <3>4. Owners(l, x) = One(Flag(l, x))
      BY <2>0 DEF Ends
    <3> QED
      BY <3>1, <3>2, <3>3, <3>4
  <2>2. Ends(l)'
    BY <2>0, <2>1 DEF Ends, Flag, Held
  <2>3. Lock(l)'
    BY <1>1, <1>5, <1>7, <2>0, Channel DEF Lock, Empty, Full
  <2>4. Waits(l)'
    BY <1>5, <2>0, Channel DEF Waits, Full
  <2> QED
    BY <2>2, <2>3, <2>4
<1>10. Ends(k)'
  <2>1. ASSUME NEW x \in BOOLEAN
        PROVE  Owners(k, x)' = One(Flag(k, x)')
    <3>1. Owners(k, x) = Owners(k, x)' + One(x = w)
      BY DEF EndClosed, One
    <3>2. Owners(k, x)' \in Nat
      BY Finite, FS_Subset, FS_CardinalityType DEF Owners
    <3>3. Owners(k, x) = One(Flag(k, x))
      BY DEF PipesInv, Ends
    <3>4. CASE x = w
      BY <1>3, <1>4, <3>1, <3>2, <3>3, <3>4 DEF One
    <3>5. CASE x # w
      BY <1>4, <3>1, <3>2, <3>3, <3>5 DEF One
    <3> QED
      BY <3>4, <3>5
  <2>2. pipe'[k].alloc => Held(k)' <= PIPESIZE
    BY <1>3, <1>4 DEF PipesInv, Ends, Held, Flag
  <2> QED
    BY <1>4, <2>1, <2>2 DEF Ends
<1>11. NoProc \notin Procs
  BY PipeAssumption
<1>12. Lock(k)'
  BY <1>1, <1>11 DEF Lock
<1>13. ASSUME NEW q \in Procs
       PROVE  chan'[q] # IF w THEN Readers(k) ELSE Writers(k)
  BY <1>1, Channel DEF Wakeup
<1>14. ASSUME NEW q \in Procs
       PROVE  chan'[q] # IF w THEN Writers(k) ELSE Readers(k)
  <2>1. ~On(q, k, w)
    BY <1>2
  <2>2. chan'[q] = chan[q] \/ chan'[q] = Awake
    BY <1>5
  <2>3. Sleep(q)
    BY DEF PipesInv
  <2>4. CASE w
    <3>1. chan[q] # Writers(k)
      BY <2>1, <2>3, <2>4 DEF Sleep
    <3> QED
      BY <2>2, <2>4, <3>1, Channel
  <2>5. CASE ~w
    <3>1. chan[q] # Readers(k)
      BY <2>1, <2>3, <2>5 DEF Sleep
    <3> QED
      BY <2>2, <2>5, <3>1, Channel
  <2> QED
    BY <2>4, <2>5
<1>15. Waits(k)'
  BY <1>13, <1>14 DEF Waits
<1> QED
  BY <1>6, <1>7, <1>8, <1>9, <1>10, <1>12, <1>15 DEF PipesInv
-----------------------------------------------------------------------------
(***************************************************************************)
(* Calls on a pipe begin, and processes are killed.                        *)
(***************************************************************************)
\* Steps that only wake sleepers and set flags.
LEMMA KillStep ==
  ASSUME FilesInv, PipesInv, NEW p \in Procs, Kill(p)
  PROVE  PipesInv'
<1>1. /\ killed' = [killed EXCEPT ![p] = TRUE] /\ chan' = [chan EXCEPT ![p] = Awake]
      /\ UNCHANGED <<pipe, pipelock, xfer>> /\ UNCHANGED fileVars
  BY DEF Kill, kill
<1>2. /\ chan' \in [Procs -> Channels]
      /\ \A q \in Procs : chan'[q] = chan[q] \/ chan'[q] = Awake
  BY <1>1, Channel DEF PipesInv, PipeTyped
<1>3. PipeTyped'
  BY <1>1, <1>2 DEF PipesInv, PipeTyped
<1>4. /\ file' = file /\ ofile' = ofile /\ pc' = pc /\ work' = work
  BY <1>1 DEF fileVars
<1>5. ASSUME NEW q \in Procs
      PROVE  Transfer(q)' /\ Sleep(q)'
  <2>1. Transfer(q) /\ Sleep(q)
    BY DEF PipesInv
  <2>2. Transfer(q)'
    BY <1>1, <1>4, <2>1 DEF Transfer, IsEnd
  <2>3. Sleep(q)'
    BY <1>1, <1>2, <2>1, Channel DEF Sleep, On
  <2> QED
    BY <2>2, <2>3
<1>6. ASSUME NEW k \in Pipes
      PROVE  Ends(k)' /\ Lock(k)' /\ Waits(k)'
  <2>0. Ends(k) /\ Lock(k) /\ Waits(k)
    BY DEF PipesInv
  <2>1. \A w \in BOOLEAN : Owners(k, w)' = Owners(k, w)
    BY <1>4 DEF Owners, IsEnd
  <2>2. Ends(k)'
    BY <1>1, <2>0, <2>1 DEF Ends, Flag, Held
  <2>3. Lock(k)'
    BY <1>1, <1>2, <2>0, Channel DEF Lock, On, Empty, Full
  <2>4. Waits(k)'
    BY <1>1, <1>2, <2>0, Channel DEF Waits, Full
  <2> QED
    BY <2>2, <2>3, <2>4
<1> QED
  BY <1>3, <1>5, <1>6 DEF PipesInv

\* sys_read() and sys_write() up to the lock of the pipe.
LEMMA TransferBegins ==
  ASSUME FilesInv, PipesInv, NEW p \in Procs, NEW fd \in Fds, NEW x \in Xfers,
         pc[p] = User, work[p] = <<>>, xfer[p] = NoXfer, x # NoXfer,
         IsEnd(ofile[p][fd], x.at = "write"), file[ofile[p][fd]].pipe = x.pipe,
         xfer' = [xfer EXCEPT ![p] = x],
         UNCHANGED <<fileVars, pipe, pipelock, chan, killed>>
  PROVE  PipesInv'
<1>1. /\ xfer' \in [Procs -> Xfers] /\ xfer'[p] = x
      /\ \A q \in Procs \ {p} : xfer'[q] = xfer[q]
  BY DEF PipesInv, PipeTyped
<1>2. PipeTyped'
  BY <1>1 DEF PipesInv, PipeTyped
<1>3. UNCHANGED file /\ UNCHANGED ofile /\ UNCHANGED pc /\ UNCHANGED work
  BY DEF fileVars
<1>4. \A k, w : ~On(p, k, w)
  BY DEF On, NoXfer
<1>5. \A q \in Procs \ {p} : \A k, w : On(q, k, w)' <=> On(q, k, w)
  BY <1>1 DEF On
<1>6. ASSUME NEW q \in Procs
      PROVE  Transfer(q)' /\ Sleep(q)'
  <2>0. Transfer(q) /\ Sleep(q)
    BY DEF PipesInv
  <2>1. CASE q = p
    <3>1. Transfer(p)'
      BY <1>1, <1>3 DEF Transfer, IsEnd
    <3>2. Sleep(p)'
      BY <1>4, <2>0, <2>1 DEF Sleep
    <3> QED
      BY <2>1, <3>1, <3>2
  <2>2. CASE q # p
    <3>1. Transfer(q)'
      BY <1>1, <1>3, <2>0, <2>2 DEF Transfer, IsEnd
    <3>2. Sleep(q)'
      BY <1>5, <2>0, <2>2 DEF Sleep
    <3> QED
      BY <3>1, <3>2
  <2> QED
    BY <2>1, <2>2
<1>7. ASSUME NEW k \in Pipes
      PROVE  Ends(k)' /\ Lock(k)' /\ Waits(k)'
  <2>0. Ends(k) /\ Lock(k) /\ Waits(k)
    BY DEF PipesInv
  <2>1. \A w \in BOOLEAN : Owners(k, w)' = Owners(k, w)
    BY <1>3 DEF Owners, IsEnd
  <2>2. Ends(k)'
    BY <2>0, <2>1 DEF Ends, Flag, Held
  <2>3. pipelock[k] # p
    BY <1>4, <2>0 DEF Lock
  <2>4. Lock(k)'
    BY <1>5, <2>0, <2>3 DEF Lock, Empty, Full
  <2>5. Waits(k)'
    BY <2>0 DEF Waits, Full
  <2> QED
    BY <2>2, <2>4, <2>5
<1> QED
  BY <1>2, <1>6, <1>7 DEF PipesInv

LEMMA sys_readStep ==
  ASSUME FilesInv, PipesInv, NEW p \in Procs, NEW fd \in Fds, sys_read(p, fd)
  PROVE  PipesInv'
<1>1. /\ pc[p] = User /\ work[p] = <<>> /\ xfer[p] = NoXfer /\ IsEnd(ofile[p][fd], FALSE)
      /\ UNCHANGED <<fileVars, pipe, pipelock, chan, killed>>
  BY DEF sys_read, Calls
<1>2. PICK f \in Files : f = ofile[p][fd] /\ file[f].type = "pipe" /\ file[f].pipe \in Pipes
  BY <1>1, FileRecs DEF IsEnd, FilesInv, Typed
<1>3. PICK x : x = [at |-> "read", pipe |-> file[ofile[p][fd]].pipe, n |-> READ]
  OBVIOUS
<1>4. x \in Xfers /\ x # NoXfer /\ x.at = "read" /\ x.pipe = file[ofile[p][fd]].pipe
  BY <1>2, <1>3, OpenFilesAssumption DEF Xfers, NoXfer
<1>5. xfer' = [xfer EXCEPT ![p] = x]
  BY <1>3 DEF sys_read
<1>6. (x.at = "write") = FALSE
  BY <1>4
<1> QED
  BY <1>1, <1>4, <1>5, <1>6, TransferBegins

LEMMA sys_writeStep ==
  ASSUME FilesInv, PipesInv, NEW p \in Procs, NEW fd \in Fds, sys_write(p, fd)
  PROVE  PipesInv'
<1>1. /\ pc[p] = User /\ work[p] = <<>> /\ xfer[p] = NoXfer /\ IsEnd(ofile[p][fd], TRUE)
      /\ UNCHANGED <<fileVars, pipe, pipelock, chan, killed>>
  BY DEF sys_write, Calls
<1>2. PICK f \in Files : f = ofile[p][fd] /\ file[f].type = "pipe" /\ file[f].pipe \in Pipes
  BY <1>1, FileRecs DEF IsEnd, FilesInv, Typed
<1>3. PICK bytes \in Writes :
        xfer' = [xfer EXCEPT ![p] =
                   [at |-> "write", pipe |-> file[ofile[p][fd]].pipe, bytes |-> bytes]]
  BY DEF sys_write
<1>4. PICK x : x = [at |-> "write", pipe |-> file[ofile[p][fd]].pipe, bytes |-> bytes]
  OBVIOUS
<1>5. bytes \in Seq(Nat)
  BY OpenFilesAssumption
<1>6. x \in Xfers /\ x # NoXfer /\ x.at = "write" /\ x.pipe = file[ofile[p][fd]].pipe
  BY <1>2, <1>4, <1>5 DEF Xfers, NoXfer
<1>7. xfer' = [xfer EXCEPT ![p] = x]
  BY <1>3, <1>4
<1>8. (x.at = "write") = TRUE
  BY <1>6
<1> QED
  BY <1>1, <1>6, <1>7, <1>8, TransferBegins
-----------------------------------------------------------------------------
(***************************************************************************)
(* The critical sections of pipewrite() and piperead().                    *)
(***************************************************************************)
Gap(r) == (r.nwrite - r.nread) % UINT

LEMMA Gaps ==
  ASSUME NEW r \in PipeRec
  PROVE  /\ Gap(r) \in 0..UINT-1 /\ PIPESIZE \in 0..UINT-1 /\ UINT \in Nat \ {0}
         /\ r.nread = r.nwrite <=> Gap(r) = 0
         /\ r.nwrite = (r.nread + PIPESIZE) % UINT <=> Gap(r) = PIPESIZE
<1>1. PIPESIZE \in 0..UINT-1 /\ UINT \in Nat \ {0}
  BY PipeAssumption
<1>2. r.nread \in 0..UINT-1 /\ r.nwrite \in 0..UINT-1
  BY PipeRecs
<1>3. PICK a \in 0..UINT-1, b \in 0..UINT-1 : a = r.nwrite /\ b = r.nread
  BY <1>2
<1>4. (a - b) % UINT \in 0..UINT-1 /\ (a = b <=> (a - b) % UINT = 0)
  BY <1>1, Distance
<1>5. a = (b + PIPESIZE) % UINT <=> (a - b) % UINT = PIPESIZE
  BY <1>1, Level
<1>6. Gap(r) = (a - b) % UINT
  BY <1>3 DEF Gap
<1> QED
  BY <1>1, <1>3, <1>4, <1>5, <1>6, Zenon

LEMMA Stored ==
  ASSUME NEW k \in Pipes, pipe[k] \in PipeRec, Held(k) <= PIPESIZE,
         NEW bytes \in Seq(Nat), Len(bytes) <= Room(k)
  PROVE  /\ Store(k, bytes) \in PipeRec
         /\ Store(k, bytes).readopen = pipe[k].readopen
         /\ Store(k, bytes).writeopen = pipe[k].writeopen
         /\ Store(k, bytes).nread = pipe[k].nread
         /\ Store(k, bytes).nwrite = (pipe[k].nwrite + Len(bytes)) % UINT
         /\ Gap(Store(k, bytes)) = Held(k) + Len(bytes)
<1>1. PICK r \in PipeRec : r = pipe[k]
  OBVIOUS
<1>2. r.nread \in 0..UINT-1 /\ r.nwrite \in 0..UINT-1 /\ r.data \in [0..PIPESIZE-1 -> Nat]
  BY PipeRecs
<1>3. PICK n \in Nat : n = Len(bytes)
  OBVIOUS
<1>4. UINT \in Nat \ {0} /\ PIPESIZE \in 0..UINT-1 /\ Gap(r) \in 0..UINT-1 /\ Held(k) = Gap(r)
  BY <1>1, Gaps DEF Held, Gap
<1>5. n \in 0..UINT-1 /\ Gap(r) + n < UINT
  BY <1>3, <1>4 DEF Room
<1>6. /\ (r.nwrite + n) % UINT \in 0..UINT-1
      /\ (((r.nwrite + n) % UINT) - r.nread) % UINT = Gap(r) + n
  <2>1. PICK a \in 0..UINT-1, b \in 0..UINT-1 : a = r.nwrite /\ b = r.nread
    BY <1>2
  <2>2. Gap(r) = (a - b) % UINT
    BY <2>1 DEF Gap
  <2>3. ((a - b) % UINT) + n < UINT
    BY <1>5, <2>2
  <2>4. UINT \in Nat \ {0} /\ n \in 0..UINT-1
    BY <1>4, <1>5
  <2>5. (((a + n) % UINT) - b) % UINT = ((a - b) % UINT) + n
    BY <2>3, <2>4, Added
  <2>6. (a + n) % UINT \in 0..UINT-1
    BY <2>4, Onward
  <2> QED
    BY <2>1, <2>2, <2>5, <2>6, Zenon
<1>7. PICK d : d = [i \in DOMAIN r.data |->
        LET J == {j \in DOMAIN bytes : Place(r.nwrite, j) = i}
        IN  IF J = {} THEN r.data[i] ELSE bytes[CHOOSE j \in J : TRUE]]
  OBVIOUS
<1>8. d \in [0..PIPESIZE-1 -> Nat]
  <2>1. ASSUME NEW i \in 0..PIPESIZE-1
        PROVE  d[i] \in Nat
    <3> DEFINE J == {j \in DOMAIN bytes : Place(r.nwrite, j) = i}
    <3>1. d[i] = IF J = {} THEN r.data[i] ELSE bytes[CHOOSE j \in J : TRUE]
      BY <1>2, <1>7
    <3>2. J # {} => (CHOOSE j \in J : TRUE) \in DOMAIN bytes
      OBVIOUS
    <3>3. \A j \in DOMAIN bytes : bytes[j] \in Nat
      OBVIOUS
    <3> QED
      BY <1>2, <3>1, <3>2, <3>3
  <2>2. d = [i \in 0..PIPESIZE-1 |-> d[i]]
    BY <1>2, <1>7
  <2> QED
    BY <2>1, <2>2
<1>9. Store(k, bytes) = [r EXCEPT !.nwrite = (r.nwrite + n) % UINT, !.data = d]
  BY <1>1, <1>3, <1>7 DEF Store, PipeRec
<1>10. PICK s : s = Store(k, bytes)
  OBVIOUS
<1>11. PICK m \in 0..UINT-1 : m = (r.nwrite + n) % UINT
  BY <1>6
<1>12. s = [r EXCEPT !.nwrite = m, !.data = d]
  BY <1>9, <1>10, <1>11
<1>13. /\ s \in PipeRec /\ s.readopen = r.readopen /\ s.writeopen = r.writeopen
       /\ s.nread = r.nread /\ s.nwrite = m
  BY <1>8, <1>12 DEF PipeRec
<1> QED
  BY <1>1, <1>3, <1>4, <1>6, <1>10, <1>11, <1>13 DEF Gap

LEMMA Fetched ==
  ASSUME NEW k \in Pipes, pipe[k] \in PipeRec, NEW n \in Nat, n <= Held(k)
  PROVE  /\ Fetch(k, n) \in PipeRec
         /\ Fetch(k, n).readopen = pipe[k].readopen
         /\ Fetch(k, n).writeopen = pipe[k].writeopen
         /\ Fetch(k, n).nwrite = pipe[k].nwrite
         /\ Fetch(k, n).nread = (pipe[k].nread + n) % UINT
         /\ Gap(Fetch(k, n)) = Held(k) - n
<1>1. PICK r \in PipeRec : r = pipe[k]
  OBVIOUS
<1>2. r.nread \in 0..UINT-1 /\ r.nwrite \in 0..UINT-1 /\ r.data \in [0..PIPESIZE-1 -> Nat]
  BY PipeRecs
<1>4. UINT \in Nat \ {0} /\ Gap(r) \in 0..UINT-1 /\ Held(k) = Gap(r)
  BY <1>1, Gaps DEF Held, Gap
<1>5. n \in 0..UINT-1
  BY <1>4
<1>6. /\ (r.nread + n) % UINT \in 0..UINT-1
      /\ (r.nwrite - ((r.nread + n) % UINT)) % UINT = Gap(r) - n
  <2>1. PICK a \in 0..UINT-1, b \in 0..UINT-1 : a = r.nwrite /\ b = r.nread
    BY <1>2
  <2>2. Gap(r) = (a - b) % UINT
    BY <2>1 DEF Gap
  <2>3. n <= (a - b) % UINT
    BY <1>4, <2>2
  <2>4. UINT \in Nat \ {0} /\ n \in 0..UINT-1
    BY <1>4, <1>5
  <2>5. (a - ((b + n) % UINT)) % UINT = ((a - b) % UINT) - n
    BY <2>3, <2>4, Taken
  <2>6. (b + n) % UINT \in 0..UINT-1
    BY <2>4, Onward
  <2> QED
    BY <2>1, <2>2, <2>5, <2>6, Zenon
<1>7. PICK d : d = [i \in DOMAIN r.data |->
        IF \E j \in 1..n : Place(r.nread, j) = i THEN Blank ELSE r.data[i]]
  OBVIOUS
<1>8. d \in [0..PIPESIZE-1 -> Nat]
  BY <1>2, <1>7 DEF Blank
<1>9. Fetch(k, n) = [r EXCEPT !.nread = (r.nread + n) % UINT, !.data = d]
  BY <1>1, <1>7 DEF Fetch, PipeRec
<1>10. PICK s : s = Fetch(k, n)
  OBVIOUS
<1>11. PICK m \in 0..UINT-1 : m = (r.nread + n) % UINT
  BY <1>6
<1>12. s = [r EXCEPT !.nread = m, !.data = d]
  BY <1>9, <1>10, <1>11
<1>13. /\ s \in PipeRec /\ s.readopen = r.readopen /\ s.writeopen = r.writeopen
       /\ s.nwrite = r.nwrite /\ s.nread = m
  BY <1>8, <1>12 DEF PipeRec
<1>14. Gap(s) = Held(k) - n
  <2>1. Gap(s) = (r.nwrite - m) % UINT
    BY <1>13 DEF Gap
  <2> QED
    BY <1>4, <1>6, <1>11, <2>1, Zenon
<1> QED
  BY <1>1, <1>10, <1>11, <1>13, <1>14, Zenon

LEMMA Slices ==
  ASSUME NEW s \in Seq(Nat), NEW m \in 0..Len(s)
  PROVE  /\ SubSeq(s, 1, m) \in Seq(Nat) /\ Len(SubSeq(s, 1, m)) = m
         /\ SubSeq(s, m + 1, Len(s)) \in Seq(Nat)
         /\ Len(SubSeq(s, m + 1, Len(s))) = Len(s) - m
         /\ SubSeq(s, m + 1, Len(s)) = <<>> <=> m = Len(s)
<1>1. SubSeq(s, 1, m) \in Seq(Nat) /\ Len(SubSeq(s, 1, m)) = m
  <2>1. \A i \in 1..m : s[i] \in Nat
    OBVIOUS
  <2>2. SubSeq(s, 1, m) \in Seq(Nat)
    BY <2>1
  <2>3. Len(SubSeq(s, 1, m)) = m
    BY <2>1
  <2> QED
    BY <2>2, <2>3
<1>2. SubSeq(s, m + 1, Len(s)) \in Seq(Nat) /\ Len(SubSeq(s, m + 1, Len(s))) = Len(s) - m
  OBVIOUS
<1>3. \A t \in Seq(Nat) : t = <<>> <=> Len(t) = 0
  OBVIOUS
<1>4. SubSeq(s, m + 1, Len(s)) = <<>> <=> Len(s) - m = 0
  BY <1>2, <1>3, Zenon
<1>5. Len(s) - m = 0 <=> m = Len(s)
  OBVIOUS
<1> QED
  BY <1>1, <1>2, <1>4, <1>5, Zenon

\* What a critical section of p in a transfer leaves as it was.
InTransfer(p, k, w) ==
  /\ On(p, k, w) /\ chan[p] = Awake
  /\ UNCHANGED fileVars /\ UNCHANGED killed
  /\ pipe' = [pipe EXCEPT ![k] = pipe'[k]] /\ pipe'[k] \in PipeRec
  /\ pipe'[k].readopen = pipe[k].readopen /\ pipe'[k].writeopen = pipe[k].writeopen
  /\ Gap(pipe'[k]) <= PIPESIZE
  /\ xfer' \in [Procs -> Xfers] /\ \A q \in Procs \ {p} : xfer'[q] = xfer[q]
  /\ xfer'[p] = NoXfer \/ (xfer'[p].at = xfer[p].at /\ xfer'[p].pipe = k)
  /\ chan' \in [Procs -> Channels]
  /\ \A q \in Procs :
       \/ chan'[q] = chan[q] \/ chan'[q] = Awake
       \/ q = p /\ xfer' = xfer /\ chan'[p] = IF w THEN Writers(k) ELSE Readers(k)
  /\ pipelock' = [pipelock EXCEPT ![k] = pipelock'[k]]
  /\ pipelock'[k] \in Procs \cup {NoProc}

LEMMA TransferStep ==
  ASSUME FilesInv, PipesInv, NEW p \in Procs, NEW k \in Pipes, NEW w \in BOOLEAN,
         InTransfer(p, k, w), Lock(k)', Waits(k)'
  PROVE  PipesInv'
<1>1. /\ \A l \in Pipes \ {k} : pipe'[l] = pipe[l] /\ pipelock'[l] = pipelock[l]
      /\ pipe' \in [Pipes -> {NoPipe} \cup PipeRec]
      /\ pipelock' \in [Pipes -> Procs \cup {NoProc}]
  BY DEF InTransfer, PipesInv, PipeTyped
<1>2. PipeTyped'
  BY <1>1 DEF InTransfer, PipesInv, PipeTyped
<1>3. UNCHANGED file /\ UNCHANGED ofile /\ UNCHANGED pc /\ UNCHANGED work
  BY DEF InTransfer, fileVars
<1>4. xfer[p] # NoXfer /\ Flag(k, w) /\ pipe[k] \in PipeRec
  BY EndInUse DEF InTransfer
<1>5. \A q \in Procs \ {p} : \A l, x : On(q, l, x)' <=> On(q, l, x)
  BY DEF InTransfer, On
<1>6. xfer'[p] # NoXfer => \A l, x : On(p, l, x)' <=> On(p, l, x)
  BY DEF InTransfer, On
<1>7. ASSUME NEW q \in Procs
      PROVE  Transfer(q)'
  <2>0. Transfer(q)
    BY DEF PipesInv
  <2>1. SUFFICES ASSUME xfer'[q] # NoXfer
                 PROVE  Transfer(q)'
    BY DEF Transfer
  <2>2. xfer[q] # NoXfer /\ xfer'[q].at = xfer[q].at /\ xfer'[q].pipe = xfer[q].pipe
    BY <1>4, <2>1 DEF InTransfer, On
  <2>3. /\ pc[q] = User /\ work[q] = <<>>
        /\ \E fd \in Fds : /\ IsEnd(ofile[q][fd], xfer[q].at = "write")
                           /\ file[ofile[q][fd]].pipe = xfer[q].pipe
    BY <2>0, <2>2 DEF Transfer
  <2> QED
    BY <1>3, <2>2, <2>3 DEF Transfer, IsEnd
<1>8. ASSUME NEW q \in Procs
      PROVE  Sleep(q)'
  <2>0. Sleep(q)
    BY DEF PipesInv
  <2>1. CASE q # p
    <3>1. chan'[q] = chan[q] \/ chan'[q] = Awake
      BY <2>1 DEF InTransfer
    <3> QED
      BY <1>5, <2>0, <2>1, <3>1, Channel DEF Sleep
  <2>2. CASE q = p
    <3>1. \/ chan'[p] = Awake
          \/ xfer' = xfer /\ chan'[p] = IF w THEN Writers(k) ELSE Readers(k)
      BY <2>2 DEF InTransfer
    <3>2. chan'[p] = Awake => Sleep(p)'
      BY Channel DEF Sleep
    <3>3. ASSUME xfer' = xfer, chan'[p] = IF w THEN Writers(k) ELSE Readers(k)
          PROVE  Sleep(p)'
      <4>1. On(p, k, w)'
        BY <3>3 DEF InTransfer, On
      <4>2. CASE w
        BY <3>3, <4>1, <4>2, Channel DEF Sleep
      <4>3. CASE ~w
        BY <3>3, <4>1, <4>3, Channel DEF Sleep
      <4> QED
        BY <4>2, <4>3
    <3> QED
      BY <2>2, <3>1, <3>2, <3>3
  <2> QED
    BY <2>1, <2>2
<1>9. ASSUME NEW l \in Pipes
      PROVE  Ends(l)'
  <2>0. Ends(l)
    BY DEF PipesInv
  <2>1. \A x \in BOOLEAN : Owners(l, x)' = Owners(l, x)
    BY <1>3 DEF Owners, IsEnd
  <2>2. CASE l # k
    BY <1>1, <2>0, <2>1, <2>2 DEF Ends, Flag, Held
  <2>3. CASE l = k
    <3>1. pipe'[k].alloc = pipe[k].alloc /\ Held(k)' <= PIPESIZE
      BY <1>4, PipeRecs DEF InTransfer, Gap, Held
    <3>2. \A x \in BOOLEAN : Flag(k, x)' = Flag(k, x)
      BY <3>1 DEF Flag, InTransfer
    <3> QED
      BY <2>0, <2>1, <2>3, <3>1, <3>2 DEF Ends, InTransfer
  <2> QED
    BY <2>2, <2>3
<1>10. ASSUME NEW l \in Pipes, l # k
       PROVE  Lock(l)' /\ Waits(l)'
  <2>0. Lock(l) /\ Waits(l) /\ pipe'[l] = pipe[l] /\ pipelock'[l] = pipelock[l]
    BY <1>1, <1>10 DEF PipesInv
  <2>1. \A q \in Procs :
          /\ chan'[q] = Readers(l) => chan[q] = Readers(l)
          /\ chan'[q] = Writers(l) => chan[q] = Writers(l)
    <3> TAKE q \in Procs
    <3>1. Readers(k) # Readers(l) /\ Readers(k) # Writers(l)
          /\ Writers(k) # Readers(l) /\ Writers(k) # Writers(l)
      BY <1>10, Channel
    <3>2. \/ chan'[q] = chan[q] \/ chan'[q] = Awake \/ chan'[q] = Readers(k) \/ chan'[q] = Writers(k)
      BY DEF InTransfer
    <3> QED
      BY <3>1, <3>2, Channel
  <2>2. Waits(l)'
    BY <2>0, <2>1 DEF Waits, Full
  <2>3. pipelock[l] # p
    <3>1. \A x \in BOOLEAN : ~On(p, l, x)
      BY <1>10 DEF InTransfer, On
    <3> QED
      BY <2>0, <3>1 DEF Lock
  <2>4. Lock(l)'
    <3> SUFFICES ASSUME NEW q \in Procs, pipelock'[l] = q
                 PROVE  /\ chan'[q] = Awake
                        /\ On(q, l, FALSE)' \/ On(q, l, TRUE)'
                        /\ On(q, l, FALSE)' => Empty(l)' /\ pipe'[l].writeopen
                        /\ On(q, l, TRUE)' => /\ Full(l)' /\ pipe'[l].readopen
                                              /\ \A r \in Procs : chan'[r] # Readers(l)
      BY DEF Lock
    <3>1. q # p /\ pipelock[l] = q
      BY <2>0, <2>3
    <3>2. /\ chan[q] = Awake
          /\ On(q, l, FALSE) \/ On(q, l, TRUE)
          /\ On(q, l, FALSE) => Empty(l) /\ pipe[l].writeopen
          /\ On(q, l, TRUE) => /\ Full(l) /\ pipe[l].readopen
                               /\ \A r \in Procs : chan[r] # Readers(l)
      BY <2>0, <3>1 DEF Lock
    <3>3. chan'[q] = Awake
      BY <3>1, <3>2 DEF InTransfer
    <3> QED
      BY <1>5, <2>0, <2>1, <3>1, <3>2, <3>3 DEF Empty, Full
  <2> QED
    BY <2>2, <2>4
<1> QED
  BY <1>2, <1>7, <1>8, <1>9, <1>10 DEF PipesInv

\* What holds in a transfer before its critical section.
LEMMA AtWork ==
  ASSUME FilesInv, PipesInv, NEW p \in Procs, NEW k \in Pipes, NEW w \in BOOLEAN, On(p, k, w)
  PROVE  /\ pipe[k] \in PipeRec /\ Flag(k, w) /\ xfer[p] # NoXfer
         /\ Held(k) \in 0..PIPESIZE /\ Held(k) = Gap(pipe[k])
         /\ Full(k) <=> Held(k) = PIPESIZE
         /\ Empty(k) <=> Held(k) = 0
         /\ Lock(k) /\ Waits(k) /\ Ends(k)
<1>1. Lock(k) /\ Waits(k) /\ Ends(k)
  BY DEF PipesInv
<1>2. pipe[k] \in PipeRec /\ Flag(k, w) /\ xfer[p] # NoXfer
  BY EndInUse
<1>3. Held(k) = Gap(pipe[k]) /\ Held(k) \in 0..UINT-1
  BY <1>2, Gaps DEF Held, Gap
<1>4. Held(k) <= PIPESIZE
  BY <1>1, <1>2 DEF Ends, Flag
<1>5. /\ Full(k) <=> Held(k) = PIPESIZE
      /\ Empty(k) <=> Held(k) = 0
  BY <1>2, <1>3, Gaps DEF Full, Empty
<1> QED
  BY <1>1, <1>2, <1>3, <1>4, <1>5, PipeAssumption

\* The bytes of a write() that find room, and those that are left.
Stores(p, k, mine, rest) ==
  /\ Len(mine) <= Room(k)
  /\ rest # <<>> => Len(mine) = Room(k)
  /\ xfer[p].bytes # <<>> => mine # <<>> \/ rest # <<>>
  /\ pipe' = [pipe EXCEPT ![k] = Store(k, mine)]
  /\ \/ /\ rest = <<>>
        /\ chan' = Wakeup(Readers(k))
        /\ xfer' = [xfer EXCEPT ![p] = NoXfer]
        /\ UNCHANGED pipelock
     \/ /\ rest # <<>> /\ (~pipe[k].readopen \/ killed[p])
        /\ xfer' = [xfer EXCEPT ![p] = NoXfer]
        /\ UNCHANGED <<chan, pipelock>>
     \/ /\ rest # <<>> /\ pipe[k].readopen /\ ~killed[p]
        /\ chan' = Wakeup(Readers(k))
        /\ pipelock' = [pipelock EXCEPT ![k] = p]
        /\ xfer' = [xfer EXCEPT ![p].bytes = rest]

LEMMA Parts ==
  ASSUME FilesInv, PipesInv, NEW p \in Procs, NEW k \in Pipes, UNCHANGED fileVars, pipewrite(p, k)
  PROVE  \E mine, rest \in Seq(Nat) : Stores(p, k, mine, rest)
<1>1. On(p, k, TRUE)
  BY DEF pipewrite, InPipe, On
<1>2. Held(k) \in 0..PIPESIZE /\ PIPESIZE \in Nat
  BY <1>1, AtWork, PipeAssumption
<1>3. PICK bytes \in Seq(Nat) : bytes = xfer[p].bytes
  BY <1>1, XferKinds DEF On, PipesInv, PipeTyped
<1>4. PICK fit \in 0..Len(bytes) : fit = IF Len(bytes) < Room(k) THEN Len(bytes) ELSE Room(k)
  BY <1>2 DEF Room
<1>5. PICK mine \in Seq(Nat) : mine = SubSeq(bytes, 1, fit) /\ Len(mine) = fit
  BY Slices
<1>6. PICK rest \in Seq(Nat) :
        rest = SubSeq(bytes, fit + 1, Len(bytes)) /\ (rest = <<>> <=> fit = Len(bytes))
  <2>1. /\ SubSeq(bytes, fit + 1, Len(bytes)) \in Seq(Nat)
        /\ SubSeq(bytes, fit + 1, Len(bytes)) = <<>> <=> fit = Len(bytes)
    BY Slices, Zenon
  <2> QED
    BY <2>1, Zenon
<1>7. Len(mine) <= Room(k) /\ (rest # <<>> => Len(mine) = Room(k))
  BY <1>2, <1>4, <1>5, <1>6 DEF Room
<1>8. bytes # <<>> => mine # <<>> \/ rest # <<>>
  <2>1. bytes # <<>> => Len(bytes) # 0
    OBVIOUS
  <2>2. mine = <<>> => fit = 0
    BY <1>5
  <2>3. rest = <<>> => fit = Len(bytes)
    BY <1>6, Zenon
  <2> QED
    BY <2>1, <2>2, <2>3, Zenon
<1>9. pipe' = [pipe EXCEPT ![k] = Store(k, mine)]
  BY <1>3, <1>4, <1>5 DEF pipewrite
<1>10. \/ /\ rest = <<>>
          /\ chan' = Wakeup(Readers(k))
          /\ xfer' = [xfer EXCEPT ![p] = NoXfer]
          /\ UNCHANGED pipelock
       \/ /\ rest # <<>> /\ (~pipe[k].readopen \/ killed[p])
          /\ xfer' = [xfer EXCEPT ![p] = NoXfer]
          /\ UNCHANGED <<chan, pipelock>>
       \/ /\ rest # <<>> /\ pipe[k].readopen /\ ~killed[p]
          /\ chan' = Wakeup(Readers(k))
          /\ pipelock' = [pipelock EXCEPT ![k] = p]
          /\ xfer' = [xfer EXCEPT ![p].bytes = rest]
  BY <1>3, <1>4, <1>6 DEF pipewrite, Leave
<1>11. Stores(p, k, mine, rest)
  BY <1>3, <1>7, <1>8, <1>9, <1>10 DEF Stores
<1> QED
  BY <1>11

LEMMA WakeupDoes ==
  ASSUME PipesInv, NEW k \in Pipes, NEW w \in BOOLEAN, NEW c, c = IF w THEN Readers(k) ELSE Writers(k),
         chan' = Wakeup(c)
  PROVE  /\ chan' \in [Procs -> Channels]
         /\ \A q \in Procs : /\ chan'[q] # c
                             /\ chan'[q] = chan[q] \/ chan'[q] = Awake
                             /\ chan[q] # c => chan'[q] = chan[q]
<1>1. chan \in [Procs -> Channels] /\ Awake \in Channels /\ c # Awake
  BY Channel DEF PipesInv, PipeTyped
<1> QED
  BY <1>1 DEF Wakeup

LEMMA pipewriteStep ==
  ASSUME FilesInv, PipesInv, NEW p \in Procs, NEW k \in Pipes, UNCHANGED fileVars, pipewrite(p, k)
  PROVE  PipesInv' /\ \A q \in Procs, l \in Pipes : ReaderStep(q, l)
<1>1. /\ On(p, k, TRUE) /\ chan[p] = Awake /\ pipelock[k] = NoProc /\ UNCHANGED killed
      /\ xfer[p].at = "write" /\ xfer[p].pipe = k
  BY DEF pipewrite, InPipe, On
<1>2. /\ pipe[k] \in PipeRec /\ Flag(k, TRUE) /\ xfer[p] # NoXfer
      /\ Held(k) \in 0..PIPESIZE /\ Held(k) = Gap(pipe[k])
      /\ Full(k) <=> Held(k) = PIPESIZE
      /\ Lock(k) /\ Waits(k)
  BY <1>1, AtWork
<1>3. /\ pipe \in [Pipes -> {NoPipe} \cup PipeRec] /\ pipelock \in [Pipes -> Procs \cup {NoProc}]
      /\ xfer \in [Procs -> Xfers] /\ chan \in [Procs -> Channels]
  BY DEF PipesInv, PipeTyped
<1>0. PICK mine \in Seq(Nat), rest \in Seq(Nat) : Stores(p, k, mine, rest)
  BY Parts
<1>4. /\ Len(mine) <= Room(k)
      /\ rest # <<>> => Len(mine) = Room(k)
      /\ pipe' = [pipe EXCEPT ![k] = Store(k, mine)]
      /\ \/ /\ rest = <<>>
            /\ chan' = Wakeup(Readers(k))
            /\ xfer' = [xfer EXCEPT ![p] = NoXfer]
            /\ UNCHANGED pipelock
         \/ /\ rest # <<>> /\ (~pipe[k].readopen \/ killed[p])
            /\ xfer' = [xfer EXCEPT ![p] = NoXfer]
            /\ UNCHANGED <<chan, pipelock>>
         \/ /\ rest # <<>> /\ pipe[k].readopen /\ ~killed[p]
            /\ chan' = Wakeup(Readers(k))
            /\ pipelock' = [pipelock EXCEPT ![k] = p]
            /\ xfer' = [xfer EXCEPT ![p].bytes = rest]
  BY <1>0 DEF Stores
<1>5. /\ pipe'[k] = Store(k, mine) /\ pipe' = [pipe EXCEPT ![k] = pipe'[k]]
      /\ \A l \in Pipes \ {k} : pipe'[l] = pipe[l]
  BY <1>3, <1>4
<1>6. PICK n \in Nat : n = Len(mine)
  OBVIOUS
<1>7. /\ pipe'[k] \in PipeRec
      /\ pipe'[k].readopen = pipe[k].readopen /\ pipe'[k].writeopen = pipe[k].writeopen
      /\ Gap(pipe'[k]) = Held(k) + n
  BY <1>2, <1>4, <1>5, <1>6, Stored
<1>8. /\ Gap(pipe'[k]) <= PIPESIZE
      /\ rest # <<>> => Gap(pipe'[k]) = PIPESIZE
      /\ Full(k) => Gap(pipe'[k]) = PIPESIZE
  BY <1>2, <1>4, <1>6, <1>7, PipeAssumption DEF Room
<1>9. Gap(pipe'[k]) = PIPESIZE => Full(k)'
  BY <1>7, Gaps DEF Full
<1>10. pipe'[k].alloc = TRUE
  BY <1>7, PipeRecs
\* Who sleeps on k after the step.
<1>11. CASE rest = <<>>
  <2>1. /\ chan' = Wakeup(Readers(k)) /\ UNCHANGED pipelock
        /\ xfer' = [xfer EXCEPT ![p] = NoXfer]
    BY <1>4, <1>11
  <2>2. /\ chan' \in [Procs -> Channels]
        /\ \A q \in Procs : /\ chan'[q] # Readers(k)
                            /\ chan'[q] = chan[q] \/ chan'[q] = Awake
    BY <2>1, WakeupDoes
  <2>3. Lock(k)'
    BY <1>1, <2>1, PipeAssumption DEF Lock
  <2>4. Waits(k)'
    BY <1>2, <1>7, <1>8, <1>9, <1>10, <2>2, Channel DEF Waits
  <2>5. InTransfer(p, k, TRUE)
    <3>1. xfer' \in [Procs -> Xfers] /\ xfer'[p] = NoXfer /\ \A q \in Procs \ {p} : xfer'[q] = xfer[q]
      BY <1>3, <2>1 DEF Xfers
    <3>2. pipelock' = [pipelock EXCEPT ![k] = pipelock'[k]] /\ pipelock'[k] \in Procs \cup {NoProc}
      BY <1>3, <2>1
    <3> QED
      BY <1>1, <1>5, <1>7, <1>8, <2>2, <3>1, <3>2 DEF InTransfer
  <2>6. \A q \in Procs, l \in Pipes : ReaderStep(q, l)
    <3> TAKE q \in Procs, l \in Pipes
    <3>1. chan'[q] = Readers(l) => l # k /\ chan[q] = Readers(l)
      BY <2>2, Channel
    <3> QED
      BY <1>5, <3>1 DEF ReaderStep
  <2> QED
    BY <2>3, <2>4, <2>5, <2>6, TransferStep
<1>12. CASE rest # <<>> /\ (~pipe[k].readopen \/ killed[p])
  <2>1. /\ UNCHANGED <<chan, pipelock>> /\ xfer' = [xfer EXCEPT ![p] = NoXfer]
    BY <1>4, <1>12
  <2>2. Lock(k)'
    BY <1>1, <2>1, PipeAssumption DEF Lock
  <2>3. Waits(k)'
    BY <1>2, <1>7, <1>8, <1>9, <1>10, <2>1 DEF Waits
  <2>4. xfer' \in [Procs -> Xfers] /\ xfer'[p] = NoXfer /\ \A q \in Procs \ {p} : xfer'[q] = xfer[q]
    BY <1>3, <2>1 DEF Xfers
  <2>5. InTransfer(p, k, TRUE)
    <3>1. pipelock' = [pipelock EXCEPT ![k] = pipelock'[k]] /\ pipelock'[k] \in Procs \cup {NoProc}
      BY <1>3, <2>1
    <3> QED
      BY <1>1, <1>3, <1>5, <1>7, <1>8, <2>1, <2>4, <3>1 DEF InTransfer
  <2>6. \A q \in Procs, l \in Pipes : ReaderStep(q, l)
    <3> TAKE q \in Procs, l \in Pipes
    <3>1. CASE l # k
      BY <1>5, <2>1, <3>1 DEF ReaderStep
    <3>2. CASE l = k /\ killed[p]
      <4>1. KilledWrite(k)
        BY <1>1, <2>4, <3>2 DEF KilledWrite
      <4> QED
        BY <2>1, <3>2, <4>1 DEF ReaderStep
    <3>3. CASE l = k /\ ~pipe[k].readopen
      <4>1. ~On(q, k, FALSE)
        <5>1. ~Flag(k, FALSE)
          BY <3>3 DEF Flag
        <5> QED
          BY <5>1, EndInUse
      <4>2. chan[q] # Readers(k)
        BY <4>1 DEF PipesInv, Sleep
      <4> QED
        BY <2>1, <3>3, <4>2 DEF ReaderStep
    <3> QED
      BY <1>12, <3>1, <3>2, <3>3
  <2> QED
    BY <2>2, <2>3, <2>5, <2>6, TransferStep
<1>13. CASE rest # <<>> /\ pipe[k].readopen /\ ~killed[p]
  <2>1. /\ chan' = Wakeup(Readers(k)) /\ pipelock' = [pipelock EXCEPT ![k] = p]
        /\ xfer' = [xfer EXCEPT ![p].bytes = rest]
    BY <1>4, <1>13
  <2>2. /\ chan' \in [Procs -> Channels]
        /\ \A q \in Procs : /\ chan'[q] # Readers(k)
                            /\ chan'[q] = chan[q] \/ chan'[q] = Awake
    BY <2>1, WakeupDoes
  <2>3. /\ xfer' \in [Procs -> Xfers] /\ \A q \in Procs \ {p} : xfer'[q] = xfer[q]
        /\ xfer'[p].at = "write" /\ xfer'[p].pipe = k
    <3>1. xfer[p] \in [at : {"write"}, pipe : Pipes, bytes : Seq(Nat)]
      BY <1>1, <1>3 DEF Xfers, NoXfer
    <3>2. PICK x : x = [xfer[p] EXCEPT !.bytes = rest]
      OBVIOUS
    <3>3. /\ x \in [at : {"write"}, pipe : Pipes, bytes : Seq(Nat)]
          /\ x.at = xfer[p].at /\ x.pipe = xfer[p].pipe
      BY <3>1, <3>2
    <3>4. xfer' = [xfer EXCEPT ![p] = x]
      BY <2>1, <3>2
    <3>5. x \in Xfers
      BY <3>3 DEF Xfers
    <3> QED
      BY <1>1, <1>3, <3>3, <3>4, <3>5
  <2>4. /\ pipelock'[k] = p /\ pipelock' = [pipelock EXCEPT ![k] = pipelock'[k]]
    BY <1>3, <2>1
  <2>5. Lock(k)'
    <3>1. Full(k)' /\ chan'[p] = Awake
      BY <1>1, <1>8, <1>9, <1>13, <2>2
    <3>2. On(p, k, TRUE)' /\ ~On(p, k, FALSE)'
      BY <2>3 DEF On
    <3> QED
      BY <1>7, <1>13, <2>2, <2>4, <3>1, <3>2 DEF Lock
  <2>6. Waits(k)'
    BY <1>2, <1>7, <1>8, <1>9, <1>10, <2>2, Channel DEF Waits
  <2>7. InTransfer(p, k, TRUE)
    BY <1>1, <1>5, <1>7, <1>8, <2>2, <2>3, <2>4 DEF InTransfer
  <2>8. \A q \in Procs, l \in Pipes : ReaderStep(q, l)
    <3> TAKE q \in Procs, l \in Pipes
    <3>1. chan'[q] = Readers(l) => l # k /\ chan[q] = Readers(l)
      BY <2>2, Channel
    <3> QED
      BY <1>5, <3>1 DEF ReaderStep
  <2> QED
    BY <2>5, <2>6, <2>7, <2>8, TransferStep
<1> QED
  BY <1>11, <1>12, <1>13

LEMMA pipereadStep ==
  ASSUME FilesInv, PipesInv, NEW p \in Procs, NEW k \in Pipes, UNCHANGED fileVars, piperead(p, k)
  PROVE  PipesInv' /\ \A q \in Procs, l \in Pipes : ReaderStep(q, l)
<1>1. /\ On(p, k, FALSE) /\ chan[p] = Awake /\ pipelock[k] = NoProc /\ UNCHANGED killed
      /\ xfer[p].at = "read" /\ xfer[p].pipe = k
  BY DEF piperead, InPipe, On
<1>2. /\ pipe[k] \in PipeRec /\ Flag(k, FALSE) /\ xfer[p] # NoXfer
      /\ Held(k) \in 0..PIPESIZE /\ Held(k) = Gap(pipe[k])
      /\ Empty(k) <=> Held(k) = 0
      /\ Lock(k) /\ Waits(k)
  BY <1>1, AtWork
<1>3. /\ pipe \in [Pipes -> {NoPipe} \cup PipeRec] /\ pipelock \in [Pipes -> Procs \cup {NoProc}]
      /\ xfer \in [Procs -> Xfers] /\ chan \in [Procs -> Channels]
  BY DEF PipesInv, PipeTyped
<1>4. xfer[p].n \in Nat \ {0} /\ NoXfer \in Xfers
  BY <1>1, <1>3, XferKinds
<1>5. PICK n \in Nat : /\ n = IF xfer[p].n < Held(k) THEN xfer[p].n ELSE Held(k)
                       /\ n <= Held(k)
  BY <1>2, <1>4
<1>6. /\ Fetch(k, n) \in PipeRec
      /\ Fetch(k, n).readopen = pipe[k].readopen /\ Fetch(k, n).writeopen = pipe[k].writeopen
      /\ Fetch(k, n).nwrite = pipe[k].nwrite
      /\ Gap(Fetch(k, n)) = Held(k) - n
  BY <1>2, <1>5, Fetched
<1>7. CASE Empty(k) /\ pipe[k].writeopen /\ killed[p]
           /\ xfer' = [xfer EXCEPT ![p] = NoXfer] /\ UNCHANGED <<pipe, pipelock, chan>>
  <2>1. Lock(k)'
    BY <1>1, <1>7, PipeAssumption DEF Lock
  <2>2. Waits(k)'
    BY <1>2, <1>7 DEF Waits, Full
  <2>3. InTransfer(p, k, FALSE)
    <3>1. xfer' \in [Procs -> Xfers] /\ xfer'[p] = NoXfer /\ \A q \in Procs \ {p} : xfer'[q] = xfer[q]
      BY <1>3, <1>4, <1>7
    <3>2. pipelock' = [pipelock EXCEPT ![k] = pipelock'[k]] /\ pipelock'[k] \in Procs \cup {NoProc}
          /\ pipe' = [pipe EXCEPT ![k] = pipe'[k]] /\ pipe'[k] = pipe[k]
      BY <1>3, <1>7
    <3>3. Gap(pipe'[k]) <= PIPESIZE
      BY <1>2, <3>2
    <3> QED
      BY <1>1, <1>2, <1>3, <1>7, <3>1, <3>2, <3>3 DEF InTransfer
  <2> QED
    BY <1>7, <2>1, <2>2, <2>3, TransferStep DEF ReaderStep
<1>8. CASE Empty(k) /\ pipe[k].writeopen /\ ~killed[p]
           /\ pipelock' = [pipelock EXCEPT ![k] = p] /\ UNCHANGED <<pipe, chan, xfer>>
  <2>1. pipelock'[k] = p /\ pipelock' = [pipelock EXCEPT ![k] = pipelock'[k]]
    BY <1>3, <1>8
  <2>2. Lock(k)'
    <3>1. On(p, k, FALSE)' /\ ~On(p, k, TRUE)' /\ Empty(k)' /\ pipe'[k].writeopen /\ chan'[p] = Awake
      BY <1>1, <1>8 DEF On, Empty
    <3> QED
      BY <2>1, <3>1 DEF Lock
  <2>3. Waits(k)'
    BY <1>2, <1>8 DEF Waits, Full
  <2>4. InTransfer(p, k, FALSE)
    <3>1. pipe' = [pipe EXCEPT ![k] = pipe'[k]] /\ pipe'[k] = pipe[k]
      BY <1>3, <1>8
    <3>2. Gap(pipe'[k]) <= PIPESIZE
      BY <1>2, <3>1
    <3>3. xfer'[p].at = xfer[p].at /\ xfer'[p].pipe = k
      BY <1>1, <1>8
    <3> QED
      BY <1>1, <1>2, <1>3, <1>8, <2>1, <3>1, <3>2, <3>3 DEF InTransfer
  <2> QED
    BY <1>8, <2>2, <2>3, <2>4, TransferStep DEF ReaderStep
<1>9. CASE /\ pipe' = [pipe EXCEPT ![k] = Fetch(k, n)]
           /\ chan' = Wakeup(Writers(k))
           /\ xfer' = [xfer EXCEPT ![p] = NoXfer]
           /\ UNCHANGED pipelock
  <2>1. /\ pipe'[k] = Fetch(k, n) /\ pipe' = [pipe EXCEPT ![k] = pipe'[k]]
        /\ \A l \in Pipes \ {k} : pipe'[l] = pipe[l]
    BY <1>3, <1>9
  <2>2. /\ chan' \in [Procs -> Channels]
        /\ \A q \in Procs : /\ chan'[q] # Writers(k)
                            /\ chan'[q] = chan[q] \/ chan'[q] = Awake
    BY <1>9, WakeupDoes
  <2>3. Lock(k)'
    BY <1>1, <1>9, PipeAssumption DEF Lock
  <2>4. Waits(k)'
    <3>1. pipe'[k].alloc = TRUE
      BY <1>6, <2>1, PipeRecs
    <3> QED
      BY <1>2, <1>6, <2>1, <2>2, <3>1, Channel DEF Waits
  <2>5. InTransfer(p, k, FALSE)
    <3>1. xfer' \in [Procs -> Xfers] /\ xfer'[p] = NoXfer /\ \A q \in Procs \ {p} : xfer'[q] = xfer[q]
      BY <1>3, <1>4, <1>9
    <3>2. pipelock' = [pipelock EXCEPT ![k] = pipelock'[k]] /\ pipelock'[k] \in Procs \cup {NoProc}
      BY <1>3, <1>9
    <3>3. Gap(pipe'[k]) <= PIPESIZE
      <4>1. Gap(pipe'[k]) = Held(k) - n
        BY <1>6, <2>1
      <4> QED
        BY <1>2, <1>5, <4>1, PipeAssumption
    <3> QED
      BY <1>1, <1>6, <2>1, <2>2, <3>1, <3>2, <3>3 DEF InTransfer
  <2>6. \A q \in Procs, l \in Pipes : ReaderStep(q, l)
    <3> TAKE q \in Procs, l \in Pipes
    <3>1. chan'[q] = Readers(l) => chan[q] = Readers(l)
      BY <2>2, Channel
    <3>2. pipe'[l].nwrite = pipe[l].nwrite
      BY <1>6, <2>1
    <3> QED
      BY <3>1, <3>2 DEF ReaderStep
  <2> QED
    BY <2>3, <2>4, <2>5, <2>6, TransferStep
<1> QED
  BY <1>5, <1>7, <1>8, <1>9 DEF piperead, Leave

LEMMA sleepStep ==
  ASSUME FilesInv, PipesInv, NEW p \in Procs, NEW k \in Pipes, UNCHANGED fileVars, sleep(p, k)
  PROVE  PipesInv' /\ \A q \in Procs, l \in Pipes : ReaderStep(q, l)
<1>1. /\ pipelock[k] = p /\ pipelock' = [pipelock EXCEPT ![k] = NoProc]
      /\ UNCHANGED <<pipe, killed, xfer>>
  BY DEF sleep
<1>2. /\ pipe \in [Pipes -> {NoPipe} \cup PipeRec] /\ pipelock \in [Pipes -> Procs \cup {NoProc}]
      /\ xfer \in [Procs -> Xfers] /\ chan \in [Procs -> Channels]
  BY DEF PipesInv, PipeTyped
<1>3. /\ chan[p] = Awake
      /\ On(p, k, FALSE) \/ On(p, k, TRUE)
      /\ On(p, k, FALSE) => Empty(k) /\ pipe[k].writeopen
      /\ On(p, k, TRUE) => /\ Full(k) /\ pipe[k].readopen
                           /\ \A q \in Procs : chan[q] # Readers(k)
  BY <1>1 DEF PipesInv, Lock
<1>4. PICK w \in BOOLEAN : On(p, k, w)
  BY <1>3
<1>5. /\ pipe[k] \in PipeRec /\ Flag(k, w) /\ xfer[p] # NoXfer
      /\ Held(k) \in 0..PIPESIZE /\ Held(k) = Gap(pipe[k])
      /\ Full(k) <=> Held(k) = PIPESIZE
      /\ Empty(k) <=> Held(k) = 0
      /\ Lock(k) /\ Waits(k)
  BY <1>4, AtWork
<1>6. ~(Empty(k) /\ Full(k))
  BY <1>5, PipeAssumption
<1>7. (xfer[p].at = "read") = ~w /\ xfer[p].pipe = k
  BY <1>4 DEF On
<1>8. PICK c : c = IF w THEN Writers(k) ELSE Readers(k)
  OBVIOUS
<1>9. chan' = [chan EXCEPT ![p] = c] /\ c \in Channels
  BY <1>7, <1>8, Channel DEF sleep
<1>10. chan' \in [Procs -> Channels] /\ chan'[p] = c /\ \A q \in Procs \ {p} : chan'[q] = chan[q]
  BY <1>2, <1>9
<1>11. Lock(k)'
  BY <1>1, <1>2, PipeAssumption DEF Lock
<1>12. Waits(k)'
  <2>1. CASE w
    <3>1. On(p, k, TRUE) /\ Full(k) /\ pipe[k].readopen /\ \A q \in Procs : chan[q] # Readers(k)
      BY <1>3, <1>4, <2>1 DEF On
    <3>2. \A q \in Procs : chan'[q] # Readers(k)
      BY <1>8, <1>10, <2>1, <3>1, Channel
    <3>3. ASSUME NEW q \in Procs, chan'[q] = Writers(k)
          PROVE  pipe'[k].alloc /\ pipe'[k].readopen /\ Full(k)'
      BY <1>1, <1>5, <3>1 DEF Full, Flag
    <3> QED
      BY <3>2, <3>3 DEF Waits
  <2>2. CASE ~w
    <3>1. On(p, k, FALSE) /\ Empty(k) /\ pipe[k].writeopen
      BY <1>3, <1>4, <2>2 DEF On
    <3>2. \A q \in Procs : chan'[q] # Writers(k)
      <4> TAKE q \in Procs
      <4>1. chan[q] # Writers(k)
        BY <1>5, <1>6, <3>1 DEF Waits
      <4> QED
        BY <1>8, <1>10, <2>2, <4>1, Channel
    <3>3. pipe'[k].alloc /\ pipe'[k].writeopen
      BY <1>1, <1>5, <3>1 DEF Flag
    <3> QED
      BY <3>2, <3>3 DEF Waits
  <2> QED
    BY <2>1, <2>2
<1>13. InTransfer(p, k, w)
  <2>1. /\ pipelock' = [pipelock EXCEPT ![k] = pipelock'[k]] /\ pipelock'[k] \in Procs \cup {NoProc}
        /\ pipe' = [pipe EXCEPT ![k] = pipe'[k]] /\ pipe'[k] = pipe[k]
    BY <1>1, <1>2
  <2>2. Gap(pipe'[k]) <= PIPESIZE
    BY <1>5, <2>1
  <2>3. xfer'[p].at = xfer[p].at /\ xfer'[p].pipe = k
    BY <1>1, <1>7
  <2> QED
    BY <1>1, <1>2, <1>3, <1>4, <1>5, <1>8, <1>10, <2>1, <2>2, <2>3 DEF InTransfer
<1>14. \A q \in Procs, l \in Pipes : ReaderStep(q, l)
  <2> TAKE q \in Procs, l \in Pipes
  <2>1. CASE chan'[q] = Readers(l) /\ chan[q] # Readers(l)
    <3>1. q = p /\ ~w /\ l = k
      BY <1>8, <1>10, <2>1, Channel
    <3>2. Empty(k)
      BY <1>3, <1>4, <3>1 DEF On
    <3> QED
      BY <2>1, <3>1, <3>2 DEF ReaderStep
  <2> QED
    BY <1>1, <2>1 DEF ReaderStep
<1> QED
  BY <1>11, <1>12, <1>13, <1>14, TransferStep
-----------------------------------------------------------------------------
(***************************************************************************)
(* The pipes in every reachable state.                                     *)
(***************************************************************************)
LEMMA PipesStart ==
  ASSUME Init
  PROVE  PipesInv
<1>1. /\ pipe = [k \in Pipes |-> NoPipe] /\ pipelock = [k \in Pipes |-> NoProc]
      /\ chan = [p \in Procs |-> Awake] /\ killed = [p \in Procs |-> FALSE]
      /\ xfer = [p \in Procs |-> NoXfer]
      /\ file = [f \in Files |-> NoneFile] /\ work = [p \in Procs |-> <<>>]
  BY DEF Init, PipeInit
<1>2. PipeTyped
  BY <1>1, Channel DEF PipeTyped, Xfers
<1>3. \A p \in Procs : Transfer(p) /\ Sleep(p)
  BY <1>1, Channel DEF Transfer, Sleep
<1>4. ASSUME NEW k \in Pipes
      PROVE  Ends(k) /\ Lock(k) /\ Waits(k)
  <2>1. \A w \in BOOLEAN : Owners(k, w) = 0
    <3> TAKE w \in BOOLEAN
    <3>1. {f \in Files : IsEnd(f, w) /\ file[f].pipe = k} = {}
      BY <1>1, FileRecs DEF IsEnd
    <3>2. \A p \in Procs : work[p] = <<>>
      BY <1>1
    <3>3. {p \in Procs : AnEnd(k, w) \in ToSet(work[p])} = {}
      BY <3>2, Items
    <3>4. Cardinality({}) + Cardinality({}) = 0
      BY FS_EmptySet
    <3> QED
      BY <3>1, <3>3, <3>4, Zenon DEF Owners
  <2>2. ~pipe[k].alloc
    BY <1>1, PipeRecs
  <2>3. Ends(k)
    BY <2>1, <2>2 DEF Ends, Flag, One
  <2>4. Lock(k)
    BY <1>1, PipeAssumption DEF Lock
  <2>5. Waits(k)
    BY <1>1, Channel DEF Waits
  <2> QED
    BY <2>3, <2>4, <2>5
<1> QED
  BY <1>2, <1>3, <1>4 DEF PipesInv

ReaderSteps == \A p \in Procs, k \in Pipes : ReaderStep(p, k)

\* Steps that put nobody to sleep, and change no pipe that has a reader asleep.
LEMMA ReadersStay ==
  ASSUME \A q \in Procs : chan'[q] = chan[q] \/ chan'[q] = Awake,
         \A q \in Procs, l \in Pipes : chan'[q] = Readers(l) => pipe'[l].nwrite = pipe[l].nwrite
  PROVE  ReaderSteps
BY Channel DEF ReaderSteps, ReaderStep

LEMMA QuietSteps ==
  ASSUME FilesInv, PipesInv, NEW p \in Procs, FilesOnly(p), OwnersSame,
         UNCHANGED <<pipe, pipelock, chan, xfer>>, killed' \in [Procs -> BOOLEAN]
  PROVE  PipesInv' /\ ReaderSteps
<1>1. PipesInv'
  BY QuietStep
<1>2. ReaderSteps
  BY ReadersStay
<1> QED
  BY <1>1, <1>2

LEMMA PipesSameSteps ==
  ASSUME FilesInv, PipesInv, NEW p \in Procs, FilesOnly(p) /\ OwnersSame, PipesSame
  PROVE  PipesInv' /\ ReaderSteps
<1>1. UNCHANGED <<pipe, pipelock, chan, xfer>> /\ killed' = killed
  BY DEF PipesSame, pipeVars
<1>2. killed' \in [Procs -> BOOLEAN]
  BY <1>1 DEF PipesInv, PipeTyped
<1> QED
  BY <1>1, <1>2, QuietSteps

LEMMA PipesKernel ==
  ASSUME FilesInv, PipesInv, NEW p \in Procs, Kernel(p)
  PROVE  PipesInv' /\ ReaderSteps
<1>1. CASE fileclose(p)
  BY <1>1, filecloseStep, PipesSameSteps DEF fileclose
<1>2. CASE CloseEnd(p)
  <2>1. FilesOnly(p)
    BY <1>2, CloseEndStep
  <2>2. PICK k \in Pipes, w \in BOOLEAN : EndIn(p, k, w) /\ EndClosed(k, w)
    BY <1>2, CloseEndStep
  <2>3. PipesInv'
    BY <2>1, <2>2, EndClosedStep
  <2>4. chan' = Wakeup(IF w THEN Readers(k) ELSE Writers(k)) /\ \A l \in Pipes \ {k} : pipe'[l] = pipe[l]
    BY <2>2 DEF EndClosed, pipeclose, PipesInv, PipeTyped
  <2>5. PICK c : c = (IF w THEN Readers(k) ELSE Writers(k)) /\ chan' = Wakeup(c)
    BY <2>4
  <2>6. \A q \in Procs : chan'[q] # c /\ (chan'[q] = chan[q] \/ chan'[q] = Awake)
    <3>1. CASE w
      BY <2>5, <3>1, WakeupDoes
    <3>2. CASE ~w
      <4>1. /\ chan \in [Procs -> Channels] /\ c # Awake
        BY <2>5, <3>2, Channel DEF PipesInv, PipeTyped
      <4> QED
        BY <2>5, <4>1 DEF Wakeup
    <3> QED
      BY <3>1, <3>2
  <2>7. ASSUME NEW q \in Procs
        PROVE  chan'[q] # Readers(k)
    <3>1. CASE w
      BY <2>5, <2>6, <3>1
    <3>2. CASE ~w
      <4>1. ~On(q, k, FALSE)
        BY <2>2, <3>2, EndInUse
      <4>2. chan[q] # Readers(k)
        BY <4>1 DEF PipesInv, Sleep
      <4> QED
        BY <2>6, <4>2, Channel
    <3> QED
      BY <3>1, <3>2
  <2>8. ReaderSteps
    BY <2>4, <2>6, <2>7, ReadersStay
  <2> QED
    BY <2>3, <2>8
<1>3. CASE iput(p)
  BY <1>3, iputStep, PipesSameSteps DEF iput
<1>4. CASE OpenFile(p)
  BY <1>4, OpenFileStep, PipesSameSteps DEF OpenFile
<1>5. CASE PipeWriteEnd(p)
  BY <1>5, PipeWriteEndStep, PipesSameSteps DEF PipeWriteEnd
<1>6. CASE PipePage(p)
  <2>1. FilesOnly(p) /\ UNCHANGED <<pipelock, chan, killed, xfer>>
    BY <1>6, PipePageStep DEF PipePage
  <2>2. (OwnersSame /\ pipe' = pipe) \/ \E k \in Pipes : NewEnds(k)
    BY <1>6, PipePageStep
  <2>3. CASE OwnersSame /\ pipe' = pipe
    <3>1. killed' \in [Procs -> BOOLEAN]
      BY <2>1 DEF PipesInv, PipeTyped
    <3> QED
      BY <2>1, <2>3, <3>1, QuietSteps
  <2>4. ASSUME NEW k \in Pipes, NewEnds(k)
        PROVE  PipesInv' /\ ReaderSteps
    <3>1. PipesInv'
      BY <2>1, <2>4, NewEndsStep
    <3>2. ~pipe[k].alloc /\ \A l \in Pipes \ {k} : pipe'[l] = pipe[l]
      BY <2>4 DEF NewEnds, PipesInv, PipeTyped
    <3>3. \A q \in Procs : chan'[q] # Readers(k)
      BY <2>1, <3>2 DEF PipesInv, Waits
    <3>4. ReaderSteps
      BY <2>1, <3>2, <3>3, ReadersStay
    <3> QED
      BY <3>1, <3>4
  <2> QED
    BY <2>2, <2>3, <2>4
<1>7. CASE PipeIO(p)
  <2>1. UNCHANGED fileVars
    BY <1>7 DEF PipeIO
  <2>2. PICK k \in Pipes : pipewrite(p, k) \/ piperead(p, k) \/ sleep(p, k)
    BY <1>7 DEF PipeIO, PipeStep
  <2> QED
    BY <2>1, <2>2, pipewriteStep, pipereadStep, sleepStep DEF ReaderSteps
<1>8. CASE ForkFile(p)
  BY <1>8, ForkFileStep, PipesSameSteps DEF ForkFile
<1>9. CASE ForkDone(p)
  BY <1>9, ForkDoneStep, PipesSameSteps DEF ForkDone
<1>10. CASE ExitFile(p)
  BY <1>10, ExitFileStep, PipesSameSteps DEF ExitFile
<1>11. CASE ExitDone(p)
  <2>1. FilesOnly(p) /\ OwnersSame
    BY <1>11, ExitDoneStep
  <2>2. UNCHANGED <<pipe, pipelock, chan, xfer>> /\ killed' \in [Procs -> BOOLEAN]
    BY <1>11 DEF ExitDone, PipesInv, PipeTyped
  <2> QED
    BY <2>1, <2>2, QuietSteps
<1> QED
  BY <1>1, <1>2, <1>3, <1>4, <1>5, <1>6, <1>7, <1>8, <1>9, <1>10, <1>11 DEF Kernel

LEMMA PipesNext ==
  ASSUME FilesInv, PipesInv, Next
  PROVE  PipesInv' /\ ReaderSteps
<1>1. ASSUME NEW p \in Procs, Kernel(p)
      PROVE  PipesInv' /\ ReaderSteps
  BY <1>1, PipesKernel
<1>2. ASSUME NEW p \in Procs, sys_open(p) \/ sys_pipe(p) \/ fork(p) \/ exit(p) \/ Kill(p)
      PROVE  PipesInv' /\ ReaderSteps
  <2>1. CASE sys_open(p)
    BY <2>1, sys_openStep, PipesSameSteps DEF sys_open
  <2>2. CASE sys_pipe(p)
    BY <2>2, sys_pipeStep, PipesSameSteps DEF sys_pipe
  <2>3. CASE fork(p)
    BY <2>3, forkStep, PipesSameSteps DEF fork
  <2>4. CASE exit(p)
    BY <2>4, exitStep, PipesSameSteps DEF exit
  <2>5. CASE Kill(p)
    <3>1. chan' = [chan EXCEPT ![p] = Awake] /\ UNCHANGED pipe
      BY <2>5 DEF Kill, kill
    <3>2. \A q \in Procs : chan'[q] = chan[q] \/ chan'[q] = Awake
      BY <3>1 DEF PipesInv, PipeTyped
    <3> QED
      BY <2>5, <3>1, <3>2, KillStep, ReadersStay
  <2> QED
    BY <1>2, <2>1, <2>2, <2>3, <2>4, <2>5
<1>3. ASSUME NEW p \in Procs, NEW fd \in Fds,
             sys_dup(p, fd) \/ sys_close(p, fd) \/ sys_write(p, fd) \/ sys_read(p, fd)
      PROVE  PipesInv' /\ ReaderSteps
  <2>1. CASE sys_dup(p, fd)
    BY <2>1, sys_dupStep, PipesSameSteps DEF sys_dup
  <2>2. CASE sys_close(p, fd)
    BY <2>2, sys_closeStep, PipesSameSteps DEF sys_close
  <2>3. CASE sys_write(p, fd)
    <3>1. UNCHANGED <<pipe, chan>>
      BY <2>3 DEF sys_write
    <3> QED
      BY <2>3, <3>1, sys_writeStep, ReadersStay
  <2>4. CASE sys_read(p, fd)
    <3>1. UNCHANGED <<pipe, chan>>
      BY <2>4 DEF sys_read
    <3> QED
      BY <2>4, <3>1, sys_readStep, ReadersStay
  <2> QED
    BY <1>3, <2>1, <2>2, <2>3, <2>4
<1> QED
  BY <1>1, <1>2, <1>3 DEF Next

LEMMA PipesStutter ==
  ASSUME PipesInv, UNCHANGED vars
  PROVE  PipesInv'
<1>1. /\ UNCHANGED pipe /\ UNCHANGED pipelock /\ UNCHANGED chan /\ UNCHANGED killed
      /\ UNCHANGED xfer /\ UNCHANGED file /\ UNCHANGED ofile /\ UNCHANGED pc /\ UNCHANGED work
  BY DEF vars, pipeVars, fileVars
<1>2. PipeTyped'
  BY <1>1 DEF PipesInv, PipeTyped
<1>3. ASSUME NEW p \in Procs
      PROVE  Transfer(p)' /\ Sleep(p)'
  <2>1. Transfer(p) /\ Sleep(p)
    BY DEF PipesInv
  <2> QED
    BY <1>1, <2>1 DEF Transfer, Sleep, On, IsEnd
<1>4. ASSUME NEW k \in Pipes
      PROVE  Ends(k)' /\ Lock(k)' /\ Waits(k)'
  <2>0. Ends(k) /\ Lock(k) /\ Waits(k)
    BY DEF PipesInv
  <2>1. Ends(k)'
    <3>1. \A w \in BOOLEAN : Owners(k, w)' = Owners(k, w)
      BY <1>1 DEF Owners, IsEnd
    <3> QED
      BY <1>1, <2>0, <3>1 DEF Ends, Flag, Held
  <2>2. Lock(k)'
    BY <1>1, <2>0 DEF Lock, On, Empty, Full
  <2>3. Waits(k)'
    BY <1>1, <2>0 DEF Waits, Full
  <2> QED
    BY <2>1, <2>2, <2>3
<1> QED
  BY <1>2, <1>3, <1>4 DEF PipesInv

\* The inductive invariant of the pipes: each open end has one owner, a transfer
\* holds a descriptor of its end, and who sleeps, or is about to, has a reason.
THEOREM PipesInvariant == Spec => [](FilesInv /\ PipesInv)
<1>1. Init => FilesInv /\ PipesInv
  BY FilesStart, PipesStart
<1>2. FilesInv /\ PipesInv /\ [Next]_vars => FilesInv' /\ PipesInv'
  BY FilesNext, PipesNext, PipesStutter
<1> QED
  BY <1>1, <1>2, PTL DEF Spec

\* The file table is sound: every f->ref is the number of descriptors and calls
\* that will give it back, every reference to an inode has an owner, no panic of
\* filedup() or fileclose() is reached, whatever fails half way.
THEOREM TableIsSound == Spec => []TableSound
<1>1. FilesInv /\ PipesInv => TableSound
  <2> SUFFICES ASSUME FilesInv, PipesInv
               PROVE  TableSound
    OBVIOUS
  <2>1. Typed /\ PipeTyped
    BY DEF FilesInv, PipesInv
  <2>2. ASSUME NEW f \in Files
        PROVE  /\ file[f].ref \in Nat
               /\ file[f].type = "pipe" => file[f].pipe \in Pipes /\ file[f].writable \in BOOLEAN
               /\ file[f].ref = 0 => file[f] = NoneFile
    BY <2>1, FileRecs DEF Typed
  <2>3. ASSUME NEW k \in Pipes, pipe[k].alloc
        PROVE  /\ pipe[k].nread \in 0..UINT-1 /\ pipe[k].nwrite \in 0..UINT-1
               /\ Held(k) <= PIPESIZE
    <3>1. pipe[k] \in PipeRec
      BY <2>1, <2>3, PipeRecs DEF PipeTyped
    <3>2. Held(k) <= PIPESIZE
      BY <2>3 DEF PipesInv, Ends
    <3> QED
      BY <3>1, <3>2, PipeRecs
  <2>4. \A p \in Procs : xfer[p].at \in {"none", "read", "write"}
    BY <2>1, XferKinds DEF PipeTyped
  <2>5. TypeOK
    BY <2>1, <2>2, <2>3, <2>4 DEF TypeOK, Typed
  <2> QED
    BY <2>1, <2>5 DEF TableSound, FilesInv, Typed
<1> QED
  BY <1>1, PipesInvariant, PTL

\* An end of a pipe has exactly one owner while it is open and none afterwards:
\* it is closed once, the page is freed once, and no transfer is left with it.
THEOREM EndsHaveOneOwner == Spec => []EndsOwned
<1>1. FilesInv /\ PipesInv => EndsOwned
  <2> SUFFICES ASSUME FilesInv, PipesInv, NEW k \in Pipes
               PROVE  /\ Owners(k, FALSE) = IF pipe[k].alloc /\ pipe[k].readopen THEN 1 ELSE 0
                      /\ Owners(k, TRUE) = IF pipe[k].alloc /\ pipe[k].writeopen THEN 1 ELSE 0
                      /\ \A p \in Procs : xfer[p].at \in {"read", "write"} /\ xfer[p].pipe = k
                           => pipe[k].alloc
                      /\ pipe[k].alloc => pipe[k].readopen \/ pipe[k].writeopen
    BY DEF EndsOwned
  <2>1. Ends(k)
    BY DEF PipesInv
  <2>2. Owners(k, FALSE) = One(Flag(k, FALSE)) /\ Owners(k, TRUE) = One(Flag(k, TRUE))
    BY <2>1 DEF Ends
  <2>3. ASSUME NEW p \in Procs, xfer[p].at \in {"read", "write"}, xfer[p].pipe = k
        PROVE  pipe[k].alloc
    <3>1. On(p, k, FALSE) \/ On(p, k, TRUE)
      BY <2>3 DEF On
    <3> QED
      BY <3>1, EndInUse DEF Flag
  <2> QED
    BY <2>1, <2>2, <2>3 DEF Flag, One, Ends
<1> QED
  BY <1>1, PipesInvariant, PTL

\* Nobody sleeps in piperead() or pipewrite() for nothing: the other end is open,
\* a writer sleeps beside a full pipe, and a reader fell asleep beside an empty
\* one, into which nothing but a killed write() has stored a byte since.
THEOREM NobodySleepsForNothing == Spec => SleepersHaveReason
<1>1. PipesInv => SleepersWait
  BY DEF PipesInv, Waits, SleepersWait
<1>2. FilesInv /\ PipesInv /\ [Next]_vars
        => [\A p \in Procs, k \in Pipes : ReaderStep(p, k)]_pipeVars
  BY PipesNext DEF ReaderSteps, vars
<1> QED
  BY <1>1, <1>2, PipesInvariant, PTL DEF Spec, SleepersHaveReason

-----------------------------------------------------------------------------
(***************************************************************************)
(* The pipes are the byte streams of ByteStreams, for any number of        *)
(* processes, files and pipes, and for pipes of any size.                  *)
(***************************************************************************)
(***************************************************************************)
(* Where a byte lies: the counters run modulo UINT, the places modulo      *)
(* PIPESIZE, which divides UINT.                                           *)
(***************************************************************************)
LEMMA Multiples ==
  ASSUME NEW P \in Nat \ {0}, NEW m \in Int, -P < P * m, P * m < P
  PROVE  m = 0
<1>1. m >= 1 => P * m >= P
  OBVIOUS
<1>2. m <= -1 => P * m <= -P
  OBVIOUS
<1> QED
  BY <1>1, <1>2

LEMMA Quotient ==
  ASSUME NEW P \in Nat \ {0}, NEW a \in Int
  PROVE  \E q \in Int : a = P * q + (a % P) /\ a % P \in 0..P-1
<1>1. a \div P \in Int /\ a % P \in 0..P-1
  OBVIOUS
<1>2. a = P * (a \div P) + (a % P)
  OBVIOUS
<1> QED
  BY <1>1, <1>2

LEMMA PlaceOf ==
  ASSUME NEW c \in 0..UINT-1, NEW j \in 1..PIPESIZE
  PROVE  /\ Place(c, j) \in 0..PIPESIZE-1
         /\ \E a \in 0..UINT-1 :
              Place(c, j) = a % PIPESIZE /\ (a = c + j - 1 \/ a = c + j - 1 - UINT)
<1>1. /\ PIPESIZE \in Nat \ {0} /\ UINT \in Nat \ {0} /\ UINT > PIPESIZE
      /\ PIPESIZE \in Int /\ UINT \in Int
  BY PipeAssumption
<1>2. PICK d \in Int : d = c + j - 1
  BY <1>1
<1>3. d \in 0..UINT-1 \/ d \in UINT..2*UINT-1
  BY <1>1, <1>2
<1>4. d % UINT \in 0..UINT-1 /\ (d % UINT = d \/ d % UINT = d - UINT)
  BY <1>1, <1>3, Remainder, Zenon
<1>5. PICK a \in 0..UINT-1 : a = d % UINT /\ (a = d \/ a = d - UINT)
  BY <1>4, Zenon
<1>6. a % PIPESIZE \in 0..PIPESIZE-1
  BY <1>1, Remainder
<1>7. Place(c, j) = a % PIPESIZE
  BY <1>2, <1>5, Zenon DEF Place
<1> QED
  <2>1. Place(c, j) \in 0..PIPESIZE-1
    BY <1>6, <1>7, Zenon
  <2>2. a = c + j - 1 \/ a = c + j - 1 - UINT
    <3>1. a = d \/ a = d - UINT
      BY <1>5, Zenon
    <3> QED
      BY <1>1, <1>2, <3>1
  <2> QED
    BY <1>7, <2>1, <2>2

LEMMA PlacesDiffer ==
  ASSUME NEW c \in 0..UINT-1, NEW i \in 1..PIPESIZE, NEW j \in 1..PIPESIZE,
         Place(c, i) = Place(c, j)
  PROVE  i = j
<1>1. /\ PIPESIZE \in Nat \ {0} /\ UINT \in Nat \ {0} /\ UINT % PIPESIZE = 0
      /\ PIPESIZE \in Int /\ UINT \in Int
  BY PipeAssumption
<1>2. PICK a \in 0..UINT-1 :
        Place(c, i) = a % PIPESIZE /\ (a = c + i - 1 \/ a = c + i - 1 - UINT)
  BY PlaceOf
<1>3. PICK b \in 0..UINT-1 :
        Place(c, j) = b % PIPESIZE /\ (b = c + j - 1 \/ b = c + j - 1 - UINT)
  BY PlaceOf
<1>4. PICK q \in Int : a = PIPESIZE * q + (a % PIPESIZE) /\ a % PIPESIZE \in 0..PIPESIZE-1
  <2>1. a \in Int /\ PIPESIZE \in Nat \ {0}
    BY <1>1
  <2> QED
    BY <2>1, Quotient
<1>5. PICK r \in Int : b = PIPESIZE * r + (b % PIPESIZE) /\ b % PIPESIZE \in 0..PIPESIZE-1
  <2>1. b \in Int /\ PIPESIZE \in Nat \ {0}
    BY <1>1
  <2> QED
    BY <2>1, Quotient
<1>6. PICK u \in Int : UINT = PIPESIZE * u
  <2>1. PICK u \in Int : UINT = PIPESIZE * u + (UINT % PIPESIZE)
    BY <1>1, Quotient
  <2>2. PICK z : z = UINT % PIPESIZE
    OBVIOUS
  <2>3. z = 0 /\ UINT = PIPESIZE * u + z
    BY <1>1, <2>1, <2>2, Zenon
  <2>4. UINT = PIPESIZE * u
    BY <1>1, <2>3
  <2> QED
    BY <2>4
<1>7. PICK e \in 0..PIPESIZE-1 : e = a % PIPESIZE /\ e = b % PIPESIZE
  BY <1>2, <1>3, <1>4
<1>8. a - b = PIPESIZE * (q - r)
  BY <1>1, <1>4, <1>5, <1>7
<1>9. PICK m \in Int : i - j = PIPESIZE * m
  <2>1. CASE a - b = i - j
    BY <1>8, <2>1
  <2>2. CASE a - b = i - j - UINT
    <3>1. i - j = PIPESIZE * (q - r) + PIPESIZE * u
      BY <1>1, <1>6, <1>8, <2>2
    <3>2. i - j = PIPESIZE * (q - r + u)
      BY <1>1, <3>1
    <3> QED
      BY <3>2
  <2>3. CASE a - b = i - j + UINT
    <3>1. i - j = PIPESIZE * (q - r) - PIPESIZE * u
      BY <1>1, <1>6, <1>8, <2>3
    <3>2. i - j = PIPESIZE * (q - r - u)
      BY <1>1, <3>1
    <3> QED
      BY <3>2
  <2> QED
    BY <1>1, <1>2, <1>3, <2>1, <2>2, <2>3
<1>10. -PIPESIZE < PIPESIZE * m /\ PIPESIZE * m < PIPESIZE
  BY <1>1, <1>9
<1>11. m = 0
  BY <1>1, <1>10, Multiples
<1> QED
  BY <1>1, <1>9, <1>11

LEMMA PlaceAfter ==
  ASSUME NEW c \in 0..UINT-1, NEW n \in 0..PIPESIZE, NEW j \in 1..PIPESIZE, n + j <= PIPESIZE
  PROVE  Place((c + n) % UINT, j) = Place(c, n + j)
<1>1. /\ PIPESIZE \in Nat \ {0} /\ UINT \in Nat \ {0} /\ UINT > PIPESIZE
      /\ PIPESIZE \in Int /\ UINT \in Int
  BY PipeAssumption
<1>2. n \in 0..UINT-1
  BY <1>1
<1>3. PICK e \in 0..UINT-1 :
        e = (c + n) % UINT /\ e = IF c + n < UINT THEN c + n ELSE c + n - UINT
  BY <1>1, <1>2, Onward
<1>4. PICK d \in Int : d = c + (n + j) - 1
  BY <1>1
<1>5. PICK f \in Int : f = e + j - 1
  BY <1>1
<1>6. (d \in 0..UINT-1 \/ d \in UINT..2*UINT-1) /\ (f \in 0..UINT-1 \/ f \in UINT..2*UINT-1)
  BY <1>1, <1>3, <1>4, <1>5
<1>7. /\ d \in 0..UINT-1 => d % UINT = d
      /\ d \in UINT..2*UINT-1 => d % UINT = d - UINT
      /\ f \in 0..UINT-1 => f % UINT = f
      /\ f \in UINT..2*UINT-1 => f % UINT = f - UINT
  BY <1>1, Remainder, Zenon
<1>8. PICK x, y : x = d % UINT /\ y = f % UINT
  OBVIOUS
<1>9. x = y
  BY <1>1, <1>3, <1>4, <1>5, <1>6, <1>7, <1>8
<1> QED
  BY <1>3, <1>4, <1>5, <1>8, <1>9, Zenon DEF Place
-----------------------------------------------------------------------------
(***************************************************************************)
(* What store and fetch do to the bytes that are unread.                   *)
(***************************************************************************)
\* The bytes of a pipe, from its counters and its data.
BytesOf(r) == [j \in 1..Gap(r) |-> r.data[Place(r.nread, j)]]

LEMMA WrittenTo ==
  ASSUME NEW r \in PipeRec
  PROVE  r.nwrite = (r.nread + Gap(r)) % UINT
<1>1. PICK a \in 0..UINT-1, b \in 0..UINT-1 : a = r.nwrite /\ b = r.nread
  BY PipeRecs
<1>2. UINT \in Nat \ {0}
  BY PipeAssumption
<1>3. PICK h \in 0..UINT-1 : h = Gap(r)
  BY Gaps
<1>4. a = (b + h) % UINT <=> (a - b) % UINT = h
  BY <1>2, Level
<1>5. Gap(r) = (a - b) % UINT
  BY <1>1, Zenon DEF Gap
<1> QED
  BY <1>1, <1>3, <1>4, <1>5, Zenon

LEMMA StoreAppends ==
  ASSUME NEW k \in Pipes, pipe[k] \in PipeRec, Held(k) <= PIPESIZE,
         NEW bytes \in Seq(Nat), Len(bytes) <= Room(k),
         NEW j \in 1..Held(k)
  PROVE  Store(k, bytes).data[Place(pipe[k].nread, j)] = pipe[k].data[Place(pipe[k].nread, j)]
<1>1. PICK c \in 0..UINT-1, e \in 0..UINT-1 : c = pipe[k].nread /\ e = pipe[k].nwrite
  BY PipeRecs
<1>2. /\ Held(k) \in 0..PIPESIZE /\ Held(k) = Gap(pipe[k])
      /\ pipe[k].data \in [0..PIPESIZE-1 -> Nat]
  <2>1. Held(k) = Gap(pipe[k])
    BY DEF Held, Gap
  <2>2. Gap(pipe[k]) \in Nat
    BY Gaps
  <2>3. pipe[k].data \in [0..PIPESIZE-1 -> Nat]
    BY PipeRecs
  <2> QED
    BY <2>1, <2>2, <2>3, PipeAssumption
<1>3. PICK h \in 0..UINT-1 : h = Held(k) /\ h \in 0..PIPESIZE
  BY <1>2, PipeAssumption
<1>4. e = (c + h) % UINT
  <2>1. Gap(pipe[k]) \in 0..UINT-1
    BY Gaps
  <2>2. pipe[k].nwrite = (pipe[k].nread + Gap(pipe[k])) % UINT
    BY <2>1, WrittenTo
  <2> QED
    BY <1>1, <1>2, <1>3, <2>2, Zenon
<1>5. j \in 1..PIPESIZE /\ Place(c, j) \in 0..PIPESIZE-1
  <2>1. j \in 1..PIPESIZE
    BY <1>3, PipeAssumption
  <2> QED
    BY <2>1, PlaceOf
<1>6. ASSUME NEW i \in DOMAIN bytes
      PROVE  Place(e, i) # Place(c, j)
  <2>1. i \in 1..PIPESIZE /\ h + i \in 1..PIPESIZE /\ h + i <= PIPESIZE
    BY <1>3, PipeAssumption DEF Room
  <2>2. Place(e, i) = Place(c, h + i)
    BY <1>3, <1>4, <2>1, PlaceAfter, Zenon
  <2>3. h + i # j
    BY <1>3, <2>1
  <2> QED
    BY <1>5, <2>1, <2>2, <2>3, PlacesDiffer
<1>7. PICK d : d = [i \in DOMAIN pipe[k].data |->
        LET J == {x \in DOMAIN bytes : Place(pipe[k].nwrite, x) = i}
        IN  IF J = {} THEN pipe[k].data[i] ELSE bytes[CHOOSE x \in J : TRUE]]
  OBVIOUS
<1>8. Store(k, bytes).data = d
  BY <1>7 DEF Store, PipeRec
<1>9. PICK i \in 0..PIPESIZE-1 : i = Place(c, j)
  BY <1>5
<1>10. {x \in DOMAIN bytes : Place(pipe[k].nwrite, x) = i} = {}
  BY <1>1, <1>6, <1>9
<1>11. d[i] = pipe[k].data[i]
  BY <1>2, <1>7, <1>10
<1> QED
  BY <1>1, <1>8, <1>9, <1>11

LEMMA FetchRemoves ==
  ASSUME NEW k \in Pipes, pipe[k] \in PipeRec, Held(k) <= PIPESIZE,
         NEW n \in Nat, n <= Held(k), NEW j \in 1..Held(k) - n
  PROVE  Fetch(k, n).data[Place((pipe[k].nread + n) % UINT, j)]
           = pipe[k].data[Place(pipe[k].nread, n + j)]
<1>1. PICK c \in 0..UINT-1 : c = pipe[k].nread
  BY PipeRecs
<1>2. /\ Held(k) \in 0..PIPESIZE /\ Held(k) = Gap(pipe[k])
      /\ pipe[k].data \in [0..PIPESIZE-1 -> Nat]
  <2>1. Held(k) = Gap(pipe[k])
    BY DEF Held, Gap
  <2>2. Gap(pipe[k]) \in Nat
    BY Gaps
  <2>3. pipe[k].data \in [0..PIPESIZE-1 -> Nat]
    BY PipeRecs
  <2> QED
    BY <2>1, <2>2, <2>3, PipeAssumption
<1>3. /\ n \in 0..PIPESIZE /\ j \in 1..PIPESIZE /\ n + j \in 1..PIPESIZE /\ n + j <= PIPESIZE
  BY <1>2, PipeAssumption
<1>4. Place((c + n) % UINT, j) = Place(c, n + j)
  BY <1>3, PlaceAfter
<1>5. PICK i \in 0..PIPESIZE-1 : i = Place(c, n + j)
  BY <1>3, PlaceOf
<1>6. ~ \E x \in 1..n : Place(c, x) = i
  <2> SUFFICES ASSUME NEW x \in 1..n
               PROVE  Place(c, x) # i
    OBVIOUS
  <2>1. x \in 1..PIPESIZE /\ x # n + j
    BY <1>3, PipeAssumption
  <2> QED
    BY <1>3, <1>5, <2>1, PlacesDiffer
<1>7. PICK d : d = [y \in DOMAIN pipe[k].data |->
        IF \E x \in 1..n : Place(pipe[k].nread, x) = y THEN Blank ELSE pipe[k].data[y]]
  OBVIOUS
<1>8. Fetch(k, n).data = d
  BY <1>7 DEF Fetch, PipeRec
<1>9. d[i] = pipe[k].data[i]
  BY <1>1, <1>2, <1>6, <1>7
<1> QED
  BY <1>1, <1>4, <1>5, <1>8, <1>9
-----------------------------------------------------------------------------
(***************************************************************************)
(* The steps of the streams, seen in the pipes.                            *)
(***************************************************************************)
Queues == [k \in Pipes |-> Unread(k)]
Hands(w) == [k \in Pipes |-> Holds(k, w)]

LEMMA Mapped ==
  /\ Streams!Nothing = Nothing
  /\ Hands(TRUE) = [k \in Pipes |-> Holds(k, TRUE)] /\ Hands(FALSE) = [k \in Pipes |-> Holds(k, FALSE)]
  /\ Hands(TRUE)' = [k \in Pipes |-> Holds(k, TRUE)'] /\ Hands(FALSE)' = [k \in Pipes |-> Holds(k, FALSE)']
  /\ Queues = [k \in Pipes |-> Unread(k)] /\ Queues' = [k \in Pipes |-> Unread(k)']
BY DEF Streams!Nothing, Nothing, Hands, Queues

HoldsSame == \A k \in Pipes, w \in BOOLEAN : Holds(k, w)' = Holds(k, w)
UnreadSame == \A k \in Pipes : Unread(k)' = Unread(k)

LEMMA Same ==
  /\ HoldsSame => Hands(TRUE)' = Hands(TRUE) /\ Hands(FALSE)' = Hands(FALSE)
  /\ UnreadSame => Queues' = Queues
BY DEF HoldsSame, UnreadSame, Hands, Queues

LEMMA OtherMaps ==
  ASSUME UnreadSame, HoldsSame, got' = Nothing
  PROVE  Streams!Next
<1>1. Streams!Other
  BY Same, Mapped DEF Streams!Other
<1> QED
  BY <1>1 DEF Streams!Next

LEMMA HangupMaps ==
  ASSUME UnreadSame, NEW h \in Pipes, NEW x \in BOOLEAN, Holds(h, x)' = FALSE,
         \A k \in Pipes, w \in BOOLEAN : k # h \/ w # x => Holds(k, w)' = Holds(k, w),
         got' = Nothing
  PROVE  Streams!Next
<1>1. Queues' = Queues
  BY Same
<1>2. CASE x
  <2>1. Hands(TRUE)' = [Hands(TRUE) EXCEPT ![h] = FALSE] /\ Hands(FALSE)' = Hands(FALSE)
    BY <1>2 DEF Hands
  <2> QED
    BY <1>1, <2>1, Mapped DEF Streams!Hangup, Streams!Next
<1>3. CASE ~x
  <2>1. Hands(FALSE)' = [Hands(FALSE) EXCEPT ![h] = FALSE] /\ Hands(TRUE)' = Hands(TRUE)
    BY <1>3 DEF Hands
  <2> QED
    BY <1>1, <2>1, Mapped DEF Streams!Hangup, Streams!Next
<1> QED
  BY <1>2, <1>3

LEMMA MakeMaps ==
  ASSUME UnreadSame, NEW h \in Pipes, Unread(h) = <<>>,
         ~Holds(h, TRUE), ~Holds(h, FALSE), Holds(h, TRUE)', Holds(h, FALSE)',
         \A k \in Pipes \ {h}, w \in BOOLEAN : Holds(k, w)' = Holds(k, w),
         got' = Nothing
  PROVE  Streams!Next
<1>1. Queues' = Queues /\ Queues[h] = <<>>
  BY Same DEF Queues
<1>2. Holds(h, TRUE)' = TRUE /\ Holds(h, FALSE)' = TRUE
  BY DEF Holds
<1>3. /\ Hands(TRUE)' = [Hands(TRUE) EXCEPT ![h] = TRUE]
      /\ Hands(FALSE)' = [Hands(FALSE) EXCEPT ![h] = TRUE]
      /\ ~Hands(TRUE)[h] /\ ~Hands(FALSE)[h]
  BY <1>2 DEF Hands
<1>4. Streams!Make(h)
  BY <1>1, <1>3, Mapped DEF Streams!Make, Streams!Unused
<1> QED
  BY <1>4 DEF Streams!Next

LEMMA DropMaps ==
  ASSUME HoldsSame, NEW h \in Pipes, ~Holds(h, TRUE), ~Holds(h, FALSE), Unread(h)' = <<>>,
         \A k \in Pipes \ {h} : Unread(k)' = Unread(k),
         got' = Nothing
  PROVE  Streams!Next
<1>1. Queues' = [Queues EXCEPT ![h] = <<>>]
  BY DEF Queues
<1>2. ~Hands(TRUE)[h] /\ ~Hands(FALSE)[h]
  BY DEF Hands
<1>3. Streams!Drop(h)
  BY <1>1, <1>2, Same, Mapped DEF Streams!Drop, Streams!Unused
<1> QED
  BY <1>3 DEF Streams!Next

LEMMA PutMaps ==
  ASSUME HoldsSame, NEW h \in Pipes, Holds(h, TRUE),
         \A k \in Pipes \ {h} : Unread(k)' = Unread(k),
         Len(Unread(h)') \in Len(Unread(h)) + 1 .. PIPESIZE,
         \A j \in 1..Len(Unread(h)') :
           IF j <= Len(Unread(h)) THEN Unread(h)'[j] = Unread(h)[j] ELSE Unread(h)'[j] \in Nat,
         got' = Nothing
  PROVE  Streams!Next
<1>1. Queues[h] = Unread(h) /\ Queues'[h] = Unread(h)' /\ Queues' = [Queues EXCEPT ![h] = Unread(h)']
  BY DEF Queues
<1>2. Hands(TRUE)[h]
  BY DEF Hands
<1>3. Streams!Put(h)
  BY <1>1, <1>2, Same, Mapped DEF Streams!Put
<1> QED
  BY <1>3 DEF Streams!Next

LEMMA GetMaps ==
  ASSUME HoldsSame, NEW h \in Pipes, NEW p \in Procs, Holds(h, FALSE),
         \A k \in Pipes \ {h} : Unread(k)' = Unread(k),
         NEW n \in 1..Len(Unread(h)), Unread(h)' = SubSeq(Unread(h), n + 1, Len(Unread(h))),
         got' = [to |-> p, bytes |-> SubSeq(Unread(h), 1, n)]
  PROVE  Streams!Next
<1>1. Queues[h] = Unread(h) /\ Queues' = [Queues EXCEPT ![h] = Unread(h)']
  BY DEF Queues
<1>2. Hands(FALSE)[h]
  BY DEF Hands
<1>3. Queues' = [Queues EXCEPT ![h] = SubSeq(Queues[h], n + 1, Len(Queues[h]))]
  BY <1>1
<1>4. Streams!Get(p, h)
  BY <1>1, <1>2, <1>3, Same, Mapped DEF Streams!Get
<1> QED
  BY <1>4 DEF Streams!Next

LEMMA EndMaps ==
  ASSUME UnreadSame, HoldsSame, NEW h \in Pipes, NEW p \in Procs,
         Unread(h) = <<>>, ~Holds(h, TRUE), Holds(h, FALSE),
         got' = [to |-> p, bytes |-> <<>>]
  PROVE  Streams!Next
<1>1. Queues[h] = <<>> /\ ~Hands(TRUE)[h] /\ Hands(FALSE)[h]
  BY DEF Queues, Hands
<1>2. Streams!End(p, h)
  BY <1>1, Same, Mapped DEF Streams!End
<1> QED
  BY <1>2 DEF Streams!Next
-----------------------------------------------------------------------------
(***************************************************************************)
(* Steps that leave the bytes alone: at most a write end is closed.        *)
(***************************************************************************)
FileMoves ==
  \E g \in Files : /\ \A f \in Files \ {g} : SameKind(f)
                   /\ SameKind(g) \/ file'[g].type # "pipe"

LEMMA FileMoved ==
  ASSUME Typed
  PROVE  /\ UNCHANGED file => FileMoves
         /\ \A f \in Files, n \in Nat : file' = [file EXCEPT ![f].ref = n] => FileMoves
         /\ \A f \in Files, r \in FileRec :
              file' = [file EXCEPT ![f] = r] /\ r.type # "pipe" => FileMoves
<1>1. file \in [Files -> FileRec] /\ \E g \in Files : TRUE
  BY OpenFilesAssumption DEF Typed
<1>2. UNCHANGED file => FileMoves
  BY <1>1 DEF FileMoves, SameKind
<1>3. ASSUME NEW f \in Files, NEW n \in Nat, file' = [file EXCEPT ![f].ref = n]
      PROVE  FileMoves
  <2>1. file'[f] = [file[f] EXCEPT !.ref = n] /\ \A g \in Files \ {f} : file'[g] = file[g]
    BY <1>1, <1>3
  <2>2. SameKind(f)
    BY <1>1, <2>1, FileRecs DEF SameKind
  <2> QED
    BY <2>1, <2>2 DEF FileMoves, SameKind
<1>4. ASSUME NEW f \in Files, NEW r \in FileRec, file' = [file EXCEPT ![f] = r], r.type # "pipe"
      PROVE  FileMoves
  <2>1. file'[f] = r /\ \A g \in Files \ {f} : file'[g] = file[g]
    BY <1>1, <1>4
  <2> QED
    BY <1>4, <2>1 DEF FileMoves, SameKind
<1> QED
  BY <1>2, <1>3, <1>4

LEMMA FilecloseMoves ==
  ASSUME Typed, NEW p \in Procs, NEW f \in Files, NEW rest, Fileclose(p, f, rest)
  PROVE  FileMoves
<1>1. file \in [Files -> FileRec] /\ file[f].ref \in Nat
  BY FileRecs DEF Typed
<1>2. CASE file[f].ref < 1
  BY <1>2, FileMoved DEF Fileclose
<1>3. CASE file[f].ref = 1
  <2>1. file' = [file EXCEPT ![f] = NoneFile]
    BY <1>1, <1>3 DEF Fileclose, DropRef
  <2> QED
    BY <2>1, FileMoved, FileRecs
<1>4. CASE file[f].ref > 1
  <2>1. PICK n \in Nat : n = file[f].ref - 1
    BY <1>1, <1>4
  <2>2. file' = [file EXCEPT ![f].ref = n]
    BY <1>1, <1>4, <2>1 DEF Fileclose, DropRef
  <2> QED
    BY <2>2, FileMoved
<1> QED
  BY <1>1, <1>2, <1>3, <1>4

LEMMA OneOwner ==
  ASSUME PipesInv, NEW k \in Pipes, NEW f \in Files, NEW g \in Files,
         NEW w \in BOOLEAN,
         IsEnd(f, w), file[f].pipe = k, IsEnd(g, w), file[g].pipe = k
  PROVE  f = g
<1> DEFINE S == {h \in Files : IsEnd(h, w) /\ file[h].pipe = k}
           P == {q \in Procs : AnEnd(k, w) \in ToSet(work[q])}
<1>1. Owners(k, w) = Cardinality(S) + Cardinality(P)
  BY DEF Owners
<1>2. IsFiniteSet(S) /\ IsFiniteSet(P) /\ f \in S /\ g \in S
  BY Finite, FS_Subset
<1> HIDE DEF S, P
<1>3. Cardinality(P) \in Nat /\ Cardinality(S) \in Nat
  BY <1>2, FS_CardinalityType
<1>4. f # g => Cardinality(S) >= 2
  <2> SUFFICES ASSUME f # g
               PROVE  Cardinality(S) >= 2
    OBVIOUS
  <2>1. Cardinality({f, g}) = 2
    <3>1. IsFiniteSet({g}) /\ Cardinality({g}) = 1 /\ {f, g} = {g} \cup {f} /\ f \notin {g}
      BY FS_Singleton
    <3>2. Cardinality({g} \cup {f}) = Cardinality({g}) + 1
      BY <3>1, FS_AddElement
    <3> QED
      BY <3>1, <3>2
  <2>2. {f, g} \subseteq S
    BY <1>2
  <2>3. Cardinality({f, g}) <= Cardinality(S)
    BY <1>2, <2>2, FS_Subset
  <2> QED
    BY <1>3, <2>1, <2>3
<1>5. Owners(k, w) = One(Flag(k, w))
  BY DEF PipesInv, Ends
<1>6. One(Flag(k, w)) \in 0..1
  BY DEF One
<1>7. PICK a \in Nat, b \in Nat : a = Cardinality(S) /\ b = Cardinality(P)
  BY <1>3
<1>8. a + b \in 0..1 /\ (f # g => a >= 2)
  BY <1>1, <1>4, <1>5, <1>6, <1>7, Zenon
<1> QED
  BY <1>7, <1>8

\* The file of an end is freed: it was the only one.
LEMMA EndGone ==
  ASSUME FilesInv, PipesInv, NEW g \in Files, NEW x \in BOOLEAN, IsEnd(g, x),
         file'[g].type # "pipe", UnreadSame, got' = Nothing,
         \A f \in Files \ {g} : SameKind(f),
         \A f \in Files : SameKind(f) => \A k \in Pipes, w \in BOOLEAN :
           (IsEnd(f, w) /\ file[f].pipe = k)' <=> (IsEnd(f, w) /\ file[f].pipe = k)
  PROVE  Streams!Next
<1>1. PICK h \in Pipes : h = file[g].pipe
  BY FileRecs DEF FilesInv, Typed, IsEnd
<1>2. \A k \in Pipes, w \in BOOLEAN : k # h \/ w # x => Holds(k, w)' = Holds(k, w)
  BY <1>1 DEF Holds, IsEnd
<1>3. ASSUME NEW f \in Files, IsEnd(f, x)', file'[f].pipe = h
      PROVE  FALSE
  <2>1. f # g
    BY <1>3 DEF IsEnd
  <2>2. IsEnd(f, x) /\ file[f].pipe = h
    BY <1>3, <2>1
  <2> QED
    BY <1>1, <2>1, <2>2, OneOwner
<1>4. Holds(h, x)' = FALSE
  BY <1>3 DEF Holds
<1> QED
  BY <1>2, <1>4, HangupMaps

LEMMA QuietMaps ==
  ASSUME FilesInv, PipesInv, FileMoves, UNCHANGED pipe, got' = Nothing
  PROVE  Streams!Next
<1>1. UnreadSame
  BY DEF UnreadSame, Unread, Held
<1>2. PICK g \in Files : /\ \A f \in Files \ {g} : SameKind(f)
                         /\ SameKind(g) \/ file'[g].type # "pipe"
  BY DEF FileMoves
<1>3. \A f \in Files : SameKind(f) => \A k \in Pipes, w \in BOOLEAN :
        (IsEnd(f, w) /\ file[f].pipe = k)' <=> (IsEnd(f, w) /\ file[f].pipe = k)
  BY DEF SameKind, IsEnd
<1>4. CASE SameKind(g)
  <2>1. HoldsSame
    BY <1>2, <1>3, <1>4 DEF Holds, HoldsSame
  <2> QED
    BY <1>1, <2>1, OtherMaps
<1>5. CASE file'[g].type # "pipe" /\ IsEnd(g, TRUE)
  BY <1>1, <1>2, <1>3, <1>5, EndGone
<1>6. CASE file'[g].type # "pipe" /\ IsEnd(g, FALSE)
  BY <1>1, <1>2, <1>3, <1>6, EndGone
<1>7. CASE file'[g].type # "pipe" /\ \A w \in BOOLEAN : ~IsEnd(g, w)
  <2>1. HoldsSame
    BY <1>2, <1>3, <1>7 DEF Holds, HoldsSame, IsEnd
  <2> QED
    BY <1>1, <2>1, OtherMaps
<1> QED
  BY <1>2, <1>4, <1>5, <1>6, <1>7

LEMMA CallsMap ==
  ASSUME FilesInv, PipesInv, NEW p \in Procs,
         \/ fileclose(p) \/ iput(p) \/ OpenFile(p) \/ PipeWriteEnd(p)
         \/ ForkFile(p) \/ ForkDone(p) \/ ExitFile(p) \/ ExitDone(p)
         \/ sys_open(p) \/ sys_pipe(p) \/ fork(p) \/ exit(p) \/ Kill(p)
         \/ \E fd \in Fds :
              sys_dup(p, fd) \/ sys_close(p, fd) \/ sys_write(p, fd) \/ sys_read(p, fd)
  PROVE  FileMoves /\ UNCHANGED pipe /\ got' = Nothing
<1>1. UNCHANGED pipe /\ got' = Nothing
  BY DEF fileclose, iput, OpenFile, PipeWriteEnd, ForkFile, ForkDone, ExitFile, ExitDone,
         sys_open, sys_pipe, fork, exit, Kill, kill, sys_dup, sys_close, sys_write, sys_read,
         PipesSame, pipeVars
<1> SUFFICES FileMoves
  BY <1>1, Zenon
<1>2. Typed /\ file \in [Files -> FileRec] /\ ofile \in [Procs -> [Fds -> Files \cup {NoFile}]]
      /\ pc \in [Procs -> Pcs]
  BY DEF FilesInv, Typed
<1>3. \A f \in Files : file' = NewFile(f) => FileMoves
  BY <1>2, FileMoved DEF NewFile
<1>4. \A f \in Files : file' = filedup(f) => FileMoves
  <2> SUFFICES ASSUME NEW f \in Files, file' = filedup(f)
               PROVE  FileMoves
    OBVIOUS
  <2>1. PICK n \in Nat : n = file[f].ref + 1
    BY <1>2, FileRecs
  <2>2. file' = [file EXCEPT ![f].ref = n]
    BY <1>2, <2>1 DEF filedup
  <2> QED
    BY <1>2, <2>2, FileMoved
<1>5. UNCHANGED file => FileMoves
  BY <1>2, FileMoved
<1>6. CASE \/ iput(p) \/ ForkDone(p) \/ ExitDone(p) \/ sys_open(p) \/ fork(p) \/ exit(p) \/ Kill(p)
           \/ \E fd \in Fds : sys_write(p, fd) \/ sys_read(p, fd)
  <2>1. UNCHANGED file
    BY <1>6 DEF iput, ForkDone, ExitDone, sys_open, fork, exit, Kill, sys_write, sys_read, fileVars
  <2> QED
    BY <1>5, <2>1
<1>7. CASE fileclose(p)
  <2>1. /\ work[p] # <<>> /\ Head(work[p]).is = "file"
        /\ Fileclose(p, Head(work[p]).file, Tail(work[p]))
    BY <1>7 DEF fileclose
  <2>2. Head(work[p]).file \in Files
    BY <2>1, AtHead
  <2> QED
    BY <1>2, <2>1, <2>2, FilecloseMoves
<1>8. CASE OpenFile(p) \/ PipeWriteEnd(p) \/ sys_pipe(p)
  <2>1. FreeFiles # {} => Lowest(FreeFiles) \in Files
    BY <1>2, FreeFile
  <2>2. CASE UNCHANGED file
    BY <1>5, <2>2
  <2>3. CASE FreeFiles # {} /\ file' = NewFile(Lowest(FreeFiles))
    BY <1>3, <2>1, <2>3
  <2>4. CASE FreeFiles # {} /\ file' = [file EXCEPT ![Lowest(FreeFiles)] = [ref |-> 1, type |-> "inode"]]
    <3>1. PICK r \in FileRec : r = [ref |-> 1, type |-> "inode"]
      BY FileRecs
    <3> QED
      BY <1>2, <2>1, <2>4, <3>1, FileMoved
  <2> QED
    BY <1>8, <2>2, <2>3, <2>4 DEF OpenFile, PipeWriteEnd, sys_pipe
<1>9. CASE ForkFile(p)
  <2>1. PICK q : q = pc[p].child
    OBVIOUS
  <2>2. /\ pc[p].at = "fork" /\ ToCopy(p, q) # {}
        /\ file' = filedup(ofile[p][Lowest(ToCopy(p, q))])
    BY <1>9, <2>1 DEF ForkFile, In
  <2>3. Lowest(ToCopy(p, q)) \in ToCopy(p, q)
    <3>1. ToCopy(p, q) \in SUBSET Nat
      BY FdsHasZero DEF ToCopy
    <3> QED
      BY <2>2, <3>1, LowestIs
  <2>4. ofile[p][Lowest(ToCopy(p, q))] \in Files
    BY <1>2, <2>3 DEF ToCopy
  <2> QED
    BY <1>4, <2>2, <2>4
<1>10. CASE ExitFile(p)
  <2>1. PICK d : d = Lowest(Fds \ FreeFds(p))
    OBVIOUS
  <2>2. FreeFds(p) # Fds /\ Fileclose(p, ofile[p][d], <<>>)
    BY <1>10, <2>1 DEF ExitFile
  <2>3. d \in Fds \ FreeFds(p)
    <3>1. Fds \ FreeFds(p) \in SUBSET Nat /\ Fds \ FreeFds(p) # {}
      BY <2>2, FdsHasZero DEF FreeFds
    <3> QED
      BY <2>1, <3>1, LowestIs
  <2>4. ofile[p][d] \in Files
    BY <1>2, <2>3 DEF FreeFds
  <2> QED
    BY <1>2, <2>2, <2>4, FilecloseMoves
<1>11. ASSUME NEW fd \in Fds, sys_dup(p, fd)
       PROVE  FileMoves
  <2>1. UNCHANGED file \/ file' = filedup(ofile[p][fd])
    BY <1>11 DEF sys_dup
  <2>2. ofile[p][fd] \in Files
    BY <1>2, <1>11 DEF sys_dup
  <2> QED
    BY <1>4, <1>5, <2>1, <2>2
<1>12. ASSUME NEW fd \in Fds, sys_close(p, fd)
       PROVE  FileMoves
  <2>1. ofile[p][fd] \in Files /\ Fileclose(p, ofile[p][fd], <<>>)
    BY <1>2, <1>12 DEF sys_close
  <2> QED
    BY <1>2, <2>1, FilecloseMoves
<1> QED
  BY <1>1, <1>6, <1>7, <1>8, <1>9, <1>10, <1>11, <1>12
-----------------------------------------------------------------------------
(***************************************************************************)
(* Ends and bytes, before and after a step.                                *)
(***************************************************************************)
LEMMA HoldsOpen ==
  ASSUME PipesInv, NEW k \in Pipes, NEW w \in BOOLEAN, Holds(k, w)
  PROVE  Flag(k, w) /\ \A p \in Procs : ~EndIn(p, k, w)
<1> DEFINE S == {f \in Files : IsEnd(f, w) /\ file[f].pipe = k}
           P == {q \in Procs : AnEnd(k, w) \in ToSet(work[q])}
<1>1. Owners(k, w) = Cardinality(S) + Cardinality(P) /\ Owners(k, w) = One(Flag(k, w))
  BY DEF Owners, PipesInv, Ends
<1>2. /\ IsFiniteSet(S) /\ IsFiniteSet(P) /\ S # {}
      /\ \A p \in Procs : EndIn(p, k, w) => p \in P
  BY Finite, FS_Subset DEF Holds, EndIn
<1> HIDE DEF S, P
<1>3. /\ Cardinality(S) \in Nat /\ Cardinality(S) >= 1
      /\ Cardinality(P) \in Nat /\ \A p : p \in P => Cardinality(P) >= 1
  BY <1>2, AtLeast
<1>4. One(Flag(k, w)) \in 0..1 /\ (One(Flag(k, w)) = 1 => Flag(k, w))
  BY DEF One
<1>5. One(Flag(k, w)) = 1 /\ Cardinality(P) = 0
  BY <1>1, <1>3, <1>4
<1> QED
  BY <1>2, <1>3, <1>4, <1>5

LEMMA TransferHolds ==
  ASSUME FilesInv, PipesInv, NEW p \in Procs, NEW k \in Pipes, NEW w \in BOOLEAN, On(p, k, w)
  PROVE  Holds(k, w)
<1>1. xfer[p] # NoXfer /\ xfer[p].pipe = k /\ (xfer[p].at = "write") = w
  BY DEF On, NoXfer
<1>2. PICK fd \in Fds : IsEnd(ofile[p][fd], w) /\ file[ofile[p][fd]].pipe = k
  BY <1>1 DEF PipesInv, Transfer
<1>3. ofile[p][fd] \in Files
  BY <1>2 DEF IsEnd, FilesInv, Typed
<1> QED
  BY <1>2, <1>3 DEF Holds

LEMMA BytesAre ==
  ASSUME NEW r \in PipeRec, Gap(r) <= PIPESIZE
  PROVE  /\ BytesOf(r) \in Seq(Nat) /\ Len(BytesOf(r)) = Gap(r) /\ Gap(r) \in 0..PIPESIZE
         /\ \A j \in 1..Gap(r) : BytesOf(r)[j] = r.data[Place(r.nread, j)]
<1>1. PICK h \in 0..PIPESIZE : h = Gap(r)
  BY Gaps
<1>2. r.nread \in 0..UINT-1 /\ r.data \in [0..PIPESIZE-1 -> Nat]
  BY PipeRecs
<1>3. BytesOf(r) = [j \in 1..h |-> r.data[Place(r.nread, j)]]
  BY <1>1 DEF BytesOf
<1>4. \A j \in 1..h : r.data[Place(r.nread, j)] \in Nat
  <2> TAKE j \in 1..h
  <2>1. j \in 1..PIPESIZE
    BY PipeAssumption
  <2>2. Place(r.nread, j) \in 0..PIPESIZE-1
    BY <1>2, <2>1, PlaceOf
  <2> QED
    BY <1>2, <2>2
<1>5. h \in Nat
  BY PipeAssumption
<1>6. BytesOf(r) \in [1..h -> Nat]
  BY <1>3, <1>4
<1>7. BytesOf(r) \in Seq(Nat) /\ Len(BytesOf(r)) = h
  BY <1>5, <1>6
<1> QED
  BY <1>1, <1>3, <1>7

LEMMA UnreadIs ==
  /\ \A k \in Pipes : pipe[k] \in PipeRec => Unread(k) = BytesOf(pipe[k])
  /\ \A k \in Pipes : pipe'[k] \in PipeRec => Unread(k)' = BytesOf(pipe'[k])
  /\ \A k \in Pipes : ~pipe[k].alloc => Unread(k) = <<>>
  /\ \A k \in Pipes : ~pipe'[k].alloc => Unread(k)' = <<>>
  /\ \A k \in Pipes : pipe'[k] = pipe[k] => Unread(k)' = Unread(k)
<1>1. \A k \in Pipes : pipe[k] \in PipeRec => Unread(k) = BytesOf(pipe[k])
  BY PipeRecs DEF Unread, Held, BytesOf, Gap
<1>2. \A k \in Pipes : pipe'[k] \in PipeRec => Unread(k)' = BytesOf(pipe'[k])
  BY PipeRecs DEF Unread, Held, BytesOf, Gap
<1>3. \A k \in Pipes : ~pipe[k].alloc => Unread(k) = <<>>
  BY DEF Unread
<1>4. \A k \in Pipes : ~pipe'[k].alloc => Unread(k)' = <<>>
  BY DEF Unread
<1>5. \A k \in Pipes : pipe'[k] = pipe[k] => Unread(k)' = Unread(k)
  BY DEF Unread, Held
<1> QED
  BY <1>1, <1>2, <1>3, <1>4, <1>5

LEMMA SameBytes ==
  ASSUME NEW s \in Seq(Nat), NEW t \in Seq(Nat), Len(s) = Len(t),
         \A j \in 1..Len(s) : s[j] = t[j]
  PROVE  s = t
<1>1. s = [j \in 1..Len(s) |-> s[j]] /\ t = [j \in 1..Len(s) |-> t[j]]
  OBVIOUS
<1> QED
  BY <1>1

LEMMA NoBytes ==
  ASSUME NEW r \in PipeRec, Gap(r) = 0
  PROVE  BytesOf(r) = <<>>
<1>1. BytesOf(r) \in Seq(Nat) /\ Len(BytesOf(r)) = 0
  BY BytesAre, PipeAssumption
<1> QED
  BY <1>1

LEMMA BytesStored ==
  ASSUME NEW k \in Pipes, pipe[k] \in PipeRec, Held(k) <= PIPESIZE,
         NEW bytes \in Seq(Nat), Len(bytes) <= Room(k), NEW r, r = Store(k, bytes)
  PROVE  /\ BytesOf(r) \in Seq(Nat) /\ BytesOf(pipe[k]) \in Seq(Nat)
         /\ Len(BytesOf(r)) = Len(BytesOf(pipe[k])) + Len(bytes) /\ Len(BytesOf(r)) <= PIPESIZE
         /\ \A j \in 1..Len(BytesOf(pipe[k])) : BytesOf(r)[j] = BytesOf(pipe[k])[j]
<1>1. /\ r \in PipeRec /\ r.nread = pipe[k].nread
      /\ Gap(r) = Held(k) + Len(bytes)
  BY Stored
<1>2. Held(k) = Gap(pipe[k])
  BY DEF Held, Gap
<1>3. /\ BytesOf(pipe[k]) \in Seq(Nat) /\ Len(BytesOf(pipe[k])) = Held(k) /\ Held(k) \in 0..PIPESIZE
      /\ \A j \in 1..Held(k) : BytesOf(pipe[k])[j] = pipe[k].data[Place(pipe[k].nread, j)]
  BY <1>2, BytesAre
<1>4. PICK n \in Nat : n = Len(bytes)
  OBVIOUS
<1>5. Gap(r) <= PIPESIZE /\ Held(k) + n <= PIPESIZE
  BY <1>1, <1>3, <1>4, PipeAssumption DEF Room
<1>6. /\ BytesOf(r) \in Seq(Nat) /\ Len(BytesOf(r)) = Held(k) + n
      /\ \A j \in 1..Held(k) + n : BytesOf(r)[j] = r.data[Place(r.nread, j)]
  BY <1>1, <1>4, <1>5, BytesAre
<1>7. ASSUME NEW j \in 1..Held(k)
      PROVE  BytesOf(r)[j] = BytesOf(pipe[k])[j]
  <2>1. j \in 1..Held(k) + n
    BY <1>3, <1>4
  <2>2. r.data[Place(pipe[k].nread, j)] = pipe[k].data[Place(pipe[k].nread, j)]
    BY StoreAppends
  <2> QED
    BY <1>1, <1>3, <1>6, <2>1, <2>2
<1> QED
  BY <1>3, <1>4, <1>5, <1>6, <1>7

LEMMA BytesFetched ==
  ASSUME NEW k \in Pipes, pipe[k] \in PipeRec, Held(k) <= PIPESIZE,
         NEW n \in Nat, n <= Held(k), NEW r, r = Fetch(k, n), NEW s, s = BytesOf(pipe[k])
  PROVE  BytesOf(r) = SubSeq(s, n + 1, Len(s))
<1>1. /\ r \in PipeRec /\ r.nread = (pipe[k].nread + n) % UINT
      /\ Gap(r) = Held(k) - n
  BY Fetched
<1>2. Held(k) = Gap(pipe[k])
  BY DEF Held, Gap
<1>3. /\ s \in Seq(Nat) /\ Len(s) = Held(k) /\ Held(k) \in 0..PIPESIZE
      /\ \A j \in 1..Held(k) : s[j] = pipe[k].data[Place(pipe[k].nread, j)]
  BY <1>2, BytesAre
<1>4. Gap(r) <= PIPESIZE
  BY <1>1, <1>3, PipeAssumption
<1>5. /\ BytesOf(r) \in Seq(Nat) /\ Len(BytesOf(r)) = Held(k) - n
      /\ \A j \in 1..Held(k) - n : BytesOf(r)[j] = r.data[Place(r.nread, j)]
  BY <1>1, <1>4, BytesAre
<1>6. PICK t : t = SubSeq(s, n + 1, Len(s))
  OBVIOUS
<1>7. /\ t \in Seq(Nat) /\ Len(t) = Held(k) - n
      /\ \A j \in 1..Held(k) - n : t[j] = s[n + j]
  BY <1>3, <1>6
<1>8. ASSUME NEW j \in 1..Held(k) - n
      PROVE  BytesOf(r)[j] = t[j]
  <2>1. n + j \in 1..Held(k)
    BY <1>3
  <2>2. r.data[Place((pipe[k].nread + n) % UINT, j)] = pipe[k].data[Place(pipe[k].nread, n + j)]
    BY FetchRemoves
  <2> QED
    BY <1>1, <1>3, <1>5, <1>7, <2>1, <2>2
<1>9. BytesOf(r) = t
  BY <1>5, <1>7, <1>8, SameBytes
<1> QED
  BY <1>6, <1>9
-----------------------------------------------------------------------------
(***************************************************************************)
(* The steps of the pipes.                                                 *)
(***************************************************************************)
LEMMA CloseEndMaps ==
  ASSUME FilesInv, PipesInv, NEW p \in Procs, CloseEnd(p)
  PROVE  Streams!Next
<1>1. UNCHANGED file /\ got' = Nothing
  BY DEF CloseEnd, pipeclose
<1>2. PICK k \in Pipes, w \in BOOLEAN : EndIn(p, k, w) /\ EndClosed(k, w)
  BY CloseEndStep
<1>3. HoldsSame
  BY <1>1 DEF HoldsSame, Holds, IsEnd
<1>4. /\ pipe' = [pipe EXCEPT ![k] =
           IF OtherEndClosed(k, w) THEN NoPipe
           ELSE IF w THEN [pipe[k] EXCEPT !.writeopen = FALSE]
                     ELSE [pipe[k] EXCEPT !.readopen = FALSE]]
      /\ pipe \in [Pipes -> {NoPipe} \cup PipeRec]
  BY <1>2 DEF EndClosed, pipeclose, PipesInv, PipeTyped
<1>5. \A l \in Pipes \ {k} : pipe'[l] = pipe[l]
  BY <1>4
<1>6. CASE OtherEndClosed(k, w)
  <2>1. ~pipe'[k].alloc
    BY <1>4, <1>6, PipeRecs
  <2>2. ~Holds(k, w)
    BY <1>2, HoldsOpen
  <2>3. \A x \in BOOLEAN : x # w => ~Holds(k, x)
    BY <1>6, HoldsOpen DEF Flag, OtherEndClosed
  <2>4. ~Holds(k, TRUE) /\ ~Holds(k, FALSE)
    BY <2>2, <2>3
  <2>5. Unread(k)' = <<>> /\ \A l \in Pipes \ {k} : Unread(l)' = Unread(l)
    BY <1>5, <2>1, UnreadIs
  <2> QED
    BY <1>1, <1>3, <2>4, <2>5, DropMaps
<1>7. CASE ~OtherEndClosed(k, w)
  <2>1. /\ pipe'[k].alloc = pipe[k].alloc /\ pipe'[k].nread = pipe[k].nread
        /\ pipe'[k].nwrite = pipe[k].nwrite /\ pipe'[k].data = pipe[k].data
    BY <1>4, <1>7 DEF PipeRec, NoPipe
  <2>2. Unread(k)' = Unread(k)
    BY <2>1 DEF Unread, Held
  <2>3. UnreadSame
    BY <1>5, <2>2, UnreadIs DEF UnreadSame
  <2> QED
    BY <1>1, <1>3, <2>3, OtherMaps
<1> QED
  BY <1>6, <1>7

LEMMA PipePageMaps ==
  ASSUME FilesInv, PipesInv, NEW p \in Procs, PipePage(p)
  PROVE  Streams!Next
<1>1. /\ pc[p].at = "pipe" /\ work[p] = <<>> /\ pc[p].wf # NoFile /\ got' = Nothing
  BY DEF PipePage, In
<1>2. Typed /\ Call(p) /\ pc[p] \in Pcs /\ pipe \in [Pipes -> {NoPipe} \cup PipeRec]
  BY PcKinds DEF FilesInv, Typed, PipesInv, PipeTyped
<1>3. PICK f \in Files, g \in Files :
        f = pc[p].rf /\ g = pc[p].wf /\ Fresh(f) /\ Fresh(g) /\ f # g
  BY <1>1, <1>2, PcKinds DEF Call
<1>4. CASE UNCHANGED <<file, pipe>>
  BY <1>1, <1>2, <1>4, FileMoved, QuietMaps
<1>5. ASSUME NEW k \in Pipes, ~pipe[k].alloc,
             pipe' = [pipe EXCEPT ![k] = NewPipe],
             file' = [file EXCEPT ![f] = PipeEnd(k, FALSE), ![g] = PipeEnd(k, TRUE)]
      PROVE  Streams!Next
  <2>1. /\ file'[f] = PipeEnd(k, FALSE) /\ file'[g] = PipeEnd(k, TRUE)
        /\ \A h \in Files \ {f, g} : file'[h] = file[h]
    BY <1>2, <1>3, <1>5 DEF Typed
  <2>2. file[f].type = "none" /\ file[g].type = "none" /\ f # NoFile /\ g # NoFile
    BY <1>3, OpenFilesAssumption DEF Fresh, NoFile
  <2>3. \A w \in BOOLEAN : ~Holds(k, w)
    BY <1>5, HoldsOpen DEF Flag
  <2>4. /\ IsEnd(f, FALSE)' /\ file'[f].pipe = k
        /\ IsEnd(g, TRUE)' /\ file'[g].pipe = k
    BY <2>1, <2>2 DEF IsEnd, PipeEnd
  <2>5. Holds(k, TRUE)' /\ Holds(k, FALSE)'
    BY <2>4 DEF Holds
  <2>6. \A l \in Pipes \ {k}, w \in BOOLEAN : Holds(l, w)' = Holds(l, w)
    <3>1. \A h \in Files : \A l \in Pipes \ {k}, w \in BOOLEAN :
            (IsEnd(h, w) /\ file[h].pipe = l)' <=> (IsEnd(h, w) /\ file[h].pipe = l)
      <4> TAKE h \in Files
      <4>1. CASE h = f \/ h = g
        BY <2>2, <2>4, <4>1 DEF IsEnd
      <4>2. CASE h # f /\ h # g
        BY <2>1, <4>2 DEF IsEnd
      <4> QED
        BY <4>1, <4>2
    <3> QED
      BY <3>1 DEF Holds
  <2>7. Unread(k) = <<>>
    BY <1>5, UnreadIs
  <2>8. UnreadSame
    <3>1. pipe'[k] = NewPipe /\ \A l \in Pipes \ {k} : pipe'[l] = pipe[l]
      BY <1>2, <1>5
    <3>2. Gap(NewPipe) = 0
      BY PipeRecs, Gaps
    <3>3. Unread(k)' = <<>>
      BY <3>1, <3>2, PipeRecs, UnreadIs, NoBytes
    <3> QED
      BY <2>7, <3>1, <3>3, UnreadIs DEF UnreadSame
  <2> QED
    BY <1>1, <2>3, <2>5, <2>6, <2>7, <2>8, MakeMaps
<1> QED
  BY <1>3, <1>4, <1>5 DEF PipePage

LEMMA pipewriteMaps ==
  ASSUME FilesInv, PipesInv, NEW p \in Procs, NEW k \in Pipes, UNCHANGED fileVars, pipewrite(p, k)
  PROVE  Streams!Next
<1>1. On(p, k, TRUE) /\ got' = Nothing /\ UNCHANGED file
  BY DEF pipewrite, InPipe, On, fileVars
<1>2. pipe[k] \in PipeRec /\ Held(k) <= PIPESIZE /\ Holds(k, TRUE)
  <2>1. pipe[k] \in PipeRec /\ Held(k) \in 0..PIPESIZE
    BY <1>1, AtWork
  <2>2. Held(k) <= PIPESIZE
    BY <2>1, PipeAssumption
  <2>3. Holds(k, TRUE)
    BY <1>1, TransferHolds
  <2> QED
    BY <2>1, <2>2, <2>3
<1>3. PICK mine \in Seq(Nat), rest \in Seq(Nat) : Stores(p, k, mine, rest)
  BY Parts
<1>4. HoldsSame
  BY <1>1 DEF HoldsSame, Holds, IsEnd
<1>5. PICK r : r = Store(k, mine)
  OBVIOUS
<1>6. /\ Len(mine) <= Room(k) /\ pipe'[k] = r
      /\ \A l \in Pipes \ {k} : pipe'[l] = pipe[l]
  BY <1>3, <1>5 DEF Stores, PipesInv, PipeTyped
<1>7. r \in PipeRec
  BY <1>2, <1>5, <1>6, Stored
<1>8. PICK s, t : s = BytesOf(pipe[k]) /\ t = BytesOf(r)
  OBVIOUS
<1>9. /\ t \in Seq(Nat) /\ s \in Seq(Nat) /\ Len(t) = Len(s) + Len(mine) /\ Len(t) <= PIPESIZE
      /\ \A j \in 1..Len(s) : t[j] = s[j]
  BY <1>2, <1>5, <1>6, <1>8, BytesStored
<1>10. Unread(k) = s /\ Unread(k)' = t /\ \A l \in Pipes \ {k} : Unread(l)' = Unread(l)
  BY <1>2, <1>6, <1>7, <1>8, UnreadIs
<1>11. CASE mine = <<>>
  <2>1. s = t
    BY <1>9, <1>11, SameBytes
  <2>2. UnreadSame
    BY <1>10, <2>1 DEF UnreadSame
  <2> QED
    BY <1>1, <1>4, <2>2, OtherMaps
<1>12. CASE mine # <<>>
  <2>1. Len(t) \in Len(s) + 1 .. PIPESIZE
    BY <1>9, <1>12, PipeAssumption
  <2>2. \A j \in 1..Len(t) : IF j <= Len(s) THEN t[j] = s[j] ELSE t[j] \in Nat
    BY <1>9
  <2>3. /\ Len(Unread(k)') \in Len(Unread(k)) + 1 .. PIPESIZE
        /\ \A j \in 1..Len(Unread(k)') :
             IF j <= Len(Unread(k)) THEN Unread(k)'[j] = Unread(k)[j] ELSE Unread(k)'[j] \in Nat
    BY <1>10, <2>1, <2>2, Zenon
  <2> QED
    BY <1>1, <1>2, <1>4, <1>10, <2>3, PutMaps
<1> QED
  BY <1>11, <1>12

LEMMA pipereadMaps ==
  ASSUME FilesInv, PipesInv, NEW p \in Procs, NEW k \in Pipes, UNCHANGED fileVars, piperead(p, k)
  PROVE  Streams!Next
<1>1. On(p, k, FALSE) /\ UNCHANGED file /\ xfer[p].at = "read"
  BY DEF piperead, InPipe, On, fileVars
<1>2. /\ pipe[k] \in PipeRec /\ Held(k) \in 0..PIPESIZE /\ Held(k) = Gap(pipe[k])
      /\ Empty(k) <=> Held(k) = 0
      /\ Holds(k, FALSE)
  BY <1>1, AtWork, TransferHolds
<1>3. HoldsSame
  BY <1>1 DEF HoldsSame, Holds, IsEnd
<1>4. xfer[p].n \in Nat \ {0}
  BY <1>1, XferKinds DEF PipesInv, PipeTyped
<1>5. PICK n \in 0..Held(k) :
        /\ n = IF xfer[p].n < Held(k) THEN xfer[p].n ELSE Held(k)
        /\ n = 0 <=> Held(k) = 0
  BY <1>2, <1>4
<1>6. CASE UNCHANGED pipe /\ got' = Nothing
  <2>1. UnreadSame
    BY <1>6, UnreadIs DEF UnreadSame
  <2> QED
    BY <1>3, <1>6, <2>1, OtherMaps
<1>7. CASE /\ ~Empty(k) \/ ~pipe[k].writeopen
           /\ pipe' = [pipe EXCEPT ![k] = Fetch(k, n)]
           /\ got' = [to |-> p, bytes |-> SubSeq(Unread(k), 1, n)]
  <2>1. PICK r : r = Fetch(k, n)
    OBVIOUS
  <2>2. PICK s : s = BytesOf(pipe[k])
    OBVIOUS
  <2>3. n \in Nat /\ n <= Held(k) /\ Held(k) <= PIPESIZE
    BY <1>2, PipeAssumption
  <2>4. r \in PipeRec
    BY <1>2, <2>1, <2>3, Fetched
  <2>5. pipe'[k] = r /\ \A l \in Pipes \ {k} : pipe'[l] = pipe[l]
    BY <1>7, <2>1 DEF PipesInv, PipeTyped
  <2>6. BytesOf(r) = SubSeq(s, n + 1, Len(s))
    BY <1>2, <2>1, <2>2, <2>3, BytesFetched
  <2>7. s \in Seq(Nat) /\ Len(s) = Held(k)
    BY <1>2, <2>2, <2>3, BytesAre
  <2>8. /\ Unread(k) = s /\ Unread(k)' = SubSeq(s, n + 1, Len(s))
        /\ \A l \in Pipes \ {k} : Unread(l)' = Unread(l)
    BY <1>2, <2>2, <2>4, <2>5, <2>6, UnreadIs
  <2>9. CASE Held(k) # 0
    <3>1. n \in 1..Len(Unread(k))
      BY <1>5, <2>3, <2>7, <2>8, <2>9
    <3>2. Unread(k)' = SubSeq(Unread(k), n + 1, Len(Unread(k)))
      BY <2>8
    <3> QED
      BY <1>2, <1>3, <1>7, <2>8, <3>1, <3>2, GetMaps
  <2>10. CASE Held(k) = 0
    <3>1. s = <<>> /\ n = 0
      BY <1>5, <2>7, <2>10
    <3>2. SubSeq(s, n + 1, Len(s)) = <<>> /\ SubSeq(s, 1, n) = <<>>
      BY <3>1
    <3>3. UnreadSame /\ Unread(k) = <<>> /\ got' = [to |-> p, bytes |-> <<>>]
      BY <1>7, <2>8, <3>1, <3>2 DEF UnreadSame
    <3>4. ~Holds(k, TRUE)
      BY <1>2, <1>7, <2>10, HoldsOpen DEF Flag
    <3> QED
      BY <1>2, <1>3, <3>3, <3>4, EndMaps
  <2> QED
    BY <2>9, <2>10
<1> QED
  BY <1>5, <1>6, <1>7 DEF piperead

LEMMA sleepMaps ==
  ASSUME NEW p, NEW k, UNCHANGED fileVars, sleep(p, k)
  PROVE  Streams!Next
<1>1. UNCHANGED <<pipe, file>> /\ got' = Nothing
  BY DEF sleep, fileVars
<1>2. UnreadSame /\ HoldsSame
  BY <1>1, UnreadIs DEF UnreadSame, HoldsSame, Holds, IsEnd
<1> QED
  BY <1>1, <1>2, OtherMaps

LEMMA NextMaps ==
  ASSUME FilesInv, PipesInv, Next
  PROVE  Streams!Next
<1>1. PICK p \in Procs :
        \/ Kernel(p)
        \/ sys_open(p) \/ sys_pipe(p) \/ fork(p) \/ exit(p) \/ Kill(p)
        \/ \E fd \in Fds :
             sys_dup(p, fd) \/ sys_close(p, fd) \/ sys_write(p, fd) \/ sys_read(p, fd)
  BY DEF Next
<1>2. CASE CloseEnd(p)
  BY <1>2, CloseEndMaps
<1>3. CASE PipePage(p)
  BY <1>3, PipePageMaps
<1>4. CASE PipeIO(p)
  <2>1. UNCHANGED fileVars
    BY <1>4 DEF PipeIO
  <2>2. PICK k \in Pipes : pipewrite(p, k) \/ piperead(p, k) \/ sleep(p, k)
    BY <1>4 DEF PipeIO, PipeStep
  <2> QED
    BY <2>1, <2>2, pipewriteMaps, pipereadMaps, sleepMaps
<1>5. CASE \/ fileclose(p) \/ iput(p) \/ OpenFile(p) \/ PipeWriteEnd(p)
           \/ ForkFile(p) \/ ForkDone(p) \/ ExitFile(p) \/ ExitDone(p)
           \/ sys_open(p) \/ sys_pipe(p) \/ fork(p) \/ exit(p) \/ Kill(p)
           \/ \E fd \in Fds :
                sys_dup(p, fd) \/ sys_close(p, fd) \/ sys_write(p, fd) \/ sys_read(p, fd)
  BY <1>5, CallsMap, QuietMaps
<1> QED
  BY <1>1, <1>2, <1>3, <1>4, <1>5 DEF Kernel

LEMMA StutterMaps ==
  ASSUME UNCHANGED vars
  PROVE  UNCHANGED Streams!vars
<1>1. UNCHANGED pipe /\ UNCHANGED file /\ UNCHANGED got
  BY DEF vars, pipeVars, fileVars
<1>2. UnreadSame /\ HoldsSame
  BY <1>1, UnreadIs DEF UnreadSame, HoldsSame, Holds, IsEnd
<1> QED
  BY <1>1, <1>2, Same, Mapped DEF Streams!vars

LEMMA InitMaps ==
  ASSUME Init
  PROVE  Streams!Init
<1>1. pipe = [k \in Pipes |-> NoPipe] /\ got = Nothing /\ file = [f \in Files |-> NoneFile]
  BY DEF Init, PipeInit
<1>2. \A k \in Pipes : Unread(k) = <<>> /\ Holds(k, TRUE) = FALSE /\ Holds(k, FALSE) = FALSE
  BY <1>1, PipeRecs, FileRecs, UnreadIs DEF Holds, IsEnd
<1> QED
  BY <1>1, <1>2, Mapped DEF Streams!Init

\* The pipes implement the byte streams: what a reader gets is what was written,
\* in order, each byte once, none lost while somebody can read it; and it is told
\* of the end only when the pipe is empty and nobody holds its write end.
THEOREM PipesAreStreams == Spec => ByteStreamsSpec
<1>1. Init => Streams!Init
  BY InitMaps
<1>2. FilesInv /\ PipesInv /\ [Next]_vars => [Streams!Next]_Streams!vars
  BY NextMaps, StutterMaps
<1> QED
  BY <1>1, <1>2, PipesInvariant, PTL DEF Spec, ByteStreamsSpec, Streams!Spec
==============================================================================
