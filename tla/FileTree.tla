------------------------------- MODULE FileTree -------------------------------
(***************************************************************************)
(* What wfs promises its callers: a tree of directories and files.  Every  *)
(* operation either does its work or fails and leaves the tree as it was,  *)
(* but for one case: a write that runs out of space has replaced a prefix  *)
(* of what it was given, and the file keeps its size.                      *)
(***************************************************************************)
EXTENDS Naturals, Sequences

CONSTANTS Paths,        \* nonempty sequences of names, closed under prefixes
          Values,       \* what a unit of data may hold; 0 is the hole
          WriteArgs,    \* <<offset, size>> of the writes
          MaxUnits      \* units in the largest file

VARIABLE tree           \* from the paths that exist to their nodes

Units == 0..MaxUnits - 1
Empty(kind) == [kind |-> kind, size |-> 0, data |-> [u \in Units |-> 0]]
Parent(p) == SubSeq(p, 1, Len(p) - 1)

\* In the tree t.
IsDir(t, p) == p = <<>> \/ (p \in DOMAIN t /\ t[p].kind = "dir")
IsFile(t, p) == p \in DOMAIN t /\ t[p].kind = "file"

Init == tree = [p \in {} |-> Empty("dir")]

Create(p, kind) ==
  LET t == tree
  IN  /\ p \notin DOMAIN t
      /\ IsDir(t, Parent(p))
      /\ tree' = [q \in DOMAIN t \cup {p} |-> IF q = p THEN Empty(kind) ELSE t[q]]

\* A file goes, or a directory with nothing in it.
Remove(p) ==
  LET t == tree
  IN  /\ p \in DOMAIN t
      /\ \A q \in DOMAIN t : Parent(q) # p
      /\ tree' = [q \in DOMAIN t \ {p} |-> t[q]]

Overwritten(data, off, n, v) ==
  [u \in Units |-> IF u \in off..off + n - 1 THEN v ELSE data[u]]

Write(p, off, n, v) ==
  LET t == tree
  IN  /\ IsFile(t, p)
      /\ off + n <= MaxUnits
      /\ tree' = [t EXCEPT
                    ![p].data = Overwritten(@, off, n, v),
                    ![p].size = IF off + n > @ THEN off + n ELSE @]

WriteShort(p, off, n, v) ==
  LET t == tree
  IN  /\ IsFile(t, p)
      /\ tree' = [t EXCEPT ![p].data = Overwritten(@, off, n, v)]

Next ==
  \E p \in Paths :
    \/ Create(p, "file") \/ Create(p, "dir")
    \/ Remove(p)
    \/ \E v \in Values, a \in WriteArgs :
         \/ Write(p, a[1], a[2], v)
         \/ \E n \in 0..a[2] - 1 : WriteShort(p, a[1], n, v)

Spec == Init /\ [][Next]_tree
=============================================================================
