------------------------------- MODULE MCCowMem -------------------------------
\* Instances of CowMem for TLC.
EXTENDS CowMem

\* Free frames differ in nothing that matters: kalloc() takes the lowest.
Lowest(S, n) ==
  IF Cardinality(S) < n THEN {}
  ELSE {[i \in 1..n |-> CHOOSE f \in S :
                           Cardinality({g \in S : g < f}) = i - 1]}

\* A program of one page of data.
DataOnly == [v \in {0} |-> [w |-> TRUE, u |-> TRUE]]

\* For ReadOnlyStays: a page of code, a page of data.
TextAndData == [v \in 0..1 |-> [w |-> v = 1, u |-> TRUE]]

\* For SharedVisible, a bound: mappings come and go, and their pages are first touched, only while
\* nobody has a parent, so that what child and parent both have fork() copied.
MapsBeforeForks ==
  maps' # maps \/ (\E p \in Procs, v \in High : ~Present(p, v) /\ Present(p, v)')
    => \A p \in Procs : parent[p] = 0

\* Bound: while all processes exist, none has grown or mapped memory.
Crowded == \A p \in Procs : pc[p] # "unused"
Apart == Crowded => \A p \in Procs : maps[p] = {} /\ top[p] <= NIMAGE

\* A frame goes by the name of one of its holders, the same whatever the frame.
FirstHolder(f) == CHOOSE h \in Procs \X Pages : pt[h[1]][h[2]].frame = f

\* What matters of a state: which pages share a frame, with its count and
\* contents, not which frame it is; of frames nobody holds, how many are free.
Sharing ==
  <<[p \in Procs |-> [v \in Pages |->
       LET e == pt[p][v]
       IN  IF e.frame = 0 THEN <<>>
           ELSE <<FirstHolder(e.frame), ref[e.frame], mem[e.frame],
                  e.w, e.u, e.cow>>]],
    [p \in Procs |-> {k \in DOMAIN NoKern : kern[p][k] # 0}],
    [p \in Procs |-> IF new[p] = 0 THEN None ELSE mem[new[p]]],
    Cardinality(free), top, maps, pc, parent, kid, at>>
=============================================================================
