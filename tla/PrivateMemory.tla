----------------------------- MODULE PrivateMemory -----------------------------
(***************************************************************************)
(* What fork() and the page fault handler of p5 promise a program: every   *)
(* process has a memory of its own.  fork() copies all of it at once; what *)
(* one process does to its memory no other can tell.                       *)
(***************************************************************************)
CONSTANTS Procs, InitProc,
          Pages,        \* of a program: code, data, stack and heap
          Fresh,        \* Fresh[v] is what a program finds in page v at exec
          Zero          \* the contents of a new page

VARIABLE memory         \* of each process: from its pages to their contents

NoMemory == [v \in {} |-> Zero]

Init == memory = [p \in Procs |-> IF p = InitProc THEN Fresh ELSE NoMemory]

\* The operations of a process p turn its memory m into n.  What a page holds is
\* the process that wrote it last.
Write(p, m, n) == \E v \in DOMAIN m : n = [m EXCEPT ![v] = p]

\* sbrk(), which clears a page it adds, and sbrk() with a negative size.
Gain(m, n) ==
  /\ m # NoMemory
  /\ \E v \in Pages \ DOMAIN m :
       n = [w \in DOMAIN m \cup {v} |-> IF w = v THEN Zero ELSE m[w]]
Lose(m, n) == \E W \in SUBSET DOMAIN m : n = [w \in W |-> m[w]]

Born(m, n) == m = NoMemory /\ \E q \in Procs : n = memory[q]
Exec(m, n) == m # NoMemory /\ n = Fresh
Exit(p, n) == p # InitProc /\ n = NoMemory

Operation(p, m, n) ==
  Write(p, m, n) \/ Gain(m, n) \/ Lose(m, n) \/ Born(m, n) \/ Exec(m, n) \/ Exit(p, n)

\* One process is at work.
Change(before, after) ==
  /\ DOMAIN after = Procs
  /\ \E p \in Procs :
       /\ \A q \in Procs \ {p} : after[q] = before[q]
       /\ Operation(p, before[p], after[p])

Next == \E before \in {memory}, after \in {memory'} : Change(before, after)

Spec == Init /\ [][Next]_memory
=============================================================================
