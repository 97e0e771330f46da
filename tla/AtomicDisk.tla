------------------------------ MODULE AtomicDisk ------------------------------
(***************************************************************************)
(* What the log promises the file system: operations see one store that    *)
(* they change block by block; what a restart finds is the store as it was *)
(* at some moment when no operation was in progress.                       *)
(***************************************************************************)
CONSTANTS Procs, Home, Contents

VARIABLES store,    \* what operations read and write
          saved,    \* what a restart would find
          active    \* processes with an operation in progress

vars == <<store, saved, active>>

Init ==
  /\ saved \in [Home -> Contents]
  /\ store = saved
  /\ active = {}

Start(p) ==
  /\ active' = active \cup {p}
  /\ UNCHANGED <<store, saved>>

End(p) ==
  /\ active' = active \ {p}
  /\ UNCHANGED <<store, saved>>

Write(p, b, c) ==
  /\ p \in active
  /\ store' = [store EXCEPT ![b] = c]
  /\ UNCHANGED <<saved, active>>

Commit ==
  /\ active = {}
  /\ saved' = store
  /\ UNCHANGED <<store, active>>

Crash ==
  /\ store' = saved
  /\ active' = {}
  /\ UNCHANGED saved

Next ==
  \/ Commit \/ Crash
  \/ \E p \in Procs :
       \/ Start(p) \/ End(p)
       \/ \E b \in Home, c \in Contents : Write(p, b, c)

Spec == Init /\ [][Next]_vars
=============================================================================
