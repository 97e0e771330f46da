------------------------------ MODULE RoundRobin ------------------------------
(***************************************************************************)
(* The round robin scheduler of p2 and p5: ProcTable with the scan of      *)
(* scheduler(), which goes through the table in order, runs every RUNNABLE *)
(* process it meets, and lets go of ptable.lock only at the end of a scan. *)
(***************************************************************************)
EXTENDS ProcTable

VARIABLE next      \* the slot at which the CPU's scan goes on

vars == <<ptVars, next>>

ScanTypeOK == next \in [CPUS -> 1..NPROC + 1]

Init == PtInit /\ next = [c \in CPUS |-> 1]

\* The CPU is scanning: it starts at the first slot when it takes the lock,
\* and still holds the lock when a process it ran returns to the scheduler.
Scanning(c) == ptlock = c \/ (ptlock = Free /\ next[c] = 1)

ToScan(c) == {p \in Slots : p >= next[c] /\ state[p] = "RUNNABLE"}

\* The scan reaches p and switches to it.
RunNext(c, p) ==
  /\ Scanning(c)
  /\ p \in ToScan(c)
  /\ \A q \in ToScan(c) : p <= q
  /\ Dispatch(c, p)
  /\ next' = [next EXCEPT ![c] = p + 1]

\* The scan ends; the next one starts over, after a chance for other CPUs.
EndScan(c) ==
  /\ ToScan(c) = {}
  /\ ScanEnd(c)
  /\ next' = [next EXCEPT ![c] = 1]

Scheduler(c) == EndScan(c) \/ \E p \in Slots : RunNext(c, p)

\* sched(): the process leaves the CPU and the scan continues under the lock
\* that it took.
Leaves(c, p) ==
  \/ Exit(c, p) \/ WaitSleep(c, p) \/ TickSleep(c, p) \/ IoSleep(c, p)
  \/ Yield(c, p)
\* Mutant: every scan stops at the first process it runs.
EndTurnRestarts(c, p) ==
  Leaves(c, p) /\ ptlock' = c /\ next' = [next EXCEPT ![c] = 1]
EndTurn(c, p) == Leaves(c, p) /\ ptlock' = c /\ UNCHANGED next

Running(c, p) ==
  /\ \/ Enter(c, p) \/ Fault(c, p) \/ ExitCall(c, p) \/ OtherCall(c, p)
     \/ AllocFail(c, p) \/ ForkAbort(c, p) \/ ForkDone(c, p)
     \/ WaitFail(c, p) \/ SleepTest(c, p) \/ TimerExit(c, p)
     \/ \E q \in Slots :
          \/ AllocProc(c, p, q)
          \/ Reap(c, p, q)
          \/ \E n \in KillPids : Kill(c, p, n, q)
  /\ UNCHANGED next

Proc(c, p) == EndTurn(c, p) \/ Running(c, p)

Tick(c) == Timer(c) /\ UNCHANGED next

Next ==
  \/ IoWakeup /\ UNCHANGED next
  \/ \E c \in CPUS :
       \/ Tick(c)
       \/ Scheduler(c)
       \/ \E p \in Slots : Proc(c, p)

Spec == Init /\ [][Next]_vars

\* A CPU executes its scheduler and finishes its interrupts; the timer keeps
\* interrupting, and an interrupt raised while interrupts are off is taken once
\* they are on.  A process that is dispatched again and again executes (a time
\* slice is 10 ms, a step here some microseconds), and what it executes is not
\* only to sleep for the disk once more.  The disk answers.  And init, which does
\* nothing but wait() once it has started the shell, keeps collecting children.
Fairness ==
  /\ \A c \in CPUS :
       /\ WF_vars(Scheduler(c))
       /\ WF_vars(intr[c] /\ \E p \in Slots : Proc(c, p))
       /\ SF_vars(Tick(c))
       /\ \A p \in Slots : SF_vars(~intr[c] /\ Proc(c, p) /\ chan'[p] # IoChan)
  /\ []<>(Sleepers(IoChan) = {})
  /\ SF_vars(\E c \in CPUS, q \in Slots :
               Reap(c, InitProc, q) /\ UNCHANGED next)

FairSpec == Spec /\ Fairness
-----------------------------------------------------------------------------
\* A scan that is over has let the lock go and starts over: no slot is skipped
\* for good, whoever ran in between.  (proc.c, scheduler().)
ScanRestarts ==
  \A c \in CPUS : cpu[c] = NoProc /\ ptlock # c => next[c] = 1

\* Round robin: no process stays RUNNABLE, every one gets the CPU.
EveryoneRuns == \A p \in Slots : []<>(state[p] # "RUNNABLE")

\* kill() works, if late: wherever the process is -- in user mode, asleep in
\* wait(), in sys_sleep() or for the disk -- it does not stay alive and killed:
\* it ends up in exit().  (proc.c, kill().)
KilledDies ==
  \A p \in Slots \ {InitProc} : []<>~(killed[p] /\ Live(p))

\* A zombie whose parent died before it does not stay one: init reaps it,
\* whether it was asleep in wait() or not when exit() handed the child over.
OrphanReaped ==
  \A q \in Slots : []<>~(state[q] = "ZOMBIE" /\ parent[q] = InitProc)
=============================================================================
