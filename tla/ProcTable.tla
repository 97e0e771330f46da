------------------------------ MODULE ProcTable ------------------------------
(***************************************************************************)
(* The xv6 process table: the life of a process from fork() to wait(), the *)
(* sleep/wakeup rendezvous, kill(), the timer interrupt and the per-CPU    *)
(* dispatch, as p4/solution/proc.c and trap.c implement them.  Which       *)
(* RUNNABLE process a CPU takes is left open here; Stride and RoundRobin   *)
(* extend this module with the policy of p4 and of p2/p5.                  *)
(*                                                                         *)
(* One action is one critical section of ptable.lock.  The lock appears as *)
(* a variable only where it outlives a step: the kernel keeps it across    *)
(* swtch(), so a process that resumes inside wait() rescans the table      *)
(* before anyone else can take the lock.                                   *)
(***************************************************************************)
EXTENDS Integers, FiniteSets

CONSTANTS NPROC,        \* number of slots of ptable.proc
          CPUS,         \* the CPUs running scheduler()
          BootCpu,      \* the CPU with cpuid() = 0, which counts ticks
          Free,         \* "no CPU", the value of ptlock when it is not held
          MAXPID,       \* bound: fork() is not called once nextpid passes it
          SleepTimes,   \* arguments tried for sys_sleep(n), n > 0
          KillPids,     \* arguments tried for kill(pid)
          UseIo         \* whether processes also sleep on a device or pipe

ASSUME ProcTableAssumption ==
  /\ NPROC \in Nat \ {0}
  /\ BootCpu \in CPUS
  /\ Free \notin CPUS
  /\ MAXPID \in Nat
  /\ SleepTimes \subseteq Nat \ {0}
  /\ KillPids \subseteq Nat
  /\ UseIo \in BOOLEAN

Slots == 1..NPROC
NoProc == 0
InitProc == 1             \* userinit() takes the first slot of an empty table

\* Sleep channels: a slot stands for the address of that proc (wait()).
NoChan == 0
TicksChan == NPROC + 1    \* &ticks
IoChan == NPROC + 2       \* a pipe, the console or a disk buffer
Chans == 0..NPROC + 2

VARIABLES
  state,      \* proc.state
  pid,        \* proc.pid
  parent,     \* proc.parent
  chan,       \* proc.chan
  killed,     \* proc.killed
  nextpid,    \* the pid the next allocproc() hands out
  pc,         \* where the process's kernel or user code stands
  np,         \* fork()'s local np: the EMBRYO it is filling in
  due,        \* sys_sleep(): ticks still to go, n - (ticks - ticks0)
  cpu,        \* cpus[c].proc
  intr,       \* CPU is inside the timer interrupt, before yield()
  ptlock,     \* CPU that keeps ptable.lock across swtch(), or Free
  tickslock   \* process that holds tickslock, or NoProc

ptVars == <<state, pid, parent, chan, killed, nextpid, pc, np, due, cpu,
            intr, ptlock, tickslock>>

States == {"UNUSED", "EMBRYO", "SLEEPING", "RUNNABLE", "RUNNING", "ZOMBIE"}

\* "user"   in user mode, or at the trap entry/exit test of p->killed
\* "sys"    inside a system call
\* "fork"   inside fork(), between the two critical sections
\* "wait"   inside wait()'s loop
\* "doze"   in sys_sleep(), holding tickslock, about to call sleep()
\* "ticks"  in sys_sleep(), in or just after sleep()
\* "exit"   inside exit(), before its critical section
PCs == {"user", "sys", "fork", "wait", "doze", "ticks", "exit"}

TypeOK ==
  /\ state \in [Slots -> States]
  /\ pid \in [Slots -> Nat]
  /\ parent \in [Slots -> Slots \cup {NoProc}]
  /\ chan \in [Slots -> Chans]
  /\ killed \in [Slots -> BOOLEAN]
  /\ nextpid \in Nat
  /\ pc \in [Slots -> PCs]
  /\ np \in [Slots -> Slots \cup {NoProc}]
  /\ due \in [Slots -> Nat]
  /\ cpu \in [CPUS -> Slots \cup {NoProc}]
  /\ intr \in [CPUS -> BOOLEAN]
  /\ ptlock \in CPUS \cup {Free}
  /\ tickslock \in Slots \cup {NoProc}

\* main() after userinit(): init is RUNNABLE and no CPU has dispatched yet.
PtInit ==
  /\ state = [p \in Slots |-> IF p = InitProc THEN "RUNNABLE" ELSE "UNUSED"]
  /\ pid = [p \in Slots |-> IF p = InitProc THEN 1 ELSE 0]
  /\ parent = [p \in Slots |-> NoProc]
  /\ chan = [p \in Slots |-> NoChan]
  /\ killed = [p \in Slots |-> FALSE]
  /\ nextpid = 2
  /\ pc = [p \in Slots |-> "user"]
  /\ np = [p \in Slots |-> NoProc]
  /\ due = [p \in Slots |-> 0]
  /\ cpu = [c \in CPUS |-> NoProc]
  /\ intr = [c \in CPUS |-> FALSE]
  /\ ptlock = Free
  /\ tickslock = NoProc

-----------------------------------------------------------------------------
\* Process p executes on CPU c, at `at', with no interrupt being handled.
On(c, p, at) ==
  /\ cpu[c] = p
  /\ state[p] = "RUNNING"
  /\ ~intr[c]
  /\ pc[p] = at

\* p leaves the CPU: swtch() to the scheduler, which clears c->proc.  Whether
\* the scheduler then releases ptable.lock is its own affair.
\* Mutant: c->proc is not cleared.
LeaveCpuKeepingProc(c) == UNCHANGED cpu /\ ptlock' \in {Free, c}
LeaveCpu(c) ==
  /\ cpu' = [cpu EXCEPT ![c] = NoProc]
  /\ ptlock' \in {Free, c}

Sleepers(ch) == {q \in Slots : state[q] = "SLEEPING" /\ chan[q] = ch}

Kids(p) == {q \in Slots : parent[q] = p}
Zombies(S) == {q \in S : state[q] = "ZOMBIE"}
-----------------------------------------------------------------------------
\* trap(): a process enters the kernel; a killed one exits instead.
Enter(c, p) ==
  /\ On(c, p, "user")
  /\ pc' = [pc EXCEPT ![p] = IF killed[p] THEN "exit" ELSE "sys"]
  /\ UNCHANGED <<state, pid, parent, chan, killed, nextpid, np, due, cpu,
                 intr, ptlock, tickslock>>

\* trap(), default case: a fault in user mode marks the process killed and
\* sends it to exit().  (init does not fault: its exit() is a kernel panic.)
Fault(c, p) ==
  /\ On(c, p, "user")
  /\ p # InitProc
  /\ killed' = [killed EXCEPT ![p] = TRUE]
  /\ pc' = [pc EXCEPT ![p] = "exit"]
  /\ UNCHANGED <<state, pid, parent, chan, nextpid, np, due, cpu, intr,
                 ptlock, tickslock>>

\* sys_exit(): the call itself; files are closed before the lock is taken.
ExitCall(c, p) ==
  /\ On(c, p, "sys")
  /\ p # InitProc
  /\ pc' = [pc EXCEPT ![p] = "exit"]
  /\ UNCHANGED <<state, pid, parent, chan, killed, nextpid, np, due, cpu,
                 intr, ptlock, tickslock>>

\* A system call that does nothing to the table: getpid, uptime, open ...
OtherCall(c, p) ==
  /\ On(c, p, "sys")
  /\ pc' = [pc EXCEPT ![p] = "user"]
  /\ UNCHANGED <<state, pid, parent, chan, killed, nextpid, np, due, cpu,
                 intr, ptlock, tickslock>>

\* allocproc() takes the first UNUSED slot ...
\* (Mutant: an EMBRYO counts as free.)
FirstIdle(q) ==
  /\ state[q] \in {"UNUSED", "EMBRYO"}
  /\ \A r \in Slots : r < q => state[r] \notin {"UNUSED", "EMBRYO"}
FirstUnused(q) ==
  /\ state[q] = "UNUSED"
  /\ \A r \in Slots : r < q => state[r] # "UNUSED"

\* ... and the next pid,
TakePid(q) ==
  /\ pid' = [pid EXCEPT ![q] = nextpid]
  /\ nextpid' = nextpid + 1

\* all in one critical section.
AllocProc(c, p, q) ==
  /\ On(c, p, "sys")
  /\ ptlock = Free
  /\ nextpid <= MAXPID
  /\ FirstUnused(q)
  /\ TakePid(q)
  /\ state' = [state EXCEPT ![q] = "EMBRYO"]
  /\ np' = [np EXCEPT ![p] = q]
  /\ pc' = [pc EXCEPT ![p] = "fork"]
  /\ UNCHANGED <<parent, chan, killed, due, cpu, intr, ptlock, tickslock>>

\* fork() returns -1: the table is full.
AllocFail(c, p) ==
  /\ On(c, p, "sys")
  /\ ptlock = Free
  /\ \A r \in Slots : state[r] # "UNUSED"
  /\ pc' = [pc EXCEPT ![p] = "user"]
  /\ UNCHANGED <<state, pid, parent, chan, killed, nextpid, np, due, cpu,
                 intr, ptlock, tickslock>>

\* fork() runs out of memory, for the kernel stack or in copyuvm(): the slot
\* becomes UNUSED again, outside the lock, and keeps its pid.
ForkAbort(c, p) ==
  /\ On(c, p, "fork")
  /\ state' = [state EXCEPT ![np[p]] = "UNUSED"]
  /\ np' = [np EXCEPT ![p] = NoProc]
  /\ pc' = [pc EXCEPT ![p] = "user"]
  /\ UNCHANGED <<pid, parent, chan, killed, nextpid, due, cpu, intr,
                 ptlock, tickslock>>

\* fork() fills in the child and makes it RUNNABLE.
ForkDone(c, p) ==
  /\ On(c, p, "fork")
  /\ ptlock = Free
  /\ parent' = [parent EXCEPT ![np[p]] = p]
  /\ state' = [state EXCEPT ![np[p]] = "RUNNABLE"]
  /\ pc' = [pc EXCEPT ![np[p]] = "user", ![p] = "user"]
  /\ np' = [np EXCEPT ![p] = NoProc]
  /\ UNCHANGED <<pid, chan, killed, nextpid, due, cpu, intr, ptlock,
                 tickslock>>
-----------------------------------------------------------------------------
\* Whom exit() wakes: its parent if that sleeps in wait(), and init when a
\* child it leaves behind is already a zombie.
\* (Mutant: the parent is not.)
ExitWakesInit(p) ==
  IF Zombies(Kids(p)) # {} THEN Sleepers(InitProc) ELSE {}
ExitWakes(p) ==
  Sleepers(parent[p])
    \cup (IF Zombies(Kids(p)) # {} THEN Sleepers(InitProc) ELSE {})

\* exit() passes the children it leaves behind to init, zombies included.
\* (Mutant: zombies keep their dead parent.)
AdoptRunning(p) ==
  [q \in Slots |-> IF parent[q] = p /\ state[q] # "ZOMBIE" THEN InitProc
                   ELSE parent[q]]
Adopt(p) == [q \in Slots |-> IF parent[q] = p THEN InitProc ELSE parent[q]]

\* exit(): wake the parent, hand the children to init, become a ZOMBIE and
\* never return.  (init must not exit: the kernel panics.)
Exit(c, p) ==
  /\ On(c, p, "exit")
  /\ p # InitProc
  /\ ptlock = Free
  /\ state' = [q \in Slots |-> IF q = p THEN "ZOMBIE"
                               ELSE IF q \in ExitWakes(p) THEN "RUNNABLE"
                               ELSE state[q]]
  /\ parent' = Adopt(p)
  /\ LeaveCpu(c)
  /\ UNCHANGED <<pid, chan, killed, nextpid, pc, np, due, intr, tickslock>>

\* p may look for zombies: on entry to wait(), or resumed inside its loop
\* with the lock still held.
InWait(c, p) ==
  \/ On(c, p, "sys") /\ ptlock = Free
  \/ On(c, p, "wait") /\ ptlock = c

\* wait() frees the first zombie child and returns its pid.
Reap(c, p, q) ==
  /\ InWait(c, p)
  /\ q \in Zombies(Kids(p))
  /\ \A r \in Zombies(Kids(p)) : q <= r
  /\ state' = [state EXCEPT ![q] = "UNUSED"]
  /\ pid' = [pid EXCEPT ![q] = 0]
  /\ parent' = [parent EXCEPT ![q] = NoProc]
  /\ killed' = [killed EXCEPT ![q] = FALSE]
  /\ pc' = [pc EXCEPT ![p] = "user"]
  /\ ptlock' = Free
  /\ UNCHANGED <<chan, nextpid, np, due, cpu, intr, tickslock>>

\* wait() returns -1: no children, or the caller was killed.
WaitFail(c, p) ==
  /\ InWait(c, p)
  /\ Zombies(Kids(p)) = {}
  /\ Kids(p) = {} \/ killed[p]
  /\ pc' = [pc EXCEPT ![p] = "user"]
  /\ ptlock' = Free
  /\ UNCHANGED <<state, pid, parent, chan, killed, nextpid, np, due, cpu,
                 intr, tickslock>>

\* wait() sleeps on its own proc until a child exits.
WaitSleep(c, p) ==
  /\ InWait(c, p)
  /\ Zombies(Kids(p)) = {}
  /\ Kids(p) # {} /\ ~killed[p]
  /\ state' = [state EXCEPT ![p] = "SLEEPING"]
  /\ chan' = [chan EXCEPT ![p] = p]
  /\ pc' = [pc EXCEPT ![p] = "wait"]
  /\ LeaveCpu(c)
  /\ UNCHANGED <<pid, parent, killed, nextpid, np, due, intr, tickslock>>
-----------------------------------------------------------------------------
\* sys_sleep() goes from its test to sleep() without letting tickslock go.
\* (Mutant: it does let go.)
DropTicksLock(p) == UNCHANGED tickslock
KeepTicksLock(p) == tickslock' = p

\* sys_sleep(): test the ticks and p->killed under tickslock.
SleepTest(c, p) ==
  /\ tickslock = NoProc
  /\ \/ /\ On(c, p, "sys")
        /\ \E n \in SleepTimes : due' = [due EXCEPT ![p] = n]
     \/ On(c, p, "ticks") /\ UNCHANGED due
  /\ IF due'[p] = 0 \/ killed[p]
       THEN /\ pc' = [pc EXCEPT ![p] = "user"]
            /\ UNCHANGED tickslock
       ELSE /\ pc' = [pc EXCEPT ![p] = "doze"]
            /\ KeepTicksLock(p)
  /\ UNCHANGED <<state, pid, parent, chan, killed, nextpid, np, cpu, intr,
                 ptlock>>

\* sleep(&ticks, &tickslock): ptable.lock is taken before tickslock goes.
TickSleep(c, p) ==
  /\ On(c, p, "doze")
  /\ ptlock = Free
  /\ state' = [state EXCEPT ![p] = "SLEEPING"]
  /\ chan' = [chan EXCEPT ![p] = TicksChan]
  /\ pc' = [pc EXCEPT ![p] = "ticks"]
  /\ tickslock' = NoProc
  /\ LeaveCpu(c)
  /\ UNCHANGED <<pid, parent, killed, nextpid, np, due, intr>>

\* sleep() on a pipe, the console or a buffer.
IoSleep(c, p) ==
  /\ UseIo
  /\ On(c, p, "sys")
  /\ ptlock = Free
  /\ state' = [state EXCEPT ![p] = "SLEEPING"]
  /\ chan' = [chan EXCEPT ![p] = IoChan]
  /\ LeaveCpu(c)
  /\ UNCHANGED <<pid, parent, killed, nextpid, pc, np, due, intr, tickslock>>

\* wakeup() on that channel, by another process or an interrupt handler.
IoWakeup ==
  /\ UseIo
  /\ ptlock = Free
  /\ Sleepers(IoChan) # {}
  /\ state' = [q \in Slots |-> IF q \in Sleepers(IoChan) THEN "RUNNABLE"
                               ELSE state[q]]
  /\ UNCHANGED <<pid, parent, chan, killed, nextpid, pc, np, due, cpu, intr,
                 ptlock, tickslock>>

\* kill() rouses its target if that sleeps.
\* (Mutants: it does not; it rouses the dead as well.)
RouseNone(s) == s
RouseAll(s) == IF s # "RUNNING" THEN "RUNNABLE" ELSE s
Rouse(s) == IF s = "SLEEPING" THEN "RUNNABLE" ELSE s

\* kill(n): the first slot whose pid field is n, whatever its state.
Kill(c, p, n, q) ==
  /\ On(c, p, "sys")
  /\ ptlock = Free
  /\ pid[q] = n
  /\ \A r \in Slots : pid[r] = n => q <= r
  /\ killed' = [killed EXCEPT ![q] = TRUE]
  /\ state' = [state EXCEPT ![q] = Rouse(@)]
  /\ pc' = [pc EXCEPT ![p] = "user"]
  /\ UNCHANGED <<pid, parent, chan, nextpid, np, due, cpu, intr, ptlock,
                 tickslock>>
-----------------------------------------------------------------------------
\* A tick brings the end of a sys_sleep() that has begun one tick nearer.
\* (Mutant: past zero.)
TicksToGoBelow(q) == IF pc[q] \in {"doze", "ticks"} THEN due[q] - 1 ELSE due[q]
TicksToGo(q) == IF pc[q] \in {"doze", "ticks"} /\ due[q] > 0
                THEN due[q] - 1 ELSE due[q]

\* The timer interrupt on c.  Interrupts are off while a spinlock is held.
\* CPU 0 counts the tick and wakes the processes in sys_sleep().
Timer(c) ==
  /\ ~intr[c]
  /\ ptlock # c
  /\ cpu[c] # NoProc => pc[cpu[c]] # "doze"
  /\ IF c = BootCpu
       THEN /\ tickslock = NoProc
            /\ ptlock = Free
            /\ state' = [q \in Slots |-> IF q \in Sleepers(TicksChan)
                                           THEN "RUNNABLE" ELSE state[q]]
            /\ due' = [q \in Slots |-> TicksToGo(q)]
       ELSE UNCHANGED <<state, due>>
  /\ intr' = [intr EXCEPT ![c] = cpu[c] # NoProc]
  /\ UNCHANGED <<pid, parent, chan, killed, nextpid, pc, np, cpu, ptlock,
                 tickslock>>

\* The end of the interrupt for a killed process caught in user mode.
TimerExit(c, p) ==
  /\ cpu[c] = p
  /\ intr[c]
  /\ killed[p] /\ pc[p] = "user"
  /\ intr' = [intr EXCEPT ![c] = FALSE]
  /\ pc' = [pc EXCEPT ![p] = "exit"]
  /\ UNCHANGED <<state, pid, parent, chan, killed, nextpid, np, due, cpu,
                 ptlock, tickslock>>

\* The end of the interrupt for any other process: yield().
Yield(c, p) ==
  /\ cpu[c] = p
  /\ intr[c]
  /\ ~(killed[p] /\ pc[p] = "user")
  /\ ptlock = Free
  /\ state' = [state EXCEPT ![p] = "RUNNABLE"]
  /\ intr' = [intr EXCEPT ![c] = FALSE]
  /\ LeaveCpu(c)
  /\ UNCHANGED <<pid, parent, chan, killed, nextpid, pc, np, due, tickslock>>

\* scheduler() switches to p.  A process that slept finishes sleep(): it clears
\* p->chan, and only wait() goes on holding ptable.lock.
Dispatch(c, p) ==
  /\ cpu[c] = NoProc
  /\ ptlock \in {Free, c}
  /\ state[p] = "RUNNABLE"
  /\ state' = [state EXCEPT ![p] = "RUNNING"]
  /\ chan' = [chan EXCEPT ![p] = NoChan]
  /\ cpu' = [cpu EXCEPT ![c] = p]
  /\ ptlock' = IF pc[p] = "wait" THEN c ELSE Free
  /\ UNCHANGED <<pid, parent, killed, nextpid, pc, np, due, intr, tickslock>>

\* The scan of the table ends and scheduler() releases the lock.
ScanEnd(c) ==
  /\ cpu[c] = NoProc
  /\ ptlock = c
  /\ ptlock' = Free
  /\ UNCHANGED <<state, pid, parent, chan, killed, nextpid, pc, np, due, cpu,
                 intr, tickslock>>
-----------------------------------------------------------------------------
\* Everything a process does on a CPU, and the hardware's part.
PtNext ==
  \/ IoWakeup
  \/ \E c \in CPUS :
       \/ Timer(c)
       \/ ScanEnd(c)
       \/ \E p \in Slots :
            \/ Enter(c, p) \/ Fault(c, p) \/ ExitCall(c, p) \/ Exit(c, p)
            \/ OtherCall(c, p)
            \/ AllocFail(c, p) \/ ForkAbort(c, p) \/ ForkDone(c, p)
            \/ WaitFail(c, p) \/ WaitSleep(c, p)
            \/ SleepTest(c, p) \/ TickSleep(c, p) \/ IoSleep(c, p)
            \/ TimerExit(c, p) \/ Yield(c, p) \/ Dispatch(c, p)
            \/ \E q \in Slots :
                 \/ AllocProc(c, p, q)
                 \/ Reap(c, p, q)
                 \/ \E n \in KillPids : Kill(c, p, n, q)

PtSpec == PtInit /\ [][PtNext]_ptVars
-----------------------------------------------------------------------------
Live(p) == state[p] \in {"SLEEPING", "RUNNABLE", "RUNNING"}

\* A parent asleep in wait() has no zombie child: exit() woke it before the
\* child became one, and wait() looked under the same lock.  (proc.c, exit()
\* and wait(): the lost wakeup these critical sections exist to prevent.)
NoMissedChild ==
  \A p \in Slots : state[p] = "SLEEPING" /\ chan[p] = p => Zombies(Kids(p)) = {}

\* Every process but init, and every zombie, has a parent that can still call
\* wait(): exit() leaves no child with a dead or a recycled parent slot.
ParentAlive ==
  \A q \in Slots : (Live(q) \/ state[q] = "ZOMBIE") /\ q # InitProc =>
    parent[q] \in Slots /\ Live(parent[q])

\* A process runs on one CPU and a CPU runs a RUNNING process: nothing is
\* dispatched twice and nothing freed or put to sleep while it runs.
OneCpuEach ==
  /\ \A c \in CPUS : cpu[c] # NoProc => state[cpu[c]] = "RUNNING"
  /\ \A c, d \in CPUS : cpu[c] # NoProc /\ cpu[c] = cpu[d] => c = d
  /\ \A p \in Slots : state[p] = "RUNNING" => \E c \in CPUS : cpu[c] = p

\* The slot fork() writes to without the lock is an EMBRYO nobody else holds,
\* and every EMBRYO has a fork() in progress that will publish or free it.
EmbryoOwned ==
  /\ \A p \in Slots : np[p] # NoProc =>
       state[np[p]] = "EMBRYO" /\ pc[p] = "fork" /\ Live(p)
  /\ \A p, q \in Slots : np[p] # NoProc /\ np[p] = np[q] => p = q
  /\ \A q \in Slots : state[q] = "EMBRYO" => \E p \in Slots : np[p] = q

\* A process asleep in sys_sleep() still has ticks to wait for, or was put to
\* sleep by a tick that has not come: no tick is lost between the test of the
\* clock and sleep(), which hand tickslock over to ptable.lock.
NoMissedTick ==
  \A p \in Slots : state[p] = "SLEEPING" /\ chan[p] = TicksChan =>
    due[p] > 0 /\ pc[p] = "ticks"

\* kill() marks "the process with the given pid", and wait() wipes the mark off
\* the slot it frees: a slot without a process carries none into its next use.
\* Violated: kill(0) finds a free slot.
FreeSlotsUnmarked == \A q \in Slots : state[q] = "UNUSED" => ~killed[q]

\* No two processes share a pid, zombies included, so wait() and kill() name
\* one process.
PidsUnique ==
  \A p, q \in Slots :
    /\ Live(p) \/ state[p] = "ZOMBIE"
    /\ Live(q) \/ state[q] = "ZOMBIE"
    /\ pid[p] = pid[q]
    => p = q

\* What makes these invariants inductive: init is the root of the parents and
\* lives on; a process in the window of sys_sleep() holds tickslock and has
\* time left; pids in use are distinct and below nextpid.
Rooted ==
  /\ Live(InitProc) /\ parent[InitProc] = NoProc
  /\ \A q \in Slots : parent[q] # q

DozeHoldsClock ==
  \A p \in Slots : pc[p] = "doze" => tickslock = p /\ due[p] > 0

PidsBelow ==
  /\ \A p \in Slots : pid[p] < nextpid
  /\ \A p, q \in Slots :
       state[p] # "UNUSED" /\ state[q] # "UNUSED" /\ pid[p] = pid[q] => p = q

IInv ==
  /\ TypeOK
  /\ OneCpuEach
  /\ EmbryoOwned
  /\ Rooted
  /\ ParentAlive
  /\ NoMissedChild
  /\ DozeHoldsClock
  /\ NoMissedTick
  /\ PidsBelow

\* A process leaves the ZOMBIE state only by its own parent's wait(), and a
\* slot is reused only through UNUSED: no step revives a dead process.
ReapedIfRevived ==
  \A q \in Slots : state[q] = "ZOMBIE" /\ state'[q] # "ZOMBIE" =>
    /\ state'[q] = "UNUSED"
    /\ \E c \in CPUS : cpu[c] = parent[q] /\ ~intr[c]
ZombieOnlyReaped == [][ReapedIfRevived]_ptVars
=============================================================================
