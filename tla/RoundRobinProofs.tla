--------------------------- MODULE RoundRobinProofs ---------------------------
(***************************************************************************)
(* The round robin scheduler of p2 and p5 implements the process table,    *)
(* for any number of slots and CPUs, so that what ProcTableProofs shows    *)
(* holds of it.                                                            *)
(***************************************************************************)
EXTENDS RoundRobin, ProcTableProofs

LEMMA ScanStep == ASSUME NEW c \in CPUS, Scheduler(c) PROVE PtNext
<1>1. CASE EndScan(c)
  BY <1>1 DEF EndScan, PtNext
<1>2. ASSUME NEW p \in Slots, RunNext(c, p) PROVE PtNext
  BY <1>2 DEF RunNext, PtNext
<1> QED
  BY <1>1, <1>2 DEF Scheduler

LEMMA ProcStep ==
  ASSUME NEW c \in CPUS, NEW p \in Slots, Proc(c, p) PROVE PtNext
<1>1. CASE EndTurn(c, p)
  BY <1>1 DEF EndTurn, Leaves, PtNext
<1>2. CASE Running(c, p)
  <2>1. CASE \E q \in Slots : \/ AllocProc(c, p, q) \/ Reap(c, p, q)
                              \/ \E n \in KillPids : Kill(c, p, n, q)
    BY <2>1 DEF PtNext
  <2>2. CASE \/ Enter(c, p) \/ Fault(c, p) \/ ExitCall(c, p) \/ OtherCall(c, p)
             \/ AllocFail(c, p) \/ ForkAbort(c, p) \/ ForkDone(c, p)
             \/ WaitFail(c, p) \/ SleepTest(c, p) \/ TimerExit(c, p)
    BY <2>2 DEF PtNext
  <2> QED
    BY <1>2, <2>1, <2>2 DEF Running
<1> QED
  BY <1>1, <1>2 DEF Proc

\* scheduler() of p2 and p5, with its place in the table and the lock it keeps
\* from one turn to the next, does nothing the process table does not allow.
THEOREM RoundRobinImplementsTable == Spec => PtSpec
<1>1. Init => PtInit
  BY DEF Init
<1>2. [Next]_vars => [PtNext]_ptVars
  <2>1. CASE UNCHANGED vars
    BY <2>1 DEF vars
  <2>2. CASE Next
    BY <2>2, ScanStep, ProcStep DEF Next, Tick, PtNext
  <2> QED
    BY <2>1, <2>2
<1> QED
  BY <1>1, <1>2, PTL DEF Spec, PtSpec

\* No child is missed, no process runs twice, whatever the scan does.
THEOREM RoundRobinSafe == Spec => [](NoMissedChild /\ OneCpuEach)
  BY RoundRobinImplementsTable, NoChildMissed, RunsOnOneCpu, PTL
-----------------------------------------------------------------------------
\* A step of another kind than dispatching, leaving the CPU or ending the scan.
CpusStay == UNCHANGED cpu /\ (UNCHANGED ptlock \/ ptlock' = Free) /\ UNCHANGED next

\* wait() that was woken holds the lock for its own CPU, which runs it.
LEMMA WaiterLetsGo ==
  ASSUME NEW c \in CPUS, NEW p \in Slots, InWait(c, p)
  PROVE  cpu[c] = p /\ ptlock \in {Free, c}
  BY DEF InWait, On

LEMMA RunningLock ==
  ASSUME NEW c \in CPUS, NEW p \in Slots, Running(c, p)
  PROVE  /\ UNCHANGED <<cpu, next>>
         /\ UNCHANGED ptlock \/ (ptlock \in {Free, c} /\ ptlock' = Free /\ cpu[c] = p)
<1>1. UNCHANGED next
  BY DEF Running
<1>2. CASE Enter(c, p)
  BY <1>1, <1>2 DEF Enter
<1>3. CASE Fault(c, p)
  BY <1>1, <1>3 DEF Fault
<1>4. CASE ExitCall(c, p)
  BY <1>1, <1>4 DEF ExitCall
<1>5. CASE OtherCall(c, p)
  BY <1>1, <1>5 DEF OtherCall
<1>6. CASE AllocFail(c, p)
  BY <1>1, <1>6 DEF AllocFail
<1>7. CASE ForkAbort(c, p)
  BY <1>1, <1>7 DEF ForkAbort
<1>8. CASE ForkDone(c, p)
  BY <1>1, <1>8 DEF ForkDone
<1>9. CASE SleepTest(c, p)
  BY <1>1, <1>9 DEF SleepTest, KeepTicksLock
<1>10. CASE WaitFail(c, p)
  BY <1>1, <1>10, WaiterLetsGo DEF WaitFail
<1>11. CASE TimerExit(c, p)
  BY <1>1, <1>11 DEF TimerExit
<1>12. ASSUME NEW q \in Slots, AllocProc(c, p, q)
      PROVE  UNCHANGED <<cpu, ptlock>>
  BY <1>12 DEF AllocProc
<1>13. ASSUME NEW q \in Slots, Reap(c, p, q)
      PROVE  UNCHANGED cpu /\ ptlock \in {Free, c} /\ ptlock' = Free /\ cpu[c] = p
  BY <1>13, WaiterLetsGo DEF Reap
<1>14. ASSUME NEW q \in Slots, NEW n \in KillPids, Kill(c, p, n, q)
      PROVE  UNCHANGED <<cpu, ptlock>>
  BY <1>14 DEF Kill
<1> QED
  BY <1>1, <1>2, <1>3, <1>4, <1>5, <1>6, <1>7, <1>8, <1>9, <1>10, <1>11, <1>12, <1>13, <1>14 DEF Running

LEMMA LeavesLock ==
  ASSUME NEW c \in CPUS, NEW p \in Slots, EndTurn(c, p)
  PROVE  /\ cpu' = [cpu EXCEPT ![c] = NoProc] /\ ptlock' = c /\ UNCHANGED next
         /\ ptlock \in {Free, c}
<1>1. ptlock' = c /\ UNCHANGED next
  BY DEF EndTurn
<1>2. CASE Exit(c, p)
  BY <1>1, <1>2 DEF Exit, LeaveCpu
<1>3. CASE WaitSleep(c, p)
  BY <1>1, <1>3, WaiterLetsGo DEF WaitSleep, LeaveCpu
<1>4. CASE TickSleep(c, p)
  BY <1>1, <1>4 DEF TickSleep, LeaveCpu
<1>5. CASE IoSleep(c, p)
  BY <1>1, <1>5 DEF IoSleep, LeaveCpu
<1>6. CASE Yield(c, p)
  BY <1>1, <1>6 DEF Yield, LeaveCpu
<1> QED
  BY <1>1, <1>2, <1>3, <1>4, <1>5, <1>6 DEF EndTurn, Leaves

ScanInv == ScanTypeOK /\ ScanRestarts

LEMMA ScanInvStep == TypeOK /\ OneCpuEach /\ ScanInv /\ [Next]_vars => ScanInv'
<1> SUFFICES ASSUME TypeOK, OneCpuEach, ScanInv, [Next]_vars PROVE ScanInv'
  OBVIOUS
<1> USE DEF ScanInv, ScanTypeOK, ScanRestarts
<1>0. Free \notin CPUS /\ cpu \in [CPUS -> Slots \cup {NoProc}] /\ NoProc \notin Slots
      /\ Slots = 1..NPROC /\ NPROC \in Nat \ {0}
  BY ProcTableAssumption DEF TypeOK, Slots, NoProc
<1>1. CASE UNCHANGED vars
  BY <1>1 DEF vars, ptVars
<1>2. CASE IoWakeup /\ UNCHANGED next
  BY <1>2 DEF IoWakeup
<1>3. ASSUME NEW c \in CPUS, Tick(c) PROVE ScanInv'
  BY <1>3 DEF Tick, Timer
<1>4. ASSUME NEW c \in CPUS, EndScan(c) PROVE ScanInv'
  BY <1>0, <1>4 DEF EndScan, ScanEnd
<1>5. ASSUME NEW c \in CPUS, NEW p \in Slots, RunNext(c, p) PROVE ScanInv'
  BY <1>0, <1>5 DEF RunNext, Dispatch
<1>6. ASSUME NEW c \in CPUS, NEW p \in Slots, EndTurn(c, p) PROVE ScanInv'
  BY <1>0, <1>6, LeavesLock
<1>7. ASSUME NEW c \in CPUS, NEW p \in Slots, Running(c, p) PROVE ScanInv'
  BY <1>0, <1>7, RunningLock
<1> QED
  BY <1>1, <1>2, <1>3, <1>4, <1>5, <1>6, <1>7 DEF Next, Scheduler, Proc

\* A scan that is over has let the lock go and starts over.
THEOREM ScansStartOver == Spec => []ScanRestarts
<1>1. Init => ScanInv
  BY ProcTableAssumption DEF Init, ScanInv, ScanTypeOK, ScanRestarts
<1>2. IInv => TypeOK /\ OneCpuEach
  BY DEF IInv
<1>3. Spec => []IInv
  BY RoundRobinImplementsTable, InvariantHolds, PTL
<1> QED
  BY <1>1, <1>2, <1>3, ScanInvStep, PTL DEF Spec, ScanInv
=============================================================================
