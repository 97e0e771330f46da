--------------------------- MODULE ProcTableProofs ---------------------------
(***************************************************************************)
(* Safety of the process table for any number of slots and CPUs.           *)
(***************************************************************************)
EXTENDS ProcTable, TLAPS

\* A channel tells who sleeps: a slot, the clock and a device are all distinct.
LEMMA Channels ==
  /\ NoChan \in Chans /\ TicksChan \in Chans /\ IoChan \in Chans
  /\ TicksChan \notin Slots /\ IoChan \notin Slots /\ NoChan \notin Slots
  /\ TicksChan # IoChan /\ NoChan # TicksChan /\ NoChan # IoChan
  BY ProcTableAssumption DEF Chans, NoChan, TicksChan, IoChan, Slots

LEMMA SlotFacts ==
  /\ InitProc \in Slots /\ NoProc \notin Slots
  /\ \A p \in Slots : p \in Chans
  /\ \A p \in Slots : p \in Nat
  BY ProcTableAssumption DEF Chans, Slots, InitProc, NoProc

USE Channels, SlotFacts DEF States, PCs

LEMMA PtInitTypeOK == PtInit => TypeOK
  BY ProcTableAssumption DEF PtInit, TypeOK

LEMMA PtNextTypeOK == TypeOK /\ [PtNext]_ptVars => TypeOK'
<1> SUFFICES ASSUME TypeOK, [PtNext]_ptVars PROVE TypeOK'
  OBVIOUS
<1> USE DEF TypeOK
<1>1. CASE UNCHANGED ptVars
  BY <1>1 DEF ptVars
<1>2. CASE IoWakeup
  BY <1>2 DEF IoWakeup
<1>3. ASSUME NEW c \in CPUS, Timer(c) PROVE TypeOK'
  <2>1. intr' \in [CPUS -> BOOLEAN]
    BY <1>3, Zenon DEF Timer
  <2>2. state' \in [Slots -> States]
    BY <1>3, Zenon DEF Timer
  <2>3. \A q \in Slots : TicksToGo(q) \in Nat
    BY DEF TicksToGo
  <2>4. due' \in [Slots -> Nat]
    <3>1. CASE c = BootCpu
      BY <1>3, <2>3, <3>1 DEF Timer
    <3>2. CASE c # BootCpu
      BY <1>3, <3>2 DEF Timer
    <3> QED
      BY <3>1, <3>2
  <2> QED
    BY <1>3, <2>1, <2>2, <2>4 DEF Timer
<1>4. ASSUME NEW c \in CPUS, ScanEnd(c) PROVE TypeOK'
  BY <1>4 DEF ScanEnd
<1>5. ASSUME NEW c \in CPUS, NEW p \in Slots, Enter(c, p) PROVE TypeOK'
  BY <1>5 DEF Enter
<1>6. ASSUME NEW c \in CPUS, NEW p \in Slots, Fault(c, p) PROVE TypeOK'
  BY <1>6 DEF Fault
<1>7. ASSUME NEW c \in CPUS, NEW p \in Slots, ExitCall(c, p) PROVE TypeOK'
  BY <1>7 DEF ExitCall
<1>8. ASSUME NEW c \in CPUS, NEW p \in Slots, Exit(c, p) PROVE TypeOK'
  <2>1. state' \in [Slots -> States]
    BY <1>8, Zenon DEF Exit
  <2>2. parent' \in [Slots -> Slots \cup {NoProc}]
    BY <1>8 DEF Exit, Adopt
  <2> QED
    BY <1>8, <2>1, <2>2 DEF Exit, LeaveCpu
<1>9. ASSUME NEW c \in CPUS, NEW p \in Slots, AllocFail(c, p) PROVE TypeOK'
  BY <1>9 DEF AllocFail
<1>10. ASSUME NEW c \in CPUS, NEW p \in Slots, ForkAbort(c, p) PROVE TypeOK'
  BY <1>10 DEF ForkAbort
<1>11. ASSUME NEW c \in CPUS, NEW p \in Slots, ForkDone(c, p) PROVE TypeOK'
  BY <1>11 DEF ForkDone
<1>12. ASSUME NEW c \in CPUS, NEW p \in Slots, WaitFail(c, p) PROVE TypeOK'
  BY <1>12 DEF WaitFail
<1>13. ASSUME NEW c \in CPUS, NEW p \in Slots, WaitSleep(c, p) PROVE TypeOK'
  <2>1. chan' \in [Slots -> Chans]
    BY <1>13 DEF WaitSleep
  <2> QED
    BY <1>13, <2>1 DEF WaitSleep, LeaveCpu
<1>14. ASSUME NEW c \in CPUS, NEW p \in Slots, SleepTest(c, p) PROVE TypeOK'
  <2>1. due' \in [Slots -> Nat]
    BY <1>14, ProcTableAssumption DEF SleepTest
  <2>2. pc' \in [Slots -> PCs] /\ tickslock' \in Slots \cup {NoProc}
    BY <1>14 DEF SleepTest, KeepTicksLock
  <2> QED
    BY <1>14, <2>1, <2>2 DEF SleepTest
<1>15. ASSUME NEW c \in CPUS, NEW p \in Slots, TickSleep(c, p) PROVE TypeOK'
  BY <1>15 DEF TickSleep, LeaveCpu
<1>16. ASSUME NEW c \in CPUS, NEW p \in Slots, IoSleep(c, p) PROVE TypeOK'
  BY <1>16 DEF IoSleep, LeaveCpu
<1>17. ASSUME NEW c \in CPUS, NEW p \in Slots, TimerExit(c, p) PROVE TypeOK'
  BY <1>17 DEF TimerExit
<1>18. ASSUME NEW c \in CPUS, NEW p \in Slots, Yield(c, p) PROVE TypeOK'
  BY <1>18 DEF Yield, LeaveCpu
<1>19. ASSUME NEW c \in CPUS, NEW p \in Slots, Dispatch(c, p) PROVE TypeOK'
  BY <1>19 DEF Dispatch
<1>20. ASSUME NEW c \in CPUS, NEW p \in Slots, NEW q \in Slots,
              AllocProc(c, p, q) PROVE TypeOK'
  BY <1>20 DEF AllocProc, TakePid
<1>21. ASSUME NEW c \in CPUS, NEW p \in Slots, NEW q \in Slots,
              Reap(c, p, q) PROVE TypeOK'
  BY <1>21 DEF Reap
<1>22. ASSUME NEW c \in CPUS, NEW p \in Slots, NEW q \in Slots,
              NEW n \in KillPids, Kill(c, p, n, q) PROVE TypeOK'
  BY <1>22 DEF Kill, Rouse
<1>23. ASSUME NEW c \in CPUS, NEW p \in Slots, OtherCall(c, p) PROVE TypeOK'
  BY <1>23 DEF OtherCall
<1> QED
  BY <1>1, <1>2, <1>3, <1>4, <1>5, <1>6, <1>7, <1>8, <1>9, <1>10, <1>11,
     <1>12, <1>13, <1>14, <1>15, <1>16, <1>17, <1>18, <1>19, <1>20, <1>21,
     <1>22, <1>23 DEF PtNext

-----------------------------------------------------------------------------
\* The three actions that wake a whole channel change no other process, and
\* Exit its own.
RousedOrSame(q) ==
  state'[q] = state[q] \/ (state[q] = "SLEEPING" /\ state'[q] = "RUNNABLE")

LEMMA IoWakeupRouses ==
  ASSUME IoWakeup
  PROVE  \A q \in Slots : RousedOrSame(q)
  BY DEF IoWakeup, Sleepers, RousedOrSame

LEMMA TimerRouses ==
  ASSUME TypeOK, NEW c \in CPUS, Timer(c)
  PROVE  \A q \in Slots : RousedOrSame(q)
<1>1. CASE c = BootCpu
  BY <1>1 DEF Timer, Sleepers, RousedOrSame
<1>2. CASE c # BootCpu
  BY <1>2 DEF Timer, RousedOrSame
<1> QED
  BY <1>1, <1>2

LEMMA ExitRouses ==
  ASSUME NEW c \in CPUS, NEW p \in Slots, Exit(c, p)
  PROVE  /\ state'[p] = "ZOMBIE"
         /\ \A q \in Slots \ {p} : RousedOrSame(q)
<1>1. ASSUME NEW q \in ExitWakes(p) PROVE state[q] = "SLEEPING"
  BY <1>1 DEF ExitWakes, Sleepers
<1> QED
  BY <1>1 DEF Exit, RousedOrSame

LEMMA OneCpuEachStep ==
  TypeOK /\ OneCpuEach /\ EmbryoOwned /\ [PtNext]_ptVars => OneCpuEach'
<1> SUFFICES ASSUME TypeOK, OneCpuEach, EmbryoOwned, [PtNext]_ptVars PROVE OneCpuEach'
  OBVIOUS
<1> USE DEF OneCpuEach, EmbryoOwned
<1>1. CASE UNCHANGED ptVars
  BY <1>1 DEF ptVars
<1>2. CASE IoWakeup
  <2>1. \A q \in Slots : RousedOrSame(q)
    BY <1>2, IoWakeupRouses
  <2>2. UNCHANGED <<pid, nextpid, np, pc, cpu>>
    BY <1>2 DEF IoWakeup
  <2> QED
    BY <2>1, <2>2 DEF RousedOrSame, TypeOK
<1>3. ASSUME NEW c \in CPUS, Timer(c) PROVE OneCpuEach'
  <2>1. \A q \in Slots : RousedOrSame(q)
    BY <1>3, TimerRouses
  <2>2. UNCHANGED <<pid, nextpid, np, pc, cpu>>
    BY <1>3 DEF Timer
  <2> QED
    BY <2>1, <2>2 DEF RousedOrSame, TypeOK
<1>4. ASSUME NEW c \in CPUS, ScanEnd(c) PROVE OneCpuEach'
  BY <1>4 DEF ScanEnd, TypeOK
<1>5. ASSUME NEW c \in CPUS, NEW p \in Slots, Enter(c, p) PROVE OneCpuEach'
  BY <1>5 DEF Enter, On, TypeOK
<1>6. ASSUME NEW c \in CPUS, NEW p \in Slots, Fault(c, p) PROVE OneCpuEach'
  BY <1>6 DEF Fault, On, TypeOK
<1>7. ASSUME NEW c \in CPUS, NEW p \in Slots, ExitCall(c, p) PROVE OneCpuEach'
  BY <1>7 DEF ExitCall, On, TypeOK
<1>8. ASSUME NEW c \in CPUS, NEW p \in Slots, Exit(c, p) PROVE OneCpuEach'
  <2>1. state'[p] = "ZOMBIE" /\ \A q \in Slots \ {p} : RousedOrSame(q)
    BY <1>8, ExitRouses
  <2>2. cpu[c] = p /\ state[p] = "RUNNING" /\ cpu' = [cpu EXCEPT ![c] = NoProc]
    BY <1>8 DEF Exit, On, LeaveCpu
  <2> QED
    BY <2>1, <2>2 DEF RousedOrSame, TypeOK
<1>9. ASSUME NEW c \in CPUS, NEW p \in Slots, OtherCall(c, p) PROVE OneCpuEach'
  BY <1>9 DEF OtherCall, On, TypeOK
<1>10. ASSUME NEW c \in CPUS, NEW p \in Slots, AllocFail(c, p) PROVE OneCpuEach'
  BY <1>10 DEF AllocFail, On, TypeOK
<1>11. ASSUME NEW c \in CPUS, NEW p \in Slots, ForkAbort(c, p) PROVE OneCpuEach'
  BY <1>11 DEF ForkAbort, On, TypeOK
<1>12. ASSUME NEW c \in CPUS, NEW p \in Slots, ForkDone(c, p) PROVE OneCpuEach'
  BY <1>12 DEF ForkDone, On, TypeOK
<1>13. ASSUME NEW c \in CPUS, NEW p \in Slots, WaitFail(c, p) PROVE OneCpuEach'
  BY <1>13 DEF WaitFail, InWait, On, TypeOK
<1>14. ASSUME NEW c \in CPUS, NEW p \in Slots, WaitSleep(c, p) PROVE OneCpuEach'
  BY <1>14 DEF WaitSleep, InWait, On, LeaveCpu, TypeOK
<1>15. ASSUME NEW c \in CPUS, NEW p \in Slots, SleepTest(c, p) PROVE OneCpuEach'
  BY <1>15 DEF SleepTest, On, KeepTicksLock, TypeOK
<1>16. ASSUME NEW c \in CPUS, NEW p \in Slots, TickSleep(c, p) PROVE OneCpuEach'
  BY <1>16 DEF TickSleep, On, LeaveCpu, TypeOK
<1>17. ASSUME NEW c \in CPUS, NEW p \in Slots, IoSleep(c, p) PROVE OneCpuEach'
  BY <1>17 DEF IoSleep, On, LeaveCpu, TypeOK
<1>18. ASSUME NEW c \in CPUS, NEW p \in Slots, TimerExit(c, p) PROVE OneCpuEach'
  BY <1>18 DEF TimerExit, TypeOK
<1>19. ASSUME NEW c \in CPUS, NEW p \in Slots, Yield(c, p) PROVE OneCpuEach'
  BY <1>19 DEF Yield, LeaveCpu, TypeOK
<1>20. ASSUME NEW c \in CPUS, NEW p \in Slots, Dispatch(c, p) PROVE OneCpuEach'
  BY <1>20 DEF Dispatch, TypeOK
<1>21. ASSUME NEW c \in CPUS, NEW p \in Slots, NEW q \in Slots,
              AllocProc(c, p, q) PROVE OneCpuEach'
  BY <1>21 DEF AllocProc, On, FirstUnused, TakePid, TypeOK
<1>22. ASSUME NEW c \in CPUS, NEW p \in Slots, NEW q \in Slots,
              Reap(c, p, q) PROVE OneCpuEach'
  BY <1>22 DEF Reap, InWait, On, Zombies, Kids, TypeOK
<1>23. ASSUME NEW c \in CPUS, NEW p \in Slots, NEW q \in Slots,
              NEW n \in KillPids,
              Kill(c, p, n, q) PROVE OneCpuEach'
  BY <1>23 DEF Kill, On, Rouse, TypeOK
<1> QED
    BY <1>1, <1>2, <1>3, <1>4, <1>5, <1>6, <1>7, <1>8, <1>9, <1>10, <1>11,
     <1>12, <1>13, <1>14, <1>15, <1>16, <1>17, <1>18, <1>19, <1>20, <1>21,
     <1>22, <1>23 DEF PtNext

LEMMA EmbryoOwnedStep ==
  TypeOK /\ OneCpuEach /\ EmbryoOwned /\ [PtNext]_ptVars => EmbryoOwned'
<1> SUFFICES ASSUME TypeOK, OneCpuEach, EmbryoOwned, [PtNext]_ptVars PROVE EmbryoOwned'
  OBVIOUS
<1> USE DEF OneCpuEach, EmbryoOwned, Live
<1>1. CASE UNCHANGED ptVars
  BY <1>1 DEF ptVars
<1>2. CASE IoWakeup
  <2>1. \A q \in Slots : RousedOrSame(q)
    BY <1>2, IoWakeupRouses
  <2>2. UNCHANGED <<pid, nextpid, np, pc, cpu>>
    BY <1>2 DEF IoWakeup
  <2> QED
    BY <2>1, <2>2 DEF RousedOrSame, TypeOK
<1>3. ASSUME NEW c \in CPUS, Timer(c) PROVE EmbryoOwned'
  <2>1. \A q \in Slots : RousedOrSame(q)
    BY <1>3, TimerRouses
  <2>2. UNCHANGED <<pid, nextpid, np, pc, cpu>>
    BY <1>3 DEF Timer
  <2> QED
    BY <2>1, <2>2 DEF RousedOrSame, TypeOK
<1>4. ASSUME NEW c \in CPUS, ScanEnd(c) PROVE EmbryoOwned'
  BY <1>4 DEF ScanEnd, TypeOK
<1>5. ASSUME NEW c \in CPUS, NEW p \in Slots, Enter(c, p) PROVE EmbryoOwned'
  BY <1>5 DEF Enter, On, TypeOK
<1>6. ASSUME NEW c \in CPUS, NEW p \in Slots, Fault(c, p) PROVE EmbryoOwned'
  BY <1>6 DEF Fault, On, TypeOK
<1>7. ASSUME NEW c \in CPUS, NEW p \in Slots, ExitCall(c, p) PROVE EmbryoOwned'
  BY <1>7 DEF ExitCall, On, TypeOK
<1>8. ASSUME NEW c \in CPUS, NEW p \in Slots, Exit(c, p) PROVE EmbryoOwned'
  <2>1. state'[p] = "ZOMBIE" /\ \A q \in Slots \ {p} : RousedOrSame(q)
    BY <1>8, ExitRouses
  <2>2. pc[p] = "exit" /\ state[p] = "RUNNING" /\ UNCHANGED <<np, pc>>
    BY <1>8 DEF Exit, On
  <2> QED
    BY <2>1, <2>2 DEF RousedOrSame, TypeOK
<1>9. ASSUME NEW c \in CPUS, NEW p \in Slots, OtherCall(c, p) PROVE EmbryoOwned'
  BY <1>9 DEF OtherCall, On, TypeOK
<1>10. ASSUME NEW c \in CPUS, NEW p \in Slots, AllocFail(c, p) PROVE EmbryoOwned'
  BY <1>10 DEF AllocFail, On, TypeOK
<1>11. ASSUME NEW c \in CPUS, NEW p \in Slots, ForkAbort(c, p) PROVE EmbryoOwned'
  BY <1>11 DEF ForkAbort, On, TypeOK
<1>12. ASSUME NEW c \in CPUS, NEW p \in Slots, ForkDone(c, p) PROVE EmbryoOwned'
  BY <1>12 DEF ForkDone, On, TypeOK
<1>13. ASSUME NEW c \in CPUS, NEW p \in Slots, WaitFail(c, p) PROVE EmbryoOwned'
  BY <1>13 DEF WaitFail, InWait, On, TypeOK
<1>14. ASSUME NEW c \in CPUS, NEW p \in Slots, WaitSleep(c, p) PROVE EmbryoOwned'
  BY <1>14 DEF WaitSleep, InWait, On, LeaveCpu, TypeOK
<1>15. ASSUME NEW c \in CPUS, NEW p \in Slots, SleepTest(c, p) PROVE EmbryoOwned'
  BY <1>15 DEF SleepTest, On, KeepTicksLock, TypeOK
<1>16. ASSUME NEW c \in CPUS, NEW p \in Slots, TickSleep(c, p) PROVE EmbryoOwned'
  BY <1>16 DEF TickSleep, On, LeaveCpu, TypeOK
<1>17. ASSUME NEW c \in CPUS, NEW p \in Slots, IoSleep(c, p) PROVE EmbryoOwned'
  BY <1>17 DEF IoSleep, On, LeaveCpu, TypeOK
<1>18. ASSUME NEW c \in CPUS, NEW p \in Slots, TimerExit(c, p) PROVE EmbryoOwned'
  BY <1>18 DEF TimerExit, TypeOK
<1>19. ASSUME NEW c \in CPUS, NEW p \in Slots, Yield(c, p) PROVE EmbryoOwned'
  BY <1>19 DEF Yield, LeaveCpu, TypeOK
<1>20. ASSUME NEW c \in CPUS, NEW p \in Slots, Dispatch(c, p) PROVE EmbryoOwned'
  BY <1>20 DEF Dispatch, TypeOK
<1>21. ASSUME NEW c \in CPUS, NEW p \in Slots, NEW q \in Slots,
              AllocProc(c, p, q) PROVE EmbryoOwned'
  BY <1>21 DEF AllocProc, On, FirstUnused, TakePid, TypeOK
<1>22. ASSUME NEW c \in CPUS, NEW p \in Slots, NEW q \in Slots,
              Reap(c, p, q) PROVE EmbryoOwned'
  BY <1>22 DEF Reap, InWait, On, Zombies, Kids, TypeOK
<1>23. ASSUME NEW c \in CPUS, NEW p \in Slots, NEW q \in Slots,
              NEW n \in KillPids,
              Kill(c, p, n, q) PROVE EmbryoOwned'
  BY <1>23 DEF Kill, On, Rouse, TypeOK
<1> QED
    BY <1>1, <1>2, <1>3, <1>4, <1>5, <1>6, <1>7, <1>8, <1>9, <1>10, <1>11,
     <1>12, <1>13, <1>14, <1>15, <1>16, <1>17, <1>18, <1>19, <1>20, <1>21,
     <1>22, <1>23 DEF PtNext

LEMMA RootedStep ==
  TypeOK /\ OneCpuEach /\ EmbryoOwned /\ Rooted /\ [PtNext]_ptVars => Rooted'
<1> SUFFICES ASSUME TypeOK, OneCpuEach, EmbryoOwned, Rooted, [PtNext]_ptVars PROVE Rooted'
  OBVIOUS
<1> USE DEF Rooted, EmbryoOwned, Live
<1>1. CASE UNCHANGED ptVars
  BY <1>1 DEF ptVars
<1>2. CASE IoWakeup
  BY <1>2 DEF IoWakeup, TypeOK
<1>3. ASSUME NEW c \in CPUS, Timer(c) PROVE Rooted'
  BY <1>3 DEF Timer, TypeOK
<1>4. ASSUME NEW c \in CPUS, ScanEnd(c) PROVE Rooted'
  BY <1>4 DEF ScanEnd, TypeOK
<1>5. ASSUME NEW c \in CPUS, NEW p \in Slots, Enter(c, p) PROVE Rooted'
  BY <1>5 DEF Enter, On, TypeOK
<1>6. ASSUME NEW c \in CPUS, NEW p \in Slots, Fault(c, p) PROVE Rooted'
  BY <1>6 DEF Fault, On, TypeOK
<1>7. ASSUME NEW c \in CPUS, NEW p \in Slots, ExitCall(c, p) PROVE Rooted'
  BY <1>7 DEF ExitCall, On, TypeOK
<1>8. ASSUME NEW c \in CPUS, NEW p \in Slots, Exit(c, p) PROVE Rooted'
  BY <1>8 DEF Exit, On, LeaveCpu, Adopt, TypeOK
<1>9. ASSUME NEW c \in CPUS, NEW p \in Slots, OtherCall(c, p) PROVE Rooted'
  BY <1>9 DEF OtherCall, On, TypeOK
<1>10. ASSUME NEW c \in CPUS, NEW p \in Slots, AllocFail(c, p) PROVE Rooted'
  BY <1>10 DEF AllocFail, On, TypeOK
<1>11. ASSUME NEW c \in CPUS, NEW p \in Slots, ForkAbort(c, p) PROVE Rooted'
  BY <1>11 DEF ForkAbort, On, TypeOK
<1>12. ASSUME NEW c \in CPUS, NEW p \in Slots, ForkDone(c, p) PROVE Rooted'
  BY <1>12 DEF ForkDone, On, TypeOK
<1>13. ASSUME NEW c \in CPUS, NEW p \in Slots, WaitFail(c, p) PROVE Rooted'
  BY <1>13 DEF WaitFail, InWait, On, TypeOK
<1>14. ASSUME NEW c \in CPUS, NEW p \in Slots, WaitSleep(c, p) PROVE Rooted'
  BY <1>14 DEF WaitSleep, InWait, On, LeaveCpu, TypeOK
<1>15. ASSUME NEW c \in CPUS, NEW p \in Slots, SleepTest(c, p) PROVE Rooted'
  BY <1>15 DEF SleepTest, On, KeepTicksLock, TypeOK
<1>16. ASSUME NEW c \in CPUS, NEW p \in Slots, TickSleep(c, p) PROVE Rooted'
  BY <1>16 DEF TickSleep, On, LeaveCpu, TypeOK
<1>17. ASSUME NEW c \in CPUS, NEW p \in Slots, IoSleep(c, p) PROVE Rooted'
  BY <1>17 DEF IoSleep, On, LeaveCpu, TypeOK
<1>18. ASSUME NEW c \in CPUS, NEW p \in Slots, TimerExit(c, p) PROVE Rooted'
  BY <1>18 DEF TimerExit, TypeOK
<1>19. ASSUME NEW c \in CPUS, NEW p \in Slots, Yield(c, p) PROVE Rooted'
  BY <1>19 DEF Yield, LeaveCpu, TypeOK
<1>20. ASSUME NEW c \in CPUS, NEW p \in Slots, Dispatch(c, p) PROVE Rooted'
  BY <1>20 DEF Dispatch, TypeOK
<1>21. ASSUME NEW c \in CPUS, NEW p \in Slots, NEW q \in Slots,
              AllocProc(c, p, q) PROVE Rooted'
  BY <1>21 DEF AllocProc, On, FirstUnused, TakePid, TypeOK
<1>22. ASSUME NEW c \in CPUS, NEW p \in Slots, NEW q \in Slots,
              Reap(c, p, q) PROVE Rooted'
  BY <1>22 DEF Reap, InWait, On, Zombies, Kids, TypeOK
<1>23. ASSUME NEW c \in CPUS, NEW p \in Slots, NEW q \in Slots,
              NEW n \in KillPids,
              Kill(c, p, n, q) PROVE Rooted'
  BY <1>23 DEF Kill, On, Rouse, TypeOK
<1> QED
    BY <1>1, <1>2, <1>3, <1>4, <1>5, <1>6, <1>7, <1>8, <1>9, <1>10, <1>11,
     <1>12, <1>13, <1>14, <1>15, <1>16, <1>17, <1>18, <1>19, <1>20, <1>21,
     <1>22, <1>23 DEF PtNext

LEMMA DozeHoldsClockStep ==
  TypeOK /\ EmbryoOwned /\ DozeHoldsClock /\ [PtNext]_ptVars => DozeHoldsClock'
<1> SUFFICES ASSUME TypeOK, EmbryoOwned, DozeHoldsClock, [PtNext]_ptVars PROVE DozeHoldsClock'
  OBVIOUS
<1> USE DEF DozeHoldsClock
<1>1. CASE UNCHANGED ptVars
  BY <1>1 DEF ptVars
<1>2. CASE IoWakeup
  BY <1>2 DEF IoWakeup, TypeOK
<1>3. ASSUME NEW c \in CPUS, Timer(c) PROVE DozeHoldsClock'
  BY <1>3 DEF Timer, TypeOK
<1>4. ASSUME NEW c \in CPUS, ScanEnd(c) PROVE DozeHoldsClock'
  BY <1>4 DEF ScanEnd, TypeOK
<1>5. ASSUME NEW c \in CPUS, NEW p \in Slots, Enter(c, p) PROVE DozeHoldsClock'
  BY <1>5 DEF Enter, On, TypeOK
<1>6. ASSUME NEW c \in CPUS, NEW p \in Slots, Fault(c, p) PROVE DozeHoldsClock'
  BY <1>6 DEF Fault, On, TypeOK
<1>7. ASSUME NEW c \in CPUS, NEW p \in Slots, ExitCall(c, p) PROVE DozeHoldsClock'
  BY <1>7 DEF ExitCall, On, TypeOK
<1>8. ASSUME NEW c \in CPUS, NEW p \in Slots, Exit(c, p) PROVE DozeHoldsClock'
  BY <1>8 DEF Exit, On, LeaveCpu, Adopt, TypeOK
<1>9. ASSUME NEW c \in CPUS, NEW p \in Slots, OtherCall(c, p) PROVE DozeHoldsClock'
  BY <1>9 DEF OtherCall, On, TypeOK
<1>10. ASSUME NEW c \in CPUS, NEW p \in Slots, AllocFail(c, p) PROVE DozeHoldsClock'
  BY <1>10 DEF AllocFail, On, TypeOK
<1>11. ASSUME NEW c \in CPUS, NEW p \in Slots, ForkAbort(c, p) PROVE DozeHoldsClock'
  BY <1>11 DEF ForkAbort, On, TypeOK
<1>12. ASSUME NEW c \in CPUS, NEW p \in Slots, ForkDone(c, p) PROVE DozeHoldsClock'
  BY <1>12 DEF ForkDone, On, TypeOK
<1>13. ASSUME NEW c \in CPUS, NEW p \in Slots, WaitFail(c, p) PROVE DozeHoldsClock'
  BY <1>13 DEF WaitFail, InWait, On, TypeOK
<1>14. ASSUME NEW c \in CPUS, NEW p \in Slots, WaitSleep(c, p) PROVE DozeHoldsClock'
  BY <1>14 DEF WaitSleep, InWait, On, LeaveCpu, TypeOK
<1>15. ASSUME NEW c \in CPUS, NEW p \in Slots, SleepTest(c, p) PROVE DozeHoldsClock'
  <2>1. \A q \in Slots : pc[q] # "doze"
    BY <1>15 DEF SleepTest
  <2>2. due' \in [Slots -> Nat]
    BY <1>15, ProcTableAssumption DEF SleepTest, TypeOK
  <2>3. \/ pc' = [pc EXCEPT ![p] = "user"]
        \/ due'[p] # 0 /\ tickslock' = p /\ pc' = [pc EXCEPT ![p] = "doze"]
    BY <1>15 DEF SleepTest, KeepTicksLock
  <2> QED
    BY <2>1, <2>2, <2>3 DEF TypeOK
<1>16. ASSUME NEW c \in CPUS, NEW p \in Slots, TickSleep(c, p) PROVE DozeHoldsClock'
  BY <1>16 DEF TickSleep, On, LeaveCpu, TypeOK
<1>17. ASSUME NEW c \in CPUS, NEW p \in Slots, IoSleep(c, p) PROVE DozeHoldsClock'
  BY <1>17 DEF IoSleep, On, LeaveCpu, TypeOK
<1>18. ASSUME NEW c \in CPUS, NEW p \in Slots, TimerExit(c, p) PROVE DozeHoldsClock'
  BY <1>18 DEF TimerExit, TypeOK
<1>19. ASSUME NEW c \in CPUS, NEW p \in Slots, Yield(c, p) PROVE DozeHoldsClock'
  BY <1>19 DEF Yield, LeaveCpu, TypeOK
<1>20. ASSUME NEW c \in CPUS, NEW p \in Slots, Dispatch(c, p) PROVE DozeHoldsClock'
  BY <1>20 DEF Dispatch, TypeOK
<1>21. ASSUME NEW c \in CPUS, NEW p \in Slots, NEW q \in Slots,
              AllocProc(c, p, q) PROVE DozeHoldsClock'
  BY <1>21 DEF AllocProc, On, FirstUnused, TakePid, TypeOK
<1>22. ASSUME NEW c \in CPUS, NEW p \in Slots, NEW q \in Slots,
              Reap(c, p, q) PROVE DozeHoldsClock'
  BY <1>22 DEF Reap, InWait, On, Zombies, Kids, TypeOK
<1>23. ASSUME NEW c \in CPUS, NEW p \in Slots, NEW q \in Slots,
              NEW n \in KillPids,
              Kill(c, p, n, q) PROVE DozeHoldsClock'
  BY <1>23 DEF Kill, On, Rouse, TypeOK
<1> QED
    BY <1>1, <1>2, <1>3, <1>4, <1>5, <1>6, <1>7, <1>8, <1>9, <1>10, <1>11,
     <1>12, <1>13, <1>14, <1>15, <1>16, <1>17, <1>18, <1>19, <1>20, <1>21,
     <1>22, <1>23 DEF PtNext

LEMMA PidsBelowStep ==
  TypeOK /\ OneCpuEach /\ EmbryoOwned /\ PidsBelow /\ [PtNext]_ptVars => PidsBelow'
<1> SUFFICES ASSUME TypeOK, OneCpuEach, EmbryoOwned, PidsBelow, [PtNext]_ptVars PROVE PidsBelow'
  OBVIOUS
<1> USE DEF PidsBelow, OneCpuEach, EmbryoOwned
<1>1. CASE UNCHANGED ptVars
  BY <1>1 DEF ptVars
<1>2. CASE IoWakeup
  <2>1. \A q \in Slots : RousedOrSame(q)
    BY <1>2, IoWakeupRouses
  <2>2. UNCHANGED <<pid, nextpid, np, pc, cpu>>
    BY <1>2 DEF IoWakeup
  <2> QED
    BY <2>1, <2>2 DEF RousedOrSame, TypeOK
<1>3. ASSUME NEW c \in CPUS, Timer(c) PROVE PidsBelow'
  <2>1. \A q \in Slots : RousedOrSame(q)
    BY <1>3, TimerRouses
  <2>2. UNCHANGED <<pid, nextpid, np, pc, cpu>>
    BY <1>3 DEF Timer
  <2> QED
    BY <2>1, <2>2 DEF RousedOrSame, TypeOK
<1>4. ASSUME NEW c \in CPUS, ScanEnd(c) PROVE PidsBelow'
  BY <1>4 DEF ScanEnd, TypeOK
<1>5. ASSUME NEW c \in CPUS, NEW p \in Slots, Enter(c, p) PROVE PidsBelow'
  BY <1>5 DEF Enter, On, TypeOK
<1>6. ASSUME NEW c \in CPUS, NEW p \in Slots, Fault(c, p) PROVE PidsBelow'
  BY <1>6 DEF Fault, On, TypeOK
<1>7. ASSUME NEW c \in CPUS, NEW p \in Slots, ExitCall(c, p) PROVE PidsBelow'
  BY <1>7 DEF ExitCall, On, TypeOK
<1>8. ASSUME NEW c \in CPUS, NEW p \in Slots, Exit(c, p) PROVE PidsBelow'
  <2>1. state'[p] = "ZOMBIE" /\ \A q \in Slots \ {p} : RousedOrSame(q)
    BY <1>8, ExitRouses
  <2>2. state[p] = "RUNNING" /\ UNCHANGED <<pid, nextpid>>
    BY <1>8 DEF Exit, On
  <2> QED
    BY <2>1, <2>2 DEF RousedOrSame, TypeOK
<1>9. ASSUME NEW c \in CPUS, NEW p \in Slots, OtherCall(c, p) PROVE PidsBelow'
  BY <1>9 DEF OtherCall, On, TypeOK
<1>10. ASSUME NEW c \in CPUS, NEW p \in Slots, AllocFail(c, p) PROVE PidsBelow'
  BY <1>10 DEF AllocFail, On, TypeOK
<1>11. ASSUME NEW c \in CPUS, NEW p \in Slots, ForkAbort(c, p) PROVE PidsBelow'
  BY <1>11 DEF ForkAbort, On, TypeOK
<1>12. ASSUME NEW c \in CPUS, NEW p \in Slots, ForkDone(c, p) PROVE PidsBelow'
  BY <1>12 DEF ForkDone, On, TypeOK
<1>13. ASSUME NEW c \in CPUS, NEW p \in Slots, WaitFail(c, p) PROVE PidsBelow'
  BY <1>13 DEF WaitFail, InWait, On, TypeOK
<1>14. ASSUME NEW c \in CPUS, NEW p \in Slots, WaitSleep(c, p) PROVE PidsBelow'
  BY <1>14 DEF WaitSleep, InWait, On, LeaveCpu, TypeOK
<1>15. ASSUME NEW c \in CPUS, NEW p \in Slots, SleepTest(c, p) PROVE PidsBelow'
  BY <1>15 DEF SleepTest, On, KeepTicksLock, TypeOK
<1>16. ASSUME NEW c \in CPUS, NEW p \in Slots, TickSleep(c, p) PROVE PidsBelow'
  BY <1>16 DEF TickSleep, On, LeaveCpu, TypeOK
<1>17. ASSUME NEW c \in CPUS, NEW p \in Slots, IoSleep(c, p) PROVE PidsBelow'
  BY <1>17 DEF IoSleep, On, LeaveCpu, TypeOK
<1>18. ASSUME NEW c \in CPUS, NEW p \in Slots, TimerExit(c, p) PROVE PidsBelow'
  BY <1>18 DEF TimerExit, TypeOK
<1>19. ASSUME NEW c \in CPUS, NEW p \in Slots, Yield(c, p) PROVE PidsBelow'
  BY <1>19 DEF Yield, LeaveCpu, TypeOK
<1>20. ASSUME NEW c \in CPUS, NEW p \in Slots, Dispatch(c, p) PROVE PidsBelow'
  BY <1>20 DEF Dispatch, TypeOK
<1>21. ASSUME NEW c \in CPUS, NEW p \in Slots, NEW q \in Slots,
              AllocProc(c, p, q) PROVE PidsBelow'
  BY <1>21 DEF AllocProc, On, FirstUnused, TakePid, TypeOK
<1>22. ASSUME NEW c \in CPUS, NEW p \in Slots, NEW q \in Slots,
              Reap(c, p, q) PROVE PidsBelow'
  BY <1>22 DEF Reap, InWait, On, Zombies, Kids, TypeOK
<1>23. ASSUME NEW c \in CPUS, NEW p \in Slots, NEW q \in Slots,
              NEW n \in KillPids,
              Kill(c, p, n, q) PROVE PidsBelow'
  BY <1>23 DEF Kill, On, Rouse, TypeOK
<1> QED
    BY <1>1, <1>2, <1>3, <1>4, <1>5, <1>6, <1>7, <1>8, <1>9, <1>10, <1>11,
     <1>12, <1>13, <1>14, <1>15, <1>16, <1>17, <1>18, <1>19, <1>20, <1>21,
     <1>22, <1>23 DEF PtNext

LEMMA ParentAliveStep ==
  TypeOK /\ OneCpuEach /\ EmbryoOwned /\ Rooted /\ ParentAlive /\ [PtNext]_ptVars => ParentAlive'
<1> SUFFICES ASSUME TypeOK, OneCpuEach, EmbryoOwned, Rooted, ParentAlive, [PtNext]_ptVars PROVE ParentAlive'
  OBVIOUS
<1> USE DEF ParentAlive, OneCpuEach, EmbryoOwned, Rooted, Live
<1>1. CASE UNCHANGED ptVars
  BY <1>1 DEF ptVars
<1>2. CASE IoWakeup
  <2>1. \A q \in Slots : RousedOrSame(q)
    BY <1>2, IoWakeupRouses
  <2>2. UNCHANGED <<parent, chan, pc>>
    BY <1>2 DEF IoWakeup
  <2> QED
    BY <2>1, <2>2 DEF RousedOrSame
<1>3. ASSUME NEW c \in CPUS, Timer(c) PROVE ParentAlive'
  <2>1. \A q \in Slots : RousedOrSame(q)
    BY <1>3, TimerRouses
  <2>2. UNCHANGED <<parent, chan, pc>>
    BY <1>3 DEF Timer
  <2> QED
    BY <2>1, <2>2 DEF RousedOrSame
<1>4. ASSUME NEW c \in CPUS, ScanEnd(c) PROVE ParentAlive'
  BY <1>4 DEF ScanEnd, TypeOK
<1>5. ASSUME NEW c \in CPUS, NEW p \in Slots, Enter(c, p) PROVE ParentAlive'
  BY <1>5 DEF Enter, On, TypeOK
<1>6. ASSUME NEW c \in CPUS, NEW p \in Slots, Fault(c, p) PROVE ParentAlive'
  BY <1>6 DEF Fault, On, TypeOK
<1>7. ASSUME NEW c \in CPUS, NEW p \in Slots, ExitCall(c, p) PROVE ParentAlive'
  BY <1>7 DEF ExitCall, On, TypeOK
<1>8. ASSUME NEW c \in CPUS, NEW p \in Slots, Exit(c, p) PROVE ParentAlive'
  <2>1. state'[p] = "ZOMBIE" /\ \A q \in Slots \ {p} : RousedOrSame(q)
    BY <1>8, ExitRouses
  <2>2. state[p] = "RUNNING" /\ p # InitProc
    BY <1>8 DEF Exit, On
  <2>3. \A q \in Slots : parent'[q] = IF parent[q] = p THEN InitProc
                                     ELSE parent[q]
    BY <1>8 DEF Exit, Adopt
  <2> QED
    BY <2>1, <2>2, <2>3 DEF RousedOrSame, TypeOK
<1>9. ASSUME NEW c \in CPUS, NEW p \in Slots, OtherCall(c, p) PROVE ParentAlive'
  BY <1>9 DEF OtherCall, On, TypeOK
<1>10. ASSUME NEW c \in CPUS, NEW p \in Slots, AllocFail(c, p) PROVE ParentAlive'
  BY <1>10 DEF AllocFail, On, TypeOK
<1>11. ASSUME NEW c \in CPUS, NEW p \in Slots, ForkAbort(c, p) PROVE ParentAlive'
  BY <1>11 DEF ForkAbort, On, TypeOK
<1>12. ASSUME NEW c \in CPUS, NEW p \in Slots, ForkDone(c, p) PROVE ParentAlive'
  BY <1>12 DEF ForkDone, On, TypeOK
<1>13. ASSUME NEW c \in CPUS, NEW p \in Slots, WaitFail(c, p) PROVE ParentAlive'
  BY <1>13 DEF WaitFail, InWait, On, TypeOK
<1>14. ASSUME NEW c \in CPUS, NEW p \in Slots, WaitSleep(c, p) PROVE ParentAlive'
  BY <1>14 DEF WaitSleep, InWait, On, LeaveCpu, TypeOK
<1>15. ASSUME NEW c \in CPUS, NEW p \in Slots, SleepTest(c, p) PROVE ParentAlive'
  BY <1>15 DEF SleepTest, On, KeepTicksLock, TypeOK
<1>16. ASSUME NEW c \in CPUS, NEW p \in Slots, TickSleep(c, p) PROVE ParentAlive'
  BY <1>16 DEF TickSleep, On, LeaveCpu, TypeOK
<1>17. ASSUME NEW c \in CPUS, NEW p \in Slots, IoSleep(c, p) PROVE ParentAlive'
  BY <1>17 DEF IoSleep, On, LeaveCpu, TypeOK
<1>18. ASSUME NEW c \in CPUS, NEW p \in Slots, TimerExit(c, p) PROVE ParentAlive'
  BY <1>18 DEF TimerExit, TypeOK
<1>19. ASSUME NEW c \in CPUS, NEW p \in Slots, Yield(c, p) PROVE ParentAlive'
  BY <1>19 DEF Yield, LeaveCpu, TypeOK
<1>20. ASSUME NEW c \in CPUS, NEW p \in Slots, Dispatch(c, p) PROVE ParentAlive'
  BY <1>20 DEF Dispatch, TypeOK
<1>21. ASSUME NEW c \in CPUS, NEW p \in Slots, NEW q \in Slots,
              AllocProc(c, p, q) PROVE ParentAlive'
  BY <1>21 DEF AllocProc, On, FirstUnused, TakePid, TypeOK
<1>22. ASSUME NEW c \in CPUS, NEW p \in Slots, NEW q \in Slots,
              Reap(c, p, q) PROVE ParentAlive'
  BY <1>22 DEF Reap, InWait, On, Zombies, Kids, TypeOK
<1>23. ASSUME NEW c \in CPUS, NEW p \in Slots, NEW q \in Slots,
              NEW n \in KillPids,
              Kill(c, p, n, q) PROVE ParentAlive'
  BY <1>23 DEF Kill, On, Rouse, TypeOK
<1> QED
    BY <1>1, <1>2, <1>3, <1>4, <1>5, <1>6, <1>7, <1>8, <1>9, <1>10, <1>11,
     <1>12, <1>13, <1>14, <1>15, <1>16, <1>17, <1>18, <1>19, <1>20, <1>21,
     <1>22, <1>23 DEF PtNext

LEMMA NoMissedChildStep ==
  TypeOK /\ OneCpuEach /\ EmbryoOwned /\ Rooted /\ NoMissedChild /\ [PtNext]_ptVars => NoMissedChild'
<1> SUFFICES ASSUME TypeOK, OneCpuEach, EmbryoOwned, Rooted, NoMissedChild, [PtNext]_ptVars PROVE NoMissedChild'
  OBVIOUS
<1> USE DEF NoMissedChild, OneCpuEach, EmbryoOwned, Rooted, Live, Zombies, Kids
<1>1. CASE UNCHANGED ptVars
  BY <1>1 DEF ptVars
<1>2. CASE IoWakeup
  <2>1. \A q \in Slots : RousedOrSame(q)
    BY <1>2, IoWakeupRouses
  <2>2. UNCHANGED <<parent, chan, pc>>
    BY <1>2 DEF IoWakeup
  <2> QED
    BY <2>1, <2>2 DEF RousedOrSame
<1>3. ASSUME NEW c \in CPUS, Timer(c) PROVE NoMissedChild'
  <2>1. \A q \in Slots : RousedOrSame(q)
    BY <1>3, TimerRouses
  <2>2. UNCHANGED <<parent, chan, pc>>
    BY <1>3 DEF Timer
  <2> QED
    BY <2>1, <2>2 DEF RousedOrSame
<1>4. ASSUME NEW c \in CPUS, ScanEnd(c) PROVE NoMissedChild'
  BY <1>4 DEF ScanEnd, TypeOK
<1>5. ASSUME NEW c \in CPUS, NEW p \in Slots, Enter(c, p) PROVE NoMissedChild'
  BY <1>5 DEF Enter, On, TypeOK
<1>6. ASSUME NEW c \in CPUS, NEW p \in Slots, Fault(c, p) PROVE NoMissedChild'
  BY <1>6 DEF Fault, On, TypeOK
<1>7. ASSUME NEW c \in CPUS, NEW p \in Slots, ExitCall(c, p) PROVE NoMissedChild'
  BY <1>7 DEF ExitCall, On, TypeOK
<1>8. ASSUME NEW c \in CPUS, NEW p \in Slots, Exit(c, p) PROVE NoMissedChild'
  <2>1. state'[p] = "ZOMBIE" /\ \A q \in Slots \ {p} : RousedOrSame(q)
    BY <1>8, ExitRouses
  <2>2. \A q \in Slots : parent'[q] = IF parent[q] = p THEN InitProc
                                     ELSE parent[q]
    BY <1>8 DEF Exit, Adopt
  <2>3. p # InitProc /\ UNCHANGED chan
    BY <1>8 DEF Exit
  <2>4. \A q \in Slots : state'[q] = "SLEEPING" =>
          /\ q # p /\ state[q] = "SLEEPING" /\ q \notin ExitWakes(p)
    BY <1>8, <2>1 DEF Exit, RousedOrSame
  <2> SUFFICES ASSUME NEW r \in Slots, state'[r] = "SLEEPING", chan'[r] = r,
                      NEW z \in Slots, parent'[z] = r, state'[z] = "ZOMBIE"
               PROVE  FALSE
    OBVIOUS
  <2>5. state[r] = "SLEEPING" /\ chan[r] = r /\ r \notin ExitWakes(p)
    BY <2>3, <2>4
  <2>6. CASE z = p
    BY <2>2, <2>5, <2>6 DEF ExitWakes, Sleepers
  <2>7. CASE z # p /\ parent[z] = p
    <3>1. state[z] = "ZOMBIE" /\ r = InitProc
      BY <2>1, <2>2, <2>7 DEF RousedOrSame
    <3> QED
      BY <2>5, <2>7, <3>1 DEF ExitWakes, Sleepers
  <2>8. CASE z # p /\ parent[z] # p
    BY <2>1, <2>2, <2>5, <2>8 DEF RousedOrSame
  <2> QED
    BY <2>6, <2>7, <2>8
<1>9. ASSUME NEW c \in CPUS, NEW p \in Slots, OtherCall(c, p) PROVE NoMissedChild'
  BY <1>9 DEF OtherCall, On, TypeOK
<1>10. ASSUME NEW c \in CPUS, NEW p \in Slots, AllocFail(c, p) PROVE NoMissedChild'
  BY <1>10 DEF AllocFail, On, TypeOK
<1>11. ASSUME NEW c \in CPUS, NEW p \in Slots, ForkAbort(c, p) PROVE NoMissedChild'
  BY <1>11 DEF ForkAbort, On, TypeOK
<1>12. ASSUME NEW c \in CPUS, NEW p \in Slots, ForkDone(c, p) PROVE NoMissedChild'
  BY <1>12 DEF ForkDone, On, TypeOK
<1>13. ASSUME NEW c \in CPUS, NEW p \in Slots, WaitFail(c, p) PROVE NoMissedChild'
  BY <1>13 DEF WaitFail, InWait, On, TypeOK
<1>14. ASSUME NEW c \in CPUS, NEW p \in Slots, WaitSleep(c, p) PROVE NoMissedChild'
  BY <1>14 DEF WaitSleep, InWait, On, LeaveCpu, TypeOK
<1>15. ASSUME NEW c \in CPUS, NEW p \in Slots, SleepTest(c, p) PROVE NoMissedChild'
  BY <1>15 DEF SleepTest, On, KeepTicksLock, TypeOK
<1>16. ASSUME NEW c \in CPUS, NEW p \in Slots, TickSleep(c, p) PROVE NoMissedChild'
  BY <1>16 DEF TickSleep, On, LeaveCpu, TypeOK
<1>17. ASSUME NEW c \in CPUS, NEW p \in Slots, IoSleep(c, p) PROVE NoMissedChild'
  BY <1>17 DEF IoSleep, On, LeaveCpu, TypeOK
<1>18. ASSUME NEW c \in CPUS, NEW p \in Slots, TimerExit(c, p) PROVE NoMissedChild'
  BY <1>18 DEF TimerExit, TypeOK
<1>19. ASSUME NEW c \in CPUS, NEW p \in Slots, Yield(c, p) PROVE NoMissedChild'
  BY <1>19 DEF Yield, LeaveCpu, TypeOK
<1>20. ASSUME NEW c \in CPUS, NEW p \in Slots, Dispatch(c, p) PROVE NoMissedChild'
  BY <1>20 DEF Dispatch, TypeOK
<1>21. ASSUME NEW c \in CPUS, NEW p \in Slots, NEW q \in Slots,
              AllocProc(c, p, q) PROVE NoMissedChild'
  BY <1>21 DEF AllocProc, On, FirstUnused, TakePid, TypeOK
<1>22. ASSUME NEW c \in CPUS, NEW p \in Slots, NEW q \in Slots,
              Reap(c, p, q) PROVE NoMissedChild'
  BY <1>22 DEF Reap, InWait, On, Zombies, Kids, TypeOK
<1>23. ASSUME NEW c \in CPUS, NEW p \in Slots, NEW q \in Slots,
              NEW n \in KillPids,
              Kill(c, p, n, q) PROVE NoMissedChild'
  BY <1>23 DEF Kill, On, Rouse, TypeOK
<1> QED
    BY <1>1, <1>2, <1>3, <1>4, <1>5, <1>6, <1>7, <1>8, <1>9, <1>10, <1>11,
     <1>12, <1>13, <1>14, <1>15, <1>16, <1>17, <1>18, <1>19, <1>20, <1>21,
     <1>22, <1>23 DEF PtNext

LEMMA NoMissedTickStep ==
  TypeOK /\ OneCpuEach /\ EmbryoOwned /\ DozeHoldsClock /\ NoMissedTick /\ [PtNext]_ptVars => NoMissedTick'
<1> SUFFICES ASSUME TypeOK, OneCpuEach, EmbryoOwned, DozeHoldsClock, NoMissedTick, [PtNext]_ptVars PROVE NoMissedTick'
  OBVIOUS
<1> USE DEF NoMissedTick, OneCpuEach, EmbryoOwned, DozeHoldsClock
<1>1. CASE UNCHANGED ptVars
  BY <1>1 DEF ptVars
<1>2. CASE IoWakeup
  <2>1. \A q \in Slots : RousedOrSame(q)
    BY <1>2, IoWakeupRouses
  <2>2. UNCHANGED <<parent, chan, pc, due>>
    BY <1>2 DEF IoWakeup
  <2> QED
    BY <2>1, <2>2 DEF RousedOrSame
<1>3. ASSUME NEW c \in CPUS, Timer(c) PROVE NoMissedTick'
  <2>1. \A q \in Slots : RousedOrSame(q)
    BY <1>3, TimerRouses
  <2>2. UNCHANGED <<chan, pc>>
    BY <1>3 DEF Timer
  <2>3. CASE c = BootCpu
    <3>1. \A q \in Slots : state'[q] = "SLEEPING" => chan[q] # TicksChan
      BY <1>3, <2>3 DEF Timer, Sleepers
    <3> QED
      BY <2>2, <3>1
  <2>4. CASE c # BootCpu
    BY <1>3, <2>1, <2>2, <2>4 DEF Timer, RousedOrSame
  <2> QED
    BY <2>3, <2>4
<1>4. ASSUME NEW c \in CPUS, ScanEnd(c) PROVE NoMissedTick'
  BY <1>4 DEF ScanEnd, TypeOK
<1>5. ASSUME NEW c \in CPUS, NEW p \in Slots, Enter(c, p) PROVE NoMissedTick'
  BY <1>5 DEF Enter, On, TypeOK
<1>6. ASSUME NEW c \in CPUS, NEW p \in Slots, Fault(c, p) PROVE NoMissedTick'
  BY <1>6 DEF Fault, On, TypeOK
<1>7. ASSUME NEW c \in CPUS, NEW p \in Slots, ExitCall(c, p) PROVE NoMissedTick'
  BY <1>7 DEF ExitCall, On, TypeOK
<1>8. ASSUME NEW c \in CPUS, NEW p \in Slots, Exit(c, p) PROVE NoMissedTick'
  <2>1. state'[p] = "ZOMBIE" /\ \A q \in Slots \ {p} : RousedOrSame(q)
    BY <1>8, ExitRouses
  <2>2. UNCHANGED <<chan, pc, due>>
    BY <1>8 DEF Exit
  <2> QED
    BY <2>1, <2>2 DEF RousedOrSame
<1>9. ASSUME NEW c \in CPUS, NEW p \in Slots, OtherCall(c, p) PROVE NoMissedTick'
  BY <1>9 DEF OtherCall, On, TypeOK
<1>10. ASSUME NEW c \in CPUS, NEW p \in Slots, AllocFail(c, p) PROVE NoMissedTick'
  BY <1>10 DEF AllocFail, On, TypeOK
<1>11. ASSUME NEW c \in CPUS, NEW p \in Slots, ForkAbort(c, p) PROVE NoMissedTick'
  BY <1>11 DEF ForkAbort, On, TypeOK
<1>12. ASSUME NEW c \in CPUS, NEW p \in Slots, ForkDone(c, p) PROVE NoMissedTick'
  BY <1>12 DEF ForkDone, On, TypeOK
<1>13. ASSUME NEW c \in CPUS, NEW p \in Slots, WaitFail(c, p) PROVE NoMissedTick'
  BY <1>13 DEF WaitFail, InWait, On, TypeOK
<1>14. ASSUME NEW c \in CPUS, NEW p \in Slots, WaitSleep(c, p) PROVE NoMissedTick'
  BY <1>14 DEF WaitSleep, InWait, On, LeaveCpu, TypeOK
<1>15. ASSUME NEW c \in CPUS, NEW p \in Slots, SleepTest(c, p) PROVE NoMissedTick'
  BY <1>15 DEF SleepTest, On, KeepTicksLock, TypeOK
<1>16. ASSUME NEW c \in CPUS, NEW p \in Slots, TickSleep(c, p) PROVE NoMissedTick'
  BY <1>16 DEF TickSleep, On, LeaveCpu, TypeOK
<1>17. ASSUME NEW c \in CPUS, NEW p \in Slots, IoSleep(c, p) PROVE NoMissedTick'
  BY <1>17 DEF IoSleep, On, LeaveCpu, TypeOK
<1>18. ASSUME NEW c \in CPUS, NEW p \in Slots, TimerExit(c, p) PROVE NoMissedTick'
  BY <1>18 DEF TimerExit, TypeOK
<1>19. ASSUME NEW c \in CPUS, NEW p \in Slots, Yield(c, p) PROVE NoMissedTick'
  BY <1>19 DEF Yield, LeaveCpu, TypeOK
<1>20. ASSUME NEW c \in CPUS, NEW p \in Slots, Dispatch(c, p) PROVE NoMissedTick'
  BY <1>20 DEF Dispatch, TypeOK
<1>21. ASSUME NEW c \in CPUS, NEW p \in Slots, NEW q \in Slots,
              AllocProc(c, p, q) PROVE NoMissedTick'
  BY <1>21 DEF AllocProc, On, FirstUnused, TakePid, TypeOK
<1>22. ASSUME NEW c \in CPUS, NEW p \in Slots, NEW q \in Slots,
              Reap(c, p, q) PROVE NoMissedTick'
  BY <1>22 DEF Reap, InWait, On, Zombies, Kids, TypeOK
<1>23. ASSUME NEW c \in CPUS, NEW p \in Slots, NEW q \in Slots,
              NEW n \in KillPids,
              Kill(c, p, n, q) PROVE NoMissedTick'
  BY <1>23 DEF Kill, On, Rouse, TypeOK
<1> QED
    BY <1>1, <1>2, <1>3, <1>4, <1>5, <1>6, <1>7, <1>8, <1>9, <1>10, <1>11,
     <1>12, <1>13, <1>14, <1>15, <1>16, <1>17, <1>18, <1>19, <1>20, <1>21,
     <1>22, <1>23 DEF PtNext

-----------------------------------------------------------------------------
LEMMA PtInitIInv == PtInit => IInv
<1> SUFFICES ASSUME PtInit PROVE IInv
  OBVIOUS
<1>1. TypeOK
  BY PtInitTypeOK
<1>2. OneCpuEach /\ EmbryoOwned
  BY DEF PtInit, OneCpuEach, EmbryoOwned
<1>3. Rooted /\ ParentAlive
  BY DEF PtInit, Rooted, ParentAlive, Live
<1>4. NoMissedChild /\ DozeHoldsClock /\ NoMissedTick
  BY DEF PtInit, NoMissedChild, DozeHoldsClock, NoMissedTick
<1>5. PidsBelow
  BY DEF PtInit, PidsBelow
<1> QED
  BY <1>1, <1>2, <1>3, <1>4, <1>5 DEF IInv

LEMMA PtNextIInv == IInv /\ [PtNext]_ptVars => IInv'
  BY PtNextTypeOK, OneCpuEachStep, EmbryoOwnedStep, RootedStep,
     ParentAliveStep, NoMissedChildStep, DozeHoldsClockStep, NoMissedTickStep,
     PidsBelowStep DEF IInv

\* The invariant that carries the others holds of every run of the table, with
\* any number of slots and CPUs and whichever process each CPU picks.
THEOREM InvariantHolds == PtSpec => []IInv
  BY PtInitIInv, PtNextIInv, PTL DEF PtSpec

\* Every variable keeps its type.  (proc.c, struct proc and ptable.)
THEOREM TypeCorrect == PtSpec => []TypeOK
  BY InvariantHolds, PTL DEF IInv

\* No parent sleeps in wait() beside a zombie child of its own: the wakeup in
\* exit() is never lost.
THEOREM NoChildMissed == PtSpec => []NoMissedChild
  BY InvariantHolds, PTL DEF IInv

\* Whoever can still exit, or has, has a living parent to wait for it.
THEOREM ParentsLive == PtSpec => []ParentAlive
  BY InvariantHolds, PTL DEF IInv

\* A process runs on at most one CPU at a time.
THEOREM RunsOnOneCpu == PtSpec => []OneCpuEach
  BY InvariantHolds, PTL DEF IInv

\* The slot fork() fills in without the lock is its own.
THEOREM ForkOwnsItsSlot == PtSpec => []EmbryoOwned
  BY InvariantHolds, PTL DEF IInv

\* sys_sleep() loses no tick between its test of the clock and sleep().
THEOREM NoTickMissed == PtSpec => []NoMissedTick
  BY InvariantHolds, PTL DEF IInv

\* pids of processes that exist are distinct.
THEOREM PidsAreUnique == PtSpec => []PidsUnique
<1>1. IInv => PidsUnique
  BY DEF IInv, PidsBelow, PidsUnique, Live
<1> QED
  BY <1>1, InvariantHolds, PTL

LEMMA RevivedStep ==
  TypeOK /\ OneCpuEach /\ EmbryoOwned /\ [PtNext]_ptVars => ReapedIfRevived
<1> SUFFICES ASSUME TypeOK, OneCpuEach, EmbryoOwned, [PtNext]_ptVars PROVE ReapedIfRevived
  OBVIOUS
<1> USE DEF ReapedIfRevived, OneCpuEach, EmbryoOwned
<1>1. CASE UNCHANGED ptVars
  BY <1>1 DEF ptVars
<1>2. CASE IoWakeup
  BY <1>2, IoWakeupRouses DEF RousedOrSame
<1>3. ASSUME NEW c \in CPUS, Timer(c) PROVE ReapedIfRevived
  BY <1>3, TimerRouses DEF RousedOrSame
<1>4. ASSUME NEW c \in CPUS, ScanEnd(c) PROVE ReapedIfRevived
  BY <1>4 DEF ScanEnd, TypeOK
<1>5. ASSUME NEW c \in CPUS, NEW p \in Slots, Enter(c, p) PROVE ReapedIfRevived
  BY <1>5 DEF Enter, On, TypeOK
<1>6. ASSUME NEW c \in CPUS, NEW p \in Slots, Fault(c, p) PROVE ReapedIfRevived
  BY <1>6 DEF Fault, On, TypeOK
<1>7. ASSUME NEW c \in CPUS, NEW p \in Slots, ExitCall(c, p) PROVE ReapedIfRevived
  BY <1>7 DEF ExitCall, On, TypeOK
<1>8. ASSUME NEW c \in CPUS, NEW p \in Slots, Exit(c, p) PROVE ReapedIfRevived
  BY <1>8, ExitRouses DEF RousedOrSame
<1>9. ASSUME NEW c \in CPUS, NEW p \in Slots, OtherCall(c, p) PROVE ReapedIfRevived
  BY <1>9 DEF OtherCall, On, TypeOK
<1>10. ASSUME NEW c \in CPUS, NEW p \in Slots, AllocFail(c, p) PROVE ReapedIfRevived
  BY <1>10 DEF AllocFail, On, TypeOK
<1>11. ASSUME NEW c \in CPUS, NEW p \in Slots, ForkAbort(c, p) PROVE ReapedIfRevived
  BY <1>11 DEF ForkAbort, On, TypeOK
<1>12. ASSUME NEW c \in CPUS, NEW p \in Slots, ForkDone(c, p) PROVE ReapedIfRevived
  BY <1>12 DEF ForkDone, On, TypeOK
<1>13. ASSUME NEW c \in CPUS, NEW p \in Slots, WaitFail(c, p) PROVE ReapedIfRevived
  BY <1>13 DEF WaitFail, InWait, On, TypeOK
<1>14. ASSUME NEW c \in CPUS, NEW p \in Slots, WaitSleep(c, p) PROVE ReapedIfRevived
  BY <1>14 DEF WaitSleep, InWait, On, LeaveCpu, TypeOK
<1>15. ASSUME NEW c \in CPUS, NEW p \in Slots, SleepTest(c, p) PROVE ReapedIfRevived
  BY <1>15 DEF SleepTest, On, KeepTicksLock, TypeOK
<1>16. ASSUME NEW c \in CPUS, NEW p \in Slots, TickSleep(c, p) PROVE ReapedIfRevived
  BY <1>16 DEF TickSleep, On, LeaveCpu, TypeOK
<1>17. ASSUME NEW c \in CPUS, NEW p \in Slots, IoSleep(c, p) PROVE ReapedIfRevived
  BY <1>17 DEF IoSleep, On, LeaveCpu, TypeOK
<1>18. ASSUME NEW c \in CPUS, NEW p \in Slots, TimerExit(c, p) PROVE ReapedIfRevived
  BY <1>18 DEF TimerExit, TypeOK
<1>19. ASSUME NEW c \in CPUS, NEW p \in Slots, Yield(c, p) PROVE ReapedIfRevived
  BY <1>19 DEF Yield, LeaveCpu, TypeOK
<1>20. ASSUME NEW c \in CPUS, NEW p \in Slots, Dispatch(c, p) PROVE ReapedIfRevived
  BY <1>20 DEF Dispatch, TypeOK
<1>21. ASSUME NEW c \in CPUS, NEW p \in Slots, NEW q \in Slots,
              AllocProc(c, p, q) PROVE ReapedIfRevived
  BY <1>21 DEF AllocProc, On, FirstUnused, TakePid, TypeOK
<1>22. ASSUME NEW c \in CPUS, NEW p \in Slots, NEW q \in Slots,
              Reap(c, p, q) PROVE ReapedIfRevived
  BY <1>22 DEF Reap, InWait, On, Zombies, Kids, TypeOK
<1>23. ASSUME NEW c \in CPUS, NEW p \in Slots, NEW q \in Slots,
              NEW n \in KillPids,
              Kill(c, p, n, q) PROVE ReapedIfRevived
  BY <1>23 DEF Kill, On, Rouse, TypeOK
<1> QED
    BY <1>1, <1>2, <1>3, <1>4, <1>5, <1>6, <1>7, <1>8, <1>9, <1>10, <1>11,
     <1>12, <1>13, <1>14, <1>15, <1>16, <1>17, <1>18, <1>19, <1>20, <1>21,
     <1>22, <1>23 DEF PtNext

\* Only its parent's wait() takes a process out of ZOMBIE, and only to UNUSED.
THEOREM ZombiesStayDead == PtSpec => ZombieOnlyReaped
<1>1. IInv /\ [PtNext]_ptVars => [ReapedIfRevived]_ptVars
  BY RevivedStep DEF IInv
<1> QED
  BY <1>1, InvariantHolds, PTL DEF PtSpec, ZombieOnlyReaped

\* A process in the middle of fork() has an EMBRYO to publish.
ForkHasSlot == \A p \in Slots : pc[p] = "fork" => np[p] # NoProc

LEMMA ForkHasSlotStep ==
  TypeOK /\ EmbryoOwned /\ ForkHasSlot /\ [PtNext]_ptVars => ForkHasSlot'
<1> SUFFICES ASSUME TypeOK, EmbryoOwned, ForkHasSlot, [PtNext]_ptVars
             PROVE  ForkHasSlot'
  OBVIOUS
<1> USE DEF ForkHasSlot, TypeOK, EmbryoOwned
<1>1. CASE UNCHANGED ptVars
  BY <1>1 DEF ptVars
<1>2. CASE IoWakeup
  BY <1>2 DEF IoWakeup
<1>3. ASSUME NEW c \in CPUS, Timer(c) PROVE ForkHasSlot'
  BY <1>3 DEF Timer
<1>4. ASSUME NEW c \in CPUS, ScanEnd(c) PROVE ForkHasSlot'
  BY <1>4 DEF ScanEnd
<1>5. ASSUME NEW c \in CPUS, NEW p \in Slots, Enter(c, p) PROVE ForkHasSlot'
  BY <1>5 DEF Enter, On
<1>6. ASSUME NEW c \in CPUS, NEW p \in Slots, Fault(c, p) PROVE ForkHasSlot'
  BY <1>6 DEF Fault, On
<1>7. ASSUME NEW c \in CPUS, NEW p \in Slots, ExitCall(c, p) PROVE ForkHasSlot'
  BY <1>7 DEF ExitCall, On
<1>8. ASSUME NEW c \in CPUS, NEW p \in Slots, Exit(c, p) PROVE ForkHasSlot'
  BY <1>8 DEF Exit
<1>9. ASSUME NEW c \in CPUS, NEW p \in Slots, OtherCall(c, p) PROVE ForkHasSlot'
  BY <1>9 DEF OtherCall, On
<1>10. ASSUME NEW c \in CPUS, NEW p \in Slots, AllocFail(c, p) PROVE ForkHasSlot'
  BY <1>10 DEF AllocFail, On
<1>11. ASSUME NEW c \in CPUS, NEW p \in Slots, ForkAbort(c, p) PROVE ForkHasSlot'
  BY <1>11 DEF ForkAbort, On
<1>12. ASSUME NEW c \in CPUS, NEW p \in Slots, ForkDone(c, p) PROVE ForkHasSlot'
  BY <1>12 DEF ForkDone, On
<1>13. ASSUME NEW c \in CPUS, NEW p \in Slots, WaitFail(c, p) PROVE ForkHasSlot'
  BY <1>13 DEF WaitFail, InWait, On
<1>14. ASSUME NEW c \in CPUS, NEW p \in Slots, WaitSleep(c, p) PROVE ForkHasSlot'
  BY <1>14 DEF WaitSleep, InWait, On, LeaveCpu
<1>15. ASSUME NEW c \in CPUS, NEW p \in Slots, SleepTest(c, p) PROVE ForkHasSlot'
  BY <1>15 DEF SleepTest, On, KeepTicksLock
<1>16. ASSUME NEW c \in CPUS, NEW p \in Slots, TickSleep(c, p) PROVE ForkHasSlot'
  BY <1>16 DEF TickSleep, On, LeaveCpu
<1>17. ASSUME NEW c \in CPUS, NEW p \in Slots, IoSleep(c, p) PROVE ForkHasSlot'
  BY <1>17 DEF IoSleep, On, LeaveCpu
<1>18. ASSUME NEW c \in CPUS, NEW p \in Slots, TimerExit(c, p) PROVE ForkHasSlot'
  BY <1>18 DEF TimerExit
<1>19. ASSUME NEW c \in CPUS, NEW p \in Slots, Yield(c, p) PROVE ForkHasSlot'
  BY <1>19 DEF Yield, LeaveCpu
<1>20. ASSUME NEW c \in CPUS, NEW p \in Slots, Dispatch(c, p) PROVE ForkHasSlot'
  BY <1>20 DEF Dispatch
<1>21. ASSUME NEW c \in CPUS, NEW p \in Slots, NEW q \in Slots,
              AllocProc(c, p, q) PROVE ForkHasSlot'
  BY <1>21 DEF AllocProc, On, FirstUnused, TakePid
<1>22. ASSUME NEW c \in CPUS, NEW p \in Slots, NEW q \in Slots,
              Reap(c, p, q) PROVE ForkHasSlot'
  BY <1>22 DEF Reap, InWait, On, Zombies, Kids
<1>23. ASSUME NEW c \in CPUS, NEW p \in Slots, NEW q \in Slots,
              NEW n \in KillPids,
              Kill(c, p, n, q) PROVE ForkHasSlot'
  BY <1>23 DEF Kill, On, Rouse
<1> QED
    BY <1>1, <1>2, <1>3, <1>4, <1>5, <1>6, <1>7, <1>8, <1>9, <1>10, <1>11,
     <1>12, <1>13, <1>14, <1>15, <1>16, <1>17, <1>18, <1>19, <1>20, <1>21,
     <1>22, <1>23 DEF PtNext

LEMMA ForkHasSlotHolds == PtSpec => []ForkHasSlot
<1>1. PtInit => ForkHasSlot
  BY DEF PtInit, ForkHasSlot
<1>2. IInv /\ ForkHasSlot /\ [PtNext]_ptVars => ForkHasSlot'
  BY ForkHasSlotStep DEF IInv
<1> QED
  BY <1>1, <1>2, InvariantHolds, PTL DEF PtSpec
=============================================================================
