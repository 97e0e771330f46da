-------------------------------- MODULE Stride --------------------------------
(***************************************************************************)
(* The stride scheduler of p4: ProcTable with the tickets of every process *)
(* and the global aggregates, and with scheduler() picking the process     *)
(* that is farthest behind.  Each action is the ProcTable action of the    *)
(* same critical section together with the bookkeeping the code does in it.*)
(***************************************************************************)
EXTENDS ProcTable

CONSTANTS STRIDE1,          \* numerator of every stride
          DEFAULT_TICKETS,
          MAX_TICKETS,
          TicketArgs,       \* arguments tried for settickets(n)
          MAXPASS,          \* bound: no dispatch once a pass is above it
          MAXRTIME          \* bound: no timer interrupt past this run time

ASSUME StrideAssumption ==
  /\ STRIDE1 \in Nat
  /\ DEFAULT_TICKETS \in Nat \ {0}
  /\ MAX_TICKETS \in Nat
  /\ DEFAULT_TICKETS <= MAX_TICKETS
  /\ TicketArgs \subseteq Int
  /\ MAXPASS \in Nat
  /\ MAXRTIME \in Nat

VARIABLES tickets, stride, pass, remain, rtime,        \* proc.*
          global_tickets, global_stride, global_pass

procShares == <<tickets, stride, pass, remain, rtime>>
globals == <<global_tickets, global_stride, global_pass>>
shares == <<procShares, globals>>
vars == <<ptVars, procShares, globals>>

SharesTypeOK ==
  /\ tickets \in [Slots -> 0..MAX_TICKETS]
  /\ stride \in [Slots -> Nat]
  /\ pass \in [Slots -> Int]
  /\ remain \in [Slots -> Int]
  /\ rtime \in [Slots -> Nat]
  /\ global_tickets \in Int
  /\ global_stride \in Int
  /\ global_pass \in Int

\* userinit() on the zeroed table: allocproc() has counted init's tickets.
Init ==
  /\ PtInit
  /\ tickets = [p \in Slots |-> IF p = InitProc THEN DEFAULT_TICKETS ELSE 0]
  /\ stride = [p \in Slots |->
                 IF p = InitProc THEN STRIDE1 \div DEFAULT_TICKETS ELSE 0]
  /\ pass = [p \in Slots |-> 0]
  /\ remain = [p \in Slots |-> 0]
  /\ rtime = [p \in Slots |-> 0]
  /\ global_tickets = DEFAULT_TICKETS
  /\ global_stride = STRIDE1 \div DEFAULT_TICKETS
  /\ global_pass = 0

\* The tickets held together by the processes of S.
TicketsOf(t, S) ==
  Cardinality({x \in S \X (1..MAX_TICKETS) : x[2] <= t[x[1]]})
TicketSum(S) == TicketsOf(tickets, S)

StrideFor(t) == IF t > 0 THEN STRIDE1 \div t ELSE 0
-----------------------------------------------------------------------------
\* allocproc() and fork() both give the new process its shares and both add
\* them to the global count.
NewShares(q) ==
  /\ tickets' = [tickets EXCEPT ![q] = DEFAULT_TICKETS]
  /\ stride' = [stride EXCEPT ![q] = STRIDE1 \div DEFAULT_TICKETS]
  /\ pass' = [pass EXCEPT ![q] = global_pass]
  /\ remain' = [remain EXCEPT ![q] = 0]
  /\ rtime' = [rtime EXCEPT ![q] = 0]
  /\ global_tickets' = global_tickets + DEFAULT_TICKETS
  /\ global_stride' = STRIDE1 \div global_tickets'
  /\ UNCHANGED global_pass

\* Mutant: a woken process rejoins at global_pass.
RejoinLevel(W) ==
  /\ global_tickets' = global_tickets + TicketSum(W)
  /\ global_stride' = IF W = {} THEN global_stride
                      ELSE STRIDE1 \div global_tickets'
  /\ pass' = [q \in Slots |-> IF q \in W THEN global_pass ELSE pass[q]]
  /\ UNCHANGED <<tickets, stride, remain, global_pass>>

\* wakeup1() and kill(): the processes of W rejoin the queue where they left
\* it, relative to global_pass.
Rejoin(W) ==
  /\ global_tickets' = global_tickets + TicketSum(W)
  /\ global_stride' = IF W = {} THEN global_stride
                      ELSE STRIDE1 \div global_tickets'
  /\ pass' = [q \in Slots |-> IF q \in W THEN global_pass + remain[q]
                              ELSE pass[q]]
  /\ UNCHANGED <<tickets, stride, remain, global_pass>>

\* The scheduler's code after swtch(): p is charged for the turn it had.
Charge(p) ==
  /\ pass' = [pass EXCEPT ![p] = @ + stride[p]]
  /\ global_pass' = global_pass + global_stride'

\* sleep() remembers how far p is ahead of the rest.
\* (Mutant: the other way round.)
AheadSwapped(p) == global_pass - pass[p]
Ahead(p) == pass[p] - global_pass

\* sleep(): p leaves the queue, and the scheduler charges it afterwards.
SleepShares(p) ==
  /\ remain' = [remain EXCEPT ![p] = Ahead(p)]
  /\ global_tickets' = global_tickets - tickets[p]
  /\ global_stride' = StrideFor(global_tickets')
  /\ Charge(p)
  /\ UNCHANGED <<tickets, stride, rtime>>

\* exit(): p's tickets go, the processes it wakes rejoin, p is charged.
ExitShares(p) ==
  /\ global_tickets' =
       global_tickets - tickets[p] + TicketSum(ExitWakes(p))
  /\ global_stride' = StrideFor(global_tickets')
  /\ pass' = [q \in Slots |-> IF q = p THEN pass[p] + stride[p]
                              ELSE IF q \in ExitWakes(p)
                                THEN global_pass + remain[q]
                              ELSE pass[q]]
  /\ global_pass' = global_pass + global_stride'
  /\ UNCHANGED <<tickets, stride, remain, rtime>>

YieldShares(p) ==
  /\ UNCHANGED <<tickets, stride, remain, rtime, global_tickets,
                 global_stride>>
  /\ Charge(p)

\* sys_settickets(n): out of range values become the default or the maximum.
Clamp(n) == IF n < 1 THEN DEFAULT_TICKETS
            ELSE IF n > MAX_TICKETS THEN MAX_TICKETS ELSE n

SetTickets(c, p, n) ==
  /\ OtherCall(c, p)
  /\ ptlock = Free
  /\ tickets' = [tickets EXCEPT ![p] = Clamp(n)]
  /\ global_tickets' = global_tickets - tickets[p] + Clamp(n)
  /\ global_stride' = STRIDE1 \div global_tickets'
  /\ stride' = [stride EXCEPT ![p] = STRIDE1 \div Clamp(n)]
  /\ UNCHANGED <<pass, remain, rtime, global_pass>>

\* trap(): the interrupted process is billed a tick, in or out of turn.
TimerShares(c) ==
  /\ rtime' = [p \in Slots |-> IF p = cpu[c] THEN rtime[p] + 1 ELSE rtime[p]]
  /\ Rejoin(IF c = BootCpu THEN Sleepers(TicksChan) ELSE {})
  /\ \A p \in Slots : rtime'[p] <= MAXRTIME
-----------------------------------------------------------------------------
\* scheduler(): the scan keeps the RUNNABLE process with the least pass, of
\* those the one that ran least, of those the oldest.
Behind(p, m) ==
  \/ pass[p] < pass[m]
  \/ /\ pass[p] = pass[m]
     /\ \/ rtime[p] < rtime[m]
        \/ rtime[p] = rtime[m] /\ pid[p] < pid[m]

\* (Mutant: ties go to the lower slot.)
KeepByPass(m, p) == IF state[p] = "RUNNABLE" /\ (m = NoProc \/ pass[p] < pass[m])
                    THEN p ELSE m
Keep(m, p) == IF state[p] = "RUNNABLE" /\ (m = NoProc \/ Behind(p, m))
              THEN p ELSE m

scan[p \in 0..NPROC] == IF p = 0 THEN NoProc ELSE Keep(scan[p - 1], p)
min_pass_proc == scan[NPROC]

Pick(c, p) ==
  /\ p = min_pass_proc
  /\ pass[p] <= MAXPASS /\ global_pass <= MAXPASS
  /\ Dispatch(c, p)
-----------------------------------------------------------------------------
\* A turn ends: the process goes to sleep, exits or yields, and this
\* scheduler releases ptable.lock before it scans again.
EndTurn(c, p) ==
  /\ ptlock' = Free
  /\ \/ /\ WaitSleep(c, p) \/ TickSleep(c, p) \/ IoSleep(c, p)
        /\ SleepShares(p)
     \/ Exit(c, p) /\ ExitShares(p)
     \/ Yield(c, p) /\ YieldShares(p)

\* Steps that touch neither the queue nor the shares.
NoShares(c, p) ==
  /\ \/ Enter(c, p) \/ Fault(c, p) \/ ExitCall(c, p) \/ OtherCall(c, p)
     \/ AllocFail(c, p) \/ ForkAbort(c, p)
     \/ WaitFail(c, p) \/ SleepTest(c, p) \/ TimerExit(c, p)
     \/ \E q \in Slots : Reap(c, p, q)
     \/ Pick(c, p)
  /\ UNCHANGED shares

KillShares(q) ==
  /\ Rejoin(IF state[q] = "SLEEPING" THEN {q} ELSE {})
  /\ UNCHANGED rtime

Proc(c, p) ==
  \/ EndTurn(c, p)
  \/ NoShares(c, p)
  \/ \E q \in Slots : AllocProc(c, p, q) /\ NewShares(q)
  \/ ForkDone(c, p) /\ NewShares(np[p])
  \/ \E n \in KillPids, q \in Slots : Kill(c, p, n, q) /\ KillShares(q)
  \/ \E n \in TicketArgs : SetTickets(c, p, n)

IoWakeupShares == Rejoin(Sleepers(IoChan)) /\ UNCHANGED rtime

Next ==
  \/ IoWakeup /\ IoWakeupShares
  \/ \E c \in CPUS :
       \/ Timer(c) /\ TimerShares(c)
       \/ \E p \in Slots : Proc(c, p)

Spec == Init /\ [][Next]_vars
-----------------------------------------------------------------------------
\* A process is in the scheduler's queue while it is RUNNABLE or RUNNING.
Queue == {p \in Slots : state[p] \in {"RUNNABLE", "RUNNING"}}

\* README (p4): "global_tickets - this is the sum of tickets of all processes
\* wanting the resource", the running and the ready ones.  Asked only when no
\* fork() is between its two critical sections.
GlobalTicketsExact ==
  (\A p \in Slots : np[p] = NoProc) => global_tickets = TicketSum(Queue)

\* The code does not keep that, and this is by how much it is wrong: every
\* allocproc() of a fork() adds DEFAULT_TICKETS for an EMBRYO, fork() adds them
\* a second time when it publishes the child, a failed fork() returns none of
\* them; sleep(), wakeup(), exit(), kill() and settickets() lose nothing more.
TicketLedger ==
  global_tickets = TicketSum(Queue) + DEFAULT_TICKETS * (nextpid - 2)

\* README (p4): "Pick the process with the lowest pass value among all processes
\* waiting to be scheduled"; ties go to the shorter rtime, then to the lower
\* pid.  Whoever is dispatched, nobody RUNNABLE was strictly before it.
DispatchesFarthestBehind ==
  [][\A c \in CPUS : cpu[c] = NoProc /\ cpu'[c] # NoProc =>
       \A q \in Slots \ {cpu'[c]} : state[q] = "RUNNABLE" =>
         Behind(cpu'[c], q)]_vars

\* A sleeper's credit: what wakeup1() will set its pass to is no lower than
\* its pass before the turn it last had.  Sleeping earns at most one turn.
SleepCredit ==
  \A p \in Slots : state[p] = "SLEEPING" =>
    pass[p] - stride[p] <= global_pass + remain[p]

\* The distance a process has covered never shrinks by more than one stride,
\* however it sleeps, is woken or killed: it cannot be set back to the start.
SetBackOneStride == \A p \in Slots : Live(p) => pass'[p] >= pass[p] - stride[p]
SetBackAtMostOneStride == [][SetBackOneStride]_vars

\* With these the ledger and the credit are inductive: a process that exists
\* holds tickets, so no division is by zero, and global_pass never goes back.
SharesInv ==
  /\ SharesTypeOK
  /\ TicketLedger
  /\ SleepCredit
  /\ global_stride >= 0
  /\ nextpid >= 2
  /\ \A p \in Slots : state[p] # "UNUSED" => tickets[p] >= 1

\* README (p4): "We don't want any process to be left behind": short of the
\* bounds, a RUNNABLE process is eventually dispatched.
WithinBounds ==
  /\ global_pass < MAXPASS
  /\ \A p \in Slots : pass[p] < MAXPASS /\ rtime[p] < MAXRTIME
NoneLeftBehind ==
  []WithinBounds =>
    \A p \in Slots : state[p] = "RUNNABLE" ~> state[p] = "RUNNING"

\* The scheduler of every CPU goes round, a process that has the CPU keeps
\* executing, and the timer interrupts it.
Fairness ==
  \A c \in CPUS :
    /\ WF_vars(\E p \in Slots : Pick(c, p) /\ UNCHANGED shares)
    /\ WF_vars(\E p \in Slots : Proc(c, p))
    /\ WF_vars(Timer(c) /\ TimerShares(c))
FairSpec == Spec /\ Fairness
=============================================================================
