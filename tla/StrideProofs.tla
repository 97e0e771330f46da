----------------------------- MODULE StrideProofs -----------------------------
(***************************************************************************)
(* The stride scheduler for any number of slots, CPUs and tickets: it runs *)
(* the process table of ProcTable, the ledger of its tickets is exact, and *)
(* sleeping sets no process back by more than one stride.                  *)
(***************************************************************************)
EXTENDS Stride, ProcTableProofs, FiniteSetTheorems, FunctionTheorems,
        NaturalsInduction, WellFoundedInduction

-----------------------------------------------------------------------------
\* TicketsOf counts pairs, so its laws are those of Cardinality.
Pairs(t, S) == {x \in S \X (1..MAX_TICKETS) : x[2] <= t[x[1]]}

LEMMA PairsFinite ==
  ASSUME NEW t, NEW S \in SUBSET Slots
  PROVE  IsFiniteSet(Pairs(t, S)) /\ TicketsOf(t, S) \in Nat
<1>1. IsFiniteSet(Slots)
  BY ProcTableAssumption, FS_Interval DEF Slots
<1>2. IsFiniteSet(1..MAX_TICKETS)
  BY StrideAssumption, FS_Interval
<1>3. IsFiniteSet(S)
  BY <1>1, FS_Subset
<1>4. IsFiniteSet(S \X (1..MAX_TICKETS))
  BY <1>2, <1>3, FS_Product
<1>5. Pairs(t, S) \in SUBSET (S \X (1..MAX_TICKETS))
  BY DEF Pairs
<1>6. IsFiniteSet(Pairs(t, S))
  BY <1>4, <1>5, FS_Subset
<1> QED
  BY <1>6, FS_CardinalityType DEF TicketsOf, Pairs

\* Disjoint sets of processes add up.
LEMMA TicketsOfUnion ==
  ASSUME NEW t, NEW S \in SUBSET Slots, NEW W \in SUBSET Slots, S \cap W = {}
  PROVE  TicketsOf(t, S \cup W) = TicketsOf(t, S) + TicketsOf(t, W)
<1>1. Pairs(t, S \cup W) = Pairs(t, S) \cup Pairs(t, W)
  BY DEF Pairs
<1>2. Pairs(t, S) \cap Pairs(t, W) = {}
  BY DEF Pairs
<1>3. IsFiniteSet(Pairs(t, S)) /\ IsFiniteSet(Pairs(t, W))
  BY PairsFinite
<1>4. Cardinality(Pairs(t, S)) \in Nat /\ Cardinality(Pairs(t, W)) \in Nat
  BY <1>3, FS_CardinalityType
<1>5. Cardinality(Pairs(t, S) \cup Pairs(t, W)) =
        Cardinality(Pairs(t, S)) + Cardinality(Pairs(t, W))
          - Cardinality(Pairs(t, S) \cap Pairs(t, W))
  BY <1>3, FS_Union
<1>6. Cardinality(Pairs(t, S \cup W)) =
        Cardinality(Pairs(t, S)) + Cardinality(Pairs(t, W)) - 0
  BY <1>1, <1>2, <1>5, FS_EmptySet
<1> QED
  BY <1>4, <1>6 DEF TicketsOf, Pairs

\* One process holds its own tickets.
LEMMA TicketsOfOne ==
  ASSUME NEW t \in [Slots -> 0..MAX_TICKETS], NEW p \in Slots
  PROVE  TicketsOf(t, {p}) = t[p]
<1> DEFINE f == [k \in 1..t[p] |-> <<p, k>>]
<1>1. t[p] \in Nat /\ t[p] <= MAX_TICKETS /\ MAX_TICKETS \in Nat
  BY StrideAssumption
<1>2. f \in [1..t[p] -> Pairs(t, {p})]
  BY <1>1 DEF Pairs
<1>3. \A a, b \in 1..t[p] : f[a] = f[b] => a = b
  OBVIOUS
<1>4. \A x \in Pairs(t, {p}) : \E k \in 1..t[p] : f[k] = x
  BY <1>1 DEF Pairs
<1>5. f \in Bijection(1..t[p], Pairs(t, {p}))
  <2> HIDE DEF f
  <2> QED
    BY <1>2, <1>3, <1>4, Fun_IsBij
<1>6. ExistsBijection(1..t[p], Pairs(t, {p}))
  BY <1>5, Fun_ExistsBij
<1> QED
  BY <1>1, <1>6, FS_CountingElements DEF TicketsOf, Pairs

\* Only the tickets of its members count.
LEMMA TicketsOfSame ==
  ASSUME NEW t, NEW u, NEW S \in SUBSET Slots, \A q \in S : t[q] = u[q]
  PROVE  TicketsOf(t, S) = TicketsOf(u, S)
<1>1. Pairs(t, S) = Pairs(u, S)
  BY DEF Pairs
<1> QED
  BY <1>1 DEF TicketsOf, Pairs

LEMMA TicketsOfNone ==
  ASSUME NEW t
  PROVE  TicketsOf(t, {}) = 0
<1>1. Pairs(t, {}) = {}
  BY DEF Pairs
<1> QED
  BY <1>1, FS_EmptySet DEF TicketsOf, Pairs

\* A process taken out of a set takes its tickets along.
LEMMA TicketsOfRemove ==
  ASSUME NEW t \in [Slots -> 0..MAX_TICKETS], NEW S \in SUBSET Slots,
         NEW p \in S
  PROVE  TicketsOf(t, S) = TicketsOf(t, S \ {p}) + t[p]
<1>1. S = (S \ {p}) \cup {p} /\ (S \ {p}) \cap {p} = {}
  OBVIOUS
<1>2. TicketsOf(t, (S \ {p}) \cup {p}) =
        TicketsOf(t, S \ {p}) + TicketsOf(t, {p})
  <2>1. {p} \in SUBSET Slots /\ S \ {p} \in SUBSET Slots
    OBVIOUS
  <2> QED
    BY <1>1, <2>1, TicketsOfUnion
<1> QED
  BY <1>1, <1>2, TicketsOfOne
-----------------------------------------------------------------------------
\* Every step of the scheduler is a step of the process table.
LEMMA StepRefines == [Next]_vars => [PtNext]_ptVars
<1> SUFFICES ASSUME [Next]_vars PROVE [PtNext]_ptVars
  OBVIOUS
<1>1. CASE UNCHANGED vars
  BY <1>1 DEF vars
<1>2. CASE IoWakeup /\ IoWakeupShares
  BY <1>2 DEF PtNext
<1>3. ASSUME NEW c \in CPUS, Timer(c) PROVE PtNext
  BY <1>3 DEF PtNext
<1>4. ASSUME NEW c \in CPUS, NEW p \in Slots, Proc(c, p) PROVE PtNext
  <2>1. CASE EndTurn(c, p)
    BY <2>1 DEF EndTurn, PtNext
  <2>2. CASE NoShares(c, p)
    BY <2>2 DEF NoShares, Pick, PtNext
  <2>3. ASSUME NEW q \in Slots, AllocProc(c, p, q) PROVE PtNext
    BY <2>3 DEF PtNext
  <2>4. CASE ForkDone(c, p)
    BY <2>4 DEF PtNext
  <2>5. ASSUME NEW n \in KillPids, NEW q \in Slots, Kill(c, p, n, q)
        PROVE PtNext
    BY <2>5 DEF PtNext
  <2>6. ASSUME NEW n \in TicketArgs, SetTickets(c, p, n) PROVE PtNext
    BY <2>6 DEF SetTickets, PtNext
  <2> QED
    BY <1>4, <2>1, <2>2, <2>3, <2>4, <2>5, <2>6 DEF Proc
<1> QED
  BY <1>1, <1>2, <1>3, <1>4 DEF Next

\* The stride scheduler implements the process table: all that ProcTableProofs
\* shows of the table holds of it.
THEOREM StrideImplementsTable == Spec => PtSpec
<1>1. Init => PtInit
  BY DEF Init
<1> QED
  BY <1>1, StepRefines, PTL DEF Spec, PtSpec

LEMMA TableInvariant == Spec => []IInv
  BY StrideImplementsTable, InvariantHolds, PTL
-----------------------------------------------------------------------------
\* What each kind of step does to the shares.  First the arithmetic of strides.
LEMMA StrideForNat == \A t \in Int : StrideFor(t) \in Nat
  BY StrideAssumption DEF StrideFor

LEMMA ClampRange == \A n \in Int : Clamp(n) \in 1..MAX_TICKETS
  BY StrideAssumption DEF Clamp

LEMMA TicketSumNat == \A S \in SUBSET Slots : TicketSum(S) \in Nat
  BY PairsFinite DEF TicketSum

LEMMA TicketSumPositive ==
  ASSUME SharesTypeOK, NEW S \in SUBSET Slots, NEW p \in S, tickets[p] >= 1
  PROVE  TicketSum(S) >= 1
<1>1. TicketSum(S) = TicketsOf(tickets, S \ {p}) + tickets[p]
  BY TicketsOfRemove DEF TicketSum, SharesTypeOK
<1>2. TicketsOf(tickets, S \ {p}) \in Nat
  BY PairsFinite
<1>3. tickets[p] \in Nat
  BY StrideAssumption DEF SharesTypeOK
<1> QED
  BY <1>1, <1>2, <1>3

\* Sleepers rejoin the queue.
LEMMA RejoinKeeps ==
  ASSUME TypeOK, SharesInv, NEW W \in SUBSET Slots,
         \A q \in W : state[q] = "SLEEPING",
         \A q \in Slots : state'[q] = IF q \in W THEN "RUNNABLE" ELSE state[q],
         Rejoin(W), rtime' \in [Slots -> Nat], nextpid' = nextpid
  PROVE  SharesInv' /\ SetBackOneStride
<1> USE DEF SharesInv
<1>1. global_stride' \in Nat
  <2>1. CASE W = {}
    BY <2>1 DEF Rejoin, SharesTypeOK
  <2>2. CASE W # {}
    <3>1. PICK q \in W : state[q] = "SLEEPING"
      BY <2>2
    <3>2. TicketSum(W) >= 1 /\ TicketSum(W) \in Nat
      BY <3>1, TicketSumPositive, TicketSumNat
    <3>3. global_tickets \in Nat
      <4>1. TicketSum(Queue) \in Nat
        BY TicketSumNat DEF Queue
      <4> QED
        BY <4>1, StrideAssumption DEF TicketLedger, TypeOK
    <3> QED
      BY <2>2, <3>2, <3>3, StrideAssumption DEF Rejoin
  <2> QED
    BY <2>1, <2>2
<1>2. SharesTypeOK'
  <2>1. TicketSum(W) \in Nat
    BY TicketSumNat
  <2> QED
    BY <1>1, <2>1 DEF Rejoin, SharesTypeOK
<1>3. TicketLedger'
  <2>1. Queue' = Queue \cup W /\ Queue \cap W = {} /\ Queue \in SUBSET Slots
    BY DEF Queue
  <2>2. TicketSum(Queue)' = TicketSum(Queue) + TicketSum(W)
    BY <2>1, TicketsOfUnion DEF TicketSum, Rejoin
  <2>3. TicketSum(Queue) \in Nat /\ TicketSum(W) \in Nat
    BY <2>1, TicketSumNat
  <2> QED
    BY <2>2, <2>3, StrideAssumption DEF TicketLedger, Rejoin, TypeOK
<1>4. \A q \in Slots : pass'[q] = IF q \in W THEN global_pass + remain[q]
                                  ELSE pass[q]
  BY DEF Rejoin
<1>5. SleepCredit'
  BY <1>4 DEF SleepCredit, Rejoin
<1>6. SetBackOneStride
  BY <1>4 DEF SleepCredit, SetBackOneStride, SharesTypeOK, Live
<1> QED
  BY <1>1, <1>2, <1>3, <1>5, <1>6 DEF Rejoin

\* A process leaves the queue and others rejoin it: the ledger follows.
LEMMA LeaveLedger ==
  ASSUME TypeOK, SharesInv, NEW p \in Slots, state[p] = "RUNNING",
         NEW W \in SUBSET Slots, \A q \in W : state[q] = "SLEEPING",
         Queue' = (Queue \ {p}) \cup W,
         tickets' = tickets, nextpid' = nextpid,
         global_tickets' = global_tickets - tickets[p] + TicketSum(W)
  PROVE  TicketLedger'
<1> USE DEF SharesInv
<1>1. p \in Queue /\ Queue \in SUBSET Slots
  BY DEF Queue
<1>2. TicketSum(Queue) = TicketSum(Queue \ {p}) + tickets[p]
  BY <1>1, TicketsOfRemove DEF TicketSum, SharesTypeOK
<1>3. (Queue \ {p}) \cap W = {} /\ Queue \ {p} \in SUBSET Slots
  BY DEF Queue
<1>4. TicketSum(Queue)' = TicketSum(Queue \ {p}) + TicketSum(W)
  BY <1>3, TicketsOfUnion DEF TicketSum
<1>5. TicketSum(Queue \ {p}) \in Nat /\ TicketSum(W) \in Nat
  BY <1>3, TicketSumNat
<1>6. tickets[p] \in Nat
  BY StrideAssumption DEF SharesTypeOK
<1> QED
  BY <1>2, <1>4, <1>5, <1>6, StrideAssumption DEF TicketLedger, TypeOK

\* A process goes to sleep.
LEMMA SleepKeeps ==
  ASSUME TypeOK, SharesInv, NEW p \in Slots, state[p] = "RUNNING",
         state' = [state EXCEPT ![p] = "SLEEPING"],
         SleepShares(p), nextpid' = nextpid
  PROVE  SharesInv' /\ SetBackOneStride
<1> USE DEF SharesInv
<1>1. tickets[p] \in Nat
  BY StrideAssumption DEF SharesTypeOK
<1>2. global_tickets' \in Int /\ global_stride' \in Nat
  BY <1>1, StrideForNat DEF SleepShares, SharesTypeOK
<1>3. SharesTypeOK'
  BY <1>2 DEF SleepShares, Charge, Ahead, SharesTypeOK
<1>4. TicketLedger'
  <2>1. Queue' = (Queue \ {p}) \cup {}
    BY DEF Queue, TypeOK
  <2>2. TicketSum({}) = 0
    BY TicketsOfNone DEF TicketSum
  <2>3. global_tickets' = global_tickets - tickets[p] + TicketSum({})
    BY <1>1, <2>2 DEF SleepShares, SharesTypeOK
  <2>4. tickets' = tickets
    BY DEF SleepShares
  <2> QED
    BY <2>1, <2>3, <2>4, LeaveLedger
<1>5. SleepCredit'
  BY <1>2 DEF SleepCredit, SleepShares, Charge, Ahead, SharesTypeOK, TypeOK
<1>6. SetBackOneStride
  BY DEF SetBackOneStride, SleepShares, Charge, SharesTypeOK
<1>7. \A q \in Slots : state'[q] # "UNUSED" => tickets'[q] >= 1
  BY DEF SleepShares, TypeOK
<1> QED
  BY <1>2, <1>3, <1>4, <1>5, <1>6, <1>7

\* A process exits.
LEMMA ExitKeeps ==
  ASSUME TypeOK, SharesInv, NEW p \in Slots, state[p] = "RUNNING",
         \A q \in Slots : state'[q] = IF q = p THEN "ZOMBIE"
                                      ELSE IF q \in ExitWakes(p) THEN "RUNNABLE"
                                      ELSE state[q],
         ExitShares(p), nextpid' = nextpid
  PROVE  SharesInv' /\ SetBackOneStride
<1> USE DEF SharesInv
<1>1. tickets[p] \in Nat
  BY StrideAssumption DEF SharesTypeOK
<1> DEFINE W == ExitWakes(p)
<1>2. W \in SUBSET Slots /\ \A q \in W : state[q] = "SLEEPING"
  BY DEF ExitWakes, Sleepers
<1> HIDE DEF W
<1>3. TicketSum(W) \in Nat
  BY <1>2, TicketSumNat
<1>4. /\ global_tickets' = global_tickets - tickets[p] + TicketSum(W)
      /\ global_stride' = StrideFor(global_tickets')
      /\ UNCHANGED <<tickets, stride, remain, rtime>>
      /\ global_pass' = global_pass + global_stride'
  BY DEF ExitShares, W
<1>5. /\ pass' = [q \in Slots |-> IF q = p THEN pass[p] + stride[p]
                                  ELSE IF q \in W THEN global_pass + remain[q]
                                  ELSE pass[q]]
      /\ \A q \in Slots : state'[q] = IF q = p THEN "ZOMBIE"
                                      ELSE IF q \in W THEN "RUNNABLE"
                                      ELSE state[q]
  BY DEF ExitShares, W
<1>6. global_tickets' \in Int /\ global_stride' \in Nat
  BY <1>1, <1>3, <1>4, StrideForNat DEF SharesTypeOK
<1>7. SharesTypeOK'
  BY <1>4, <1>5, <1>6 DEF SharesTypeOK
<1>8. TicketLedger'
  <2>1. Queue' = (Queue \ {p}) \cup W
    BY <1>2, <1>5 DEF Queue
  <2> QED
    BY <1>2, <1>4, <2>1, LeaveLedger
<1>9. SleepCredit'
  BY <1>4, <1>5, <1>6 DEF SleepCredit, SharesTypeOK
<1>10. SetBackOneStride
  <2> SUFFICES ASSUME NEW q \in Slots, Live(q)
               PROVE  pass'[q] >= pass[q] - stride[q]
    BY DEF SetBackOneStride
  <2>1. pass[q] \in Int /\ stride[q] \in Nat
    BY DEF SharesTypeOK
  <2>2. CASE q = p
    BY <1>5, <2>1, <2>2
  <2>3. CASE q # p /\ q \in W
    <3>1. pass'[q] = global_pass + remain[q] /\ state[q] = "SLEEPING"
      BY <1>2, <1>5, <2>3
    <3> QED
      BY <3>1 DEF SleepCredit
  <2>4. CASE q # p /\ q \notin W
    BY <1>5, <2>1, <2>4
  <2> QED
    BY <2>2, <2>3, <2>4
<1>11. \A q \in Slots : state'[q] # "UNUSED" => tickets'[q] >= 1
  <2> SUFFICES ASSUME NEW q \in Slots, state'[q] # "UNUSED"
               PROVE  tickets'[q] >= 1
    OBVIOUS
  <2>1. state[q] # "UNUSED"
    BY <1>2, <1>5
  <2> QED
    BY <1>4, <2>1
<1> QED
  BY <1>4, <1>6, <1>7, <1>8, <1>9, <1>10, <1>11

\* A process yields.
LEMMA YieldKeeps ==
  ASSUME TypeOK, SharesInv, NEW p \in Slots, state[p] = "RUNNING",
         state' = [state EXCEPT ![p] = "RUNNABLE"],
         YieldShares(p), nextpid' = nextpid
  PROVE  SharesInv' /\ SetBackOneStride
<1> USE DEF SharesInv
<1>1. SharesTypeOK'
  BY DEF YieldShares, Charge, SharesTypeOK
<1>2. TicketLedger'
  <2>1. Queue' = Queue
    BY DEF Queue, TypeOK
  <2> QED
    BY <2>1 DEF TicketLedger, TicketSum, YieldShares
<1>3. SleepCredit'
  BY DEF SleepCredit, YieldShares, Charge, SharesTypeOK, TypeOK
<1>4. SetBackOneStride
  BY DEF SetBackOneStride, YieldShares, Charge, SharesTypeOK
<1> QED
  BY <1>1, <1>2, <1>3, <1>4 DEF YieldShares, TypeOK

\* A fork() gives the child its shares, before it joins the queue and when it
\* does.
LEMMA NewSharesKeeps ==
  ASSUME TypeOK, SharesInv, NEW q \in Slots, NewShares(q),
         \/ /\ state[q] = "UNUSED"
            /\ state' = [state EXCEPT ![q] = "EMBRYO"]
            /\ nextpid' = nextpid + 1
         \/ /\ state[q] = "EMBRYO"
            /\ state' = [state EXCEPT ![q] = "RUNNABLE"]
            /\ nextpid' = nextpid
  PROVE  SharesInv' /\ SetBackOneStride
<1> USE DEF SharesInv
<1>1. global_tickets \in Nat
  <2>1. TicketSum(Queue) \in Nat
    BY TicketSumNat DEF Queue
  <2> QED
    BY <2>1, StrideAssumption DEF TicketLedger, TypeOK
<1>2. global_tickets' \in Nat \ {0} /\ global_stride' \in Nat
  BY <1>1, StrideAssumption DEF NewShares
<1>3. STRIDE1 \div DEFAULT_TICKETS \in Nat /\ DEFAULT_TICKETS \in 1..MAX_TICKETS
  BY StrideAssumption
<1>4. SharesTypeOK'
  BY <1>2, <1>3 DEF NewShares, SharesTypeOK
<1>5. TicketLedger'
  <2>1. q \notin Queue /\ Queue \in SUBSET Slots
    BY DEF Queue
  <2>2. TicketsOf(tickets', Queue) = TicketSum(Queue)
    <3>1. \A r \in Queue : tickets[r] = tickets'[r]
      BY <2>1 DEF NewShares, SharesTypeOK
    <3> QED
      BY <2>1, <3>1, TicketsOfSame DEF TicketSum
  <2>3. TicketSum(Queue) \in Nat
    BY <2>1, TicketSumNat
  <2>4. CASE state[q] = "UNUSED"
    <3>1. Queue' = Queue /\ nextpid' = nextpid + 1
      BY <2>4 DEF Queue, TypeOK
    <3>2. TicketSum(Queue)' = TicketSum(Queue)
      BY <2>2, <3>1 DEF TicketSum
    <3> QED
      BY <2>3, <3>1, <3>2, StrideAssumption
      DEF TicketLedger, NewShares, TypeOK, SharesTypeOK
  <2>5. CASE state[q] = "EMBRYO"
    <3>1. Queue' = Queue \cup {q} /\ nextpid' = nextpid
      BY <2>5 DEF Queue, TypeOK
    <3>2. TicketsOf(tickets', Queue \cup {q}) =
            TicketsOf(tickets', Queue) + TicketsOf(tickets', {q})
      BY <2>1, TicketsOfUnion
    <3>3. TicketsOf(tickets', {q}) = DEFAULT_TICKETS
      <4>1. tickets' \in [Slots -> 0..MAX_TICKETS]
        BY <1>4 DEF SharesTypeOK
      <4>2. tickets'[q] = DEFAULT_TICKETS
        BY DEF NewShares, SharesTypeOK
      <4> QED
        BY <4>1, <4>2, TicketsOfOne
    <3>4. TicketSum(Queue)' = TicketSum(Queue) + DEFAULT_TICKETS
      BY <2>2, <3>1, <3>2, <3>3 DEF TicketSum
    <3> QED
      BY <2>3, <3>1, <3>4, StrideAssumption
      DEF TicketLedger, NewShares, TypeOK, SharesTypeOK
  <2> QED
    BY <2>4, <2>5
<1>6. SleepCredit'
  BY DEF SleepCredit, NewShares, SharesTypeOK, TypeOK
<1>7. SetBackOneStride
  BY DEF SetBackOneStride, NewShares, SharesTypeOK, Live
<1>8. \A r \in Slots : state'[r] # "UNUSED" => tickets'[r] >= 1
  BY <1>3 DEF NewShares, SharesTypeOK, TypeOK
<1>9. nextpid' >= 2
  BY DEF TypeOK
<1> QED
  BY <1>2, <1>4, <1>5, <1>6, <1>7, <1>8, <1>9

\* A process changes its tickets.
LEMMA SetTicketsKeeps ==
  ASSUME TypeOK, SharesInv, NEW c \in CPUS, NEW p \in Slots, NEW n \in Int,
         SetTickets(c, p, n)
  PROVE  SharesInv' /\ SetBackOneStride
<1> USE DEF SharesInv
<1>1. state[p] = "RUNNING" /\ UNCHANGED <<state, nextpid>>
  BY DEF SetTickets, OtherCall, On
<1> DEFINE k == Clamp(n)
<1>2. k \in 1..MAX_TICKETS /\ k \in Nat /\ k >= 1
  BY ClampRange, StrideAssumption
<1>3. /\ tickets' = [tickets EXCEPT ![p] = k]
      /\ global_tickets' = global_tickets - tickets[p] + k
      /\ global_stride' = STRIDE1 \div global_tickets'
      /\ stride' = [stride EXCEPT ![p] = STRIDE1 \div k]
      /\ UNCHANGED <<pass, remain, rtime, global_pass>>
  BY DEF SetTickets
<1> HIDE DEF k
<1>4. p \in Queue /\ Queue' = Queue /\ Queue \in SUBSET Slots
  BY <1>1 DEF Queue
<1> DEFINE rest == TicketsOf(tickets, Queue \ {p})
<1>5. TicketSum(Queue) = rest + tickets[p]
  BY <1>4, TicketsOfRemove DEF TicketSum, SharesTypeOK
<1>6. tickets' \in [Slots -> 0..MAX_TICKETS] /\ tickets'[p] = k
  BY <1>2, <1>3 DEF SharesTypeOK
<1>7. TicketsOf(tickets', Queue) = TicketsOf(tickets', Queue \ {p}) + k
  BY <1>4, <1>6, TicketsOfRemove
<1>8. TicketsOf(tickets', Queue \ {p}) = rest
  BY <1>3, <1>4, TicketsOfSame DEF SharesTypeOK
<1>9. rest \in Nat /\ tickets[p] \in Nat
  BY <1>4, PairsFinite, StrideAssumption DEF SharesTypeOK
<1> HIDE DEF rest
<1>10. TicketSum(Queue)' = rest + k
  BY <1>4, <1>7, <1>8 DEF TicketSum
<1>11. TicketLedger'
  BY <1>1, <1>2, <1>3, <1>5, <1>9, <1>10, StrideAssumption
  DEF TicketLedger, TypeOK
<1>12. global_tickets' \in Nat \ {0}
  BY <1>1, <1>2, <1>9, <1>10, <1>11, StrideAssumption DEF TicketLedger, TypeOK
<1>13. global_stride' \in Nat /\ STRIDE1 \div k \in Nat
  BY <1>2, <1>3, <1>12, StrideAssumption
<1>14. SharesTypeOK'
  BY <1>3, <1>6, <1>12, <1>13 DEF SharesTypeOK
<1>15. SleepCredit'
  BY <1>1, <1>3 DEF SleepCredit, SharesTypeOK
<1>16. SetBackOneStride
  BY <1>3 DEF SetBackOneStride, SharesTypeOK
<1>17. \A r \in Slots : state'[r] # "UNUSED" => tickets'[r] >= 1
  BY <1>1, <1>2, <1>3 DEF SharesTypeOK
<1> QED
  BY <1>1, <1>11, <1>13, <1>14, <1>15, <1>16, <1>17
-----------------------------------------------------------------------------
\* A step that leaves the queue and the shares alone, and lets no process into
\* a state in which it needs some.
LEMMA SharesSame ==
  ASSUME TypeOK, SharesInv, UNCHANGED <<shares, nextpid>>, Queue' = Queue,
         \A q \in Slots : state'[q] = "SLEEPING" => state[q] = "SLEEPING",
         \A q \in Slots : state'[q] # "UNUSED" => state[q] # "UNUSED"
  PROVE  SharesInv' /\ SetBackOneStride
<1> USE DEF SharesInv, shares, procShares, globals
<1>1. SharesTypeOK'
  BY DEF SharesTypeOK
<1>2. TicketLedger'
  BY DEF TicketLedger, TicketSum
<1>3. SleepCredit'
  BY DEF SleepCredit
<1>4. SetBackOneStride
  BY DEF SetBackOneStride, SharesTypeOK
<1> QED
  BY <1>1, <1>2, <1>3, <1>4

\* A step of p that changes its place in the kernel and nothing else.
LEMMA SamePlaces ==
  ASSUME TypeOK, SharesInv, UNCHANGED <<state, nextpid>>, UNCHANGED shares
  PROVE  SharesInv' /\ SetBackOneStride
<1>1. Queue' = Queue
  BY DEF Queue
<1> QED
  BY <1>1, SharesSame

LEMMA NoSharesKeeps ==
  ASSUME IInv, ForkHasSlot, SharesInv,
         NEW c \in CPUS, NEW p \in Slots, NoShares(c, p)
  PROVE  SharesInv' /\ SetBackOneStride
<1> USE DEF IInv
<1>1. UNCHANGED shares
  BY DEF NoShares
<1>2. CASE Enter(c, p)
  BY <1>1, <1>2, SamePlaces DEF Enter
<1>3. CASE Fault(c, p)
  BY <1>1, <1>3, SamePlaces DEF Fault
<1>4. CASE ExitCall(c, p)
  BY <1>1, <1>4, SamePlaces DEF ExitCall
<1>5. CASE OtherCall(c, p)
  BY <1>1, <1>5, SamePlaces DEF OtherCall
<1>6. CASE AllocFail(c, p)
  BY <1>1, <1>6, SamePlaces DEF AllocFail
<1>7. CASE WaitFail(c, p)
  BY <1>1, <1>7, SamePlaces DEF WaitFail
<1>8. CASE SleepTest(c, p)
  BY <1>1, <1>8, SamePlaces DEF SleepTest
<1>9. CASE TimerExit(c, p)
  BY <1>1, <1>9, SamePlaces DEF TimerExit
<1>10. CASE ForkAbort(c, p)
  <2>1. np[p] \in Slots /\ state[np[p]] = "EMBRYO"
    BY <1>10 DEF ForkAbort, On, ForkHasSlot, EmbryoOwned, TypeOK
  <2>2. state' = [state EXCEPT ![np[p]] = "UNUSED"] /\ nextpid' = nextpid
    BY <1>10 DEF ForkAbort
  <2>3. /\ \A r \in Slots : state'[r] = "SLEEPING" => state[r] = "SLEEPING"
        /\ \A r \in Slots : state'[r] # "UNUSED" => state[r] # "UNUSED"
    BY <2>1, <2>2 DEF TypeOK
  <2>4. Queue' = Queue
    BY <2>1, <2>2 DEF Queue, TypeOK
  <2> QED
    BY <1>1, <2>2, <2>3, <2>4, SharesSame
<1>11. ASSUME NEW q \in Slots, Reap(c, p, q)
       PROVE  SharesInv' /\ SetBackOneStride
  <2>1. state[q] = "ZOMBIE" /\ state' = [state EXCEPT ![q] = "UNUSED"]
    BY <1>11 DEF Reap, Zombies
  <2>2. /\ \A r \in Slots : state'[r] = "SLEEPING" => state[r] = "SLEEPING"
        /\ \A r \in Slots : state'[r] # "UNUSED" => state[r] # "UNUSED"
    BY <2>1 DEF TypeOK
  <2>3. Queue' = Queue
    BY <2>1 DEF Queue, TypeOK
  <2>4. nextpid' = nextpid
    BY <1>11 DEF Reap
  <2> QED
    BY <1>1, <2>2, <2>3, <2>4, SharesSame
<1>12. CASE Pick(c, p)
  <2>1. state[p] = "RUNNABLE" /\ state' = [state EXCEPT ![p] = "RUNNING"]
    BY <1>12 DEF Pick, Dispatch
  <2>2. /\ \A r \in Slots : state'[r] = "SLEEPING" => state[r] = "SLEEPING"
        /\ \A r \in Slots : state'[r] # "UNUSED" => state[r] # "UNUSED"
    BY <2>1 DEF TypeOK
  <2>3. Queue' = Queue
    BY <2>1 DEF Queue, TypeOK
  <2>4. nextpid' = nextpid
    BY <1>12 DEF Pick, Dispatch
  <2> QED
    BY <1>1, <2>2, <2>3, <2>4, SharesSame
<1> QED
  BY <1>2, <1>3, <1>4, <1>5, <1>6, <1>7, <1>8, <1>9, <1>10, <1>11, <1>12
  DEF NoShares

LEMMA EndTurnKeeps ==
  ASSUME IInv, SharesInv, NEW c \in CPUS, NEW p \in Slots, EndTurn(c, p)
  PROVE  SharesInv' /\ SetBackOneStride
<1> USE DEF IInv
<1>1. CASE /\ WaitSleep(c, p) \/ TickSleep(c, p) \/ IoSleep(c, p)
           /\ SleepShares(p)
  <2>1. state[p] = "RUNNING" /\ state' = [state EXCEPT ![p] = "SLEEPING"]
    BY <1>1 DEF WaitSleep, TickSleep, IoSleep, InWait, On
  <2>2. nextpid' = nextpid
    BY <1>1 DEF WaitSleep, TickSleep, IoSleep
  <2> QED
    BY <1>1, <2>1, <2>2, SleepKeeps
<1>2. CASE Exit(c, p) /\ ExitShares(p)
  <2>1. state[p] = "RUNNING" /\ nextpid' = nextpid
    BY <1>2 DEF Exit, On
  <2>2. \A q \in Slots : state'[q] = IF q = p THEN "ZOMBIE"
                                     ELSE IF q \in ExitWakes(p) THEN "RUNNABLE"
                                     ELSE state[q]
    BY <1>2 DEF Exit
  <2> QED
    BY <1>2, <2>1, <2>2, ExitKeeps
<1>3. CASE Yield(c, p) /\ YieldShares(p)
  <2>1. state[p] = "RUNNING"
    BY <1>3, ProcTableAssumption DEF Yield, OneCpuEach, Slots, NoProc
  <2>2. state' = [state EXCEPT ![p] = "RUNNABLE"] /\ nextpid' = nextpid
    BY <1>3 DEF Yield
  <2> QED
    BY <1>3, <2>1, <2>2, YieldKeeps
<1> QED
  BY <1>1, <1>2, <1>3 DEF EndTurn

\* Every step of a process on a CPU.
LEMMA ProcKeeps ==
  ASSUME IInv, ForkHasSlot, SharesInv,
         NEW c \in CPUS, NEW p \in Slots, Proc(c, p)
  PROVE  SharesInv' /\ SetBackOneStride
<1> USE DEF IInv
<1>1. CASE EndTurn(c, p)
  BY <1>1, EndTurnKeeps
<1>2. CASE NoShares(c, p)
  BY <1>2, NoSharesKeeps
<1>3. ASSUME NEW q \in Slots, AllocProc(c, p, q), NewShares(q)
      PROVE  SharesInv' /\ SetBackOneStride
  <2>1. /\ state[q] = "UNUSED"
        /\ state' = [state EXCEPT ![q] = "EMBRYO"]
        /\ nextpid' = nextpid + 1
    BY <1>3 DEF AllocProc, FirstUnused, TakePid
  <2> QED
    BY <1>3, <2>1, NewSharesKeeps
<1>4. CASE ForkDone(c, p) /\ NewShares(np[p])
  <2>1. np[p] \in Slots /\ state[np[p]] = "EMBRYO"
    BY <1>4 DEF ForkDone, On, ForkHasSlot, EmbryoOwned, TypeOK
  <2>2. state' = [state EXCEPT ![np[p]] = "RUNNABLE"] /\ nextpid' = nextpid
    BY <1>4 DEF ForkDone
  <2> QED
    BY <1>4, <2>1, <2>2, NewSharesKeeps
<1>5. ASSUME NEW n \in KillPids, NEW q \in Slots,
             Kill(c, p, n, q), KillShares(q)
      PROVE  SharesInv' /\ SetBackOneStride
  <2> DEFINE W == IF state[q] = "SLEEPING" THEN {q} ELSE {}
  <2>1. W \in SUBSET Slots /\ \A r \in W : state[r] = "SLEEPING"
    OBVIOUS
  <2>2. Rejoin(W) /\ rtime' \in [Slots -> Nat]
    BY <1>5 DEF KillShares, SharesInv, SharesTypeOK
  <2>3. \A r \in Slots : state'[r] = IF r \in W THEN "RUNNABLE" ELSE state[r]
    BY <1>5 DEF Kill, Rouse, TypeOK
  <2>4. nextpid' = nextpid
    BY <1>5 DEF Kill
  <2> HIDE DEF W
  <2> QED
    BY <2>1, <2>2, <2>3, <2>4, RejoinKeeps
<1>6. ASSUME NEW n \in TicketArgs, SetTickets(c, p, n)
      PROVE  SharesInv' /\ SetBackOneStride
  <2>1. n \in Int
    BY StrideAssumption
  <2> QED
    BY <1>6, <2>1, SetTicketsKeeps
<1> QED
  BY <1>1, <1>2, <1>3, <1>4, <1>5, <1>6 DEF Proc

LEMMA NextKeeps ==
  ASSUME IInv, ForkHasSlot, SharesInv, [Next]_vars
  PROVE  SharesInv' /\ [SetBackOneStride]_vars
<1> USE DEF IInv
<1>1. CASE UNCHANGED vars
  <2>1. UNCHANGED <<state, nextpid>> /\ UNCHANGED shares
    BY <1>1 DEF vars, ptVars, shares
  <2> QED
    BY <1>1, <2>1, SamePlaces
<1>2. CASE IoWakeup /\ IoWakeupShares
  <2> DEFINE W == Sleepers(IoChan)
  <2>1. W \in SUBSET Slots /\ \A q \in W : state[q] = "SLEEPING"
    BY DEF Sleepers
  <2>2. Rejoin(W) /\ rtime' \in [Slots -> Nat] /\ nextpid' = nextpid
    BY <1>2 DEF IoWakeup, IoWakeupShares, SharesInv, SharesTypeOK
  <2>3. \A q \in Slots : state'[q] = IF q \in W THEN "RUNNABLE" ELSE state[q]
    BY <1>2 DEF IoWakeup
  <2> HIDE DEF W
  <2> QED
    BY <2>1, <2>2, <2>3, RejoinKeeps
<1>3. ASSUME NEW c \in CPUS, Timer(c), TimerShares(c)
      PROVE  SharesInv' /\ [SetBackOneStride]_vars
  <2> DEFINE W == IF c = BootCpu THEN Sleepers(TicksChan) ELSE {}
  <2>1. W \in SUBSET Slots /\ \A q \in W : state[q] = "SLEEPING"
    BY DEF Sleepers
  <2>2. Rejoin(W) /\ rtime' \in [Slots -> Nat]
    BY <1>3 DEF TimerShares, SharesInv, SharesTypeOK
  <2>3. nextpid' = nextpid
    BY <1>3 DEF Timer
  <2>4. \A q \in Slots : state'[q] = IF q \in W THEN "RUNNABLE" ELSE state[q]
    BY <1>3 DEF Timer
  <2> HIDE DEF W
  <2> QED
    BY <2>1, <2>2, <2>3, <2>4, RejoinKeeps
<1>4. ASSUME NEW c \in CPUS, NEW p \in Slots, Proc(c, p)
      PROVE  SharesInv' /\ [SetBackOneStride]_vars
  BY <1>4, ProcKeeps
<1> QED
  BY <1>1, <1>2, <1>3, <1>4 DEF Next
-----------------------------------------------------------------------------
LEMMA InitShares == Init => SharesInv
<1> SUFFICES ASSUME Init PROVE SharesInv
  OBVIOUS
<1> USE DEF Init, PtInit
<1>1. STRIDE1 \div DEFAULT_TICKETS \in Nat
  BY StrideAssumption
<1>2. SharesTypeOK
  BY <1>1, StrideAssumption DEF SharesTypeOK
<1>3. TicketLedger
  <2>1. /\ tickets \in [Slots -> 0..MAX_TICKETS]
        /\ tickets[InitProc] = DEFAULT_TICKETS
        /\ global_tickets = DEFAULT_TICKETS
        /\ nextpid = 2
    BY <1>2, SlotFacts DEF SharesTypeOK
  <2>2. \A p \in Slots : state[p] = IF p = InitProc THEN "RUNNABLE" ELSE "UNUSED"
    OBVIOUS
  <2> HIDE DEF Init, PtInit
  <2>3. Queue = {InitProc}
    BY <2>2, SlotFacts DEF Queue
  <2>4. TicketSum(Queue) = DEFAULT_TICKETS
    BY <2>1, <2>3, SlotFacts, TicketsOfOne DEF TicketSum
  <2> QED
    BY <2>1, <2>4, StrideAssumption DEF TicketLedger
<1>4. SleepCredit
  BY DEF SleepCredit
<1>5. \A p \in Slots : state[p] # "UNUSED" => tickets[p] >= 1
  BY StrideAssumption
<1> QED
  BY <1>1, <1>2, <1>3, <1>4, <1>5 DEF SharesInv

\* The inductive invariant of the shares, on top of the table's own.
THEOREM SharesInvariant == Spec => []SharesInv
<1>1. IInv /\ ForkHasSlot /\ SharesInv /\ [Next]_vars => SharesInv'
  BY NextKeeps
<1>2. Spec => []ForkHasSlot
  BY StrideImplementsTable, ForkHasSlotHolds
<1> QED
  BY <1>1, <1>2, InitShares, TableInvariant, PTL DEF Spec

\* The shares keep their types: no division by zero tickets, no share above
\* MAX_TICKETS.
THEOREM SharesTyped == Spec => []SharesTypeOK
  BY SharesInvariant, PTL DEF SharesInv

\* global_tickets is the tickets of the queue plus one DEFAULT_TICKETS for every
\* fork() ever begun.
THEOREM LedgerExact == Spec => []TicketLedger
  BY SharesInvariant, PTL DEF SharesInv

\* A sleeper is never owed more than the turn it last had.
THEOREM CreditBounded == Spec => []SleepCredit
  BY SharesInvariant, PTL DEF SharesInv

\* No step sets a process back by more than one of its strides.
THEOREM SetBackBounded == Spec => SetBackAtMostOneStride
<1>1. IInv /\ ForkHasSlot /\ SharesInv /\ [Next]_vars => [SetBackOneStride]_vars
  BY NextKeeps
<1>2. Spec => []ForkHasSlot
  BY StrideImplementsTable, ForkHasSlotHolds
<1> QED
  BY <1>1, <1>2, SharesInvariant, TableInvariant, PTL
  DEF Spec, SetBackAtMostOneStride
-----------------------------------------------------------------------------
\* The scan of scheduler().  First, that there is such a function: the slots it
\* is not defined on would have a lowest one.
ScanTo(n, f) == f = [p \in 0..n |-> IF p = 0 THEN NoProc ELSE Keep(f[p - 1], p)]

LEMMA LeastOf ==
  ASSUME NEW S, S \subseteq Nat, S # {}
  PROVE  \E m \in S : \A n \in S : m <= n
<1>1. IsWellFoundedOn(OpToRel(<, Nat), Nat)
  BY NatLessThanWellFounded
<1>2. PICK m \in S : \A n \in S : ~(<<n, m>> \in OpToRel(<, Nat))
  BY <1>1, WFMin
<1>3. ASSUME NEW n \in S PROVE m <= n
  <2>1. n \in Nat /\ m \in Nat
    OBVIOUS
  <2>2. ~(n < m)
    BY <1>2, <2>1 DEF OpToRel
  <2> QED
    BY <2>1, <2>2
<1> QED
  BY <1>3

LEMMA ScanExists == \E f : ScanTo(NPROC, f)
<1> DEFINE Bad == {n \in 0..NPROC : ~\E f : ScanTo(n, f)}
<1>1. NPROC \in Nat
  BY ProcTableAssumption
<1>2. SUFFICES ASSUME Bad # {} PROVE FALSE
  BY <1>1
<1>3. PICK m \in Bad : \A n \in Bad : m <= n
  <2>1. Bad \subseteq Nat
    BY <1>1
  <2> HIDE DEF Bad
  <2> QED
    BY <1>2, <2>1, LeastOf
<1>4. m \in 0..NPROC /\ ~\E f : ScanTo(m, f)
  OBVIOUS
<1> HIDE DEF Bad
<1>5. CASE m = 0
  <2> DEFINE f == [p \in 0..0 |-> NoProc]
  <2>1. f = [p \in 0..0 |-> IF p = 0 THEN NoProc ELSE Keep(f[p - 1], p)]
    OBVIOUS
  <2> HIDE DEF f
  <2>2. ScanTo(m, f)
    BY <1>5, <2>1 DEF ScanTo
  <2> QED
    BY <1>4, <2>2
<1>6. CASE m # 0
  <2>1. m - 1 \in 0..NPROC /\ m - 1 \notin Bad
    BY <1>1, <1>3, <1>4, <1>6
  <2>2. PICK f : ScanTo(m - 1, f)
    BY <2>1 DEF Bad
  <2>3. f = [p \in 0..m - 1 |-> IF p = 0 THEN NoProc ELSE Keep(f[p - 1], p)]
    BY <2>2 DEF ScanTo
  <2> DEFINE g == [p \in 0..m |-> IF p = m THEN Keep(f[m - 1], m) ELSE f[p]]
  <2>4. ASSUME NEW p \in 0..m
        PROVE  g[p] = IF p = 0 THEN NoProc ELSE Keep(g[p - 1], p)
    <3>1. CASE p = m
      <4>1. m - 1 \in 0..m /\ m - 1 # m
        BY <1>4, <1>6
      <4>2. g[m - 1] = f[m - 1] /\ g[p] = Keep(f[m - 1], m)
        BY <3>1, <4>1
      <4> QED
        BY <1>6, <3>1, <4>2
    <3>2. CASE p # m /\ p # 0
      <4>1. p \in 0..m - 1 /\ p - 1 \in 0..m /\ p - 1 # m
        BY <1>4, <3>2
      <4>2. f[p] = Keep(f[p - 1], p)
        BY <2>3, <3>2, <4>1
      <4>3. g[p - 1] = f[p - 1] /\ g[p] = f[p]
        BY <3>2, <4>1
      <4> QED
        BY <3>2, <4>2, <4>3
    <3>3. CASE p # m /\ p = 0
      <4>1. 0 \in 0..m - 1
        BY <1>4, <1>6
      <4> QED
        BY <2>3, <3>3, <4>1
    <3> QED
      BY <3>1, <3>2, <3>3
  <2>5. g = [p \in 0..m |-> g[p]]
    OBVIOUS
  <2> HIDE DEF g
  <2>6. ScanTo(m, g)
    BY <2>4, <2>5 DEF ScanTo
  <2> QED
    BY <1>4, <2>6
<1> QED
  BY <1>5, <1>6

LEMMA ScanIs ==
  /\ scan[0] = NoProc
  /\ \A p \in 1..NPROC : scan[p] = Keep(scan[p - 1], p)
<1>1. NPROC \in Nat
  BY ProcTableAssumption
<1>2. scan = CHOOSE f : f = [p \in 0..NPROC |-> IF p = 0 THEN NoProc ELSE Keep(f[p - 1], p)]
  BY DEF scan
<1>3. \E f : f = [p \in 0..NPROC |-> IF p = 0 THEN NoProc ELSE Keep(f[p - 1], p)]
  BY ScanExists DEF ScanTo
<1>4. scan = [p \in 0..NPROC |-> IF p = 0 THEN NoProc ELSE Keep(scan[p - 1], p)]
  BY <1>2, <1>3
<1> HIDE DEF scan
<1> QED
  BY <1>1, <1>4

\* It keeps the one of those it met that is behind all others.
Met(n) == {q \in Slots : q <= n /\ state[q] = "RUNNABLE"}
Farthest(q, S) == q \in S /\ \A r \in S \ {q} : Behind(q, r)

LEMMA BehindOrders ==
  ASSUME SharesTypeOK, IInv, NEW p \in Slots, NEW q \in Slots, NEW r \in Slots
  PROVE  /\ Behind(p, q) /\ Behind(q, r) => Behind(p, r)
         /\ state[p] = "RUNNABLE" /\ state[q] = "RUNNABLE" /\ p # q =>
              Behind(p, q) \/ Behind(q, p)
<1>1. /\ pass[p] \in Int /\ pass[q] \in Int /\ pass[r] \in Int
      /\ rtime[p] \in Int /\ rtime[q] \in Int /\ rtime[r] \in Int
  BY DEF SharesTypeOK
<1>2. pid[p] \in Int /\ pid[q] \in Int /\ pid[r] \in Int
  BY DEF IInv, TypeOK
<1>3. state[p] = "RUNNABLE" /\ state[q] = "RUNNABLE" /\ p # q => pid[p] # pid[q]
  BY DEF IInv, PidsBelow
<1> QED
  BY <1>1, <1>2, <1>3 DEF Behind

LEMMA ScanFinds ==
  ASSUME SharesTypeOK, IInv, NEW n \in 0..NPROC
  PROVE  IF Met(n) = {} THEN scan[n] = NoProc ELSE Farthest(scan[n], Met(n))
<1> DEFINE Good(k) == IF Met(k) = {} THEN scan[k] = NoProc ELSE Farthest(scan[k], Met(k))
           Bad == {k \in 0..NPROC : ~Good(k)}
<1>1. NPROC \in Nat /\ NoProc \notin Slots /\ Slots = 1..NPROC
  BY ProcTableAssumption DEF Slots, NoProc
<1>2. SUFFICES ASSUME Bad # {} PROVE FALSE
  OBVIOUS
<1>3. PICK m \in Bad : \A k \in Bad : m <= k
  <2>1. Bad \subseteq Nat
    BY <1>1
  <2> HIDE DEF Bad
  <2> QED
    BY <1>2, <2>1, LeastOf
<1>4. m \in 0..NPROC /\ ~Good(m)
  OBVIOUS
<1>5. m # 0
  <2>1. Met(0) = {}
    BY <1>1 DEF Met
  <2> QED
    BY <1>4, <2>1, ScanIs
<1>6. m - 1 \in 0..NPROC /\ m \in Slots
  BY <1>1, <1>4, <1>5
<1>7. Good(m - 1)
  BY <1>3, <1>4, <1>6
<1>8. scan[m] = Keep(scan[m - 1], m)
  BY <1>1, <1>6, ScanIs
<1>9. Met(m) = IF state[m] = "RUNNABLE" THEN Met(m - 1) \cup {m} ELSE Met(m - 1)
  BY <1>1, <1>6 DEF Met
<1> HIDE DEF Bad
<1>10. Met(m - 1) \subseteq Slots /\ m \notin Met(m - 1)
  BY <1>1, <1>6 DEF Met
<1>11. CASE state[m] # "RUNNABLE"
  BY <1>4, <1>7, <1>8, <1>9, <1>11 DEF Keep
<1>12. CASE state[m] = "RUNNABLE" /\ Met(m - 1) = {}
  <2>1. scan[m] = m /\ Met(m) = {m}
    BY <1>7, <1>8, <1>9, <1>12 DEF Keep
  <2> QED
    BY <1>4, <2>1 DEF Farthest
<1>13. CASE state[m] = "RUNNABLE" /\ Met(m - 1) # {}
  <2>1. Farthest(scan[m - 1], Met(m - 1)) /\ Met(m) = Met(m - 1) \cup {m}
    BY <1>7, <1>9, <1>13
  <2>2. PICK w \in Slots : w = scan[m - 1]
    BY <1>10, <2>1 DEF Farthest
  <2>3. w \in Met(m - 1) /\ w # NoProc /\ w # m /\ state[w] = "RUNNABLE"
        /\ \A r \in Met(m - 1) \ {w} : Behind(w, r)
    BY <1>1, <1>10, <2>1, <2>2 DEF Farthest, Met
  <2>4. CASE Behind(m, w)
    <3>1. scan[m] = m
      BY <1>8, <1>13, <2>2, <2>4 DEF Keep
    <3>2. ASSUME NEW r \in Met(m - 1) PROVE Behind(m, r)
      BY <1>6, <1>10, <2>3, <2>4, <3>2, BehindOrders
    <3> QED
      BY <1>4, <2>1, <3>1, <3>2 DEF Farthest
  <2>5. CASE ~Behind(m, w)
    <3>1. scan[m] = w
      BY <1>8, <2>2, <2>3, <2>5 DEF Keep
    <3>2. Behind(w, m)
      BY <1>6, <1>13, <2>3, <2>5, BehindOrders
    <3> QED
      BY <1>4, <2>1, <2>3, <3>1, <3>2 DEF Farthest
  <2> QED
    BY <2>4, <2>5
<1> QED
  BY <1>11, <1>12, <1>13

\* A CPU gets a process in scheduler() only.
LEMMA OnlyPickRuns ==
  ASSUME IInv, [Next]_vars, NEW c \in CPUS, cpu[c] = NoProc, cpu'[c] # NoProc
  PROVE  \E p \in Slots : Pick(c, p)
<1> USE DEF LeaveCpu
<1>1. cpu \in [CPUS -> Slots \cup {NoProc}]
  BY DEF IInv, TypeOK
<1>2. CASE UNCHANGED vars
  BY <1>2 DEF vars, ptVars
<1>3. CASE IoWakeup
  BY <1>3 DEF IoWakeup
<1>4. ASSUME NEW d \in CPUS, Timer(d) PROVE FALSE
  BY <1>4 DEF Timer
<1>5. ASSUME NEW d \in CPUS, NEW p \in Slots, Proc(d, p) PROVE \E q \in Slots : Pick(c, q)
  <2>1. CASE EndTurn(d, p)
    BY <1>1, <2>1 DEF EndTurn, WaitSleep, TickSleep, IoSleep, Exit, Yield
  <2>2. CASE NoShares(d, p) /\ ~Pick(d, p)
    BY <1>1, <2>2 DEF NoShares, Enter, Fault, ExitCall, OtherCall, AllocFail, ForkAbort,
       WaitFail, SleepTest, TimerExit, Reap
  <2>3. CASE Pick(d, p)
    <3>1. d = c
      BY <1>1, <2>3 DEF Pick, Dispatch
    <3> QED
      BY <2>3, <3>1
  <2>4. ASSUME NEW q \in Slots, AllocProc(d, p, q) PROVE FALSE
    BY <2>4 DEF AllocProc
  <2>5. CASE ForkDone(d, p)
    BY <2>5 DEF ForkDone
  <2>6. ASSUME NEW n \in KillPids, NEW q \in Slots, Kill(d, p, n, q) PROVE FALSE
    BY <2>6 DEF Kill
  <2>7. ASSUME NEW n \in TicketArgs, SetTickets(d, p, n) PROVE FALSE
    BY <2>7 DEF SetTickets, OtherCall
  <2> QED
    BY <1>5, <2>1, <2>2, <2>3, <2>4, <2>5, <2>6, <2>7 DEF Proc
<1> QED
  BY <1>2, <1>3, <1>4, <1>5 DEF Next

\* scheduler() dispatches the process with the least pass; ties go to the shorter
\* rtime, then to the lower pid, for any number of slots.  (p4: proc.c, scheduler.)
THEOREM FarthestBehindRuns == Spec => DispatchesFarthestBehind
<1> DEFINE Right ==
      \A c \in CPUS : cpu[c] = NoProc /\ cpu'[c] # NoProc =>
        \A q \in Slots \ {cpu'[c]} : state[q] = "RUNNABLE" => Behind(cpu'[c], q)
<1>1. IInv /\ SharesInv /\ [Next]_vars => Right
  <2> SUFFICES ASSUME IInv, SharesInv, [Next]_vars, NEW c \in CPUS,
                      cpu[c] = NoProc, cpu'[c] # NoProc,
                      NEW q \in Slots \ {cpu'[c]}, state[q] = "RUNNABLE"
               PROVE  Behind(cpu'[c], q)
    OBVIOUS
  <2>1. PICK p \in Slots : Pick(c, p)
    BY OnlyPickRuns
  <2>2. p = scan[NPROC] /\ state[p] = "RUNNABLE" /\ cpu'[c] = p
    BY <2>1 DEF Pick, Dispatch, min_pass_proc, IInv, TypeOK
  <2>3. NPROC \in Nat /\ Slots = 1..NPROC
    BY ProcTableAssumption DEF Slots
  <2>4. p \in Met(NPROC) /\ q \in Met(NPROC)
    BY <2>2, <2>3 DEF Met
  <2>5. Farthest(p, Met(NPROC))
    BY <2>2, <2>3, <2>4, ScanFinds DEF SharesInv
  <2> QED
    BY <2>2, <2>4, <2>5 DEF Farthest
<1>2. IInv /\ SharesInv /\ [Next]_vars => [Right]_vars
  BY <1>1
<1> QED
  BY <1>2, SharesInvariant, TableInvariant, PTL DEF Spec, DispatchesFarthestBehind
=============================================================================
