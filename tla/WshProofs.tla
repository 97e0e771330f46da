------------------------------ MODULE WshProofs -------------------------------
(***************************************************************************)
(* The shell, for any names, values and commands and a history of any      *)
(* size: as long as nothing was stored past the end of the history, the    *)
(* heap holds just what the history and the variables point to, and a user *)
(* sees what Shell says.                                                   *)
(***************************************************************************)
EXTENDS Wsh, FiniteSetTheorems, FunctionTheorems, SequenceTheorems,
        WellFoundedInduction, TLAPS

-----------------------------------------------------------------------------
(***************************************************************************)
(* Numbers, least elements, and how long a list of nodes can be.           *)
(***************************************************************************)
LEMMA CountTo ==
  ASSUME NEW n \in Nat
  PROVE  IsFiniteSet(1..n) /\ Cardinality(1..n) = n
BY FS_Interval

LEMMA Numbers ==
  /\ Cardinality(Names) \in Nat /\ IsFiniteSet(Names)
  /\ IsFiniteSet(Nodes) /\ Cardinality(Nodes) = Cardinality(Names)
  /\ NULL \notin Nodes /\ NULL \notin Strings
  /\ MAXIMUM_HISTORY \in Nat \ {0} /\ DEFAULT_HISTORY_SIZE \in 1..MAXIMUM_HISTORY
<1>1. /\ IsFiniteSet(Names)
      /\ DEFAULT_HISTORY_SIZE \in 1..MAXIMUM_HISTORY /\ MAXIMUM_HISTORY \in Nat
  BY WshAssumption, Zenon
<1>2. Cardinality(Names) \in Nat
  BY <1>1, FS_CardinalityType
<1>3. /\ IsFiniteSet(1..Cardinality(Names))
      /\ Cardinality(1..Cardinality(Names)) = Cardinality(Names)
  BY <1>2, CountTo
<1>4. NULL \notin 1..Cardinality(Names) /\ NULL \notin 1..MAXIMUM_HISTORY + 1
  BY <1>1, <1>2 DEF NULL
<1>5. MAXIMUM_HISTORY # 0
  BY <1>1
<1> QED
  BY <1>1, <1>2, <1>3, <1>4, <1>5 DEF Nodes, Strings

LEMMA LeastOf ==
  ASSUME NEW S, S \subseteq Nat, S # {}
  PROVE  \E m \in S : \A n \in S : m <= n
<1>1. IsWellFoundedOn(OpToRel(<, Nat), Nat)
  BY NatLessThanWellFounded
<1>2. PICK m \in S : \A n \in S : ~(<<n, m>> \in OpToRel(<, Nat))
  BY <1>1, WFMin
<1>3. ASSUME NEW n \in S PROVE m <= n
  <2>1. n \in Nat /\ m \in Nat
    OBVIOUS
  <2>2. ~(n < m)
    BY <1>2, <2>1 DEF OpToRel
  <2> QED
    BY <2>1, <2>2
<1> QED
  BY <1>3

\* A sequence without repetitions is no longer than the set it is over.
LEMMA DistinctFit ==
  ASSUME NEW T, IsFiniteSet(T), NEW s \in Seq(T),
         \A i, j \in DOMAIN s : s[i] = s[j] => i = j
  PROVE  /\ Cardinality(T) \in Nat /\ Len(s) <= Cardinality(T)
         /\ Cardinality({s[i] : i \in DOMAIN s}) = Len(s)
<1>1. Len(s) \in Nat /\ DOMAIN s = 1..Len(s) /\ s \in [1..Len(s) -> T]
  OBVIOUS
<1>2. s \in Injection(1..Len(s), T)
  BY <1>1 DEF Injection, IsInjective
<1>3. Cardinality(1..Len(s)) <= Cardinality(T)
  BY <1>2, FS_Injection
<1>4. IsFiniteSet(1..Len(s)) /\ Cardinality(1..Len(s)) = Len(s)
  BY <1>1, CountTo
<1>5. PICK U : U = {s[i] : i \in DOMAIN s}
  OBVIOUS
<1>6. s \in Bijection(1..Len(s), U)
  BY <1>1, <1>5 DEF Bijection, Injection, IsInjective, Surjection
<1>7. Cardinality(U) = Cardinality(1..Len(s))
  BY <1>4, <1>6, FS_Bijection DEF ExistsBijection
<1>8. Cardinality(T) \in Nat
  BY FS_CardinalityType
<1> QED
  BY <1>3, <1>4, <1>5, <1>7, <1>8
-----------------------------------------------------------------------------
(***************************************************************************)
(* The list of variables, when it is one.                                  *)
(***************************************************************************)
NodeRec ==
  [name : Names \cup {Empty}, value : Values \cup {Empty}, next : Nodes \cup {NULL}]

\* From v on, the nodes nd are linked as in l.
Linked(v, nd, l) ==
  /\ l \in Seq(Nodes)
  /\ \A i, j \in DOMAIN l : l[i] = l[j] => i = j
  /\ v = IF l = <<>> THEN NULL ELSE l[1]
  /\ \A i \in DOMAIN l : nd[l[i]].next = IF i = Len(l) THEN NULL ELSE l[i + 1]

\* g goes along the list.
Along(g) ==
  g = [i \in Nodes |-> IF i = 1 THEN shell_vars
                       ELSE IF g[i - 1] = NULL THEN NULL ELSE node[g[i - 1]].next]

LEMMA AlongOne ==
  ASSUME NEW g, NEW h, Along(g), Along(h)
  PROVE  g = h
<1> DEFINE Bad == {i \in Nodes : g[i] # h[i]}
<1>1. Nodes \subseteq Nat /\ \A i \in Nodes : i = 1 \/ i - 1 \in Nodes
  BY Numbers DEF Nodes
<1>2. CASE Bad # {}
  <2>1. Bad \subseteq Nat
    BY <1>1
  <2> HIDE DEF Bad
  <2>2. PICK m \in Bad : \A n \in Bad : m <= n
    BY <1>2, <2>1, LeastOf
  <2>3. m \in Nodes /\ g[m] # h[m]
    BY DEF Bad
  <2>4. m # 1
    BY <2>3 DEF Along
  <2>5. m - 1 \in Nodes /\ m - 1 \notin Bad
    BY <1>1, <2>2, <2>3, <2>4
  <2>6. g[m - 1] = h[m - 1]
    BY <2>5 DEF Bad
  <2>7. g[m] = IF g[m - 1] = NULL THEN NULL ELSE node[g[m - 1]].next
    BY <2>3, <2>4 DEF Along
  <2>8. h[m] = IF h[m - 1] = NULL THEN NULL ELSE node[h[m - 1]].next
    BY <2>3, <2>4 DEF Along
  <2> QED
    BY <2>3, <2>6, <2>7, <2>8
<1>3. CASE Bad = {}
  <2>1. \A i \in Nodes : g[i] = h[i]
    BY <1>3
  <2>2. g = [i \in Nodes |-> g[i]] /\ h = [i \in Nodes |-> h[i]]
    BY DEF Along
  <2> QED
    BY <2>1, <2>2
<1> QED
  BY <1>2, <1>3

\* Traversal from shell_vars finds the list.
LEMMA ListIs == \A l \in Seq(Nodes) : Linked(shell_vars, node, l) => List = l
<1> SUFFICES ASSUME NEW l \in Seq(Nodes), Linked(shell_vars, node, l)
             PROVE  List = l
  OBVIOUS
<1>1. PICK N \in Nat : N = Cardinality(Names) /\ Nodes = 1..N
  BY Numbers DEF Nodes
<1>2. PICK n \in 0..N : n = Len(l) /\ DOMAIN l = 1..n
  <2>1. Len(l) <= Cardinality(Nodes)
    BY Numbers, DistinctFit DEF Linked
  <2> QED
    BY <1>1, <2>1, Numbers
<1> DEFINE f == [i \in Nodes |-> IF i <= n THEN l[i] ELSE NULL]
<1>3. ASSUME NEW i \in Nodes
      PROVE  f[i] = IF i = 1 THEN shell_vars
                    ELSE IF f[i - 1] = NULL THEN NULL ELSE node[f[i - 1]].next
  <2>1. CASE i = 1
    <3>1. n = 0 <=> l = <<>>
      BY <1>2
    <3> QED
      BY <1>1, <1>2, <2>1, <3>1 DEF Linked
  <2>2. CASE i # 1 /\ i - 1 > n
    BY <1>1, <1>2, <2>2
  <2>3. CASE i # 1 /\ i - 1 = n
    <3>1. n \in DOMAIN l /\ f[i - 1] = l[n] /\ l[n] # NULL /\ f[i] = NULL
      BY <1>1, <1>2, <2>3, Numbers
    <3>2. node[l[n]].next = NULL
      BY <1>2, <3>1 DEF Linked
    <3> QED
      BY <2>3, <3>1, <3>2
  <2>4. CASE i # 1 /\ i - 1 < n
    <3>1. PICK j \in DOMAIN l : j = i - 1
      BY <1>1, <1>2, <2>4
    <3>2. f[i - 1] = l[j] /\ l[j] # NULL /\ f[i] = l[j + 1] /\ j # Len(l)
      BY <1>1, <1>2, <2>4, <3>1, Numbers
    <3>3. node[l[j]].next = l[j + 1]
      BY <3>2 DEF Linked
    <3> QED
      BY <2>4, <3>2, <3>3
  <2> QED
    BY <1>1, <1>2, <2>1, <2>2, <2>3, <2>4
<1>4. f = [i \in Nodes |-> IF i = 1 THEN shell_vars
                           ELSE IF f[i - 1] = NULL THEN NULL ELSE node[f[i - 1]].next]
  BY <1>3
<1> HIDE DEF f
<1>5. Along(f)
  BY <1>4 DEF Along
<1>6. NodeAt = CHOOSE g : Along(g)
  BY DEF NodeAt, Along
<1>7. Along(NodeAt)
  BY <1>5, <1>6
<1>8. NodeAt = f
  BY <1>5, <1>7, AlongOne
<1>9. {j \in Nodes : f[j] # NULL} = 1..n
  BY <1>1, <1>2, Numbers DEF f
<1>10. Cardinality(1..n) = n
  BY <1>1, CountTo
<1>11. List = [i \in 1..n |-> f[i]]
  BY <1>8, <1>9, <1>10, Zenon DEF List
<1>12. \A i \in 1..n : f[i] = l[i]
  BY <1>1, <1>2 DEF f
<1>13. l = [i \in 1..n |-> l[i]]
  BY <1>2
<1> QED
  BY <1>11, <1>12, <1>13
-----------------------------------------------------------------------------
(***************************************************************************)
(* The inductive invariant.                                                *)
(***************************************************************************)
\* The first n pointers of h are the strings of str, each once.
Owned(h, n, str) ==
  /\ \A i \in 0..n - 1 : h[i] \in Strings
  /\ \A i, j \in 0..n - 1 : h[i] = h[j] => i = j
  /\ \A s \in Strings : str[s] # Nothing <=> \E i \in 0..n - 1 : h[i] = s

HistoryTyped ==
  /\ history \in [0..MAXIMUM_HISTORY - 1 -> Strings \cup {NULL}]
  /\ history_count \in 0..MAXIMUM_HISTORY
  /\ history_capacity \in 1..MAXIMUM_HISTORY
  /\ room \in 0..MAXIMUM_HISTORY
  /\ string = [s \in Strings |-> string[s]]
HistoryInv ==
  /\ HistoryTyped
  /\ ~ended => /\ history_count <= history_capacity /\ history_count <= room
               /\ room # 0
               /\ Owned(history, history_count, string)

\* The nodes of l are all there are, one for a name.
Listed(v, nd, l) ==
  /\ Linked(v, nd, l)
  /\ \A i \in DOMAIN l : nd[l[i]].name \in Names
  /\ \A i, j \in DOMAIN l : nd[l[i]].name = nd[l[j]].name => i = j
  /\ \A n \in Nodes : nd[n] # FreeNode <=> \E i \in DOMAIN l : l[i] = n
VariablesInv ==
  /\ node \in [Nodes -> NodeRec]
  /\ ~ended => \E l \in Seq(Nodes) : Listed(shell_vars, node, l)

\* "exit" leaves nothing.
NothingLeft ==
  room = 0 => /\ \A s \in Strings : string[s] = Nothing
              /\ \A n \in Nodes : node[n] = FreeNode

WInv == HistoryInv /\ VariablesInv /\ NothingLeft
-----------------------------------------------------------------------------
Taken(str) == {s \in Strings : str[s] # Nothing}

LEMMA HistoryIsSeq ==
  ASSUME NEW h, NEW n \in Nat, NEW str, Owned(h, n, str)
  PROVE  /\ {h[i] : i \in 0..n - 1} = Taken(str)
         /\ Cardinality({h[i] : i \in 0..n - 1}) = n
         /\ Cardinality(Taken(str)) = n
         /\ n <= MAXIMUM_HISTORY + 1
<1>1. {h[i] : i \in 0..n - 1} = Taken(str)
  BY DEF Owned, Taken
<1> DEFINE q == [i \in 1..n |-> h[i - 1]]
<1>2. \A i \in 1..n : i - 1 \in 0..n - 1
  OBVIOUS
<1>3. q \in Seq(Strings) /\ Len(q) = n /\ DOMAIN q = 1..n
  BY <1>2 DEF Owned
<1>4. \A i, j \in DOMAIN q : q[i] = q[j] => i = j
  BY <1>2, <1>3 DEF Owned
<1>5. {q[i] : i \in DOMAIN q} = {h[i] : i \in 0..n - 1}
  <2>1. \A i \in DOMAIN q : i - 1 \in 0..n - 1 /\ q[i] = h[i - 1]
    OBVIOUS
  <2>2. \A i \in 0..n - 1 : i + 1 \in DOMAIN q /\ q[i + 1] = h[i]
    OBVIOUS
  <2> HIDE DEF q
  <2> QED
    BY <2>1, <2>2
<1> HIDE DEF q
<1>6. IsFiniteSet(Strings) /\ Cardinality(Strings) = MAXIMUM_HISTORY + 1
  BY Numbers, CountTo DEF Strings
<1>7. Len(q) <= Cardinality(Strings) /\ Cardinality({q[i] : i \in DOMAIN q}) = Len(q)
  BY <1>3, <1>4, <1>6, DistinctFit
<1> QED
  BY <1>1, <1>3, <1>5, <1>6, <1>7

\* There is one string more than the history can hold.
LEMMA FreeString ==
  ASSUME NEW h, NEW n \in 0..MAXIMUM_HISTORY, NEW str, Owned(h, n, str)
  PROVE  \E s \in Strings : str[s] = Nothing
<1>1. SUFFICES ASSUME \A s \in Strings : str[s] # Nothing PROVE FALSE
  OBVIOUS
<1>2. n \in Nat /\ MAXIMUM_HISTORY \in Nat
  BY Numbers
<1>3. Taken(str) = Strings
  BY <1>1 DEF Taken
<1>4. Cardinality(Strings) = n
  BY <1>2, <1>3, HistoryIsSeq
<1>5. Cardinality(Strings) = MAXIMUM_HISTORY + 1
  BY <1>2, CountTo DEF Strings
<1> QED
  BY <1>2, <1>4, <1>5

LEMMA NewStringIs ==
  ASSUME HistoryInv, ~ended
  PROVE  NewString \in Strings /\ string[NewString] = Nothing
<1> DEFINE S == {s \in Strings : string[s] = Nothing}
<1>1. S # {}
  <2>1. \E s \in Strings : string[s] = Nothing
    BY FreeString DEF HistoryInv, HistoryTyped
  <2> QED
    BY <2>1
<1>2. S \subseteq Nat
  BY Numbers DEF Strings
<1>3. \E m \in S : \A n \in S : m <= n
  <2> HIDE DEF S
  <2> QED
    BY <1>1, <1>2, LeastOf
<1>4. \E s \in Strings : string[s] = Nothing /\
        \A t \in Strings : string[t] = Nothing => s <= t
  BY <1>3
<1> QED
  BY <1>4 DEF NewString

LEMMA LineIs ==
  ASSUME NEW c \in Commands, NEW r
  PROVE  WithAmpersand(c, r) # Nothing
<1>1. c[1] # Empty
  BY WshAssumption, Zenon
<1>2. WithAmpersand(c, r)[1] = c[1]
  BY DEF WithAmpersand
<1>3. Nothing[1] = Empty
  BY DEF Nothing
<1> QED
  BY <1>1, <1>2, <1>3

\* What the history holds after c was recorded.
Recorded(c) ==
  \/ /\ history_count < history_capacity /\ history_count' = history_count + 1
     /\ string'[history'[history_count]] = c
     /\ \A i \in 0..history_count - 1 : string'[history'[i]] = string[history[i]]
  \/ /\ history_count = history_capacity /\ history_count' = history_count
     /\ string'[history'[history_count - 1]] = c
     /\ \A i \in 0..history_count - 2 : string'[history'[i]] = string[history[i + 1]]

\* A line is recorded.
LEMMA RecordStep ==
  ASSUME HistoryInv, ~ended, NEW c, c # Nothing, Record(c), ~overrun',
         UNCHANGED <<history_capacity, room>>
  PROVE  HistoryInv' /\ room' # 0 /\ Recorded(c)
<1>1. PICK M \in Nat \ {0} : M = MAXIMUM_HISTORY
  BY Numbers
<1>2. /\ history \in [0..M - 1 -> Strings \cup {NULL}]
      /\ history_count \in 0..M /\ history_capacity \in 1..M /\ room \in 0..M
      /\ string = [s \in Strings |-> string[s]]
      /\ history_count <= history_capacity /\ history_count <= room /\ room # 0
      /\ Owned(history, history_count, string)
  BY <1>1 DEF HistoryInv, HistoryTyped
<1>3. CASE /\ history_count < history_capacity
           /\ history' = [history EXCEPT ![history_count] = NewString]
           /\ string' = [string EXCEPT ![NewString] = c]
           /\ history_count' = history_count + 1
           /\ overrun' = (overrun \/ history_count >= room)
  <2>1. PICK s \in Strings, n \in 0..M - 1 :
          s = NewString /\ n = history_count /\ string[s] = Nothing
    BY <1>2, <1>3, NewStringIs
  <2>2. /\ history' = [history EXCEPT ![n] = s] /\ string' = [string EXCEPT ![s] = c]
        /\ history_count' = n + 1
    BY <1>3, <2>1
  <2>3. /\ history' \in [0..M - 1 -> Strings \cup {NULL}] /\ history'[n] = s
        /\ \A i \in 0..n - 1 : history'[i] = history[i]
    BY <1>2, <2>1, <2>2
  <2>4. /\ string' = [t \in Strings |-> string'[t]] /\ string'[s] = c
        /\ \A t \in Strings \ {s} : string'[t] = string[t]
    BY <1>2, <2>1, <2>2
  <2>5. Owned(history', n + 1, string')
    <3>1. \A i \in 0..n : i = n \/ i \in 0..n - 1
      OBVIOUS
    <3>2. \A i \in 0..n - 1 : history[i] # s /\ i \in 0..n
      BY <1>2, <2>1 DEF Owned
    <3>3. n + 1 - 1 = n /\ n \in 0..n
      OBVIOUS
    <3>4. \A i \in 0..n : history'[i] \in Strings
      BY <1>2, <2>1, <2>3, <3>1 DEF Owned
    <3>5. \A i, j \in 0..n : history'[i] = history'[j] => i = j
      BY <1>2, <2>1, <2>3, <3>1, <3>2 DEF Owned
    <3>6. ASSUME NEW t \in Strings
          PROVE  string'[t] # Nothing <=> \E i \in 0..n : history'[i] = t
      <4>1. CASE t = s
        BY <2>3, <2>4, <3>3, <4>1
      <4>2. CASE t # s
        <5>1. string[t] # Nothing <=> \E i \in 0..n - 1 : history[i] = t
          BY <1>2, <2>1 DEF Owned
        <5> QED
          BY <2>3, <2>4, <3>1, <3>2, <4>2, <5>1
      <4> QED
        BY <4>1, <4>2
    <3> QED
      BY <3>3, <3>4, <3>5, <3>6 DEF Owned
  <2>6. n + 1 \in 0..M /\ n + 1 <= history_capacity /\ n + 1 <= room
    <3>1. ~(history_count >= room)
      BY <1>3
    <3> QED
      BY <1>2, <1>3, <2>1, <3>1
  <2>7. HistoryInv' /\ room' # 0
    BY <1>1, <1>2, <2>2, <2>3, <2>4, <2>5, <2>6 DEF HistoryInv, HistoryTyped
  <2>8. ASSUME NEW i \in 0..n - 1
        PROVE  string'[history'[i]] = string[history[i]]
    <3>1. history[i] \in Strings /\ history[i] # s
      BY <1>2, <2>1 DEF Owned
    <3> QED
      BY <2>3, <2>4, <3>1
  <2>9. Recorded(c)
    BY <1>3, <2>1, <2>2, <2>3, <2>4, <2>8 DEF Recorded
  <2> QED
    BY <2>7, <2>9
<1>4. CASE /\ history_count >= history_capacity
           /\ LET s == CHOOSE x \in Strings : FreeOldest[x] = Nothing
              IN  /\ history' = [Moved(1, history_capacity - 1) EXCEPT
                                   ![history_capacity - 1] = s]
                  /\ string' = [FreeOldest EXCEPT ![s] = c]
           /\ overrun' = (overrun \/ history_capacity > room)
           /\ UNCHANGED history_count
  <2>1. PICK n \in 1..M : n = history_count /\ n = history_capacity
    BY <1>2, <1>4
  <2>2. PICK o \in Strings : o = history[0]
    BY <1>2, <2>1 DEF Owned
  <2>3. PICK f : f = FreeOldest
    OBVIOUS
  <2>4. /\ f = [t \in Strings |-> f[t]] /\ f[o] = Nothing
        /\ \A t \in Strings \ {o} : f[t] = string[t]
    BY <1>2, <2>2, <2>3 DEF FreeOldest, Freed
  <2>5. PICK s \in Strings : s = (CHOOSE x \in Strings : f[x] = Nothing) /\ f[s] = Nothing
    BY <2>4
  <2>6. PICK m : m = Moved(1, n - 1)
    OBVIOUS
  <2>7. /\ m \in [0..M - 1 -> Strings \cup {NULL}]
        /\ \A i \in 0..n - 2 : m[i] = history[i + 1]
    <3>1. \A i \in 0..M - 1 : i < n - 1 => i + 1 \in 0..M - 1
      OBVIOUS
    <3>2. m = [i \in 0..M - 1 |-> IF i < n - 1 THEN history[i + 1] ELSE history[i]]
      BY <1>2, <2>6 DEF Moved
    <3> QED
      BY <1>2, <3>1, <3>2
  <2>8. history' = [m EXCEPT ![n - 1] = s] /\ string' = [f EXCEPT ![s] = c] /\ history_count' = n
    BY <1>4, <2>1, <2>3, <2>5, <2>6
  <2>9. /\ history' \in [0..M - 1 -> Strings \cup {NULL}] /\ history'[n - 1] = s
        /\ \A i \in 0..n - 2 : history'[i] = history[i + 1]
    BY <2>7, <2>8
  <2>10. /\ string' = [t \in Strings |-> string'[t]] /\ string'[s] = c
         /\ \A t \in Strings \ {s} : string'[t] = f[t]
    BY <2>4, <2>5, <2>8
  <2>11. Owned(history', n, string')
    <3>1. \A i \in 0..n - 1 : i = n - 1 \/ i \in 0..n - 2
      OBVIOUS
    <3>2. \A i \in 0..n - 2 : i + 1 \in 0..n - 1 /\ i + 1 # 0
      OBVIOUS
    <3>3. ASSUME NEW i \in 0..n - 2
          PROVE  history[i + 1] \in Strings /\ history[i + 1] # s /\ history[i + 1] # o
      <4>1. history[i + 1] \in Strings /\ history[i + 1] # o /\ 0 \in 0..n - 1
        BY <1>2, <2>1, <2>2, <3>2 DEF Owned
      <4>2. string[history[i + 1]] # Nothing
        BY <1>2, <2>1, <3>2, <4>1 DEF Owned
      <4> QED
        BY <2>4, <2>5, <4>1, <4>2
    <3>4. \A i \in 0..n - 1 : history'[i] \in Strings
      BY <2>9, <3>1, <3>3
    <3>5. ASSUME NEW i \in 0..n - 1, NEW j \in 0..n - 1, history'[i] = history'[j]
          PROVE  i = j
      <4>1. CASE i = n - 1 \/ j = n - 1
        BY <2>9, <3>1, <3>3, <3>5, <4>1
      <4>2. CASE i \in 0..n - 2 /\ j \in 0..n - 2
        <5>1. history[i + 1] = history[j + 1]
          BY <2>9, <3>5, <4>2
        <5>2. i + 1 = j + 1
          BY <1>2, <2>1, <3>2, <4>2, <5>1 DEF Owned
        <5> QED
          BY <5>2
      <4> QED
        BY <3>1, <4>1, <4>2
    <3>6. ASSUME NEW t \in Strings
          PROVE  string'[t] # Nothing <=> \E i \in 0..n - 1 : history'[i] = t
      <4>1. CASE t = s
        <5>1. n - 1 \in 0..n - 1
          OBVIOUS
        <5> QED
          BY <2>9, <2>10, <4>1, <5>1
      <4>2. CASE t = o /\ t # s
        <5>1. string'[t] = Nothing
          BY <2>4, <2>10, <4>2
        <5> QED
          BY <2>9, <3>1, <3>3, <4>2, <5>1
      <4>3. CASE t # o /\ t # s
        <5>1. string'[t] = string[t]
          BY <2>4, <2>10, <4>3
        <5>2. string[t] # Nothing <=> \E i \in 0..n - 1 : history[i] = t
          BY <1>2, <2>1 DEF Owned
        <5>3. \A i \in 0..n - 1 : i = 0 \/ (i - 1 \in 0..n - 2 /\ i - 1 + 1 = i)
          OBVIOUS
        <5>4. ASSUME NEW i \in 0..n - 1, history[i] = t
              PROVE  \E j \in 0..n - 1 : history'[j] = t
          <6>1. i # 0
            BY <2>2, <4>3, <5>4
          <6>2. PICK j \in 0..n - 2 : j + 1 = i
            BY <5>3, <6>1
          <6>3. j \in 0..n - 1 /\ history'[j] = t
            BY <2>9, <5>4, <6>2
          <6> QED
            BY <6>3
        <5>5. ASSUME NEW i \in 0..n - 1, history'[i] = t
              PROVE  \E j \in 0..n - 1 : history[j] = t
          <6>1. i \in 0..n - 2
            BY <2>9, <3>1, <4>3, <5>5
          <6>2. i + 1 \in 0..n - 1 /\ history[i + 1] = t
            BY <2>9, <3>2, <5>5, <6>1
          <6> QED
            BY <6>2
        <5> QED
          BY <5>1, <5>2, <5>4, <5>5
      <4> QED
        BY <4>1, <4>2, <4>3
    <3> QED
      BY <3>4, <3>5, <3>6 DEF Owned
  <2>12. HistoryInv' /\ room' # 0
    BY <1>1, <1>2, <2>1, <2>8, <2>9, <2>10, <2>11 DEF HistoryInv, HistoryTyped
  <2>13. ASSUME NEW i \in 0..n - 2
         PROVE  string'[history'[i]] = string[history[i + 1]]
    <3>1. i + 1 \in 0..n - 1 /\ i + 1 # 0 /\ 0 \in 0..n - 1
      OBVIOUS
    <3>2. history[i + 1] \in Strings /\ history[i + 1] # o
      BY <1>2, <2>1, <2>2, <3>1 DEF Owned
    <3>3. string[history[i + 1]] # Nothing
      BY <1>2, <2>1, <3>1, <3>2 DEF Owned
    <3>4. f[history[i + 1]] = string[history[i + 1]] /\ history[i + 1] # s
      BY <2>4, <2>5, <3>2, <3>3
    <3> QED
      BY <2>9, <2>10, <3>2, <3>4
  <2>14. Recorded(c)
    BY <1>4, <2>1, <2>8, <2>9, <2>10, <2>13 DEF Recorded
  <2> QED
    BY <2>12, <2>14
<1> QED
  BY <1>3, <1>4 DEF Record

\* What the history holds after it was lowered to n.
Lowered(n) ==
  \A i \in 0..n - 1 : string'[history'[i]] = string[history[i + (history_count - n)]]

\* A history that is lowered keeps its last entries.
LEMMA LowerStep ==
  ASSUME HistoryInv, ~ended, NEW n \in 1..history_count - 1,
         string' = [s \in Strings |-> IF s \in Dropped(n) THEN Nothing ELSE string[s]],
         history' = Moved(history_count - n, n), history_count' = n,
         room' \in {n, room}, history_capacity' \in {n, history_capacity}
  PROVE  HistoryInv' /\ room' # 0 /\ Lowered(n)
<1>1. PICK M \in Nat \ {0} : M = MAXIMUM_HISTORY
  BY Numbers
<1>2. /\ history \in [0..M - 1 -> Strings \cup {NULL}]
      /\ history_count \in 0..M /\ history_capacity \in 1..M /\ room \in 0..M
      /\ history_count <= history_capacity /\ history_count <= room
      /\ string = [s \in Strings |-> string[s]]
      /\ Owned(history, history_count, string)
  BY <1>1 DEF HistoryInv, HistoryTyped
<1>3. PICK m \in 0..M, k \in 1..M : m = history_count /\ k = m - n
  BY <1>2
<1>4. n \in 1..m - 1 /\ n <= M
  BY <1>3
<1>5. \A i \in 0..n - 1 : i + k \in 0..m - 1 /\ i + k \in 0..M - 1 /\ i \in 0..M - 1
  BY <1>3, <1>4
<1>6. /\ history' \in [0..M - 1 -> Strings \cup {NULL}]
      /\ \A i \in 0..n - 1 : history'[i] = history[i + k]
  <2>1. history' = [i \in 0..M - 1 |-> IF i < n THEN history[i + k] ELSE history[i]]
    BY <1>2, <1>3 DEF Moved
  <2>2. \A i \in 0..M - 1 : i < n => i \in 0..n - 1
    BY <1>4
  <2>3. \A i \in 0..n - 1 : i < n
    OBVIOUS
  <2> QED
    BY <1>2, <1>5, <2>1, <2>2, <2>3
<1>7. Dropped(n) = {history[i] : i \in 0..k - 1}
  <2>1. history_count - n - 1 = k - 1
    BY <1>3
  <2> QED
    BY <2>1 DEF Dropped
<1>8. string' = [s \in Strings |-> string'[s]]
  OBVIOUS
<1>9. Owned(history', n, string')
  <2>1. \A i \in 0..n - 1 : history'[i] \in Strings
    BY <1>2, <1>3, <1>5, <1>6 DEF Owned
  <2>2. ASSUME NEW i \in 0..n - 1, NEW j \in 0..n - 1, history'[i] = history'[j]
        PROVE  i = j
    <3>1. i + k = j + k
      BY <1>2, <1>3, <1>5, <1>6, <2>2 DEF Owned
    <3> QED
      BY <3>1
  <2>3. ASSUME NEW s \in Strings
        PROVE  string'[s] # Nothing <=> \E i \in 0..n - 1 : history'[i] = s
    <3>1. string[s] # Nothing <=> \E i \in 0..m - 1 : history[i] = s
      BY <1>2, <1>3 DEF Owned
    <3>2. \A i, j \in 0..m - 1 : history[i] = history[j] => i = j
      BY <1>2, <1>3 DEF Owned
    <3>3. \A i \in 0..k - 1 : i \in 0..m - 1
      BY <1>3, <1>4
    <3>4. CASE s \in Dropped(n)
      <4>1. PICK j \in 0..k - 1 : history[j] = s
        BY <1>7, <3>4
      <4>2. ASSUME NEW i \in 0..n - 1
            PROVE  history'[i] # s
        <5>1. i + k # j
          BY <1>3
        <5> QED
          BY <1>5, <1>6, <3>2, <3>3, <4>1, <5>1
      <4>3. string'[s] = Nothing
        BY <3>4
      <4> QED
        BY <4>2, <4>3
    <3>5. CASE s \notin Dropped(n)
      <4>1. string'[s] = string[s]
        BY <3>5
      <4>2. ASSUME NEW i \in 0..m - 1, history[i] = s
            PROVE  \E j \in 0..n - 1 : history'[j] = s
        <5>1. i \notin 0..k - 1
          BY <1>7, <3>5, <4>2
        <5>2. PICK j \in 0..n - 1 : j + k = i
          <6>1. i - k \in 0..n - 1 /\ i - k + k = i
            BY <1>3, <1>4, <5>1
          <6> QED
            BY <6>1
        <5> QED
          BY <1>6, <4>2, <5>2
      <4>3. ASSUME NEW i \in 0..n - 1, history'[i] = s
            PROVE  \E j \in 0..m - 1 : history[j] = s
        BY <1>5, <1>6, <4>3
      <4> QED
        BY <3>1, <4>1, <4>2, <4>3
    <3> QED
      BY <3>4, <3>5
  <2> QED
    BY <2>1, <2>2, <2>3 DEF Owned
<1>10. /\ n \in 0..M /\ history_capacity' \in 1..M /\ room' \in 0..M /\ room' # 0
       /\ n <= history_capacity' /\ n <= room'
  BY <1>2, <1>3, <1>4
<1>11. ASSUME NEW i \in 0..n - 1
       PROVE  string'[history'[i]] = string[history[i + k]]
  <2>1. history[i + k] \in Strings
    BY <1>2, <1>3, <1>5 DEF Owned
  <2>2. history[i + k] \notin Dropped(n)
    <3>1. \A j \in 0..k - 1 : j \in 0..m - 1 /\ j # i + k
      BY <1>3, <1>4
    <3>2. \A j \in 0..k - 1 : history[j] # history[i + k]
      BY <1>2, <1>3, <1>5, <3>1 DEF Owned
    <3> QED
      BY <1>7, <3>2
  <2> QED
    BY <1>6, <2>1, <2>2
<1>12. Lowered(n)
  BY <1>3, <1>11 DEF Lowered
<1>13. HistoryInv' /\ room' # 0
  BY <1>1, <1>6, <1>8, <1>9, <1>10 DEF HistoryInv, HistoryTyped
<1> QED
  BY <1>12, <1>13
-----------------------------------------------------------------------------
(***************************************************************************)
(* The list of variables, as set_shell_var() changes it.                   *)
(***************************************************************************)
LEMMA FreeNodeIs ==
  /\ FreeNode \in NodeRec /\ FreeNode.name = Empty /\ FreeNode.next = NULL
  /\ Empty \notin Names
<1>1. Empty \notin Names
  BY WshAssumption, Zenon
<1> QED
  BY <1>1 DEF FreeNode, NodeRec

\* The list without its i-th element.
Without(l, i) == [j \in 1..Len(l) - 1 |-> IF j < i THEN l[j] ELSE l[j + 1]]

LEMMA WithoutIs ==
  ASSUME NEW S, NEW l \in Seq(S), NEW i \in DOMAIN l
  PROVE  /\ Without(l, i) \in Seq(S) /\ Len(Without(l, i)) = Len(l) - 1
         /\ DOMAIN Without(l, i) = 1..Len(l) - 1
         /\ \A j \in 1..Len(l) - 1 :
              /\ j \in DOMAIN l /\ j + 1 \in DOMAIN l
              /\ j < i => Without(l, i)[j] = l[j]
              /\ ~(j < i) => Without(l, i)[j] = l[j + 1]
<1>1. PICK n \in Nat : n = Len(l) /\ DOMAIN l = 1..n
  OBVIOUS
<1>2. n - 1 \in Nat
  BY <1>1
<1>3. \A j \in 1..n - 1 : j \in 1..n /\ j + 1 \in 1..n
  BY <1>1
<1>4. Without(l, i) = [j \in 1..n - 1 |-> IF j < i THEN l[j] ELSE l[j + 1]]
  BY <1>1 DEF Without
<1>5. \A j \in 1..n - 1 : (IF j < i THEN l[j] ELSE l[j + 1]) \in S
  BY <1>1, <1>3
<1>6. Without(l, i) \in Seq(S) /\ Len(Without(l, i)) = n - 1
  <2>1. Without(l, i) \in [1..n - 1 -> S]
    BY <1>4, <1>5
  <2> QED
    BY <1>2, <2>1
<1> QED
  BY <1>1, <1>3, <1>4, <1>6

LEMMA UnlinkStep ==
  ASSUME node \in [Nodes -> NodeRec],
         NEW l \in Seq(Nodes), Listed(shell_vars, node, l), NEW i \in DOMAIN l,
         shell_vars' = Unlink(i)[1], node' = Unlink(i)[2]
  PROVE  /\ node' \in [Nodes -> NodeRec]
         /\ Without(l, i) \in Seq(Nodes)
         /\ Listed(shell_vars', node', Without(l, i))
         /\ \A j \in DOMAIN Without(l, i) :
              /\ node'[Without(l, i)[j]].name = node[Without(l, i)[j]].name
              /\ node'[Without(l, i)[j]].value = node[Without(l, i)[j]].value
<1>1. List = l /\ Linked(shell_vars, node, l)
  BY ListIs DEF Listed
<1>2. PICK n \in Nat \ {0} : n = Len(l) /\ DOMAIN l = 1..n /\ l \in [1..n -> Nodes]
  <2>1. Len(l) \in Nat /\ DOMAIN l = 1..Len(l) /\ l \in [1..Len(l) -> Nodes]
    OBVIOUS
  <2>2. Len(l) # 0
    BY <2>1
  <2> QED
    BY <2>1, <2>2
<1>3. PICK w \in Seq(Nodes) : w = Without(l, i) /\ Len(w) = Len(l) - 1
  BY WithoutIs
<1>4. /\ Len(w) = n - 1 /\ DOMAIN w = 1..n - 1
      /\ \A j \in 1..n - 1 :
           /\ j \in 1..n /\ j + 1 \in 1..n
           /\ j < i => w[j] = l[j]
           /\ ~(j < i) => w[j] = l[j + 1]
  <2>1. /\ \A j \in 1..Len(l) - 1 :
             /\ j \in DOMAIN l /\ j + 1 \in DOMAIN l
             /\ j < i => Without(l, i)[j] = l[j]
             /\ ~(j < i) => Without(l, i)[j] = l[j + 1]
    BY WithoutIs
  <2>2. Len(w) = n - 1 /\ DOMAIN w = 1..n - 1
    BY <1>2, <1>3
  <2> QED
    BY <1>2, <1>3, <2>1, <2>2
<1>5. /\ \A j, k \in 1..n : l[j] = l[k] => j = k
      /\ \A j \in 1..n : node[l[j]].next = IF j = n THEN NULL ELSE l[j + 1]
      /\ shell_vars = l[1] /\ l # <<>>
      /\ \A j \in 1..n : node[l[j]].name \in Names
      /\ \A j, k \in 1..n : node[l[j]].name = node[l[k]].name => j = k
      /\ \A x \in Nodes : node[x] # FreeNode <=> \E j \in 1..n : l[j] = x
  <2>1. l # <<>> /\ 1 \in 1..n
    BY <1>2
  <2>2. \A j, k \in 1..n : l[j] = l[k] => j = k
    BY <1>1, <1>2 DEF Linked
  <2>3. \A j \in 1..n : node[l[j]].next = IF j = n THEN NULL ELSE l[j + 1]
    BY <1>1, <1>2 DEF Linked
  <2>4. shell_vars = l[1]
    BY <1>1, <2>1 DEF Linked
  <2>5. \A j \in 1..n : node[l[j]].name \in Names
    BY <1>2 DEF Listed
  <2>6. \A j, k \in 1..n : node[l[j]].name = node[l[k]].name => j = k
    BY <1>2 DEF Listed
  <2>7. \A x \in Nodes : node[x] # FreeNode <=> \E j \in 1..n : l[j] = x
    BY <1>2 DEF Listed
  <2> QED
    BY <2>1, <2>2, <2>3, <2>4, <2>5, <2>6, <2>7
\* All that the code does to the nodes.
<1>6. /\ node' \in [Nodes -> NodeRec] /\ node'[l[i]] = FreeNode
      /\ \A x \in Nodes \ {l[i]} :
           /\ node'[x].name = node[x].name /\ node'[x].value = node[x].value
           /\ node'[x].next = IF i # 1 /\ x = l[i - 1] THEN node[l[i]].next
                              ELSE node[x].next
           /\ (i = 1 \/ x # l[i - 1]) => node'[x] = node[x]
  <2>1. CASE i = 1
    <3>1. node' = [node EXCEPT ![l[1]] = FreeNode]
      BY <1>1, <2>1 DEF Unlink
    <3> QED
      BY <1>2, <2>1, <3>1, FreeNodeIs
  <2>2. CASE i # 1
    <3>1. PICK a \in Nodes, b \in Nodes : a = l[i - 1] /\ b = l[i] /\ a # b
      <4>1. PICK h \in 1..n : h = i - 1 /\ h # i
        BY <1>2, <2>2
      <4>2. l[h] \in Nodes /\ l[i] \in Nodes
        BY <1>2
      <4>3. l[h] # l[i]
        BY <1>2, <1>5, <4>1
      <4> QED
        BY <4>1, <4>2, <4>3
    <3>2. node' = [node EXCEPT ![a].next = node[b].next, ![b] = FreeNode]
      BY <1>1, <2>2, <3>1 DEF Unlink
    <3>3. PICK r : r = [node[a] EXCEPT !.next = node[b].next]
      OBVIOUS
    <3>4. /\ r \in NodeRec /\ r.name = node[a].name /\ r.value = node[a].value
          /\ r.next = node[b].next
      BY <3>1, <3>3 DEF NodeRec
    <3>5. PICK g : g = [node EXCEPT ![a] = r]
      OBVIOUS
    <3>6. node' = [g EXCEPT ![b] = FreeNode]
      BY <3>2, <3>3, <3>5
    <3>7. /\ g \in [Nodes -> NodeRec] /\ g[a] = r /\ \A x \in Nodes \ {a} : g[x] = node[x]
      BY <3>1, <3>4, <3>5
    <3>8. /\ node' \in [Nodes -> NodeRec] /\ node'[b] = FreeNode
          /\ \A x \in Nodes \ {b} : node'[x] = g[x]
      BY <3>1, <3>6, <3>7, FreeNodeIs
    <3> QED
      BY <2>2, <3>1, <3>4, <3>7, <3>8
  <2> QED
    BY <2>1, <2>2
<1>7. shell_vars' = IF i = 1 THEN node[l[1]].next ELSE shell_vars
  BY <1>1 DEF Unlink
<1>8. ASSUME NEW j \in 1..n - 1
      PROVE  /\ w[j] \in Nodes \ {l[i]}
             /\ node'[w[j]].name = node[w[j]].name
             /\ node'[w[j]].value = node[w[j]].value
             /\ node'[w[j]].next = IF j = n - 1 THEN NULL ELSE w[j + 1]
  <2>1. i \in 1..n
    BY <1>2
  <2>2. CASE j < i
    <3>1. w[j] = l[j] /\ j \in 1..n /\ j # i
      BY <1>4, <2>2
    <3>2. l[j] \in Nodes /\ l[j] # l[i]
      BY <1>2, <1>5, <2>1, <3>1
    <3>3. node[l[j]].next = l[j + 1]
      BY <1>5, <3>1
    <3>4. CASE j = i - 1
      <4>1. node'[l[j]].next = node[l[i]].next
        BY <1>6, <2>1, <3>2, <3>4
      <4>2. node[l[i]].next = IF i = n THEN NULL ELSE l[i + 1]
        BY <1>5, <2>1
      <4>3. i = n <=> j = n - 1
        BY <2>1, <3>4
      <4>4. i # n => w[j + 1] = l[i + 1]
        <5>1. ASSUME i # n PROVE j + 1 \in 1..n - 1 /\ ~(j + 1 < i) /\ j + 1 + 1 = i + 1
          BY <2>1, <3>4, <5>1
        <5> QED
          BY <1>4, <5>1
      <4> QED
        BY <1>6, <3>1, <3>2, <4>1, <4>2, <4>3, <4>4
    <3>5. CASE j # i - 1
      <4>1. i # 1 /\ i - 1 \in 1..n
        BY <2>1, <2>2
      <4>2. l[j] # l[i - 1]
        BY <1>5, <3>1, <3>5, <4>1
      <4>3. node'[l[j]].next = l[j + 1]
        BY <1>6, <3>2, <3>3, <4>2
      <4>4. j # n - 1 /\ j + 1 \in 1..n - 1 /\ j + 1 < i
        BY <2>1, <2>2, <3>5
      <4> QED
        BY <1>4, <1>6, <3>1, <3>2, <4>3, <4>4
    <3> QED
      BY <3>4, <3>5
  <2>3. CASE ~(j < i)
    <3>1. w[j] = l[j + 1] /\ j + 1 \in 1..n /\ j + 1 # i
      BY <1>4, <2>1, <2>3
    <3>2. l[j + 1] \in Nodes /\ l[j + 1] # l[i]
      BY <1>2, <1>5, <2>1, <3>1
    <3>3. i = 1 \/ l[j + 1] # l[i - 1]
      <4>1. i = 1 \/ (i - 1 \in 1..n /\ i - 1 # j + 1)
        BY <2>1, <2>3
      <4> QED
        BY <1>5, <3>1, <4>1
    <3>4. node'[l[j + 1]] = node[l[j + 1]]
      BY <1>6, <3>2, <3>3
    <3>5. node[l[j + 1]].next = IF j + 1 = n THEN NULL ELSE l[j + 1 + 1]
      BY <1>5, <3>1
    <3>6. j + 1 = n <=> j = n - 1
      OBVIOUS
    <3>7. j # n - 1 => w[j + 1] = l[j + 1 + 1]
      <4>1. ASSUME j # n - 1 PROVE j + 1 \in 1..n - 1 /\ ~(j + 1 < i)
        BY <2>1, <2>3, <4>1
      <4> QED
        BY <1>4, <4>1
    <3> QED
      BY <3>1, <3>2, <3>4, <3>5, <3>6, <3>7
  <2> QED
    BY <2>2, <2>3
\* Each place of w is one of l.
<1>9. PICK at \in [1..n - 1 -> 1..n] :
        /\ \A j \in 1..n - 1 : w[j] = l[at[j]] /\ at[j] # i
        /\ \A j, k \in 1..n - 1 : at[j] = at[k] => j = k
        /\ \A k \in 1..n : k # i => \E j \in 1..n - 1 : at[j] = k
  <2> DEFINE f == [j \in 1..n - 1 |-> IF j < i THEN j ELSE j + 1]
  <2>1. i \in 1..n
    BY <1>2
  <2>2. f \in [1..n - 1 -> 1..n]
    BY <2>1
  <2>3. \A j \in 1..n - 1 : w[j] = l[f[j]] /\ f[j] # i
    BY <1>4, <2>1
  <2>4. \A j, k \in 1..n - 1 : f[j] = f[k] => j = k
    BY <2>1
  <2>5. ASSUME NEW k \in 1..n, k # i
        PROVE  \E j \in 1..n - 1 : f[j] = k
    <3>1. CASE k < i
      <4>1. k \in 1..n - 1 /\ f[k] = k
        BY <2>1, <3>1
      <4> QED
        BY <4>1
    <3>2. CASE k > i
      <4>1. k - 1 \in 1..n - 1 /\ f[k - 1] = k
        BY <2>1, <3>2
      <4> QED
        BY <4>1
    <3> QED
      BY <2>1, <2>5, <3>1, <3>2
  <2> HIDE DEF f
  <2> QED
    BY <2>2, <2>3, <2>4, <2>5
<1>10. Linked(shell_vars', node', w)
  <2>1. ASSUME NEW j \in 1..n - 1, NEW k \in 1..n - 1, w[j] = w[k]
        PROVE  j = k
    <3>1. at[j] \in 1..n /\ at[k] \in 1..n /\ l[at[j]] = l[at[k]]
      BY <1>9, <2>1
    <3>2. PICK a \in 1..n, b \in 1..n : a = at[j] /\ b = at[k] /\ l[a] = l[b]
      BY <3>1
    <3>3. a = b
      BY <1>5, <3>2
    <3> QED
      BY <1>9, <3>2, <3>3, Zenon
  <2>2. shell_vars' = IF w = <<>> THEN NULL ELSE w[1]
    <3>1. w = <<>> <=> n = 1
      BY <1>3, <1>4
    <3>2. i \in 1..n
      BY <1>2
    <3>3. CASE i = 1
      <4>1. node[l[1]].next = IF 1 = n THEN NULL ELSE l[1 + 1]
        BY <1>5
      <4>2. n # 1 => w[1] = l[1 + 1]
        BY <1>4, <3>3
      <4> QED
        BY <1>7, <3>1, <3>3, <4>1, <4>2
    <3>4. CASE i # 1
      <4>1. n # 1 /\ 1 \in 1..n - 1 /\ 1 < i
        BY <3>2, <3>4
      <4> QED
        BY <1>4, <1>5, <1>7, <3>1, <3>4, <4>1
    <3> QED
      BY <3>3, <3>4
  <2>3. \A j \in 1..n - 1 : node'[w[j]].next = IF j = Len(w) THEN NULL ELSE w[j + 1]
    BY <1>4, <1>8
  <2>4. /\ \A j, k \in DOMAIN w : w[j] = w[k] => j = k
        /\ \A j \in DOMAIN w : node'[w[j]].next = IF j = Len(w) THEN NULL ELSE w[j + 1]
    BY <1>4, <2>1, <2>3
  <2> QED
    BY <2>2, <2>4 DEF Linked
<1>11. Listed(shell_vars', node', w)
  <2>1. \A j \in 1..n - 1 : /\ at[j] \in 1..n /\ w[j] = l[at[j]] /\ at[j] # i
                             /\ node'[w[j]].name = node[l[at[j]]].name
                             /\ node'[w[j]].name \in Names
    <3>1. ASSUME NEW j \in 1..n - 1
          PROVE  /\ at[j] \in 1..n /\ w[j] = l[at[j]] /\ at[j] # i
                 /\ node'[w[j]].name = node[l[at[j]]].name
                 /\ node'[w[j]].name \in Names
      <4>1. at[j] \in 1..n /\ w[j] = l[at[j]] /\ at[j] # i
        BY <1>9
      <4>2. node'[w[j]].name = node[w[j]].name
        BY <1>8
      <4>3. node[l[at[j]]].name \in Names
        BY <1>5, <4>1, Zenon
      <4> QED
        BY <4>1, <4>2, <4>3
    <3> QED
      BY <3>1
  <2>2. ASSUME NEW j \in 1..n - 1, NEW k \in 1..n - 1, node'[w[j]].name = node'[w[k]].name
        PROVE  j = k
    <3>1. node[l[at[j]]].name = node[l[at[k]]].name /\ at[j] \in 1..n /\ at[k] \in 1..n
      BY <2>1, <2>2, Zenon
    <3>2. PICK a \in 1..n, b \in 1..n :
            a = at[j] /\ b = at[k] /\ node[l[a]].name = node[l[b]].name
      BY <3>1
    <3>3. a = b
      BY <1>5, <3>2
    <3> QED
      BY <1>9, <3>2, <3>3, Zenon
  <2>3. ASSUME NEW x \in Nodes
        PROVE  node'[x] # FreeNode <=> \E j \in DOMAIN w : w[j] = x
    <3>1. i \in 1..n
      BY <1>2
    <3>2. CASE x = l[i]
      <4>1. \A j \in DOMAIN w : w[j] # x
        BY <1>4, <1>8, <3>2
      <4> QED
        BY <1>6, <3>2, <4>1
    <3>3. CASE x # l[i] /\ \E j \in 1..n : l[j] = x
      <4>1. PICK j \in DOMAIN w : w[j] = x
        <5>1. PICK k \in 1..n : l[k] = x
          BY <3>3
        <5>2. k # i
          BY <3>3, <5>1
        <5>3. PICK j \in 1..n - 1 : at[j] = k
          BY <1>9, <5>2
        <5> QED
          BY <1>4, <2>1, <5>1, <5>3
      <4>2. node'[x].name \in Names
        BY <1>4, <2>1, <4>1
      <4> QED
        BY <4>1, <4>2, FreeNodeIs
    <3>4. CASE x # l[i] /\ ~\E j \in 1..n : l[j] = x
      <4>0. node[x] = FreeNode
        BY <1>5, <3>4
      <4>1. node[x] = FreeNode /\ \A j \in DOMAIN w : w[j] # x
        BY <1>4, <2>1, <3>4, <4>0
      <4>2. i = 1 \/ x # l[i - 1]
        <5>1. i = 1 \/ i - 1 \in 1..n
          BY <3>1
        <5> QED
          BY <3>4, <5>1
      <4>3. node'[x] = FreeNode
        BY <1>6, <3>4, <4>1, <4>2
      <4> QED
        BY <4>1, <4>3
    <3> QED
      BY <3>2, <3>3, <3>4
  <2>4. /\ \A j \in DOMAIN w : node'[w[j]].name \in Names
        /\ \A j, k \in DOMAIN w : node'[w[j]].name = node'[w[k]].name => j = k
    BY <1>4, <2>1, <2>2
  <2> QED
    BY <1>10, <2>3, <2>4 DEF Listed
<1> QED
  BY <1>3, <1>4, <1>6, <1>8, <1>11

Updates(i, v) ==
  node' = [node EXCEPT ![List[i]].value = v] /\ UNCHANGED shell_vars

Revalued(nd, nd2, a, v) ==
  \A n \in Nodes : /\ nd2[n].name = nd[n].name
                    /\ nd2[n].value = IF n = a THEN v ELSE nd[n].value

LEMMA UpdateStep ==
  ASSUME node \in [Nodes -> NodeRec],
         NEW l \in Seq(Nodes), Listed(shell_vars, node, l), NEW i \in DOMAIN l,
         NEW v \in Values, Updates(i, v)
  PROVE  /\ node' \in [Nodes -> NodeRec]
         /\ Listed(shell_vars', node', l)
         /\ Revalued(node, node', l[i], v)
<1>1. List = l /\ Linked(shell_vars, node, l)
  BY ListIs DEF Listed
<1>2. PICK a \in Nodes : a = l[i]
  OBVIOUS
<1>3. PICK r : r = [node[a] EXCEPT !.value = v]
  OBVIOUS
<1>4. r \in NodeRec /\ r.name = node[a].name /\ r.next = node[a].next /\ r.value = v
  BY <1>2, <1>3 DEF NodeRec
<1>5. node' = [node EXCEPT ![a] = r] /\ shell_vars' = shell_vars
  BY <1>1, <1>2, <1>3 DEF Updates
<1>6. /\ node' \in [Nodes -> NodeRec] /\ node'[a] = r
      /\ \A n \in Nodes \ {a} : node'[n] = node[n]
  BY <1>2, <1>4, <1>5
<1>7. \A n \in Nodes : node'[n].name = node[n].name /\ node'[n].next = node[n].next
  BY <1>4, <1>6
<1>8. \A j \in DOMAIN l : l[j] \in Nodes
  OBVIOUS
<1>9. Linked(shell_vars', node', l)
  BY <1>1, <1>5, <1>7, <1>8 DEF Linked
<1>10. \A n \in Nodes : node'[n] # FreeNode <=> node[n] # FreeNode
  <2>1. node[a].name # Empty
    BY <1>2, FreeNodeIs DEF Listed
  <2>2. node[a] # FreeNode /\ r # FreeNode
    BY <1>4, <2>1, FreeNodeIs
  <2> QED
    BY <1>6, <2>2
<1>11. Listed(shell_vars', node', l)
  BY <1>7, <1>8, <1>9, <1>10 DEF Listed
<1>12. ASSUME NEW n \in Nodes
       PROVE  node'[n].value = IF n = l[i] THEN v ELSE node[n].value
  <2>1. CASE n = a
    BY <1>2, <1>4, <1>6, <2>1
  <2>2. CASE n # a
    <3>1. node'[n] = node[n]
      BY <1>6, <2>2
    <3> QED
      BY <1>2, <2>2, <3>1
  <2> QED
    BY <2>1, <2>2
<1>13. node' \in [Nodes -> NodeRec]
  BY <1>6
<1> QED
  BY <1>7, <1>11, <1>12, <1>13 DEF Revalued

\* There is a node for each name.
LEMMA NewNodeIs ==
  ASSUME NEW l \in Seq(Nodes), Listed(shell_vars, node, l),
         NEW x \in Names, \A i \in DOMAIN l : node[l[i]].name # x
  PROVE  NewNode \in Nodes /\ node[NewNode] = FreeNode
<1>1. PICK n \in Nat : n = Len(l) /\ DOMAIN l = 1..n
  OBVIOUS
<1>2. FreeNodes # {}
  <2>1. SUFFICES ASSUME FreeNodes = {} PROVE FALSE
    OBVIOUS
  <2>2. \A m \in Nodes : \E i \in DOMAIN l : l[i] = m
    BY <2>1 DEF FreeNodes, Listed
  <2>3. {l[i] : i \in DOMAIN l} = Nodes
    BY <2>2
  <2>4. Cardinality({l[i] : i \in DOMAIN l}) = Len(l)
    BY Numbers, DistinctFit DEF Listed, Linked
  <2>5. n = Cardinality(Names)
    BY <1>1, <2>3, <2>4, Numbers
  <2> DEFINE q == [i \in 1..n |-> node[l[i]].name]
  <2>6. q \in Seq(Names \ {x}) /\ Len(q) = n /\ DOMAIN q = 1..n
    <3>1. q \in [1..n -> Names \ {x}]
      BY <1>1 DEF Listed
    <3> QED
      BY <3>1
  <2>7. \A i, j \in DOMAIN q : q[i] = q[j] => i = j
    BY <1>1, <2>6 DEF Listed
  <2> HIDE DEF q
  <2>8. IsFiniteSet(Names \ {x}) /\ Cardinality(Names \ {x}) = Cardinality(Names) - 1
    BY Numbers, FS_RemoveElement
  <2>9. Len(q) <= Cardinality(Names \ {x})
    BY <2>6, <2>7, <2>8, DistinctFit
  <2> QED
    BY <2>5, <2>6, <2>8, <2>9
<1>3. FreeNodes \subseteq Nat
  BY Numbers DEF FreeNodes, Nodes
<1>4. \E m \in FreeNodes : \A k \in FreeNodes : m <= k
  BY <1>2, <1>3, LeastOf
<1>5. NewNode \in FreeNodes
  BY <1>4 DEF NewNode
<1> QED
  BY <1>5 DEF FreeNodes

Appends(new) ==
  IF shell_vars = NULL
    THEN shell_vars' = NewNode /\ node' = [node EXCEPT ![NewNode] = new]
    ELSE /\ node' = [node EXCEPT ![NewNode] = new, ![List[Len(List)]].next = NewNode]
         /\ UNCHANGED shell_vars

LEMMA AppendStep ==
  ASSUME node \in [Nodes -> NodeRec],
         NEW l \in Seq(Nodes), Listed(shell_vars, node, l),
         NEW x \in Names, \A i \in DOMAIN l : node[l[i]].name # x,
         NEW v \in Values, NEW new, new = [name |-> x, value |-> v, next |-> NULL],
         Appends(new)
  PROVE  /\ node' \in [Nodes -> NodeRec]
         /\ Append(l, NewNode) \in Seq(Nodes)
         /\ Listed(shell_vars', node', Append(l, NewNode))
         /\ node'[NewNode].name = x /\ node'[NewNode].value = v
         /\ \A i \in DOMAIN l : /\ node'[l[i]].name = node[l[i]].name
                                /\ node'[l[i]].value = node[l[i]].value
<1>1. List = l /\ Linked(shell_vars, node, l)
  BY ListIs DEF Listed
<1>2. PICK n \in Nat : n = Len(l) /\ DOMAIN l = 1..n /\ l \in [1..n -> Nodes]
  OBVIOUS
<1>3. PICK b \in Nodes : b = NewNode /\ node[b] = FreeNode
  BY NewNodeIs
<1>4. new \in NodeRec /\ new.name = x /\ new.value = v /\ new.next = NULL
  BY DEF NodeRec
<1>5. PICK w \in Seq(Nodes) : w = Append(l, b)
  <2>1. Append(l, b) \in Seq(Nodes)
    BY AppendProperties
  <2> QED
    BY <2>1
<1>6. /\ Len(w) = n + 1 /\ DOMAIN w = 1..n + 1 /\ w[n + 1] = b /\ w # <<>>
      /\ \A i \in 1..n : w[i] = l[i]
  BY <1>2, <1>5
<1>7. \A i \in 1..n : l[i] \in Nodes /\ l[i] # b
  BY <1>2, <1>3 DEF Listed
<1>8. \A i, j \in 1..n : l[i] = l[j] => i = j
  BY <1>1, <1>2 DEF Linked
<1>9. \A i \in 1..n : node[l[i]].next = IF i = n THEN NULL ELSE l[i + 1]
  BY <1>1, <1>2 DEF Linked
<1>10. shell_vars = NULL <=> n = 0
  <2>1. n = 0 <=> l = <<>>
    BY <1>2
  <2>2. n # 0 => l[1] \in Nodes
    BY <1>2
  <2> QED
    BY <1>1, <2>1, <2>2, Numbers DEF Linked
\* All that the code does to the nodes.
<1>11. /\ node' \in [Nodes -> NodeRec] /\ node'[b] = new
       /\ \A m \in Nodes \ {b} :
            /\ node'[m].name = node[m].name /\ node'[m].value = node[m].value
            /\ node'[m].next = IF n # 0 /\ m = l[n] THEN b ELSE node[m].next
            /\ (n = 0 \/ m # l[n]) => node'[m] = node[m]
  <2>1. CASE n = 0
    <3>1. node' = [node EXCEPT ![b] = new]
      BY <1>3, <1>10, <2>1 DEF Appends
    <3> QED
      BY <1>4, <2>1, <3>1
  <2>2. CASE n # 0
    <3>1. PICK a \in Nodes : a = l[n] /\ a # b
      BY <1>2, <1>7, <2>2
    <3>2. node' = [node EXCEPT ![b] = new, ![a].next = b]
      BY <1>1, <1>2, <1>3, <1>10, <2>2, <3>1 DEF Appends
    <3>3. PICK g : g = [node EXCEPT ![b] = new]
      OBVIOUS
    <3>4. g \in [Nodes -> NodeRec] /\ g[b] = new /\ \A m \in Nodes \ {b} : g[m] = node[m]
      BY <1>4, <3>3
    <3>5. PICK r : r = [g[a] EXCEPT !.next = b]
      OBVIOUS
    <3>6. node' = [g EXCEPT ![a] = r]
      BY <3>2, <3>3, <3>5
    <3>7. /\ r \in NodeRec /\ r.name = node[a].name /\ r.value = node[a].value
          /\ r.next = b
      <4>1. g[a] \in NodeRec /\ g[a] = node[a]
        BY <3>1, <3>4
      <4> QED
        BY <3>5, <4>1 DEF NodeRec
    <3>8. /\ node' \in [Nodes -> NodeRec] /\ node'[a] = r
          /\ \A m \in Nodes \ {a} : node'[m] = g[m]
      BY <3>1, <3>4, <3>6, <3>7
    <3> QED
      BY <2>2, <3>1, <3>4, <3>7, <3>8
  <2> QED
    BY <2>1, <2>2
<1>12. shell_vars' = IF n = 0 THEN b ELSE shell_vars
  BY <1>3, <1>10 DEF Appends
<1>13. \A i \in 1..n + 1 : i = n + 1 \/ i \in 1..n
  BY <1>2
<1>14. Linked(shell_vars', node', w)
  <2>1. \A i, j \in 1..n + 1 : w[i] = w[j] => i = j
    BY <1>6, <1>7, <1>8, <1>13
  <2>2. shell_vars' = w[1]
    <3>1. CASE n = 0
      BY <1>6, <1>12, <3>1
    <3>2. CASE n # 0
      <4>1. 1 \in 1..n /\ l # <<>>
        BY <1>2, <3>2
      <4>2. shell_vars = l[1]
        BY <1>1, <4>1 DEF Linked
      <4> QED
        BY <1>6, <1>12, <3>2, <4>1, <4>2
    <3> QED
      BY <3>1, <3>2
  <2>3. ASSUME NEW i \in 1..n + 1
        PROVE  node'[w[i]].next = IF i = n + 1 THEN NULL ELSE w[i + 1]
    <3>1. CASE i = n + 1
      BY <1>4, <1>6, <1>11, <3>1
    <3>2. CASE i \in 1..n /\ i # n
      <4>0. i \in 1..n /\ i # n
        BY <3>2, Zenon
      <4>5. i + 1 \in 1..n /\ i # n + 1 /\ n \in 1..n
        BY <4>0
      <4>6. w[i] = l[i]
        BY <1>6, <4>0, Zenon
      <4>1. w[i] = l[i] /\ i + 1 \in 1..n /\ i # n + 1 /\ n \in 1..n
        BY <4>5, <4>6
      <4>2. l[i] # l[n] /\ l[i] \in Nodes \ {b} /\ w[i + 1] = l[i + 1]
        BY <1>6, <1>7, <1>8, <3>2, <4>1
      <4>3. node'[l[i]].next = node[l[i]].next
        BY <1>11, <4>2
      <4>4. node[l[i]].next = l[i + 1]
        BY <1>9, <3>2
      <4> QED
        BY <4>1, <4>2, <4>3, <4>4
    <3>3. CASE i \in 1..n /\ i = n
      <4>0. i \in 1..n /\ i = n
        BY <3>3, Zenon
      <4>5. n \in 1..n
        BY <4>0, Zenon
      <4>6. n # 0 /\ i # n + 1 /\ i + 1 = n + 1
        BY <4>0, <4>5
      <4>1. n \in 1..n /\ n # 0 /\ i # n + 1 /\ i + 1 = n + 1
        BY <4>5, <4>6
      <4>2. w[i] = l[n] /\ w[i + 1] = b
        BY <1>6, <3>3, <4>1
      <4>3. l[n] \in Nodes \ {b}
        BY <1>7, <4>1
      <4>4. node'[l[n]].next = b
        BY <1>11, <4>1, <4>3
      <4> QED
        BY <4>1, <4>2, <4>4
    <3> QED
      BY <1>13, <3>1, <3>2, <3>3
  <2>4. \A i \in 1..n + 1 : node'[w[i]].next = IF i = Len(w) THEN NULL ELSE w[i + 1]
    BY <1>6, <2>3
  <2> QED
    BY <1>6, <2>1, <2>2, <2>4 DEF Linked
<1>15. \A i \in 1..n : /\ w[i] = l[i] /\ node'[w[i]].name = node[l[i]].name
                       /\ node[l[i]].name \in Names \ {x}
                       /\ node'[l[i]].name = node[l[i]].name
                       /\ node'[l[i]].value = node[l[i]].value
  <2>1. \A i \in 1..n : node[l[i]].name \in Names \ {x}
    BY <1>2 DEF Listed
  <2> QED
    BY <1>6, <1>7, <1>11, <2>1
<1>16. Listed(shell_vars', node', w)
  <2>1. \A i \in 1..n + 1 : node'[w[i]].name \in Names
    BY <1>4, <1>6, <1>11, <1>13, <1>15
  <2>2. \A i, j \in 1..n : node[l[i]].name = node[l[j]].name => i = j
    BY <1>2 DEF Listed
  <2>3. ASSUME NEW i \in 1..n + 1, NEW j \in 1..n + 1, node'[w[i]].name = node'[w[j]].name
        PROVE  i = j
    <3>1. \A k \in 1..n : node'[w[k]].name # x
      BY <1>15
    <3>2. node'[w[n + 1]].name = x
      BY <1>4, <1>6, <1>11
    <3>3. CASE i \in 1..n /\ j \in 1..n
      BY <1>15, <2>2, <2>3, <3>3
    <3> QED
      BY <1>13, <2>3, <3>1, <3>2, <3>3
  <2>4. ASSUME NEW m \in Nodes
        PROVE  node'[m] # FreeNode <=> \E i \in 1..n + 1 : w[i] = m
    <3>1. node[m] # FreeNode <=> \E i \in 1..n : l[i] = m
      BY <1>2 DEF Listed
    <3>2. \A i \in 1..n : i \in 1..n + 1
      OBVIOUS
    <3>3. CASE m = b
      <4>1. n + 1 \in 1..n + 1 /\ new # FreeNode
        BY <1>4, FreeNodeIs
      <4> QED
        BY <1>6, <1>11, <3>3, <4>1
    <3>4. CASE m # b /\ \E i \in 1..n : l[i] = m
      <4>1. PICK i \in 1..n : l[i] = m
        BY <3>4
      <4>2. node'[m].name \in Names
        BY <1>15, <4>1
      <4>3. w[i] = m /\ i \in 1..n + 1
        BY <1>6, <3>2, <4>1
      <4> QED
        BY <4>2, <4>3, FreeNodeIs
    <3>5. CASE m # b /\ ~\E i \in 1..n : l[i] = m
      <4>1. n = 0 \/ m # l[n]
        <5>1. n = 0 \/ n \in 1..n
          BY <1>2
        <5> QED
          BY <3>5, <5>1
      <4>2. node'[m] = FreeNode
        BY <1>11, <3>1, <3>5, <4>1
      <4>3. \A i \in 1..n + 1 : w[i] # m
        BY <1>6, <1>13, <3>5
      <4> QED
        BY <4>2, <4>3
    <3> QED
      BY <3>3, <3>4, <3>5
  <2>5. /\ \A i \in DOMAIN w : node'[w[i]].name \in Names
        /\ \A i, j \in DOMAIN w : node'[w[i]].name = node'[w[j]].name => i = j
        /\ \A m \in Nodes : node'[m] # FreeNode <=> \E i \in DOMAIN w : w[i] = m
    BY <1>6, <2>1, <2>3, <2>4
  <2> QED
    BY <1>14, <2>5 DEF Listed
<1> QED
  BY <1>2, <1>3, <1>4, <1>5, <1>11, <1>15, <1>16
-----------------------------------------------------------------------------
(***************************************************************************)
(* The steps.                                                              *)
(***************************************************************************)
\* A step that leaves the heap alone.
LEMMA SameHeap ==
  ASSUME WInv, ~ended, UNCHANGED <<historyVars, shell_vars, node>>
  PROVE  WInv'
<1>1. /\ history' = history /\ history_count' = history_count /\ room' = room
      /\ history_capacity' = history_capacity /\ string' = string
      /\ shell_vars' = shell_vars /\ node' = node
  BY DEF historyVars
<1>2. HistoryInv'
  BY <1>1 DEF WInv, HistoryInv, HistoryTyped
<1>3. VariablesInv'
  BY <1>1 DEF WInv, VariablesInv
<1>4. NothingLeft'
  BY <1>1 DEF WInv, NothingLeft
<1> QED
  BY <1>2, <1>3, <1>4 DEF WInv

\* A step of the history.
LEMMA HistoryStep ==
  ASSUME WInv, ~ended, HistoryInv', room' # 0, UNCHANGED <<shell_vars, node>>
  PROVE  WInv'
<1>1. VariablesInv'
  BY DEF WInv, VariablesInv
<1>2. NothingLeft'
  BY DEF NothingLeft
<1> QED
  BY <1>1, <1>2 DEF WInv

LEMMA RunStep ==
  \A c \in Commands, r \in Redirections :
    WInv /\ RunProgram(c, r) /\ ~overrun' => WInv'
<1> SUFFICES ASSUME NEW c \in Commands, NEW r \in Redirections,
                    WInv, RunProgram(c, r), ~overrun'
             PROVE  WInv'
  OBVIOUS
<1>1. /\ ~ended /\ Record(WithAmpersand(c, r))
      /\ UNCHANGED <<history_capacity, room, variableVars>>
  BY DEF RunProgram
<1>2. PICK line : line = WithAmpersand(c, r)
  OBVIOUS
<1>3. line # Nothing /\ Record(line)
  BY <1>1, <1>2, LineIs
<1>4. UNCHANGED <<history_capacity, room>> /\ UNCHANGED <<shell_vars, node>>
  BY <1>1 DEF variableVars
<1>5. HistoryInv
  BY DEF WInv
<1>6. HistoryInv' /\ room' # 0
  BY <1>1, <1>3, <1>4, <1>5, RecordStep
<1> QED
  BY <1>1, <1>4, <1>6, HistoryStep

\* A history that is not lowered.
LEMMA RaiseStep ==
  ASSUME HistoryInv, ~ended, NEW n \in history_count..MAXIMUM_HISTORY, n # 0,
         history_capacity' = n,
         UNCHANGED <<history, history_count, room, string>>
  PROVE  HistoryInv' /\ room' # 0
<1>1. PICK M \in Nat \ {0} : M = MAXIMUM_HISTORY
  BY Numbers
<1>2. history_count \in 0..M /\ n \in history_count..M
  BY <1>1 DEF HistoryInv, HistoryTyped
<1>3. history_count <= n /\ n \in 1..M
  BY <1>2
<1> QED
  BY <1>1, <1>3 DEF HistoryInv, HistoryTyped

LEMMA SetStep == \A n \in Nat : WInv /\ HistorySet(n) => WInv'
<1> SUFFICES ASSUME NEW n \in Nat, WInv, HistorySet(n) PROVE WInv'
  OBVIOUS
<1>1. ~ended /\ UNCHANGED <<shell_vars, node>>
  BY DEF HistorySet, Builtin, variableVars
<1>2. HistoryInv
  BY DEF WInv
<1>3. CASE UNCHANGED historyVars
  BY <1>1, <1>3, SameHeap DEF historyVars
<1>4. CASE /\ n \in history_count..MAXIMUM_HISTORY /\ n # 0
           /\ history_capacity' = n
           /\ UNCHANGED <<history, history_count, room, string>>
  <2>1. HistoryInv' /\ room' # 0
    BY <1>1, <1>2, <1>4, RaiseStep
  <2> QED
    BY <1>1, <2>1, HistoryStep
<1>5. CASE /\ n \in 1..history_count - 1
           /\ string' = Freed(Dropped(n))
           /\ history' = Moved(history_count - n, n)
           /\ history_count' = n
           /\ \/ room' = n /\ history_capacity' = n
              \/ UNCHANGED <<room, history_capacity>>
  <2>1. string' = [s \in Strings |-> IF s \in Dropped(n) THEN Nothing ELSE string[s]]
    BY <1>5 DEF Freed
  <2>2. room' \in {n, room} /\ history_capacity' \in {n, history_capacity}
    BY <1>5
  <2>3. HistoryInv' /\ room' # 0
    BY <1>1, <1>2, <1>5, <2>1, <2>2, LowerStep
  <2> QED
    BY <1>1, <2>3, HistoryStep
<1> QED
  BY <1>3, <1>4, <1>5, Zenon DEF HistorySet

\* "exit" frees all there is.
LEMMA ExitStep == WInv /\ built_in_exit => WInv'
<1> SUFFICES ASSUME WInv, built_in_exit PROVE WInv'
  OBVIOUS
<1>1. /\ ~ended /\ ended'
      /\ string' = [s \in Strings |->
           IF s \in {history[i] : i \in 0..history_count - 1} THEN Nothing ELSE string[s]]
      /\ node' = [n \in Nodes |->
           IF n \in {List[i] : i \in DOMAIN List} THEN FreeNode ELSE node[n]]
      /\ room' = 0
      /\ UNCHANGED <<history, history_count, history_capacity>>
  BY DEF built_in_exit, Freed
<1>2. HistoryInv'
  <2>1. string' = [s \in Strings |-> string'[s]]
    BY <1>1
  <2>2. 0 \in 0..MAXIMUM_HISTORY
    BY Numbers
  <2> QED
    BY <1>1, <2>1, <2>2 DEF WInv, HistoryInv, HistoryTyped
<1>3. node' \in [Nodes -> NodeRec]
  BY <1>1, FreeNodeIs DEF WInv, VariablesInv
<1>4. \A s \in Strings : string'[s] = Nothing
  <2>1. Owned(history, history_count, string)
    BY <1>1 DEF WInv, HistoryInv
  <2> QED
    BY <1>1, <2>1 DEF Owned
<1>5. \A n \in Nodes : node'[n] = FreeNode
  <2>1. PICK l \in Seq(Nodes) : Listed(shell_vars, node, l)
    BY <1>1 DEF WInv, VariablesInv
  <2>2. List = l
    BY <2>1, ListIs DEF Listed
  <2>3. \A n \in Nodes : node[n] # FreeNode <=> \E i \in DOMAIN l : l[i] = n
    BY <2>1 DEF Listed
  <2> QED
    BY <1>1, <2>2, <2>3
<1> QED
  BY <1>1, <1>2, <1>3, <1>4, <1>5 DEF WInv, VariablesInv, NothingLeft
-----------------------------------------------------------------------------
(***************************************************************************)
(* local, seen as a list of names and values.                              *)
(***************************************************************************)
Pair == Names \X (Values \cup {Empty})
Pairs(nd, l) == [i \in DOMAIN l |-> <<nd[l[i]].name, nd[l[i]].value>>]

\* Of q after p, x was set to v.
SetTo(p, q, x, v) ==
  \/ v = Empty /\ \E i \in DOMAIN p : p[i][1] = x /\ q = Without(p, i)
  \/ v # Empty /\ \E i \in DOMAIN p : p[i][1] = x /\ q = [p EXCEPT ![i] = <<x, v>>]
  \/ v = Empty /\ (\A i \in DOMAIN p : p[i][1] # x) /\ q = p
  \/ v # Empty /\ (\A i \in DOMAIN p : p[i][1] # x) /\ q = Append(p, <<x, v>>)

LEMMA PairsAre ==
  ASSUME NEW nd \in [Nodes -> NodeRec], NEW v, NEW l \in Seq(Nodes), Listed(v, nd, l)
  PROVE  /\ Pairs(nd, l) \in Seq(Pair)
         /\ Len(Pairs(nd, l)) = Len(l) /\ DOMAIN Pairs(nd, l) = DOMAIN l
         /\ \A i \in DOMAIN l : /\ Pairs(nd, l)[i] = <<nd[l[i]].name, nd[l[i]].value>>
                                /\ Pairs(nd, l)[i][1] = nd[l[i]].name
                                /\ Pairs(nd, l)[i][2] = nd[l[i]].value
         /\ \A i, j \in DOMAIN l : Pairs(nd, l)[i][1] = Pairs(nd, l)[j][1] => i = j
<1>1. PICK n \in Nat : n = Len(l) /\ DOMAIN l = 1..n
  OBVIOUS
<1>2. PICK p : p = Pairs(nd, l)
  OBVIOUS
<1>3. p = [i \in 1..n |-> <<nd[l[i]].name, nd[l[i]].value>>]
  BY <1>1, <1>2 DEF Pairs
<1>4. ASSUME NEW i \in 1..n
      PROVE  /\ nd[l[i]].name \in Names /\ nd[l[i]].value \in Values \cup {Empty}
             /\ p[i] = <<nd[l[i]].name, nd[l[i]].value>>
  <2>1. nd[l[i]].name \in Names
    BY <1>1 DEF Listed
  <2>2. l[i] \in Nodes
    BY <1>1
  <2>3. nd[l[i]] \in NodeRec
    BY <2>2
  <2> QED
    BY <1>3, <2>1, <2>3 DEF NodeRec
<1>5. p \in [1..n -> Pair]
  BY <1>3, <1>4 DEF Pair
<1>6. p \in Seq(Pair) /\ Len(p) = n /\ DOMAIN p = 1..n
  BY <1>5
<1>7. \A i \in 1..n : p[i][1] = nd[l[i]].name /\ p[i][2] = nd[l[i]].value
  BY <1>4
<1>8. \A i, j \in 1..n : p[i][1] = p[j][1] => i = j
  BY <1>1, <1>7 DEF Listed
<1> QED
  BY <1>1, <1>2, <1>4, <1>6, <1>7, <1>8

LEMMA SetVariable ==
  ASSUME node \in [Nodes -> NodeRec],
         NEW l \in Seq(Nodes), Listed(shell_vars, node, l),
         NEW x \in Names, NEW v \in Values \cup {Empty}, set_shell_var(x, v)
  PROVE  /\ node' \in [Nodes -> NodeRec]
         /\ \E w \in Seq(Nodes) : /\ Listed(shell_vars', node', w)
                                  /\ SetTo(Pairs(node, l), Pairs(node', w), x, v)
<1>1. List = l
  BY ListIs DEF Listed
<1>2. PICK p \in Seq(Pair) :
        /\ p = Pairs(node, l) /\ Len(p) = Len(l) /\ DOMAIN p = DOMAIN l
        /\ \A i \in DOMAIN l : /\ p[i] = <<node[l[i]].name, node[l[i]].value>>
                               /\ p[i][1] = node[l[i]].name
  BY PairsAre
<1>3. Find(x) = {i \in DOMAIN l : node[l[i]].name = x}
  BY <1>1 DEF Find
<1>4. PICK n \in Nat : n = Len(l) /\ DOMAIN l = 1..n
  OBVIOUS
<1>5. CASE /\ Find(x) # {} /\ v = Empty
           /\ \E i \in Find(x) : shell_vars' = Unlink(i)[1] /\ node' = Unlink(i)[2]
  <2>1. PICK i \in DOMAIN l : /\ node[l[i]].name = x
                              /\ shell_vars' = Unlink(i)[1] /\ node' = Unlink(i)[2]
    BY <1>3, <1>5
  <2>2. /\ node' \in [Nodes -> NodeRec]
        /\ Without(l, i) \in Seq(Nodes)
        /\ Listed(shell_vars', node', Without(l, i))
        /\ \A j \in DOMAIN Without(l, i) :
             /\ node'[Without(l, i)[j]].name = node[Without(l, i)[j]].name
             /\ node'[Without(l, i)[j]].value = node[Without(l, i)[j]].value
    BY <2>1, UnlinkStep
  <2>3. PICK w \in Seq(Nodes) : w = Without(l, i)
    BY <2>2
  <2>4. PICK q : q = Pairs(node', w)
    OBVIOUS
  <2>5. /\ DOMAIN w = 1..n - 1
        /\ \A j \in 1..n - 1 : /\ j \in 1..n /\ j + 1 \in 1..n
                               /\ w[j] = IF j < i THEN l[j] ELSE l[j + 1]
    BY <1>4, <2>3, WithoutIs
  <2>6. q = [j \in 1..n - 1 |-> <<node'[w[j]].name, node'[w[j]].value>>]
    BY <2>4, <2>5 DEF Pairs
  <2>7. ASSUME NEW j \in 1..n - 1
        PROVE  <<node'[w[j]].name, node'[w[j]].value>> = IF j < i THEN p[j] ELSE p[j + 1]
    <3>1. node'[w[j]].name = node[w[j]].name /\ node'[w[j]].value = node[w[j]].value
      BY <2>2, <2>3, <2>5
    <3>2. CASE j < i
      <4>1. w[j] = l[j] /\ j \in DOMAIN l
        BY <1>4, <2>5, <3>2
      <4>2. p[j] = <<node[l[j]].name, node[l[j]].value>>
        BY <1>2, <4>1
      <4> QED
        BY <3>1, <3>2, <4>1, <4>2
    <3>3. CASE ~(j < i)
      <4>1. PICK k \in DOMAIN l : k = j + 1 /\ w[j] = l[k]
        BY <1>4, <2>5, <3>3
      <4>2. p[k] = <<node[l[k]].name, node[l[k]].value>>
        BY <1>2
      <4> QED
        BY <3>1, <3>3, <4>1, <4>2
    <3> QED
      BY <3>2, <3>3
  <2>8. q = [j \in 1..n - 1 |-> IF j < i THEN p[j] ELSE p[j + 1]]
    BY <2>6, <2>7
  <2>9. q = Without(p, i)
    BY <1>2, <1>4, <2>8 DEF Without
  <2>10. SetTo(p, q, x, v)
    BY <1>2, <1>5, <2>1, <2>9 DEF SetTo
  <2> QED
    BY <1>2, <2>2, <2>3, <2>4, <2>10
<1>6. CASE /\ Find(x) # {} /\ v # Empty
           /\ \E i \in Find(x) : node' = [node EXCEPT ![List[i]].value = v]
           /\ UNCHANGED shell_vars
  <2>1. PICK i \in DOMAIN l : node[l[i]].name = x /\ node' = [node EXCEPT ![List[i]].value = v]
    BY <1>3, <1>6
  <2>2. v \in Values /\ Updates(i, v)
    BY <1>6, <2>1 DEF Updates
  <2>3. /\ node' \in [Nodes -> NodeRec]
        /\ Listed(shell_vars', node', l)
        /\ Revalued(node, node', l[i], v)
    BY <2>1, <2>2, UpdateStep, Zenon
  <2>4. PICK q : q = Pairs(node', l)
    OBVIOUS
  <2>5. q = [j \in 1..n |-> <<node'[l[j]].name, node'[l[j]].value>>]
    BY <1>4, <2>4 DEF Pairs
  <2>6. PICK r : r = [p EXCEPT ![i] = <<x, v>>]
    OBVIOUS
  <2>7. r = [j \in 1..n |-> IF j = i THEN <<x, v>> ELSE p[j]]
    BY <1>2, <1>4, <2>6
  <2>8. ASSUME NEW j \in 1..n
        PROVE  <<node'[l[j]].name, node'[l[j]].value>> = IF j = i THEN <<x, v>> ELSE p[j]
    <3>1. l[j] \in Nodes /\ l[i] \in Nodes
      BY <1>4
    <3>2. CASE j = i
      BY <2>1, <2>3, <3>1, <3>2 DEF Revalued
    <3>3. CASE j # i
      <4>1. l[j] # l[i]
        BY <1>4, <3>3 DEF Listed, Linked
      <4>2. node'[l[j]].name = node[l[j]].name /\ node'[l[j]].value = node[l[j]].value
        BY <2>3, <3>1, <4>1 DEF Revalued
      <4> QED
        BY <1>2, <1>4, <3>3, <4>2
    <3> QED
      BY <3>2, <3>3
  <2>9. q = [p EXCEPT ![i] = <<x, v>>]
    BY <2>5, <2>6, <2>7, <2>8
  <2>10. SetTo(p, q, x, v)
    BY <1>2, <1>6, <2>1, <2>9 DEF SetTo
  <2> QED
    BY <1>2, <2>3, <2>4, <2>10
<1>7. CASE Find(x) = {} /\ v = Empty /\ UNCHANGED <<shell_vars, node>>
  <2>1. \A i \in DOMAIN p : p[i][1] # x
    BY <1>2, <1>3, <1>7
  <2>2. SetTo(p, p, x, v)
    BY <1>7, <2>1 DEF SetTo
  <2> QED
    BY <1>2, <1>7, <2>2
<1>8. CASE /\ Find(x) = {} /\ v # Empty
           /\ LET new == [name |-> x, value |-> v, next |-> NULL]
              IN  IF shell_vars = NULL
                    THEN shell_vars' = NewNode /\ node' = [node EXCEPT ![NewNode] = new]
                    ELSE /\ node' = [node EXCEPT ![NewNode] = new,
                                                 ![List[Len(List)]].next = NewNode]
                         /\ UNCHANGED shell_vars
  <2>1. PICK new : new = [name |-> x, value |-> v, next |-> NULL]
    OBVIOUS
  <2>2. Appends(new)
    BY <1>8, <2>1, Zenon DEF Appends
  <2>3. v \in Values /\ \A i \in DOMAIN l : node[l[i]].name # x
    BY <1>3, <1>8
  <2>4. /\ node' \in [Nodes -> NodeRec]
        /\ Append(l, NewNode) \in Seq(Nodes)
        /\ Listed(shell_vars', node', Append(l, NewNode))
        /\ node'[NewNode].name = x /\ node'[NewNode].value = v
        /\ \A i \in DOMAIN l : /\ node'[l[i]].name = node[l[i]].name
                               /\ node'[l[i]].value = node[l[i]].value
    BY <2>1, <2>2, <2>3, AppendStep, Zenon
  <2>5. PICK b \in Nodes : b = NewNode
    BY <2>3, NewNodeIs
  <2>6. PICK w \in Seq(Nodes) : w = Append(l, b)
    BY <2>4, <2>5
  <2>7. DOMAIN w = 1..n + 1 /\ w[n + 1] = b /\ \A i \in 1..n : w[i] = l[i]
    BY <1>4, <2>6
  <2>8. PICK q : q = Pairs(node', w)
    OBVIOUS
  <2>9. q = [i \in 1..n + 1 |-> <<node'[w[i]].name, node'[w[i]].value>>]
    BY <2>7, <2>8 DEF Pairs
  <2>10. PICK e \in Pair : e = <<x, v>>
    BY DEF Pair
  <2>11. Append(p, e) = [i \in 1..n + 1 |-> IF i = n + 1 THEN e ELSE p[i]]
    <3>1. PICK a \in Seq(Pair) : a = Append(p, e)
      BY AppendProperties
    <3>2. Len(p) = n /\ DOMAIN p = 1..n
      BY <1>2, <1>4
    <3>3. Len(a) = n + 1 /\ a[n + 1] = e /\ \A i \in 1..n : a[i] = p[i]
      BY <3>1, <3>2, AppendProperties
    <3>6. Len(a) = n + 1 /\ DOMAIN a = 1..Len(a) /\ a \in [1..Len(a) -> Pair]
      BY <3>3
    <3>7. a \in [1..n + 1 -> Pair]
      BY <3>6, Zenon
    <3>4. a = [i \in 1..n + 1 |-> a[i]]
      BY <3>7
    <3>5. ASSUME NEW i \in 1..n + 1
          PROVE  a[i] = IF i = n + 1 THEN e ELSE p[i]
      <4>1. CASE i = n + 1
        BY <3>3, <4>1, Zenon
      <4>2. CASE i # n + 1
        <5>1. i \in 1..n
          BY <4>2
        <5> QED
          BY <3>3, <4>2, <5>1, Zenon
      <4> QED
        BY <4>1, <4>2
    <3> QED
      BY <3>1, <3>4, <3>5
  <2>12. ASSUME NEW i \in 1..n + 1
         PROVE  <<node'[w[i]].name, node'[w[i]].value>> = IF i = n + 1 THEN e ELSE p[i]
    <3>1. CASE i = n + 1
      BY <2>4, <2>5, <2>7, <2>10, <3>1
    <3>2. CASE i # n + 1
      <4>1. i \in 1..n
        BY <3>2
      <4>2. node'[l[i]].name = node[l[i]].name /\ node'[l[i]].value = node[l[i]].value
        BY <1>4, <2>4, <4>1
      <4>3. w[i] = l[i] /\ p[i] = <<node[l[i]].name, node[l[i]].value>>
        BY <1>2, <1>4, <2>7, <4>1
      <4> QED
        BY <3>2, <4>2, <4>3
    <3> QED
      BY <3>1, <3>2
  <2>13. q = Append(p, <<x, v>>)
    BY <2>9, <2>10, <2>11, <2>12
  <2>14. \A i \in DOMAIN p : p[i][1] # x
    BY <1>2, <2>3
  <2>15. SetTo(p, q, x, v)
    BY <1>8, <2>13, <2>14 DEF SetTo
  <2> QED
    BY <1>2, <2>4, <2>5, <2>6, <2>8, <2>15
<1> QED
  BY <1>5, <1>6, <1>7, <1>8, Zenon DEF set_shell_var
-----------------------------------------------------------------------------
(***************************************************************************)
(* The invariant.                                                          *)
(***************************************************************************)
LEMMA LocalStep ==
  \A x \in Names, v \in Values \cup {Empty} : WInv /\ built_in_local(x, v) => WInv'
<1> SUFFICES ASSUME NEW x \in Names, NEW v \in Values \cup {Empty},
                    WInv, built_in_local(x, v)
             PROVE  WInv'
  OBVIOUS
<1>1. /\ ~ended /\ UNCHANGED ended /\ set_shell_var(x, v)
      /\ UNCHANGED <<history, history_count, history_capacity, room, string>>
  BY DEF built_in_local, Builtin, historyVars
<1>2. PICK l \in Seq(Nodes) : Listed(shell_vars, node, l)
  BY <1>1 DEF WInv, VariablesInv
<1>3. node \in [Nodes -> NodeRec]
  BY DEF WInv, VariablesInv
<1>4. /\ node' \in [Nodes -> NodeRec]
      /\ \E w \in Seq(Nodes) : /\ Listed(shell_vars', node', w)
                               /\ SetTo(Pairs(node, l), Pairs(node', w), x, v)
  BY <1>1, <1>2, <1>3, SetVariable, Zenon
<1>5. HistoryInv' /\ room' # 0
  BY <1>1 DEF WInv, HistoryInv, HistoryTyped
<1>6. VariablesInv'
  BY <1>4 DEF VariablesInv
<1> QED
  BY <1>5, <1>6 DEF WInv, NothingLeft

LEMMA InitStep == Init => WInv
<1> SUFFICES ASSUME Init PROVE WInv
  OBVIOUS
<1>1. PICK M \in Nat \ {0} : M = MAXIMUM_HISTORY /\ DEFAULT_HISTORY_SIZE \in 1..M
  BY Numbers
<1>2. /\ history = [i \in 0..M - 1 |-> NULL] /\ history_count = 0 /\ room = M
      /\ history_capacity = DEFAULT_HISTORY_SIZE
      /\ string = [s \in Strings |-> Nothing]
      /\ shell_vars = NULL /\ node = [n \in Nodes |-> FreeNode]
  BY <1>1 DEF Init
<1>3. HistoryTyped
  <2>1. history \in [0..M - 1 -> Strings \cup {NULL}]
    BY <1>2
  <2>2. string = [s \in Strings |-> string[s]]
    BY <1>2
  <2>3. history_count \in 0..M /\ history_capacity \in 1..M /\ room \in 0..M
    BY <1>1, <1>2
  <2> QED
    BY <1>1, <2>1, <2>2, <2>3 DEF HistoryTyped
<1>4. Owned(history, history_count, string)
  <2>1. \A i \in 0..0 - 1 : FALSE
    OBVIOUS
  <2>2. \A s \in Strings : string[s] = Nothing
    BY <1>2
  <2> QED
    BY <1>2, <2>1, <2>2 DEF Owned
<1>5. HistoryInv
  <2>1. history_count <= history_capacity /\ history_count <= room /\ room # 0
    BY <1>1, <1>2
  <2> QED
    BY <1>3, <1>4, <2>1 DEF HistoryInv
<1>6. node \in [Nodes -> NodeRec] /\ \A n \in Nodes : node[n] = FreeNode
  BY <1>2, FreeNodeIs
<1>7. <<>> \in Seq(Nodes) /\ DOMAIN <<>> = {}
  OBVIOUS
<1>8. Listed(shell_vars, node, <<>>)
  BY <1>2, <1>6, <1>7 DEF Listed, Linked
<1>9. VariablesInv
  BY <1>6, <1>7, <1>8 DEF VariablesInv
<1>10. NothingLeft
  BY <1>1, <1>2 DEF NothingLeft
<1> QED
  BY <1>5, <1>9, <1>10 DEF WInv

LEMMA NextStep == WInv /\ [Next]_vars /\ ~overrun /\ ~overrun' => WInv'
<1> SUFFICES ASSUME WInv, [Next]_vars, ~overrun, ~overrun' PROVE WInv'
  OBVIOUS
<1>1. CASE UNCHANGED vars
  <2>1. /\ history' = history /\ history_count' = history_count /\ room' = room
        /\ history_capacity' = history_capacity /\ string' = string
        /\ shell_vars' = shell_vars /\ node' = node /\ ended' = ended
    BY <1>1 DEF vars
  <2> QED
    BY <2>1 DEF WInv, HistoryInv, HistoryTyped, VariablesInv, NothingLeft
<1>2. CASE \E c \in Commands, r \in Redirections : RunProgram(c, r)
  BY <1>2, RunStep
<1>3. CASE Damage
  BY <1>3 DEF Damage
<1>4. CASE RedirectionFails \/ EndOfInput
  BY <1>4, SameHeap DEF RedirectionFails, EndOfInput, variableVars
<1>5. CASE \E n \in 1..MAXIMUM_HISTORY : HistoryRun(n)
  BY <1>5, SameHeap DEF HistoryRun, variableVars
<1>6. CASE \E n \in Sizes : HistorySet(n)
  <2>1. PICK n \in Sizes : HistorySet(n)
    BY <1>6
  <2>2. n \in Nat
    BY WshAssumption, Zenon
  <2> QED
    BY <2>1, <2>2, SetStep
<1>7. CASE HistoryShow \/ OtherBuiltin
  BY <1>7, SameHeap DEF HistoryShow, OtherBuiltin, Builtin, variableVars
<1>8. CASE \E x \in Names, v \in Values \cup {Empty} : built_in_local(x, v)
  BY <1>8, LocalStep
<1>9. CASE \E x \in Exported, v \in Values \cup {Empty} : built_in_export(x, v)
  BY <1>9, SameHeap DEF built_in_export, Builtin
<1>10. CASE built_in_exit
  BY <1>10, ExitStep
<1> QED
  BY <1>1, <1>2, <1>3, <1>4, <1>5, <1>6, <1>7, <1>8, <1>9, <1>10 DEF Next

\* A store past the end of the history is not taken back.
LEMMA OverrunStays == [Next]_vars /\ overrun => overrun'
<1> SUFFICES ASSUME [Next]_vars, overrun PROVE overrun'
  OBVIOUS
<1>1. CASE UNCHANGED vars
  BY <1>1 DEF vars
<1>2. CASE \E c \in Commands, r \in Redirections : RunProgram(c, r)
  BY <1>2 DEF RunProgram, Record
<1>3. CASE Damage \/ RedirectionFails \/ EndOfInput \/ built_in_exit
  BY <1>3 DEF Damage, RedirectionFails, EndOfInput, built_in_exit
<1>4. CASE \/ \E n \in 1..MAXIMUM_HISTORY : HistoryRun(n)
           \/ \E n \in Sizes : HistorySet(n)
  BY <1>4 DEF HistoryRun, HistorySet, Builtin
<1>5. CASE HistoryShow \/ OtherBuiltin
  BY <1>5 DEF HistoryShow, OtherBuiltin, Builtin
<1>6. CASE \/ \E x \in Names, v \in Values \cup {Empty} : built_in_local(x, v)
           \/ \E x \in Exported, v \in Values \cup {Empty} : built_in_export(x, v)
  BY <1>6 DEF built_in_local, built_in_export, Builtin
<1> QED
  BY <1>1, <1>2, <1>3, <1>4, <1>5, <1>6 DEF Next

\* While the shell runs and nothing was stored past the end of the history, it
\* is a sequence of distinct strings, the variables are a list without a loop
\* and of distinct names, and nothing else is on the heap; after "exit" nothing
\* is.
Sound == overrun \/ WInv
THEOREM WshInvariant == Spec => []Sound
<1>1. Init => Sound
  BY InitStep DEF Sound
<1>2. Sound /\ [Next]_vars => Sound'
  BY NextStep, OverrunStays DEF Sound
<1> QED
  BY <1>1, <1>2, PTL DEF Spec

LEMMA OwnedThen == Sound => MemoryOwned
<1> SUFFICES ASSUME WInv PROVE MemoryOwned
  BY DEF Sound, MemoryOwned
<1>1. ASSUME ~ended
      PROVE  /\ Entries = {s \in Strings : string[s] # Nothing}
             /\ Cardinality(Entries) = history_count
             /\ history_count <= history_capacity /\ history_count <= room
  <2>1. /\ Owned(history, history_count, string) /\ history_count \in Nat
        /\ history_count <= history_capacity /\ history_count <= room
    <3>1. MAXIMUM_HISTORY \in Nat
      BY Numbers
    <3> QED
      BY <1>1, <3>1 DEF WInv, HistoryInv, HistoryTyped
  <2>2. /\ {history[i] : i \in 0..history_count - 1} = Taken(string)
        /\ Cardinality({history[i] : i \in 0..history_count - 1}) = history_count
    BY <2>1, HistoryIsSeq
  <2> QED
    BY <2>1, <2>2 DEF Entries, Taken
<1>2. ASSUME ~ended
      PROVE  /\ Nodes \ FreeNodes = {List[i] : i \in DOMAIN List}
             /\ Len(List) = Cardinality({node[n].name : n \in Nodes \ FreeNodes})
  <2>1. PICK l \in Seq(Nodes) : Listed(shell_vars, node, l)
    BY <1>2 DEF WInv, VariablesInv
  <2>2. List = l
    BY <2>1, ListIs DEF Listed
  <2>3. PICK n \in Nat : n = Len(l) /\ DOMAIN l = 1..n
    OBVIOUS
  <2>4. \A x \in Nodes : node[x] # FreeNode <=> \E i \in 1..n : l[i] = x
    BY <2>1, <2>3 DEF Listed
  <2>5. \A i \in 1..n : l[i] \in Nodes
    BY <2>3
  <2>6. Nodes \ FreeNodes = {l[i] : i \in 1..n}
    BY <2>4, <2>5 DEF FreeNodes
  <2> DEFINE q == [i \in 1..n |-> node[l[i]].name]
  <2>7. q \in Seq(Names) /\ Len(q) = n /\ DOMAIN q = 1..n
    <3>1. q \in [1..n -> Names]
      BY <2>1, <2>3 DEF Listed
    <3> QED
      BY <3>1
  <2>8. \A i, j \in DOMAIN q : q[i] = q[j] => i = j
    BY <2>1, <2>3, <2>7 DEF Listed
  <2>9. \A i \in 1..n : q[i] = node[l[i]].name
    OBVIOUS
  <2> HIDE DEF q
  <2>10. Cardinality({q[i] : i \in DOMAIN q}) = Len(q)
    BY <2>7, <2>8, Numbers, DistinctFit
  <2>11. {node[x].name : x \in Nodes \ FreeNodes} = {q[i] : i \in DOMAIN q}
    BY <2>6, <2>7, <2>9
  <2> QED
    BY <2>2, <2>3, <2>6, <2>7, <2>10, <2>11
<1>3. ASSUME room = 0
      PROVE  string = [s \in Strings |-> Nothing] /\ FreeNodes = Nodes
  <2>1. /\ \A s \in Strings : string[s] = Nothing
        /\ \A n \in Nodes : node[n] = FreeNode
    BY <1>3 DEF WInv, NothingLeft
  <2>2. string = [s \in Strings |-> string[s]]
    BY DEF WInv, HistoryInv, HistoryTyped
  <2> QED
    BY <2>1, <2>2 DEF FreeNodes
<1> QED
  BY <1>1, <1>2, <1>3 DEF MemoryOwned

\* Until something is stored past the end of the history, nothing on the heap is
\* lost, freed twice or reached after it was freed.
THEOREM HeapOwned == Spec => []MemoryOwned
BY WshInvariant, OwnedThen, PTL
-----------------------------------------------------------------------------
(***************************************************************************)
(* What a user sees: the history and the variables as sequences.           *)
(***************************************************************************)
Lines(h, n, str) == [i \in 1..n |-> str[h[i - 1]]]
LineSet(h, n, str) == {str[h[i]] : i \in 0..n - 1}

LEMMA KeptIs == ~ended /\ ~overrun => Kept = Lines(history, history_count, string)
BY DEF Kept, Lines

LEMMA LinesAre ==
  ASSUME NEW h, NEW n \in Nat, NEW str
  PROVE  /\ Lines(h, n, str) \in Seq(LineSet(h, n, str))
         /\ Len(Lines(h, n, str)) = n /\ DOMAIN Lines(h, n, str) = 1..n
         /\ \A i \in 1..n : Lines(h, n, str)[i] = str[h[i - 1]]
<1>1. PICK S : S = LineSet(h, n, str)
  OBVIOUS
<1>2. PICK s : s = Lines(h, n, str)
  OBVIOUS
<1>3. s = [i \in 1..n |-> str[h[i - 1]]]
  BY <1>2 DEF Lines
<1>4. \A i \in 1..n : i - 1 \in 0..n - 1
  OBVIOUS
<1>5. \A i \in 1..n : str[h[i - 1]] \in S
  BY <1>1, <1>4 DEF LineSet
<1>6. s \in [1..n -> S]
  BY <1>3, <1>5
<1>7. s \in Seq(S) /\ Len(s) = n
  BY <1>6
<1> QED
  BY <1>1, <1>2, <1>3, <1>7

\* The end of a sequence that fits, and of one that was appended to.
LEMMA LastFits ==
  ASSUME NEW s, NEW k, Len(s) <= k
  PROVE  Sh!LastOf(s, k) = s
BY DEF Sh!LastOf

LEMMA LastOfMore ==
  ASSUME NEW S, NEW s \in Seq(S), NEW k \in Nat \ {0}, k < Len(s)
  PROVE  Sh!LastOf(s, k) = [i \in 1..k |-> s[i + (Len(s) - k)]]
<1>1. PICK n \in Nat : n = Len(s) /\ DOMAIN s = 1..n
  OBVIOUS
<1>2. ~(n <= k) /\ n - k + 1 \in 1..n
  BY <1>1
<1>3. Sh!LastOf(s, k) = SubSeq(s, n - k + 1, n)
  BY <1>1, <1>2 DEF Sh!LastOf
<1>4. PICK q : q = SubSeq(s, n - k + 1, n)
  OBVIOUS
<1>5. /\ q \in Seq(S) /\ Len(q) = k
      /\ \A i \in 1..k : q[i] = s[(n - k + 1) + i - 1]
  <2>1. \A i \in (n - k + 1)..n : s[i] \in S
    BY <1>1, <1>2
  <2>2. n - (n - k + 1) + 1 = k /\ n - k + 1 <= n + 1 /\ n - k + 1 \in Int /\ n \in Int
    BY <1>1
  <2>3. /\ SubSeq(s, n - k + 1, n) \in Seq(S)
        /\ Len(SubSeq(s, n - k + 1, n)) =
             IF n - k + 1 <= n THEN n - (n - k + 1) + 1 ELSE 0
        /\ \A i \in 1..n - (n - k + 1) + 1 :
             SubSeq(s, n - k + 1, n)[i] = s[(n - k + 1) + i - 1]
    BY <1>1, <1>2, <2>2, SubSeqProperties
  <2> QED
    BY <1>4, <2>2, <2>3
<1>6. DOMAIN q = 1..k /\ q = [i \in 1..k |-> q[i]]
  BY <1>5
<1>7. \A i \in 1..k : (n - k + 1) + i - 1 = i + (n - k)
  BY <1>1
<1>8. \A i \in 1..k : q[i] = s[i + (n - k)]
  BY <1>5, <1>7
<1> QED
  BY <1>1, <1>3, <1>4, <1>6, <1>8

LEMMA AppendIs ==
  ASSUME NEW S, NEW s \in Seq(S), NEW c \in S
  PROVE  /\ Append(s, c) \in Seq(S) /\ Len(Append(s, c)) = Len(s) + 1
         /\ DOMAIN Append(s, c) = 1..Len(s) + 1
         /\ Append(s, c)[Len(s) + 1] = c
         /\ \A i \in 1..Len(s) : Append(s, c)[i] = s[i]
<1>1. /\ Append(s, c) \in Seq(S) /\ Len(Append(s, c)) = Len(s) + 1
      /\ Append(s, c)[Len(s) + 1] = c
      /\ \A i \in 1..Len(s) : Append(s, c)[i] = s[i]
  BY AppendProperties
<1>2. DOMAIN Append(s, c) = 1..Len(Append(s, c))
  <2>1. PICK a \in Seq(S) : a = Append(s, c)
    BY <1>1, Zenon
  <2>2. DOMAIN a = 1..Len(a)
    OBVIOUS
  <2> QED
    BY <2>1, <2>2
<1> QED
  BY <1>1, <1>2

\* Recording a line keeps the last ones.
LEMMA RecordedLines ==
  ASSUME history_count \in Nat, history_capacity \in Nat \ {0},
         history_count <= history_capacity, NEW c, Recorded(c)
  PROVE  Lines(history', history_count', string') =
           Sh!LastOf(Append(Lines(history, history_count, string), c), history_capacity)
<1>1. PICK n \in Nat, k \in Nat \ {0} :
        n = history_count /\ k = history_capacity /\ n <= k
  OBVIOUS
<1>2. PICK S : S = LineSet(history, n, string) \cup {c}
  OBVIOUS
<1>7. PICK s \in Seq(S) :
        /\ c \in S /\ s = Lines(history, n, string) /\ Len(s) = n
        /\ \A i \in 1..n : s[i] = string[history[i - 1]]
  <2>1. PICK T : T = LineSet(history, n, string)
    OBVIOUS
  <2>2. PICK s : s = Lines(history, n, string)
    OBVIOUS
  <2>3. s \in Seq(T) /\ Len(s) = n /\ \A i \in 1..n : s[i] = string[history[i - 1]]
    <3>1. /\ Lines(history, n, string) \in Seq(LineSet(history, n, string))
          /\ Len(Lines(history, n, string)) = n
          /\ \A i \in 1..n : Lines(history, n, string)[i] = string[history[i - 1]]
      BY LinesAre, Zenon
    <3> QED
      BY <2>1, <2>2, <3>1, Zenon
  <2>4. s \in Seq(S) /\ c \in S
    <3>1. S = T \cup {c}
      BY <1>2, <2>1
    <3> QED
      BY <2>3, <3>1
  <2> QED
    BY <2>2, <2>3, <2>4
<1>3. PICK a \in Seq(S) :
        /\ a = Append(s, c) /\ Len(a) = n + 1 /\ DOMAIN a = 1..n + 1
        /\ a[n + 1] = c /\ \A i \in 1..n : a[i] = s[i]
  <2>1. /\ Append(s, c) \in Seq(S) /\ Len(Append(s, c)) = Len(s) + 1
        /\ DOMAIN Append(s, c) = 1..Len(s) + 1
        /\ Append(s, c)[Len(s) + 1] = c
        /\ \A i \in 1..Len(s) : Append(s, c)[i] = s[i]
    <3>1. c \in S
      BY <1>7
    <3> QED
      BY <3>1, AppendIs
  <2>2. Len(s) = n
    BY <1>7
  <2> QED
    BY <2>1, <2>2, Zenon
<1>4. PICK q : q = Lines(history', history_count', string')
  OBVIOUS
<1>5. CASE /\ n < k /\ history_count' = n + 1
           /\ string'[history'[n]] = c
           /\ \A i \in 0..n - 1 : string'[history'[i]] = string[history[i]]
  <2>1. q = [i \in 1..n + 1 |-> string'[history'[i - 1]]]
    BY <1>4, <1>5 DEF Lines
  <2>2. ASSUME NEW i \in 1..n + 1
        PROVE  string'[history'[i - 1]] = a[i]
    <3>1. CASE i = n + 1
      <4>1. i - 1 = n
        BY <3>1
      <4> QED
        BY <1>3, <1>5, <3>1, <4>1
    <3>2. CASE i # n + 1
      <4>1. i \in 1..n /\ i - 1 \in 0..n - 1
        BY <3>2
      <4> QED
        BY <1>7, <1>3, <1>5, <4>1
    <3> QED
      BY <3>1, <3>2
  <2>3. a = [i \in 1..n + 1 |-> a[i]]
    <3>1. a \in [1..Len(a) -> S]
      OBVIOUS
    <3>3. Len(a) = n + 1
      BY <1>3
    <3>2. a \in [1..n + 1 -> S]
      BY <3>1, <3>3, Zenon
    <3> QED
      BY <3>2
  <2>4. q = a
    BY <2>1, <2>2, <2>3
  <2>5. Sh!LastOf(a, k) = a
    <3>1. Len(a) <= k
      BY <1>1, <1>3, <1>5
    <3> QED
      BY <3>1, LastFits
  <2> QED
    BY <1>1, <1>7, <1>3, <1>4, <2>4, <2>5
<1>6. CASE /\ n = k /\ history_count' = n
           /\ string'[history'[n - 1]] = c
           /\ \A i \in 0..n - 2 : string'[history'[i]] = string[history[i + 1]]
  <2>1. q = [i \in 1..k |-> string'[history'[i - 1]]]
    BY <1>4, <1>6 DEF Lines
  <2>2. Sh!LastOf(a, k) = [i \in 1..k |-> a[i + (Len(a) - k)]]
    <3>1. k < Len(a)
      BY <1>3, <1>6
    <3> QED
      BY <3>1, LastOfMore
  <2>3. ASSUME NEW i \in 1..k
        PROVE  string'[history'[i - 1]] = a[i + (Len(a) - k)]
    <3>1. i + (Len(a) - k) = i + 1
      BY <1>3, <1>6
    <3>2. CASE i = k
      <4>1. i - 1 = n - 1 /\ i + 1 = n + 1
        BY <1>6, <3>2
      <4> QED
        BY <1>3, <1>6, <3>1, <4>1
    <3>3. CASE i # k
      <4>1. i + 1 \in 1..n /\ i - 1 \in 0..n - 2 /\ i - 1 + 1 = i /\ i + 1 - 1 = i
        BY <1>6, <3>3
      <4>2. a[i + 1] = string[history[i]]
        BY <1>7, <1>3, <4>1
      <4>3. string'[history'[i - 1]] = string[history[i]]
        BY <1>6, <4>1
      <4> QED
        BY <3>1, <4>2, <4>3
    <3> QED
      BY <3>2, <3>3
  <2>4. q = Sh!LastOf(a, k)
    BY <2>1, <2>2, <2>3
  <2> QED
    BY <1>1, <1>7, <1>3, <1>4, <2>4
<1> QED
  BY <1>1, <1>5, <1>6, Zenon DEF Recorded

\* So does lowering the history.
LEMMA LoweredLines ==
  ASSUME history_count \in Nat, NEW n \in 1..history_count - 1, Lowered(n),
         history_count' = n
  PROVE  Lines(history', history_count', string') =
           Sh!LastOf(Lines(history, history_count, string), n)
<1>1. PICK m \in Nat : m = history_count /\ n \in 1..m - 1
  OBVIOUS
<1>7. PICK S : S = LineSet(history, m, string)
  OBVIOUS
<1>2. PICK s \in Seq(S) :
        /\ s = Lines(history, m, string) /\ Len(s) = m
        /\ \A i \in 1..m : s[i] = string[history[i - 1]]
  <2>2. PICK s : s = Lines(history, m, string)
    OBVIOUS
  <2>3. s \in Seq(S) /\ Len(s) = m /\ \A i \in 1..m : s[i] = string[history[i - 1]]
    BY <1>7, <2>2, LinesAre, Zenon
  <2> QED
    BY <2>2, <2>3
<1>3. n \in Nat \ {0} /\ n < m
  BY <1>1
<1>4. Sh!LastOf(s, n) = [i \in 1..n |-> s[i + (m - n)]]
  <2>1. n < Len(s) /\ Len(s) = m
    BY <1>2, <1>3
  <2>2. Sh!LastOf(s, n) = [i \in 1..n |-> s[i + (Len(s) - n)]]
    BY <1>3, <2>1, LastOfMore, Zenon
  <2> QED
    BY <2>1, <2>2
<1>5. ASSUME NEW i \in 1..n
      PROVE  string'[history'[i - 1]] = s[i + (m - n)]
  <2>1. i - 1 \in 0..n - 1 /\ i + (m - n) \in 1..m /\ (i - 1) + (m - n) = i + (m - n) - 1
    BY <1>1
  <2>2. string'[history'[i - 1]] = string[history[(i - 1) + (m - n)]]
    BY <1>1, <2>1 DEF Lowered
  <2> QED
    BY <1>2, <2>1, <2>2
<1>6. Lines(history', history_count', string') = [i \in 1..n |-> string'[history'[i - 1]]]
  BY DEF Lines
<1> QED
  BY <1>1, <1>2, <1>4, <1>5, <1>6
-----------------------------------------------------------------------------
(***************************************************************************)
(* The variables: removal, the place of a name, and substitution.          *)
(***************************************************************************)
LEMMA RemoveIs ==
  ASSUME NEW S, NEW s \in Seq(S), NEW i \in DOMAIN s
  PROVE  Sh!RemoveAt(s, i) = Without(s, i)
<1>1. PICK n \in Nat : n = Len(s) /\ DOMAIN s = 1..n /\ i \in 1..n
  OBVIOUS
<1>2. PICK a : a = SubSeq(s, 1, i - 1)
  OBVIOUS
<1>3. PICK b : b = SubSeq(s, i + 1, n)
  OBVIOUS
<1>4. /\ a \in Seq(S) /\ Len(a) = i - 1
      /\ \A j \in 1..i - 1 : a[j] = s[j]
  <2>1. \A j \in 1..i - 1 : s[j] \in S
    BY <1>1
  <2>2. 1 \in Int /\ i - 1 \in Int
    BY <1>1
  <2>3. /\ a \in Seq(S)
        /\ Len(a) = IF 1 <= i - 1 THEN i - 1 - 1 + 1 ELSE 0
        /\ \A j \in 1..i - 1 - 1 + 1 : a[j] = s[1 + j - 1]
    BY <1>2, <2>1, <2>2, SubSeqProperties
  <2>4. i - 1 - 1 + 1 = i - 1 /\ (1 > i - 1 => i - 1 = 0)
    BY <1>1
  <2>5. \A j \in 1..i - 1 : 1 + j - 1 = j
    BY <1>1
  <2> QED
    BY <2>3, <2>4, <2>5
<1>5. /\ b \in Seq(S) /\ Len(b) = n - i
      /\ \A j \in 1..n - i : b[j] = s[i + j]
  <2>1. \A j \in i + 1..n : s[j] \in S
    BY <1>1
  <2>2. i + 1 \in Int /\ n \in Int
    BY <1>1
  <2>3. /\ b \in Seq(S)
        /\ Len(b) = IF i + 1 <= n THEN n - (i + 1) + 1 ELSE 0
        /\ \A j \in 1..n - (i + 1) + 1 : b[j] = s[i + 1 + j - 1]
    BY <1>3, <2>1, <2>2, SubSeqProperties
  <2>4. n - (i + 1) + 1 = n - i /\ (i + 1 > n => n - i = 0)
    BY <1>1
  <2>5. \A j \in 1..n - i : i + 1 + j - 1 = i + j
    BY <1>1
  <2> QED
    BY <2>3, <2>4, <2>5
<1>6. PICK q : q = a \o b
  OBVIOUS
<1>7. /\ q \in Seq(S) /\ Len(q) = n - 1
      /\ \A j \in 1..n - 1 : q[j] = IF j < i THEN s[j] ELSE s[j + 1]
  <2>1. /\ a \o b \in Seq(S) /\ Len(a \o b) = Len(a) + Len(b)
        /\ \A j \in 1..Len(a) + Len(b) :
             (a \o b)[j] = IF j <= Len(a) THEN a[j] ELSE b[j - Len(a)]
    BY <1>4, <1>5, ConcatProperties
  <2>2. q \in Seq(S) /\ Len(q) = (i - 1) + (n - i)
    BY <1>4, <1>5, <1>6, <2>1
  <2>3. (i - 1) + (n - i) = n - 1
    BY <1>1
  <2>4. ASSUME NEW j \in 1..n - 1
        PROVE  q[j] = IF j < i THEN s[j] ELSE s[j + 1]
    <3>1. q[j] = IF j <= i - 1 THEN a[j] ELSE b[j - (i - 1)]
      BY <1>4, <1>5, <1>6, <2>1, <2>3
    <3>2. CASE j < i
      <4>1. j <= i - 1 /\ j \in 1..i - 1
        BY <1>1, <3>2
      <4> QED
        BY <1>4, <3>1, <3>2, <4>1
    <3>3. CASE ~(j < i)
      <4>1. ~(j <= i - 1) /\ j - (i - 1) \in 1..n - i /\ i + (j - (i - 1)) = j + 1
        BY <1>1, <3>3
      <4> QED
        BY <1>5, <3>1, <3>3, <4>1
    <3> QED
      BY <3>2, <3>3
  <2> QED
    BY <2>2, <2>3, <2>4
<1>8. q = [j \in 1..n - 1 |-> q[j]]
  <2>1. DOMAIN q = 1..Len(q) /\ Len(q) = n - 1
    BY <1>7
  <2>2. q \in [1..Len(q) -> S]
    BY <1>7
  <2> QED
    BY <2>1, <2>2
<1>9. Without(s, i) = [j \in 1..n - 1 |-> IF j < i THEN s[j] ELSE s[j + 1]]
  BY <1>1 DEF Without
<1>10. Sh!RemoveAt(s, i) = q
  BY <1>1, <1>2, <1>3, <1>6, Zenon DEF Sh!RemoveAt
<1> QED
  BY <1>7, <1>8, <1>9, <1>10

LEMMA VariablesAre ==
  \A l \in Seq(Nodes) : ~ended /\ Listed(shell_vars, node, l) => Variables = Pairs(node, l)
<1> SUFFICES ASSUME NEW l \in Seq(Nodes), ~ended, Listed(shell_vars, node, l)
             PROVE  Variables = Pairs(node, l)
  OBVIOUS
<1>1. List = l
  BY ListIs DEF Listed
<1> QED
  BY <1>1, Zenon DEF Variables, Pairs

LEMMA VariablesNext ==
  \A l \in Seq(Nodes) :
    ~ended' /\ Listed(shell_vars', node', l) => Variables' = Pairs(node', l)
<1>1. (\A l \in Seq(Nodes) :
         ~ended /\ Listed(shell_vars, node, l) => Variables = Pairs(node, l))'
  BY VariablesAre, PTL
<1> QED
  BY <1>1

\* local changes the variables as Shell says.
LEMMA LocalIs ==
  ASSUME NEW p \in Seq(Pair), NEW q, NEW x, NEW v, SetTo(p, q, x, v),
         \A i, j \in DOMAIN p : p[i][1] = p[j][1] => i = j,
         Variables = p, Variables' = q,
         UNCHANGED <<env, Kept, history_capacity, ran>>
  PROVE  Sh!Local(x, v)
<1>1. Sh!Has(x) <=> \E i \in DOMAIN p : p[i][1] = x
  BY DEF Sh!Has
<1>2. ASSUME NEW i \in DOMAIN p, p[i][1] = x PROVE Sh!Place(x) = i
  <2>1. Sh!Place(x) = CHOOSE j \in DOMAIN p : p[j][1] = x
    BY DEF Sh!Place
  <2> QED
    BY <1>2, <2>1
<1>3. q = IF Sh!Has(x)
            THEN IF v = Empty THEN Sh!RemoveAt(p, Sh!Place(x))
                 ELSE [p EXCEPT ![Sh!Place(x)] = <<x, v>>]
          ELSE IF v = Empty THEN p ELSE Append(p, <<x, v>>)
  <2>1. CASE v = Empty /\ \E i \in DOMAIN p : p[i][1] = x /\ q = Without(p, i)
    <3>1. PICK i \in DOMAIN p : p[i][1] = x /\ q = Without(p, i)
      BY <2>1
    <3>2. Sh!Place(x) = i /\ Sh!Has(x)
      BY <1>1, <1>2, <3>1
    <3>3. q = Sh!RemoveAt(p, i)
      BY <3>1, RemoveIs
    <3> QED
      BY <2>1, <3>2, <3>3
  <2>2. CASE v # Empty /\ \E i \in DOMAIN p : p[i][1] = x /\ q = [p EXCEPT ![i] = <<x, v>>]
    <3>1. PICK i \in DOMAIN p : p[i][1] = x /\ q = [p EXCEPT ![i] = <<x, v>>]
      BY <2>2
    <3>2. Sh!Place(x) = i /\ Sh!Has(x)
      BY <1>1, <1>2, <3>1
    <3> QED
      BY <2>2, <3>1, <3>2
  <2>3. CASE v = Empty /\ (\A i \in DOMAIN p : p[i][1] # x) /\ q = p
    BY <1>1, <2>3
  <2>4. CASE v # Empty /\ (\A i \in DOMAIN p : p[i][1] # x) /\ q = Append(p, <<x, v>>)
    BY <1>1, <2>4
  <2> QED
    BY <2>1, <2>2, <2>3, <2>4, Zenon DEF SetTo
<1>4. /\ env' = env /\ Kept' = Kept /\ history_capacity' = history_capacity
      /\ ran'[2] = ran[2]
  OBVIOUS
<1> QED
  BY <1>3, <1>4, Zenon DEF Sh!Local

\* Substitution reads the list as Shell reads its variables.
LEMMA SubstitutedIs ==
  ASSUME WInv, ~ended, NEW c
  PROVE  Sh!Substitutes(split_input_to_token(c)[2], c)
<1>1. PICK l \in Seq(Nodes) : Listed(shell_vars, node, l)
  BY DEF WInv, VariablesInv
<1>2. node \in [Nodes -> NodeRec]
  BY DEF WInv, VariablesInv
<1>3. List = l
  BY <1>1, ListIs DEF Listed
<1>4. PICK p \in Seq(Pair) :
        /\ Variables = p /\ DOMAIN p = DOMAIN l
        /\ \A i \in DOMAIN l : p[i][1] = node[l[i]].name /\ p[i][2] = node[l[i]].value
        /\ \A i, j \in DOMAIN l : p[i][1] = p[j][1] => i = j
  <2>1. Variables = Pairs(node, l)
    BY <1>1, VariablesAre
  <2> QED
    BY <1>1, <1>2, <2>1, PairsAre
<1>5. ASSUME NEW t
      PROVE  replace_vars_in_token(t) = Sh!Expanded(t)
  <2>1. Find(t.name) = {i \in DOMAIN l : node[l[i]].name = t.name}
    BY <1>3 DEF Find
  <2>2. Sh!Has(t.name) <=> Find(t.name) # {}
    BY <1>4, <2>1 DEF Sh!Has
  <2>3. ASSUME Find(t.name) # {}
        PROVE  node[List[CHOOSE i \in Find(t.name) : TRUE]].value = Sh!ValueOf(t.name)
    <3>1. PICK i \in DOMAIN l : i \in Find(t.name) /\ p[i][1] = t.name
      BY <1>4, <2>1, <2>3
    <3>2. \A j \in Find(t.name) : j = i
      BY <1>4, <2>1, <3>1
    <3>3. (CHOOSE j \in Find(t.name) : TRUE) = i
      BY <3>1, <3>2
    <3>4. \A j \in DOMAIN p : p[j][1] = t.name => j = i
      BY <1>4, <3>1
    <3>5. (CHOOSE j \in DOMAIN p : p[j][1] = t.name) = i
      BY <1>4, <3>1, <3>4
    <3>6. Sh!Place(t.name) = i
      BY <1>4, <3>5 DEF Sh!Place
    <3>7. Sh!ValueOf(t.name) = node[l[i]].value
      BY <1>4, <3>6 DEF Sh!ValueOf
    <3> QED
      BY <1>3, <3>3, <3>7
  <2> QED
    BY <2>2, <2>3, Zenon DEF replace_vars_in_token, Sh!Expanded
<1>6. split_input_to_token(c)[2] = [i \in DOMAIN c[2] |-> replace_vars_in_token(c[2][i])]
  BY DEF split_input_to_token
<1> QED
  BY <1>5, <1>6, Zenon DEF Sh!Substitutes
-----------------------------------------------------------------------------
(***************************************************************************)
(* Each step of the shell is a step of Shell.                              *)
(***************************************************************************)
Lined == {WithAmpersand(c, r) : c \in Commands, r \in Redirections}

\* The variables of two states with the same list.
LEMMA SameVariables ==
  ASSUME WInv, ~ended, ~ended', UNCHANGED <<shell_vars, node>>
  PROVE  Variables' = Variables
<1>1. PICK l \in Seq(Nodes) : Listed(shell_vars, node, l)
  BY DEF WInv, VariablesInv
<1>2. Variables = Pairs(node, l)
  BY <1>1, VariablesAre
<1>3. Listed(shell_vars', node', l)
  BY <1>1
<1>5. Variables' = Pairs(node', l)
  BY <1>3, VariablesNext
<1> QED
  BY <1>2, <1>5

LEMMA SameKept ==
  ASSUME ~ended, ~ended', ~overrun, ~overrun',
         UNCHANGED <<history, history_count, string>>
  PROVE  Kept' = Kept
BY DEF Kept

LEMMA KeptNext == ~ended' /\ ~overrun' => Kept' = Lines(history', history_count', string')
BY DEF Kept, Lines

\* The shell ends.
LEMMA EndIsQuit ==
  ASSUME ended', UNCHANGED <<env, history_capacity, ran>>
  PROVE  Sh!Next
<1>1. Variables' = <<>> /\ Kept' = <<>>
  BY DEF Variables, Kept
<1>2. Sh!Quit
  BY <1>1, Zenon DEF Sh!Quit
<1> QED
  BY <1>2 DEF Sh!Next

\* Nothing a user sees changes.
LEMMA OtherIs ==
  ASSUME WInv, ~ended, ~ended', ~overrun, ~overrun', ran'[2] = ran[2],
         UNCHANGED <<history, history_count, history_capacity, string,
                     shell_vars, node, env>>
  PROVE  Sh!Next
<1>1. Variables' = Variables /\ Kept' = Kept
  BY SameVariables, SameKept
<1>2. Sh!Other
  BY <1>1, Zenon DEF Sh!Other, Sh!all
<1> QED
  BY <1>2 DEF Sh!Next

\* What runs is what the line says, or the junk of a line that was freed.
LEMMA RunIsRun ==
  \A c \in Commands, r \in Redirections :
    WInv /\ RunProgram(c, r) /\ ~overrun /\ ~overrun' => Sh!Next
<1> SUFFICES ASSUME NEW c \in Commands, NEW r \in Redirections,
                    WInv, RunProgram(c, r), ~overrun, ~overrun'
             PROVE  Sh!Next
  OBVIOUS
<1>1. /\ ~ended /\ Record(WithAmpersand(c, r))
      /\ exec_fork(split_input_to_token(WithAmpersand(c, r)))
      /\ UNCHANGED <<history_capacity, room, variableVars>>
  BY DEF RunProgram
<1>0. CASE ended' /\ UNCHANGED ran
  BY <1>0, <1>1, EndIsQuit DEF variableVars
<1>20. SUFFICES ASSUME ran' = split_input_to_token(WithAmpersand(c, r)), ended' = ended
                PROVE  Sh!Next
  BY <1>0, <1>1 DEF exec_fork
<1>2. PICK line \in Lined : line = WithAmpersand(c, r)
  BY DEF Lined
<1>3. line # Nothing /\ Record(line) /\ ran' = split_input_to_token(line)
  BY <1>1, <1>2, <1>20, LineIs
<1>4. /\ ~ended /\ ~ended' /\ history_capacity' = history_capacity /\ room' = room
      /\ shell_vars' = shell_vars /\ node' = node /\ env' = env
  BY <1>1, <1>20 DEF variableVars
<1>5. HistoryInv
  BY DEF WInv
<1>6. Recorded(line)
  BY <1>3, <1>4, <1>5, RecordStep
<1>7. /\ history_count \in Nat /\ history_capacity \in Nat \ {0}
      /\ history_count <= history_capacity
  <2>1. MAXIMUM_HISTORY \in Nat
    BY Numbers
  <2> QED
    BY <1>4, <1>5, <2>1 DEF HistoryInv, HistoryTyped
<1>8. Lines(history', history_count', string') =
        Sh!LastOf(Append(Lines(history, history_count, string), line), history_capacity)
  BY <1>6, <1>7, RecordedLines
<1>9. Kept' = Sh!LastOf(Append(Kept, line), history_capacity)
  BY <1>4, <1>8, KeptIs, KeptNext
<1>10. Variables' = Variables
  BY <1>4, SameVariables
<1>11. Sh!Substitutes(ran'[2], line)
  <2>1. split_input_to_token(line)[2] = ran'[2]
    BY <1>3, Zenon
  <2> QED
    BY <1>4, <2>1, SubstitutedIs
<1>12. Sh!Run(line)
  BY <1>4, <1>9, <1>10, <1>11, Zenon DEF Sh!Run
<1> QED
  BY <1>2, <1>12 DEF Sh!Next, Lined

LEMMA HistoryRunIs ==
  \A n \in 1..MAXIMUM_HISTORY :
    WInv /\ HistoryRun(n) /\ ~overrun /\ ~overrun' => Sh!Next
<1> SUFFICES ASSUME NEW n \in 1..MAXIMUM_HISTORY, WInv, HistoryRun(n),
                    ~overrun, ~overrun'
             PROVE  Sh!Next
  OBVIOUS
<1>11. /\ ~ended /\ n \in 1..history_count
       /\ UNCHANGED <<history, history_count, history_capacity, string,
                      shell_vars, node, env>>
  BY DEF HistoryRun, historyVars, variableVars
<1>12. CASE ended' /\ UNCHANGED ran
  BY <1>11, <1>12, EndIsQuit
<1>13. PICK line : line = Line(history[history_count - n])
  OBVIOUS
<1>14. SUFFICES ASSUME ended' = ended, ran'[2] = split_input_to_token(line)[2]
                PROVE  Sh!Next
  <2>1. \/ exec_fork(split_input_to_token(line))
        \/ exec_fork(<<Junk, split_input_to_token(line)[2]>>)
    BY <1>13, Zenon DEF HistoryRun
  <2> QED
    BY <1>12, <1>14, <2>1 DEF exec_fork
<1>15. line = string[history[history_count - n]]
  <2>1. Owned(history, history_count, string) /\ history_count \in 0..MAXIMUM_HISTORY
    BY <1>11 DEF WInv, HistoryInv, HistoryTyped
  <2>2. history_count - n \in 0..history_count - 1
    BY <1>11, <2>1, Numbers
  <2> QED
    BY <1>13, <2>1, <2>2 DEF Owned, Line
<1>1. /\ ~ended /\ ~ended' /\ n \in 1..history_count
      /\ ran'[2] = split_input_to_token(string[history[history_count - n]])[2]
      /\ UNCHANGED <<history, history_count, history_capacity, string,
                     shell_vars, node, env>>
  BY <1>11, <1>14, <1>15
<1>2. PICK m \in Nat : m = history_count
  <2>1. MAXIMUM_HISTORY \in Nat
    BY Numbers
  <2> QED
    BY <2>1 DEF WInv, HistoryInv, HistoryTyped
<1>3. Kept = Lines(history, m, string)
  BY <1>1, <1>2, KeptIs
<1>4. PICK k \in 1..m : k = m + 1 - n /\ k - 1 = m - n
  BY <1>1, <1>2
<1>5. Len(Kept) = m /\ DOMAIN Kept = 1..m /\ Kept[k] = string[history[k - 1]]
  BY <1>3, LinesAre
<1>6. Kept[Len(Kept) + 1 - n] = string[history[m - n]]
  BY <1>4, <1>5
<1>7. Sh!Substitutes(ran'[2], Kept[Len(Kept) + 1 - n])
  <2>1. split_input_to_token(Kept[Len(Kept) + 1 - n])[2] = ran'[2]
    BY <1>1, <1>2, <1>6, Zenon
  <2> QED
    BY <1>1, <2>1, SubstitutedIs
<1>8. Variables' = Variables /\ Kept' = Kept
  BY <1>1, SameVariables, SameKept
<1>9. Sh!RunAgain(n)
  BY <1>1, <1>7, <1>8, Zenon DEF Sh!RunAgain
<1>10. n \in DOMAIN Kept
  BY <1>1, <1>2, <1>5
<1> QED
  BY <1>9, <1>10 DEF Sh!Next

LEMMA HistorySetIs == \A n \in Nat : WInv /\ HistorySet(n) /\ ~overrun => Sh!Next
<1> SUFFICES ASSUME NEW n \in Nat, WInv, HistorySet(n), ~overrun PROVE Sh!Next
  OBVIOUS
<1>1. ~ended /\ ~ended' /\ ~overrun' /\ UNCHANGED <<shell_vars, node, env, ran>>
  BY DEF HistorySet, Builtin, variableVars
<1>2. HistoryInv
  BY DEF WInv
<1>3. PICK m \in Nat : m = history_count /\ m <= MAXIMUM_HISTORY /\ MAXIMUM_HISTORY \in Nat
  <2>1. MAXIMUM_HISTORY \in Nat
    BY Numbers
  <2> QED
    BY <2>1 DEF WInv, HistoryInv, HistoryTyped
<1>4. Variables' = Variables
  BY <1>1, SameVariables
<1>5. Kept = Lines(history, m, string) /\ Len(Kept) = m
  <2>1. Kept = Lines(history, m, string)
    BY <1>1, <1>3, KeptIs
  <2> QED
    BY <2>1, LinesAre
<1>6. ASSUME n \in 1..MAXIMUM_HISTORY, history_capacity' \in {n, history_capacity},
             Kept' = Sh!LastOf(Kept, n)
      PROVE  Sh!Next
  <2>1. Sh!Resize(n)
    BY <1>1, <1>4, <1>6, Zenon DEF Sh!Resize
  <2> QED
    BY <1>6, <2>1 DEF Sh!Next
<1>7. CASE UNCHANGED historyVars
  <2>1. UNCHANGED <<history, history_count, history_capacity, string>>
    BY <1>7 DEF historyVars
  <2>2. ran'[2] = ran[2]
    BY <1>1
  <2> QED
    BY <1>1, <2>1, <2>2, OtherIs
<1>8. CASE /\ n \in history_count..MAXIMUM_HISTORY /\ n # 0
           /\ history_capacity' = n
           /\ UNCHANGED <<history, history_count, room, string>>
  <2>1. Kept' = Kept
    BY <1>1, <1>8, SameKept
  <2>2. n \in 1..MAXIMUM_HISTORY /\ Len(Kept) <= n
    BY <1>3, <1>5, <1>8
  <2>3. Kept' = Sh!LastOf(Kept, n)
    BY <2>1, <2>2, LastFits
  <2>4. history_capacity' \in {n, history_capacity}
    BY <1>8
  <2> QED
    BY <1>6, <2>2, <2>3, <2>4
<1>9. CASE /\ n \in 1..history_count - 1
           /\ string' = Freed(Dropped(n))
           /\ history' = Moved(history_count - n, n)
           /\ history_count' = n
           /\ \/ room' = n /\ history_capacity' = n
              \/ UNCHANGED <<room, history_capacity>>
  <2>5. string' = [s \in Strings |-> IF s \in Dropped(n) THEN Nothing ELSE string[s]]
    BY <1>9 DEF Freed
  <2>6. room' \in {n, room} /\ history_capacity' \in {n, history_capacity}
    BY <1>9
  <2>1. Lowered(n)
    BY <1>1, <1>2, <1>9, <2>5, <2>6, LowerStep
  <2>2. Lines(history', history_count', string') =
          Sh!LastOf(Lines(history, history_count, string), n)
    BY <1>3, <1>9, <2>1, LoweredLines
  <2>3. Kept' = Sh!LastOf(Kept, n)
    BY <1>1, <2>2, KeptIs, KeptNext
  <2>4. n \in 1..MAXIMUM_HISTORY
    BY <1>3, <1>9
  <2> QED
    BY <1>6, <2>3, <2>4, <2>6
<1> QED
  BY <1>7, <1>8, <1>9, Zenon DEF HistorySet

LEMMA LocalIsLocal ==
  \A x \in Names, v \in Values \cup {Empty} :
    WInv /\ built_in_local(x, v) /\ ~overrun => Sh!Next
<1> SUFFICES ASSUME NEW x \in Names, NEW v \in Values \cup {Empty},
                    WInv, built_in_local(x, v), ~overrun
             PROVE  Sh!Next
  OBVIOUS
<1>1. /\ ~ended /\ ~ended' /\ ~overrun' /\ set_shell_var(x, v)
      /\ UNCHANGED <<history, history_count, history_capacity, string, env, ran>>
  BY DEF built_in_local, Builtin, historyVars
<1>2. PICK l \in Seq(Nodes) : Listed(shell_vars, node, l)
  BY <1>1 DEF WInv, VariablesInv
<1>3. node \in [Nodes -> NodeRec]
  BY DEF WInv, VariablesInv
<1>4. PICK w \in Seq(Nodes) : /\ Listed(shell_vars', node', w)
                              /\ SetTo(Pairs(node, l), Pairs(node', w), x, v)
  BY <1>1, <1>2, <1>3, SetVariable, Zenon
<1>5. PICK p \in Seq(Pair) :
        /\ p = Pairs(node, l)
        /\ \A i, j \in DOMAIN p : p[i][1] = p[j][1] => i = j
  BY <1>2, <1>3, PairsAre
<1>6. Variables = p
  BY <1>1, <1>2, <1>5, VariablesAre
<1>8. Variables' = Pairs(node', w)
  BY <1>1, <1>4, VariablesNext
<1>9. SetTo(p, Pairs(node', w), x, v)
  BY <1>4, <1>5
<1>10. UNCHANGED <<env, Kept, history_capacity, ran>>
  BY <1>1, SameKept
<1>11. Sh!Local(x, v)
  BY <1>5, <1>6, <1>8, <1>9, <1>10, LocalIs
<1> QED
  BY <1>11 DEF Sh!Next

LEMMA ExportIs ==
  \A x \in Names, v \in Values \cup {Empty} :
    WInv /\ built_in_export(x, v) /\ ~overrun => Sh!Next
<1> SUFFICES ASSUME NEW x \in Names, NEW v \in Values \cup {Empty},
                    WInv, built_in_export(x, v), ~overrun
             PROVE  Sh!Next
  OBVIOUS
<1>1. /\ ~ended /\ ~ended' /\ ~overrun'
      /\ UNCHANGED <<history, history_count, history_capacity, string,
                     shell_vars, node, ran>>
  BY DEF built_in_export, Builtin, historyVars
<1>2. CASE v # Empty
  <2>1. Variables' = Variables /\ Kept' = Kept
    BY <1>1, SameVariables, SameKept
  <2>2. env' = [y \in DOMAIN env \cup {x} |-> IF y = x THEN v ELSE env[y]]
    BY <1>2 DEF built_in_export
  <2>3. ran'[2] = ran[2] /\ history_capacity' = history_capacity
    BY <1>1
  <2>4. Sh!Export(x, v)
    BY <2>1, <2>2, <2>3, Zenon DEF Sh!Export
  <2>5. v \in Values
    BY <1>2
  <2> QED
    BY <2>4, <2>5 DEF Sh!Next
<1>3. CASE v = Empty
  <2>1. UNCHANGED env
    BY <1>3 DEF built_in_export
  <2>2. ran'[2] = ran[2]
    BY <1>1
  <2> QED
    BY <1>1, <2>1, <2>2, OtherIs
<1> QED
  BY <1>2, <1>3

LEMMA ShellInit == Init => Sh!Init
<1> SUFFICES ASSUME Init PROVE Sh!Init
  OBVIOUS
<1>1. ~ended /\ history_count = 0 /\ shell_vars = NULL
  BY DEF Init
<1>2. <<>> \in Seq(Nodes) /\ DOMAIN <<>> = {}
  OBVIOUS
<1>3. Listed(shell_vars, node, <<>>)
  <2>1. \A n \in Nodes : node[n] = FreeNode
    BY DEF Init
  <2> QED
    BY <1>1, <1>2, <2>1 DEF Listed, Linked
<1>4. Variables = <<>>
  <2>1. Variables = Pairs(node, <<>>)
    BY <1>1, <1>2, <1>3, VariablesAre
  <2> QED
    BY <1>2, <2>1 DEF Pairs
<1>5. Kept = <<>>
  BY <1>1 DEF Kept
<1>6. history_capacity \in 1..MAXIMUM_HISTORY
  BY Numbers DEF Init
<1>7. ran[2] = <<>>
  BY DEF Init, Nothing
<1>8. env = [x \in {} |-> Empty]
  BY Zenon DEF Init
<1> QED
  BY <1>4, <1>5, <1>6, <1>7, <1>8, Zenon DEF Sh!Init

LEMMA ShellNext == Sound /\ [Next]_vars => [overrun' \/ Sh!Next]_Sh!all
<1> SUFFICES ASSUME Sound, [Next]_vars, ~overrun' PROVE Sh!Next \/ UNCHANGED Sh!all
  OBVIOUS
<1>0. ~overrun /\ WInv
  BY OverrunStays DEF Sound
<1>1. CASE UNCHANGED vars
  <2>1. /\ history' = history /\ history_count' = history_count
        /\ history_capacity' = history_capacity /\ string' = string
        /\ shell_vars' = shell_vars /\ node' = node /\ ended' = ended
        /\ env' = env /\ ran' = ran
    BY <1>1 DEF vars
  <2>2. CASE ended
    BY <2>1, <2>2 DEF Variables, Kept, Sh!all
  <2>3. CASE ~ended
    BY <1>0, <2>1, <2>3, OtherIs
  <2> QED
    BY <2>2, <2>3
<1>2. CASE \E c \in Commands, r \in Redirections : RunProgram(c, r)
  BY <1>0, <1>2, RunIsRun
<1>9. CASE Damage
  BY <1>0, <1>9 DEF Damage
<1>3. CASE RedirectionFails \/ EndOfInput \/ built_in_exit
  BY <1>3, EndIsQuit DEF RedirectionFails, EndOfInput, built_in_exit,
       variableVars, historyVars
<1>4. CASE \E n \in 1..MAXIMUM_HISTORY : HistoryRun(n)
  BY <1>0, <1>4, HistoryRunIs
<1>5. CASE \E n \in Sizes : HistorySet(n)
  <2>1. PICK n \in Sizes : HistorySet(n)
    BY <1>5
  <2>2. n \in Nat
    BY WshAssumption, Zenon
  <2> QED
    BY <1>0, <2>1, <2>2, HistorySetIs
<1>6. CASE HistoryShow \/ OtherBuiltin
  <2>1. /\ ~ended /\ ~ended'
        /\ UNCHANGED <<history, history_count, history_capacity, string,
                       shell_vars, node, env, ran>>
    BY <1>6 DEF HistoryShow, OtherBuiltin, Builtin, variableVars, historyVars
  <2>2. ran'[2] = ran[2]
    BY <2>1
  <2> QED
    BY <1>0, <2>1, <2>2, OtherIs
<1>7. CASE \E x \in Names, v \in Values \cup {Empty} : built_in_local(x, v)
  BY <1>0, <1>7, LocalIsLocal
<1>8. CASE \E x \in Exported, v \in Values \cup {Empty} : built_in_export(x, v)
  <2>1. Exported \subseteq Names
    BY WshAssumption, Zenon
  <2> QED
    BY <1>0, <1>8, <2>1, ExportIs
<1> QED
  BY <1>1, <1>2, <1>3, <1>4, <1>5, <1>6, <1>7, <1>8, <1>9 DEF Next

\* Until something is stored past the end of the history, what a user sees of wsh
\* is what Shell says: the history keeps the last commands through every resize,
\* variables keep their order, and a command, new or from the history, runs with
\* the values of that moment.
THEOREM WshIsShell == Spec => ShellSpec
<1>1. Init => Sh!Init
  BY ShellInit
<1>2. Sound /\ [Next]_vars => [overrun' \/ Sh!Next]_Sh!all
  BY ShellNext
<1> QED
  BY <1>1, <1>2, WshInvariant, PTL DEF Spec, ShellSpec
=============================================================================
