-------------------------------- MODULE Shell ---------------------------------
(***************************************************************************)
(* What wsh does, as its user sees it: variables in the order they were    *)
(* made, substituted when a command runs, and the last commands that were  *)
(* run.  Where README.md of p3 says otherwise than the program does, both  *)
(* are allowed: whether a command run twice in a row is stored once, and   *)
(* whether the environment is searched for $x in "$x," too.                *)
(***************************************************************************)
EXTENDS Naturals, Sequences, SequencesExt

CONSTANTS Names, Values,    \* variables and what they may hold
          Empty,            \* the empty string
          Commands,         \* <<program, arguments>>
          MAXIMUM_HISTORY

VARIABLES vars,     \* shell variables, <<name, value>> in the order of creation
          env,      \* environment variables
          kept,     \* history, the oldest first
          capacity, \* how many it keeps
          args      \* arguments of the program that ran last

all == <<vars, env, kept, capacity, args>>

LastOf(s, n) == IF Len(s) <= n THEN s ELSE SubSeq(s, Len(s) - n + 1, Len(s))

Has(x) == \E i \in DOMAIN vars : vars[i][1] = x
Place(x) == CHOOSE i \in DOMAIN vars : vars[i][1] = x
ValueOf(x) == vars[Place(x)][2]

\* An argument is a word or a variable, with a tail of other characters.  The
\* environment is searched first, at least where there is no tail.
Expanded(t) ==
  IF t.name \notin Names THEN t.name \o t.tail
  ELSE IF t.tail = Empty /\ t.name \in DOMAIN env THEN env[t.name]
  ELSE IF Has(t.name) THEN ValueOf(t.name) \o t.tail
  ELSE Empty
InEnvironment(t, a) == t.name \in DOMAIN env /\ a = env[t.name] \o t.tail
Substitutes(a, c) ==
  /\ DOMAIN a = DOMAIN c[2]
  /\ \A i \in DOMAIN a : a[i] = Expanded(c[2][i]) \/ InEnvironment(c[2][i], a[i])

Init == vars = <<>> /\ env = [x \in {} |-> Empty] /\ kept = <<>>
        /\ capacity \in 1..MAXIMUM_HISTORY /\ args = <<>>

\* A program runs, or cannot be started, and is recorded either way; one that
\* is the last in the history already need not be.
Run(c) ==
  /\ \/ kept' = LastOf(Append(kept, c), capacity)
     \/ kept # <<>> /\ Last(kept) = c /\ kept' = kept
  /\ Substitutes(args', c)
  /\ UNCHANGED <<vars, env, capacity>>

\* The n-th last command runs again, with the variables as they are now, and
\* is not recorded.
RunAgain(n) ==
  /\ Substitutes(args', kept[Len(kept) + 1 - n])
  /\ UNCHANGED <<vars, env, kept, capacity>>

\* What no longer fits is dropped.  (The number itself is not always taken over:
\* memory may be short.)
Resize(n) ==
  /\ kept' = LastOf(kept, n) /\ capacity' \in {n, capacity}
  /\ UNCHANGED <<vars, env, args>>

\* An update keeps the place, a new variable is last, an empty value clears.
Local(x, v) ==
  /\ vars' = IF Has(x)
               THEN IF v = Empty THEN RemoveAt(vars, Place(x))
                    ELSE [vars EXCEPT ![Place(x)] = <<x, v>>]
             ELSE IF v = Empty THEN vars ELSE Append(vars, <<x, v>>)
  /\ UNCHANGED <<env, kept, capacity, args>>

Export(x, v) ==
  /\ env' = [y \in DOMAIN env \cup {x} |-> IF y = x THEN v ELSE env[y]]
  /\ UNCHANGED <<vars, kept, capacity, args>>

\* The session ends.
Quit ==
  /\ vars' = <<>> /\ kept' = <<>>
  /\ UNCHANGED <<env, capacity, args>>

\* Any other line.
Other == UNCHANGED all

Next ==
  \/ Other \/ Quit
  \/ \E c \in Commands : Run(c)
  \/ \E n \in DOMAIN kept : RunAgain(n)
  \/ \E n \in 1..MAXIMUM_HISTORY : Resize(n)
  \/ \E x \in Names, v \in Values \cup {Empty} : Local(x, v)
  \/ \E x \in Names, v \in Values : Export(x, v)

Spec == Init /\ [][Next]_all
=============================================================================
