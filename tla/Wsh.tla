--------------------------------- MODULE Wsh ----------------------------------
(***************************************************************************)
(* The shell wsh (p3/solution/wsh.c): one action per line of input.  The   *)
(* history is an array of pointers to strings on the heap, the variables   *)
(* are a linked list; both are modelled with the memory they own, which    *)
(* the lines that replace, drop or remove something must get right.  A     *)
(* history lowered and raised again is stored past the end of its array:   *)
(* from then on (overrun) the heap may be damaged at any time.  Lines are  *)
(* well formed as README.md of p3 promises: single spaces, at most one     *)
(* redirection, assignments NAME=value.                                    *)
(***************************************************************************)
EXTENDS Integers, Sequences, FiniteSets

CONSTANTS Names, Values,
          Exported,             \* names that "export" is tried with
          Commands,             \* <<program, arguments>>
          Sizes,                \* arguments of "history set"
          Redirections,         \* <<operator, digit before it or -1>>; <<>> for none
          MAXIMUM_HISTORY, DEFAULT_HISTORY_SIZE

Strings == 1..MAXIMUM_HISTORY + 1       \* enough: only the history's are counted
Nodes == 1..Cardinality(Names)
NULL == 0
Wild == -1              \* a pointer that something else was written over
Empty == ""
Junk == "?"             \* what is read where something was freed or written over
JunkLine == <<Junk, <<>>>>

ASSUME WshAssumption ==
  /\ Empty \notin Names \cup Values /\ IsFiniteSet(Names)
  /\ \A c \in Commands : c[1] # Empty
  /\ Exported \subseteq Names /\ Sizes \subseteq Nat
  /\ DEFAULT_HISTORY_SIZE \in 1..MAXIMUM_HISTORY /\ MAXIMUM_HISTORY \in Nat
  /\ Redirections \subseteq {<<>>} \cup ({"<", ">", ">>", "&>", "&>>"} \X (-1..2))

VARIABLES
  history, history_count, history_capacity,
  room,             \* pointers that fit in what malloc() or realloc() gave history
  string,           \* strings of the history on the heap; NULL where freed
  shell_vars,       \* first node of the list
  node,             \* nodes on the heap: name, value, next
  env,              \* environ
  fd,               \* what descriptors 0, 1 and 2 are
  last_exit_status,
  ran,              \* program and arguments run last
  overrun,          \* something was stored past the end of history
  ended             \* the shell has exited

vars == <<history, history_count, history_capacity, room, string, shell_vars,
          node, env, fd, last_exit_status, ran, overrun, ended>>
historyVars == <<history, history_count, history_capacity, room, string>>
variableVars == <<shell_vars, node, env>>

FreeNode == [name |-> Empty, value |-> Empty, next |-> NULL]
Nothing == <<Empty, <<>>>>

\* Beyond PATH the environment is cleared; none of the names tried is in it.
Init ==
  /\ history = [i \in 0..MAXIMUM_HISTORY - 1 |-> NULL]
  /\ history_count = 0 /\ history_capacity = DEFAULT_HISTORY_SIZE
  /\ room = MAXIMUM_HISTORY
  /\ string = [s \in Strings |-> Nothing]
  /\ shell_vars = NULL
  /\ node = [n \in Nodes |-> FreeNode]
  /\ env = [x \in {} |-> Empty]
  /\ fd = [d \in 0..2 |-> "tty"]
  /\ last_exit_status = 0
  /\ ran = Nothing
  /\ overrun = FALSE
  /\ ended = FALSE
-----------------------------------------------------------------------------
\* The list: its i-th node, NULL past the end.
NodeAt[i \in Nodes] ==
  IF i = 1 THEN shell_vars
  ELSE IF NodeAt[i - 1] = NULL THEN NULL ELSE node[NodeAt[i - 1]].next
List == LET nodeAt == NodeAt
        IN  [i \in 1..Cardinality({j \in Nodes : nodeAt[j] # NULL}) |-> nodeAt[i]]
Find(x) == {i \in DOMAIN List : node[List[i]].name = x}

\* replace_vars_in_token(): getenv() is asked for all that follows the '$', the
\* list for the letters only.
replace_vars_in_token(t) ==
  IF t.name \notin Names THEN t.name \o t.tail
  ELSE IF t.tail = Empty /\ t.name \in DOMAIN env THEN env[t.name]
  ELSE IF Find(t.name) # {}
    THEN node[List[CHOOSE i \in Find(t.name) : TRUE]].value \o t.tail
  ELSE Empty
\* split_input_to_token() leaves the first token as it is.
split_input_to_token(c) ==
  <<c[1], [i \in DOMAIN c[2] |-> replace_vars_in_token(c[2][i])]>>

\* parse_and_execute(): strstr() finds ">>" and ">" in "&>>" and "&>" too, whose
\* "&" stays with the command; a digit before the operator says which descriptor
\* of output.  Nothing undoes it: the shell and all later commands have it.
Redirected(r) ==
  IF r = <<>> THEN fd
  ELSE IF r[1] = "<" THEN [fd EXCEPT ![0] = "file"]
  ELSE [fd EXCEPT ![IF r[2] = -1 THEN 1 ELSE r[2]] = "file"]
WithAmpersand(c, r) ==
  IF r # <<>> /\ r[1] \in {"&>", "&>>"}
    THEN <<c[1], Append(c[2], [name |-> "&", tail |-> Empty])>> ELSE c

\* The file cannot be opened: the shell itself exits.
RedirectionFails ==
  /\ ~ended /\ \E r \in Redirections : r # <<>>
  /\ last_exit_status' = -1 /\ ended' = TRUE
  /\ UNCHANGED <<historyVars, variableVars, fd, ran, overrun>>
-----------------------------------------------------------------------------
\* A line that is no built-in command is recorded,
NewString == CHOOSE s \in Strings : string[s] = Nothing /\
               \A t \in Strings : string[t] = Nothing => s <= t
\* (Mutant: the oldest is not freed.)
Freed(S) == [s \in Strings |-> IF s \in S THEN Nothing ELSE string[s]]
KeepOldest == string
FreeOldest == Freed({history[0]})
\* The n entries from k on move to the front.  (Mutant: one too few.)
MovedButOne(k, n) ==
  [i \in DOMAIN history |-> IF i < n - 1 THEN history[i + k] ELSE history[i]]
Moved(k, n) ==
  [i \in DOMAIN history |-> IF i < n THEN history[i + k] ELSE history[i]]

\* Whether there is room for it is not asked: a history lowered below its count
\* has been given back all but that, and raising it again gives nothing.
Record(c) ==
  \/ /\ history_count < history_capacity
     /\ history' = [history EXCEPT ![history_count] = NewString]
     /\ string' = [string EXCEPT ![NewString] = c]
     /\ history_count' = history_count + 1
     /\ overrun' = (overrun \/ history_count >= room)
  \/ /\ history_count >= history_capacity
     /\ LET s == CHOOSE x \in Strings : FreeOldest[x] = Nothing
        IN  /\ history' = [Moved(1, history_capacity - 1) EXCEPT
                             ![history_capacity - 1] = s]
            /\ string' = [FreeOldest EXCEPT ![s] = c]
     /\ overrun' = (overrun \/ history_capacity > room)
     /\ UNCHANGED history_count

\* exec_fork(): the program is not found, or fails, or succeeds; when fork()
\* fails the shell exits.
exec_fork(tokens) ==
  \/ ran' = tokens /\ last_exit_status' \in {0, -1} /\ UNCHANGED ended
  \/ UNCHANGED ran /\ last_exit_status' = -1 /\ ended' = TRUE

RunProgram(c, r) ==
  LET line == WithAmpersand(c, r)
  IN  /\ ~ended
      /\ Record(line)
      /\ exec_fork(split_input_to_token(line))
      /\ fd' = Redirected(r)
      /\ UNCHANGED <<history_capacity, room, variableVars>>

\* What was stored past the end lies in memory that is not the history's: the
\* allocator gives it to somebody, whose bytes replace the entry, or it already
\* was somebody's (a string, a variable, the allocator's own), whose bytes the
\* entry has replaced.  It may show at any time, or end the shell.
Damage ==
  /\ overrun /\ ~ended
  /\ \/ /\ \E i \in room..history_count - 1 :
             history' = [history EXCEPT ![i] = Wild] /\ string' = Freed({history[i]})
        /\ UNCHANGED <<node, ended>>
     \/ /\ \E s \in Strings : string[s] # Nothing /\ string' = [string EXCEPT ![s] = JunkLine]
        /\ UNCHANGED <<history, node, ended>>
     \/ /\ \E i \in DOMAIN List : node' = [node EXCEPT ![List[i]].value = Junk]
        /\ UNCHANGED <<history, string, ended>>
     \/ ended' = TRUE /\ UNCHANGED <<history, string, node>>
  /\ UNCHANGED <<history_count, history_capacity, room, shell_vars, env, fd,
                 last_exit_status, ran, overrun>>
-----------------------------------------------------------------------------
Builtin(r) == ~ended /\ fd' = Redirected(r) /\ UNCHANGED <<overrun, ended>>

\* history <n>.  The command line is freed before its first token is used: what
\* is run may be anything.
Line(p) == IF p \in Strings THEN string[p] ELSE JunkLine
HistoryRun(n) ==
  LET tokens == split_input_to_token(Line(history[history_count - n]))
  IN  /\ ~ended /\ n \in 1..history_count
      /\ \/ exec_fork(tokens)
         \/ exec_fork(<<Junk, tokens[2]>>)
      /\ UNCHANGED <<historyVars, variableVars, fd, overrun>>

\* history set <n>: 0 and more than MAXIMUM_HISTORY are refused.  When realloc()
\* fails the entries have been dropped, but the capacity is what it was.
Dropped(n) == {history[i] : i \in 0..history_count - n - 1}
HistorySet(n) ==
  /\ Builtin(<<>>)
  /\ \/ /\ n = 0 \/ n > MAXIMUM_HISTORY
        /\ last_exit_status' = -1
        /\ UNCHANGED historyVars
     \/ /\ n \in history_count..MAXIMUM_HISTORY /\ n # 0
        /\ history_capacity' = n
        /\ UNCHANGED <<history, history_count, room, string, last_exit_status>>
     \/ /\ n \in 1..history_count - 1
        /\ string' = Freed(Dropped(n))
        /\ history' = Moved(history_count - n, n)
        /\ history_count' = n
        /\ \/ room' = n /\ history_capacity' = n
           \/ UNCHANGED <<room, history_capacity>>
        /\ UNCHANGED last_exit_status
  /\ UNCHANGED <<variableVars, ran>>

\* history, vars, ls, and cd: nothing changes but the status.
HistoryShow ==
  /\ Builtin(<<>>)
  /\ last_exit_status' = IF history_count = 0 THEN last_exit_status ELSE 0
  /\ UNCHANGED <<historyVars, variableVars, ran>>
OtherBuiltin ==
  /\ \E r \in Redirections : Builtin(r)
  /\ last_exit_status' \in {0, -1}
  /\ UNCHANGED <<historyVars, variableVars, ran>>

\* local: set_shell_var() updates, removes or appends.
FreeNodes == {n \in Nodes : node[n] = FreeNode}
NewNode == CHOOSE n \in FreeNodes : \A m \in FreeNodes : n <= m
\* The list without its i-th node.
Unlink(i) ==
  IF i = 1 THEN <<node[List[1]].next, [node EXCEPT ![List[1]] = FreeNode]>>
  ELSE <<shell_vars, [node EXCEPT ![List[i - 1]].next = node[List[i]].next,
                                  ![List[i]] = FreeNode]>>
set_shell_var(x, v) ==
  \/ /\ Find(x) # {} /\ v = Empty
     /\ \E i \in Find(x) : shell_vars' = Unlink(i)[1] /\ node' = Unlink(i)[2]
  \/ /\ Find(x) # {} /\ v # Empty
     /\ \E i \in Find(x) : node' = [node EXCEPT ![List[i]].value = v]
     /\ UNCHANGED shell_vars
  \/ /\ Find(x) = {} /\ v = Empty
     /\ UNCHANGED <<shell_vars, node>>
  \/ /\ Find(x) = {} /\ v # Empty
     /\ LET new == [name |-> x, value |-> v, next |-> NULL]
        IN  IF shell_vars = NULL
              THEN shell_vars' = NewNode /\ node' = [node EXCEPT ![NewNode] = new]
              ELSE /\ node' = [node EXCEPT ![NewNode] = new,
                                           ![List[Len(List)]].next = NewNode]
                   /\ UNCHANGED shell_vars
built_in_local(x, v) ==
  /\ Builtin(<<>>)
  /\ set_shell_var(x, v)
  /\ last_exit_status' = 0
  /\ UNCHANGED <<historyVars, env, ran>>

\* export: an empty value changes nothing.
built_in_export(x, v) ==
  /\ Builtin(<<>>)
  /\ \/ /\ v # Empty
        /\ env' = [y \in DOMAIN env \cup {x} |-> IF y = x THEN v ELSE env[y]]
        /\ last_exit_status' = 0
     \/ /\ v = Empty
        /\ UNCHANGED <<env, last_exit_status>>
  /\ UNCHANGED <<historyVars, shell_vars, node, ran>>

\* exit without arguments frees all there is; the end of the input does not.
built_in_exit ==
  /\ ~ended /\ ended' = TRUE
  /\ string' = Freed({history[i] : i \in 0..history_count - 1})
  /\ node' = [n \in Nodes |->
       IF n \in {List[i] : i \in DOMAIN List} THEN FreeNode ELSE node[n]]
  /\ room' = 0
  /\ UNCHANGED <<history, history_count, history_capacity, shell_vars, env, fd,
                 last_exit_status, ran, overrun>>
EndOfInput ==
  /\ ~ended /\ ended' = TRUE
  /\ UNCHANGED <<historyVars, variableVars, fd, last_exit_status, ran, overrun>>
-----------------------------------------------------------------------------
Next ==
  \/ \E c \in Commands, r \in Redirections : RunProgram(c, r)
  \/ Damage \/ RedirectionFails
  \/ \E n \in 1..MAXIMUM_HISTORY : HistoryRun(n)
  \/ \E n \in Sizes : HistorySet(n)
  \/ HistoryShow \/ OtherBuiltin
  \/ \E x \in Names, v \in Values \cup {Empty} : built_in_local(x, v)
  \/ \E x \in Exported, v \in Values \cup {Empty} : built_in_export(x, v)
  \/ built_in_exit \/ EndOfInput

Spec == Init /\ [][Next]_vars
-----------------------------------------------------------------------------
Entries == {history[i] : i \in 0..history_count - 1}

\* As long as nothing was stored past the end of the history, the strings on the
\* heap are the history's, each in one place, and the nodes are the list's, one
\* for a name: nothing is lost, freed twice, or reached after it was freed, and
\* "exit" leaves nothing.
MemoryOwned ==
  ~overrun =>
    /\ ~ended => /\ Entries = {s \in Strings : string[s] # Nothing}
                 /\ Cardinality(Entries) = history_count
                 /\ history_count <= history_capacity /\ history_count <= room
                 /\ Nodes \ FreeNodes = {List[i] : i \in DOMAIN List}
                 /\ Len(List) = Cardinality({node[n].name : n \in Nodes \ FreeNodes})
    /\ room = 0 => string = [s \in Strings |-> Nothing] /\ FreeNodes = Nodes

Kept ==
  IF ended \/ overrun THEN <<>> ELSE [i \in 1..history_count |-> string[history[i - 1]]]
Variables ==
  IF ended THEN <<>>
  ELSE LET list == List IN [i \in DOMAIN list |-> <<node[list[i]].name, node[list[i]].value>>]

\* As long as nothing was stored past the end of the history, wsh keeps what
\* Shell says: the history is the last commands, to whatever number it is set,
\* variables keep their order, and what runs, from a new line or from the
\* history, has their values as they are then.
Sh == INSTANCE Shell WITH
  Commands <- {WithAmpersand(c, r) : c \in Commands, r \in Redirections},
  vars <- Variables, kept <- Kept, capacity <- history_capacity, args <- ran[2]
ShellSpec == Sh!Init /\ [][overrun' \/ Sh!Next]_Sh!all

\* "The length of the history should be configurable, using history set <n>"
\* (README.md of p3): whatever it is set to, it fits in its array.  Violated:
\* lowered and raised again, it does not, and the next command overruns it.
HistoryFits == ~ended => history_count <= room
=============================================================================
