-------------------------------- MODULE MCWsh ---------------------------------
EXTENDS Wsh
Arg(name, tail) == [name |-> name, tail |-> tail]
\* Programs with a variable for their argument, which a tail may follow.
MCCommands == {<<"p", <<Arg("x", "")>>>>, <<"q", <<Arg("x", ",")>>>>}
MCRedirections == {<<>>, <<">", -1>>}
\* What a line can depend on: addresses, pointers past the count and what ran
\* last do not matter to any.
Contents == <<[i \in 1..history_count |-> Line(history[i - 1])], Variables,
              history_capacity, room, env, fd, overrun, ended,
              Cardinality({s \in Strings : string[s] # Nothing}),
              Cardinality(FreeNodes)>>
\* After a store past the end it is enough to go on with one variable, and until
\* one thing is damaged.
FewDamaged ==
  overrun =>
    /\ Len(Variables) <= 1 /\ env = [x \in {} |-> Empty]
    /\ Cardinality({i \in 0..history_count - 1 : history[i] = Wild})
       + Cardinality({s \in Strings : string[s] = JunkLine})
       + Cardinality({n \in Nodes : node[n].value = Junk}) <= 1
=============================================================================
