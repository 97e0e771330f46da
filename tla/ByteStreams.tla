------------------------------ MODULE ByteStreams -----------------------------
(***************************************************************************)
(* What pipes promise: each pipe is a bounded queue of bytes.  Bytes leave *)
(* in the order they came, none twice and none lost while somebody can     *)
(* read it, and a reader is told that the stream has ended only once it is *)
(* empty and nobody can write to it.                                       *)
(***************************************************************************)
EXTENDS Integers, Sequences

CONSTANTS Procs, Pipes, Bytes, Size, Nobody

VARIABLES queue,      \* the bytes written to a pipe and not yet read
          readers,    \* somebody can still read from it,
          writers,    \* or write to it
          got         \* what the last step brought to a reader

vars == <<queue, readers, writers, got>>

Nothing == [to |-> Nobody, bytes |-> <<>>]

Init ==
  /\ queue = [k \in Pipes |-> <<>>]
  /\ readers = [k \in Pipes |-> FALSE]
  /\ writers = [k \in Pipes |-> FALSE]
  /\ got = Nothing

Put(k) ==
  /\ writers[k]
  /\ Len(queue'[k]) \in Len(queue[k]) + 1 .. Size
  /\ \A j \in 1..Len(queue'[k]) :
        IF j <= Len(queue[k]) THEN queue'[k][j] = queue[k][j]
                              ELSE queue'[k][j] \in Bytes
  /\ queue' = [queue EXCEPT ![k] = queue'[k]]
  /\ got' = Nothing
  /\ UNCHANGED <<readers, writers>>

Get(p, k) ==
  /\ readers[k]
  /\ \E n \in 1..Len(queue[k]) :
        /\ got' = [to |-> p, bytes |-> SubSeq(queue[k], 1, n)]
        /\ queue' = [queue EXCEPT ![k] = SubSeq(@, n + 1, Len(@))]
  /\ UNCHANGED <<readers, writers>>

End(p, k) ==
  /\ readers[k] /\ ~writers[k] /\ queue[k] = <<>>
  /\ got' = [to |-> p, bytes |-> <<>>]
  /\ UNCHANGED <<queue, readers, writers>>

\* Any other step.
Other ==
  /\ got' = Nothing
  /\ UNCHANGED <<queue, readers, writers>>

\* The last descriptor of an end is closed.
Hangup(k) ==
  /\ \/ writers' = [writers EXCEPT ![k] = FALSE] /\ UNCHANGED readers
     \/ readers' = [readers EXCEPT ![k] = FALSE] /\ UNCHANGED writers
  /\ got' = Nothing
  /\ UNCHANGED queue

\* A pipe is made, with both ends open; what nobody can read any more is dropped.
Unused(k) == ~readers[k] /\ ~writers[k]
Make(k) ==
  /\ Unused(k) /\ queue[k] = <<>>
  /\ readers' = [readers EXCEPT ![k] = TRUE]
  /\ writers' = [writers EXCEPT ![k] = TRUE]
  /\ got' = Nothing
  /\ UNCHANGED queue

Drop(k) ==
  /\ Unused(k)
  /\ queue' = [queue EXCEPT ![k] = <<>>]
  /\ got' = Nothing
  /\ UNCHANGED <<readers, writers>>

Next ==
  \/ Other
  \/ \E k \in Pipes :
       \/ Put(k) \/ Hangup(k) \/ Make(k) \/ Drop(k)
       \/ \E p \in Procs : Get(p, k) \/ End(p, k)

Spec == Init /\ [][Next]_vars
=============================================================================
