------------------------------ MODULE RSXQueue ------------------------------
(***************************************************************************)
(* What RSXCommandBuffer promises: a queue of commands, read in the order  *)
(* they were written.  It is filled only once: reading frees no room, and  *)
(* a command is kept only if it fits in what is left since clear().        *)
(***************************************************************************)
EXTENDS Integers, Sequences

CONSTANTS Commands,  \* [method, data], as they can be read back
          Room       \* the number of words that may be used

VARIABLES queue,     \* commands written and not yet read
          used,      \* words written since the buffer was last cleared
          cmd        \* the command read or peeked at last

vars == <<queue, used, cmd>>

Length(c) == 1 + Len(c.data)

Init == queue = <<>> /\ used = 0 /\ cmd = [method |-> 0, data |-> <<>>]

Write(c) ==
    /\ used + Length(c) <= Room
    /\ queue' = Append(queue, c) /\ used' = used + Length(c)
    /\ UNCHANGED cmd

Read == /\ queue # <<>>
        /\ cmd' = Head(queue) /\ queue' = Tail(queue)
        /\ UNCHANGED used

Peek == queue # <<>> /\ cmd' = Head(queue) /\ UNCHANGED <<queue, used>>

Clear == queue' = <<>> /\ used' = 0 /\ UNCHANGED cmd

Next == (\E c \in Commands : Write(c)) \/ Read \/ Peek \/ Clear

Spec == Init /\ [][Next]_vars
=============================================================================
