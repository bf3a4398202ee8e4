-------------------------- MODULE RSXCommandBuffer --------------------------
(***************************************************************************)
(* The command buffer between whoever issues RSX commands and the          *)
(* RSXProcessor: an array of 32-bit words with a write and a read position.*)
(* Headers and data share the words, and a header is told from data only   *)
(* by where it is.  Positions are counted in words, the capacity in bytes. *)
(***************************************************************************)
EXTENDS Integers, Sequences

CONSTANTS
    Capacity,    \* capacity_, in bytes
    MethodBase,  \* 2^16: the methods a header can hold
    CountBase,   \* 2^16: the counts a header can hold
    Methods,     \* method numbers passed to writeCommand (uint32_t)
    Words,       \* the data words
    DataLengths  \* bound: how many of them a command carries

\* The count of a command that fits the buffer fits the header.
ASSUME BufferAssumption ==
    /\ Capacity \in Nat /\ MethodBase \in Nat \ {0} /\ CountBase \in Nat \ {0}
    /\ Capacity <= 4 * CountBase
    /\ Methods \subseteq Nat /\ DataLengths \subseteq Nat
    /\ Words \subseteq 0 .. (MethodBase * CountBase - 1)

Data == UNION {[1 .. n -> Words] : n \in DataLengths}

\* allocated: buffer_ is not empty.  pos, next: currentPos_ and readPos_.
NewBuffer ==
    [allocated |-> FALSE, words |-> [i \in 0 .. (Capacity \div 4 - 1) |-> 0],
     pos |-> 0, next |-> 0]

\* ensureBufferAllocated, when there is a capacity and the memory for it.
Allocated(b)   == [b EXCEPT !.allocated = TRUE]
CanAllocate(b) == b.allocated \/ Capacity > 0

\* (method << 16) | count, as a uint32_t
Header(method, count) == (method % MethodBase) * CountBase + count

\* Mutant: the overflow test looks at the header only.
HeaderFits(b, n) == 4 * (b.pos + 1) < Capacity

Fits(b, n) == 4 * (b.pos + 1 + n) < Capacity

\* writeCommand: a command that does not fit is dropped.
Written(b, method, data) ==
    IF Fits(b, Len(data))
    THEN [Allocated(b) EXCEPT
            !.words = [i \in DOMAIN @ |->
                         IF i = b.pos THEN Header(method, Len(data))
                         ELSE IF i - b.pos \in DOMAIN data THEN data[i - b.pos]
                         ELSE @[i]],
            !.pos = @ + 1 + Len(data)]
    ELSE Allocated(b)

\* readCommand: whether there is a command, what it is, the buffer after it.
HasCommand(b) == b.next < b.pos
CountAt(b, p) == b.words[p] % CountBase
CommandAt(b, p) ==
    [method |-> b.words[p] \div CountBase,
     data   |-> [i \in 1 .. CountAt(b, p) |-> b.words[p + i]]]

\* Mutant: the data words are left for the next read.
AfterHeader(b) == [b EXCEPT !.next = @ + 1]

AfterRead(b) == [b EXCEPT !.next = @ + 1 + CountAt(b, b.next)]

\* peekCommand: a word past the write position is left zero.
Peeked(b) ==
    [CommandAt(b, b.next) EXCEPT !.data =
        [i \in DOMAIN @ |-> IF b.next + i < b.pos THEN @[i] ELSE 0]]

\* clear keeps the words.
Cleared(b) == [b EXCEPT !.pos = 0, !.next = 0]

\* The commands that readCommand would return one after another.
Pending(b) ==
    LET from[p \in 0 .. b.pos] ==
            IF p >= b.pos THEN <<>>
            ELSE LET after == p + 1 + CountAt(b, p)
                 IN  <<CommandAt(b, p)>> \o
                       (IF after <= b.pos THEN from[after] ELSE <<>>)
    IN  from[b.next]
-----------------------------------------------------------------------------
(***************************************************************************)
(* One buffer, its writers and its readers.                                *)
(***************************************************************************)
VARIABLES buffer, cmd
vars == <<buffer, cmd>>

Init == buffer = NewBuffer /\ cmd = [method |-> 0, data |-> <<>>]

WriteCommand(method, data) ==
    /\ CanAllocate(buffer)
    /\ buffer' = Written(buffer, method, data)
    /\ UNCHANGED cmd

ReadCommand ==
    /\ HasCommand(buffer)
    /\ buffer' = AfterRead(buffer)
    /\ cmd' = CommandAt(buffer, buffer.next)

\* readCommand on an empty buffer allocates it all the same.
ReadNothing ==
    /\ CanAllocate(buffer) /\ ~HasCommand(buffer)
    /\ buffer' = Allocated(buffer)
    /\ UNCHANGED cmd

PeekCommand ==
    /\ HasCommand(buffer)
    /\ cmd' = Peeked(buffer)
    /\ UNCHANGED buffer

Clear == buffer' = Cleared(buffer) /\ UNCHANGED cmd

-----------------------------------------------------------------------------
(***************************************************************************)
(* Properties.                                                             *)
(***************************************************************************)
Word == 0 .. (MethodBase * CountBase - 1)
Room == IF Capacity = 0 THEN 0 ELSE (Capacity - 1) \div 4

\* The positions stay inside the array, in order, whatever is written and read:
\* no word outside buffer_ is touched (RSXCommands.cpp:31).
BufferTypeOK ==
    /\ buffer.allocated \in BOOLEAN
    /\ buffer.words \in [0 .. (Capacity \div 4 - 1) -> Word]
    /\ buffer.pos \in 0 .. Room
    /\ buffer.next \in 0 .. buffer.pos
    /\ buffer.pos > 0 => buffer.allocated

\* A command as its header can hold it.
Stored(method, data) == [method |-> method % MethodBase, data |-> data]

Queue == INSTANCE RSXQueue WITH
    queue    <- Pending(buffer),
    used     <- buffer.pos,
    Commands <- {Stored(method, data) : method \in Methods, data \in Data}

\* The words are read back as the commands that were written, once each and in
\* order, through overflows, peeks and clears that leave old words behind.
ImplementsQueue == Queue!Spec
=============================================================================
