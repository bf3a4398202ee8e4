---------------------------- MODULE MCSPUManager ----------------------------
(* Local stores of four words, two of them in the fallback.                 *)
EXTENDS SPUManager, Sequences

\* 0 is no instruction, 1 names a register, 2 is ahi; 3 branches to itself, 4
\* links and skips a word, 5 goes further than any store.
MCDecode == [word \in 0 .. 5 |->
    [op     |-> <<"unknown", "il", "ahi", "br", "brsl", "br">>[word + 1],
     target |-> <<0, 0, 0, 0, 2, 7>>[word + 1]]]

Program(pc, words) == [pc |-> pc, words |-> [k \in 0 .. (Len(words) - 1) |-> words[k + 1]]]

MCPrograms == {Program(0, <<2, 4, 1, 5>>),   \* skips a crash, leaves the store
               Program(2, <<0, 0, 2, 3>>),   \* ends up in a loop
               Program(1, <<0, 4, 0, 1>>)}   \* crashes

MCStorePrograms == {Program(0, <<2, 4, 1, 5>>)}
=============================================================================
