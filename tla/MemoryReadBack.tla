--------------------------- MODULE MemoryReadBack ---------------------------
(***************************************************************************)
(* The memory test of tests/smoke.cpp, with reads of other addresses in    *)
(* between: bytes are written to main RAM and read back.  No segment is    *)
(* mapped and no region unmapped; every read is one the interpreter can    *)
(* make.                                                                   *)
(***************************************************************************)
EXTENDS MemoryManager

VARIABLE written   \* history: the last byte written at each RAM address

MainRam == MainBase .. (MainBase + MainSize - 1)

ReadBackInit == Init /\ written = [a \in {} |-> 0]

ReadBackNext ==
    \/ InitMemory /\ UNCHANGED written
    \/ \E a \in Addr : Read(a, 1) /\ UNCHANGED written
    \/ \E a \in MainRam, v \in Byte :
          /\ Write(a, 1, [i \in 0 .. 0 |-> v])
          /\ written' = IF Permits(regions, a, 1, "W")
                        THEN [b \in DOMAIN written \cup {a} |->
                                 IF b = a THEN v ELSE written[b]]
                        ELSE written

ReadBackSpec == ReadBackInit /\ [][ReadBackNext]_<<vars, written>>

\* smoke.cpp:39 "readValue == testValue": main RAM reads back as it was last
\* written (as long as every access stayed inside its backing vector).
RamReadsBack ==
    ~wild => \A a \in DOMAIN written : CellAt(regions, a).byte = written[a]
=============================================================================
