----------------------------- MODULE FlatMemory -----------------------------
(***************************************************************************)
(* What the memory manager promises, without regions: an array of cells,   *)
(* and for each operation the addresses it may touch and what it may leave *)
(* there.  MemoryManager implements it (MemoryManager!Flat).               *)
(*                                                                         *)
(* wild records that an access has left the bytes that back its region.    *)
(* From then on the C++ program has no defined behaviour and the promise   *)
(* is void.                                                                *)
(***************************************************************************)
EXTENDS Integers

CONSTANTS AddrLimit, Chunk, MainBase, MainSize, Byte, Undef,
          Segments,     \* what mapRegion is asked to map
          AccessSizes   \* the byte counts of the typed accessors

VARIABLES cell,   \* address -> [mapped, flags, byte]
          wild,
          unmaps  \* whether an odd number of regions has been unmapped

vars == <<cell, wild, unmaps>>

Addr     == 0 .. (AddrLimit - 1)
Cell     == [mapped : BOOLEAN, flags : SUBSET {"R", "W", "X"},
             byte : Byte \cup {Undef}]
Unmapped == [mapped |-> FALSE, flags |-> {}, byte |-> Undef]
Blank(flags) == [mapped |-> TRUE, flags |-> flags, byte |-> 0]
WithByte(c, byte) == [mapped |-> c.mapped, flags |-> c.flags, byte |-> byte]

\* The aligned chunk that holds an address.
ChunkOf(vaddr) == <<vaddr - (vaddr % Chunk), Chunk>>
LastChunk      == AddrLimit - Chunk

\* The address ranges a region can have: main RAM, a segment, or a chunk.
Extents ==
    {<<MainBase, MainSize>>}
    \cup {<<s.vaddr, s.size>> : s \in Segments}
    \cup {ChunkOf(b) : b \in Addr}

InExtent(e, b) == e[1] <= b /\ b < e[1] + e[2]
-----------------------------------------------------------------------------
Init == cell = [b \in Addr |-> Unmapped] /\ wild = FALSE /\ unmaps = FALSE

\* Main RAM appears; at most one chunk of it is backed by bytes.
PowerOn ==
    /\ cell = [b \in Addr |-> Unmapped]
    /\ cell' = [b \in Addr |->
           IF InExtent(<<MainBase, MainSize>>, b)
           THEN WithByte(Blank({"R", "W"}),
                         IF b < MainBase + Chunk THEN 0 ELSE Undef)
           ELSE Unmapped]

PowerOff == cell' = [b \in Addr |-> Unmapped]

\* A read changes nothing unless vaddr is unmapped; then cells of its own
\* chunk, and no other, may become blank, and vaddr does.
Load(vaddr) ==
    /\ ~cell[vaddr].mapped
    /\ \A b \in Addr :
          \/ cell'[b] = cell[b]
          \/ InExtent(ChunkOf(vaddr), b) /\ cell'[b] = Blank({"R", "W"})
    /\ vaddr < LastChunk => cell'[vaddr] = Blank({"R", "W"})
    /\ cell' \in [Addr -> Cell]

\* Out of host memory: bytes never set to anything may become undefined.
LoseBacking ==
    /\ \A b \in Addr :
          \/ cell'[b] = cell[b]
          \/ /\ cell[b].mapped /\ cell[b].byte = 0
             /\ cell'[b] = WithByte(cell[b], Undef)
    /\ cell' \in [Addr -> Cell]

Writable(vaddr, n) ==
    \A i \in 0 .. (n - 1) :
        /\ vaddr + i \in Addr
        /\ cell[vaddr + i].mapped
        /\ "W" \in cell[vaddr + i].flags

\* A write, of writable cells only, sets its own bytes and nothing else.
Store(vaddr, n, bytes) ==
    cell' = [b \in Addr |->
                IF b >= vaddr /\ b < vaddr + n
                THEN WithByte(cell[b], bytes[b - vaddr])
                ELSE cell[b]]

\* Mapping a segment blanks every unmapped cell of its range, may blank a
\* mapped one, and touches nothing outside it.
Map(s) ==
    /\ \A b \in Addr :
          LET inside == InExtent(<<s.vaddr, s.size>>, b) IN
          /\ ~inside => cell'[b] = cell[b]
          /\ inside => \/ cell'[b] = Blank(s.flags)
                       \/ cell[b].mapped /\ cell'[b] = cell[b]
    /\ cell' \in [Addr -> Cell]

\* Unmapping a region touches nothing outside the region's range.  What it leaves
\* inside is the contents of any region below.
Unmap(e) ==
    /\ unmaps' = ~unmaps
    /\ \A b \in Addr : ~InExtent(e, b) => cell'[b] = cell[b]
    /\ cell' \in [Addr -> Cell]

\* A refused or repeated operation leaves no trace.
NoEffect == UNCHANGED vars

Undefined == wild' = TRUE /\ cell' \in [Addr -> Cell] /\ UNCHANGED unmaps

Operation ==
    \/ PowerOn
    \/ PowerOff
    \/ LoseBacking
    \/ \E vaddr \in Addr : Load(vaddr)
    \/ \E vaddr \in Addr, n \in AccessSizes :
          /\ Writable(vaddr, n)
          /\ \E bytes \in [0 .. (n - 1) -> Byte] : Store(vaddr, n, bytes)
    \/ \E s \in Segments : Map(s)

Next ==
    \/ NoEffect
    \/ Operation /\ UNCHANGED <<wild, unmaps>>
    \/ \E e \in Extents : Unmap(e) /\ UNCHANGED wild
    \/ Undefined

Spec == Init /\ [][Next]_vars
=============================================================================
