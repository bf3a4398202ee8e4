--------------------------- MODULE MemoryRegions ---------------------------
(***************************************************************************)
(* The data structure behind MemoryManager: std::map<uint64_t,             *)
(* MemoryRegion>, and what each of its member functions does to it.  Every *)
(* operator maps a value of the map to a value, so that the modules that   *)
(* call the memory manager (MemoryManager, ElfLoader) share one account.   *)
(*                                                                         *)
(* Addresses are the naturals below AddrLimit, and sums of two of them     *)
(* wrap as uint64_t sums do.  Chunk is the 1 MB granule of lazy backing.   *)
(***************************************************************************)
EXTENDS Integers

CONSTANTS
    AddrLimit,   \* 2^64: addresses are 0 .. AddrLimit - 1
    Chunk,       \* 1 MB: size of an on-demand region and of a lazy backing
    MainBase,    \* MAIN_MEMORY_BASE
    MainSize,    \* MAIN_MEMORY_SIZE
    Byte         \* the values a byte can hold

\* Chunks do not straddle the end of the address space, and main RAM is
\* placed below the last of them.
ASSUME GeometryAssumption ==
    /\ AddrLimit \in Nat /\ Chunk \in Nat \ {0}
    /\ \A vaddr \in 0 .. (AddrLimit - 1) :
          vaddr - (vaddr % Chunk) + Chunk <= AddrLimit
    /\ MainBase \in Nat /\ MainSize \in Nat
    /\ MainBase + MainSize <= AddrLimit - Chunk
    /\ 0 \in Byte

Addr == 0 .. (AddrLimit - 1)
Prot == {"R", "W", "X"}
RW   == {"R", "W"}

Lesser(m, n) == IF m <= n THEN m ELSE n

\* uint64_t addition of two values below AddrLimit.
Wrap(sum) == IF sum >= AddrLimit THEN sum - AddrLimit ELSE sum
-----------------------------------------------------------------------------
(***************************************************************************)
(* A region.  present says whether the shared_ptr `data` is set; data is   *)
(* the vector's contents, whose length (its domain) may be smaller than    *)
(* the region's size.                                                      *)
(***************************************************************************)
Zeros(n) == [i \in 0 .. (n - 1) |-> 0]

Region(size, flags) ==
    [size |-> size, flags |-> flags, present |-> TRUE, data |-> Zeros(size)]

LazyRegion(size, flags) ==
    [size |-> size, flags |-> flags, present |-> FALSE, data |-> Zeros(0)]

\* regions_[base] = region: insertion, or assignment over an entry with that key.
Put(regs, base, region) ==
    [b \in DOMAIN regs \cup {base} |-> IF b = base THEN region ELSE regs[b]]

NoRegions == [b \in {} |-> LazyRegion(0, {})]

\* The map after init(): the metadata of main RAM and no bytes.
InitialRegions(regs) == Put(regs, MainBase, LazyRegion(MainSize, RW))
-----------------------------------------------------------------------------
(***************************************************************************)
(* getRegion: the map is walked in key order, so the covering region with  *)
(* the lowest base is the one found.                                       *)
(***************************************************************************)
Covers(regs, base, vaddr) ==
    base <= vaddr /\ vaddr < Wrap(base + regs[base].size)

Covering(regs, vaddr) == {b \in DOMAIN regs : Covers(regs, b, vaddr)}

Mapped(regs, vaddr) == Covering(regs, vaddr) # {}

\* Mutant: the walk does not stop at the first region found.
LastRegion(regs, vaddr) ==
    CHOOSE b \in Covering(regs, vaddr) :
        \A c \in Covering(regs, vaddr) : b >= c

GetRegion(regs, vaddr) ==
    CHOOSE b \in Covering(regs, vaddr) :
        \A c \in Covering(regs, vaddr) : b <= c

(***************************************************************************)
(* mapRegion: the overlap test is the code's, which looks for an end of    *)
(* the new range inside an old one.                                        *)
(***************************************************************************)
\* Mutant: only a region with the same base is taken for an overlap.
SameBaseOnly(regs, base, vaddr, size) == base = vaddr

OverlapSeen(regs, base, vaddr, size) ==
    LET end    == Wrap(base + regs[base].size)
        newEnd == Wrap(vaddr + size)
    IN  \/ vaddr >= base /\ vaddr < end
        \/ newEnd > base /\ newEnd <= end

MapAccepted(regs, vaddr, size) ==
    \A b \in DOMAIN regs : ~OverlapSeen(regs, b, vaddr, size)

MapRegion(regs, vaddr, size, flags) ==
    IF MapAccepted(regs, vaddr, size)
    THEN Put(regs, vaddr, Region(size, flags))
    ELSE regs

\* unmapRegion: only an exact base is found.
UnmapRegion(regs, vaddr) == [b \in DOMAIN regs \ {vaddr} |-> regs[b]]
-----------------------------------------------------------------------------
\* Mutant: the on-demand region starts at the address that faulted.
UnalignedBase(vaddr) == vaddr

\* vaddr & ~0xFFFFF
ChunkBase(vaddr) == vaddr - (vaddr % Chunk)

\* allocateOnDemand, for an address in no region.
AllocateOnDemand(regs, vaddr) ==
    IF Mapped(regs, vaddr) THEN regs
    ELSE Put(regs, ChunkBase(vaddr), Region(Chunk, RW))

\* "Ensure data is allocated": at most one chunk of a lazy region is backed.
Backed(region) ==
    IF region.present THEN region
    ELSE [region EXCEPT !.present = TRUE,
                        !.data = Zeros(Lesser(region.size, Chunk))]

\* The same when resize() throws: the pointer is set, the vector is empty.
BackingFailed(region) ==
    IF region.present THEN region ELSE [region EXCEPT !.present = TRUE]

Offset(regs, vaddr) == vaddr - GetRegion(regs, vaddr)

\* Mutant: the region's flags are not looked at.
InBoundsOnly(regs, vaddr, n, right) ==
    /\ Mapped(regs, vaddr)
    /\ Offset(regs, vaddr) + n <= regs[GetRegion(regs, vaddr)].size

\* The checks of read() and write() once a region is found.
Permits(regs, vaddr, n, right) ==
    /\ Mapped(regs, vaddr)
    /\ right \in regs[GetRegion(regs, vaddr)].flags
    /\ Offset(regs, vaddr) + n <= regs[GetRegion(regs, vaddr)].size

\* The n bytes at vaddr lie inside the vector that backs their region.
InsideBacking(regs, vaddr, n) ==
    \A i \in 0 .. (n - 1) :
        Offset(regs, vaddr) + i \in DOMAIN regs[GetRegion(regs, vaddr)].data

\* The map after read(vaddr, _, _), whatever it returns.
AfterRead(regs, vaddr) ==
    LET found == AllocateOnDemand(regs, vaddr)
    IN  IF Mapped(found, vaddr)
        THEN [found EXCEPT ![GetRegion(found, vaddr)] = Backed(@)]
        ELSE found

\* The map after a read or write of vaddr whose allocation fails.
AfterFailedAllocation(regs, vaddr) ==
    IF Mapped(regs, vaddr)
    THEN [regs EXCEPT ![GetRegion(regs, vaddr)] = BackingFailed(@)]
    ELSE regs

\* memcpy of n bytes into a vector; the part past its end is not in the model.
Stored(data, offset, n, bytes) ==
    [i \in DOMAIN data |->
        IF i >= offset /\ i < offset + n THEN bytes[i - offset] ELSE data[i]]

\* The map after write(vaddr, bytes, n), which returns Permits(...,"W").
AfterWrite(regs, vaddr, n, bytes) ==
    IF Permits(regs, vaddr, n, "W")
    THEN LET b    == GetRegion(regs, vaddr)
             held == Backed(regs[b])
         IN  [regs EXCEPT ![b] = [held EXCEPT
                  !.data = Stored(held.data, vaddr - b, n, bytes)]]
    ELSE regs
-----------------------------------------------------------------------------
(***************************************************************************)
(* What the guest sees at an address: the flags and the byte of the region *)
(* getRegion finds.  Undef is a byte that no vector holds.                 *)
(***************************************************************************)
CONSTANT Undef
ASSUME UndefAssumption == Undef \notin Byte

RegionByte(region, i) ==
    IF region.present
    THEN IF i \in DOMAIN region.data THEN region.data[i] ELSE Undef
    ELSE IF i < Lesser(region.size, Chunk) THEN 0 ELSE Undef

CellOf(region, i) ==
    [mapped |-> TRUE, flags |-> region.flags, byte |-> RegionByte(region, i)]

UnmappedCell == [mapped |-> FALSE, flags |-> {}, byte |-> Undef]

CellAt(regs, vaddr) ==
    IF Mapped(regs, vaddr)
    THEN CellOf(regs[GetRegion(regs, vaddr)], Offset(regs, vaddr))
    ELSE UnmappedCell

View(regs) == [vaddr \in Addr |-> CellAt(regs, vaddr)]
=============================================================================
