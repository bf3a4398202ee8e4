--------------------------- MODULE MemoryManager ---------------------------
(***************************************************************************)
(* The guest address space as a state machine: one action per member       *)
(* function of MemoryManager that changes state, called in any order by    *)
(* the loader, the interpreters and the system calls (the class has no     *)
(* lock and its callers run one call to the end before the next).          *)
(*                                                                         *)
(* An access that passes the checks can still fall outside the vector that *)
(* backs its region (main RAM is 256 MB, its vector at most 1 MB).  That   *)
(* is undefined behaviour: wild is set, and such a write may change one    *)
(* byte of any other vector.                                               *)
(***************************************************************************)
EXTENDS MemoryRegions

CONSTANTS Segments,     \* [vaddr, size, flags]: what the loader asks to map
          AccessSizes   \* byte counts of read8..read64, write8..write64

\* Segments lie below the last chunk (PS3 images are linked below 4 GB).
ASSUME SegmentAssumption ==
    \A s \in Segments :
        /\ s.vaddr \in Nat /\ s.size \in Nat /\ s.flags \in SUBSET Prot
        /\ s.vaddr + s.size <= AddrLimit - Chunk

ASSUME AccessAssumption == AccessSizes \subseteq Nat \ {0}

VARIABLES regions,       \* regions_
          initialized,   \* initialized_
          wild,          \* an access has left its backing vector
          unmaps         \* history: an odd number of regions was unmapped

vars == <<regions, initialized, wild, unmaps>>

Init ==
    /\ regions = NoRegions /\ initialized = FALSE
    /\ wild = FALSE /\ unmaps = FALSE
-----------------------------------------------------------------------------
\* init() on a manager that is not initialised; otherwise it returns at once.
InitMemory ==
    /\ ~initialized
    /\ regions' = InitialRegions(regions)
    /\ initialized' = TRUE
    /\ UNCHANGED <<wild, unmaps>>

Shutdown ==
    /\ initialized
    /\ regions' = NoRegions
    /\ initialized' = FALSE
    /\ UNCHANGED <<wild, unmaps>>

\* Every caller reaches the manager through an Emulator whose init() has
\* already initialised it.
MapSegment(s) ==
    /\ initialized
    /\ regions' = MapRegion(regions, s.vaddr, s.size, s.flags)
    /\ UNCHANGED <<initialized, wild, unmaps>>

Unmap(vaddr) ==
    /\ initialized
    /\ regions' = UnmapRegion(regions, vaddr)
    /\ unmaps' = (unmaps # (vaddr \in DOMAIN regions))
    /\ UNCHANGED <<initialized, wild>>

Read(vaddr, n) ==
    /\ initialized
    /\ regions' = AfterRead(regions, vaddr)
    /\ wild' = (wild \/ (Permits(regions', vaddr, n, "R")
                           /\ ~InsideBacking(regions', vaddr, n)))
    /\ UNCHANGED <<initialized, unmaps>>

\* One byte of some vector takes another value, or the stray bytes hit
\* memory that is not the guest's.
Corrupted(regs) ==
    {regs} \cup UNION {{[regs EXCEPT ![b].data[i] = v] :
                            i \in DOMAIN regs[b].data, v \in Byte} :
                       b \in DOMAIN regs}

Write(vaddr, n, bytes) ==
    LET after == AfterWrite(regions, vaddr, n, bytes)
        stray == Permits(after, vaddr, n, "W") /\ ~InsideBacking(after, vaddr, n)
    IN  /\ initialized
        /\ regions' \in IF stray THEN Corrupted(after) ELSE {after}
        /\ wild' = (wild \/ stray)
        /\ UNCHANGED <<initialized, unmaps>>

\* read() or write() when the host is out of memory: it returns false.
AllocationFails(vaddr) ==
    /\ initialized
    /\ regions' = AfterFailedAllocation(regions, vaddr)
    /\ UNCHANGED <<initialized, wild, unmaps>>

Next ==
    \/ InitMemory
    \/ Shutdown
    \/ \E s \in Segments : MapSegment(s)
    \/ \E vaddr \in Addr : Unmap(vaddr)
    \/ \E vaddr \in Addr, n \in AccessSizes : Read(vaddr, n)
    \/ \E vaddr \in Addr, n \in AccessSizes :
          \E bytes \in [0 .. (n - 1) -> Byte] : Write(vaddr, n, bytes)
    \/ \E vaddr \in Addr : AllocationFails(vaddr)

Spec == Init /\ [][Next]_vars
-----------------------------------------------------------------------------
(***************************************************************************)
(* Properties.                                                             *)
(***************************************************************************)
Flat == INSTANCE FlatMemory WITH cell <- View(regions)

\* A region's vector is absent, empty (its allocation failed), whole, or one
\* chunk of it: the sizes the bounds check of read/write never looks at.
BackingOK(region) ==
    \E n \in {0, region.size, Lesser(region.size, Chunk)} :
        /\ region.data \in [0 .. (n - 1) -> Byte]
        /\ ~region.present => n = 0

RegionOK(region) ==
    /\ region = [size |-> region.size, flags |-> region.flags,
                 present |-> region.present, data |-> region.data]
    /\ region.size \in Nat
    /\ region.flags \in SUBSET Prot
    /\ region.present \in BOOLEAN
    /\ BackingOK(region)

\* The type of the state: every region is main RAM, a segment or an aligned
\* chunk, with a vector of one of the sizes above; before init() there is none.
TypeOK ==
    /\ initialized \in BOOLEAN
    /\ wild \in BOOLEAN /\ unmaps \in BOOLEAN
    /\ regions = [b \in DOMAIN regions |-> regions[b]]
    /\ DOMAIN regions \subseteq Addr
    /\ \A b \in DOMAIN regions :
          /\ RegionOK(regions[b])
          /\ <<b, regions[b].size>> \in Flat!Extents
    /\ ~initialized => regions = NoRegions

\* An access that passes the checks of read/write takes all its bytes from one
\* region, and every byte from the region a one-byte access would use, however
\* the regions overlap: no torn access (getRegion, MemoryManager.cpp:92).
NoTornAccess ==
    \A vaddr \in Addr, n \in AccessSizes, right \in {"R", "W"} :
        Permits(regions, vaddr, n, right) =>
            \A i \in 0 .. (n - 1) :
                /\ vaddr + i \in Addr
                /\ Mapped(regions, vaddr + i)
                /\ GetRegion(regions, vaddr + i) = GetRegion(regions, vaddr)

Overlap(b, c) ==
    /\ b < c + regions[c].size /\ c < b + regions[b].size
    /\ regions[b].size > 0 /\ regions[c].size > 0

IsChunk(b) == <<b, regions[b].size>> = Flat!ChunkOf(b)

\* "Check for overlaps" (MemoryManager.cpp:57) looks for an end of the new range
\* inside an old one.  What it lets through, over any history of mappings, is
\* one region strictly around another; only on-demand chunks overlap otherwise.
OverlapsNest ==
    \A b, c \in DOMAIN regions :
        b < c /\ Overlap(b, c) /\ ~IsChunk(b) /\ ~IsChunk(c)
          => b + regions[b].size > c + regions[c].size

\* Each operation touches only the addresses FlatMemory lets it touch: reads of
\* mapped memory change nothing, an on-demand allocation stays in its 1 MB
\* window, a write changes its own bytes only, a mapping its own range only.
ImplementsFlatMemory == Flat!Spec
-----------------------------------------------------------------------------
(***************************************************************************)
(* What the repository says and the code does not do.                      *)
(***************************************************************************)

\* "memory.init(); // Pre-allocates main RAM" (docs/CPU_EMULATION.md): an access
\* that read/write accept stays inside the bytes allocated for its region.
AccessesStayBacked == ~wild
=============================================================================
