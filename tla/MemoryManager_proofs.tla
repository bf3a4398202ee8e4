------------------------ MODULE MemoryManager_proofs ------------------------
(***************************************************************************)
(* Proofs about MemoryManager for every address-space geometry, every set  *)
(* of segments and every access size: the state is well typed (TypeOK is   *)
(* inductive), no access is torn between regions, regions that overlap     *)
(* nest, and the manager implements FlatMemory.                            *)
(***************************************************************************)
EXTENDS MemoryManager, TLAPS, WellFoundedInduction

\* A region map whose keys are addresses and whose entries are well formed:
\* the part of TypeOK that speaks of regions.
WellFormed(regs) ==
    /\ regs = [b \in DOMAIN regs |-> regs[b]]
    /\ DOMAIN regs \subseteq Addr
    /\ \A b \in DOMAIN regs :
          RegionOK(regs[b]) /\ <<b, regs[b].size>> \in Flat!Extents
-----------------------------------------------------------------------------
(* Arithmetic and the least element of a set of naturals. *)

LEMMA LeastElement ==
  ASSUME NEW S \in SUBSET Nat, S # {}
  PROVE  \E m \in S : \A n \in S : m <= n
<1> DEFINE R == OpToRel(<, Nat)
<1>1. R = {ss \in Nat \X Nat : ss[1] < ss[2]}
  BY DEF OpToRel
<1>2. IsWellFoundedOn(R, Nat)
  BY NatLessThanWellFounded
<1> HIDE DEF R
<1>3. PICK x \in S : \A y \in S : ~ (<<y, x>> \in R)
  BY <1>2, WFMin
<1>4. ASSUME NEW y \in S
      PROVE  x <= y
  <2>1. y < x => <<y, x>> \in R
    BY <1>1
  <2>2. ~ (y < x)
    BY <1>3, <2>1
  <2>3. x \in Nat /\ y \in Nat
    OBVIOUS
  <2> QED BY <2>2, <2>3
<1> QED BY <1>4

LEMMA ChunkFacts ==
  ASSUME NEW a \in Addr
  PROVE  /\ ChunkBase(a) \in Addr
         /\ ChunkBase(a) <= a /\ a < ChunkBase(a) + Chunk
         /\ ChunkBase(a) + Chunk <= AddrLimit
         /\ Flat!ChunkOf(a) = <<ChunkBase(a), Chunk>>
         /\ Flat!ChunkOf(a) \in Flat!Extents
<1>1. a % Chunk \in 0 .. (Chunk - 1)
  BY GeometryAssumption DEF Addr
<1>2. a - (a % Chunk) \in Nat
  BY <1>1, GeometryAssumption, SMT DEF Addr
<1>3. Flat!ChunkOf(a) = <<ChunkBase(a), Chunk>>
  BY DEF Flat!ChunkOf, ChunkBase
<1>4. Flat!ChunkOf(a) \in Flat!Extents
  BY DEF Flat!Extents, Addr, Flat!Addr
<1>5. ChunkBase(a) + Chunk <= AddrLimit
  BY GeometryAssumption DEF Addr, ChunkBase
<1> QED BY <1>1, <1>2, <1>3, <1>4, <1>5, GeometryAssumption DEF Addr, ChunkBase

\* A range a region can have ends inside the address space; one that starts
\* below the last chunk and is not empty does not wrap unless it is a chunk.
LEMMA ExtentFacts ==
  ASSUME NEW e \in Flat!Extents
  PROVE  /\ e = <<e[1], e[2]>>
         /\ e[1] \in Nat /\ e[2] \in Nat
         /\ e[1] + e[2] <= AddrLimit
         /\ e[1] + e[2] > AddrLimit - Chunk => e = <<e[1], Chunk>>
<1>1. CASE e = <<MainBase, MainSize>>
  BY <1>1, GeometryAssumption
<1>2. CASE e \in {<<s.vaddr, s.size>> : s \in Segments}
  BY <1>2, SegmentAssumption, GeometryAssumption
<1>3. CASE e \in {Flat!ChunkOf(b) : b \in Flat!Addr}
  <2>1. PICK a \in Addr : e = Flat!ChunkOf(a)
    BY <1>3 DEF Addr, Flat!Addr
  <2> QED BY <2>1, ChunkFacts, GeometryAssumption DEF Addr
<1> QED BY <1>1, <1>2, <1>3 DEF Flat!Extents
-----------------------------------------------------------------------------
(* getRegion. *)

\* getRegion returns a region that covers the address, the lowest of them.
LEMMA GetRegionFacts ==
  ASSUME NEW regs, DOMAIN regs \subseteq Addr, NEW a, Mapped(regs, a)
  PROVE  /\ GetRegion(regs, a) \in DOMAIN regs
         /\ Covers(regs, GetRegion(regs, a), a)
         /\ \A c \in DOMAIN regs : Covers(regs, c, a) => GetRegion(regs, a) <= c
<1>1. Covering(regs, a) \in SUBSET Nat
  BY GeometryAssumption DEF Covering, Addr
<1>2. \E m \in Covering(regs, a) : \A c \in Covering(regs, a) : m <= c
  BY <1>1, LeastElement DEF Mapped
<1>3. /\ GetRegion(regs, a) \in Covering(regs, a)
      /\ \A c \in Covering(regs, a) : GetRegion(regs, a) <= c
  BY <1>2 DEF GetRegion
<1> QED BY <1>3 DEF Covering

\* The lowest region that covers an address is the one getRegion returns.
LEMMA GetRegionUnique ==
  ASSUME NEW regs, DOMAIN regs \subseteq Addr, NEW a,
         NEW b \in DOMAIN regs, Covers(regs, b, a),
         \A c \in DOMAIN regs : Covers(regs, c, a) => b <= c
  PROVE  Mapped(regs, a) /\ GetRegion(regs, a) = b
<1>1. Mapped(regs, a)
  BY DEF Mapped, Covering
<1>2. /\ GetRegion(regs, a) \in DOMAIN regs
      /\ b <= GetRegion(regs, a) /\ GetRegion(regs, a) <= b
  BY <1>1, GetRegionFacts
<1> QED BY <1>1, <1>2, GeometryAssumption DEF Addr

\* Covering only depends on the keys and the sizes.
LEMMA SameShape ==
  ASSUME NEW r1, NEW r2, DOMAIN r1 = DOMAIN r2,
         \A b \in DOMAIN r1 : r1[b].size = r2[b].size, NEW a
  PROVE  /\ Covering(r1, a) = Covering(r2, a)
         /\ Mapped(r1, a) <=> Mapped(r2, a)
         /\ GetRegion(r1, a) = GetRegion(r2, a)
<1>1. Covering(r1, a) = Covering(r2, a)
  BY DEF Covering, Covers
<1> QED BY <1>1 DEF Mapped, GetRegion

\* In a well-formed map a region that covers an address does not wrap.
LEMMA CoversFacts ==
  ASSUME NEW regs, WellFormed(regs), NEW b \in DOMAIN regs, NEW a \in Addr
  PROVE  /\ b \in Addr /\ regs[b].size \in Nat
         /\ b + regs[b].size <= AddrLimit
         /\ Covers(regs, b, a) <=> /\ b <= a /\ a < b + regs[b].size
                                   /\ b + regs[b].size < AddrLimit
         /\ b + regs[b].size >= AddrLimit => regs[b].size = Chunk
<1>1. b \in Addr /\ <<b, regs[b].size>> \in Flat!Extents /\ regs[b].size \in Nat
  BY DEF WellFormed, RegionOK
<1>2. /\ b + regs[b].size <= AddrLimit
      /\ b + regs[b].size > AddrLimit - Chunk => regs[b].size = Chunk
  BY <1>1, ExtentFacts
<1> QED BY <1>1, <1>2, GeometryAssumption DEF Covers, Wrap, Addr
-----------------------------------------------------------------------------
(* Each operation on the map keeps it well formed. *)

LEMMA NoRegionsWellFormed == WellFormed(NoRegions)
BY DEF WellFormed, NoRegions

\* A fresh region of the given size, backed or lazy, is well formed.
LEMMA NewRegionOK ==
  ASSUME NEW n \in Nat, NEW f \in SUBSET Prot
  PROVE  RegionOK(Region(n, f)) /\ RegionOK(LazyRegion(n, f))
<1>1. RegionOK(Region(n, f))
  <2>1. Zeros(n) \in [0 .. (n - 1) -> Byte]
    BY GeometryAssumption DEF Zeros
  <2> QED BY <2>1 DEF RegionOK, BackingOK, Region
<1>2. RegionOK(LazyRegion(n, f))
  <2>1. Zeros(0) \in [0 .. (0 - 1) -> Byte]
    BY GeometryAssumption DEF Zeros
  <2> QED BY <2>1 DEF RegionOK, BackingOK, LazyRegion
<1> QED BY <1>1, <1>2

LEMMA PutWellFormed ==
  ASSUME NEW regs, WellFormed(regs), NEW k \in Addr, NEW r, RegionOK(r),
         <<k, r.size>> \in Flat!Extents
  PROVE  WellFormed(Put(regs, k, r))
BY DEF WellFormed, Put

\* Replacing a region by one of the same size keeps the map well formed.
LEMMA ReplaceWellFormed ==
  ASSUME NEW regs, WellFormed(regs), NEW k \in DOMAIN regs, NEW r,
         RegionOK(r), r.size = regs[k].size
  PROVE  WellFormed([regs EXCEPT ![k] = r])
BY DEF WellFormed

LEMMA BackedOK ==
  ASSUME NEW r, RegionOK(r)
  PROVE  /\ RegionOK(Backed(r)) /\ Backed(r).size = r.size
         /\ RegionOK(BackingFailed(r)) /\ BackingFailed(r).size = r.size
<1>1. CASE r.present
  BY <1>1 DEF Backed, BackingFailed
<1>2. CASE ~r.present
  <2> DEFINE n == Lesser(r.size, Chunk)
  <2>1. n \in Nat
    BY GeometryAssumption DEF RegionOK, Lesser
  <2>2. Zeros(n) \in [0 .. (n - 1) -> Byte]
    BY <2>1, GeometryAssumption DEF Zeros
  <2>3. Backed(r) = [size |-> r.size, flags |-> r.flags,
                     present |-> TRUE, data |-> Zeros(n)]
    BY <1>2 DEF Backed, RegionOK
  <2>4. RegionOK(Backed(r))
    BY <2>2, <2>3 DEF RegionOK, BackingOK
  <2>5. BackingFailed(r) = [size |-> r.size, flags |-> r.flags,
                            present |-> TRUE, data |-> r.data]
    BY <1>2 DEF BackingFailed, RegionOK
  <2>6. RegionOK(BackingFailed(r))
    BY <1>2, <2>5 DEF RegionOK, BackingOK
  <2> QED BY <2>3, <2>4, <2>5, <2>6
<1> QED BY <1>1, <1>2

LEMMA OnDemandWellFormed ==
  ASSUME NEW regs, WellFormed(regs), NEW a \in Addr
  PROVE  WellFormed(AllocateOnDemand(regs, a))
<1>1. RW \in SUBSET Prot
  BY DEF RW, Prot
<1>2. RegionOK(Region(Chunk, RW)) /\ Region(Chunk, RW).size = Chunk
  BY <1>1, NewRegionOK, GeometryAssumption DEF Region
<1>3. <<ChunkBase(a), Region(Chunk, RW).size>> \in Flat!Extents
  BY <1>2, ChunkFacts
<1> QED BY <1>2, <1>3, ChunkFacts, PutWellFormed DEF AllocateOnDemand

LEMMA AfterReadWellFormed ==
  ASSUME NEW regs, WellFormed(regs), NEW a \in Addr
  PROVE  WellFormed(AfterRead(regs, a)) /\ WellFormed(AfterFailedAllocation(regs, a))
<1>1. ASSUME NEW m, WellFormed(m), Mapped(m, a)
      PROVE  /\ WellFormed([m EXCEPT ![GetRegion(m, a)] = Backed(@)])
             /\ WellFormed([m EXCEPT ![GetRegion(m, a)] = BackingFailed(@)])
  <2>1. GetRegion(m, a) \in DOMAIN m
    BY <1>1, GetRegionFacts DEF WellFormed
  <2>2. RegionOK(m[GetRegion(m, a)])
    BY <1>1, <2>1 DEF WellFormed
  <2> QED BY <1>1, <2>1, <2>2, BackedOK, ReplaceWellFormed
<1> QED BY <1>1, OnDemandWellFormed DEF AfterRead, AfterFailedAllocation

LEMMA StoredOK ==
  ASSUME NEW r, RegionOK(r), r.present, NEW i \in Nat, NEW n \in Nat,
         NEW bytes \in [0 .. (n - 1) -> Byte]
  PROVE  LET s == [r EXCEPT !.data = Stored(r.data, i, n, bytes)]
         IN  RegionOK(s) /\ s.size = r.size
<1> DEFINE s == [r EXCEPT !.data = Stored(r.data, i, n, bytes)]
<1>1. PICK m \in {0, r.size, Lesser(r.size, Chunk)} :
        r.data \in [0 .. (m - 1) -> Byte]
  BY DEF RegionOK, BackingOK
<1>2. m \in Nat
  BY <1>1, GeometryAssumption DEF RegionOK, Lesser
<1>3. Stored(r.data, i, n, bytes) \in [0 .. (m - 1) -> Byte]
  BY <1>1, <1>2 DEF Stored
<1>4. s = [size |-> r.size, flags |-> r.flags, present |-> r.present,
           data |-> Stored(r.data, i, n, bytes)]
  <2>1. r = [size |-> r.size, flags |-> r.flags, present |-> r.present,
             data |-> r.data]
    BY DEF RegionOK
  <2> HIDE DEF s
  <2>2. s = [[size |-> r.size, flags |-> r.flags, present |-> r.present,
              data |-> r.data] EXCEPT !.data = Stored(r.data, i, n, bytes)]
    BY <2>1 DEF s
  <2> QED BY <2>2
<1> QED BY <1>1, <1>3, <1>4 DEF RegionOK, BackingOK

LEMMA AfterWriteWellFormed ==
  ASSUME NEW regs, WellFormed(regs), NEW a \in Addr, NEW n \in Nat,
         NEW bytes \in [0 .. (n - 1) -> Byte]
  PROVE  WellFormed(AfterWrite(regs, a, n, bytes))
<1>1. CASE ~Permits(regs, a, n, "W")
  BY <1>1 DEF AfterWrite
<1>2. CASE Permits(regs, a, n, "W")
  <2> DEFINE k == GetRegion(regs, a)
             held == Backed(regs[k])
             new == [held EXCEPT !.data = Stored(held.data, a - k, n, bytes)]
  <2>1. k \in DOMAIN regs /\ k \in Nat /\ a - k \in Nat
    <3>1. Mapped(regs, a) /\ DOMAIN regs \subseteq Addr
      BY <1>2 DEF Permits, WellFormed
    <3>2. k \in DOMAIN regs /\ Covers(regs, k, a)
      BY <3>1, GetRegionFacts
    <3> QED BY <3>1, <3>2, GeometryAssumption DEF Covers, Addr
  <2>2. RegionOK(held) /\ held.size = regs[k].size /\ held.present
    <3>1. RegionOK(regs[k])
      BY <2>1 DEF WellFormed
    <3>2. held.present
      BY <3>1 DEF Backed, RegionOK
    <3> QED BY <3>1, <3>2, BackedOK
  <2>3. RegionOK(new) /\ new.size = regs[k].size
    <3> HIDE DEF held
    <3> QED BY <2>1, <2>2, StoredOK
  <2>4. AfterWrite(regs, a, n, bytes) = [regs EXCEPT ![k] = new]
    BY <1>2 DEF AfterWrite
  <2>5. WellFormed([regs EXCEPT ![k] = new])
    <3> HIDE DEF k, new
    <3> QED BY <2>1, <2>3, ReplaceWellFormed
  <2> QED BY <2>4, <2>5
<1> QED BY <1>1, <1>2

LEMMA CorruptedWellFormed ==
  ASSUME NEW regs, WellFormed(regs), NEW m \in Corrupted(regs)
  PROVE  WellFormed(m)
<1>1. CASE m = regs
  BY <1>1
<1>2. ASSUME NEW b \in DOMAIN regs, NEW i \in DOMAIN regs[b].data, NEW v \in Byte,
             m = [regs EXCEPT ![b].data[i] = v]
      PROVE  WellFormed(m)
  <2> DEFINE r == regs[b]
             d == [r.data EXCEPT ![i] = v]
             new == [r EXCEPT !.data = d]
  <2>1. RegionOK(r)
    BY DEF WellFormed
  <2>2. RegionOK(new) /\ new.size = r.size
    <3>1. PICK n \in {0, r.size, Lesser(r.size, Chunk)} :
            r.data \in [0 .. (n - 1) -> Byte] /\ (~r.present => n = 0)
      BY <2>1 DEF RegionOK, BackingOK
    <3>2. d \in [0 .. (n - 1) -> Byte]
      BY <3>1
    <3>3. new = [size |-> r.size, flags |-> r.flags, present |-> r.present,
                 data |-> d]
      BY <2>1 DEF RegionOK
    <3> QED BY <2>1, <3>1, <3>2, <3>3 DEF RegionOK, BackingOK
  <2>3. m = [regs EXCEPT ![b] = new]
    BY <1>2
  <2> QED BY <2>2, <2>3, ReplaceWellFormed
<1> QED BY <1>1, <1>2 DEF Corrupted
-----------------------------------------------------------------------------
(* The invariant. *)

LEMMA InitTypeOK == Init => TypeOK
BY NoRegionsWellFormed DEF Init, TypeOK, WellFormed

LEMMA NextTypeOK == TypeOK /\ [Next]_vars => TypeOK'
<1> SUFFICES ASSUME TypeOK, [Next]_vars PROVE TypeOK'
  OBVIOUS
<1> USE DEF TypeOK
<1>1. WellFormed(regions)
  BY DEF WellFormed
<1>2. ASSUME WellFormed(regions'), initialized' \in BOOLEAN, wild' \in BOOLEAN,
             unmaps' \in BOOLEAN, ~initialized' => regions' = NoRegions
      PROVE  TypeOK'
  BY <1>2 DEF WellFormed
<1>3. CASE InitMemory
  <2>1. RW \in SUBSET Prot
    BY DEF RW, Prot
  <2>2. /\ RegionOK(LazyRegion(MainSize, RW))
        /\ LazyRegion(MainSize, RW).size = MainSize
    BY <2>1, NewRegionOK, GeometryAssumption DEF LazyRegion
  <2>3. MainBase \in Addr /\ <<MainBase, MainSize>> \in Flat!Extents
    BY GeometryAssumption DEF Addr, Flat!Extents
  <2>4. WellFormed(regions')
    BY <1>1, <1>3, <2>2, <2>3, PutWellFormed DEF InitMemory, InitialRegions
  <2> QED BY <1>2, <1>3, <2>4 DEF InitMemory
<1>4. CASE Shutdown
  BY <1>2, <1>4, NoRegionsWellFormed DEF Shutdown
<1>5. ASSUME NEW s \in Segments, MapSegment(s) PROVE TypeOK'
  <2>1. s.vaddr \in Addr /\ s.size \in Nat /\ s.flags \in SUBSET Prot
    BY SegmentAssumption, GeometryAssumption DEF Addr
  <2>2. RegionOK(Region(s.size, s.flags)) /\ Region(s.size, s.flags).size = s.size
    BY <2>1, NewRegionOK DEF Region
  <2>3. <<s.vaddr, s.size>> \in Flat!Extents
    BY DEF Flat!Extents
  <2>4. WellFormed(regions')
    BY <1>1, <1>5, <2>1, <2>2, <2>3, PutWellFormed DEF MapSegment, MapRegion
  <2> QED BY <1>2, <1>5, <2>4 DEF MapSegment
<1>6. ASSUME NEW a \in Addr, Unmap(a) PROVE TypeOK'
  <2>1. WellFormed(regions')
    BY <1>1, <1>6 DEF Unmap, UnmapRegion, WellFormed
  <2>2. unmaps' \in BOOLEAN
    BY <1>6 DEF Unmap
  <2> QED BY <1>2, <1>6, <2>1, <2>2 DEF Unmap
<1>7. ASSUME NEW a \in Addr, NEW n \in AccessSizes, Read(a, n) PROVE TypeOK'
  <2>1. WellFormed(regions')
    BY <1>1, <1>7, AfterReadWellFormed DEF Read
  <2>2. wild' \in BOOLEAN
    BY <1>7 DEF Read
  <2> QED BY <1>2, <1>7, <2>1, <2>2 DEF Read
<1>8. ASSUME NEW a \in Addr, NEW n \in AccessSizes,
             NEW bytes \in [0 .. (n - 1) -> Byte], Write(a, n, bytes)
      PROVE  TypeOK'
  <2>1. WellFormed(AfterWrite(regions, a, n, bytes))
    BY <1>1, AfterWriteWellFormed, AccessAssumption
  <2>2. WellFormed(regions')
    BY <1>8, <2>1, CorruptedWellFormed DEF Write
  <2>3. wild' \in BOOLEAN
    BY <1>8 DEF Write
  <2> QED BY <1>2, <1>8, <2>2, <2>3 DEF Write
<1>9. ASSUME NEW a \in Addr, AllocationFails(a) PROVE TypeOK'
  <2>1. WellFormed(regions')
    BY <1>1, <1>9, AfterReadWellFormed DEF AllocationFails
  <2> QED BY <1>2, <1>9, <2>1 DEF AllocationFails
<1>10. CASE UNCHANGED vars
  BY <1>10 DEF vars
<1> QED BY <1>3, <1>4, <1>5, <1>6, <1>7, <1>8, <1>9, <1>10 DEF Next

\* The state of the memory manager stays well typed: every region it holds is
\* main RAM, a mapped segment or an aligned chunk, and its vector is absent,
\* empty, whole or one chunk long (MemoryManager.cpp, all member functions).
THEOREM TypeCorrect == Spec => []TypeOK
BY InitTypeOK, NextTypeOK, PTL DEF Spec
-----------------------------------------------------------------------------
(* No torn access. *)

LEMMA OneRegion ==
  ASSUME NEW regs, WellFormed(regs), NEW a \in Addr, NEW n \in Nat, NEW right,
         Permits(regs, a, n, right), NEW i \in 0 .. (n - 1)
  PROVE  /\ a + i \in Addr /\ Mapped(regs, a + i)
         /\ GetRegion(regs, a + i) = GetRegion(regs, a)
<1> DEFINE k == GetRegion(regs, a)
<1>1. Mapped(regs, a) /\ DOMAIN regs \subseteq Addr
  BY DEF Permits, WellFormed
<1>2. /\ k \in DOMAIN regs /\ Covers(regs, k, a)
      /\ \A c \in DOMAIN regs : Covers(regs, c, a) => k <= c
  BY <1>1, GetRegionFacts
<1>3. /\ k \in Addr /\ regs[k].size \in Nat /\ k <= a
      /\ k + regs[k].size < AddrLimit
  BY <1>2, CoversFacts
<1>4. a - k + n <= regs[k].size
  BY DEF Permits, Offset
<1> HIDE DEF k
<1>5. a + i \in Addr /\ a + i < k + regs[k].size /\ k <= a + i
  BY <1>3, <1>4, GeometryAssumption DEF Addr
<1>6. Covers(regs, k, a + i)
  BY <1>2, <1>3, <1>5, CoversFacts
<1>7. ASSUME NEW c \in DOMAIN regs, Covers(regs, c, a + i)
      PROVE  k <= c
  <2>1. /\ c \in Addr /\ regs[c].size \in Nat
        /\ c <= a + i /\ a + i < c + regs[c].size
        /\ c + regs[c].size < AddrLimit
    BY <1>5, <1>7, CoversFacts
  <2>2. CASE c <= a
    <3>1. a < c + regs[c].size
      BY <2>1, GeometryAssumption DEF Addr
    <3>2. Covers(regs, c, a)
      BY <2>1, <2>2, <3>1, CoversFacts
    <3> QED BY <1>2, <3>2
  <2>3. CASE a < c
    BY <1>3, <2>1, <2>3, GeometryAssumption DEF Addr
  <2> QED BY <2>1, <2>2, <2>3, GeometryAssumption DEF Addr
<1>8. Mapped(regs, a + i) /\ GetRegion(regs, a + i) = k
  BY <1>1, <1>2, <1>6, <1>7, GetRegionUnique
<1> QED BY <1>5, <1>8 DEF k

LEMMA TypeOKNoTorn == TypeOK => NoTornAccess
<1> SUFFICES ASSUME TypeOK, NEW a \in Addr, NEW n \in AccessSizes,
                    NEW right \in {"R", "W"}, Permits(regions, a, n, right),
                    NEW i \in 0 .. (n - 1)
             PROVE  /\ a + i \in Addr /\ Mapped(regions, a + i)
                    /\ GetRegion(regions, a + i) = GetRegion(regions, a)
  BY DEF NoTornAccess
<1>1. WellFormed(regions) /\ n \in Nat
  BY AccessAssumption DEF TypeOK, WellFormed
<1> QED BY <1>1, OneRegion

\* However regions overlap, the bytes of an access that read/write accept all
\* come from the region getRegion returns for its first byte, and each of them
\* would be found there by an access of its own (MemoryManager.cpp:92-168).
THEOREM AccessNotTorn == Spec => []NoTornAccess
BY TypeCorrect, TypeOKNoTorn, PTL
-----------------------------------------------------------------------------
(* Overlapping regions nest, whatever the history of mappings. *)

\* A region map without two overlapping regions of which neither is a chunk and
\* the later one reaches past the earlier: OverlapsNest of a value.
ChunkAt(regs, b) == <<b, regs[b].size>> = Flat!ChunkOf(b)

Nested(regs) ==
    \A b, c \in DOMAIN regs :
        b < c /\ c < b + regs[b].size /\ regs[c].size > 0
          /\ ~ChunkAt(regs, b) /\ ~ChunkAt(regs, c)
          => b + regs[b].size > c + regs[c].size

\* The base of a chunk is aligned.
LEMMA ChunkBaseAligned ==
  ASSUME NEW a \in Addr
  PROVE  Flat!ChunkOf(ChunkBase(a)) = <<ChunkBase(a), Chunk>>
<1> DEFINE q == a \div Chunk
<1>1. q \in Int /\ a = Chunk * q + (a % Chunk)
  BY GeometryAssumption, SMT DEF Addr
<1>2. ChunkBase(a) = Chunk * q
  BY <1>1, GeometryAssumption, SMT DEF ChunkBase, Addr
<1>3. q \in Nat /\ (Chunk * q) % Chunk = 0
  BY GeometryAssumption, SMT DEF Addr
<1>4. ChunkBase(a) % Chunk = 0
  BY <1>2, <1>3
<1>5. ChunkBase(a) \in Nat
  BY ChunkFacts DEF Addr
<1>6. ChunkBase(a) - (ChunkBase(a) % Chunk) = ChunkBase(a)
  BY <1>4, <1>5
<1> QED BY <1>6 DEF Flat!ChunkOf

\* Only a chunk can reach the end of the address space.
LEMMA OnlyChunksWrap ==
  ASSUME NEW regs, WellFormed(regs), NEW b \in DOMAIN regs, ~ChunkAt(regs, b)
  PROVE  b \in Addr /\ regs[b].size \in Nat /\ b + regs[b].size < AddrLimit
<1> DEFINE e == <<b, regs[b].size>>
<1>1. b \in Addr /\ regs[b].size \in Nat /\ e \in Flat!Extents
  BY DEF WellFormed, RegionOK
<1>2. CASE e = <<MainBase, MainSize>>
  BY <1>1, <1>2, GeometryAssumption DEF Addr
<1>3. CASE e \in {<<s.vaddr, s.size>> : s \in Segments}
  BY <1>1, <1>3, SegmentAssumption, GeometryAssumption DEF Addr
<1>4. CASE e \in {Flat!ChunkOf(a) : a \in Flat!Addr}
  <2>1. PICK a \in Addr : e = Flat!ChunkOf(a)
    BY <1>4 DEF Addr, Flat!Addr
  <2>2. e = <<ChunkBase(a), Chunk>>
    BY <2>1, ChunkFacts
  <2>3. e = Flat!ChunkOf(b)
    BY <2>2, ChunkBaseAligned
  <2> QED BY <2>3 DEF ChunkAt
<1> QED BY <1>1, <1>2, <1>3, <1>4 DEF Flat!Extents

\* What keeps every base and size keeps the nesting.
LEMMA SameShapeNested ==
  ASSUME NEW regs, Nested(regs), NEW m, DOMAIN m = DOMAIN regs,
         \A b \in DOMAIN regs : m[b].size = regs[b].size
  PROVE  Nested(m)
BY DEF Nested, ChunkAt

LEMMA PutChunkNested ==
  ASSUME NEW regs, Nested(regs), NEW a \in Addr, NEW flags
  PROVE  Nested(Put(regs, ChunkBase(a), Region(Chunk, flags)))
<1> DEFINE k == ChunkBase(a)
           m == Put(regs, k, Region(Chunk, flags))
<1>1. DOMAIN m = DOMAIN regs \cup {k} /\ m[k].size = Chunk
  BY DEF Put, Region
<1>2. ChunkAt(m, k)
  BY <1>1, ChunkBaseAligned DEF ChunkAt
<1>3. \A b \in DOMAIN regs \ {k} : m[b].size = regs[b].size
  BY DEF Put
<1> HIDE DEF m, k
<1>4. Nested(m)
  BY <1>1, <1>2, <1>3 DEF Nested, ChunkAt
<1> QED BY <1>4 DEF m, k

LEMMA AfterReadNested ==
  ASSUME NEW regs, WellFormed(regs), Nested(regs), NEW a \in Addr
  PROVE  Nested(AfterRead(regs, a)) /\ Nested(AfterFailedAllocation(regs, a))
<1>1. ASSUME NEW m, WellFormed(m), Nested(m), Mapped(m, a)
      PROVE  /\ Nested([m EXCEPT ![GetRegion(m, a)] = Backed(@)])
             /\ Nested([m EXCEPT ![GetRegion(m, a)] = BackingFailed(@)])
  <2>1. GetRegion(m, a) \in DOMAIN m
    BY <1>1, GetRegionFacts DEF WellFormed
  <2>2. RegionOK(m[GetRegion(m, a)])
    BY <1>1, <2>1 DEF WellFormed
  <2> QED BY <1>1, <2>1, <2>2, BackedOK, SameShapeNested
<1>2. WellFormed(AllocateOnDemand(regs, a)) /\ Nested(AllocateOnDemand(regs, a))
  BY OnDemandWellFormed, PutChunkNested DEF AllocateOnDemand
<1> QED BY <1>1, <1>2 DEF AfterRead, AfterFailedAllocation

\* A write, even one that strays, moves and resizes no region.
LEMMA WriteKeepsSizes ==
  ASSUME NEW regs, WellFormed(regs), NEW a \in Addr, NEW n \in Nat,
         NEW bytes \in [0 .. (n - 1) -> Byte],
         NEW m \in {AfterWrite(regs, a, n, bytes)}
                     \cup Corrupted(AfterWrite(regs, a, n, bytes))
  PROVE  /\ WellFormed(m)
         /\ DOMAIN m = DOMAIN regs /\ \A b \in DOMAIN regs : m[b].size = regs[b].size
<1> DEFINE w == AfterWrite(regs, a, n, bytes)
<1>1. DOMAIN w = DOMAIN regs /\ \A b \in DOMAIN regs : w[b].size = regs[b].size
  <2>1. CASE ~Permits(regs, a, n, "W")
    BY <2>1 DEF AfterWrite
  <2>2. CASE Permits(regs, a, n, "W")
    <3> DEFINE k == GetRegion(regs, a)
               held == Backed(regs[k])
               new == [held EXCEPT !.data = Stored(held.data, a - k, n, bytes)]
    <3>1. w = [regs EXCEPT ![k] = new]
      BY <2>2 DEF AfterWrite
    <3>2. k \in DOMAIN regs
      BY <2>2, GetRegionFacts DEF Permits, WellFormed
    <3>3. held.size = regs[k].size /\ RegionOK(held)
      BY <3>2, BackedOK DEF WellFormed
    <3>4. new.size = regs[k].size
      <4> HIDE DEF held
      <4> QED BY <3>3 DEF RegionOK
    <3> HIDE DEF new, k
    <3> QED BY <3>1, <3>4
  <2> QED BY <2>1, <2>2
<1>2. WellFormed(w)
  BY AfterWriteWellFormed
<1> HIDE DEF w
<1>3. DOMAIN m = DOMAIN w /\ \A b \in DOMAIN w : m[b].size = w[b].size
  <2>1. CASE m = w
    BY <2>1
  <2>2. CASE m # w
    <3>1. PICK b \in DOMAIN w : \E i \in DOMAIN w[b].data, v \in Byte :
            m = [w EXCEPT ![b].data[i] = v]
      BY <2>2 DEF Corrupted, w
    <3>2. RegionOK(w[b])
      BY <1>2 DEF WellFormed
    <3> QED BY <3>1, <3>2 DEF RegionOK
  <2> QED BY <2>1, <2>2
<1>4. WellFormed(m)
  BY <1>2, CorruptedWellFormed DEF w
<1> QED BY <1>1, <1>3, <1>4

LEMMA AfterWriteNested ==
  ASSUME NEW regs, WellFormed(regs), Nested(regs), NEW a \in Addr,
         NEW n \in AccessSizes, NEW bytes \in [0 .. (n - 1) -> Byte],
         NEW m \in {AfterWrite(regs, a, n, bytes)}
                     \cup Corrupted(AfterWrite(regs, a, n, bytes))
  PROVE  Nested(m)
<1>1. n \in Nat
  BY AccessAssumption
<1> QED BY <1>1, WriteKeepsSizes, SameShapeNested

\* mapRegion's test is enough for the nesting.
LEMMA MapNested ==
  ASSUME NEW regs, WellFormed(regs), Nested(regs), NEW s \in Segments
  PROVE  Nested(MapRegion(regs, s.vaddr, s.size, s.flags))
<1> DEFINE v == s.vaddr
           n == s.size
           m == Put(regs, v, Region(n, s.flags))
<1>1. v \in Nat /\ n \in Nat /\ v + n < AddrLimit
  BY SegmentAssumption, GeometryAssumption
<1>2. SUFFICES ASSUME MapAccepted(regs, v, n)
               PROVE  Nested(m)
  BY DEF MapRegion
<1>3. DOMAIN m = DOMAIN regs \cup {v} /\ m[v].size = n
  BY DEF Put, Region
<1>4. \A b \in DOMAIN regs \ {v} :
        m[b].size = regs[b].size /\ (ChunkAt(m, b) <=> ChunkAt(regs, b))
  BY DEF Put, ChunkAt
<1>5. ASSUME NEW b \in DOMAIN regs, ~ChunkAt(regs, b)
      PROVE  /\ b \in Nat /\ regs[b].size \in Nat
             /\ ~(v >= b /\ v < b + regs[b].size)
             /\ ~(v + n > b /\ v + n <= b + regs[b].size)
  <2>1. b \in Addr /\ regs[b].size \in Nat /\ b + regs[b].size < AddrLimit
    BY <1>5, OnlyChunksWrap
  <2>2. ~OverlapSeen(regs, b, v, n)
    BY <1>2 DEF MapAccepted
  <2> QED BY <1>1, <2>1, <2>2, GeometryAssumption DEF OverlapSeen, Wrap, Addr
<1> HIDE DEF m, v, n
<1>6. SUFFICES ASSUME NEW b \in DOMAIN m, NEW c \in DOMAIN m, b < c,
                      c < b + m[b].size, m[c].size > 0,
                      ~ChunkAt(m, b), ~ChunkAt(m, c)
               PROVE  b + m[b].size > c + m[c].size
  BY DEF Nested
<1>7. CASE b # v /\ c # v
  BY <1>3, <1>4, <1>6, <1>7 DEF Nested
<1>8. CASE b = v
  <2>1. c \in DOMAIN regs \ {v}
    BY <1>1, <1>3, <1>6, <1>8
  <2> QED BY <1>1, <1>3, <1>4, <1>5, <1>6, <1>8, <2>1
<1>9. CASE c = v
  <2>1. b \in DOMAIN regs \ {v}
    BY <1>1, <1>3, <1>6, <1>9
  <2> QED BY <1>1, <1>3, <1>4, <1>5, <1>6, <1>9, <2>1
<1> QED BY <1>7, <1>8, <1>9

LEMMA NextNested == TypeOK /\ Nested(regions) /\ [Next]_vars => Nested(regions')
<1> SUFFICES ASSUME TypeOK, Nested(regions), [Next]_vars PROVE Nested(regions')
  OBVIOUS
<1>1. WellFormed(regions)
  BY DEF WellFormed, TypeOK
<1>2. CASE InitMemory
  <2>1. regions = NoRegions
    BY <1>2 DEF InitMemory, TypeOK
  <2>2. DOMAIN regions' = {MainBase}
    BY <1>2, <2>1 DEF InitMemory, InitialRegions, Put, NoRegions
  <2>3. ~(MainBase < MainBase)
    BY GeometryAssumption
  <2> QED BY <2>2, <2>3 DEF Nested
<1>3. CASE Shutdown
  BY <1>3 DEF Shutdown, NoRegions, Nested
<1>4. ASSUME NEW s \in Segments, MapSegment(s) PROVE Nested(regions')
  BY <1>1, <1>4, MapNested DEF MapSegment
<1>5. ASSUME NEW a \in Addr, Unmap(a) PROVE Nested(regions')
  BY <1>5 DEF Unmap, UnmapRegion, Nested, ChunkAt
<1>6. ASSUME NEW a \in Addr, NEW n \in AccessSizes, Read(a, n)
      PROVE  Nested(regions')
  BY <1>1, <1>6, AfterReadNested DEF Read
<1>7. ASSUME NEW a \in Addr, NEW n \in AccessSizes,
             NEW bytes \in [0 .. (n - 1) -> Byte], Write(a, n, bytes)
      PROVE  Nested(regions')
  <2>1. regions' \in {AfterWrite(regions, a, n, bytes)}
                       \cup Corrupted(AfterWrite(regions, a, n, bytes))
    BY <1>7 DEF Write
  <2> QED BY <1>1, <2>1, AfterWriteNested
<1>8. ASSUME NEW a \in Addr, AllocationFails(a) PROVE Nested(regions')
  BY <1>1, <1>8, AfterReadNested DEF AllocationFails
<1>9. CASE UNCHANGED vars
  BY <1>9 DEF vars
<1> QED BY <1>2, <1>3, <1>4, <1>5, <1>6, <1>7, <1>8, <1>9 DEF Next

\* Two overlapping regions, neither an on-demand chunk, are one strictly around
\* the other, for every geometry, set of segments and history: the test of
\* mapRegion (MemoryManager.cpp:57) misses that case and no other.
THEOREM RegionsNest == Spec => []OverlapsNest
<1> DEFINE NestedNow == Nested(regions)
<1>1. Init => NestedNow
  BY DEF Init, NoRegions, Nested
<1>2. NestedNow => OverlapsNest
  BY DEF OverlapsNest, Overlap, IsChunk, Nested, ChunkAt
<1>3. TypeOK /\ NestedNow /\ [Next]_vars => NestedNow'
  BY NextNested
<1> HIDE DEF NestedNow
<1> QED BY <1>1, <1>2, <1>3, TypeCorrect, PTL DEF Spec
-----------------------------------------------------------------------------
(* What an operation does to the guest's view of one address. *)

LEMMA CellType ==
  ASSUME NEW regs, WellFormed(regs), NEW b \in Addr
  PROVE  CellAt(regs, b) \in Flat!Cell
<1>1. CASE ~Mapped(regs, b)
  BY <1>1 DEF CellAt, UnmappedCell, Flat!Cell
<1>2. CASE Mapped(regs, b)
  <2> DEFINE k == GetRegion(regs, b)
  <2>1. k \in DOMAIN regs
    BY <1>2, GetRegionFacts DEF WellFormed
  <2>2. RegionOK(regs[k])
    BY <2>1 DEF WellFormed
  <2>3. ASSUME NEW j PROVE RegionByte(regs[k], j) \in Byte \cup {Undef}
    <3>1. PICK n \in {0, regs[k].size, Lesser(regs[k].size, Chunk)} :
            regs[k].data \in [0 .. (n - 1) -> Byte]
      BY <2>2 DEF RegionOK, BackingOK
    <3> QED BY <3>1, GeometryAssumption DEF RegionByte
  <2>4. regs[k].flags \in SUBSET {"R", "W", "X"}
    BY <2>2 DEF RegionOK, Prot
  <2> HIDE DEF k
  <2>5. CellOf(regs[k], b - k) \in Flat!Cell
    BY <2>3, <2>4 DEF CellOf, Flat!Cell
  <2> QED BY <1>2, <2>5 DEF CellAt, Offset, k
<1> QED BY <1>1, <1>2

LEMMA ViewType ==
  ASSUME NEW regs, WellFormed(regs)
  PROVE  View(regs) \in [Flat!Addr -> Flat!Cell]
BY CellType DEF View, Addr, Flat!Addr

\* A region put at k is not seen at b if neither it nor the entry it replaces
\* covers b.
LEMMA PutElsewhere ==
  ASSUME NEW regs, DOMAIN regs \subseteq Addr, NEW k \in Addr, NEW r,
         NEW b \in Addr, ~ (k <= b /\ b < Wrap(k + r.size)),
         k \in DOMAIN regs => ~Covers(regs, k, b)
  PROVE  /\ CellAt(Put(regs, k, r), b) = CellAt(regs, b)
         /\ Mapped(Put(regs, k, r), b) <=> Mapped(regs, b)
         /\ Mapped(regs, b) =>
              /\ GetRegion(Put(regs, k, r), b) = GetRegion(regs, b)
              /\ Put(regs, k, r)[GetRegion(regs, b)] = regs[GetRegion(regs, b)]
<1> DEFINE m == Put(regs, k, r)
<1>1. Covering(m, b) = Covering(regs, b)
  BY DEF Put, Covering, Covers
<1>2. Mapped(m, b) <=> Mapped(regs, b)
  BY <1>1 DEF Mapped
<1>3. GetRegion(m, b) = GetRegion(regs, b)
  BY <1>1 DEF GetRegion
<1>4. ASSUME Mapped(regs, b)
      PROVE  m[GetRegion(regs, b)] = regs[GetRegion(regs, b)]
  <2>1. /\ GetRegion(regs, b) \in DOMAIN regs
        /\ Covers(regs, GetRegion(regs, b), b)
    BY <1>4, GetRegionFacts
  <2> QED BY <2>1 DEF Put
<1>5. CellAt(m, b) = CellAt(regs, b)
  BY <1>2, <1>3, <1>4 DEF CellAt, Offset
<1> QED BY <1>2, <1>3, <1>4, <1>5

\* Where it covers b, the guest sees it, or what it saw before; and it sees it
\* if b was unmapped.
LEMMA PutInside ==
  ASSUME NEW regs, DOMAIN regs \subseteq Addr, NEW k \in Addr, NEW r,
         NEW b \in Addr, k <= b, b < Wrap(k + r.size)
  PROVE  /\ Mapped(Put(regs, k, r), b)
         /\ \/ /\ GetRegion(Put(regs, k, r), b) = k
               /\ CellAt(Put(regs, k, r), b) = CellOf(r, b - k)
            \/ Mapped(regs, b) /\ CellAt(Put(regs, k, r), b) = CellAt(regs, b)
<1> DEFINE m == Put(regs, k, r)
           g == GetRegion(m, b)
<1>1. /\ DOMAIN m = DOMAIN regs \cup {k} /\ m[k] = r
      /\ \A c \in DOMAIN regs : c # k => m[c] = regs[c]
  BY DEF Put
<1>2. Covers(m, k, b) /\ Mapped(m, b) /\ DOMAIN m \subseteq Addr
  BY <1>1 DEF Covers, Mapped, Covering
<1> HIDE DEF m
<1>3. /\ g \in DOMAIN m /\ Covers(m, g, b)
      /\ \A c \in DOMAIN m : Covers(m, c, b) => g <= c
  BY <1>2, GetRegionFacts
<1>4. CASE g = k
  BY <1>1, <1>2, <1>4 DEF CellAt, Offset, m
<1>5. CASE g # k
  <2>1. g \in DOMAIN regs /\ Covers(regs, g, b) /\ m[g] = regs[g] /\ g <= k
    BY <1>1, <1>2, <1>3, <1>5 DEF Covers
  <2>2. ASSUME NEW c \in DOMAIN regs, Covers(regs, c, b) PROVE g <= c
    <3>1. CASE c = k BY <2>1, <3>1
    <3>2. CASE c # k
      <4>1. c \in DOMAIN m /\ Covers(m, c, b)
        BY <1>1, <2>2, <3>2 DEF Covers
      <4> QED BY <1>3, <4>1
    <3> QED BY <3>1, <3>2
  <2>3. Mapped(regs, b) /\ GetRegion(regs, b) = g
    <3> HIDE DEF g
    <3> QED BY <2>1, <2>2, GetRegionUnique
  <2>4. CellAt(m, b) = CellAt(regs, b)
    BY <1>2, <2>1, <2>3 DEF CellAt, Offset
  <2> QED BY <1>2, <2>3, <2>4 DEF m
<1> QED BY <1>4, <1>5

\* Replacing regions by regions of the same size and flags changes only bytes.
LEMMA ReplaceCells ==
  ASSUME NEW r1, NEW r2, DOMAIN r1 \subseteq Addr, DOMAIN r1 = DOMAIN r2,
         \A c \in DOMAIN r1 : r1[c].size = r2[c].size /\ r1[c].flags = r2[c].flags,
         NEW b \in Addr
  PROVE  /\ Mapped(r1, b) <=> Mapped(r2, b)
         /\ ~Mapped(r1, b) => CellAt(r2, b) = CellAt(r1, b)
         /\ Mapped(r1, b) =>
              LET k == GetRegion(r1, b) IN
              /\ k \in DOMAIN r1 /\ k \in Addr /\ k <= b
              /\ b - k < r1[k].size \/ r1[k].size \notin Nat
              /\ CellAt(r1, b) = CellOf(r1[k], b - k)
              /\ CellAt(r2, b) = CellOf(r2[k], b - k)
              /\ CellAt(r2, b) = Flat!WithByte(CellAt(r1, b),
                                               RegionByte(r2[k], b - k))
<1>1. /\ Mapped(r1, b) <=> Mapped(r2, b)
      /\ GetRegion(r1, b) = GetRegion(r2, b)
  BY SameShape
<1>2. ~Mapped(r1, b) => CellAt(r2, b) = CellAt(r1, b)
  BY <1>1 DEF CellAt
<1>3. ASSUME Mapped(r1, b), NEW k, k = GetRegion(r1, b)
      PROVE  /\ k \in DOMAIN r1 /\ k \in Addr /\ k <= b
             /\ b - k < r1[k].size \/ r1[k].size \notin Nat
             /\ CellAt(r1, b) = CellOf(r1[k], b - k)
             /\ CellAt(r2, b) = CellOf(r2[k], b - k)
             /\ CellAt(r2, b) = Flat!WithByte(CellAt(r1, b),
                                               RegionByte(r2[k], b - k))
  <2>1. k \in DOMAIN r1 /\ Covers(r1, k, b)
    BY <1>3, GetRegionFacts
  <2>2. /\ CellAt(r1, b) = CellOf(r1[k], b - k)
        /\ CellAt(r2, b) = CellOf(r2[k], b - k)
    BY <1>1, <1>3 DEF CellAt, Offset
  <2>3. CellAt(r2, b) = Flat!WithByte(CellAt(r1, b), RegionByte(r2[k], b - k))
    <3>1. r1[k].flags = r2[k].flags
      BY <2>1
    <3>2. CellOf(r2[k], b - k)
            = Flat!WithByte(CellOf(r1[k], b - k), RegionByte(r2[k], b - k))
      BY <3>1 DEF CellOf, Flat!WithByte
    <3> QED BY <2>2, <3>2
  <2>4. b - k < r1[k].size \/ r1[k].size \notin Nat
    BY <2>1, GeometryAssumption DEF Covers, Wrap, Addr
  <2>5. k \in Addr /\ k <= b
    BY <2>1 DEF Covers
  <2> QED BY <2>1, <2>2, <2>3, <2>4, <2>5
<1> QED BY <1>1, <1>2, <1>3

\* Giving a lazy region its vector is invisible; failing to may make zero bytes
\* undefined.
LEMMA BackedCells ==
  ASSUME NEW regs, WellFormed(regs), NEW k \in DOMAIN regs, NEW b \in Addr
  PROVE  /\ CellAt([regs EXCEPT ![k] = Backed(@)], b) = CellAt(regs, b)
         /\ \/ CellAt([regs EXCEPT ![k] = BackingFailed(@)], b) = CellAt(regs, b)
            \/ /\ CellAt(regs, b).mapped /\ CellAt(regs, b).byte = 0
               /\ CellAt([regs EXCEPT ![k] = BackingFailed(@)], b)
                    = Flat!WithByte(CellAt(regs, b), Undef)
<1> DEFINE m1 == [regs EXCEPT ![k] = Backed(@)]
           m2 == [regs EXCEPT ![k] = BackingFailed(@)]
           g  == GetRegion(regs, b)
<1>1. /\ RegionOK(regs[k]) /\ DOMAIN regs \subseteq Addr
      /\ \A c \in DOMAIN regs : regs[c].size \in Nat
  BY DEF WellFormed, RegionOK
<1>2. /\ Backed(regs[k]).size = regs[k].size
      /\ Backed(regs[k]).flags = regs[k].flags
      /\ BackingFailed(regs[k]).size = regs[k].size
      /\ BackingFailed(regs[k]).flags = regs[k].flags
  BY <1>1 DEF RegionOK, Backed, BackingFailed
<1>3. /\ DOMAIN m1 = DOMAIN regs /\ DOMAIN m2 = DOMAIN regs
      /\ m1[k] = Backed(regs[k]) /\ m2[k] = BackingFailed(regs[k])
      /\ \A c \in DOMAIN regs : c # k => m1[c] = regs[c] /\ m2[c] = regs[c]
  BY DEF WellFormed
<1>4. \A c \in DOMAIN regs :
        /\ regs[c].size = m1[c].size /\ regs[c].flags = m1[c].flags
        /\ regs[c].size = m2[c].size /\ regs[c].flags = m2[c].flags
  BY <1>2, <1>3
<1> HIDE DEF m1, m2
<1>5. CASE ~Mapped(regs, b)
  <2>1. CellAt(m1, b) = CellAt(regs, b)
    BY <1>1, <1>3, <1>4, <1>5, ReplaceCells
  <2>2. CellAt(m2, b) = CellAt(regs, b)
    BY <1>1, <1>3, <1>4, <1>5, ReplaceCells
  <2> QED BY <2>1, <2>2 DEF m1, m2
<1>6. CASE Mapped(regs, b)
  <2>1. /\ g \in DOMAIN regs /\ g \in Addr /\ g <= b /\ b - g < regs[g].size
        /\ CellAt(regs, b) = CellOf(regs[g], b - g)
        /\ CellAt(m1, b) = CellOf(m1[g], b - g)
    BY <1>1, <1>3, <1>4, <1>6, ReplaceCells
  <2>2. /\ CellAt(m2, b) = CellOf(m2[g], b - g)
        /\ CellAt(m2, b) = Flat!WithByte(CellAt(regs, b), RegionByte(m2[g], b - g))
    BY <1>1, <1>3, <1>4, <1>6, ReplaceCells
  <2> HIDE DEF g
  <2>3. CASE g # k
    BY <1>3, <2>1, <2>2, <2>3 DEF m1, m2
  <2>4. CASE g = k /\ regs[k].present
    <3>1. Backed(regs[k]) = regs[k] /\ BackingFailed(regs[k]) = regs[k]
      BY <2>4 DEF Backed, BackingFailed
    <3> QED BY <1>3, <2>1, <2>2, <2>4, <3>1 DEF m1, m2
  <2>5. CASE g = k /\ ~regs[k].present
    <3> DEFINE i == b - g
               n == Lesser(regs[k].size, Chunk)
    <3>1. i \in Nat /\ n \in Nat
      BY <1>1, <2>1, <2>5, GeometryAssumption DEF Lesser, Addr
    <3>2. /\ Backed(regs[k]).present /\ Backed(regs[k]).data = Zeros(n)
          /\ BackingFailed(regs[k]).present
          /\ BackingFailed(regs[k]).data = regs[k].data
      BY <1>1, <2>5 DEF Backed, BackingFailed, RegionOK
    <3>3. RegionByte(regs[k], i) = IF i < n THEN 0 ELSE Undef
      BY <2>5 DEF RegionByte
    <3>4. RegionByte(Backed(regs[k]), i) = IF i < n THEN 0 ELSE Undef
      BY <3>1, <3>2, GeometryAssumption DEF RegionByte, Zeros
    <3>5. DOMAIN regs[k].data = {}
      BY <1>1, <2>5 DEF RegionOK, BackingOK
    <3>6. RegionByte(BackingFailed(regs[k]), i) = Undef
      BY <3>2, <3>5 DEF RegionByte
    <3>7. CellAt(m1, b) = CellAt(regs, b)
      BY <1>2, <1>3, <2>1, <2>5, <3>3, <3>4 DEF CellOf
    <3>8. CellAt(m2, b) = Flat!WithByte(CellAt(regs, b), Undef)
      BY <1>3, <2>2, <2>5, <3>6
    <3>9. /\ CellAt(regs, b).mapped
          /\ CellAt(regs, b).byte = IF i < n THEN 0 ELSE Undef
      BY <2>1, <2>5, <3>3 DEF CellOf
    <3>10. CellAt(regs, b).byte = Undef => CellAt(m2, b) = CellAt(regs, b)
      BY <2>1, <3>8 DEF CellOf, Flat!WithByte
    <3> QED BY <3>7, <3>8, <3>9, <3>10 DEF m1, m2
  <2> QED BY <2>3, <2>4, <2>5
<1> QED BY <1>5, <1>6
-----------------------------------------------------------------------------
(* Each operation maps to the FlatMemory operation of the same purpose. *)

\* A byte of a fresh region is zero and has the region's flags.
LEMMA FreshCell ==
  ASSUME NEW n \in Nat, NEW f, NEW j \in 0 .. (n - 1)
  PROVE  CellOf(Region(n, f), j) = Flat!Blank(f)
BY DEF CellOf, RegionByte, Region, Zeros, Flat!Blank

\* An on-demand allocation changes at most its own chunk, and blanks vaddr
\* unless the chunk is the last one, whose end wraps to 0.
LEMMA OnDemandCells ==
  ASSUME NEW regs, WellFormed(regs), NEW a \in Addr, ~Mapped(regs, a)
  PROVE  LET m == AllocateOnDemand(regs, a) IN
         /\ \A b \in Addr :
               \/ CellAt(m, b) = CellAt(regs, b)
               \/ /\ Flat!InExtent(Flat!ChunkOf(a), b)
                  /\ CellAt(m, b) = Flat!Blank({"R", "W"})
         /\ a < AddrLimit - Chunk =>
               CellAt(m, a) = Flat!Blank({"R", "W"})
         /\ Mapped(m, a) =>
               /\ GetRegion(m, a) \in DOMAIN m
               /\ m[GetRegion(m, a)].present
<1> DEFINE k == ChunkBase(a)
           r == Region(Chunk, RW)
           m == Put(regs, k, r)
<1>1. /\ k \in Addr /\ k <= a /\ a < k + Chunk /\ k + Chunk <= AddrLimit
      /\ Flat!ChunkOf(a) = <<k, Chunk>>
  BY ChunkFacts
<1>2. r.size = Chunk /\ DOMAIN regs \subseteq Addr /\ r.present
  BY DEF Region, WellFormed
<1>3. AllocateOnDemand(regs, a) = m
  BY DEF AllocateOnDemand
<1>4. ASSUME NEW j \in 0 .. (Chunk - 1)
      PROVE  CellOf(r, j) = Flat!Blank({"R", "W"})
  BY <1>4, FreshCell, GeometryAssumption DEF RW
<1>5. CASE k + Chunk < AddrLimit
  <2>1. Wrap(k + r.size) = k + Chunk
    BY <1>1, <1>2, <1>5, GeometryAssumption DEF Wrap, Addr
  <2>2. ASSUME NEW b \in Addr, ~ (k <= b /\ b < k + Chunk)
        PROVE  CellAt(m, b) = CellAt(regs, b)
    <3>1. ASSUME k \in DOMAIN regs, Covers(regs, k, b) PROVE FALSE
      <4>1. /\ k <= b /\ b < k + regs[k].size /\ regs[k].size \in Nat
            /\ k + regs[k].size < AddrLimit
        BY <3>1, CoversFacts
      <4>2. a < k + regs[k].size
        BY <1>1, <2>2, <4>1, GeometryAssumption DEF Addr
      <4>3. Covers(regs, k, a)
        BY <1>1, <3>1, <4>1, <4>2, CoversFacts
      <4> QED BY <3>1, <4>3 DEF Mapped, Covering
    <3> HIDE DEF k, r
    <3> QED BY <1>1, <1>2, <2>1, <2>2, <3>1, PutElsewhere
  <2>3. ASSUME NEW b \in Addr, k <= b, b < k + Chunk
        PROVE  /\ Mapped(m, b)
               /\ \/ GetRegion(m, b) = k /\ CellAt(m, b) = CellOf(r, b - k)
                  \/ Mapped(regs, b) /\ CellAt(m, b) = CellAt(regs, b)
    <3> HIDE DEF k, r
    <3> QED BY <1>1, <1>2, <2>1, <2>3, PutInside
  <2>4. ASSUME NEW b \in Addr, k <= b, b < k + Chunk
        PROVE  CellOf(r, b - k) = Flat!Blank({"R", "W"})
    BY <1>1, <1>4, <2>4, GeometryAssumption DEF Addr
  <2>5. \A b \in Addr :
               \/ CellAt(m, b) = CellAt(regs, b)
               \/ /\ Flat!InExtent(Flat!ChunkOf(a), b)
                  /\ CellAt(m, b) = Flat!Blank({"R", "W"})
    BY <1>1, <2>2, <2>3, <2>4 DEF Flat!InExtent
  <2>6. GetRegion(m, a) = k /\ CellAt(m, a) = Flat!Blank({"R", "W"})
    <3>1. /\ Mapped(m, a)
          /\ GetRegion(m, a) = k /\ CellAt(m, a) = CellOf(r, a - k)
      BY <1>1, <2>3
    <3>2. CellOf(r, a - k) = Flat!Blank({"R", "W"})
      BY <1>1, <2>4
    <3> QED BY <3>1, <3>2
  <2>7. m[GetRegion(m, a)].present /\ GetRegion(m, a) \in DOMAIN m
    BY <1>2, <2>6 DEF Put
  <2> QED BY <1>3, <2>5, <2>6, <2>7
<1>6. CASE k + Chunk = AddrLimit
  <2>1. Wrap(k + r.size) = 0
    BY <1>2, <1>6, GeometryAssumption DEF Wrap
  <2>2. ASSUME NEW b \in Addr PROVE k \in DOMAIN regs => ~Covers(regs, k, b)
    <3>1. ASSUME k \in DOMAIN regs, Covers(regs, k, b) PROVE FALSE
      <4>1. /\ k <= b /\ b < k + regs[k].size /\ regs[k].size \in Nat
            /\ k + regs[k].size < AddrLimit
        BY <3>1, CoversFacts
      <4>2. <<k, regs[k].size>> \in Flat!Extents
        BY <3>1 DEF WellFormed
      <4>3. k + regs[k].size > AddrLimit - Chunk => regs[k].size = Chunk
        BY <4>2, ExtentFacts
      <4> HIDE DEF k
      <4> QED BY <1>1, <1>6, <4>1, <4>3, GeometryAssumption DEF Addr
    <3> QED BY <3>1
  <2>3. ASSUME NEW b \in Addr
        PROVE  CellAt(m, b) = CellAt(regs, b) /\ (Mapped(m, b) <=> Mapped(regs, b))
    <3>1. ~ (k <= b /\ b < Wrap(k + r.size))
      BY <2>1 DEF Addr
    <3> HIDE DEF k, r
    <3> QED BY <1>1, <1>2, <2>2, <3>1, PutElsewhere
  <2>4. ~ (a < AddrLimit - Chunk)
    BY <1>1, <1>6, GeometryAssumption DEF Addr
  <2> QED BY <1>3, <2>3, <2>4
<1> HIDE DEF k
<1> QED BY <1>1, <1>5, <1>6, GeometryAssumption DEF Addr

\* The view of a map, read at an address of FlatMemory.
LEMMA ViewAt ==
  /\ Flat!Addr = Addr
  /\ \A regs : \A b \in Addr : View(regs)[b] = CellAt(regs, b)
  /\ \A r1, r2 : (\A b \in Addr : CellAt(r1, b) = CellAt(r2, b)) => View(r1) = View(r2)
BY DEF View, Addr, Flat!Addr

LEMMA ReadStep ==
  ASSUME TypeOK, TypeOK', NEW a \in Addr, NEW n \in AccessSizes, Read(a, n),
         wild' = wild
  PROVE  Flat!NoEffect \/ Flat!Load(a)
<1> DEFINE found == AllocateOnDemand(regions, a)
<1>1. WellFormed(regions) /\ WellFormed(regions') /\ WellFormed(found)
  BY OnDemandWellFormed DEF TypeOK, WellFormed
<1>2. regions' = AfterRead(regions, a)
  BY DEF Read
<1>3. CASE Mapped(regions, a)
  <2>1. found = regions /\ GetRegion(regions, a) \in DOMAIN regions
    BY <1>1, <1>3, GetRegionFacts DEF AllocateOnDemand, WellFormed
  <2>2. regions' = [regions EXCEPT ![GetRegion(regions, a)] = Backed(@)]
    BY <1>2, <1>3, <2>1 DEF AfterRead
  <2>3. \A b \in Addr : CellAt(regions', b) = CellAt(regions, b)
    BY <1>1, <2>1, <2>2, BackedCells
  <2>4. View(regions') = View(regions)
    BY <2>3, ViewAt
  <2> QED BY <2>4 DEF Flat!NoEffect, Flat!vars, Read
<1>4. CASE ~Mapped(regions, a)
  <2>1. regions' = found
    <3>1. CASE ~Mapped(found, a)
      BY <1>2, <3>1 DEF AfterRead
    <3>2. CASE Mapped(found, a)
      <4>1. GetRegion(found, a) \in DOMAIN found /\ found[GetRegion(found, a)].present
        BY <1>1, <1>4, <3>2, OnDemandCells
      <4>2. regions' = [found EXCEPT ![GetRegion(found, a)] = Backed(@)]
        BY <1>2, <3>2 DEF AfterRead
      <4>3. Backed(found[GetRegion(found, a)]) = found[GetRegion(found, a)]
        BY <4>1 DEF Backed
      <4>4. found = [b \in DOMAIN found |-> found[b]]
        BY <1>1 DEF WellFormed
      <4> HIDE DEF found
      <4> QED BY <4>1, <4>2, <4>3, <4>4
    <3> QED BY <3>1, <3>2
  <2>2. View(regions') \in [Flat!Addr -> Flat!Cell]
    BY <1>1, ViewType
  <2>3. View(regions)[a].mapped = FALSE
    BY <1>4, ViewAt DEF CellAt, UnmappedCell
  <2>4. /\ \A b \in Addr :
              \/ View(regions')[b] = View(regions)[b]
              \/ /\ Flat!InExtent(Flat!ChunkOf(a), b)
                 /\ View(regions')[b] = Flat!Blank({"R", "W"})
        /\ a < AddrLimit - Chunk => View(regions')[a] = Flat!Blank({"R", "W"})
    BY <1>1, <1>4, <2>1, OnDemandCells, ViewAt
  <2> QED BY <2>2, <2>3, <2>4, ViewAt DEF Flat!Load, Flat!LastChunk
<1> QED BY <1>3, <1>4

LEMMA AllocationFailsStep ==
  ASSUME TypeOK, TypeOK', NEW a \in Addr, AllocationFails(a)
  PROVE  Flat!NoEffect \/ Flat!LoseBacking
<1>1. WellFormed(regions) /\ WellFormed(regions')
  BY DEF TypeOK, WellFormed
<1>2. CASE ~Mapped(regions, a)
  BY <1>2 DEF AllocationFails, AfterFailedAllocation, Flat!NoEffect, Flat!vars
<1>3. CASE Mapped(regions, a)
  <2>1. GetRegion(regions, a) \in DOMAIN regions
    BY <1>1, <1>3, GetRegionFacts DEF WellFormed
  <2>2. regions' = [regions EXCEPT ![GetRegion(regions, a)] = BackingFailed(@)]
    BY <1>3 DEF AllocationFails, AfterFailedAllocation
  <2>3. \A b \in Addr :
          \/ CellAt(regions', b) = CellAt(regions, b)
          \/ /\ CellAt(regions, b).mapped /\ CellAt(regions, b).byte = 0
             /\ CellAt(regions', b) = Flat!WithByte(CellAt(regions, b), Undef)
    BY <1>1, <2>1, <2>2, BackedCells
  <2>4. View(regions') \in [Flat!Addr -> Flat!Cell]
    BY <1>1, ViewType
  <2> QED BY <2>3, <2>4, ViewAt DEF Flat!LoseBacking
<1> QED BY <1>2, <1>3

LEMMA MapStep ==
  ASSUME TypeOK, TypeOK', NEW s \in Segments, MapSegment(s)
  PROVE  Flat!NoEffect \/ Flat!Map(s)
<1>1. WellFormed(regions) /\ WellFormed(regions') /\ DOMAIN regions \subseteq Addr
  BY DEF TypeOK, WellFormed
<1>2. CASE ~MapAccepted(regions, s.vaddr, s.size)
  BY <1>2 DEF MapSegment, MapRegion, Flat!NoEffect, Flat!vars
<1>3. CASE MapAccepted(regions, s.vaddr, s.size)
  <2> DEFINE k == s.vaddr
             r == Region(s.size, s.flags)
  <2>1. /\ k \in Addr /\ s.size \in Nat /\ k + s.size < AddrLimit
        /\ r.size = s.size /\ Wrap(k + r.size) = k + s.size
    BY SegmentAssumption, GeometryAssumption DEF Addr, Region, Wrap
  <2>2. regions' = Put(regions, k, r)
    BY <1>3 DEF MapSegment, MapRegion
  <2>3. ASSUME NEW b \in Addr PROVE k \in DOMAIN regions => ~Covers(regions, k, b)
    <3>1. ASSUME k \in DOMAIN regions, Covers(regions, k, b) PROVE FALSE
      <4>1. /\ k <= b /\ b < k + regions[k].size /\ regions[k].size \in Nat
            /\ k + regions[k].size < AddrLimit
        BY <1>1, <3>1, CoversFacts
      <4>2. Wrap(k + regions[k].size) = k + regions[k].size
        BY <2>1, <4>1, GeometryAssumption DEF Wrap, Addr
      <4>3. OverlapSeen(regions, k, k, s.size)
        BY <2>1, <4>1, <4>2, GeometryAssumption DEF OverlapSeen, Addr
      <4> QED BY <1>3, <3>1, <4>3 DEF MapAccepted
    <3> QED BY <3>1
  <2>4. ASSUME NEW b \in Addr, ~ (k <= b /\ b < k + s.size)
        PROVE  CellAt(regions', b) = CellAt(regions, b)
    <3> HIDE DEF k, r
    <3> QED BY <1>1, <2>1, <2>2, <2>3, <2>4, PutElsewhere
  <2>5. ASSUME NEW b \in Addr, k <= b, b < k + s.size
        PROVE  \/ CellAt(regions', b) = CellOf(r, b - k)
               \/ Mapped(regions, b) /\ CellAt(regions', b) = CellAt(regions, b)
    <3> HIDE DEF k, r
    <3> QED BY <1>1, <2>1, <2>2, <2>5, PutInside
  <2>6. ASSUME NEW b \in Addr, k <= b, b < k + s.size
        PROVE  CellOf(r, b - k) = Flat!Blank(s.flags)
    <3>1. b - k \in 0 .. (s.size - 1)
      BY <2>1, <2>6 DEF Addr
    <3> QED BY <2>1, <3>1, FreshCell
  <2>7. ASSUME NEW b \in Addr, Mapped(regions, b)
        PROVE  CellAt(regions, b).mapped
    BY <2>7 DEF CellAt, CellOf
  <2>8. View(regions') \in [Flat!Addr -> Flat!Cell]
    BY <1>1, ViewType
  <2>9. ASSUME NEW b \in Addr
        PROVE  LET inside == Flat!InExtent(<<s.vaddr, s.size>>, b) IN
               /\ ~inside => View(regions')[b] = View(regions)[b]
               /\ inside => \/ View(regions')[b] = Flat!Blank(s.flags)
                            \/ View(regions)[b].mapped /\ View(regions')[b] = View(regions)[b]
    BY <2>4, <2>5, <2>6, <2>7, ViewAt DEF Flat!InExtent
  <2> QED BY <2>8, <2>9, ViewAt DEF Flat!Map
<1> QED BY <1>2, <1>3

LEMMA UnmapStep ==
  ASSUME TypeOK, TypeOK', NEW a \in Addr, Unmap(a)
  PROVE  Flat!NoEffect \/ \E e \in Flat!Extents : Flat!Unmap(e) /\ UNCHANGED wild
<1>1. WellFormed(regions) /\ WellFormed(regions') /\ DOMAIN regions \subseteq Addr
  BY DEF TypeOK, WellFormed
<1>2. regions' = UnmapRegion(regions, a)
  BY DEF Unmap
<1>3. CASE a \notin DOMAIN regions
  <2>1. regions' = regions
    BY <1>1, <1>2, <1>3 DEF UnmapRegion, WellFormed
  <2>2. unmaps' = unmaps
    BY <1>3 DEF Unmap, TypeOK
  <2> QED BY <2>1, <2>2 DEF Flat!NoEffect, Flat!vars, Unmap
<1>4. CASE a \in DOMAIN regions
  <2> DEFINE e == <<a, regions[a].size>>
  <2>1. e \in Flat!Extents
    BY <1>1, <1>4 DEF WellFormed
  <2>2. ASSUME NEW b \in Addr, ~Flat!InExtent(e, b)
        PROVE  CellAt(regions', b) = CellAt(regions, b)
    <3>1. ~Covers(regions, a, b)
      BY <1>1, <1>4, <2>2, CoversFacts DEF Flat!InExtent
    <3>2. Covering(regions', b) = Covering(regions, b)
      BY <1>2, <3>1 DEF UnmapRegion, Covering, Covers
    <3>3. /\ Mapped(regions', b) <=> Mapped(regions, b)
          /\ GetRegion(regions', b) = GetRegion(regions, b)
      BY <3>2 DEF Mapped, GetRegion
    <3>4. ASSUME Mapped(regions, b)
          PROVE  regions'[GetRegion(regions, b)] = regions[GetRegion(regions, b)]
      <4>1. /\ GetRegion(regions, b) \in DOMAIN regions
            /\ GetRegion(regions, b) # a
        BY <1>1, <3>1, <3>4, GetRegionFacts
      <4> QED BY <1>2, <4>1 DEF UnmapRegion
    <3> QED BY <3>3, <3>4 DEF CellAt, Offset
  <2>3. View(regions') \in [Flat!Addr -> Flat!Cell]
    BY <1>1, ViewType
  <2>4. unmaps' = ~unmaps /\ wild' = wild
    BY <1>4 DEF Unmap, TypeOK
  <2>5. Flat!Unmap(e)
    <3> HIDE DEF e
    <3> QED BY <2>2, <2>3, <2>4, ViewAt DEF Flat!Unmap
  <2> QED BY <2>1, <2>4, <2>5
<1> QED BY <1>3, <1>4

LEMMA PowerSteps ==
  ASSUME TypeOK
  PROVE  /\ Shutdown => Flat!PowerOff
         /\ InitMemory => Flat!PowerOn
<1>1. View(NoRegions) = [b \in Flat!Addr |-> Flat!Unmapped]
  <2>1. \A b \in Addr : ~Mapped(NoRegions, b)
    BY DEF Mapped, Covering, NoRegions
  <2> QED BY <2>1 DEF View, CellAt, UnmappedCell, Flat!Unmapped, Addr, Flat!Addr
<1>2. Shutdown => Flat!PowerOff
  BY <1>1 DEF Shutdown, Flat!PowerOff
<1>3. ASSUME InitMemory PROVE Flat!PowerOn
  <2> DEFINE r == LazyRegion(MainSize, RW)
             m == Put(NoRegions, MainBase, r)
  <2>1. regions = NoRegions /\ regions' = m
    BY <1>3 DEF InitMemory, InitialRegions, TypeOK
  <2>2. /\ MainBase \in Addr /\ r.size = MainSize
        /\ Wrap(MainBase + r.size) = MainBase + MainSize
    BY GeometryAssumption DEF Addr, LazyRegion, Wrap
  <2>3. ASSUME NEW b \in Addr, ~Flat!InExtent(<<MainBase, MainSize>>, b)
        PROVE  CellAt(m, b) = Flat!Unmapped
    <3>1. ~Mapped(m, b)
      BY <2>2, <2>3 DEF Mapped, Covering, Covers, NoRegions, Put, Flat!InExtent
    <3> QED BY <3>1 DEF CellAt, UnmappedCell, Flat!Unmapped
  <2>4. ASSUME NEW b \in Addr, Flat!InExtent(<<MainBase, MainSize>>, b)
        PROVE  CellAt(m, b) = Flat!WithByte(Flat!Blank({"R", "W"}),
                                 IF b < MainBase + Chunk THEN 0 ELSE Undef)
    <3>1. MainBase <= b /\ b < MainBase + MainSize
      BY <2>4 DEF Flat!InExtent
    <3>2. CellOf(r, b - MainBase)
            = Flat!WithByte(Flat!Blank({"R", "W"}),
                            IF b < MainBase + Chunk THEN 0 ELSE Undef)
      <4>1. b - MainBase < Lesser(MainSize, Chunk) <=> b < MainBase + Chunk
        BY <3>1, GeometryAssumption DEF Lesser, Addr
      <4>2. RegionByte(r, b - MainBase) = IF b < MainBase + Chunk THEN 0 ELSE Undef
        BY <4>1 DEF RegionByte, LazyRegion
      <4> QED BY <4>2 DEF CellOf, LazyRegion, RW, Flat!WithByte, Flat!Blank
    <3>3. ~Mapped(NoRegions, b) /\ DOMAIN NoRegions \subseteq Addr
      BY DEF Mapped, Covering, NoRegions
    <3>4. CellAt(m, b) = CellOf(r, b - MainBase)
      <4> HIDE DEF r
      <4> QED BY <2>2, <3>1, <3>3, PutInside
    <3> QED BY <3>2, <3>4
  <2> HIDE DEF m
  <2>5. \A b \in Addr : View(m)[b] =
           IF Flat!InExtent(<<MainBase, MainSize>>, b)
           THEN Flat!WithByte(Flat!Blank({"R", "W"}),
                              IF b < MainBase + Chunk THEN 0 ELSE Undef)
           ELSE Flat!Unmapped
    BY <2>3, <2>4, ViewAt
  <2>6. View(m) = [b \in Flat!Addr |->
           IF Flat!InExtent(<<MainBase, MainSize>>, b)
           THEN Flat!WithByte(Flat!Blank({"R", "W"}),
                              IF b < MainBase + Chunk THEN 0 ELSE Undef)
           ELSE Flat!Unmapped]
    BY <2>5, ViewAt DEF View
  <2> QED BY <1>1, <2>1, <2>6 DEF Flat!PowerOn
<1> QED BY <1>2, <1>3

LEMMA WriteStep ==
  ASSUME TypeOK, TypeOK', NEW a \in Addr, NEW n \in AccessSizes,
         NEW bytes \in [0 .. (n - 1) -> Byte], Write(a, n, bytes)
  PROVE  \/ Flat!NoEffect \/ Flat!Undefined
         \/ Flat!Writable(a, n) /\ Flat!Store(a, n, bytes)
<1> DEFINE after == AfterWrite(regions, a, n, bytes)
           stray == Permits(after, a, n, "W") /\ ~InsideBacking(after, a, n)
           k     == GetRegion(regions, a)
           held  == Backed(regions[k])
           new   == [held EXCEPT !.data = Stored(held.data, a - k, n, bytes)]
<1>1. /\ WellFormed(regions) /\ WellFormed(regions') /\ DOMAIN regions \subseteq Addr
      /\ WellFormed(after) /\ n \in Nat \ {0}
  BY AfterWriteWellFormed, AccessAssumption DEF TypeOK, WellFormed
<1>2. CASE stray
  <2>1. wild' = TRUE /\ unmaps' = unmaps
    BY <1>2 DEF Write
  <2> QED BY <1>1, <2>1, ViewType DEF Flat!Undefined
<1>3. CASE ~stray /\ ~Permits(regions, a, n, "W")
  <2>1. after = regions
    BY <1>3 DEF AfterWrite
  <2>2. regions' = regions /\ wild' = wild /\ unmaps' = unmaps
    BY <1>3, <2>1 DEF Write, TypeOK
  <2> QED BY <2>2 DEF Flat!NoEffect, Flat!vars
<1>4. CASE ~stray /\ Permits(regions, a, n, "W")
  <2>1. after = [regions EXCEPT ![k] = new]
    BY <1>4 DEF AfterWrite
  <2>2. regions' = after /\ wild' = wild
    BY <1>4 DEF Write, TypeOK
  <2>3. /\ k \in DOMAIN regions /\ Covers(regions, k, a) /\ RegionOK(regions[k])
        /\ k \in Addr /\ k <= a
    BY <1>1, <1>4, GetRegionFacts DEF Permits, WellFormed, Covers
  <2>4. /\ new.size = regions[k].size /\ new.flags = regions[k].flags
        /\ new.present /\ new.data = Stored(held.data, a - k, n, bytes)
        /\ held.size = regions[k].size /\ held.flags = regions[k].flags
        /\ held.present
    BY <2>3 DEF RegionOK, Backed
  <2> HIDE DEF new, held
  <2>5. /\ DOMAIN after = DOMAIN regions /\ after[k] = new
        /\ \A c \in DOMAIN regions : c # k => after[c] = regions[c]
    BY <1>1, <2>1, <2>3 DEF WellFormed
  <2>6. \A c \in DOMAIN regions : /\ regions[c].size = after[c].size
                                  /\ regions[c].flags = after[c].flags
    BY <2>4, <2>5
  <2>7. /\ GetRegion(after, a) = k /\ Mapped(after, a)
        /\ Permits(after, a, n, "W")
    <3>1. GetRegion(after, a) = k /\ (Mapped(after, a) <=> Mapped(regions, a))
      BY <2>5, <2>6, SameShape
    <3> QED BY <1>4, <2>3, <2>4, <2>5, <3>1 DEF Permits, Offset
  <2>8. \A i \in 0 .. (n - 1) : a - k + i \in DOMAIN held.data
    <3>1. InsideBacking(after, a, n)
      BY <1>4, <2>7
    <3> QED BY <2>4, <2>5, <2>7, <3>1 DEF InsideBacking, Offset, Stored
  <2>9. ASSUME NEW i \in 0 .. (n - 1)
        PROVE  /\ a + i \in Addr /\ Mapped(regions, a + i)
               /\ GetRegion(regions, a + i) = k
    BY <1>1, <1>4, <2>9, OneRegion
  <2>10. Flat!Writable(a, n)
    <3>1. ASSUME NEW i \in 0 .. (n - 1)
          PROVE  /\ a + i \in Addr
                 /\ View(regions)[a + i].mapped
                 /\ "W" \in View(regions)[a + i].flags
      <4> DEFINE b == a + i
      <4>1. CellAt(regions, b) = CellOf(regions[k], b - k)
        <5>1. Mapped(regions, b) /\ GetRegion(regions, b) = k
          BY <2>9
        <5> HIDE DEF b, k
        <5> QED BY <5>1 DEF CellAt, Offset
      <4>2. "W" \in regions[k].flags
        BY <1>4 DEF Permits
      <4> QED BY <2>9, <4>1, <4>2, ViewAt DEF CellOf
    <3> QED BY <3>1, ViewAt DEF Flat!Writable
  <2>11. ASSUME NEW b \in Addr, b >= a, b < a + n
         PROVE  CellAt(after, b) = Flat!WithByte(CellAt(regions, b), bytes[b - a])
    <3>1. b - a \in 0 .. (n - 1) /\ a + (b - a) = b
      BY <1>1, <2>11 DEF Addr
    <3>2. Mapped(regions, b) /\ GetRegion(regions, b) = k
      BY <2>9, <3>1
    <3>3. CellAt(after, b) = Flat!WithByte(CellAt(regions, b), RegionByte(after[k], b - k))
      BY <1>1, <2>5, <2>6, <3>2, ReplaceCells
    <3>4. b - k \in DOMAIN held.data /\ b - k >= a - k /\ b - k < a - k + n
          /\ b - k - (a - k) = b - a
      BY <1>1, <2>3, <2>8, <2>11, <3>1 DEF Addr
    <3>5. RegionByte(after[k], b - k) = bytes[b - a]
      BY <2>4, <2>5, <3>4 DEF RegionByte, Stored
    <3> QED BY <3>3, <3>5
  <2>12. ASSUME NEW b \in Addr, ~ (b >= a /\ b < a + n)
         PROVE  CellAt(after, b) = CellAt(regions, b)
    <3> DEFINE m == [regions EXCEPT ![k] = Backed(@)]
    <3>1. CellAt(m, b) = CellAt(regions, b)
      BY <1>1, <2>3, BackedCells
    <3>2. /\ DOMAIN m = DOMAIN regions /\ m[k] = held
          /\ \A c \in DOMAIN regions : c # k => m[c] = regions[c]
      BY <1>1, <2>3 DEF held, WellFormed
    <3> HIDE DEF m
    <3>3. \A c \in DOMAIN m : /\ m[c].size = after[c].size
                             /\ m[c].flags = after[c].flags
      BY <2>4, <2>5, <2>6, <3>2
    <3>4. CASE ~Mapped(m, b)
      BY <1>1, <2>5, <3>1, <3>2, <3>3, <3>4, ReplaceCells
    <3>5. CASE Mapped(m, b) /\ GetRegion(m, b) # k
      <4>1. /\ GetRegion(m, b) \in DOMAIN m
            /\ CellAt(m, b) = CellOf(m[GetRegion(m, b)], b - GetRegion(m, b))
            /\ CellAt(after, b) = CellOf(after[GetRegion(m, b)], b - GetRegion(m, b))
        BY <1>1, <2>5, <3>2, <3>3, <3>5, ReplaceCells
      <4> QED BY <2>5, <3>1, <3>2, <3>5, <4>1
    <3>6. CASE Mapped(m, b) /\ GetRegion(m, b) = k
      <4>1. /\ CellAt(m, b) = CellOf(held, b - k)
            /\ CellAt(after, b) = CellOf(new, b - k)
        BY <1>1, <2>5, <3>2, <3>3, <3>6, ReplaceCells
      <4>2. ~ (b - k >= a - k /\ b - k < a - k + n)
        BY <1>1, <2>3, <2>12 DEF Addr
      <4>3. RegionByte(new, b - k) = RegionByte(held, b - k)
        BY <2>4, <4>2 DEF RegionByte, Stored
      <4> QED BY <2>4, <3>1, <4>1, <4>3 DEF CellOf
    <3> QED BY <3>4, <3>5, <3>6
  <2> HIDE DEF after
  <2>13. \A b \in Addr : View(regions')[b] =
            IF b >= a /\ b < a + n
            THEN Flat!WithByte(View(regions)[b], bytes[b - a])
            ELSE View(regions)[b]
    BY <2>2, <2>11, <2>12, ViewAt
  <2>14. Flat!Store(a, n, bytes)
    BY <2>13, ViewAt DEF Flat!Store, View
  <2> QED BY <2>10, <2>14
<1> QED BY <1>2, <1>3, <1>4
-----------------------------------------------------------------------------
LEMMA InitRefines == Init => Flat!Init
<1>1. \A b \in Addr : ~Mapped(NoRegions, b)
  BY DEF Mapped, Covering, NoRegions
<1> QED BY <1>1 DEF Init, Flat!Init, View, CellAt, UnmappedCell, Flat!Unmapped,
                    Addr, Flat!Addr

LEMMA NextRefines == TypeOK /\ TypeOK' /\ [Next]_vars => [Flat!Next]_(Flat!vars)
<1> SUFFICES ASSUME TypeOK, TypeOK', [Next]_vars
             PROVE  Flat!Next \/ UNCHANGED Flat!vars
  OBVIOUS
<1>0. ASSUME Flat!Operation, UNCHANGED <<wild, unmaps>> PROVE Flat!Next
  BY <1>0 DEF Flat!Next
<1>1. CASE InitMemory
  BY <1>0, <1>1, PowerSteps DEF Flat!Operation, InitMemory
<1>2. CASE Shutdown
  BY <1>0, <1>2, PowerSteps DEF Flat!Operation, Shutdown
<1>3. ASSUME NEW s \in Segments, MapSegment(s) PROVE Flat!Next
  <2>1. UNCHANGED <<wild, unmaps>>
    BY <1>3 DEF MapSegment
  <2> QED BY <1>0, <1>3, <2>1, MapStep DEF Flat!Next, Flat!Operation
<1>4. ASSUME NEW a \in Addr, Unmap(a) PROVE Flat!Next
  BY <1>4, UnmapStep DEF Flat!Next
<1>5. ASSUME NEW a \in Addr, NEW n \in AccessSizes, Read(a, n) PROVE Flat!Next
  <2>1. unmaps' = unmaps
    BY <1>5 DEF Read
  <2>2. CASE wild' = wild
    BY <1>0, <1>5, <2>1, <2>2, ReadStep, ViewAt DEF Flat!Next, Flat!Operation
  <2>3. CASE wild' # wild
    <3>1. wild' = TRUE
      BY <1>5, <2>3 DEF Read, TypeOK
    <3>2. View(regions') \in [Flat!Addr -> Flat!Cell]
      BY ViewType DEF TypeOK, WellFormed
    <3> QED BY <2>1, <3>1, <3>2 DEF Flat!Next, Flat!Undefined
  <2> QED BY <2>2, <2>3
<1>6. ASSUME NEW a \in Addr, NEW n \in AccessSizes,
             NEW bytes \in [0 .. (n - 1) -> Byte], Write(a, n, bytes)
      PROVE  Flat!Next
  <2>1. CASE Flat!NoEffect \/ Flat!Undefined
    BY <2>1 DEF Flat!Next
  <2>2. unmaps' = unmaps
    BY <1>6 DEF Write
  <2>3. CASE wild' # wild
    <3>1. wild' = TRUE
      BY <1>6, <2>3 DEF Write, TypeOK
    <3>2. View(regions') \in [Flat!Addr -> Flat!Cell]
      BY ViewType DEF TypeOK, WellFormed
    <3> QED BY <2>2, <3>1, <3>2 DEF Flat!Next, Flat!Undefined
  <2>4. CASE wild' = wild /\ Flat!Writable(a, n) /\ Flat!Store(a, n, bytes)
    BY <1>0, <2>2, <2>4, ViewAt DEF Flat!Operation
  <2> QED BY <1>6, <2>1, <2>3, <2>4, WriteStep
<1>7. ASSUME NEW a \in Addr, AllocationFails(a) PROVE Flat!Next
  <2>1. UNCHANGED <<wild, unmaps>>
    BY <1>7 DEF AllocationFails
  <2> QED BY <1>0, <1>7, <2>1, AllocationFailsStep DEF Flat!Next, Flat!Operation
<1>8. CASE UNCHANGED vars
  BY <1>8 DEF vars, Flat!vars
<1> QED BY <1>1, <1>2, <1>3, <1>4, <1>5, <1>6, <1>7, <1>8 DEF Next

\* The memory manager implements the flat memory: whatever regions overlap or
\* are allocated on demand, a read of a mapped address changes nothing the
\* guest can see, an on-demand allocation stays within its 1 MB chunk, a write
\* changes its own bytes and a mapping its own range (MemoryManager.cpp:14-266).
THEOREM RefinesFlatMemory == Spec => ImplementsFlatMemory
BY InitRefines, NextRefines, TypeCorrect, PTL
   DEF Spec, ImplementsFlatMemory, Flat!Spec
=============================================================================
