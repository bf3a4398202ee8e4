-------------------------- MODULE ElfLoader_proofs --------------------------
(***************************************************************************)
(* Proofs about the loader for every set of files, every geometry of the   *)
(* address space and every order of loads and guest accesses: the state    *)
(* keeps its type, nothing is loaded over a recorded segment, the guest    *)
(* sees the whole image when load() reports success, the PPU is only sent  *)
(* to such an image, and a SELF is read within its file.                   *)
(***************************************************************************)
EXTENDS ElfLoader, MemoryManager_proofs, FiniteSetTheorems, SequenceTheorems

-----------------------------------------------------------------------------
(***************************************************************************)
(* Regions.  What a segment needs of them to stay where it was recorded,   *)
(* and that every operation a load or a guest performs preserves it.       *)
(***************************************************************************)
Holds(regs, s) == s.vaddr \in DOMAIN regs /\ regs[s.vaddr].size >= s.size

LEMMA SegmentFacts ==
  ASSUME NEW s \in Segments
  PROVE  /\ s.vaddr \in Addr /\ s.size \in Nat /\ s.flags \in SUBSET Prot
         /\ s.vaddr + s.size <= AddrLimit - Chunk
         /\ s.vaddr + s.size < AddrLimit
         /\ Wrap(s.vaddr + s.size) = s.vaddr + s.size
         /\ <<s.vaddr, s.size>> \in Flat!Extents
<1>1. /\ s.vaddr \in Nat /\ s.size \in Nat /\ s.flags \in SUBSET Prot
      /\ s.vaddr + s.size <= AddrLimit - Chunk
      /\ AddrLimit \in Nat /\ Chunk \in Nat \ {0}
  BY SegmentAssumption, GeometryAssumption
<1> QED BY <1>1 DEF Addr, Wrap, Flat!Extents

\* A range that mapRegion accepts has nothing around its first address.
LEMMA AcceptedFacts ==
  ASSUME NEW regs, WellFormed(regs), NEW s \in Segments,
         MapAccepted(regs, s.vaddr, s.size)
  PROVE  /\ \A c \in DOMAIN regs : ~Covers(regs, c, s.vaddr)
         /\ \A b \in Addr : s.vaddr \in DOMAIN regs => ~Covers(regs, s.vaddr, b)
<1>1. ASSUME NEW c \in DOMAIN regs, Covers(regs, c, s.vaddr) PROVE FALSE
  <2>1. OverlapSeen(regs, c, s.vaddr, s.size)
    BY <1>1 DEF Covers, OverlapSeen
  <2> QED BY <2>1 DEF MapAccepted
<1>2. ASSUME NEW b \in Addr, s.vaddr \in DOMAIN regs, Covers(regs, s.vaddr, b)
      PROVE  FALSE
  <2>1. s.vaddr \in Addr /\ b \in Addr
    BY SegmentFacts
  <2>2. Covers(regs, s.vaddr, s.vaddr)
    <3>1. s.vaddr <= b /\ b < s.vaddr + regs[s.vaddr].size
          /\ s.vaddr + regs[s.vaddr].size < AddrLimit /\ regs[s.vaddr].size \in Nat
      BY <1>2, <2>1, CoversFacts
    <3>2. s.vaddr < s.vaddr + regs[s.vaddr].size
      BY <2>1, <3>1, GeometryAssumption DEF Addr
    <3> QED BY <1>2, <2>1, <3>1, <3>2, CoversFacts, GeometryAssumption DEF Addr
  <2> QED BY <1>1, <1>2, <2>2
<1> QED BY <1>1, <1>2

LEMMA MapWellFormed ==
  ASSUME NEW regs, WellFormed(regs), NEW s \in Segments
  PROVE  WellFormed(MapRegion(regs, s.vaddr, s.size, s.flags))
<1> DEFINE r == Region(s.size, s.flags)
<1>1. RegionOK(r) /\ r.size = s.size
  BY SegmentFacts, NewRegionOK DEF Region
<1>2. s.vaddr \in Addr /\ <<s.vaddr, r.size>> \in Flat!Extents
  BY <1>1, SegmentFacts
<1> HIDE DEF r
<1>3. WellFormed(Put(regs, s.vaddr, r))
  BY <1>1, <1>2, PutWellFormed
<1> QED BY <1>3 DEF MapRegion, r

LEMMA MapHolds ==
  ASSUME NEW regs, WellFormed(regs), NEW s \in Segments, NEW t \in Segments,
         Holds(regs, t), MapAccepted(regs, s.vaddr, s.size), NEW r, r.size \in Nat
  PROVE  Holds(Put(regs, s.vaddr, r), t)
<1> DEFINE v == s.vaddr
           m == Put(regs, v, r)
<1>1. /\ DOMAIN m = DOMAIN regs \cup {v} /\ m[v] = r
      /\ \A c \in DOMAIN regs : c # v => m[c] = regs[c]
  BY DEF Put
<1> HIDE DEF m
<1>2. CASE t.vaddr # v
  BY <1>1, <1>2 DEF Holds, m
<1>3. CASE t.vaddr = v
  <2>1. /\ v \in Addr /\ t.size \in Nat /\ v + t.size <= AddrLimit - Chunk
        /\ AddrLimit \in Nat /\ Chunk \in Nat \ {0}
    BY <1>3, SegmentFacts, GeometryAssumption
  <2>2. v \in DOMAIN regs /\ regs[v].size >= t.size /\ ~Covers(regs, v, v)
    BY <1>3, <2>1, AcceptedFacts DEF Holds
  <2>3. /\ regs[v].size \in Nat /\ v + regs[v].size <= AddrLimit
        /\ v + regs[v].size >= AddrLimit => regs[v].size = Chunk
        /\ v + regs[v].size < AddrLimit => regs[v].size = 0
    BY <2>1, <2>2, CoversFacts DEF Addr
  <2>4. t.size = 0
    BY <2>1, <2>2, <2>3 DEF Addr
  <2> QED BY <1>1, <1>3, <2>4 DEF Holds, m
<1> QED BY <1>2, <1>3

LEMMA ReadHolds ==
  ASSUME NEW regs, WellFormed(regs), NEW a \in Addr, NEW t \in Segments,
         Holds(regs, t)
  PROVE  Holds(AfterRead(regs, a), t)
<1> DEFINE k == ChunkBase(a)
           found == AllocateOnDemand(regs, a)
<1>1. WellFormed(found) /\ Holds(found, t)
  <2>1. CASE Mapped(regs, a)
    BY <2>1 DEF AllocateOnDemand
  <2>2. CASE ~Mapped(regs, a)
    <3>1. found = Put(regs, k, Region(Chunk, RW))
      BY <2>2 DEF AllocateOnDemand
    <3>2. /\ DOMAIN found = DOMAIN regs \cup {k} /\ found[k].size = Chunk
          /\ \A c \in DOMAIN regs : c # k => found[c] = regs[c]
      BY <3>1 DEF Put, Region
    <3>3. WellFormed(found)
      BY OnDemandWellFormed
    <3>4. CASE t.vaddr # k
      <4> HIDE DEF found, k
      <4> QED BY <3>2, <3>3, <3>4 DEF Holds
    <3>5. CASE t.vaddr = k
      <4>1. /\ k \in Addr /\ k <= a /\ a < k + Chunk
            /\ AddrLimit \in Nat /\ Chunk \in Nat
        BY ChunkFacts, GeometryAssumption
      <4>2. k \in DOMAIN regs /\ regs[k].size >= t.size /\ t.size \in Nat
        BY <3>5, SegmentFacts DEF Holds
      <4>3. ~Covers(regs, k, a)
        BY <2>2, <4>2 DEF Mapped, Covering
      <4>4. regs[k].size \in Nat /\ regs[k].size <= Chunk
        BY <4>1, <4>2, <4>3, CoversFacts DEF Addr
      <4>5. t.size <= Chunk
        BY <4>1, <4>2, <4>4
      <4> HIDE DEF found, k
      <4> QED BY <3>2, <3>3, <3>5, <4>1, <4>2, <4>5 DEF Holds
    <3> QED BY <3>4, <3>5
  <2> QED BY <2>1, <2>2
<1> HIDE DEF found
<1>2. CASE ~Mapped(found, a)
  BY <1>1, <1>2 DEF AfterRead, found
<1>3. CASE Mapped(found, a)
  <2> DEFINE g == GetRegion(found, a)
  <2>1. g \in DOMAIN found
    BY <1>1, <1>3, GetRegionFacts DEF WellFormed
  <2>2. Backed(found[g]).size = found[g].size
    BY <1>1, <2>1, BackedOK DEF WellFormed
  <2>3. AfterRead(regs, a) = [found EXCEPT ![g] = Backed(found[g])]
    BY <1>3 DEF AfterRead, found
  <2> HIDE DEF g
  <2> QED BY <1>1, <2>1, <2>2, <2>3 DEF Holds
<1> QED BY <1>2, <1>3
-----------------------------------------------------------------------------
(***************************************************************************)
(* What loading one segment does to the regions and to the guest's view.   *)
(***************************************************************************)

\* The new region is what the guest sees in its range, and all that changes.
LEMMA AcceptedCells ==
  ASSUME NEW regs, WellFormed(regs), NEW s \in Segments,
         MapAccepted(regs, s.vaddr, s.size), NEW r, r.size = s.size
  PROVE  LET m == Put(regs, s.vaddr, r)
         IN  /\ \A b \in SegmentRange(s) :
                   /\ b \in Addr /\ Mapped(m, b) /\ GetRegion(m, b) = s.vaddr
                   /\ CellAt(m, b) = CellOf(r, b - s.vaddr)
             /\ \A b \in Addr \ SegmentRange(s) : CellAt(m, b) = CellAt(regs, b)
<1> DEFINE v == s.vaddr
           n == s.size
           m == Put(regs, v, r)
<1>1. /\ v \in Addr /\ n \in Nat /\ v + n < AddrLimit /\ Wrap(v + r.size) = v + n
      /\ Addr \subseteq Nat /\ AddrLimit \in Nat
      /\ DOMAIN regs \subseteq Addr
  <2>1. /\ v \in Addr /\ n \in Nat /\ v + n < AddrLimit /\ Wrap(v + n) = v + n
    BY SegmentFacts
  <2>2. Addr \subseteq Nat /\ AddrLimit \in Nat
    BY GeometryAssumption DEF Addr
  <2> QED BY <2>1, <2>2 DEF WellFormed
<1>2. /\ \A c \in DOMAIN regs : ~Covers(regs, c, v)
      /\ \A b \in Addr : v \in DOMAIN regs => ~Covers(regs, v, b)
  BY AcceptedFacts
<1>3. /\ DOMAIN m = DOMAIN regs \cup {v} /\ m[v] = r
      /\ \A c \in DOMAIN regs : c # v => m[c] = regs[c]
  BY DEF Put
<1>4. SegmentRange(s) = v .. (v + n - 1)
  BY DEF SegmentRange
<1> HIDE DEF v, n, m
<1>5. ASSUME NEW b \in v .. (v + n - 1)
      PROVE  /\ b \in Addr /\ Mapped(m, b) /\ GetRegion(m, b) = v
             /\ CellAt(m, b) = CellOf(r, b - v)
  <2>1. b \in Nat /\ v <= b /\ b < v + n /\ b \in Addr
    BY <1>1, <1>5 DEF Addr
  <2>2. Covers(m, v, b)
    BY <1>1, <1>3, <2>1 DEF Covers
  <2>3. ASSUME NEW c \in DOMAIN m, Covers(m, c, b) PROVE v <= c
    <3>1. CASE c = v
      BY <1>1, <3>1
    <3>2. CASE c # v
      <4>1. c \in DOMAIN regs /\ c \in Nat /\ m[c] = regs[c]
        BY <1>1, <1>3, <3>2
      <4>2. c <= b /\ b < Wrap(c + regs[c].size) /\ Covers(regs, c, b)
        BY <2>3, <4>1 DEF Covers
      <4>3. b < c + regs[c].size /\ regs[c].size \in Nat
            /\ c + regs[c].size < AddrLimit
        BY <2>1, <4>1, <4>2, CoversFacts
      <4>4. c <= v => Covers(regs, c, v)
        BY <1>1, <2>1, <4>1, <4>3, CoversFacts
      <4> QED BY <1>1, <1>2, <4>1, <4>4
    <3> QED BY <3>1, <3>2
  <2>4. Mapped(m, b) /\ GetRegion(m, b) = v
    <3>1. DOMAIN m \subseteq Addr /\ v \in DOMAIN m
      BY <1>1, <1>3
    <3> QED BY <2>2, <2>3, <3>1, GetRegionUnique
  <2> QED BY <1>3, <2>1, <2>4 DEF CellAt, Offset
<1>6. ASSUME NEW b \in Addr, b \notin v .. (v + n - 1)
      PROVE  CellAt(m, b) = CellAt(regs, b)
  <2>1. ~ (v <= b /\ b < Wrap(v + r.size))
    BY <1>1, <1>6
  <2> QED BY <1>1, <1>2, <2>1, PutElsewhere DEF m
<1> QED BY <1>4, <1>5, <1>6 DEF v, m

\* Byte i of a segment as its program header has it.
ImageByte(h, i) == IF i < h.filesz THEN h.data[i] ELSE 0

IsImage(r, h) ==
    /\ RegionOK(r) /\ r.size = h.segment.size
    /\ \A i \in 0 .. (h.segment.size - 1) :
          CellOf(r, i) = [mapped |-> TRUE, flags |-> h.segment.flags,
                          byte |-> ImageByte(h, i)]

LEMMA HeaderFacts ==
  ASSUME NEW h, HeaderType(h)
  PROVE  /\ h.segment \in Segments /\ h.segment.size \in Nat
         /\ h.filesz \in Nat /\ h.filesz <= h.segment.size
         /\ h.data \in [0 .. (h.filesz - 1) -> Byte]
         /\ h.load \in BOOLEAN
<1>1. h.segment \in Segments
  BY DEF HeaderType
<1>2. h.segment.size \in Nat
  BY <1>1, SegmentFacts
<1> QED BY <1>1, <1>2 DEF HeaderType

LEMMA BlankImage ==
  ASSUME NEW h, HeaderType(h)
  PROVE  LET r == Region(h.segment.size, h.segment.flags)
         IN  /\ RegionOK(r) /\ r.size = h.segment.size
             /\ h.filesz = 0 => IsImage(r, h)
<1> DEFINE r == Region(h.segment.size, h.segment.flags)
<1>1. /\ h.segment.size \in Nat /\ h.segment.flags \in SUBSET Prot
  BY HeaderFacts, SegmentFacts
<1>2. RegionOK(r) /\ r.size = h.segment.size
  BY <1>1, NewRegionOK DEF Region
<1>3. ASSUME h.filesz = 0, NEW i \in 0 .. (h.segment.size - 1)
      PROVE  CellOf(r, i) = [mapped |-> TRUE, flags |-> h.segment.flags,
                             byte |-> ImageByte(h, i)]
  <2>1. ImageByte(h, i) = 0
    BY <1>1, <1>3 DEF ImageByte
  <2> QED BY <2>1 DEF CellOf, RegionByte, Region, Zeros
<1> QED BY <1>2, <1>3 DEF IsImage

\* mapRegion and write() of the file's bytes put the image there.
LEMMA LoadedRegion ==
  ASSUME NEW regs, WellFormed(regs), NEW h, HeaderType(h), NEW m,
         MapAccepted(regs, h.segment.vaddr, h.segment.size),
         m = MapRegion(regs, h.segment.vaddr, h.segment.size, h.segment.flags),
         h.filesz = 0 \/ Permits(m, h.segment.vaddr, h.filesz, "W")
  PROVE  \E r : /\ IsImage(r, h)
                /\ Put(regs, h.segment.vaddr, r) =
                      IF h.filesz = 0 THEN m
                      ELSE AfterWrite(m, h.segment.vaddr, h.filesz, h.data)
<1> DEFINE s == h.segment
           v == s.vaddr
           k == h.filesz
           R == Region(s.size, s.flags)
<1>1. /\ s \in Segments /\ s.size \in Nat /\ k \in Nat /\ k <= s.size
      /\ h.data \in [0 .. (k - 1) -> Byte]
  BY HeaderFacts
<1>2. v \in Addr /\ v \in Nat /\ v - v = 0
  <2>1. v \in Addr
    BY <1>1, SegmentFacts
  <2> QED BY <2>1, GeometryAssumption DEF Addr
<1>3. m = Put(regs, v, R)
  BY DEF MapRegion
<1>4. RegionOK(R) /\ R.size = s.size /\ (k = 0 => IsImage(R, h))
  BY BlankImage
<1>5. CASE k = 0
  BY <1>3, <1>4, <1>5
<1>6. CASE k # 0
  <2> DEFINE offset == v - v
             new == [R EXCEPT !.data = Stored(R.data, offset, k, h.data)]
  <2>1. v \in SegmentRange(s)
    <3>1. s.size \in Nat \ {0}
      BY <1>1, <1>6
    <3> HIDE DEF v
    <3> QED BY <1>2, <3>1 DEF SegmentRange, v
  <2>2. GetRegion(m, v) = v
    <3> HIDE DEF R
    <3> QED BY <1>1, <1>3, <1>4, <2>1, AcceptedCells
  <2>3. m[v] = R /\ v \in DOMAIN m
    BY <1>3 DEF Put
  <2>4. /\ Backed(R) = R /\ R.present /\ R.present = TRUE /\ R.flags = s.flags
        /\ R.data = Zeros(s.size)
    BY DEF Backed, Region
  <2> HIDE DEF R, v, k, offset
  <2>5. AfterWrite(m, v, k, h.data) = [m EXCEPT ![v] = new]
    <3>1. Permits(m, v, k, "W")
      BY <1>6 DEF v, k
    <3> QED BY <2>2, <2>3, <2>4, <3>1 DEF AfterWrite, offset
  <2>6. AfterWrite(m, v, k, h.data) = Put(regs, v, new)
    <3> HIDE DEF new
    <3> QED BY <1>3, <2>5 DEF Put
  <2>7. RegionOK(new) /\ new.size = s.size
    <3>1. offset \in Nat
      BY <1>2 DEF offset
    <3> QED BY <1>1, <1>4, <2>4, <3>1, StoredOK
  <2>8. /\ new.present = TRUE /\ new.flags = s.flags
        /\ new.data = Stored(Zeros(s.size), 0, k, h.data)
    BY <1>2, <1>4, <2>4 DEF RegionOK, offset
  <2> HIDE DEF new
  <2>9. ASSUME NEW i \in 0 .. (s.size - 1)
        PROVE  CellOf(new, i) = [mapped |-> TRUE, flags |-> s.flags,
                                 byte |-> ImageByte(h, i)]
    <3>1. i \in DOMAIN Zeros(s.size) /\ Zeros(s.size)[i] = 0 /\ i \in Nat
      BY DEF Zeros
    <3>2. i \in DOMAIN new.data
      BY <2>8, <3>1 DEF Stored
    <3>3. new.data[i] = IF i < k THEN h.data[i] ELSE 0
      BY <1>1, <2>8, <3>1 DEF Stored
    <3> QED BY <2>8, <3>2, <3>3 DEF CellOf, RegionByte, ImageByte, k
  <2>10. IsImage(new, h)
    BY <2>7, <2>9 DEF IsImage
  <2> QED BY <1>6, <2>6, <2>10 DEF v, k
<1> QED BY <1>5, <1>6
-----------------------------------------------------------------------------
(***************************************************************************)
(* Containers.                                                             *)
(***************************************************************************)
LEMMA SmallMod ==
  ASSUME NEW x \in Nat, NEW n \in Nat, x < n
  PROVE  x % n = x
OBVIOUS

\* The entries up to one that fits lie one after the other, without a wrap.
LEMMA EntryOffsets ==
  ASSUME NEW f, ContainerType(f), NEW n \in Nat, n > 0,
         \A k \in 0 .. (n - 1) : EntryFits(f, k)
  PROVE  f.headerSize + n * EntryUnits <= f.size
<1> DEFINE S == {k \in Nat : k < n /\ f.headerSize + (k + 1) * EntryUnits > f.size}
<1>1. /\ f.size \in Nat /\ f.size < OffsetLimit
      /\ f.headerSize \in Nat /\ f.headerSize < OffsetLimit /\ OffsetLimit \in Nat
  BY SelfAssumption DEF ContainerType
<1>2. SUFFICES ASSUME f.headerSize + n * EntryUnits > f.size PROVE FALSE
  BY <1>1 DEF EntryUnits
<1>3. n - 1 \in S
  BY <1>1, <1>2 DEF EntryUnits
<1>4. PICK m \in S : \A k \in S : m <= k
  <2>1. S \in SUBSET Nat /\ S # {}
    BY <1>3
  <2> HIDE DEF S
  <2> QED BY <2>1, LeastElement
<1>5. f.headerSize + m * EntryUnits < OffsetLimit
  <2>1. CASE m = 0
    BY <1>1, <2>1 DEF EntryUnits
  <2>2. CASE m # 0
    <3>1. m - 1 \notin S /\ m - 1 \in Nat /\ m - 1 < n
      BY <1>4, <2>2
    <3> QED BY <1>1, <3>1 DEF EntryUnits
  <2> QED BY <2>1, <2>2
<1>6. EntryOffset(f, m) = f.headerSize + m * EntryUnits
  <2>1. f.headerSize + m * EntryUnits \in Nat
    BY <1>1 DEF EntryUnits
  <2> QED BY <1>1, <1>5, <2>1, SmallMod DEF EntryOffset
<1>7. EntryFits(f, m)
  BY <1>4
<1> QED BY <1>1, <1>4, <1>6, <1>7 DEF EntryFits, EntryUnits

LEMMA SectionsInFile ==
  ASSUME NEW f, ContainerType(f), f.count > 0
  PROVE  ParseSections(f) <=> f.headerSize + f.count * EntryUnits <= f.size
<1> DEFINE n == f.count
<1>1. /\ f.size \in Nat /\ f.size < OffsetLimit /\ n \in Nat /\ n > 0
      /\ f.headerSize \in Nat /\ f.headerSize < OffsetLimit /\ OffsetLimit \in Nat
  BY SelfAssumption DEF ContainerType
<1>2. ASSUME ParseSections(f) PROVE f.headerSize + n * EntryUnits <= f.size
  <2>1. ASSUME NEW k \in 0 .. (n - 1) PROVE EntryFits(f, k)
    <3>1. k \in SectionsRead(f) /\ k \in 0 .. k
      BY <1>1, <1>2 DEF ParseSections
    <3> QED BY <3>1 DEF SectionsRead
  <2> HIDE DEF n
  <2> QED BY <1>1, <2>1, EntryOffsets
<1>3. ASSUME f.headerSize + n * EntryUnits <= f.size PROVE ParseSections(f)
  <2>1. ASSUME NEW k \in 0 .. (n - 1) PROVE EntryFits(f, k)
    <3>1. /\ f.headerSize + k * EntryUnits \in Nat
          /\ f.headerSize + k * EntryUnits + EntryUnits <= f.size
          /\ f.headerSize + k * EntryUnits < OffsetLimit
      BY <1>1, <1>3 DEF EntryUnits
    <3> QED BY <1>1, <3>1, SmallMod DEF EntryFits, EntryOffset
  <2>2. \A i \in 0 .. (n - 1) : 0 .. i \subseteq 0 .. (n - 1)
    BY <1>1
  <2> QED BY <2>1, <2>2 DEF ParseSections, SectionsRead
<1> QED BY <1>2, <1>3

\* A file is accepted exactly if its table is in it.
LEMMA AcceptedIsWhole ==
  ASSUME NEW f, ContainerType(f)
  PROVE  SelfAccepted(f) <=> Whole(f)
<1>1. /\ f.ok \in BOOLEAN /\ f.size \in Nat /\ f.count \in Nat /\ f.headerSize \in Nat
  BY SelfAssumption DEF ContainerType
<1>2. CASE f.count = 0
  BY <1>2 DEF SelfAccepted, ExtractELF, Whole
<1>3. CASE f.count > 0
  <2>1. f.headerSize >= HeaderUnits /\ f.headerSize + f.count * EntryUnits <= f.size
          => f.size >= HeaderUnits
    BY <1>1 DEF HeaderUnits, EntryUnits
  <2> QED BY <1>3, <2>1, SectionsInFile
          DEF SelfAccepted, ExtractELF, ParseHeader, HasHeader, Whole
<1> QED BY <1>1, <1>2, <1>3

LEMMA ReadsInside ==
  ASSUME NEW f, ContainerType(f), f.size + MetadataUnits < OffsetLimit,
         f.count > 0 \/ f.headerSize + MetadataUnits < OffsetLimit,
         NEW part \in PartsRead(f)
  PROVE  part.to <= f.size
<1>1. /\ f.size \in Nat /\ f.size < OffsetLimit /\ f.count \in Nat
      /\ f.headerSize \in Nat /\ f.headerSize < OffsetLimit /\ OffsetLimit \in Nat
  BY SelfAssumption DEF ContainerType
<1>2. CASE HasHeader(f) /\ part = Part(0, HeaderUnits)
  BY <1>1, <1>2 DEF HasHeader, Part, HeaderUnits
<1>3. ASSUME NEW i \in SectionsRead(f), part = Part(EntryOffset(f, i), EntryUnits)
      PROVE  part.to <= f.size
  <2>1. EntryFits(f, i)
    <3>1. i \in 0 .. i
      BY <1>1, <1>3 DEF SectionsRead
    <3> QED BY <1>3, <3>1 DEF SectionsRead
  <2> QED BY <1>3, <2>1 DEF EntryFits, Part
<1>4. CASE /\ ParseSections(f) /\ ParseMetadata(f)
           /\ part = Part(EntryOffset(f, f.count), MetadataUnits)
  <2> DEFINE end == f.headerSize + f.count * EntryUnits
  <2>1. end \in Nat /\ end + MetadataUnits < OffsetLimit
    <3>1. CASE f.count = 0
      BY <1>1, <3>1 DEF EntryUnits, MetadataUnits
    <3>2. CASE f.count > 0
      <4>1. end <= f.size
        BY <1>4, <3>2, SectionsInFile
      <4> QED BY <1>1, <4>1 DEF EntryUnits, MetadataUnits
    <3> QED BY <1>1, <3>1, <3>2
  <2>2. EntryOffset(f, f.count) = end /\ end + MetadataUnits \in Nat
    <3> HIDE DEF end
    <3>1. end < OffsetLimit /\ end + MetadataUnits \in Nat
      BY <1>1, <2>1 DEF MetadataUnits
    <3>2. end % OffsetLimit = end
      BY <1>1, <2>1, <3>1, SmallMod
    <3> QED BY <3>1, <3>2 DEF EntryOffset, end
  <2>3. end + MetadataUnits <= f.size
    <3> HIDE DEF end
    <3>1. (end + MetadataUnits) % OffsetLimit = end + MetadataUnits
      BY <1>1, <2>1, <2>2, SmallMod
    <3> QED BY <1>4, <2>2, <3>1 DEF ParseMetadata
  <2> QED BY <1>4, <2>2, <2>3 DEF Part
<1> QED BY <1>2, <1>3, <1>4 DEF PartsRead
-----------------------------------------------------------------------------
(***************************************************************************)
(* The program headers that load() has dealt with, and what it has left of *)
(* each: its segment at the tail of segments_, its image in memory.        *)
(***************************************************************************)
Done(f, n)         == {i \in LoadHeaders(f) : i < n}
DoneAfter(f, n, i) == {j \in Done(f, n) : j > i}

Recorded(segs, f, n) ==
    /\ Len(segs) >= Cardinality(Done(f, n))
    /\ \A i \in Done(f, n) :
          segs[Len(segs) - Cardinality(DoneAfter(f, n, i))] = f.headers[i].segment

\* Visible of a value of the map.
VisibleIn(regs, h) ==
    \A i \in 0 .. (h.segment.size - 1) :
        CellAt(regs, h.segment.vaddr + i) =
            [mapped |-> TRUE, flags |-> h.segment.flags, byte |-> ImageByte(h, i)]

Shown(regs, f, n) ==
    DisjointSegments(f) => \A i \in Done(f, n) : VisibleIn(regs, f.headers[i])

LEMMA ElfFacts ==
  ASSUME NEW f \in Files, f.kind = "elf"
  PROVE  /\ f.entry \in Addr /\ f.ok \in BOOLEAN
         /\ Len(f.headers) \in Nat /\ DOMAIN f.headers = 1 .. Len(f.headers)
         /\ \A i \in DOMAIN f.headers : HeaderType(f.headers[i])
BY FileAssumption DEF FileType

LEMMA DoneFacts ==
  ASSUME NEW f \in Files, f.kind = "elf", NEW n \in Nat
  PROVE  /\ Done(f, n) \subseteq Nat /\ IsFiniteSet(Done(f, n))
         /\ Cardinality(Done(f, n)) \in Nat
         /\ \A i : /\ IsFiniteSet(DoneAfter(f, n, i))
                   /\ Cardinality(DoneAfter(f, n, i)) \in Nat
         /\ \A i \in Done(f, n) :
               Cardinality(DoneAfter(f, n, i)) < Cardinality(Done(f, n))
         /\ n > Len(f.headers) =>
               /\ Done(f, n) = LoadHeaders(f)
               /\ \A i : DoneAfter(f, n, i) = Later(f, i)
<1>1. /\ Len(f.headers) \in Nat /\ LoadHeaders(f) \subseteq 1 .. Len(f.headers)
      /\ Done(f, n) \subseteq 1 .. Len(f.headers)
  BY ElfFacts DEF LoadHeaders, Done
<1>2. IsFiniteSet(Done(f, n)) /\ Cardinality(Done(f, n)) \in Nat
  <2>1. IsFiniteSet(1 .. Len(f.headers))
    BY <1>1, FS_Interval
  <2> QED BY <1>1, <2>1, FS_Subset, FS_CardinalityType
<1>3. \A i : DoneAfter(f, n, i) \subseteq Done(f, n)
  BY DEF DoneAfter
<1>4. \A i : /\ IsFiniteSet(DoneAfter(f, n, i))
             /\ Cardinality(DoneAfter(f, n, i)) \in Nat
             /\ Cardinality(DoneAfter(f, n, i)) <= Cardinality(Done(f, n))
             /\ Cardinality(Done(f, n)) = Cardinality(DoneAfter(f, n, i))
                  => Done(f, n) = DoneAfter(f, n, i)
  BY <1>2, <1>3, FS_Subset, FS_CardinalityType
<1>5. ASSUME NEW i \in Done(f, n)
      PROVE  Cardinality(DoneAfter(f, n, i)) < Cardinality(Done(f, n))
  <2>1. i \notin DoneAfter(f, n, i)
    BY <1>1, <1>5 DEF DoneAfter
  <2>2. Cardinality(Done(f, n)) # Cardinality(DoneAfter(f, n, i))
    BY <1>4, <1>5, <2>1
  <2> QED BY <1>2, <1>4, <2>2
<1>6. ASSUME n > Len(f.headers)
      PROVE  Done(f, n) = LoadHeaders(f) /\ \A i : DoneAfter(f, n, i) = Later(f, i)
  <2>1. Done(f, n) = LoadHeaders(f)
    BY <1>1, <1>6 DEF Done
  <2> QED BY <2>1 DEF DoneAfter, Later
<1> QED BY <1>1, <1>2, <1>4, <1>5, <1>6

\* A header that is not PT_LOAD, and one whose segment is recorded.
LEMMA RecordedSkip ==
  ASSUME NEW f \in Files, f.kind = "elf", NEW n \in DOMAIN f.headers,
         ~f.headers[n].load
  PROVE  /\ Done(f, n + 1) = Done(f, n)
         /\ \A i : DoneAfter(f, n + 1, i) = DoneAfter(f, n, i)
<1>1. LoadHeaders(f) \subseteq Nat /\ n \in Nat /\ n \notin LoadHeaders(f)
  BY ElfFacts DEF LoadHeaders
<1>2. Done(f, n + 1) = Done(f, n)
  BY <1>1 DEF Done
<1> QED BY <1>2 DEF DoneAfter

LEMMA DoneNext ==
  ASSUME NEW f \in Files, f.kind = "elf", NEW n \in DOMAIN f.headers,
         f.headers[n].load
  PROVE  /\ Done(f, n + 1) = Done(f, n) \cup {n} /\ n \notin Done(f, n)
         /\ \A i \in Done(f, n) :
               DoneAfter(f, n + 1, i) = DoneAfter(f, n, i) \cup {n}
         /\ DoneAfter(f, n + 1, n) = {}
<1>1. LoadHeaders(f) \subseteq Nat /\ n \in Nat /\ n \in LoadHeaders(f)
  BY ElfFacts DEF LoadHeaders
<1>2. Done(f, n + 1) = Done(f, n) \cup {n} /\ n \notin Done(f, n)
  BY <1>1 DEF Done
<1>3. Done(f, n) \subseteq Nat /\ \A i \in Done(f, n) : i < n
  BY <1>1 DEF Done
<1>4. \A i \in Done(f, n) : DoneAfter(f, n + 1, i) = DoneAfter(f, n, i) \cup {n}
  BY <1>1, <1>2, <1>3 DEF DoneAfter
<1>5. DoneAfter(f, n + 1, n) = {}
  BY <1>1, <1>2, <1>3 DEF DoneAfter
<1> QED BY <1>2, <1>4, <1>5

LEMMA RecordedNext ==
  ASSUME NEW f \in Files, f.kind = "elf", NEW n \in DOMAIN f.headers,
         f.headers[n].load, NEW segs \in Seq(Segments), Recorded(segs, f, n),
         f.headers[n].segment \in Segments
  PROVE  Recorded(Append(segs, f.headers[n].segment), f, n + 1)
<1> DEFINE s  == f.headers[n].segment
           ap == Append(segs, s)
<1>1. /\ n \in Nat /\ Len(segs) \in Nat /\ Len(ap) = Len(segs) + 1
      /\ \A k \in 1 .. Len(segs) : ap[k] = segs[k]
      /\ ap[Len(segs) + 1] = s
  BY ElfFacts, AppendProperties, LenProperties
<1> HIDE DEF ap
<1>2. /\ IsFiniteSet(Done(f, n)) /\ Cardinality(Done(f, n)) \in Nat
      /\ \A i : /\ IsFiniteSet(DoneAfter(f, n, i))
                /\ Cardinality(DoneAfter(f, n, i)) \in Nat
      /\ \A i \in Done(f, n) :
            Cardinality(DoneAfter(f, n, i)) < Cardinality(Done(f, n))
  BY <1>1, DoneFacts
<1>3. Cardinality(Done(f, n + 1)) = Cardinality(Done(f, n)) + 1
  BY <1>2, DoneNext, FS_AddElement
<1>4. ASSUME NEW i \in Done(f, n)
      PROVE  ap[Len(ap) - Cardinality(DoneAfter(f, n + 1, i))]
               = f.headers[i].segment
  <2> DEFINE c == Cardinality(DoneAfter(f, n, i))
  <2>1. n \notin DoneAfter(f, n, i)
    BY DoneNext DEF DoneAfter
  <2>2. Cardinality(DoneAfter(f, n + 1, i)) = c + 1
    BY <1>2, <2>1, DoneNext, FS_AddElement
  <2>3. c \in Nat /\ c < Cardinality(Done(f, n)) /\ Cardinality(Done(f, n)) <= Len(segs)
    BY <1>2 DEF Recorded
  <2>4. segs[Len(segs) - c] = f.headers[i].segment
    BY DEF Recorded
  <2> HIDE DEF c
  <2>5. Len(segs) - c \in 1 .. Len(segs) /\ Len(ap) - (c + 1) = Len(segs) - c
    BY <1>1, <1>2, <2>3
  <2> QED BY <1>1, <2>2, <2>4, <2>5
<1>5. ap[Len(ap) - Cardinality(DoneAfter(f, n + 1, n))] = s
  <2>1. Cardinality(DoneAfter(f, n + 1, n)) = 0
    BY DoneNext, FS_EmptySet
  <2>2. Len(ap) - 0 = Len(segs) + 1
    BY <1>1
  <2> QED BY <1>1, <2>1, <2>2
<1>6. Len(ap) >= Cardinality(Done(f, n + 1))
  BY <1>1, <1>2, <1>3 DEF Recorded
<1>7. Recorded(ap, f, n + 1)
  <2> HIDE DEF s
  <2>1. Done(f, n + 1) = Done(f, n) \cup {n} /\ f.headers[n].segment = s
    BY DoneNext DEF s
  <2> QED BY <1>4, <1>5, <1>6, <2>1 DEF Recorded
<1> QED BY <1>7 DEF ap

\* A new image leaves the earlier ones of a file with disjoint segments alone.
LEMMA ShownNext ==
  ASSUME NEW regs, WellFormed(regs), NEW f \in Files, f.kind = "elf",
         NEW n \in DOMAIN f.headers, f.headers[n].load, Shown(regs, f, n),
         NEW r, IsImage(r, f.headers[n]),
         MapAccepted(regs, f.headers[n].segment.vaddr, f.headers[n].segment.size)
  PROVE  Shown(Put(regs, f.headers[n].segment.vaddr, r), f, n + 1)
<1> DEFINE h == f.headers[n]
           s == h.segment
           m == Put(regs, s.vaddr, r)
<1>1. /\ s \in Segments /\ s.size \in Nat /\ r.size = s.size
      /\ MapAccepted(regs, s.vaddr, s.size)
  BY ElfFacts, HeaderFacts DEF IsImage
<1>2. /\ \A b \in SegmentRange(s) : CellAt(m, b) = CellOf(r, b - s.vaddr)
      /\ \A b \in Addr \ SegmentRange(s) : CellAt(m, b) = CellAt(regs, b)
  <2> HIDE DEF h, s
  <2> QED BY <1>1, AcceptedCells
<1>3. SUFFICES ASSUME DisjointSegments(f), NEW i \in Done(f, n + 1)
               PROVE  VisibleIn(m, f.headers[i])
  BY DEF Shown
<1> HIDE DEF m
<1>4. CASE i = n
  <2> SUFFICES ASSUME NEW j \in 0 .. (s.size - 1)
               PROVE  CellAt(m, s.vaddr + j) =
                        [mapped |-> TRUE, flags |-> s.flags, byte |-> ImageByte(h, j)]
    BY <1>4 DEF VisibleIn
  <2>1. s.vaddr \in Nat /\ j \in Nat /\ s.size \in Nat
    <3>1. s.vaddr \in Addr
      BY <1>1, SegmentFacts
    <3> QED BY <1>1, <3>1, GeometryAssumption DEF Addr
  <2>2. s.vaddr + j \in SegmentRange(s) /\ (s.vaddr + j) - s.vaddr = j
    <3> HIDE DEF s
    <3> QED BY <2>1 DEF SegmentRange
  <2>3. CellAt(m, s.vaddr + j) = CellOf(r, j)
    <3> HIDE DEF s
    <3> QED BY <1>2, <2>2
  <2> QED BY <2>3 DEF IsImage
<1>5. CASE i # n
  <2> DEFINE g == f.headers[i]
             t == g.segment
  <2>1. i \in Done(f, n)
    BY <1>3, <1>5, DoneNext
  <2>2. i \in LoadHeaders(f) /\ n \in LoadHeaders(f)
    BY <2>1 DEF Done, LoadHeaders
  <2>3. SegmentRange(t) \cap SegmentRange(s) = {}
    BY <1>3, <1>5, <2>2 DEF DisjointSegments
  <2>4. t \in Segments
    BY <2>2, ElfFacts, HeaderFacts DEF LoadHeaders
  <2>5. t.vaddr \in Nat /\ t.size \in Nat /\ t.vaddr + t.size < AddrLimit
        /\ AddrLimit \in Nat
    <3>1. t.vaddr \in Addr /\ t.size \in Nat /\ t.vaddr + t.size < AddrLimit
      BY <2>4, SegmentFacts
    <3> QED BY <3>1, GeometryAssumption DEF Addr
  <2> SUFFICES ASSUME NEW j \in 0 .. (t.size - 1)
               PROVE  CellAt(m, t.vaddr + j) =
                        [mapped |-> TRUE, flags |-> t.flags, byte |-> ImageByte(g, j)]
    BY DEF VisibleIn
  <2>6. CellAt(regs, t.vaddr + j) =
            [mapped |-> TRUE, flags |-> t.flags, byte |-> ImageByte(g, j)]
    BY <1>3, <2>1 DEF Shown, VisibleIn
  <2>7. t.vaddr + j \in SegmentRange(t) /\ t.vaddr + j \in Addr
    <3> HIDE DEF t
    <3> QED BY <2>5 DEF SegmentRange, Addr
  <2>8. CellAt(m, t.vaddr + j) = CellAt(regs, t.vaddr + j)
    <3> HIDE DEF t, s
    <3> QED BY <1>2, <2>3, <2>7
  <2> QED BY <2>6, <2>8
<1> QED BY <1>4, <1>5 DEF m
-----------------------------------------------------------------------------
(***************************************************************************)
(* The inductive invariant.  Every recorded segment is still held by a     *)
(* region at least as long, because nothing unmaps and nothing is mapped   *)
(* over it; and while a file is being loaded, what it has left so far is   *)
(* recorded and visible.                                                   *)
(***************************************************************************)
MemoryInv ==
    /\ WellFormed(regions)
    /\ segments \in Seq(Segments)
    /\ \A i \in DOMAIN segments : Holds(regions, segments[i])
    /\ NoSegmentReloaded

ProgressInv ==
    loading # NoFile =>
        /\ loading.kind = "elf" /\ entryPoint = loading.entry
        /\ Recorded(segments, loading, header)
        /\ Shown(regions, loading, header)

LoaderInv == LoaderTypeOK /\ MemoryInv /\ ProgressInv

LEMMA MemoryStays ==
  MemoryInv /\ UNCHANGED <<regions, segments>> => MemoryInv'
BY DEF MemoryInv, WellFormed, Holds, NoSegmentReloaded

\* A guest access moves no region and makes none smaller.
LEMMA GuestKeeps ==
  ASSUME MemoryInv, GuestAccess
  PROVE  MemoryInv'
<1>1. UNCHANGED segments /\ GuestAddrs \subseteq Addr
  BY FileAssumption DEF GuestAccess, loaderVars
<1>2. WellFormed(regions) /\ \A i \in DOMAIN segments : segments[i] \in Segments
  BY ElementOfSeq DEF MemoryInv
<1>3. WellFormed(regions') /\ \A i \in DOMAIN segments : Holds(regions', segments[i])
  <2>1. ASSUME NEW a \in Addr, Read(a, 1)
        PROVE  WellFormed(regions')
               /\ \A i \in DOMAIN segments : Holds(regions', segments[i])
    <3>1. regions' = AfterRead(regions, a)
      BY <2>1 DEF Read
    <3>2. WellFormed(AfterRead(regions, a))
      BY <1>2, AfterReadWellFormed
    <3>3. \A i \in DOMAIN segments : Holds(AfterRead(regions, a), segments[i])
      BY <1>2, ReadHolds DEF MemoryInv
    <3> QED BY <3>1, <3>2, <3>3
  <2>2. ASSUME NEW a \in Addr, NEW n \in Nat, n = 1,
               NEW bytes \in [0 .. (n - 1) -> Byte], Write(a, n, bytes)
        PROVE  WellFormed(regions')
               /\ \A i \in DOMAIN segments : Holds(regions', segments[i])
    <3>1. regions' \in {AfterWrite(regions, a, n, bytes)}
                         \cup Corrupted(AfterWrite(regions, a, n, bytes))
      BY <2>2 DEF Write
    <3>2. /\ WellFormed(regions') /\ DOMAIN regions' = DOMAIN regions
          /\ \A b \in DOMAIN regions : regions'[b].size = regions[b].size
      BY <1>2, <3>1, WriteKeepsSizes
    <3> QED BY <3>2 DEF MemoryInv, Holds
  <2>3. 1 \in Nat /\ \A v \in Byte : [i \in 0 .. 0 |-> v] \in [0 .. (1 - 1) -> Byte]
    OBVIOUS
  <2> QED BY <1>1, <2>1, <2>2, <2>3 DEF GuestAccess
<1> QED BY <1>1, <1>3 DEF MemoryInv, NoSegmentReloaded

\* What one LoadSegment does, in one step.
LEMMA LoadedSegment ==
  ASSUME LoaderInv, LoadSegment
  PROVE  /\ loading \in Files /\ loading.kind = "elf"
         /\ header \in DOMAIN loading.headers /\ header \in Nat
         /\ HeaderType(Current) /\ Current.segment \in Segments /\ Current.load
         /\ MapAccepted(regions, Current.segment.vaddr, Current.segment.size)
         /\ \E r : /\ IsImage(r, Current)
                   /\ regions' = Put(regions, Current.segment.vaddr, r)
<1>1. loading # NoFile /\ loading \in Files /\ loading.kind = "elf"
      /\ header \in Nat /\ header >= 1 /\ header <= Len(loading.headers)
  <2>1. loading # NoFile /\ loading \in Files /\ loading.kind = "elf"
    BY DEF LoadSegment, Loadable, Headers, LoaderInv, LoaderTypeOK, ProgressInv
  <2>2. Len(loading.headers) \in Nat
    BY <2>1, ElfFacts
  <2> QED BY <2>1, <2>2 DEF LoadSegment, Loadable, Headers, LoaderInv, LoaderTypeOK
<1>2. header \in DOMAIN loading.headers /\ HeaderType(Current)
  BY <1>1, ElfFacts DEF Current
<1>3. Current.segment \in Segments /\ Current.load
      /\ MapAccepted(regions, Current.segment.vaddr, Current.segment.size)
  BY <1>2, HeaderFacts DEF LoadSegment, Loadable, Accepted
<1>4. \E r : /\ IsImage(r, Current)
             /\ regions' = Put(regions, Current.segment.vaddr, r)
  <2>1. Current.filesz = 0 \/ Permits(AfterMap, Current.segment.vaddr,
                                      Current.filesz, "W")
    BY DEF LoadSegment, CopyOK
  <2>2. AfterMap = MapRegion(regions, Current.segment.vaddr, Current.segment.size,
                             Current.segment.flags)
    BY DEF AfterMap
  <2>3. regions' = IF Current.filesz = 0 THEN AfterMap
                   ELSE AfterWrite(AfterMap, Current.segment.vaddr,
                                   Current.filesz, Current.data)
    BY DEF LoadSegment
  <2>4. WellFormed(regions)
    BY DEF LoaderInv, MemoryInv
  <2> HIDE DEF Current, AfterMap
  <2> QED BY <1>2, <1>3, <2>1, <2>2, <2>3, <2>4, LoadedRegion
<1> QED BY <1>1, <1>2, <1>3, <1>4

\* The segment that is loaded starts outside every recorded one.
LEMMA NotInside ==
  ASSUME NEW regs, WellFormed(regs), NEW s \in Segments, NEW t \in Segments,
         MapAccepted(regs, s.vaddr, s.size), Holds(regs, t)
  PROVE  s.vaddr \notin SegmentRange(t)
<1>1. /\ s.vaddr \in Addr /\ t.vaddr \in Addr /\ t.size \in Nat
      /\ t.vaddr + t.size <= AddrLimit - Chunk
  BY SegmentFacts
<1>2. /\ t.vaddr \in DOMAIN regs /\ regs[t.vaddr].size >= t.size
      /\ ~Covers(regs, t.vaddr, s.vaddr)
  BY AcceptedFacts DEF Holds
<1>3. /\ regs[t.vaddr].size \in Nat
      /\ Covers(regs, t.vaddr, s.vaddr) <=>
            /\ t.vaddr <= s.vaddr /\ s.vaddr < t.vaddr + regs[t.vaddr].size
            /\ t.vaddr + regs[t.vaddr].size < AddrLimit
      /\ t.vaddr + regs[t.vaddr].size >= AddrLimit => regs[t.vaddr].size = Chunk
      /\ t.vaddr + regs[t.vaddr].size <= AddrLimit
  BY <1>1, <1>2, CoversFacts
<1>4. /\ s.vaddr \in Nat /\ t.vaddr \in Nat
      /\ AddrLimit \in Nat /\ Chunk \in Nat
  BY <1>1, GeometryAssumption DEF Addr
<1> QED BY <1>1, <1>2, <1>3, <1>4 DEF SegmentRange

LEMMA LoadSegmentKeeps ==
  ASSUME LoaderInv, LoadSegment
  PROVE  MemoryInv' /\ ProgressInv'
<1> DEFINE s == Current.segment
<1>1. PICK r : IsImage(r, Current) /\ regions' = Put(regions, s.vaddr, r)
  BY LoadedSegment
<1>2. /\ loading \in Files /\ loading.kind = "elf"
      /\ header \in DOMAIN loading.headers /\ header \in Nat
      /\ HeaderType(Current) /\ s \in Segments /\ Current.load
      /\ MapAccepted(regions, s.vaddr, s.size)
  BY LoadedSegment
<1>3. RegionOK(r) /\ r.size = s.size /\ r.size \in Nat
  <2>1. s.size \in Nat
    BY <1>2, SegmentFacts
  <2> QED BY <1>1, <2>1 DEF IsImage
<1>4. /\ WellFormed(regions) /\ segments \in Seq(Segments)
      /\ \A i \in DOMAIN segments : Holds(regions, segments[i])
      /\ Len(segments) \in Nat /\ DOMAIN segments = 1 .. Len(segments)
      /\ \A i \in DOMAIN segments : segments[i] \in Segments
  BY LenProperties, ElementOfSeq DEF LoaderInv, MemoryInv
<1>5. /\ segments' = Append(segments, s) /\ header' = header + 1
      /\ UNCHANGED <<loading, entryPoint>>
  BY DEF LoadSegment
<1>6. /\ segments' \in Seq(Segments) /\ Len(segments') = Len(segments) + 1
      /\ DOMAIN segments' = 1 .. (Len(segments) + 1)
      /\ \A i \in 1 .. Len(segments) : segments'[i] = segments[i]
      /\ segments'[Len(segments) + 1] = s
  <2> HIDE DEF s
  <2> QED BY <1>2, <1>4, <1>5, AppendProperties, LenProperties
<1> HIDE DEF s
<1>7. WellFormed(regions')
  <2>1. s.vaddr \in Addr /\ <<s.vaddr, r.size>> \in Flat!Extents
    BY <1>2, <1>3, SegmentFacts
  <2> QED BY <1>1, <1>3, <1>4, <2>1, PutWellFormed
<1>8. \A i \in DOMAIN segments' : Holds(regions', segments'[i])
  <2>1. \A i \in DOMAIN segments : Holds(regions', segments[i])
    BY <1>1, <1>2, <1>3, <1>4, MapHolds
  <2>2. Holds(regions', s)
    BY <1>1, <1>3 DEF Holds, Put
  <2> QED BY <1>4, <1>6, <2>1, <2>2
<1>9. NoSegmentReloaded'
  <2>1. \A i \in DOMAIN segments : s.vaddr \notin SegmentRange(segments[i])
    BY <1>2, <1>4, NotInside
  <2>2. \A i, j \in DOMAIN segments :
           i < j => segments[j].vaddr \notin SegmentRange(segments[i])
    BY DEF LoaderInv, MemoryInv, NoSegmentReloaded
  <2>3. ASSUME NEW i \in DOMAIN segments', NEW j \in DOMAIN segments', i < j
        PROVE  segments'[j].vaddr \notin SegmentRange(segments'[i])
    <3>1. i \in DOMAIN segments /\ segments'[i] = segments[i]
      BY <1>4, <1>6, <2>3
    <3>2. CASE j \in DOMAIN segments
      <4>1. segments'[j] = segments[j]
        BY <1>4, <1>6, <3>2
      <4> QED BY <2>2, <2>3, <3>1, <3>2, <4>1
    <3>3. CASE j = Len(segments) + 1
      BY <1>6, <2>1, <3>1, <3>3
    <3> QED BY <1>4, <1>6, <3>2, <3>3
  <2> QED BY <2>3 DEF NoSegmentReloaded, SegmentRange
<1>10. MemoryInv'
  BY <1>6, <1>7, <1>8, <1>9 DEF MemoryInv, WellFormed, Holds
<1>11. ProgressInv'
  <2>1. loading # NoFile
    BY <1>2, FileAssumption
  <2>2. /\ entryPoint = loading.entry /\ Recorded(segments, loading, header)
        /\ Shown(regions, loading, header)
    BY <2>1 DEF LoaderInv, ProgressInv
  <2>3. Current = loading.headers[header]
    BY DEF Current
  <2>4. Recorded(segments', loading, header + 1)
    <3>1. /\ loading.headers[header].load /\ s = loading.headers[header].segment
          /\ s \in Segments
      BY <1>2, <2>3 DEF s
    <3> QED BY <1>2, <1>4, <1>5, <2>2, <3>1, RecordedNext
  <2>5. Shown(regions', loading, header + 1)
    <3>1. /\ loading.headers[header].load /\ s = loading.headers[header].segment
          /\ IsImage(r, loading.headers[header])
      BY <1>1, <1>2, <2>3 DEF s
    <3> QED BY <1>1, <1>2, <1>4, <2>2, <3>1, ShownNext
  <2> QED BY <1>2, <1>5, <2>2, <2>4, <2>5
          DEF ProgressInv, Recorded, Shown, VisibleIn
<1> QED BY <1>10, <1>11
-----------------------------------------------------------------------------
LEMMA LoaderInitInv == LoaderInit => LoaderInv
<1> SUFFICES ASSUME LoaderInit PROVE LoaderInv
  OBVIOUS
<1>1. 0 \in Addr
  BY GeometryAssumption DEF Addr
<1>2. LoaderTypeOK
  <2>1. engine \in BOOLEAN /\ ~engine
    BY Zenon DEF LoaderInit
  <2>2. DOMAIN segments = {}
    BY DEF LoaderInit
  <2> QED BY <1>1, <2>1, <2>2 DEF LoaderInit, LoaderTypeOK
<1>3. WellFormed(regions)
  <2>1. MainBase \in Addr /\ <<MainBase, MainSize>> \in Flat!Extents
    BY GeometryAssumption DEF Addr, Flat!Extents
  <2>2. RegionOK(LazyRegion(MainSize, RW)) /\ LazyRegion(MainSize, RW).size = MainSize
    <3>1. MainSize \in Nat /\ RW \in SUBSET Prot
      BY GeometryAssumption DEF RW, Prot
    <3> QED BY <3>1, NewRegionOK DEF LazyRegion
  <2>3. WellFormed(Put(NoRegions, MainBase, LazyRegion(MainSize, RW)))
    <3> DEFINE r == LazyRegion(MainSize, RW)
    <3>1. RegionOK(r) /\ r.size = MainSize
      BY <2>2
    <3> HIDE DEF r
    <3>2. WellFormed(Put(NoRegions, MainBase, r))
      BY <2>1, <3>1, NoRegionsWellFormed, PutWellFormed
    <3> QED BY <3>2 DEF r
  <2> QED BY <2>3 DEF LoaderInit, InitialRegions
<1>4. MemoryInv
  <2>1. segments = <<>> /\ <<>> \in Seq(Segments) /\ DOMAIN segments = {}
    BY DEF LoaderInit
  <2> QED BY <1>3, <2>1 DEF MemoryInv, NoSegmentReloaded
<1>5. ProgressInv
  BY DEF LoaderInit, ProgressInv
<1> QED BY <1>2, <1>4, <1>5 DEF LoaderInv

\* Actions that leave the memory and the recorded segments as they are.
LEMMA BeginLoadKeeps ==
  ASSUME LoaderInv, NEW f \in Files, BeginLoad(f)
  PROVE  LoaderTypeOK' /\ MemoryInv' /\ ProgressInv'
<1>1. f.kind = "elf" /\ f # NoFile /\ f.entry \in Addr /\ f.ok \in BOOLEAN
      /\ Len(f.headers) \in Nat
  BY ElfFacts, FileAssumption DEF BeginLoad
<1>2. /\ Idle /\ status' = "Loading" /\ header' = 1
      /\ UNCHANGED <<regions, segments, pc, engine, bridge>>
  BY DEF BeginLoad, vars
<1>3. MemoryInv'
  BY <1>2, MemoryStays DEF LoaderInv
<1>4. CASE f.ok
  <2>1. loading' = f /\ entryPoint' = f.entry /\ fallback' = fallback
    BY <1>4 DEF BeginLoad
  <2>2. LoaderTypeOK'
    BY <1>1, <1>2, <2>1 DEF LoaderInv, LoaderTypeOK, Idle
  <2>3. Done(f, 1) = {}
    <3>1. LoadHeaders(f) \subseteq 1 .. Len(f.headers)
      BY <1>1, ElfFacts DEF LoadHeaders
    <3> QED BY <1>1, <3>1 DEF Done
  <2>4. Recorded(segments, f, 1) /\ Shown(regions, f, 1)
    <3>1. Cardinality(Done(f, 1)) = 0 /\ Len(segments) \in Nat
      BY <2>3, FS_EmptySet, LenProperties DEF LoaderInv, MemoryInv
    <3> QED BY <2>3, <3>1 DEF Recorded, Shown
  <2>5. ProgressInv'
    BY <1>1, <1>2, <2>1, <2>4 DEF ProgressInv, Recorded, Shown, VisibleIn
  <2> QED BY <1>3, <2>2, <2>5
<1>5. CASE ~f.ok
  <2>1. fallback' = f /\ loading' = loading /\ entryPoint' = entryPoint
    BY <1>5 DEF BeginLoad
  <2>2. LoaderTypeOK'
    BY <1>1, <1>2, <2>1 DEF LoaderInv, LoaderTypeOK, Idle
  <2>3. ProgressInv'
    BY <1>2, <2>1 DEF ProgressInv, Idle
  <2> QED BY <1>3, <2>2, <2>3
<1> QED BY <1>1, <1>4, <1>5

LEMMA AbandonKeeps ==
  ASSUME LoaderInv, loading # NoFile, AbandonLoad
  PROVE  LoaderTypeOK' /\ ProgressInv'
BY DEF LoaderInv, LoaderTypeOK, ProgressInv, AbandonLoad

LEMMA LoaderNextInv == LoaderInv /\ [LoaderNext]_allVars => LoaderInv'
<1> SUFFICES ASSUME LoaderInv, [LoaderNext]_allVars PROVE LoaderInv'
  OBVIOUS
<1>1. LoaderTypeOK /\ MemoryInv /\ ProgressInv
  BY DEF LoaderInv
<1>2. ASSUME NEW f \in Files, RefusePackage(f) \/ LoadSelf(f) \/ SelfOutOfMemory(f)
      PROVE  LoaderInv'
  <2>1. /\ UNCHANGED <<regions, loading, header, fallback, entryPoint, segments,
                       pc, engine, bridge>>
        /\ status' \in {"Unsupported", "LoadedSELF", "SELFFailed", "Loading"}
        /\ Idle
    BY <1>2 DEF RefusePackage, LoadSelf, SelfOutOfMemory, vars
  <2>2. LoaderTypeOK'
    BY <1>1, <2>1 DEF LoaderTypeOK, Idle
  <2>3. MemoryInv'
    BY <1>1, <2>1, MemoryStays
  <2>4. ProgressInv'
    BY <2>1 DEF ProgressInv, Idle
  <2> QED BY <2>2, <2>3, <2>4 DEF LoaderInv
<1>3. ASSUME NEW f \in Files, BeginLoad(f) PROVE LoaderInv'
  BY <1>3, BeginLoadKeeps DEF LoaderInv
<1>4. CASE SkipHeader
  <2>1. /\ UNCHANGED <<regions, loading, fallback, entryPoint, segments, pc,
                       engine, bridge, status>>
        /\ header' = header + 1 /\ loading # NoFile
        /\ header <= Len(loading.headers) /\ ~Current.load
    BY <1>4 DEF SkipHeader, Headers, vars
  <2>2. /\ loading \in Files /\ loading.kind = "elf" /\ header \in Nat
        /\ Len(loading.headers) \in Nat /\ header \in DOMAIN loading.headers
    <3>1. loading \in Files /\ loading.kind = "elf"
      BY <1>1, <2>1 DEF LoaderTypeOK, ProgressInv
    <3>2. Len(loading.headers) \in Nat /\ DOMAIN loading.headers = 1 .. Len(loading.headers)
      BY <3>1, ElfFacts
    <3> QED BY <1>1, <2>1, <3>1, <3>2 DEF LoaderTypeOK
  <2>3. LoaderTypeOK'
    BY <1>1, <2>1, <2>2 DEF LoaderTypeOK
  <2>4. MemoryInv'
    BY <1>1, <2>1, MemoryStays
  <2>5. /\ Done(loading, header + 1) = Done(loading, header)
        /\ \A i : DoneAfter(loading, header + 1, i) = DoneAfter(loading, header, i)
    BY <2>1, <2>2, RecordedSkip DEF Current
  <2>6. Recorded(segments, loading, header + 1) /\ Shown(regions, loading, header + 1)
    BY <1>1, <2>1, <2>5 DEF ProgressInv, Recorded, Shown
  <2>7. ProgressInv'
    BY <1>1, <2>1, <2>6 DEF ProgressInv, Recorded, Shown, VisibleIn
  <2> QED BY <2>3, <2>4, <2>7 DEF LoaderInv
<1>5. CASE TruncatedFile
  <2>1. loading # NoFile /\ AbandonLoad /\ UNCHANGED <<regions, segments>>
    BY <1>5 DEF TruncatedFile, Headers, AbandonLoad
  <2> QED BY <1>1, <2>1, AbandonKeeps, MemoryStays DEF LoaderInv
<1>6. CASE LoadSegment
  <2>1. MemoryInv' /\ ProgressInv'
    BY <1>6, LoadSegmentKeeps
  <2>2. /\ loading \in Files /\ loading.kind = "elf"
        /\ header \in DOMAIN loading.headers /\ header \in Nat
    BY <1>6, LoadedSegment
  <2>3. Len(loading.headers) \in Nat /\ DOMAIN loading.headers = 1 .. Len(loading.headers)
    BY <2>2, ElfFacts
  <2>4. \A i \in DOMAIN segments' : segments'[i] \in Segments
    BY <2>1, ElementOfSeq DEF MemoryInv
  <2>5. /\ UNCHANGED <<loading, fallback, entryPoint, pc, engine, bridge, status>>
        /\ header' = header + 1
    BY <1>6 DEF LoadSegment
  <2>6. LoaderTypeOK'
    BY <1>1, <2>2, <2>3, <2>4, <2>5 DEF LoaderTypeOK
  <2> QED BY <2>1, <2>6 DEF LoaderInv
<1>7. CASE SegmentFails
  <2>1. loading # NoFile /\ AbandonLoad /\ segments' = segments
    BY <1>7 DEF SegmentFails, Loadable, Headers, AbandonLoad
  <2>2. regions' = AfterMap /\ Current.segment \in Segments
    <3>1. loading \in Files /\ loading.kind = "elf"
      BY <1>1, <2>1 DEF LoaderTypeOK, ProgressInv
    <3>2. Len(loading.headers) \in Nat /\ DOMAIN loading.headers = 1 .. Len(loading.headers)
      BY <3>1, ElfFacts
    <3>3. header \in DOMAIN loading.headers
      BY <1>1, <1>7, <2>1, <3>2 DEF LoaderTypeOK, SegmentFails, Loadable, Headers
    <3> QED BY <1>7, <3>1, <3>3, ElfFacts, HeaderFacts DEF Current, SegmentFails
  <2>3. CASE ~Accepted
    <3>1. regions' = regions
      BY <2>2, <2>3 DEF AfterMap, MapRegion, Accepted
    <3> QED BY <1>1, <2>1, <3>1, AbandonKeeps, MemoryStays DEF LoaderInv
  <2>4. CASE Accepted
    <3> DEFINE s == Current.segment
               r == Region(s.size, s.flags)
    <3>1. /\ WellFormed(regions) /\ \A i \in DOMAIN segments : segments[i] \in Segments
          /\ \A i \in DOMAIN segments : Holds(regions, segments[i])
      BY <1>1, ElementOfSeq DEF MemoryInv
    <3>2. /\ s \in Segments /\ MapAccepted(regions, s.vaddr, s.size)
          /\ regions' = MapRegion(regions, s.vaddr, s.size, s.flags)
      BY <2>2, <2>4 DEF AfterMap, Accepted
    <3>3. r.size \in Nat
      BY <3>2, SegmentFacts DEF Region
    <3>4. regions' = Put(regions, s.vaddr, r)
      BY <3>2 DEF MapRegion
    <3> HIDE DEF s, r
    <3>5. WellFormed(regions')
      BY <3>1, <3>2, MapWellFormed
    <3>6. \A i \in DOMAIN segments : Holds(regions', segments[i])
      BY <3>1, <3>2, <3>3, <3>4, MapHolds
    <3>7. MemoryInv'
      BY <1>1, <2>1, <3>5, <3>6 DEF MemoryInv, NoSegmentReloaded
    <3> QED BY <2>1, <3>7, AbandonKeeps DEF LoaderInv
  <2> QED BY <2>3, <2>4
<1>8. CASE OutOfMemory
  <2>1. /\ UNCHANGED <<regions, header, fallback, entryPoint, segments, pc, engine,
                       bridge, status>>
        /\ loading' = NoFile /\ loading # NoFile
    BY <1>8 DEF OutOfMemory, vars, Loadable, Headers
  <2>2. LoaderTypeOK' /\ ProgressInv'
    BY <1>1, <2>1 DEF LoaderTypeOK, ProgressInv
  <2> QED BY <1>1, <2>1, <2>2, MemoryStays DEF LoaderInv
<1>9. CASE FinishLoad
  <2>1. /\ UNCHANGED <<regions, header, fallback, entryPoint, segments, engine, bridge>>
        /\ loading' = NoFile /\ loading # NoFile
        /\ pc' = entryPoint /\ status' = "LoadedELF"
    BY <1>9 DEF FinishLoad, vars
  <2>2. LoaderTypeOK' /\ ProgressInv'
    BY <1>1, <2>1 DEF LoaderTypeOK, ProgressInv
  <2> QED BY <1>1, <2>1, <2>2, MemoryStays DEF LoaderInv
<1>10. CASE TryEngine
  <2>1. /\ UNCHANGED <<regions, loading, header, entryPoint, segments, pc, bridge>>
        /\ fallback' = NoFile /\ fallback # NoFile
        /\ engine' = (engine \/ bridge = "usable")
        /\ status' \in {"GameLoaded", "EngineFailed", "NoEngine"}
    BY <1>10 DEF TryEngine, vars
  <2>2. loading = NoFile
    BY <1>1, <2>1 DEF LoaderTypeOK
  <2>3. engine' \in BOOLEAN /\ (engine' => bridge' = "usable")
    BY <1>1, <2>1, Zenon DEF LoaderTypeOK
  <2>4. LoaderTypeOK' /\ ProgressInv'
    BY <1>1, <2>1, <2>2, <2>3 DEF LoaderTypeOK, ProgressInv
  <2> QED BY <1>1, <2>1, <2>4, MemoryStays DEF LoaderInv
<1>11. CASE EngineMissing
  <2>1. /\ UNCHANGED <<regions, loading, header, fallback, entryPoint, segments, pc,
                       engine, bridge>>
        /\ fallback # NoFile /\ ~engine /\ status' = "Dead"
    BY <1>11 DEF EngineMissing, vars
  <2>2. loading = NoFile
    BY <1>1, <2>1 DEF LoaderTypeOK
  <2>3. LoaderTypeOK' /\ ProgressInv'
    BY <1>1, <2>1, <2>2 DEF LoaderTypeOK, ProgressInv
  <2> QED BY <1>1, <2>1, <2>3, MemoryStays DEF LoaderInv
<1>12. CASE GuestAccess
  <2>1. loading = NoFile /\ UNCHANGED loaderVars
    BY <1>12 DEF GuestAccess, Idle
  <2>2. LoaderTypeOK' /\ ProgressInv'
    BY <1>1, <2>1 DEF LoaderTypeOK, ProgressInv, loaderVars
  <2> QED BY <1>1, <1>12, <2>2, GuestKeeps DEF LoaderInv
<1>13. CASE UNCHANGED allVars
  <2>1. UNCHANGED <<regions, loading, header, fallback, entryPoint, segments, pc,
                    engine, bridge, status>>
    BY <1>13 DEF allVars, vars, loaderVars
  <2>2. LoaderTypeOK'
    BY <1>1, <2>1 DEF LoaderTypeOK
  <2>3. ProgressInv'
    BY <1>1, <2>1 DEF ProgressInv, Recorded, Shown, VisibleIn
  <2> QED BY <1>1, <2>1, <2>2, <2>3, MemoryStays DEF LoaderInv
<1> QED BY <1>2, <1>3, <1>4, <1>5, <1>6, <1>7, <1>8, <1>9, <1>10, <1>11, <1>12,
           <1>13 DEF LoaderNext
-----------------------------------------------------------------------------
LEMMA LoaderInvariant == LoaderSpec => []LoaderInv
BY LoaderInitInv, LoaderNextInv, PTL DEF LoaderSpec

\* The state keeps its type, over any sequence of loads and guest accesses.
THEOREM LoaderTyped == LoaderSpec => []LoaderTypeOK
<1>1. LoaderInv => LoaderTypeOK
  BY DEF LoaderInv
<1> QED BY <1>1, LoaderInvariant, PTL

\* No recorded segment starts inside an earlier one: an image is loaded once.
THEOREM NothingLoadedTwice == LoaderSpec => []NoSegmentReloaded
<1>1. LoaderInv => NoSegmentReloaded
  BY DEF LoaderInv, MemoryInv
<1> QED BY <1>1, LoaderInvariant, PTL

\* When load() reports success every segment of a file whose segments are
\* disjoint is what the guest sees, its bytes from the file and then zeros.
THEOREM ImageIsVisible == LoaderSpec => LoadedImageVisible
<1> DEFINE Good == FinishLoad /\ DisjointSegments(loading) =>
                      \A i \in LoadHeaders(loading) : Visible(loading.headers[i])
<1>1. LoaderInv => Good
  <2> SUFFICES ASSUME LoaderInv, FinishLoad, DisjointSegments(loading),
                      NEW i \in LoadHeaders(loading)
               PROVE  Visible(loading.headers[i])
    OBVIOUS
  <2>1. loading # NoFile /\ header > Len(loading.headers)
    BY DEF FinishLoad
  <2>2. loading \in Files /\ loading.kind = "elf"
    BY <2>1 DEF LoaderInv, LoaderTypeOK, ProgressInv
  <2>3. header \in Nat
    <3>1. Len(loading.headers) \in Nat
      BY <2>2, ElfFacts
    <3> QED BY <2>1, <3>1 DEF LoaderInv, LoaderTypeOK
  <2>4. i \in Done(loading, header)
    BY <2>1, <2>2, <2>3, DoneFacts
  <2> QED BY <2>1, <2>4 DEF LoaderInv, ProgressInv, Shown, VisibleIn, Visible, ImageByte
<1> HIDE DEF Good
<1>2. LoaderSpec => [][Good]_allVars
  BY <1>1, LoaderInvariant, PTL
<1> QED BY <1>2 DEF Good, LoadedImageVisible

\* The PC changes only to the entry point of an image whose PT_LOAD segments are
\* the last ones of segments_, in the order of the file.
THEOREM PcOnlyToLoadedImage == LoaderSpec => PcOfLoadedImage
<1> DEFINE Sent ==
       /\ loading # NoFile /\ pc' = loading.entry
       /\ Len(segments) >= Cardinality(LoadHeaders(loading))
       /\ \A i \in LoadHeaders(loading) :
             segments[Len(segments) - Cardinality(Later(loading, i))]
                = loading.headers[i].segment
<1>1. LoaderInv /\ [LoaderNext]_allVars => (pc' # pc => Sent)
  <2> SUFFICES ASSUME LoaderInv, [LoaderNext]_allVars, pc' # pc PROVE Sent
    OBVIOUS
  <2>1. FinishLoad
    BY DEF LoaderNext, RefusePackage, LoadSelf, SelfOutOfMemory, BeginLoad,
           SkipHeader, TruncatedFile, AbandonLoad, LoadSegment, SegmentFails,
           OutOfMemory, TryEngine, EngineMissing, GuestAccess, loaderVars, allVars
  <2>2. loading # NoFile /\ header > Len(loading.headers) /\ pc' = entryPoint
    BY <2>1 DEF FinishLoad
  <2>3. /\ loading \in Files /\ loading.kind = "elf" /\ entryPoint = loading.entry
        /\ Recorded(segments, loading, header)
    BY <2>2 DEF LoaderInv, LoaderTypeOK, ProgressInv
  <2>4. header \in Nat
    <3>1. Len(loading.headers) \in Nat
      BY <2>3, ElfFacts
    <3> QED BY <2>2, <3>1 DEF LoaderInv, LoaderTypeOK
  <2>5. /\ Done(loading, header) = LoadHeaders(loading)
        /\ \A i : DoneAfter(loading, header, i) = Later(loading, i)
    BY <2>2, <2>3, <2>4, DoneFacts
  <2> QED BY <2>2, <2>3, <2>5 DEF Recorded
<1> HIDE DEF Sent
<1>2. LoaderSpec => [][pc' # pc => Sent]_allVars
  BY <1>1, LoaderInvariant, PTL DEF LoaderSpec
<1> QED BY <1>2 DEF Sent, PcOfLoadedImage

\* A container is reported as loaded exactly if its header and its table are in the
\* file, and what is read of it is in the file.
THEOREM SelfReadInFile == LoaderSpec => SelfReadsInside
<1> DEFINE Inside ==
       \A f \in {g \in Files : g.kind = "self"} :
          LoadSelf(f) /\ f.size + MetadataUnits < OffsetLimit =>
             /\ status' = "LoadedSELF" <=> Whole(f)
             /\ f.count > 0 \/ f.headerSize + MetadataUnits < OffsetLimit =>
                   \A part \in PartsRead(f) : part.to <= f.size
<1>1. Inside
  <2> SUFFICES ASSUME NEW f \in Files, f.kind = "self", LoadSelf(f),
                      f.size + MetadataUnits < OffsetLimit
               PROVE  /\ status' = "LoadedSELF" <=> Whole(f)
                      /\ f.count > 0 \/ f.headerSize + MetadataUnits < OffsetLimit =>
                            \A part \in PartsRead(f) : part.to <= f.size
    OBVIOUS
  <2>1. ContainerType(f)
    BY FileAssumption DEF FileType
  <2>2. status' = IF SelfAccepted(f) THEN "LoadedSELF" ELSE "SELFFailed"
    BY DEF LoadSelf
  <2>3. status' = "LoadedSELF" <=> Whole(f)
    BY <2>1, <2>2, AcceptedIsWhole
  <2> QED BY <2>1, <2>3, ReadsInside
<1> HIDE DEF Inside
<1>2. LoaderSpec => [][Inside]_allVars
  BY <1>1, PTL DEF LoaderSpec
<1> QED BY <1>2, PTL DEF Inside, SelfReadsInside
=============================================================================
