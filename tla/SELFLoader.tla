----------------------------- MODULE SELFLoader -----------------------------
(***************************************************************************)
(* SELFLoader::loadSelf as a function of the container: which parts of the *)
(* file it reads, and whether it accepts it.  Sizes and offsets count      *)
(* units of eight bytes, of which the header has 5 and an entry of the     *)
(* section table 3; the metadata after the table has 4.                    *)
(*                                                                         *)
(* A container is [ok, size, headerSize, count]: ok says that it can be    *)
(* opened and begins with the magic number, which is compared as the host  *)
(* reads it; the fields are those of SELFHeader as the host reads them.    *)
(* secHeaderSize is never used.                                            *)
(***************************************************************************)
EXTENDS Naturals

CONSTANT OffsetLimit   \* 2^29: sizes and offsets have 32 bits and count bytes

HeaderUnits   == 5
EntryUnits    == 3
MetadataUnits == 4

ASSUME SelfAssumption == OffsetLimit \in Nat /\ OffsetLimit > HeaderUnits

ContainerType(f) ==
    /\ f.ok \in BOOLEAN /\ f.size \in 0 .. (OffsetLimit - 1)
    /\ f.headerSize \in 0 .. (OffsetLimit - 1) /\ f.count \in Nat

\* A part of the file that is copied out of the buffer.
Part(from, units) == [from |-> from, to |-> from + units]

\* parseSelfHeader; a file shorter than a header is not looked at.
HasHeader(f)   == f.ok /\ f.size >= HeaderUnits
ParseHeader(f) == HasHeader(f) /\ f.headerSize >= HeaderUnits

\* Where entry i of the table begins: the sum has 32 bits.
EntryOffset(f, i) == (f.headerSize + i * EntryUnits) % OffsetLimit

\* Mutant: only the beginning of an entry has to be in the file.
EntryBegins(f, i) == EntryOffset(f, i) < f.size

\* The test of the loop, a sum of 64 bits.
EntryFits(f, i) == EntryOffset(f, i) + EntryUnits <= f.size

\* parseSelfSections: the entries it copies, up to the first that does not fit.
SectionsRead(f)  == {i \in 0 .. (f.count - 1) : \A k \in 0 .. i : EntryFits(f, k)}
ParseSections(f) == SectionsRead(f) = 0 .. (f.count - 1)

\* parseSelfMetadata: a sum of 32 bits.  Its failure is only a warning.
ParseMetadata(f) ==
    (EntryOffset(f, f.count) + MetadataUnits) % OffsetLimit <= f.size

\* extractELF gives an empty image for any table that is not empty.
ExtractELF(f) == ParseSections(f) /\ f.count > 0

SelfAccepted(f) == ParseHeader(f) /\ ExtractELF(f)

\* Everything that is copied out of the buffer.
PartsRead(f) ==
    (IF HasHeader(f) THEN {Part(0, HeaderUnits)} ELSE {})
    \cup (IF ParseHeader(f)
          THEN {Part(EntryOffset(f, i), EntryUnits) : i \in SectionsRead(f)}
          ELSE {})
    \cup (IF ParseHeader(f) /\ ParseSections(f) /\ ParseMetadata(f)
          THEN {Part(EntryOffset(f, f.count), MetadataUnits)} ELSE {})
-----------------------------------------------------------------------------
\* A container that has a header and a table with an entry, all of it in the file.
Whole(f) ==
    /\ f.ok /\ f.headerSize >= HeaderUnits /\ f.count > 0
    /\ f.headerSize + f.count * EntryUnits <= f.size
=============================================================================
