----------------------------- MODULE ElfLoader -----------------------------
(***************************************************************************)
(* Emulator::loadGame on an initialised emulator: the choice of format,    *)
(* ElfLoader::load header by header, ElfLoader::loadSelf, and the fallback *)
(* to the RPCS3 engine.  Between loads the guest reads and writes memory.  *)
(*                                                                         *)
(* A load runs to its end on one thread, so no guest access falls inside   *)
(* it; it is split into one step per program header because each of them   *)
(* can fail and leave what the earlier ones did.                           *)
(***************************************************************************)
EXTENDS MemoryManager, SELFLoader, Sequences, FiniteSets

CONSTANTS
    Files,      \* the game files that may be loaded, see FileType
    NoFile,
    GuestAddrs, \* bound: the addresses the guest reads and writes
    InitialPC   \* the PC of a freshly initialised PPU

\* A program header: what load() reads of it, whether it lies inside the file
\* and whether its data does.
HeaderType(h) ==
    /\ h.load \in BOOLEAN /\ h.inFile \in BOOLEAN /\ h.dataInFile \in BOOLEAN
    /\ h.segment \in Segments
    /\ h.filesz \in 0 .. h.segment.size
    /\ h.data \in [0 .. (h.filesz - 1) -> Byte]

\* kind is the file-name suffix loadGame looks at; ok says that the file can be
\* read and its ELF header, or a SELF's magic number, is accepted.
FileType(f) ==
    \/ f.kind = "pkg"
    \/ f.kind = "self" /\ ContainerType(f)
    \/ /\ f.kind = "elf" /\ f.ok \in BOOLEAN /\ f.entry \in Addr
       /\ Len(f.headers) \in Nat /\ DOMAIN f.headers = 1 .. Len(f.headers)
       /\ \A i \in DOMAIN f.headers : HeaderType(f.headers[i])

ASSUME FileAssumption ==
    NoFile \notin Files /\ GuestAddrs \subseteq Addr /\ \A f \in Files : FileType(f)

VARIABLES
    loading,      \* the file load() is reading, or NoFile
    header,       \* index of the next program header
    fallback,     \* load() has failed for this file; the engine is tried next
    entryPoint,   \* entryPoint_
    segments,     \* segments_
    pc,           \* the PPU's program counter
    engine,       \* engine_ is set
    bridge,       \* the RPCS3 library: "absent", "unusable" or "usable"
    status        \* which statusText_ was set last; "Dead": the process is gone

loaderVars == <<loading, header, fallback, entryPoint, segments, pc, engine,
                bridge, status>>
allVars    == <<vars, loaderVars>>

LoaderInit ==
    /\ regions = InitialRegions(NoRegions) /\ initialized = TRUE
    /\ wild = FALSE /\ unmaps = FALSE
    /\ loading = NoFile /\ header = 1 /\ fallback = NoFile
    /\ entryPoint = 0 /\ segments = <<>> /\ pc = InitialPC
    /\ engine = FALSE /\ bridge \in {"absent", "unusable", "usable"}
    /\ status = "Ready"

Idle == loading = NoFile /\ fallback = NoFile
-----------------------------------------------------------------------------
\* PKG and ISO images are refused by name.
RefusePackage(f) ==
    /\ Idle /\ f.kind = "pkg"
    /\ status' = "Unsupported"
    /\ UNCHANGED <<vars, loading, header, fallback, entryPoint, segments, pc,
                   engine, bridge>>

\* loadSelf parses the container and stops there: no memory, no entry point.
LoadSelf(f) ==
    /\ Idle /\ f.kind = "self"
    /\ status' = IF SelfAccepted(f) THEN "LoadedSELF" ELSE "SELFFailed"
    /\ UNCHANGED <<vars, loading, header, fallback, entryPoint, segments, pc,
                   engine, bridge>>

\* The buffer for the whole container cannot be allocated: as in OutOfMemory.
SelfOutOfMemory(f) ==
    /\ Idle /\ f.kind = "self"
    /\ status' = "Loading"
    /\ UNCHANGED <<vars, loading, header, fallback, entryPoint, segments, pc,
                   engine, bridge>>

\* Mutant: the index of the next header survives the previous file.
BeginAtOldHeader(f) ==
    /\ Idle /\ f.kind = "elf"
    /\ status' = "Loading"
    /\ IF f.ok
       THEN loading' = f /\ entryPoint' = f.entry /\ UNCHANGED fallback
       ELSE fallback' = f /\ UNCHANGED <<loading, entryPoint>>
    /\ UNCHANGED <<vars, header, segments, pc, engine, bridge>>

\* Mutant: the PPU is sent to the entry point as soon as it is known.
BeginAtEntry(f) ==
    /\ Idle /\ f.kind = "elf"
    /\ status' = "Loading"
    /\ header' = 1
    /\ IF f.ok
       THEN /\ loading' = f /\ entryPoint' = f.entry /\ pc' = f.entry
            /\ UNCHANGED fallback
       ELSE fallback' = f /\ UNCHANGED <<loading, entryPoint, pc>>
    /\ UNCHANGED <<vars, segments, engine, bridge>>

\* load() up to the program headers; entryPoint_ is set before any is read.
BeginLoad(f) ==
    /\ Idle /\ f.kind = "elf"
    /\ status' = "Loading"
    /\ header' = 1
    /\ IF f.ok
       THEN loading' = f /\ entryPoint' = f.entry /\ UNCHANGED fallback
       ELSE fallback' = f /\ UNCHANGED <<loading, entryPoint>>
    /\ UNCHANGED <<vars, segments, pc, engine, bridge>>

Current == loading.headers[header]
Headers == loading # NoFile /\ header <= Len(loading.headers)

AbandonLoad ==
    /\ fallback' = loading /\ loading' = NoFile
    /\ UNCHANGED <<initialized, wild, unmaps, header, entryPoint, segments, pc,
                   engine, bridge, status>>

\* A program header that is not PT_LOAD.
SkipHeader ==
    /\ Headers /\ Current.inFile /\ ~Current.load
    /\ header' = header + 1
    /\ UNCHANGED <<vars, loading, fallback, entryPoint, segments, pc, engine,
                   bridge, status>>

\* The header, or the data of a PT_LOAD segment, lies past the end of the file.
TruncatedFile ==
    /\ Headers
    /\ \/ ~Current.inFile
       \/ Current.load /\ Current.filesz > 0 /\ ~Current.dataInFile
    /\ UNCHANGED regions
    /\ AbandonLoad

Loadable == /\ Headers /\ Current.inFile /\ Current.load
            /\ Current.filesz > 0 => Current.dataInFile

\* Mutant: only the bytes in the file are mapped, not the zeros after them.
AfterMapOfFile == LET s == Current.segment
                  IN  MapRegion(regions, s.vaddr, Current.filesz, s.flags)

\* mapRegion, then write() of the file's bytes.
AfterMap == LET s == Current.segment
            IN  MapRegion(regions, s.vaddr, s.size, s.flags)
Accepted == MapAccepted(regions, Current.segment.vaddr, Current.segment.size)
CopyOK   == \/ Current.filesz = 0
            \/ Permits(AfterMap, Current.segment.vaddr, Current.filesz, "W")

LoadSegment ==
    /\ Loadable /\ Accepted /\ CopyOK
    /\ regions' = IF Current.filesz = 0 THEN AfterMap
                  ELSE AfterWrite(AfterMap, Current.segment.vaddr,
                                  Current.filesz, Current.data)
    /\ segments' = Append(segments, Current.segment)
    /\ header' = header + 1
    /\ UNCHANGED <<initialized, wild, unmaps, loading, fallback, entryPoint, pc,
                   engine, bridge, status>>

\* The range is taken, or the new region is not writable and stays mapped.
SegmentFails ==
    /\ Loadable /\ (Accepted => ~CopyOK)
    /\ regions' = AfterMap
    /\ AbandonLoad

\* The segment's buffer or its region cannot be allocated: the exception leaves
\* load() and loadGame(), so the engine is not tried and the status stays.
OutOfMemory ==
    /\ Loadable
    /\ loading' = NoFile
    /\ UNCHANGED <<vars, header, fallback, entryPoint, segments, pc, engine,
                   bridge, status>>

FinishLoad ==
    /\ loading # NoFile /\ header > Len(loading.headers)
    /\ pc' = entryPoint
    /\ status' = "LoadedELF"
    /\ loading' = NoFile
    /\ UNCHANGED <<vars, header, fallback, entryPoint, segments, engine, bridge>>

\* initializeEngine, and then the engine's own loadElf, whose answer is its own.
\* A library without rpcs3_run_frame, or whose rpcs3_init fails, is let go again.
TryEngine ==
    /\ fallback # NoFile /\ (engine \/ bridge # "absent")
    /\ engine' = (engine \/ bridge = "usable")
    /\ status' \in IF engine' THEN {"GameLoaded", "EngineFailed"} ELSE {"NoEngine"}
    /\ fallback' = NoFile
    /\ UNCHANGED <<vars, loading, header, entryPoint, segments, pc, bridge>>

\* Without a library, Rpcs3Bridge::init calls dlerror() a second time and assigns
\* the null it then returns to a std::string: the process ends.
EngineMissing ==
    /\ fallback # NoFile /\ ~engine /\ bridge = "absent" /\ status # "Dead"
    /\ status' = "Dead"
    /\ UNCHANGED <<vars, loading, header, fallback, entryPoint, segments, pc,
                   engine, bridge>>

\* Guest accesses between loads (PPUInterpreter loads and stores).
GuestAccess ==
    /\ Idle
    /\ \E vaddr \in GuestAddrs :
          \/ Read(vaddr, 1)
          \/ \E v \in Byte : Write(vaddr, 1, [i \in 0 .. 0 |-> v])
    /\ UNCHANGED loaderVars

\* loadGame after the loader has recorded this many segments is not explored.
CONSTANT MaxSegments
ASSUME MaxSegmentsAssumption == MaxSegments \in Nat

LoaderNext ==
    \/ \E f \in Files : \/ RefusePackage(f) \/ LoadSelf(f) \/ SelfOutOfMemory(f)
                        \/ Len(segments) < MaxSegments /\ BeginLoad(f)
    \/ SkipHeader \/ TruncatedFile \/ LoadSegment \/ SegmentFails
    \/ OutOfMemory \/ FinishLoad \/ TryEngine \/ EngineMissing \/ GuestAccess

LoaderSpec == LoaderInit /\ [][LoaderNext]_allVars
-----------------------------------------------------------------------------
(***************************************************************************)
(* Properties.                                                             *)
(***************************************************************************)
SegmentRange(s) == s.vaddr .. (s.vaddr + s.size - 1)
LoadHeaders(f)  == {i \in DOMAIN f.headers : f.headers[i].load}
Later(f, i)     == {j \in LoadHeaders(f) : j > i}

LoaderTypeOK ==
    /\ loading \in Files \cup {NoFile} /\ fallback \in Files \cup {NoFile}
    /\ loading = NoFile \/ fallback = NoFile
    /\ loading # NoFile => header \in 1 .. (Len(loading.headers) + 1)
    /\ entryPoint \in Addr /\ pc \in Addr \cup {InitialPC}
    /\ \A i \in DOMAIN segments : segments[i] \in Segments
    /\ engine \in BOOLEAN /\ bridge \in {"absent", "unusable", "usable"}
    /\ engine => bridge = "usable"
    /\ status \in {"Ready", "Unsupported", "LoadedSELF", "SELFFailed", "Loading",
                   "LoadedELF", "NoEngine", "GameLoaded", "EngineFailed", "Dead"}
    /\ status = "Dead" => fallback # NoFile /\ ~engine

DisjointSegments(f) ==
    \A i, j \in LoadHeaders(f) :
        i # j => SegmentRange(f.headers[i].segment)
                   \cap SegmentRange(f.headers[j].segment) = {}

Visible(h) ==
    \A i \in 0 .. (h.segment.size - 1) :
        CellAt(regions, h.segment.vaddr + i) =
            [mapped |-> TRUE, flags |-> h.segment.flags,
             byte |-> IF i < h.filesz THEN h.data[i] ELSE 0]

\* When load() reports success the guest sees every PT_LOAD segment, file bytes
\* then zeros, whatever regions lay in the way before (ElfLoader.cpp:121-156) -
\* provided the file's own segments are disjoint.
LoadedImageVisible ==
    [][FinishLoad /\ DisjointSegments(loading) =>
          \A i \in LoadHeaders(loading) : Visible(loading.headers[i])]_allVars

\* Nothing ever frees a segment: no recorded segment starts inside an earlier
\* one, through failed loads, reloads and on-demand allocations in between.  So
\* an image is loaded at most once per emulator (mapRegion refuses it again).
NoSegmentReloaded ==
    \A i, j \in DOMAIN segments :
        i < j => segments[j].vaddr \notin SegmentRange(segments[i])

\* The PPU is only ever sent to the entry point of an image all of whose
\* segments were recorded, in order, at the tail of segments_; a failed or SELF
\* load leaves the PC alone, although it may have changed entryPoint_.
PcOfLoadedImage ==
    [][pc' # pc =>
        /\ loading # NoFile /\ pc' = loading.entry
        /\ Len(segments) >= Cardinality(LoadHeaders(loading))
        /\ \A i \in LoadHeaders(loading) :
              segments[Len(segments) - Cardinality(Later(loading, i))]
                 = loading.headers[i].segment]_allVars

\* A SELF is reported as loaded exactly if its header and its section table lie in
\* the file and the table is not empty, and nothing past the end of the file is read
\* on the way, for tables that end anywhere around it (SELFLoader.cpp:108, 135) -
\* as long as the file is so short that the 32-bit sum for the metadata cannot wrap.
\* Without a section nothing has compared headerSize with the file, and the second
\* half holds only if that sum does not wrap for it either.
SelfReadsInside ==
    [][\A f \in {g \in Files : g.kind = "self"} :
          LoadSelf(f) /\ f.size + MetadataUnits < OffsetLimit =>
             /\ status' = "LoadedSELF" <=> Whole(f)
             /\ f.count > 0 \/ f.headerSize + MetadataUnits < OffsetLimit =>
                   \A part \in PartsRead(f) : part.to <= f.size]_allVars
=============================================================================
