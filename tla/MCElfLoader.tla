---------------------------- MODULE MCElfLoader ----------------------------
(* Game files on the geometry of MCMemoryManager: main RAM is 1 .. 4, the    *)
(* chunk 4 .. 5 holds its tail, the chunk 6 .. 7 is free.                    *)
EXTENDS ElfLoader

Seg(vaddr, size, flags) == [vaddr |-> vaddr, size |-> size, flags |-> flags]

Data6   == Seg(6, 1, {"R", "W"})        \* starts a chunk it does not fill
Bss5    == Seg(5, 1, {"R"})             \* against the end of main RAM
Text6   == Seg(6, 1, {"R", "X"})        \* a text segment, not writable
Around6 == Seg(5, 3, {"R", "W"})        \* strictly contains Data6
AllRam  == Seg(0, 6, {"R", "W"})        \* strictly contains main RAM
InRam   == Seg(2, 1, {"R", "W"})

MCSegments == {Data6, Bss5, Text6, Around6, AllRam, InRam}

\* A PT_LOAD header whose file data is all ones.
Load(s, n) == [load |-> TRUE, inFile |-> TRUE, dataInFile |-> TRUE,
               segment |-> s, filesz |-> n, data |-> [i \in 0 .. (n - 1) |-> 1]]
Note       == [Load(Bss5, 0) EXCEPT !.load = FALSE]
Elf(entry, headers) ==
    [kind |-> "elf", ok |-> TRUE, entry |-> entry, headers |-> headers]

Self(size, headerSize, count) ==
    [kind |-> "self", ok |-> TRUE, size |-> size, headerSize |-> headerSize,
     count |-> count]

\* Around the ends of header, table and metadata, and around 2^32.
MCContainers ==
    {[Self(20, 5, 2) EXCEPT !.ok = FALSE], Self(4, 5, 1), Self(20, 4, 1),
     Self(20, 5, 0), Self(10, 5, 2), Self(11, 5, 2), Self(14, 5, 2),
     Self(15, 5, 2), Self(25, 31, 1), Self(27, 24, 1), Self(20, 9, 0),
     Self(20, 29, 0)}

MCFiles ==
    {Elf(6, <<Note, Load(Data6, 1), Load(Bss5, 0)>>),
     Elf(5, <<Load(Data6, 1), Load(Around6, 2)>>),
     Elf(0, <<Load(AllRam, 2)>>),
     Elf(7, <<Load(Data6, 1), Load(InRam, 1)>>),
     Elf(6, <<Load(Text6, 1)>>),
     Elf(5, <<Load(Bss5, 0), [Load(Data6, 1) EXCEPT !.dataInFile = FALSE]>>),
     Elf(5, <<Load(Bss5, 0), [Load(Data6, 1) EXCEPT !.inFile = FALSE]>>),
     [kind |-> "elf",  ok |-> FALSE, entry |-> 0, headers |-> <<>>],
     [kind |-> "pkg"]} \cup MCContainers

StillDefined == ~wild
=============================================================================
