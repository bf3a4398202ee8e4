--------------------------- MODULE PPUInterpreter ---------------------------
(***************************************************************************)
(* The PPU interpreter and the system calls it makes, over the memory      *)
(* manager.  One step is one executeInstruction: the fetch, the decoded    *)
(* handler and the memory accesses it makes.                               *)
(*                                                                         *)
(* A cell of memory is a 32-bit word, so addresses count words and the PC  *)
(* moves by one; lwz and stw move one cell, ld and std two (byte and       *)
(* half-word forms are the same handlers with a smaller size).  Fields     *)
(* gives the bit fields the handlers take out of a word.  Left out: the    *)
(* values of the floating-point and vector registers, which nothing else   *)
(* reads.                                                                  *)
(***************************************************************************)
EXTENDS SyscallHandler, Sequences

CONSTANTS
    WordBits,     \* 32
    Power,        \* k -> 2 ^ k, up to the width of a register
    HalfLimit,    \* 2^16: a half-word, and the range of a 16-bit field
    LiLimit,      \* 2^26: the range of the displacement of b
    Fields,       \* word -> the fields of the instruction it encodes
    Regs,         \* bound: the general registers in use, 0, 1, 3 and 5 included
    CRBits,       \* bound: the bits of CR in use, a multiple of 4
    Images,       \* bound: the programs, see ImageType
    Observed      \* bound: the addresses whose contents PowerPC follows

RegBits   == 2 * WordBits        \* 64: registers and addresses
WordLimit == Power[WordBits]     \* 2^32: the values of a word
RegLimit  == AddrLimit           \* 2^64: the values of a register

ASSUME WidthAssumption ==
    /\ WordBits \in Nat \ {0} /\ Power \in [0 .. RegBits -> Nat]
    /\ Power[0] = 1 /\ \A k \in 1 .. RegBits : Power[k] = 2 * Power[k - 1]
    /\ Byte = 0 .. (WordLimit - 1)
    /\ RegLimit = Power[RegBits] /\ RegLimit = WordLimit * WordLimit
    /\ HalfLimit \in 1 .. RegLimit /\ LiLimit \in 1 .. RegLimit

\* The fields of a word.  me takes the Rc bit along, so it may be past the word.
InstructionType(i) ==
    /\ {i.rD, i.rA, i.rB} \subseteq Regs
    /\ i.imm \in 0 .. (HalfLimit - 1) /\ i.li \in 0 .. (LiLimit - 1)
    /\ i.sh \in 0 .. (WordBits - 1) /\ i.mb \in 0 .. (WordBits - 1)
    /\ i.me \in Nat

\* A program is one segment, what setGPR set, and maxInstructions, an int, of the
\* executeBlock that runs it.
ImageType(image) ==
    /\ image.words \in Seq(Byte)
    /\ [vaddr |-> image.base, size |-> Len(image.words), flags |-> Prot] \in Segments
    /\ image.gpr \in [Regs -> Addr] /\ image.max \in 0 .. (Word32 - 1)

ASSUME PPUAssumption ==
    /\ {0, 1, 3, 5} \subseteq Regs /\ Observed \subseteq Addr
    /\ DOMAIN Fields = Byte /\ \A word \in Byte : InstructionType(Fields[word])
    /\ \A image \in Images : ImageType(image)

VARIABLES ppu,      \* the members of regs_ in use
          halted,   \* halted_
          left      \* the instructions executeBlock has still to execute

idleVars == <<initialized, unmaps>>
ppuVars  == <<vars, nextMemoryHandle, blocks, ppu, halted, left>>

PPURegisters == [gpr |-> [n \in Regs |-> 0], pc |-> 0, lr |-> 0, ctr |-> 0,
                 cr |-> [k \in 0 .. (CRBits - 1) |-> 0], xer |-> 0]

\* An initialised emulator that has loaded an image, with its PC at the image.
Loaded(image) ==
    LET n == Len(image.words)
    IN  Put(InitialRegions(NoRegions), image.base,
            [Region(n, Prot) EXCEPT
                !.data = [k \in 0 .. (n - 1) |-> image.words[k + 1]]])

PPUInit ==
    /\ \E image \in Images :
          /\ regions = Loaded(image)
          /\ ppu = [PPURegisters EXCEPT !.pc = image.base, !.gpr = image.gpr]
          /\ left = image.max
    /\ initialized = TRUE /\ wild = FALSE /\ unmaps = FALSE
    /\ halted = FALSE /\ SyscallInit
-----------------------------------------------------------------------------
(***************************************************************************)
(* Bits and fields.                                                        *)
(***************************************************************************)
Bit(n, k) == (n \div Power[k]) % 2   \* bit k, counted from the lowest

\* The number whose bits are those of S.
Number(S) ==
    LET below[m \in 0 .. RegBits] ==
            IF m = 0 THEN 0
            ELSE below[m - 1] + (IF m - 1 \in S THEN Power[m - 1] ELSE 0)
    IN  below[RegBits]

\* (int16_t) of a field, and li |= 0xFC000000: the sum with a register wraps.
SignExtend(field, limit) ==
    IF 2 * field >= limit THEN field + RegLimit - limit ELSE field

Base(p, n)  == IF n = 0 THEN 0 ELSE p.gpr[n]
Negative(x) == 2 * x >= RegLimit
Minus(x, y) == Wrap(x + RegLimit - y)

\* One bit of the logical operations, before a complement.
BitOf(op, x, y) ==
    CASE op \in {"and", "nand", "andi."} -> x * y
      [] op \in {"or", "nor", "ori"}     -> x + y - x * y
      [] op \in {"xor", "eqv"}           -> (x + y) % 2

Bitwise(op, x, y) ==
    Number({k \in 0 .. (RegBits - 1) : BitOf(op, Bit(x, k), Bit(y, k)) = 1})

\* Mutant: the new carry is added to the old one.
AddCarry(p, c) == [p EXCEPT !.xer = @ + (IF c THEN 1 ELSE 0)]

\* regs_.xer has 32 bits: SO is its highest, the code keeps the carry in its lowest.
SetCarry(p, c) == [p EXCEPT !.xer = @ - (@ % 2) + (IF c THEN 1 ELSE 0)]
SO(p)          == IF 2 * p.xer >= WordLimit THEN 1 ELSE 0

\* Writes LT, GT, EQ and SO of field bf; cmp writes no SO.
SetField(p, bf, lt, gt, so) ==
    [p EXCEPT !.cr = [k \in DOMAIN @ |->
        CASE k = 4 * bf     -> IF lt THEN 1 ELSE 0
          [] k = 4 * bf + 1 -> IF gt THEN 1 ELSE 0
          [] k = 4 * bf + 2 -> IF lt \/ gt THEN 0 ELSE 1
          [] k = 4 * bf + 3 -> so
          [] OTHER          -> @[k]]]

UpdateCR0(p, result) ==
    SetField(p, 0, Negative(result), result # 0 /\ ~Negative(result), SO(p))

\* int64_t comparison.
Less(x, y) == IF Negative(x) = Negative(y) THEN x < y ELSE Negative(x)
-----------------------------------------------------------------------------
(***************************************************************************)
(* executeArithmetic: the registers after instruction i.                   *)
(***************************************************************************)
SetReg(p, n, value) == [p EXCEPT !.gpr[n] = value]

Recorded(p, i, n) == IF i.rc = 1 THEN UpdateCR0(p, p.gpr[n]) ELSE p

Logical(p, i) ==
    LET b      == IF i.op \in {"ori", "andi."} THEN i.imm ELSE p.gpr[i.rB]
        result == Bitwise(i.op, p.gpr[i.rD], b)
    IN  IF i.op \in {"nand", "nor", "eqv"} THEN RegLimit - 1 - result ELSE result

MoveFrom(p, i) ==
    CASE i.spr = 1 -> p.xer [] i.spr = 8 -> p.lr [] i.spr = 9 -> p.ctr [] OTHER -> 0

MoveTo(p, i) ==
    CASE i.spr = 1 -> [p EXCEPT !.xer = p.gpr[i.rD] % WordLimit]
      [] i.spr = 8 -> [p EXCEPT !.lr = p.gpr[i.rD]]
      [] i.spr = 9 -> [p EXCEPT !.ctr = p.gpr[i.rD]]
      [] OTHER     -> p

LogicalOps    == {"and", "nand", "or", "nor", "xor", "eqv", "ori"}
ArithmeticOps == LogicalOps \cup
    {"andi.", "addi", "addis", "add", "subf", "addc", "subfc", "subfic",
     "mulhwu", "cmp", "mfspr", "mtspr"}

\* Subtractions compare their operands after the difference was written: an operand
\* that is also the destination is compared with its new value.
CarriedAfter(q, i) ==
    LET minuend == IF i.op = "subfc" THEN q.gpr[i.rB] ELSE SignExtend(i.imm, HalfLimit)
    IN  SetCarry(q, minuend >= q.gpr[i.rA])

Arithmetic(p, i) ==
    LET a    == p.gpr[i.rA]
        b    == p.gpr[i.rB]
        simm == SignExtend(i.imm, HalfLimit)
    IN  CASE i.op = "addi"   -> SetReg(p, i.rD, Wrap(Base(p, i.rA) + simm))
          [] i.op = "addis"  -> SetReg(p, i.rD,
                                   (Base(p, i.rA) + simm * HalfLimit) % RegLimit)
          [] i.op = "add"    -> Recorded(SetReg(p, i.rD, Wrap(a + b)), i, i.rD)
          [] i.op = "subf"   -> Recorded(SetReg(p, i.rD, Minus(b, a)), i, i.rD)
          [] i.op = "addc"   -> SetCarry(SetReg(p, i.rD, Wrap(a + b)), Wrap(a + b) < a)
          [] i.op = "subfc"  -> CarriedAfter(SetReg(p, i.rD, Minus(b, a)), i)
          [] i.op = "subfic" -> CarriedAfter(SetReg(p, i.rD, Minus(simm, a)), i)
          [] i.op = "mulhwu" -> SetReg(p, i.rD,
                                   ((a % WordLimit) * (b % WordLimit)) \div WordLimit)
          [] i.op = "cmp"    -> SetField(p, i.bf, Less(a, b), Less(b, a), 0)
          [] i.op = "mfspr"  -> SetReg(p, i.rD, MoveFrom(p, i))
          [] i.op = "mtspr"  -> MoveTo(p, i)
          [] i.op = "andi."  -> UpdateCR0(SetReg(p, i.rA, Logical(p, i)), Logical(p, i))
          [] OTHER           -> SetReg(p, i.rA, Logical(p, i))
-----------------------------------------------------------------------------
(***************************************************************************)
(* Shifts and rotates of words.  They work on the 64-bit register, so what *)
(* its upper word holds may come down.                                     *)
(***************************************************************************)
ShiftOps  == {"slw", "srw", "sraw"}
RotateOps == {"rlwimi", "rlwinm", "rlwnm"}

Low(x)   == x % WordLimit
Int32(x) == IF 2 * x >= WordLimit THEN x - WordLimit ELSE x   \* of a word

\* The amount in rB is masked with 0x1F.
Shifted(p, i) ==
    LET x  == p.gpr[i.rD]
        sh == p.gpr[i.rB] % WordBits
    IN  CASE i.op = "slw"  -> Low(x * Power[sh])
          [] i.op = "srw"  -> Low(x \div Power[sh])
          [] i.op = "sraw" -> Low(Int32(Low(x)) \div Power[sh])

Rotated(p, i) ==
    LET x  == p.gpr[i.rD]
        sh == IF i.op = "rlwnm" THEN p.gpr[i.rB] % WordBits ELSE i.sh
    IN  Bitwise("or", Low(x * Power[sh]), Low(x \div Power[WordBits - sh]))

\* me is read with the Rc bit below it: past the word, the mask is shifted by a
\* negative count, which is undefined.
Masks(i) ==
    IF i.me < WordBits
    THEN {Number({WordBits - 1 - k : k \in i.mb .. i.me})}
    ELSE Byte

\* ~mask has 32 bits: rlwimi, too, clears the upper word.
Masked(p, i, mask) ==
    LET kept == IF i.op = "rlwimi"
                THEN Bitwise("and", p.gpr[i.rA], WordLimit - 1 - mask) ELSE 0
    IN  Bitwise("or", kept, Bitwise("and", Rotated(p, i), mask))
-----------------------------------------------------------------------------
(***************************************************************************)
(* executeBranch and checkCondition, with the PC already past i.           *)
(***************************************************************************)
Counts(i) == Bit(i.bo, 2) = 0

\* --regs_.ctr
Counted(p, i) == IF Counts(i) THEN [p EXCEPT !.ctr = Minus(@, 1)] ELSE p

\* checkCondition, after the count register was decremented.
CheckCondition(p, i) ==
    /\ Counts(i) => (p.ctr # 0) # (Bit(i.bo, 1) = 1)
    /\ Bit(i.bo, 4) = 1 \/ p.cr[i.bi] = Bit(i.bo, 3)

Linked(p, i) == IF i.lk = 1 THEN [p EXCEPT !.lr = p.pc] ELSE p

\* The displacement of b has 26 bits, that of bc 16.
Displaced(p, i) ==
    LET disp == IF i.op = "b" THEN SignExtend(i.li, LiLimit)
                              ELSE SignExtend(i.imm, HalfLimit)
    IN  IF i.aa = 1 THEN disp ELSE Wrap(Minus(p.pc, 1) + disp)

\* Mutant: the link register is written before it is read as the target.
LinkedTarget(p, i) ==
    CASE i.op = "bclr"  -> Linked(p, i).lr
      [] i.op = "bcctr" -> p.ctr
      [] OTHER          -> Displaced(p, i)

Target(p, i) ==
    CASE i.op = "bclr"  -> p.lr
      [] i.op = "bcctr" -> p.ctr
      [] OTHER          -> Displaced(p, i)

BranchOps == {"b", "bc", "bclr", "bcctr"}

Branch(p, i) ==
    LET q == IF i.op = "b" THEN p ELSE Counted(p, i)
    IN  IF i.op = "b" \/ CheckCondition(q, i)
        THEN [Linked(q, i) EXCEPT !.pc = Target(q, i)]
        ELSE q
-----------------------------------------------------------------------------
(***************************************************************************)
(* Memory as the handlers see it: values are big-endian, a refused read    *)
(* gives 0, a refused write is dropped.                                    *)
(***************************************************************************)
BytesOf(x, n) ==
    IF n = 1 THEN [k \in 0 .. 0 |-> x % WordLimit]
    ELSE [k \in 0 .. 1 |-> IF k = 0 THEN x \div WordLimit ELSE x % WordLimit]

ValueOf(bytes, n) == IF n = 1 THEN bytes[0] ELSE bytes[0] * WordLimit + bytes[1]

\* The values read32 or read64 can give, after the region was found or made.
ValuesAt(regs, vaddr, n) ==
    IF ~Permits(regs, vaddr, n, "R") THEN {0}
    ELSE IF InsideBacking(regs, vaddr, n)
    THEN {ValueOf([k \in 0 .. (n - 1) |->
              regs[GetRegion(regs, vaddr)].data[Offset(regs, vaddr) + k]], n)}
    ELSE IF n = 1 THEN Byte ELSE Addr

Stray(regs, vaddr, n, right) ==
    Permits(regs, vaddr, n, right) /\ ~InsideBacking(regs, vaddr, n)

Fetched == AfterRead(regions, ppu.pc)
Passed  == [ppu EXCEPT !.pc = Wrap(@ + 1)]

\* What the fetched word can be.
Decoded == {Fields[word] : word \in ValuesAt(Fetched, ppu.pc, 1)}

\* wild after the fetch and an access that may have strayed.
WildAfter(stray) == wild' = (wild \/ stray \/ Stray(Fetched, ppu.pc, 1, "R"))

OnlyFetches == regions' = Fetched /\ WildAfter(FALSE)

Stores(vaddr, x, n) ==
    LET after == AfterWrite(Fetched, vaddr, n, BytesOf(x, n))
        stray == Stray(after, vaddr, n, "W")
    IN  /\ regions' \in IF stray THEN Corrupted(after) ELSE {after}
        /\ WildAfter(stray)

ExecuteArithmetic(i) ==
    /\ i.op \in ArithmeticOps
    /\ OnlyFetches
    /\ ppu' = Arithmetic(Passed, i)
    /\ UNCHANGED <<halted, nextMemoryHandle, blocks>>

ExecuteShift(i) ==
    /\ OnlyFetches
    /\ \/ i.op \in ShiftOps /\ ppu' = SetReg(Passed, i.rA, Shifted(ppu, i))
       \/ /\ i.op \in RotateOps
          /\ \E mask \in Masks(i) : ppu' = SetReg(Passed, i.rA, Masked(ppu, i, mask))
    /\ UNCHANGED <<halted, nextMemoryHandle, blocks>>

ExecuteBranch(i) ==
    /\ i.op \in BranchOps
    /\ OnlyFetches
    /\ ppu' = Branch(Passed, i)
    /\ UNCHANGED <<halted, nextMemoryHandle, blocks>>

Doublewords == {"ld", "ldu", "std", "stdu"}
SizeOf(i)   == IF i.op \in Doublewords THEN 2 ELSE 1

\* The D field is signed; the code takes the DS field of doublewords unsigned.
EffectiveAddress(i) ==
    Wrap(Base(ppu, i.rA) + (IF i.op \in Doublewords THEN i.imm
                            ELSE SignExtend(i.imm, HalfLimit)))

\* The forms with update write the address back, whether the access worked or not.
Updated(p, i) == IF i.op \in {"lwzu", "ldu", "stwu", "stdu"}
                 THEN SetReg(p, i.rA, EffectiveAddress(i)) ELSE p

ExecuteLoad(i) ==
    LET found == AfterRead(Fetched, EffectiveAddress(i))
    IN  /\ i.op \in {"lwz", "lwzu", "ld", "ldu"}
        /\ regions' = found
        /\ WildAfter(Stray(found, EffectiveAddress(i), SizeOf(i), "R"))
        /\ \E x \in ValuesAt(found, EffectiveAddress(i), SizeOf(i)) :
              ppu' = Updated(SetReg(Passed, i.rD, x), i)
        /\ UNCHANGED <<halted, nextMemoryHandle, blocks>>

ExecuteStore(i) ==
    /\ i.op \in {"stw", "stwu", "std", "stdu"}
    /\ Stores(EffectiveAddress(i), ppu.gpr[i.rD], SizeOf(i))
    /\ ppu' = Updated(Passed, i)
    /\ UNCHANGED <<halted, nextMemoryHandle, blocks>>

\* sc: the call number is in r0; sys_memory_allocate takes its size from r3 and
\* writes the block's address to where r5 points.
ExecuteSyscall(i) ==
    LET call == ppu.gpr[0]
    IN  /\ i.op = "sc"
        /\ IF IsAllocate(call)
           THEN /\ TakeBlock(ppu.gpr[3])
                /\ IF ppu.gpr[5] # 0 THEN Stores(ppu.gpr[5], AllocAddr, 2)
                                     ELSE OnlyFetches
           ELSE OnlyFetches /\ UNCHANGED <<nextMemoryHandle, blocks>>
        /\ ppu' = SetReg(Passed, 3, Answer(call))
        /\ UNCHANGED halted

\* Traps, floating point, vectors and what the handlers leave unimplemented.
ExecuteQuiet(i) ==
    /\ i.op = "quiet"
    /\ OnlyFetches
    /\ ppu' = Passed
    /\ UNCHANGED <<halted, nextMemoryHandle, blocks>>

\* A primary opcode that decodeAndExecute does not know.
HaltUnknown(i) ==
    /\ i.op = "unknown"
    /\ OnlyFetches
    /\ ppu' = Passed
    /\ halted' = TRUE
    /\ UNCHANGED <<nextMemoryHandle, blocks>>

\* The loop of executeBlock around executeInstruction.
ExecuteInstruction ==
    /\ ~halted /\ left > 0
    /\ left' = left - 1
    /\ UNCHANGED idleVars
    /\ \E i \in Decoded :
          \/ ExecuteArithmetic(i) \/ ExecuteShift(i) \/ ExecuteBranch(i)
          \/ ExecuteLoad(i) \/ ExecuteStore(i) \/ ExecuteSyscall(i)
          \/ ExecuteQuiet(i) \/ HaltUnknown(i)

PPUSpec == PPUInit /\ [][ExecuteInstruction]_ppuVars
-----------------------------------------------------------------------------
(***************************************************************************)
(* Properties.                                                             *)
(***************************************************************************)
\* The type of the state: registers hold 64 bits, XER 32, CR bits are bits.
PPUTypeOK ==
    /\ ppu.gpr \in [Regs -> Addr]
    /\ ppu.pc \in Addr /\ ppu.lr \in Addr /\ ppu.ctr \in Addr
    /\ ppu.cr \in [0 .. (CRBits - 1) -> {0, 1}] /\ ppu.xer \in Byte
    /\ halted \in BOOLEAN /\ left \in Nat
    /\ nextMemoryHandle \in 0 .. (Word32 - 1)

CONSTANT Asm   \* word -> the instruction PowerPC takes it for

Reference == INSTANCE PowerPC WITH
    r <- ppu.gpr, pc <- ppu.pc, lr <- ppu.lr, ctr <- ppu.ctr,
    cr <- {k \in DOMAIN ppu.cr : ppu.cr[k] = 1},
    carry <- ppu.xer % 2 = 1, so <- SO(ppu) = 1,
    mem <- [vaddr \in Observed |->
               IF Permits(regions, vaddr, 1, "R")
               THEN CellAt(regions, vaddr).byte ELSE 0],
    open <- {vaddr \in Observed : Permits(regions, vaddr, 1, "W")},
    stopped <- halted

\* Programs run as the supported instructions say (docs/CPU_EMULATION.md,
\* "Supported instructions"): a condition made of BO bits and a decremented count
\* register, a link register that is also a target, signed displacements cut out
\* of words, CR bits set by signed comparisons, and registers saved to and
\* restored from memory that appears on demand, over whole programs.  Of a subtraction
\* into one of its operands the carry is left out: see CarryOfOperands.
ImplementsPowerPC == Reference!Spec

\* The carry is that of the operands of the addition or subtraction, also when the
\* result overwrites one of them ("subtract from with carry",
\* PPUInterpreter.cpp:256).  The code compares after it has written.
CarryOfOperands == Reference!CarryExact
=============================================================================
