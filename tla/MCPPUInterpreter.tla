-------------------------- MODULE MCPPUInterpreter --------------------------
(***************************************************************************)
(* Programs for the interpreter: every pair of the instructions below, and *)
(* a few longer ones with calls, recursion and loops.  A word is its index *)
(* in Listing; words past its end are unknown opcodes.  Registers have 12  *)
(* bits and words 6, so that a half-word field has 3.  A program fills its *)
(* chunk: an access to the rest of one would put an on-demand region over  *)
(* the program.                                                            *)
(***************************************************************************)
EXTENDS PPUInterpreter, TLC

\* ----- Assembly, as PowerPC reads it
Compute(mn, d, a, b) ==
    [class |-> "compute", mn |-> mn, d |-> d, a |-> a, b |-> b, v |-> 0,
     immediate |-> FALSE, record |-> FALSE]
ComputeI(mn, d, a, v) == [Compute(mn, d, a, 0) EXCEPT !.v = v, !.immediate = TRUE]
Dot(i) == [i EXCEPT !.record = TRUE]
Cmp(f, a, b) == [class |-> "cmp", d |-> f, a |-> a, b |-> b]
MoveTo_(mn, a) == [class |-> "mtspr", mn |-> mn, a |-> a]
B(to, v, link) == [class |-> "branch", count |-> "no", test |-> "no", bit |-> 0,
                   to |-> to, v |-> v, link |-> link]
BC(count, test, bit, to, v, link) ==
    [class |-> "branch", count |-> count, test |-> test, bit |-> bit,
     to |-> to, v |-> v, link |-> link]
Shift(mn, d, a, b) == [class |-> "shift", mn |-> mn, d |-> d, a |-> a, b |-> b]
\* sh, mb and me as the handler reads them.
Rotate(mn, d, a, b, sh, mb, me) ==
    [class |-> "shift", mn |-> mn, d |-> d, a |-> a, b |-> b,
     sh |-> sh, mb |-> mb, me |-> me]
Mem(class, d, a, v, n, update) ==
    [class |-> class, d |-> d, a |-> a, v |-> v, n |-> n, update |-> update]

Listing == <<
    ComputeI("addi", 3, 3, -1),             \*  1
    ComputeI("addi", 1, 1, -2),             \*  2
    ComputeI("addi", 1, 1, 2),              \*  3
    ComputeI("addi", 5, 0, 3),              \*  4
    ComputeI("addis", 3, 0, -2),            \*  5
    Dot(Compute("add", 5, 5, 3)),           \*  6
    Dot(Compute("subf", 3, 5, 3)),          \*  7
    Compute("addc", 5, 3, 5),               \*  8
    Compute("subfc", 5, 3, 5),              \*  9
    ComputeI("subfic", 5, 3, -1),           \* 10
    Compute("mulhwu", 5, 3, 3),             \* 11
    Compute("and", 3, 3, 5),                \* 12
    Compute("nand", 3, 3, 5),               \* 13
    Compute("or", 0, 3, 5),                 \* 14
    Compute("nor", 3, 3, 5),                \* 15
    Compute("xor", 3, 3, 5),                \* 16
    Compute("eqv", 3, 3, 5),                \* 17
    ComputeI("or", 3, 3, 5),                \* 18
    Dot(ComputeI("and", 5, 3, 7)),          \* 19
    Compute("mflr", 0, 0, 0),               \* 20
    Compute("mfctr", 3, 0, 0),              \* 21
    MoveTo_("mtlr", 0),                     \* 22
    MoveTo_("mtctr", 3),                    \* 23
    MoveTo_("mtxer", 3),                    \* 24
    Cmp(0, 3, 5),                           \* 25
    Cmp(1, 3, 5),                           \* 26
    B("near", 3, TRUE),                     \* 27  bl
    B("near", -1, FALSE),                   \* 28
    B("far", -5, FALSE),                    \* 29
    BC("nonzero", "no", 0, "near", -1, FALSE),      \* 30  bdnz
    BC("zero", "set", 2, "near", 2, FALSE),         \* 31  bdzt
    BC("nonzero", "clear", 4, "near", 2, FALSE),    \* 32  bdnzf
    BC("no", "set", 2, "near", 2, FALSE),           \* 33  beq
    BC("no", "clear", 0, "near", -2, FALSE),        \* 34  bge
    BC("no", "no", 0, "lr", 0, FALSE),              \* 35  blr
    BC("no", "no", 0, "lr", 0, TRUE),               \* 36  blrl
    BC("no", "set", 2, "lr", 0, FALSE),             \* 37  beqlr
    BC("no", "no", 0, "ctr", 0, TRUE),              \* 38  bctrl
    Mem("load", 3, 5, 1, 1, FALSE),         \* 39  lwz
    Mem("load", 3, 5, -1, 1, TRUE),         \* 40  lwzu
    Mem("store", 3, 5, -1, 1, FALSE),       \* 41  stw
    Mem("store", 3, 5, 1, 1, TRUE),         \* 42  stwu
    Mem("load", 0, 1, 0, 2, FALSE),         \* 43  ld
    Mem("load", 3, 1, 2, 2, TRUE),          \* 44  ldu
    Mem("store", 0, 1, 0, 2, FALSE),        \* 45  std
    Mem("store", 3, 1, 1, 2, TRUE),         \* 46  stdu
    [class |-> "sc"],                       \* 47
    [class |-> "quiet"],                    \* 48
    Mem("load", 5, 5, 0, 2, FALSE),         \* 49  ld
    B("near", -6, TRUE),                    \* 50  bl
    ComputeI("addi", 3, 0, 3),              \* 51
    B("near", -2, FALSE),                   \* 52
    Shift("slw", 3, 3, 5),                  \* 53
    Shift("srw", 3, 3, 5),                  \* 54
    Shift("sraw", 3, 3, 5),                 \* 55
    Rotate("rlwinm", 3, 3, 0, 2, 1, 4),     \* 56
    Rotate("rlwimi", 5, 3, 0, 0, 2, 5),     \* 57
    Rotate("rlwnm", 5, 3, 5, 0, 0, 9),      \* 58  mask undefined
    ComputeI("subfic", 3, 3, -1),           \* 59
    Compute("subfc", 0, 3, 5),              \* 60
    Compute("subfc", 3, 3, 5)               \* 61
>>

MCPower == [k \in 0 .. 12 |-> 2 ^ k]

MCByte == 0 .. 63
MCAsm  == [w \in MCByte |->
              IF w \in DOMAIN Listing THEN Listing[w] ELSE [class |-> "unknown"]]

\* ----- The bit fields of the same instructions
Raw(v, limit) == v % limit
BO(i) == (CASE i.test = "no" -> 16 [] i.test = "set" -> 8 [] OTHER -> 0)
         + (CASE i.count = "no" -> 4 [] i.count = "zero" -> 2 [] OTHER -> 0)
Flag(b) == IF b THEN 1 ELSE 0
Spr(mn) == CASE mn \in {"mflr", "mtlr"} -> 8 [] mn = "mtxer" -> 1 [] OTHER -> 9

ComputeFields(i) ==
    CASE i.mn \in {"mflr", "mfctr"} -> [op |-> "mfspr", rD |-> i.d, spr |-> Spr(i.mn)]
      [] i.immediate /\ i.mn \in {"or", "and"} ->
            [op |-> IF i.mn = "or" THEN "ori" ELSE "andi.",
             rA |-> i.d, rD |-> i.a, imm |-> Raw(i.v, HalfLimit)]
      [] i.immediate -> [op |-> i.mn, rD |-> i.d, rA |-> i.a,
                         imm |-> Raw(i.v, HalfLimit)]
      [] i.mn \in LogicalOps -> [op |-> i.mn, rA |-> i.d, rD |-> i.a, rB |-> i.b]
      [] OTHER -> [op |-> i.mn, rD |-> i.d, rA |-> i.a, rB |-> i.b,
                   rc |-> Flag(i.record)]

BranchFields(i) ==
    LET op == CASE i.to = "lr" -> "bclr" [] i.to = "ctr" -> "bcctr"
                [] i.count = "no" /\ i.test = "no" -> "b" [] OTHER -> "bc"
    IN  [op |-> op, bo |-> BO(i), bi |-> i.bit, lk |-> Flag(i.link),
         aa |-> Flag(i.to = "far"), li |-> Raw(i.v, LiLimit),
         imm |-> Raw(i.v, HalfLimit)]

ShiftFields(i) == [op |-> i.mn, rA |-> i.d, rD |-> i.a, rB |-> i.b] @@ i

MemOp(i) == (IF i.class = "load" THEN (IF i.n = 1 THEN "lwz" ELSE "ld")
                                 ELSE (IF i.n = 1 THEN "stw" ELSE "std"))

WithUpdate(op) == CASE op = "lwz" -> "lwzu" [] op = "ld" -> "ldu"
                    [] op = "stw" -> "stwu" [] op = "std" -> "stdu"

Encoded(i) ==
    CASE i.class = "compute" -> ComputeFields(i)
      [] i.class = "shift"   -> ShiftFields(i)
      [] i.class = "cmp"     -> [op |-> "cmp", bf |-> i.d, rA |-> i.a, rB |-> i.b]
      [] i.class = "mtspr"   -> [op |-> "mtspr", rD |-> i.a, spr |-> Spr(i.mn)]
      [] i.class = "branch"  -> BranchFields(i)
      [] i.class \in {"load", "store"} ->
            [op |-> IF i.update THEN WithUpdate(MemOp(i)) ELSE MemOp(i),
             rD |-> i.d, rA |-> i.a, imm |-> Raw(i.v, HalfLimit)]
      [] OTHER               -> [op |-> i.class]

\* Fields a handler extracts and does not use have no effect: 0 here.
AllFields == [op |-> "unknown", rD |-> 0, rA |-> 0, rB |-> 0, imm |-> 0, rc |-> 0,
              li |-> 0, bo |-> 0, bi |-> 0, bf |-> 0, spr |-> 0, aa |-> 0, lk |-> 0,
              sh |-> 0, mb |-> 0, me |-> 0]
MCFields == [w \in MCByte |->
    LET e == Encoded(MCAsm[w])
    IN  [f \in DOMAIN AllFields |-> IF f \in DOMAIN e THEN e[f] ELSE AllFields[f]]]

\* ----- Programs, in the chunk at 256; the stack and the data are in main RAM
Start(r0, r1, r3, r5) ==
    [n \in Regs |-> CASE n = 0 -> r0 [] n = 1 -> r1 [] n = 3 -> r3 [] n = 5 -> r5]
Image(words, gpr, max) ==
    [base |-> 256, gpr |-> gpr, max |-> max,
     words |-> [k \in 1 .. Chunk |-> IF k <= Len(words) THEN words[k] ELSE 0]]

\* r3 is counted down by a function that calls itself and keeps its link
\* register on the stack.
Recursion == Image(<<27, 0, 0, 25, 37, 20, 2, 45, 1, 50, 43, 22, 3, 35>>,
                   Start(0, 76, 2, 0), 40)
\* A counted loop that stores, and one that allocates past 2^32.
StoreLoop    == Image(<<23, 42, 30>>, Start(0, 74, 3, 70), 40)
AllocateLoop == Image(<<47, 51, 52>>, Start(202, 74, 64, 0), 40)
\* The block's address is read back, the block touched, written and read.
UseBlock == Image(<<47, 49, 39, 1, 42, 40, 39>>, Start(202, 74, 64, 66), 40)
\* A call through the count register, and one through the link register.
CallPointer == Image(<<23, 38, 0, 35>>, Start(0, 74, 259, 70), 40)
Shifts      == Image(<<53, 55, 54, 56, 57, 58>>, Start(0, 74, 45, 2), 40)
CallBack    == Image(<<27, 48, 48, 36>>, Start(0, 74, 1, 70), 40)

Starts == {Start(202, 74, 1, 70), Start(259, 74, 4095, 70), Start(513, 74, 5, 5)}
Words  == (1 .. 57) \cup (59 .. 61)

Pairs == {Image(<<v, w>>, gpr, 6) : v \in {0} \cup Words, w \in Words, gpr \in Starts}

\* For the carry: one subtraction or addition into each destination.
CarryImages == {Image(<<w>>, gpr, 1) : w \in {8, 9, 10, 59, 60, 61}, gpr \in Starts}

MCImages == Pairs \cup {Recursion, StoreLoop, AllocateLoop, UseBlock,
                         CallPointer, CallBack, Shifts}

MCSegments == {[vaddr |-> 256, size |-> Chunk, flags |-> Prot]}

MCObserved == (3 .. 7) \cup (66 .. 79) \cup (256 .. 270) \cup (576 .. 579)

StillDefined == ~wild
=============================================================================
