----------------------- MODULE PPUInterpreter_proofs -----------------------
(***************************************************************************)
(* Proofs about the interpreter for every width of its registers, every    *)
(* geometry of the address space and every program: the registers keep     *)
(* their widths through every instruction, and the blocks that the guest   *)
(* allocates stay apart and usable.                                        *)
(***************************************************************************)
EXTENDS PPUInterpreter, MemoryManager_proofs, SequenceTheorems

-----------------------------------------------------------------------------
(***************************************************************************)
(* Arithmetic.                                                             *)
(***************************************************************************)
LEMMA Induction ==
  ASSUME NEW S, 0 \in S, \A n \in Nat : n \in S => n + 1 \in S
  PROVE  Nat \subseteq S
<1> SUFFICES ASSUME Nat \ S # {} PROVE FALSE
  OBVIOUS
<1>1. PICK m \in Nat \ S : \A n \in Nat \ S : m <= n
  <2>1. Nat \ S \in SUBSET Nat
    OBVIOUS
  <2> QED BY <2>1, LeastElement
<1>2. m # 0 /\ m - 1 \in Nat /\ m - 1 \in S
  BY <1>1
<1>3. (m - 1) + 1 = m
  BY <1>1
<1> QED BY <1>1, <1>2, <1>3

LEMMA DivMod ==
  ASSUME NEW x \in Int, NEW n \in Nat \ {0}
  PROVE  /\ x % n \in Nat /\ x % n < n /\ x \div n \in Int
         /\ x = n * (x \div n) + (x % n)
         /\ x >= 0 => x \div n >= 0 /\ x \div n <= x
<1>1. x % n \in Nat /\ x % n < n /\ x \div n \in Int
  OBVIOUS
<1>2. x = n * (x \div n) + (x % n)
  OBVIOUS
<1>3. x >= 0 => x \div n >= 0 /\ x \div n <= x
  OBVIOUS
<1> QED BY <1>1, <1>2, <1>3

LEMMA PowerFacts ==
  /\ WordBits \in Nat \ {0} /\ RegBits \in Nat /\ RegBits = WordBits + WordBits
  /\ \A k \in 0 .. RegBits : Power[k] \in Nat \ {0}
  /\ \A k \in 1 .. RegBits : Power[k] = Power[k - 1] + Power[k - 1]
<1>1. WordBits \in Nat \ {0} /\ RegBits \in Nat /\ RegBits = WordBits + WordBits
  BY WidthAssumption DEF RegBits
<1>2. \A k \in 0 .. RegBits : Power[k] \in Nat
  BY WidthAssumption
<1>3. \A k \in 1 .. RegBits : Power[k] = Power[k - 1] + Power[k - 1]
  <2> SUFFICES ASSUME NEW k \in 1 .. RegBits
               PROVE  Power[k] = Power[k - 1] + Power[k - 1]
    OBVIOUS
  <2>1. Power[k] = 2 * Power[k - 1]
    BY WidthAssumption
  <2>2. k - 1 \in 0 .. RegBits
    BY <1>1
  <2>3. Power[k - 1] \in Nat
    BY <1>2, <2>2
  <2> HIDE DEF RegBits
  <2> QED BY <2>1, <2>3
<1> DEFINE S == {k \in Nat : k <= RegBits => Power[k] # 0}
<1>4. Nat \subseteq S
  <2>1. 0 \in S
    BY WidthAssumption
  <2>2. ASSUME NEW k \in Nat, k \in S PROVE k + 1 \in S
    <3> SUFFICES ASSUME k + 1 <= RegBits PROVE Power[k + 1] # 0
      OBVIOUS
    <3>1. k \in 0 .. RegBits /\ k + 1 \in 1 .. RegBits /\ (k + 1) - 1 = k
      BY <1>1
    <3>2. Power[k] # 0 /\ Power[k] \in Nat
      BY <1>1, <1>2, <2>2, <3>1
    <3>3. Power[k + 1] = Power[k] + Power[k]
      BY <1>3, <3>1
    <3> QED BY <3>2, <3>3
  <2> HIDE DEF S
  <2> QED BY <2>1, <2>2, Induction
<1>5. \A k \in 0 .. RegBits : Power[k] # 0
  BY <1>1, <1>4
<1> QED BY <1>1, <1>2, <1>3, <1>5

\* The two widths of values.
LEMMA WidthFacts ==
  /\ WordLimit \in Nat \ {0} /\ AddrLimit \in Nat \ {0} /\ RegLimit = AddrLimit
  /\ AddrLimit = WordLimit * WordLimit /\ WordLimit <= AddrLimit
  /\ \E half \in Nat : WordLimit = half + half
  /\ Byte = 0 .. (WordLimit - 1) /\ Byte \subseteq Addr
  /\ Addr = 0 .. (AddrLimit - 1) /\ 0 \in Addr /\ 1 \in Addr /\ 0 \in Byte /\ 1 \in Byte
<1>1. WordLimit \in Nat \ {0}
  <2>1. WordBits \in 0 .. RegBits
    BY PowerFacts
  <2> QED BY <2>1, PowerFacts DEF WordLimit
<1>2. \E half \in Nat : WordLimit = half + half
  <2>1. WordBits \in 1 .. RegBits /\ WordBits - 1 \in 0 .. RegBits
    BY PowerFacts
  <2>2. Power[WordBits - 1] \in Nat
    BY <2>1, PowerFacts
  <2> QED BY <2>1, <2>2, PowerFacts DEF WordLimit
<1>3. /\ RegLimit = AddrLimit /\ AddrLimit = WordLimit * WordLimit
      /\ Byte = 0 .. (WordLimit - 1)
  BY WidthAssumption DEF RegLimit
<1>4. WordLimit * WordLimit \in Nat /\ WordLimit <= WordLimit * WordLimit
  <2> HIDE DEF WordLimit
  <2> QED BY <1>1
<1>5. WordLimit >= 2
  <2> HIDE DEF WordLimit
  <2> QED BY <1>1, <1>2
<1> HIDE DEF WordLimit
<1>6. AddrLimit \in Nat \ {0} /\ WordLimit <= AddrLimit
  BY <1>1, <1>3, <1>4
<1>7. Addr = 0 .. (AddrLimit - 1)
  BY DEF Addr
<1>8. Byte \subseteq Addr /\ 0 \in Addr /\ 1 \in Addr /\ 0 \in Byte /\ 1 \in Byte
  BY <1>1, <1>3, <1>5, <1>6, <1>7
<1> QED BY <1>1, <1>2, <1>3, <1>6, <1>7, <1>8

LEMMA LowFacts ==
  ASSUME NEW x \in Int
  PROVE  x % WordLimit \in Byte /\ x % WordLimit \in Addr
         /\ x % AddrLimit \in Addr
<1>1. x % WordLimit \in Nat /\ x % WordLimit < WordLimit
  BY WidthFacts, DivMod
<1>2. x % AddrLimit \in Nat /\ x % AddrLimit < AddrLimit
  BY WidthFacts, DivMod
<1> QED BY <1>1, <1>2, WidthFacts

LEMMA HighFacts ==
  ASSUME NEW x \in Addr
  PROVE  x \div WordLimit \in Byte /\ x \in Nat
<1> DEFINE W == WordLimit
           q == x \div W
<1>1. x \in Nat /\ x < W * W /\ W \in Nat \ {0}
  BY WidthFacts
<1>2. q \in Nat /\ x = W * q + (x % W) /\ x % W \in Nat
  BY <1>1, DivMod
<1> HIDE DEF W, q
<1>3. q < W
  <2> SUFFICES ASSUME q >= W PROVE FALSE
    BY <1>1, <1>2
  <2>1. W * q >= W * W
    BY <1>1, <1>2
  <2> QED BY <1>1, <1>2, <2>1
<1> QED BY <1>1, <1>2, <1>3, WidthFacts DEF q, W

LEMMA ProductFacts ==
  ASSUME NEW x \in Byte, NEW y \in Byte
  PROVE  /\ x * WordLimit + y \in Addr
         /\ (x * y) \div WordLimit \in Addr
<1> DEFINE W == WordLimit
<1>1. /\ W \in Nat \ {0} /\ x \in Nat /\ y \in Nat /\ x <= W - 1 /\ y <= W - 1
      /\ AddrLimit = W * W
  BY WidthFacts
<1> HIDE DEF W
<1>2. x * W + y < W * W /\ x * W + y \in Nat
  <2>1. x * W <= (W - 1) * W /\ x * W \in Nat
    BY <1>1
  <2>2. (W - 1) * W = W * W - W
    BY <1>1
  <2>3. W * W \in Nat
    BY <1>1
  <2> QED BY <1>1, <2>1, <2>2, <2>3
<1>3. x * y < W * W /\ x * y \in Nat
  <2>1. x * y <= x * W /\ x * y \in Nat /\ x * W \in Nat /\ W * W \in Nat
    BY <1>1
  <2> QED BY <1>1, <1>2, <2>1
<1>4. (x * y) \div W \in Nat /\ (x * y) \div W <= x * y
  BY <1>1, <1>3, DivMod
<1>5. x * W + y \in 0 .. (AddrLimit - 1) /\ (x * y) \div W \in 0 .. (AddrLimit - 1)
  BY <1>1, <1>2, <1>3, <1>4, WidthFacts
<1> QED BY <1>5, WidthFacts DEF W

LEMMA SumFacts ==
  ASSUME NEW x \in Addr, NEW y \in Addr
  PROVE  /\ Wrap(x + y) \in Addr /\ Minus(x, y) \in Addr
         /\ RegLimit - 1 - x \in Addr
BY WidthFacts DEF Wrap, Minus

LEMMA SignExtendFacts ==
  ASSUME NEW limit \in 1 .. RegLimit, NEW field \in 0 .. (limit - 1)
  PROVE  SignExtend(field, limit) \in Addr
BY WidthFacts DEF SignExtend
-----------------------------------------------------------------------------
(***************************************************************************)
(* A number made of bits: the recursion of Number, and its bound.          *)
(***************************************************************************)
Joins(S, f) ==
    f = [m \in 0 .. RegBits |->
            IF m = 0 THEN 0
            ELSE f[m - 1] + (IF m - 1 \in S THEN Power[m - 1] ELSE 0)]

JoinsUpTo(S, n, f) ==
    /\ DOMAIN f = 0 .. n /\ f[0] = 0
    /\ \A m \in 1 .. n : f[m] = f[m - 1] + (IF m - 1 \in S THEN Power[m - 1] ELSE 0)

LEMMA JoinsExists ==
  ASSUME NEW S
  PROVE  \E f : Joins(S, f)
<1> DEFINE T == {n \in Nat : \E f : JoinsUpTo(S, n, f)}
           add(m) == IF m - 1 \in S THEN Power[m - 1] ELSE 0
<1>1. 0 \in T
  <2>1. JoinsUpTo(S, 0, [m \in 0 .. 0 |-> 0])
    BY DEF JoinsUpTo
  <2> QED BY <2>1
<1>2. ASSUME NEW n \in Nat, n \in T PROVE n + 1 \in T
  <2>1. PICK g : JoinsUpTo(S, n, g)
    BY <1>2
  <2> HIDE DEF add
  <2> DEFINE f == [m \in 0 .. (n + 1) |-> IF m = n + 1 THEN g[n] + add(n + 1) ELSE g[m]]
  <2>2. DOMAIN f = 0 .. (n + 1) /\ f[0] = 0
    BY <2>1 DEF JoinsUpTo
  <2>3. ASSUME NEW m \in 1 .. (n + 1) PROVE f[m] = f[m - 1] + add(m)
    <3>1. m - 1 \in 0 .. n /\ m - 1 \in 0 .. (n + 1) /\ m - 1 # n + 1
      OBVIOUS
    <3>2. f[m - 1] = g[m - 1]
      BY <3>1
    <3>3. CASE m = n + 1
      <4>1. m - 1 = n /\ f[m] = g[n] + add(n + 1)
        BY <3>3
      <4> QED BY <3>2, <3>3, <4>1
    <3>4. CASE m # n + 1
      <4>1. m \in 1 .. n /\ f[m] = g[m]
        BY <3>4
      <4>2. g[m] = g[m - 1] + add(m)
        BY <2>1, <4>1 DEF JoinsUpTo, add
      <4> QED BY <3>2, <4>1, <4>2
    <3> QED BY <3>3, <3>4
  <2> HIDE DEF f
  <2>4. JoinsUpTo(S, n + 1, f)
    BY <2>2, <2>3 DEF JoinsUpTo, add
  <2> QED BY <2>4
<1> HIDE DEF T
<1>3. RegBits \in T
  BY <1>1, <1>2, Induction, PowerFacts
<1>4. PICK f : JoinsUpTo(S, RegBits, f)
  BY <1>3 DEF T
<1>5. DEFINE g == [m \in 0 .. RegBits |-> f[m]]
<1>6. ASSUME NEW m \in 0 .. RegBits
      PROVE  g[m] = IF m = 0 THEN 0
                    ELSE g[m - 1] + (IF m - 1 \in S THEN Power[m - 1] ELSE 0)
  <2>1. CASE m = 0
    BY <1>4, <2>1 DEF JoinsUpTo
  <2>2. CASE m # 0
    <3>1. m \in 1 .. RegBits /\ m - 1 \in 0 .. RegBits
      BY <2>2, PowerFacts
    <3> QED BY <1>4, <2>2, <3>1 DEF JoinsUpTo
  <2> QED BY <2>1, <2>2
<1>7. Joins(S, g)
  BY <1>6 DEF Joins
<1> QED BY <1>7

\* The bits below position n make less than 2^n.
LEMMA NumberBounded ==
  ASSUME NEW S, NEW n \in 0 .. RegBits, S \subseteq 0 .. (n - 1)
  PROVE  Number(S) \in Nat /\ Number(S) < Power[n]
<1> DEFINE below == CHOOSE f : Joins(S, f)
           add(m) == IF m - 1 \in S THEN Power[m - 1] ELSE 0
<1>1. Number(S) = below[RegBits]
  BY DEF Number, Joins
<1>2. Joins(S, below)
  BY JoinsExists
<1>3. /\ below[0] = 0
      /\ \A m \in 1 .. RegBits : below[m] = below[m - 1] + add(m)
  <2> HIDE DEF below
  <2>1. below[0] = 0
    <3>1. 0 \in 0 .. RegBits
      BY PowerFacts
    <3> QED BY <1>2, <3>1 DEF Joins
  <2>2. ASSUME NEW m \in 1 .. RegBits PROVE below[m] = below[m - 1] + add(m)
    <3>1. m \in 0 .. RegBits /\ m # 0
      BY PowerFacts
    <3> QED BY <1>2, <3>1 DEF Joins
  <2> QED BY <2>1, <2>2
<1> HIDE DEF below
<1> DEFINE least(m) == IF m <= n THEN m ELSE n
           T == {m \in Nat : m <= RegBits => /\ below[m] \in Nat
                                             /\ below[m] < Power[least(m)]}
<1>4. 0 \in T
  <2>1. least(0) = 0 /\ Power[0] = 1
    BY PowerFacts, WidthAssumption
  <2> QED BY <1>3, <2>1
<1>5. ASSUME NEW m \in Nat, m \in T PROVE m + 1 \in T
  <2> SUFFICES ASSUME m + 1 <= RegBits
               PROVE  below[m + 1] \in Nat /\ below[m + 1] < Power[least(m + 1)]
    OBVIOUS
  <2>1. /\ m + 1 \in 1 .. RegBits /\ (m + 1) - 1 = m /\ m \in 0 .. RegBits
        /\ RegBits \in Nat /\ n \in Nat
    BY PowerFacts
  <2>2. below[m] \in Nat /\ below[m] < Power[least(m)]
    BY <1>5, <2>1
  <2>3. below[m + 1] = below[m] + add(m + 1)
    BY <1>3, <2>1
  <2>4. CASE m < n
    <3>1. least(m) = m /\ least(m + 1) = m + 1
      BY <2>1, <2>4
    <3>2. Power[m] \in Nat /\ Power[m + 1] = Power[m] + Power[m]
      BY <2>1, PowerFacts
    <3>3. add(m + 1) \in Nat /\ add(m + 1) <= Power[m]
      BY <2>1, <3>2
    <3> HIDE DEF least, add
    <3> QED BY <2>2, <2>3, <3>1, <3>2, <3>3
  <2>5. CASE m >= n
    <3>1. least(m) = n /\ least(m + 1) = n
      BY <2>1, <2>5
    <3>2. m \notin S
      BY <2>1, <2>5
    <3>3. add(m + 1) = 0
      BY <2>1, <3>2
    <3> HIDE DEF least, add
    <3> QED BY <2>2, <2>3, <3>1, <3>3
  <2> QED BY <2>1, <2>4, <2>5
<1> HIDE DEF T
<1>6. RegBits \in T /\ RegBits \in Nat
  BY <1>4, <1>5, Induction, PowerFacts
<1>7. below[RegBits] \in Nat /\ below[RegBits] < Power[least(RegBits)]
  BY <1>6 DEF T
<1>8. least(RegBits) = n
  BY <1>6
<1> QED BY <1>1, <1>7, <1>8

LEMMA BitwiseFacts ==
  ASSUME NEW op, NEW x, NEW y
  PROVE  Bitwise(op, x, y) \in Addr
<1> DEFINE S == {k \in 0 .. (RegBits - 1) : BitOf(op, Bit(x, k), Bit(y, k)) = 1}
<1>1. S \subseteq 0 .. (RegBits - 1) /\ RegBits \in 0 .. RegBits
  BY PowerFacts
<1>2. Bitwise(op, x, y) = Number(S)
  BY DEF Bitwise
<1> HIDE DEF S
<1>3. Number(S) \in Nat /\ Number(S) < Power[RegBits]
  BY <1>1, NumberBounded
<1>4. Power[RegBits] = AddrLimit
  BY WidthAssumption DEF RegLimit
<1> QED BY <1>2, <1>3, <1>4, WidthFacts

LEMMA MaskFacts ==
  ASSUME NEW i, InstructionType(i), NEW mask \in Masks(i)
  PROVE  mask \in Byte
<1>1. CASE i.me < WordBits
  <2> DEFINE S == {WordBits - 1 - k : k \in i.mb .. i.me}
  <2>1. WordBits \in 0 .. RegBits /\ WordBits \in Nat
    BY PowerFacts
  <2>2. S \subseteq 0 .. (WordBits - 1)
    BY <1>1, <2>1 DEF InstructionType
  <2>3. mask = Number(S)
    BY <1>1 DEF Masks
  <2> HIDE DEF S
  <2>4. Number(S) \in Nat /\ Number(S) < Power[WordBits]
    BY <2>1, <2>2, NumberBounded
  <2> QED BY <2>3, <2>4, WidthFacts DEF WordLimit
<1>2. CASE ~(i.me < WordBits)
  BY <1>2 DEF Masks
<1> QED BY <1>1, <1>2
-----------------------------------------------------------------------------
(***************************************************************************)
(* The registers.                                                          *)
(***************************************************************************)
Registers == [gpr : [Regs -> Addr], pc : Addr, lr : Addr, ctr : Addr,
              cr : [0 .. (CRBits - 1) -> {0, 1}], xer : Byte]

LEMMA RegisterFacts ==
  ASSUME NEW p \in Registers
  PROVE  /\ p.gpr \in [Regs -> Addr] /\ \A n \in Regs : p.gpr[n] \in Addr
         /\ p.pc \in Addr /\ p.lr \in Addr /\ p.ctr \in Addr
         /\ p.cr \in [0 .. (CRBits - 1) -> {0, 1}] /\ p.xer \in Byte
BY DEF Registers

LEMMA SetRegType ==
  ASSUME NEW p \in Registers, NEW n \in Regs, NEW v \in Addr
  PROVE  SetReg(p, n, v) \in Registers
BY DEF Registers, SetReg

LEMMA SetPCType ==
  ASSUME NEW p \in Registers, NEW v \in Addr
  PROVE  /\ [p EXCEPT !.pc = v] \in Registers
         /\ [p EXCEPT !.lr = v] \in Registers
         /\ [p EXCEPT !.ctr = v] \in Registers
BY DEF Registers

LEMMA SetCarryType ==
  ASSUME NEW p \in Registers, NEW c
  PROVE  SetCarry(p, c) \in Registers
<1> DEFINE bit == IF c THEN 1 ELSE 0
           x == p.xer - (p.xer % 2) + bit
<1>1. p.xer \in Nat /\ p.xer < WordLimit /\ WordLimit \in Nat
  BY WidthFacts DEF Registers
<1>2. bit \in {0, 1}
  OBVIOUS
<1>3. PICK half \in Nat : WordLimit = half + half
  BY WidthFacts
<1>4. x \in Nat /\ x < WordLimit
  <2> DEFINE q == p.xer \div 2
             m == p.xer % 2
  <2>1. 2 \in Nat \ {0} /\ p.xer \in Int /\ p.xer >= 0
    BY <1>1
  <2>2. m \in Nat /\ m < 2 /\ q \in Int /\ p.xer = 2 * q + m
    BY <2>1, DivMod
  <2> HIDE DEF q, bit
  <2>3. x = 2 * q + bit
    <3> HIDE DEF m
    <3>1. p.xer - m + bit = 2 * q + bit
      BY <1>1, <1>2, <2>2
    <3> QED BY <3>1 DEF m
  <2> HIDE DEF x, m
  <2> QED BY <1>1, <1>2, <1>3, <2>2, <2>3
<1>5. x \in Byte
  BY <1>4, WidthFacts
<1> HIDE DEF x
<1>6. [p EXCEPT !.xer = x] \in Registers
  BY <1>5 DEF Registers
<1> QED BY <1>6 DEF SetCarry, x

LEMMA SetFieldType ==
  ASSUME NEW p \in Registers, NEW bf, NEW lt, NEW gt, NEW so \in {0, 1}
  PROVE  SetField(p, bf, lt, gt, so) \in Registers
<1> DEFINE c == [k \in DOMAIN p.cr |->
                   CASE k = 4 * bf     -> IF lt THEN 1 ELSE 0
                     [] k = 4 * bf + 1 -> IF gt THEN 1 ELSE 0
                     [] k = 4 * bf + 2 -> IF lt \/ gt THEN 0 ELSE 1
                     [] k = 4 * bf + 3 -> so
                     [] OTHER          -> p.cr[k]]
<1>1. p.cr \in [0 .. (CRBits - 1) -> {0, 1}]
  BY DEF Registers
<1>2. c \in [0 .. (CRBits - 1) -> {0, 1}]
  BY <1>1
<1> HIDE DEF c
<1>3. [p EXCEPT !.cr = c] \in Registers
  BY <1>2 DEF Registers
<1> QED BY <1>3 DEF SetField, c

LEMMA UpdateCR0Type ==
  ASSUME NEW p \in Registers, NEW result
  PROVE  UpdateCR0(p, result) \in Registers
<1>1. SO(p) \in {0, 1}
  BY DEF SO
<1> QED BY <1>1, SetFieldType DEF UpdateCR0

LEMMA RecordedType ==
  ASSUME NEW p \in Registers, NEW i, NEW n
  PROVE  Recorded(p, i, n) \in Registers
BY UpdateCR0Type DEF Recorded

LEMMA LogicalType ==
  ASSUME NEW p, NEW i
  PROVE  Logical(p, i) \in Addr
<1> DEFINE b == IF i.op \in {"ori", "andi."} THEN i.imm ELSE p.gpr[i.rB]
           result == Bitwise(i.op, p.gpr[i.rD], b)
<1>1. result \in Addr /\ RegLimit - 1 - result \in Addr
  BY BitwiseFacts, SumFacts
<1> HIDE DEF result
<1> QED BY <1>1 DEF Logical, result

LEMMA MoveToType ==
  ASSUME NEW p \in Registers, NEW i, InstructionType(i)
  PROVE  MoveTo(p, i) \in Registers
<1>1. p.gpr[i.rD] \in Addr
  BY RegisterFacts DEF InstructionType
<1>2. p.gpr[i.rD] % WordLimit \in Byte
  BY <1>1, LowFacts, WidthFacts
<1>3. [p EXCEPT !.xer = p.gpr[i.rD] % WordLimit] \in Registers
  <2> DEFINE x == p.gpr[i.rD] % WordLimit
  <2>1. x \in Byte
    BY <1>2
  <2> HIDE DEF x
  <2>2. [p EXCEPT !.xer = x] \in Registers
    BY <2>1 DEF Registers
  <2> QED BY <2>2 DEF x
<1> QED BY <1>1, <1>3, SetPCType DEF MoveTo

LEMMA ArithmeticType ==
  ASSUME NEW p \in Registers, NEW i, InstructionType(i)
  PROVE  Arithmetic(p, i) \in Registers
<1> DEFINE a == p.gpr[i.rA]
           b == p.gpr[i.rB]
           simm == SignExtend(i.imm, HalfLimit)
<1>1. /\ i.rA \in Regs /\ i.rB \in Regs /\ i.rD \in Regs
      /\ a \in Addr /\ b \in Addr /\ simm \in Addr
  BY RegisterFacts, SignExtendFacts, WidthAssumption DEF InstructionType
<1>2. Base(p, i.rA) \in Addr
  BY <1>1, WidthFacts DEF Base
<1>3. /\ Wrap(Base(p, i.rA) + simm) \in Addr
      /\ Wrap(a + b) \in Addr /\ Minus(b, a) \in Addr /\ Minus(simm, a) \in Addr
  BY <1>1, <1>2, SumFacts
<1>4. (Base(p, i.rA) + simm * HalfLimit) % RegLimit \in Addr
  <2>1. Base(p, i.rA) + simm * HalfLimit \in Int
    <3>1. Base(p, i.rA) \in Int /\ simm \in Int /\ HalfLimit \in Int
      BY <1>1, <1>2, WidthFacts, WidthAssumption
    <3> HIDE DEF simm
    <3> QED BY <3>1
  <2> HIDE DEF simm
  <2> QED BY <2>1, LowFacts, WidthFacts
<1>5. ((a % WordLimit) * (b % WordLimit)) \div WordLimit \in Addr
  <2>1. a % WordLimit \in Byte /\ b % WordLimit \in Byte
    <3>1. a \in Int /\ b \in Int
      BY <1>1, WidthFacts
    <3> HIDE DEF a, b
    <3> QED BY <3>1, LowFacts
  <2> QED BY <2>1, ProductFacts
<1>6. MoveFrom(p, i) \in Addr
  BY RegisterFacts, WidthFacts DEF MoveFrom
<1>7. Logical(p, i) \in Addr
  BY LogicalType
<1> HIDE DEF a, b, simm
<1> DEFINE q1 == SetReg(p, i.rD, Wrap(Base(p, i.rA) + simm))
           q2 == SetReg(p, i.rD, (Base(p, i.rA) + simm * HalfLimit) % RegLimit)
           q3 == SetReg(p, i.rD, Wrap(a + b))
           q4 == SetReg(p, i.rD, Minus(b, a))
           q5 == SetReg(p, i.rD, Minus(simm, a))
           q6 == SetReg(p, i.rD, ((a % WordLimit) * (b % WordLimit)) \div WordLimit)
           q7 == SetReg(p, i.rD, MoveFrom(p, i))
           q8 == SetReg(p, i.rA, Logical(p, i))
<1>8. /\ q1 \in Registers /\ q2 \in Registers /\ q3 \in Registers /\ q4 \in Registers
      /\ q5 \in Registers /\ q6 \in Registers /\ q7 \in Registers /\ q8 \in Registers
  BY <1>1, <1>3, <1>4, <1>5, <1>6, <1>7, SetRegType
<1>9. /\ Recorded(q3, i, i.rD) \in Registers /\ Recorded(q4, i, i.rD) \in Registers
      /\ SetCarry(q3, Wrap(a + b) < a) \in Registers
      /\ CarriedAfter(q4, i) \in Registers /\ CarriedAfter(q5, i) \in Registers
      /\ UpdateCR0(q8, Logical(p, i)) \in Registers
  <2> HIDE DEF q3, q4, q5, q8
  <2> QED BY <1>8, RecordedType, SetCarryType, UpdateCR0Type DEF CarriedAfter
<1>10. SetField(p, i.bf, Less(a, b), Less(b, a), 0) \in Registers
  BY SetFieldType
<1>11. MoveTo(p, i) \in Registers
  BY MoveToType
<1> QED BY <1>8, <1>9, <1>10, <1>11 DEF Arithmetic, a, b, simm

LEMMA ShiftedType ==
  ASSUME NEW p \in Registers, NEW i, InstructionType(i), i.op \in ShiftOps
  PROVE  Shifted(p, i) \in Addr
<1> DEFINE x == p.gpr[i.rD]
           sh == p.gpr[i.rB] % WordBits
           w == Power[sh]
<1>1. x \in Int /\ p.gpr[i.rB] \in Int
  BY RegisterFacts, WidthFacts DEF InstructionType
<1>2. w \in Nat \ {0}
  <2>1. sh \in Nat /\ sh < WordBits
    BY <1>1, PowerFacts, DivMod
  <2> HIDE DEF sh
  <2>2. sh \in 0 .. RegBits
    BY <2>1, PowerFacts
  <2> QED BY <2>2, PowerFacts
<1>3. Int32(Low(x)) \in Int
  <2>1. Low(x) \in Byte
    BY <1>1, LowFacts DEF Low
  <2> HIDE DEF x
  <2> QED BY <2>1, WidthFacts DEF Int32
<1> HIDE DEF x, w
<1>4. x * w \in Int /\ x \div w \in Int /\ Int32(Low(x)) \div w \in Int
  <2>1. x * w \in Int
    BY <1>1, <1>2
  <2> QED BY <1>1, <1>2, <1>3, <2>1, DivMod
<1>5. /\ Low(x * w) \in Addr /\ Low(x \div w) \in Addr
      /\ Low(Int32(Low(x)) \div w) \in Addr
  BY <1>4, LowFacts DEF Low
<1> QED BY <1>5 DEF Shifted, ShiftOps, x, w

LEMMA BranchType ==
  ASSUME NEW p \in Registers, NEW i, InstructionType(i)
  PROVE  Branch(p, i) \in Registers
<1> DEFINE q == IF i.op = "b" THEN p ELSE Counted(p, i)
<1>1. Counted(p, i) \in Registers
  <2>1. Minus(p.ctr, 1) \in Addr
    BY RegisterFacts, SumFacts, WidthFacts
  <2> QED BY <2>1, SetPCType DEF Counted
<1>2. q \in Registers
  BY <1>1
<1> HIDE DEF q
<1>3. Linked(q, i) \in Registers
  BY <1>2, RegisterFacts, SetPCType DEF Linked
<1>4. Target(q, i) \in Addr
  <2>1. SignExtend(i.li, LiLimit) \in Addr /\ SignExtend(i.imm, HalfLimit) \in Addr
    BY SignExtendFacts, WidthAssumption DEF InstructionType
  <2>2. Minus(q.pc, 1) \in Addr /\ q.lr \in Addr /\ q.ctr \in Addr
    BY <1>2, RegisterFacts, SumFacts, WidthFacts
  <2>3. Displaced(q, i) \in Addr
    BY <2>1, <2>2, SumFacts DEF Displaced
  <2> QED BY <2>2, <2>3 DEF Target
<1>5. [Linked(q, i) EXCEPT !.pc = Target(q, i)] \in Registers
  BY <1>3, <1>4, SetPCType
<1> QED BY <1>2, <1>5 DEF Branch, q
-----------------------------------------------------------------------------
(***************************************************************************)
(* Memory: every region the interpreter sees can be read and written, and  *)
(* what it reads has the width it asked for.                               *)
(***************************************************************************)
Open(regs) == WellFormed(regs) /\ \A b \in DOMAIN regs : RW \subseteq regs[b].flags

LEMMA BackedFlags ==
  ASSUME NEW r, RegionOK(r)
  PROVE  Backed(r).flags = r.flags
BY DEF Backed, RegionOK

LEMMA ReadOpen ==
  ASSUME NEW regs, Open(regs), NEW a \in Addr
  PROVE  Open(AfterRead(regs, a))
<1> DEFINE found == AllocateOnDemand(regs, a)
<1>1. WellFormed(AfterRead(regs, a)) /\ WellFormed(found)
  BY AfterReadWellFormed, OnDemandWellFormed DEF Open
<1>2. \A b \in DOMAIN found : RW \subseteq found[b].flags
  BY DEF Open, AllocateOnDemand, Put, Region
<1> HIDE DEF found
<1>3. CASE ~Mapped(found, a)
  <2>1. AfterRead(regs, a) = found
    BY <1>3 DEF AfterRead, found
  <2> QED BY <1>1, <1>2, <2>1 DEF Open
<1>4. CASE Mapped(found, a)
  <2> DEFINE g == GetRegion(found, a)
  <2>1. AfterRead(regs, a) = [found EXCEPT ![g] = Backed(found[g])]
    BY <1>4 DEF AfterRead, found
  <2>2. g \in DOMAIN found
    BY <1>1, <1>4, GetRegionFacts DEF WellFormed
  <2>3. Backed(found[g]).flags = found[g].flags
    BY <1>1, <2>2, BackedFlags DEF WellFormed
  <2> HIDE DEF g
  <2> QED BY <1>1, <1>2, <2>1, <2>2, <2>3 DEF Open
<1> QED BY <1>3, <1>4

LEMMA WriteOpen ==
  ASSUME NEW regs, Open(regs), NEW a \in Addr, NEW n \in Nat,
         NEW bytes \in [0 .. (n - 1) -> Byte],
         NEW m \in {AfterWrite(regs, a, n, bytes)}
                     \cup Corrupted(AfterWrite(regs, a, n, bytes))
  PROVE  Open(m)
<1> DEFINE w == AfterWrite(regs, a, n, bytes)
<1>1. /\ WellFormed(m) /\ DOMAIN m = DOMAIN regs
      /\ WellFormed(w) /\ DOMAIN w = DOMAIN regs
  BY WriteKeepsSizes DEF Open
<1>2. \A b \in DOMAIN regs : w[b].flags = regs[b].flags
  <2>1. CASE ~Permits(regs, a, n, "W")
    BY <2>1 DEF AfterWrite
  <2>2. CASE Permits(regs, a, n, "W")
    <3> DEFINE g == GetRegion(regs, a)
               held == Backed(regs[g])
               new == [held EXCEPT !.data = Stored(held.data, a - g, n, bytes)]
    <3>1. w = [regs EXCEPT ![g] = new]
      BY <2>2 DEF AfterWrite
    <3>2. g \in DOMAIN regs
      BY <2>2, GetRegionFacts DEF Permits, Open, WellFormed
    <3>3. RegionOK(held) /\ held.flags = regs[g].flags
      BY <3>2, BackedOK, BackedFlags DEF Open, WellFormed
    <3>4. new.flags = held.flags
      <4> HIDE DEF held
      <4> QED BY <3>3 DEF RegionOK
    <3> HIDE DEF g, held, new, w
    <3> QED BY <3>1, <3>2, <3>3, <3>4
  <2> QED BY <2>1, <2>2
<1>3. \A b \in DOMAIN regs : m[b].flags = w[b].flags
  <2>1. CASE m = w
    BY <2>1
  <2>2. CASE m \in Corrupted(w) /\ m # w
    <3>1. \E c \in DOMAIN w : \E i \in DOMAIN w[c].data : \E v \in Byte :
             m = [w EXCEPT ![c].data[i] = v]
      <4> HIDE DEF w
      <4> QED BY <2>2 DEF Corrupted
    <3>2. PICK c \in DOMAIN w : \E i \in DOMAIN w[c].data : \E v \in Byte :
             m = [w EXCEPT ![c].data[i] = v]
      BY <3>1
    <3>3. PICK i \in DOMAIN w[c].data, v \in Byte : m = [w EXCEPT ![c].data[i] = v]
      BY <3>2
    <3> HIDE DEF w
    <3>4. RegionOK(w[c])
      BY <1>1, <3>2 DEF WellFormed
    <3>5. m[c] = [w[c] EXCEPT !.data[i] = v]
      BY <3>2, <3>3
    <3>6. m[c].flags = w[c].flags
      BY <3>4, <3>5 DEF RegionOK
    <3> QED BY <1>1, <3>2, <3>3, <3>6
  <2> QED BY <2>1, <2>2
<1> HIDE DEF w
<1> QED BY <1>1, <1>2, <1>3 DEF Open

LEMMA BytesOfType ==
  ASSUME NEW x \in Addr, NEW n \in {1, 2}
  PROVE  BytesOf(x, n) \in [0 .. (n - 1) -> Byte]
<1>1. x % WordLimit \in Byte /\ x \div WordLimit \in Byte
  <2>1. x \in Int
    BY HighFacts
  <2> QED BY <2>1, LowFacts, HighFacts
<1>2. CASE n = 1
  BY <1>1, <1>2 DEF BytesOf
<1>3. CASE n = 2
  BY <1>1, <1>3 DEF BytesOf
<1> QED BY <1>2, <1>3

LEMMA ValuesType ==
  ASSUME NEW regs, WellFormed(regs), NEW a \in Addr, NEW n \in {1, 2},
         NEW x \in ValuesAt(regs, a, n)
  PROVE  x \in Addr /\ (n = 1 => x \in Byte)
<1>1. CASE ~Permits(regs, a, n, "R")
  BY <1>1, WidthFacts DEF ValuesAt
<1>2. CASE Permits(regs, a, n, "R") /\ ~InsideBacking(regs, a, n)
  BY <1>2, WidthFacts DEF ValuesAt
<1>3. CASE Permits(regs, a, n, "R") /\ InsideBacking(regs, a, n)
  <2> DEFINE data == regs[GetRegion(regs, a)].data
             bytes == [k \in 0 .. (n - 1) |-> data[Offset(regs, a) + k]]
  <2>1. x = ValueOf(bytes, n)
    BY <1>3 DEF ValuesAt
  <2>2. GetRegion(regs, a) \in DOMAIN regs
    BY <1>3, GetRegionFacts DEF Permits, WellFormed
  <2>3. \A j \in DOMAIN data : data[j] \in Byte
    BY <2>2 DEF WellFormed, RegionOK, BackingOK
  <2>4. \A k \in 0 .. (n - 1) : bytes[k] \in Byte
    BY <1>3, <2>3 DEF InsideBacking
  <2> HIDE DEF bytes
  <2>5. CASE n = 1
    <3>1. bytes[0] \in Byte
      BY <2>4, <2>5
    <3> QED BY <2>1, <2>5, <3>1, WidthFacts DEF ValueOf
  <2>6. CASE n = 2
    <3>1. bytes[0] \in Byte /\ bytes[1] \in Byte
      BY <2>4, <2>6
    <3>2. bytes[0] * WordLimit + bytes[1] \in Addr
      BY <3>1, ProductFacts
    <3> QED BY <2>1, <2>6, <3>2 DEF ValueOf
  <2> QED BY <2>5, <2>6
<1> QED BY <1>1, <1>2, <1>3
-----------------------------------------------------------------------------
(***************************************************************************)
(* One instruction, as far as registers and memory are concerned.          *)
(***************************************************************************)
MachineInv == ppu \in Registers /\ Open(regions)

LEMMA FetchFacts ==
  ASSUME MachineInv
  PROVE  /\ Open(Fetched) /\ Passed \in Registers
         /\ \A i \in Decoded : InstructionType(i)
<1>1. ppu.pc \in Addr
  BY RegisterFacts DEF MachineInv
<1>2. Open(Fetched)
  BY <1>1, ReadOpen DEF MachineInv, Fetched
<1>3. Passed \in Registers
  <2>1. Wrap(ppu.pc + 1) \in Addr
    BY <1>1, SumFacts, WidthFacts
  <2> QED BY <2>1, SetPCType DEF MachineInv, Passed
<1>4. ASSUME NEW i \in Decoded PROVE InstructionType(i)
  <2>1. PICK word \in ValuesAt(Fetched, ppu.pc, 1) : i = Fields[word]
    BY DEF Decoded
  <2>2. word \in Byte
    BY <1>1, <1>2, ValuesType DEF Open
  <2> QED BY <2>1, <2>2, PPUAssumption
<1> QED BY <1>2, <1>3, <1>4

LEMMA OnlyFetchesKeeps ==
  ASSUME MachineInv, OnlyFetches, ppu' \in Registers
  PROVE  MachineInv'
BY FetchFacts DEF MachineInv, OnlyFetches, Open, WellFormed, Registers

LEMMA StoresKeep ==
  ASSUME MachineInv, NEW a \in Addr, NEW x \in Addr, NEW n \in {1, 2}, Stores(a, x, n)
  PROVE  Open(regions')
<1>1. Open(Fetched)
  BY FetchFacts
<1>2. n \in Nat
  OBVIOUS
<1>3. BytesOf(x, n) \in [0 .. (n - 1) -> Byte]
  BY BytesOfType
<1>4. regions' \in {AfterWrite(Fetched, a, n, BytesOf(x, n))}
                     \cup Corrupted(AfterWrite(Fetched, a, n, BytesOf(x, n)))
  BY DEF Stores, Corrupted
<1> HIDE DEF Fetched
<1> QED BY <1>1, <1>2, <1>3, <1>4, WriteOpen

LEMMA EffectiveAddressFacts ==
  ASSUME MachineInv, NEW i, InstructionType(i)
  PROVE  /\ EffectiveAddress(i) \in Addr /\ SizeOf(i) \in {1, 2}
         /\ \A p \in Registers : Updated(p, i) \in Registers
<1>1. /\ ppu.gpr[i.rA] \in Addr /\ i.rA \in Regs
      /\ SignExtend(i.imm, HalfLimit) \in Addr /\ i.imm \in Addr
  <2>1. i.imm \in Addr
    BY WidthAssumption, WidthFacts DEF InstructionType
  <2> QED BY <2>1, RegisterFacts, SignExtendFacts, WidthAssumption
          DEF InstructionType, MachineInv
<1>2. EffectiveAddress(i) \in Addr
  <2>1. Base(ppu, i.rA) \in Addr
    BY <1>1, WidthFacts DEF Base
  <2> QED BY <1>1, <2>1, SumFacts DEF EffectiveAddress
<1>3. SizeOf(i) \in {1, 2}
  BY DEF SizeOf
<1> QED BY <1>1, <1>2, <1>3, SetRegType DEF Updated

LEMMA AnswerType ==
  ASSUME NEW call
  PROVE  Answer(call) \in Addr
BY WidthFacts, SyscallAssumption DEF Answer
-----------------------------------------------------------------------------
(***************************************************************************)
(* The handlers.                                                           *)
(***************************************************************************)
Kept == MachineInv' /\ halted' \in BOOLEAN

Unclaimed == UNCHANGED <<nextMemoryHandle, blocks>>

LEMMA ComputeKeeps ==
  ASSUME MachineInv, halted \in BOOLEAN, NEW i, InstructionType(i),
         \/ ExecuteArithmetic(i) \/ ExecuteShift(i) \/ ExecuteBranch(i)
         \/ ExecuteQuiet(i) \/ HaltUnknown(i)
  PROVE  Kept /\ Unclaimed
<1>1. Passed \in Registers /\ ppu \in Registers
  BY FetchFacts DEF MachineInv
<1>2. ASSUME OnlyFetches, ppu' \in Registers, UNCHANGED halted, Unclaimed
      PROVE  Kept /\ Unclaimed
  <2>1. MachineInv'
    BY <1>2, OnlyFetchesKeeps
  <2>2. halted' \in BOOLEAN
    BY <1>2, Zenon
  <2> QED BY <1>2, <2>1, <2>2 DEF Kept
<1>3. CASE ExecuteArithmetic(i)
  <2>1. Arithmetic(Passed, i) \in Registers
    BY <1>1, <1>3, ArithmeticType DEF ExecuteArithmetic
  <2> QED BY <1>2, <1>3, <2>1 DEF ExecuteArithmetic, Unclaimed
<1>4. CASE ExecuteShift(i)
  <2>1. i.rA \in Regs
    BY DEF InstructionType
  <2>2. CASE i.op \in ShiftOps /\ ppu' = SetReg(Passed, i.rA, Shifted(ppu, i))
    <3>1. Shifted(ppu, i) \in Addr
      BY <1>1, <2>2, ShiftedType
    <3>2. ppu' \in Registers
      BY <1>1, <2>1, <2>2, <3>1, SetRegType
    <3> QED BY <1>2, <1>4, <3>2 DEF ExecuteShift, Unclaimed
  <2>3. CASE \E mask \in Masks(i) : ppu' = SetReg(Passed, i.rA, Masked(ppu, i, mask))
    <3>1. PICK mask \in Masks(i) : ppu' = SetReg(Passed, i.rA, Masked(ppu, i, mask))
      BY <2>3
    <3>2. Masked(ppu, i, mask) \in Addr
      BY BitwiseFacts DEF Masked
    <3>3. ppu' \in Registers
      BY <1>1, <2>1, <3>1, <3>2, SetRegType
    <3> QED BY <1>2, <1>4, <3>3 DEF ExecuteShift, Unclaimed
  <2> QED BY <1>4, <2>2, <2>3 DEF ExecuteShift
<1>5. CASE ExecuteBranch(i)
  <2>1. Branch(Passed, i) \in Registers
    BY <1>1, BranchType
  <2> QED BY <1>2, <1>5, <2>1 DEF ExecuteBranch, Unclaimed
<1>6. CASE ExecuteQuiet(i)
  BY <1>1, <1>2, <1>6 DEF ExecuteQuiet, Unclaimed
<1>7. CASE HaltUnknown(i)
  <2>1. MachineInv'
    BY <1>1, <1>7, OnlyFetchesKeeps DEF HaltUnknown
  <2>2. halted' \in BOOLEAN
    BY <1>7, Zenon DEF HaltUnknown
  <2> QED BY <1>7, <2>1, <2>2 DEF Kept, HaltUnknown, Unclaimed
<1> QED BY <1>3, <1>4, <1>5, <1>6, <1>7

LEMMA AccessKeeps ==
  ASSUME MachineInv, halted \in BOOLEAN, NEW i, InstructionType(i),
         ExecuteLoad(i) \/ ExecuteStore(i)
  PROVE  Kept /\ Unclaimed
<1> DEFINE a == EffectiveAddress(i)
           n == SizeOf(i)
<1>1. /\ a \in Addr /\ n \in {1, 2}
      /\ \A p \in Registers : Updated(p, i) \in Registers
  BY EffectiveAddressFacts
<1>2. Passed \in Registers /\ ppu \in Registers /\ Open(Fetched)
  BY FetchFacts DEF MachineInv
<1>3. i.rD \in Regs
  BY DEF InstructionType
<1>4. CASE ExecuteLoad(i)
  <2> DEFINE found == AfterRead(Fetched, a)
  <2>1. /\ regions' = found /\ UNCHANGED halted /\ Unclaimed
        /\ \E x \in ValuesAt(found, a, n) : ppu' = Updated(SetReg(Passed, i.rD, x), i)
    BY <1>4 DEF ExecuteLoad, Unclaimed
  <2> HIDE DEF a, n
  <2>2. Open(found)
    BY <1>1, <1>2, ReadOpen
  <2> HIDE DEF found
  <2>3. PICK x \in ValuesAt(found, a, n) : ppu' = Updated(SetReg(Passed, i.rD, x), i)
    BY <2>1
  <2>4. x \in Addr
    BY <1>1, <2>2, ValuesType DEF Open
  <2>5. SetReg(Passed, i.rD, x) \in Registers
    BY <1>2, <1>3, <2>4, SetRegType
  <2>6. ppu' \in Registers
    BY <1>1, <2>3, <2>5
  <2>7. MachineInv'
    BY <2>1, <2>2, <2>6 DEF MachineInv, Open, WellFormed
  <2>8. halted' \in BOOLEAN
    BY <2>1, Zenon
  <2> QED BY <2>1, <2>7, <2>8 DEF Kept
<1>5. CASE ExecuteStore(i)
  <2>1. /\ Stores(a, ppu.gpr[i.rD], n) /\ ppu' = Updated(Passed, i)
        /\ UNCHANGED halted /\ Unclaimed
    BY <1>5 DEF ExecuteStore, Unclaimed
  <2> HIDE DEF a, n
  <2>2. ppu.gpr[i.rD] \in Addr
    BY <1>2, <1>3, RegisterFacts
  <2>3. Open(regions')
    BY <1>1, <2>1, <2>2, StoresKeep
  <2>4. ppu' \in Registers
    BY <1>1, <1>2, <2>1
  <2>5. MachineInv'
    BY <2>3, <2>4 DEF MachineInv, Open, WellFormed
  <2>6. halted' \in BOOLEAN
    BY <2>1, Zenon
  <2> QED BY <2>1, <2>5, <2>6 DEF Kept
<1> QED BY <1>4, <1>5

LEMMA AllocAddrFacts ==
  ASSUME nextMemoryHandle \in 0 .. (Word32 - 1)
  PROVE  AllocAddr \in Addr
<1> DEFINE sum == UserBase + nextMemoryHandle * Chunk
<1>1. sum \in Int /\ Word32 \in Nat \ {0} /\ Word32 <= AddrLimit
  <2>1. UserBase \in Int /\ nextMemoryHandle \in Int /\ Chunk \in Int
    BY SyscallAssumption, GeometryAssumption
  <2> QED BY <2>1, SyscallAssumption
<1> HIDE DEF sum
<1>2. sum % Word32 \in Nat /\ sum % Word32 < Word32
  BY <1>1, DivMod
<1> QED BY <1>1, <1>2, WidthFacts DEF AllocAddr, sum

LEMMA SyscallKeeps ==
  ASSUME MachineInv, halted \in BOOLEAN, nextMemoryHandle \in 0 .. (Word32 - 1),
         NEW i, ExecuteSyscall(i)
  PROVE  Kept /\ (Unclaimed \/ TakeBlock(ppu.gpr[3]))
<1> DEFINE call == ppu.gpr[0]
<1>1. Passed \in Registers /\ ppu \in Registers
  BY FetchFacts DEF MachineInv
<1>2. ppu.gpr[5] \in Addr /\ 3 \in Regs
  BY <1>1, RegisterFacts, PPUAssumption
<1>3. ppu' \in Registers
  <2>1. Answer(call) \in Addr /\ ppu' = SetReg(Passed, 3, Answer(call))
    BY AnswerType DEF ExecuteSyscall
  <2> HIDE DEF call
  <2> QED BY <1>1, <1>2, <2>1, SetRegType
<1>4. halted' \in BOOLEAN
  <2>1. UNCHANGED halted
    BY DEF ExecuteSyscall
  <2> QED BY <2>1, Zenon
<1>5. MachineInv'
  <2>1. CASE OnlyFetches
    BY <1>3, <2>1, OnlyFetchesKeeps
  <2>2. CASE Stores(ppu.gpr[5], AllocAddr, 2)
    <3>1. AllocAddr \in Addr
      BY AllocAddrFacts
    <3>2. Open(regions')
      BY <1>2, <2>2, <3>1, StoresKeep
    <3> QED BY <1>3, <3>2 DEF MachineInv, Open, WellFormed
  <2> QED BY <2>1, <2>2 DEF ExecuteSyscall
<1>6. Unclaimed \/ TakeBlock(ppu.gpr[3])
  BY DEF ExecuteSyscall, Unclaimed
<1> QED BY <1>4, <1>5, <1>6 DEF Kept
-----------------------------------------------------------------------------
(***************************************************************************)
(* The invariant.  The addresses of the blocks follow from their handles,  *)
(* and the handles are distinct because they only count up: executeBlock   *)
(* takes its number of instructions as an int, so that a program ends      *)
(* before they have counted past 32 bits.                                  *)
(***************************************************************************)
BlockOK(b) ==
    /\ b.handle \in 0 .. (Word32 - 1) /\ b.size \in Addr
    /\ b.addr = (UserBase + b.handle * Chunk) % Word32

HandlesInv ==
    /\ left \in Nat /\ nextMemoryHandle \in 0 .. (Word32 - 1)
    /\ left > 0 => nextMemoryHandle + left <= Word32
    /\ \A b \in blocks : BlockOK(b) /\ (left > 0 => b.handle < nextMemoryHandle)
    /\ \A b, c \in blocks : b.handle = c.handle => b = c

PPUInv == MachineInv /\ halted \in BOOLEAN /\ HandlesInv

LEMMA LoadedOpen ==
  ASSUME NEW image, ImageType(image)
  PROVE  Open(Loaded(image)) /\ image.base \in Addr
<1> DEFINE n == Len(image.words)
           s == [vaddr |-> image.base, size |-> n, flags |-> Prot]
           data == [k \in 0 .. (n - 1) |-> image.words[k + 1]]
           r == [Region(n, Prot) EXCEPT !.data = data]
           main == InitialRegions(NoRegions)
<1>1. n \in Nat /\ s \in Segments /\ image.words \in Seq(Byte)
  BY DEF ImageType
<1>2. image.base \in Addr
  <2>1. s.vaddr \in Nat /\ s.vaddr + s.size <= AddrLimit - Chunk
    BY <1>1, SegmentAssumption
  <2>2. image.base \in Nat /\ image.base + n <= AddrLimit - Chunk
    BY <2>1
  <2> HIDE DEF n
  <2> QED BY <1>1, <2>2, GeometryAssumption DEF Addr
<1>3. <<image.base, n>> \in Flat!Extents
  <2>1. s.vaddr = image.base /\ s.size = n
    OBVIOUS
  <2> HIDE DEF s, n
  <2> QED BY <1>1, <2>1 DEF Flat!Extents
<1>4. data \in [0 .. (n - 1) -> Byte]
  <2>1. \A k \in 0 .. (n - 1) : image.words[k + 1] \in Byte
    BY <1>1
  <2> QED BY <2>1
<1> HIDE DEF data, n
<1>5. RegionOK(r) /\ r.size = n /\ r.flags = Prot
  <2>1. r = [size |-> n, flags |-> Prot, present |-> TRUE, data |-> data]
    <3>1. ASSUME NEW z, NEW f, NEW p, NEW d
          PROVE  [[size |-> n, flags |-> f, present |-> p, data |-> z] EXCEPT !.data = d]
                   = [size |-> n, flags |-> f, present |-> p, data |-> d]
      OBVIOUS
    <3> HIDE DEF r
    <3>2. r = [[size |-> n, flags |-> Prot, present |-> TRUE, data |-> Zeros(n)]
                  EXCEPT !.data = data]
      BY DEF r, Region
    <3> QED BY <3>1, <3>2
  <2>2. /\ r.size = n /\ r.flags = Prot /\ r.data = data
        /\ r = [size |-> r.size, flags |-> r.flags,
                present |-> r.present, data |-> r.data]
    BY <2>1
  <2>3. r.present = TRUE
    BY <2>1
  <2> HIDE DEF r
  <2>4. BackingOK(r)
    BY <1>1, <1>4, <2>2, <2>3 DEF BackingOK
  <2>5. r.present \in BOOLEAN
    BY <2>3, Zenon
  <2> QED BY <1>1, <2>2, <2>4, <2>5 DEF RegionOK
<1>6. Open(main)
  <2>1. RW \in SUBSET Prot
    BY DEF RW, Prot
  <2>2. RegionOK(LazyRegion(MainSize, RW)) /\ LazyRegion(MainSize, RW).size = MainSize
    BY <2>1, NewRegionOK, GeometryAssumption DEF LazyRegion
  <2>3. MainBase \in Addr /\ <<MainBase, MainSize>> \in Flat!Extents
    BY GeometryAssumption DEF Addr, Flat!Extents
  <2>4. WellFormed(main)
    BY <2>2, <2>3, NoRegionsWellFormed, PutWellFormed DEF InitialRegions
  <2>5. \A b \in DOMAIN main : RW \subseteq main[b].flags
    BY DEF InitialRegions, Put, NoRegions, LazyRegion
  <2> QED BY <2>4, <2>5 DEF Open
<1> HIDE DEF r, main
<1>7. Loaded(image) = Put(main, image.base, r)
  BY DEF Loaded, main, r, data, n
<1>8. WellFormed(Put(main, image.base, r))
  BY <1>2, <1>3, <1>5, <1>6, PutWellFormed DEF Open
<1>9. \A b \in DOMAIN Put(main, image.base, r) :
         RW \subseteq Put(main, image.base, r)[b].flags
  BY <1>5, <1>6 DEF Open, Put, RW, Prot
<1> QED BY <1>2, <1>7, <1>8, <1>9 DEF Open

LEMMA InitPPUInv == PPUInit => PPUInv
<1> SUFFICES ASSUME PPUInit PROVE PPUInv
  OBVIOUS
<1>1. PICK image \in Images :
         /\ regions = Loaded(image)
         /\ ppu = [PPURegisters EXCEPT !.pc = image.base, !.gpr = image.gpr]
         /\ left = image.max
  BY DEF PPUInit
<1>2. ImageType(image)
  BY PPUAssumption
<1>3. Open(regions) /\ image.base \in Addr
  BY <1>1, <1>2, LoadedOpen
<1>4. ppu \in Registers
  <2>1. image.gpr \in [Regs -> Addr]
    BY <1>2 DEF ImageType
  <2> QED BY <1>1, <1>3, <2>1, WidthFacts DEF PPURegisters, Registers
<1>5. halted \in BOOLEAN
  BY Zenon DEF PPUInit
<1>6. HandlesInv
  <2>1. left \in 0 .. (Word32 - 1) /\ nextMemoryHandle = 1 /\ blocks = {}
    BY <1>1, <1>2 DEF ImageType, PPUInit, SyscallInit
  <2> QED BY <2>1, SyscallAssumption DEF HandlesInv
<1> QED BY <1>3, <1>4, <1>5, <1>6 DEF PPUInv, MachineInv

LEMMA StepKeepsPPUInv ==
  ASSUME PPUInv, ExecuteInstruction
  PROVE  PPUInv'
<1>1. PICK i \in Decoded :
         \/ ExecuteArithmetic(i) \/ ExecuteShift(i) \/ ExecuteBranch(i)
         \/ ExecuteLoad(i) \/ ExecuteStore(i) \/ ExecuteSyscall(i)
         \/ ExecuteQuiet(i) \/ HaltUnknown(i)
  BY DEF ExecuteInstruction
<1>2. MachineInv /\ halted \in BOOLEAN /\ HandlesInv
  BY DEF PPUInv
<1>3. InstructionType(i)
  BY <1>2, FetchFacts
<1>4. Kept /\ (Unclaimed \/ TakeBlock(ppu.gpr[3]))
  <2>1. CASE ExecuteSyscall(i)
    BY <1>2, <2>1, SyscallKeeps DEF HandlesInv
  <2>2. CASE ExecuteLoad(i) \/ ExecuteStore(i)
    BY <1>2, <1>3, <2>2, AccessKeeps
  <2>3. CASE \/ ExecuteArithmetic(i) \/ ExecuteShift(i) \/ ExecuteBranch(i)
             \/ ExecuteQuiet(i) \/ HaltUnknown(i)
    BY <1>2, <1>3, <2>3, ComputeKeeps
  <2> QED BY <1>1, <2>1, <2>2, <2>3
<1>5. left \in Nat /\ left > 0 /\ left' = left - 1 /\ left' \in Nat
  BY <1>2 DEF ExecuteInstruction, HandlesInv
<1>6. ppu.gpr[3] \in Addr
  BY <1>2, RegisterFacts, PPUAssumption DEF MachineInv
<1>7. HandlesInv'
  <2>1. CASE Unclaimed
    BY <1>2, <1>5, <2>1, SyscallAssumption DEF Unclaimed, HandlesInv, BlockOK
  <2>2. CASE TakeBlock(ppu.gpr[3])
    <3> DEFINE next == nextMemoryHandle
               new == [addr |-> AllocAddr, size |-> ppu.gpr[3], handle |-> next]
    <3>1. /\ next \in 0 .. (Word32 - 1) /\ next + left <= Word32
          /\ Word32 \in Nat \ {0}
          /\ \A b \in blocks : BlockOK(b) /\ b.handle < next
      BY <1>2, <1>5, SyscallAssumption DEF HandlesInv
    <3>2. blocks' = blocks \cup {new} /\ new.handle = next /\ BlockOK(new)
      BY <1>6, <2>2, <3>1 DEF TakeBlock, BlockOK, AllocAddr
    <3>3. nextMemoryHandle' = (next + 1) % Word32
      BY <2>2 DEF TakeBlock
    <3>4. /\ nextMemoryHandle' \in 0 .. (Word32 - 1)
          /\ left' > 0 => nextMemoryHandle' = next + 1
      <4> HIDE DEF next
      <4>1. next + 1 \in Int
        BY <3>1
      <4>2. nextMemoryHandle' \in Nat /\ nextMemoryHandle' < Word32
        BY <3>1, <3>3, <4>1, DivMod
      <4>3. left' > 0 => (next + 1) % Word32 = next + 1
        <5>1. left' > 0 => next + 1 < Word32
          BY <1>5, <3>1
        <5> QED BY <3>1, <5>1
      <4> QED BY <3>1, <3>3, <4>2, <4>3
    <3> HIDE DEF new, next
    <3>5. left' > 0 => nextMemoryHandle' + left' <= Word32
      BY <1>5, <3>1, <3>4
    <3>6. ASSUME NEW b \in blocks'
          PROVE  BlockOK(b) /\ (left' > 0 => b.handle < nextMemoryHandle')
      <4>1. BlockOK(b) /\ b.handle \in Int /\ b.handle <= next
        BY <3>1, <3>2, <3>6 DEF BlockOK
      <4> QED BY <3>1, <3>4, <4>1
    <3>7. ASSUME NEW b \in blocks', NEW c \in blocks', b.handle = c.handle PROVE b = c
      <4>1. CASE b = new
        BY <3>1, <3>2, <3>7, <4>1
      <4>2. CASE c = new
        BY <3>1, <3>2, <3>7, <4>2
      <4>3. CASE b # new /\ c # new
        BY <1>2, <3>2, <3>7, <4>3 DEF HandlesInv
      <4> QED BY <4>1, <4>2, <4>3
    <3>8. \A b : BlockOK(b)' <=> BlockOK(b)
      BY DEF BlockOK
    <3> QED BY <1>5, <3>4, <3>5, <3>6, <3>7 DEF HandlesInv, BlockOK
  <2> QED BY <1>4, <2>1, <2>2
<1> QED BY <1>4, <1>7 DEF Kept, PPUInv

LEMMA NextPPUInv == PPUInv /\ [ExecuteInstruction]_ppuVars => PPUInv'
<1>1. ASSUME PPUInv, UNCHANGED ppuVars PROVE PPUInv'
  <2>1. UNCHANGED <<regions, ppu, halted, left, nextMemoryHandle, blocks>>
    BY <1>1 DEF ppuVars, vars
  <2>2. MachineInv' /\ HandlesInv'
    BY <1>1, <2>1 DEF PPUInv, MachineInv, Open, WellFormed, HandlesInv, BlockOK
  <2>3. halted' \in BOOLEAN
    <3>1. halted \in BOOLEAN /\ halted' = halted
      BY <1>1, <2>1 DEF PPUInv
    <3> QED BY <3>1, Zenon
  <2> QED BY <2>2, <2>3 DEF PPUInv
<1> QED BY <1>1, StepKeepsPPUInv

\* The inductive invariant of the interpreter.
LEMMA PPUInvariant == PPUSpec => []PPUInv
BY InitPPUInv, NextPPUInv, PTL DEF PPUSpec

\* Registers keep their widths: every value a handler computes, shifts, loads or
\* counts is one of the type of the register it goes to (PPUThreadState).
THEOREM PPUTyped == PPUSpec => []PPUTypeOK
<1>1. PPUInv => PPUTypeOK
  BY DEF PPUInv, MachineInv, HandlesInv, PPUTypeOK, Registers
<1> QED BY <1>1, PPUInvariant, PTL
-----------------------------------------------------------------------------
(***************************************************************************)
(* The blocks of sys_memory_allocate.                                      *)
(***************************************************************************)
LEMMA BlockPlace ==
  ASSUME HandlesInv, NEW b \in blocks, InUserSpace(b), b.size <= Chunk
  PROVE  /\ b.handle \in Nat /\ b.size \in Nat /\ b.handle * Chunk \in Nat
         /\ b.addr = UserBase + b.handle * Chunk
<1>1. BlockOK(b)
  BY DEF HandlesInv
<1>2. b.handle \in Nat /\ b.size \in Nat
  BY <1>1 DEF BlockOK, Addr
<1>3. b.handle * Chunk \in Nat
  BY <1>2, GeometryAssumption
<1>4. /\ UserBase + b.handle * Chunk \in Nat /\ Word32 \in Nat
      /\ UserBase + b.handle * Chunk < Word32
  BY <1>3, SyscallAssumption DEF InUserSpace
<1> DEFINE sum == UserBase + b.handle * Chunk
<1>5. b.addr = sum % Word32 /\ sum \in Nat /\ sum < Word32 /\ Word32 \in Nat
  BY <1>1, <1>4 DEF BlockOK
<1> HIDE DEF sum
<1>6. b.addr = sum
  BY <1>5
<1> QED BY <1>2, <1>3, <1>6 DEF sum

LEMMA InvBlocksApart == PPUInv => BlocksApart
<1> SUFFICES ASSUME PPUInv, NEW b \in blocks, InUserSpace(b), b.size <= Chunk
             PROVE
               /\ \A c \in blocks :
                     c # b /\ InUserSpace(c) /\ c.size <= Chunk =>
                         BlockRange(b) \cap BlockRange(c) = {}
               /\ \A a \in BlockRange(b) :
                     /\ a \notin MainBase .. (MainBase + MainSize - 1)
                     /\ Mapped(regions, a) =>
                           RW \subseteq regions[GetRegion(regions, a)].flags
  BY DEF BlocksApart
<1>1. HandlesInv /\ Open(regions)
  BY DEF PPUInv, MachineInv
<1>2. /\ b.handle \in Nat /\ b.size \in Nat /\ b.handle * Chunk \in Nat
      /\ b.addr = UserBase + b.handle * Chunk
  BY <1>1, BlockPlace
<1>3. ASSUME NEW c \in blocks, c # b, InUserSpace(c), c.size <= Chunk
      PROVE  BlockRange(b) \cap BlockRange(c) = {}
  <2>1. /\ c.handle \in Nat /\ c.size \in Nat /\ c.handle * Chunk \in Nat
        /\ c.addr = UserBase + c.handle * Chunk
    BY <1>1, <1>3, BlockPlace
  <2>2. b.handle # c.handle
    BY <1>1, <1>3 DEF HandlesInv
  <2>3. \/ b.handle * Chunk + Chunk <= c.handle * Chunk
        \/ c.handle * Chunk + Chunk <= b.handle * Chunk
    <3>1. ASSUME NEW h \in Nat, NEW k \in Nat, h + 1 <= k
          PROVE  h * Chunk + Chunk <= k * Chunk
      <4>1. Chunk \in Nat
        BY GeometryAssumption
      <4>2. (h + 1) * Chunk <= k * Chunk
        BY <3>1, <4>1
      <4>3. (h + 1) * Chunk = h * Chunk + Chunk
        BY <4>1
      <4> QED BY <4>2, <4>3
    <3>2. b.handle + 1 <= c.handle \/ c.handle + 1 <= b.handle
      BY <1>2, <2>1, <2>2
    <3> QED BY <1>2, <2>1, <3>1, <3>2
  <2>4. Chunk \in Nat /\ UserBase \in Nat
    BY GeometryAssumption, SyscallAssumption
  <2>5. \/ b.addr + b.size <= c.addr
        \/ c.addr + c.size <= b.addr
    BY <1>2, <1>3, <2>1, <2>3, <2>4
  <2> QED BY <1>2, <2>1, <2>4, <2>5 DEF BlockRange
<1>4. ASSUME NEW a \in BlockRange(b)
      PROVE  /\ a \notin MainBase .. (MainBase + MainSize - 1)
             /\ Mapped(regions, a) => RW \subseteq regions[GetRegion(regions, a)].flags
  <2>1. a \notin MainBase .. (MainBase + MainSize - 1)
    BY <1>2, SyscallAssumption, GeometryAssumption DEF BlockRange
  <2>2. Mapped(regions, a) => GetRegion(regions, a) \in DOMAIN regions
    BY <1>1, GetRegionFacts DEF Open, WellFormed
  <2> QED BY <1>1, <2>1, <2>2 DEF Open
<1> QED BY <1>3, <1>4

\* Whatever a program does, the blocks of sys_memory_allocate share no address
\* with each other or with main RAM and can be used (SyscallHandler.cpp).
THEOREM BlocksStayApart == PPUSpec => []BlocksApart
BY PPUInvariant, InvBlocksApart, PTL
=============================================================================
