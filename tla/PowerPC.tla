------------------------------ MODULE PowerPC ------------------------------
(***************************************************************************)
(* What the interpreter promises a guest: the instructions it supports as  *)
(* an assembler names them, on a flat memory.  Conditions and targets of a *)
(* branch are spelt out, displacements are signed, logical operations are  *)
(* operations on sets of bits.  PPUInterpreter, which works on bit fields  *)
(* and a map of regions, implements it.                                    *)
(***************************************************************************)
EXTENDS Integers, FiniteSetsExt

CONSTANTS Regs, RegBits, CRBits, WordLimit, HalfLimit,
          Asm,        \* word -> instruction, see the actions below
          Observed    \* bound: the addresses whose contents are followed

VARIABLES r, pc, lr, ctr,
          cr,         \* the bits of CR that are set
          carry, so,  \* the carry and the summary overflow of XER
          mem,        \* contents of the observed addresses
          open,       \* those of them that take stores
          stopped

vars == <<r, pc, lr, ctr, cr, carry, so, mem, open, stopped>>

RegLimit  == 2 ^ RegBits
Mod(n)    == n % RegLimit
Signed(x) == IF x < RegLimit \div 2 THEN x ELSE x - RegLimit
Ones(x)   == {k \in 0 .. (RegBits - 1) : (x \div 2 ^ k) % 2 = 1}
Number(S) == MapThenSumSet(LAMBDA k : 2 ^ k, S)
AllBits   == 0 .. (RegBits - 1)

\* Register 0 stands for the number 0 as a base.
BaseOf(n) == IF n = 0 THEN 0 ELSE r[n]

\* The instructions that the word at the PC may be.
Here == IF pc \in Observed THEN {Asm[mem[pc]]} ELSE {Asm[w] : w \in DOMAIN Asm}
-----------------------------------------------------------------------------
Result(i) ==
    LET S == Ones(r[i.a])
        T == IF i.immediate THEN Ones(i.v) ELSE Ones(r[i.b])
    IN  CASE i.mn = "addi"   -> Mod(BaseOf(i.a) + i.v)
          [] i.mn = "addis"  -> Mod(BaseOf(i.a) + i.v * HalfLimit)
          [] i.mn \in {"add", "addc"}   -> Mod(r[i.a] + r[i.b])
          [] i.mn \in {"subf", "subfc"} -> Mod(r[i.b] - r[i.a])
          [] i.mn = "subfic" -> Mod(i.v - r[i.a])
          [] i.mn = "mulhwu" -> ((r[i.a] % WordLimit) * (r[i.b] % WordLimit))
                                  \div WordLimit
          [] i.mn = "and"    -> Number(S \cap T)
          [] i.mn = "nand"   -> Number(AllBits \ (S \cap T))
          [] i.mn = "or"     -> Number(S \cup T)
          [] i.mn = "nor"    -> Number(AllBits \ (S \cup T))
          [] i.mn = "xor"    -> Number((S \cup T) \ (S \cap T))
          [] i.mn = "eqv"    -> Number(AllBits \ ((S \cup T) \ (S \cap T)))
          [] i.mn = "mflr"   -> lr
          [] i.mn = "mfctr"  -> ctr

Carry(i) ==
    CASE i.mn = "addc"   -> r[i.a] + r[i.b] >= RegLimit
      [] i.mn = "subfc"  -> r[i.b] >= r[i.a]
      [] i.mn = "subfic" -> Mod(i.v) >= r[i.a]
      [] OTHER           -> carry

\* A subtraction promises its carry when the difference goes to a third register.
Operands(i)      == IF i.immediate THEN {i.a} ELSE {i.a, i.b}
CarryPromised(i) == i.mn \in {"subfc", "subfic"} => i.d \notin Operands(i)

\* Field f of CR says how x compares with y.
Compared(f, x, y, overflow) ==
    (cr \ (4 * f .. 4 * f + 3))
      \cup {4 * f + (IF x < y THEN 0 ELSE IF x > y THEN 1 ELSE 2)}
      \cup (IF overflow THEN {4 * f + 3} ELSE {})

Unmoved == UNCHANGED <<mem, stopped>> /\ open \subseteq open'
Next1   == pc' = Mod(pc + 1)

Compute(i) ==
    /\ i.class = "compute"
    /\ r' = [r EXCEPT ![i.d] = Result(i)]
    /\ CarryPromised(i) => carry' = Carry(i)
    /\ cr' = IF i.record THEN Compared(0, Signed(Result(i)), 0, so) ELSE cr
    /\ Next1 /\ Unmoved /\ UNCHANGED <<lr, ctr, so>>

Compare(i) ==
    /\ i.class = "cmp"
    /\ cr' = Compared(i.d, Signed(r[i.a]), Signed(r[i.b]), FALSE)
    /\ Next1 /\ Unmoved /\ UNCHANGED <<r, lr, ctr, carry, so>>

MoveToSpecial(i) ==
    /\ i.class = "mtspr"
    /\ lr'  = IF i.mn = "mtlr"  THEN r[i.a] ELSE lr
    /\ ctr' = IF i.mn = "mtctr" THEN r[i.a] ELSE ctr
    /\ IF i.mn = "mtxer"
       THEN /\ carry' = (r[i.a] % 2 = 1)
            /\ so' = (2 * (r[i.a] % WordLimit) >= WordLimit)
       ELSE UNCHANGED <<carry, so>>
    /\ Next1 /\ Unmoved /\ UNCHANGED <<r, cr>>

\* Shifts of a word by less than its width are promised, srw when the upper word
\* of the register is clear.  Other shifts, and rotates, give some word.
Width == RegBits \div 2
LowSigned(x) == IF 2 * (x % WordLimit) < WordLimit THEN x % WordLimit
                ELSE (x % WordLimit) - WordLimit

ShiftResults(i) ==
    LET x == r[i.a]
        n == r[i.b]
    IN  CASE i.mn = "slw"  /\ n < Width -> {(x * 2 ^ n) % WordLimit}
          [] i.mn = "srw"  /\ n < Width /\ x < WordLimit -> {x \div 2 ^ n}
          [] i.mn = "sraw" /\ n < Width -> {(LowSigned(x) \div 2 ^ n) % WordLimit}
          [] OTHER -> 0 .. (WordLimit - 1)

Shift(i) ==
    /\ i.class = "shift"
    /\ r'[i.d] \in ShiftResults(i) /\ \A n \in Regs \ {i.d} : r'[n] = r[n]
    /\ Next1 /\ Unmoved /\ UNCHANGED <<lr, ctr, cr, carry, so>>

\* i.count is "no" or says what the count register must be once decremented,
\* i.test is "no" or says what CR bit i.bit must be.
BranchTo(i) ==
    LET count == IF i.count = "no" THEN ctr ELSE Mod(ctr - 1)
        taken == /\ i.count = "nonzero" => count # 0
                 /\ i.count = "zero" => count = 0
                 /\ i.test = "set" => i.bit \in cr
                 /\ i.test = "clear" => i.bit \notin cr
        dest  == CASE i.to = "near" -> Mod(pc + i.v)
                   [] i.to = "far"  -> Mod(i.v)
                   [] i.to = "lr"   -> lr
                   [] i.to = "ctr"  -> count
    IN  /\ i.class = "branch"
        /\ ctr' = count
        /\ pc' = IF taken THEN dest ELSE Mod(pc + 1)
        /\ lr' = IF i.link /\ taken THEN Mod(pc + 1) ELSE lr
        /\ Unmoved /\ UNCHANGED <<r, cr, carry, so>>

Cells(ea, n) == {Mod(ea + k) : k \in 0 .. (n - 1)}

\* A load gives what is stored there, and may open addresses to stores.
Load(i) ==
    LET ea == Mod(BaseOf(i.a) + i.v)
    IN  /\ i.class = "load"
        /\ Cells(ea, i.n) \subseteq Observed =>
              r'[i.d] = IF i.n = 1 THEN mem[ea] ELSE mem[ea] * WordLimit + mem[Mod(ea + 1)]
        /\ \A n \in Regs \ {i.d} :
              r'[n] = IF i.update /\ n = i.a THEN ea ELSE r[n]
        /\ Next1 /\ Unmoved /\ UNCHANGED <<lr, ctr, cr, carry, so>>

Put(ea, n, x) ==
    [c \in Observed |->
        IF ~(Cells(ea, n) \cap Observed \subseteq open) THEN mem[c]
        ELSE IF c = Mod(ea + n - 1) THEN x % WordLimit
        ELSE IF n = 2 /\ c = ea THEN x \div WordLimit ELSE mem[c]]

Store(i) ==
    LET ea == Mod(BaseOf(i.a) + i.v)
    IN  /\ i.class = "store"
        /\ mem' = Put(ea, i.n, r[i.d])
        /\ r' = IF i.update THEN [r EXCEPT ![i.a] = ea] ELSE r
        /\ Next1 /\ open \subseteq open'
        /\ UNCHANGED <<lr, ctr, cr, carry, so, stopped>>

\* A call answers in r3 and may store a doubleword where r5 points.
SystemCall(i) ==
    /\ i.class = "sc"
    /\ \A n \in Regs \ {3} : r'[n] = r[n]
    /\ \A c \in Observed \ Cells(r[5], 2) : mem'[c] = mem[c]
    /\ Next1 /\ open \subseteq open'
    /\ UNCHANGED <<lr, ctr, cr, carry, so, stopped>>

NoEffect(i) ==
    /\ i.class = "quiet"
    /\ Next1 /\ Unmoved /\ UNCHANGED <<r, lr, ctr, cr, carry, so>>

Stop(i) ==
    /\ i.class = "unknown"
    /\ stopped' = TRUE
    /\ Next1 /\ open \subseteq open'
    /\ UNCHANGED <<r, lr, ctr, cr, carry, so, mem>>

Next ==
    /\ ~stopped
    /\ \E i \in Here :
          \/ Compute(i) \/ Shift(i) \/ Compare(i) \/ MoveToSpecial(i) \/ BranchTo(i)
          \/ Load(i) \/ Store(i) \/ SystemCall(i) \/ NoEffect(i) \/ Stop(i)

Init == stopped = FALSE
Spec == Init /\ [][Next]_vars

\* What the name of each promises, with no exception for the destination.
Carries(i) == i.class = "compute" => carry' = Carry(i)
CarryExact == [][(pc \in Observed) => \A i \in Here : Carries(i)]_vars
=============================================================================
