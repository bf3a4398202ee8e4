--------------------------- MODULE SPUInterpreter ---------------------------
(***************************************************************************)
(* One SPU core as a value, and what SPUInterpreter's members make of it.  *)
(* Addresses count 32-bit words; Decode says what decodeAndExecute takes a *)
(* word for: [op, target].                                                 *)
(*                                                                         *)
(* init() allocates the registers and calls reset(), which assigns a fresh *)
(* SPURegisters and so drops them again: regs_.regs is null in every core  *)
(* there can be, and an instruction that names a register dereferences it. *)
(* Registers have no value in the model; such an instruction is a Crash.   *)
(***************************************************************************)
EXTENDS Integers

CONSTANTS
    StoreSize,     \* 65536: words in a local store (SPU_LOCAL_STORE_SIZE)
    FallbackSize,  \* 16384: words when 256 KB could not be allocated
    PCLimit,       \* 2^30: the PC has 32 bits and counts bytes
    TargetLimit,   \* 2^24: the values of a branch's target field
    Decode,        \* word -> what it encodes; 0 encodes no instruction
    Crash          \* the process is gone

Word == DOMAIN Decode

\* Operations whose handler reads or writes a register, by handler.
ArithmeticOps == {"ai", "a"}
LogicalOps    == {"or", "eqv"}
LoadOps       == {"lqd", "stqd"}
ImmediateOps  == {"il", "ilh", "ilhu"}
RegisterOps   == ArithmeticOps \cup LogicalOps \cup LoadOps \cup ImmediateOps

\* ahi and ah are decoded, and their handler does nothing with them.
IgnoredOps == {"ahi", "ah"}
BranchOps  == {"br", "brsl"}

ASSUME SPUAssumption ==
    /\ StoreSize \in Nat \ {0} /\ FallbackSize \in 1 .. StoreSize
    /\ TargetLimit \in Nat \ {0} /\ PCLimit \in Nat
    /\ StoreSize + TargetLimit <= PCLimit
    /\ 0 \in Word /\ Decode[0].op = "unknown"
    /\ \A word \in Word :
          /\ Decode[word].op \in RegisterOps \cup IgnoredOps \cup BranchOps
                                   \cup {"unknown"}
          /\ Decode[word].target \in 0 .. (TargetLimit - 1)

Cells     == 0 .. (StoreSize - 1)
FewCells  == 0 .. (FallbackSize - 1)

Core == [pc : 0 .. (PCLimit - 1), lr : 0 .. (PCLimit - 1), halted : BOOLEAN,
         store : [Cells -> Word] \cup [FewCells -> Word]]

ASSUME CrashAssumption == Crash \notin Core

\* reset() on a local store of these cells.
ResetCore(cells) == [pc |-> 0, lr |-> 0, halted |-> FALSE,
                     store |-> [k \in cells |-> 0]]

\* What init() leaves, which falls back to the smaller store.
NewCores == {ResetCore(Cells), ResetCore(FewCells)}

\* The words executeInstruction can fetch: the test is against 256 KB, whatever
\* the store's size, and beyond the store the read is undefined.
Fetched(c) == IF c.pc \in DOMAIN c.store THEN {c.store[c.pc]} ELSE Word

\* regs_.pc += target - 4, the PC having moved past the branch: the 24-bit
\* field is not sign-extended.
BranchTarget(c, i) == (c.pc + i.target) % PCLimit

\* decodeAndExecute of i with its PC advanced; c is the core before the fetch.
Executed(c, i) ==
    LET next == (c.pc + 1) % PCLimit
    IN  CASE i.op = "unknown"       -> [c EXCEPT !.pc = next, !.halted = TRUE]
          [] i.op = "br"            -> [c EXCEPT !.pc = BranchTarget(c, i)]
          [] i.op = "brsl"          -> [c EXCEPT !.pc = BranchTarget(c, i), !.lr = next]
          [] i.op \in IgnoredOps    -> [c EXCEPT !.pc = next]
          [] i.op \in RegisterOps   -> Crash

\* executeInstruction: all that one call can make of a core.  A read beyond the
\* store may also end the process.
ExecuteInstruction(c) ==
    IF c.halted \/ c.pc >= StoreSize THEN {c}
    ELSE {Executed(c, Decode[word]) : word \in Fetched(c)}
           \cup (IF c.pc \in DOMAIN c.store THEN {} ELSE {Crash})

\* executeBlock: all that max calls can make of a core.
ExecuteBlock(c, max) ==
    LET after[n \in 0 .. max] ==
          IF n = 0 THEN {c}
          ELSE UNION {IF d = Crash THEN {Crash} ELSE ExecuteInstruction(d) :
                         d \in after[n - 1]}
    IN  after[max]
=============================================================================
