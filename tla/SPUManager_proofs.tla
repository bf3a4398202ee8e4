-------------------------- MODULE SPUManager_proofs --------------------------
(***************************************************************************)
(* Proofs about the SPUManager for every number of cores, every decoding,  *)
(* every size of the local stores and every budget: the state keeps its    *)
(* type, a program never moves back, and a call of executeAllSPUsParallel  *)
(* does what running the cores one after the other does, whatever the      *)
(* threads' order.                                                         *)
(***************************************************************************)
EXTENDS SPUManager, TLAPS, WellFoundedInduction

(***************************************************************************)
(* While the process lives, each core is as far as its thread: where the   *)
(* call found it until the thread starts, then as many instructions into   *)
(* its block as the thread has counted, and at the end of the block when   *)
(* the thread is done.  A joined thread is done.                           *)
(***************************************************************************)
CoreFollows(i) ==
    LET t == threads[i]
        b == main.before[i]
    IN  /\ t.at = "none" => spus[i] = b /\ t = NoThread
        /\ t.at = "new" => spus[i] = b /\ t.left = main.max
        /\ t.at = "running" => spus[i] \in ExecuteBlock(b, main.max - t.left)
        /\ t.at = "done" => spus[i] \in ExecuteBlock(b, main.max)
        /\ main.does = "joining" /\ i < main.next => t.at = "done"

CallFollows ==
    fate = "alive" /\ main # NotInCall => \A i \in Cores : CoreFollows(i)
-----------------------------------------------------------------------------
(* Induction over the naturals, for a set. *)

LEMMA Induction ==
  ASSUME NEW S, 0 \in S, \A n \in Nat : n \in S => n + 1 \in S
  PROVE  Nat \subseteq S
<1> DEFINE R   == OpToRel(<, Nat)
           Bad == {n \in Nat : n \notin S}
<1>1. R = {ss \in Nat \X Nat : ss[1] < ss[2]}
  BY DEF OpToRel
<1>2. IsWellFoundedOn(R, Nat)
  BY NatLessThanWellFounded
<1> HIDE DEF R
<1>3. SUFFICES ASSUME Bad # {} PROVE FALSE
  OBVIOUS
<1>4. Bad \in SUBSET Nat
  OBVIOUS
<1>5. PICK x \in Bad : \A y \in Bad : ~ (<<y, x>> \in R)
  <2> HIDE DEF Bad
  <2> QED BY <1>2, <1>3, <1>4, WFMin
<1>6. x \in Nat /\ x # 0 /\ x - 1 \in Nat
  BY <1>5
<1>7. <<x - 1, x>> \in R
  BY <1>1, <1>6
<1>8. x - 1 \in S
  BY <1>5, <1>6, <1>7
<1>9. (x - 1) + 1 = x
  BY <1>6
<1> QED BY <1>5, <1>6, <1>8, <1>9
-----------------------------------------------------------------------------
(***************************************************************************)
(* The recursion of executeBlock.                                          *)
(***************************************************************************)
Stepped(S) == UNION {IF d = Crash THEN {Crash} ELSE ExecuteInstruction(d) : d \in S}

IsRun(c, max, f) ==
    f = [n \in 0 .. max |-> IF n = 0 THEN {c} ELSE Stepped(f[n - 1])]

Run(c, max) == CHOOSE f : IsRun(c, max, f)

LEMMA BlockIsRun ==
  ASSUME NEW c, NEW max
  PROVE  ExecuteBlock(c, max) = Run(c, max)[max]
BY DEF ExecuteBlock, Run, IsRun, Stepped

LEMMA RunExists ==
  ASSUME NEW c, NEW max \in Nat
  PROVE  \E f : IsRun(c, max, f)
<1> DEFINE S == {n \in Nat : \E f : IsRun(c, n, f)}
<1>1. 0 \in S
  <2>1. IsRun(c, 0, [n \in 0 .. 0 |-> {c}])
    BY DEF IsRun
  <2> QED BY <2>1
<1>2. ASSUME NEW m \in Nat, m \in S PROVE m + 1 \in S
  <2>1. PICK g : IsRun(c, m, g)
    BY <1>2
  <2> DEFINE f == [n \in 0 .. (m + 1) |-> IF n = m + 1 THEN Stepped(g[m]) ELSE g[n]]
  <2>2. ASSUME NEW n \in 0 .. (m + 1)
        PROVE  f[n] = IF n = 0 THEN {c} ELSE Stepped(f[n - 1])
    <3>1. CASE n = 0
      <4>1. n \in 0 .. m /\ n # m + 1
        BY <1>2, <3>1
      <4>2. g[n] = {c}
        BY <2>1, <3>1, <4>1 DEF IsRun
      <4> QED BY <3>1, <4>1, <4>2
    <3>2. CASE n # 0
      <4>1. n - 1 \in 0 .. m /\ n - 1 \in 0 .. (m + 1) /\ n - 1 # m + 1
        BY <1>2, <3>2
      <4>2. f[n - 1] = g[n - 1]
        BY <4>1
      <4>3. CASE n = m + 1
        <5>1. n - 1 = m /\ f[n] = Stepped(g[m])
          BY <1>2, <4>3
        <5> QED BY <3>2, <4>2, <5>1
      <4>4. CASE n # m + 1
        <5>1. n \in 0 .. m /\ f[n] = g[n]
          BY <1>2, <4>4
        <5>2. g[n] = Stepped(g[n - 1])
          BY <2>1, <3>2, <5>1 DEF IsRun
        <5> QED BY <3>2, <4>2, <5>1, <5>2
      <4> QED BY <4>3, <4>4
    <3> QED BY <3>1, <3>2
  <2>3. f = [n \in 0 .. (m + 1) |-> f[n]]
    OBVIOUS
  <2> HIDE DEF f
  <2>4. IsRun(c, m + 1, f)
    BY <2>2, <2>3 DEF IsRun
  <2> QED BY <2>4
<1> HIDE DEF S
<1>3. Nat \subseteq S
  BY <1>1, <1>2, Induction
<1> QED BY <1>3 DEF S

LEMMA RunStarts ==
  ASSUME NEW c, NEW max \in Nat
  PROVE  Run(c, max)[0] = {c}
<1>1. IsRun(c, max, Run(c, max))
  BY RunExists DEF Run
<1> QED BY <1>1 DEF IsRun

LEMMA RunFollows ==
  ASSUME NEW c, NEW max \in Nat, NEW n \in Nat, n < max
  PROVE  Run(c, max)[n + 1] = Stepped(Run(c, max)[n])
<1>1. IsRun(c, max, Run(c, max))
  BY RunExists DEF Run
<1>2. n + 1 \in 0 .. max /\ n + 1 # 0 /\ (n + 1) - 1 = n
  OBVIOUS
<1> QED BY <1>1, <1>2 DEF IsRun

\* A longer run starts as a shorter one.
LEMMA RunPrefix ==
  ASSUME NEW c, NEW max \in Nat
  PROVE  \A n \in Nat : n <= max => Run(c, max)[n] = Run(c, max + 1)[n]
<1> DEFINE S == {n \in Nat : n <= max => Run(c, max)[n] = Run(c, max + 1)[n]}
<1>1. 0 \in S
  <2>1. Run(c, max)[0] = {c} /\ Run(c, max + 1)[0] = {c}
    BY RunStarts
  <2> QED BY <2>1
<1>2. ASSUME NEW n \in Nat, n \in S PROVE n + 1 \in S
  <2>1. SUFFICES ASSUME n + 1 <= max
                 PROVE  Run(c, max)[n + 1] = Run(c, max + 1)[n + 1]
    OBVIOUS
  <2>2. Run(c, max)[n] = Run(c, max + 1)[n]
    BY <1>2, <2>1
  <2>3. n < max /\ n < max + 1
    BY <2>1
  <2>4. Run(c, max)[n + 1] = Stepped(Run(c, max)[n])
    BY <2>3, RunFollows
  <2>5. Run(c, max + 1)[n + 1] = Stepped(Run(c, max + 1)[n])
    BY <2>3, RunFollows
  <2> QED BY <2>2, <2>4, <2>5
<1> HIDE DEF S
<1>3. Nat \subseteq S
  BY <1>1, <1>2, Induction
<1> QED BY <1>3 DEF S

\* What executeBlock computes: nothing with a budget of 0, and one
\* instruction more with a budget that is one larger.
LEMMA BlockEquation ==
  ASSUME NEW c, NEW max \in Nat
  PROVE  /\ ExecuteBlock(c, 0) = {c}
         /\ ExecuteBlock(c, max + 1) = Stepped(ExecuteBlock(c, max))
<1>1. ExecuteBlock(c, 0) = {c}
  BY RunStarts, BlockIsRun
<1>2. Run(c, max + 1)[max + 1] = Stepped(Run(c, max + 1)[max])
  BY RunFollows
<1>3. Run(c, max + 1)[max] = Run(c, max)[max]
  BY RunPrefix
<1> QED BY <1>1, <1>2, <1>3, BlockIsRun
-----------------------------------------------------------------------------
(***************************************************************************)
(* The consequences for a core: it gets one instruction further, and once  *)
(* it has halted, or the process has crashed, nothing changes.             *)
(***************************************************************************)
LEMMA BlockGoesOn ==
  ASSUME NEW c, NEW n \in Nat, NEW d \in ExecuteBlock(c, n), d # Crash,
         NEW e \in ExecuteInstruction(d)
  PROVE  e \in ExecuteBlock(c, n + 1)
BY BlockEquation DEF Stepped

LEMMA BlockStays ==
  ASSUME NEW c, NEW n \in Nat, NEW d \in ExecuteBlock(c, n), d = Crash \/ d.halted,
         NEW max \in Nat, n <= max
  PROVE  d \in ExecuteBlock(c, max)
<1> DEFINE S == {k \in Nat : d \in ExecuteBlock(c, n + k)}
<1>1. 0 \in S
  OBVIOUS
<1>2. ASSUME NEW k \in Nat, k \in S PROVE k + 1 \in S
  <2>1. d \in ExecuteBlock(c, n + k) /\ n + k \in Nat /\ n + (k + 1) = (n + k) + 1
    BY <1>2
  <2>2. d \in IF d = Crash THEN {Crash} ELSE ExecuteInstruction(d)
    BY DEF ExecuteInstruction
  <2>3. d \in Stepped(ExecuteBlock(c, n + k))
    BY <2>1, <2>2 DEF Stepped
  <2> QED BY <2>1, <2>3, BlockEquation
<1> HIDE DEF S
<1>3. Nat \subseteq S
  BY <1>1, <1>2, Induction
<1>4. max - n \in Nat /\ n + (max - n) = max
  OBVIOUS
<1> QED BY <1>3, <1>4 DEF S
-----------------------------------------------------------------------------
(***************************************************************************)
(* An instruction keeps the type of its core.                              *)
(***************************************************************************)
LEMMA CellsFit ==
  /\ 0 \in 0 .. (PCLimit - 1) /\ StoreSize \in Nat /\ PCLimit \in Nat
  /\ \A a \in Nat, b \in 0 .. TargetLimit :
        a < StoreSize /\ (b < TargetLimit \/ b = 1)
          => /\ (a + b) % PCLimit = a + b
             /\ a + b \in 0 .. (PCLimit - 1)
<1>1. /\ StoreSize \in Nat \ {0} /\ TargetLimit \in Nat \ {0} /\ PCLimit \in Nat
      /\ StoreSize + TargetLimit <= PCLimit
  BY SPUAssumption
<1>2. \A n \in Nat : n < PCLimit => n % PCLimit = n
  BY <1>1
<1> QED BY <1>1, <1>2

LEMMA Targets ==
  ASSUME NEW word \in Word
  PROVE  /\ Decode[word].target \in 0 .. TargetLimit
         /\ Decode[word].target < TargetLimit
         /\ 1 \in 0 .. TargetLimit
         /\ Decode[word].op \in RegisterOps \cup IgnoredOps \cup BranchOps
                                   \cup {"unknown"}
BY SPUAssumption

LEMMA ExecutedKeepsCore ==
  ASSUME NEW c \in Core, c.pc < StoreSize, NEW word \in Word,
         Executed(c, Decode[word]) # Crash
  PROVE  Executed(c, Decode[word]) \in Core
<1> DEFINE i    == Decode[word]
           next == (c.pc + 1) % PCLimit
           d    == Executed(c, i)
<1>1. c.pc \in Nat /\ c.lr \in 0 .. (PCLimit - 1)
  BY CellsFit DEF Core
<1>2. next = c.pc + 1 /\ next \in 0 .. (PCLimit - 1)
  BY <1>1, CellsFit, Targets
<1>3. /\ BranchTarget(c, i) = c.pc + i.target
      /\ BranchTarget(c, i) \in 0 .. (PCLimit - 1)
  BY <1>1, CellsFit, Targets DEF BranchTarget
<1>4. i.op \in RegisterOps \cup IgnoredOps \cup BranchOps \cup {"unknown"}
  BY Targets
<1> HIDE DEF i
<1>5. /\ i.op = "unknown" => d = [c EXCEPT !.pc = next, !.halted = TRUE]
      /\ i.op = "br" => d = [c EXCEPT !.pc = BranchTarget(c, i)]
      /\ i.op = "brsl" => d = [c EXCEPT !.pc = BranchTarget(c, i), !.lr = next]
      /\ i.op \in IgnoredOps => d = [c EXCEPT !.pc = next]
      /\ i.op \in RegisterOps => d = Crash
  BY DEF Executed, RegisterOps, ArithmeticOps, LogicalOps, LoadOps, ImmediateOps,
         IgnoredOps
<1>6. d # Crash
  BY DEF i
<1> DEFINE t == BranchTarget(c, i)
<1> SUFFICES d \in Core
  BY DEF i
<1> HIDE DEF d, next, t
<1>7. CASE i.op = "unknown"
  <2>1. d = [[c EXCEPT !.pc = next] EXCEPT !.halted = TRUE]
    BY <1>5, <1>7
  <2> QED BY <1>2, <2>1, Zenon DEF Core
<1>8. CASE i.op \in {"br", "brsl"}
  BY <1>2, <1>3, <1>5, <1>8 DEF Core, t
<1>9. CASE i.op \in IgnoredOps
  BY <1>2, <1>5, <1>9 DEF Core
<1> QED BY <1>4, <1>5, <1>6, <1>7, <1>8, <1>9 DEF BranchOps

LEMMA InstructionKeepsCore ==
  ASSUME NEW c \in Core, NEW d \in ExecuteInstruction(c), d # Crash
  PROVE  d \in Core
<1>1. c.pc \in Nat
  BY CellsFit DEF Core
<1>2. CASE c.halted \/ c.pc >= StoreSize
  BY <1>1, <1>2 DEF ExecuteInstruction
<1>3. CASE ~ (c.halted \/ c.pc >= StoreSize)
  <2>1. Fetched(c) \subseteq Word
    <3>1. c.store \in [Cells -> Word] \cup [FewCells -> Word]
      BY DEF Core
    <3> QED BY <3>1 DEF Fetched
  <2>2. PICK word \in Fetched(c) : d = Executed(c, Decode[word])
    BY <1>3 DEF ExecuteInstruction
  <2>3. c.pc < StoreSize
    BY <1>1, <1>3, CellsFit
  <2> QED BY <2>1, <2>2, <2>3, ExecutedKeepsCore
<1> QED BY <1>2, <1>3

LEMMA BlockKeepsCore ==
  ASSUME NEW c \in Core, NEW max \in Nat
  PROVE  \A d \in ExecuteBlock(c, max) : d = Crash \/ d \in Core
<1> DEFINE Fine(d) == d = Crash \/ d \in Core
           S == {n \in Nat : \A d \in ExecuteBlock(c, n) : Fine(d)}
<1>1. 0 \in S
  BY BlockEquation
<1>2. ASSUME NEW n \in Nat, n \in S PROVE n + 1 \in S
  <2>1. ASSUME NEW e \in ExecuteBlock(c, n + 1) PROVE Fine(e)
    <3>1. PICK d \in ExecuteBlock(c, n) :
             e \in IF d = Crash THEN {Crash} ELSE ExecuteInstruction(d)
      BY BlockEquation DEF Stepped
    <3>2. Fine(d)
      BY <1>2
    <3>3. CASE d = Crash \/ e = Crash
      BY <3>1, <3>3
    <3>4. CASE d # Crash /\ e # Crash
      BY <3>1, <3>2, <3>4, InstructionKeepsCore
    <3> QED BY <3>3, <3>4
  <2> QED BY <2>1
<1> HIDE DEF S
<1>3. Nat \subseteq S
  BY <1>1, <1>2, Induction
<1> QED BY <1>3 DEF S

\* The cores that init() and reset() make are cores.
LEMMA ResetIsCore ==
  /\ ResetCore(Cells) \in Core /\ ResetCore(FewCells) \in Core
  /\ \A c \in Core : ResetCore(DOMAIN c.store) \in Core
<1>1. 0 \in Word /\ 0 \in 0 .. (PCLimit - 1) /\ FALSE \in BOOLEAN
  BY CellsFit, SPUAssumption
<1>2. /\ [k \in Cells |-> 0] \in [Cells -> Word]
      /\ [k \in FewCells |-> 0] \in [FewCells -> Word]
  BY <1>1
<1>3. ResetCore(Cells) \in Core /\ ResetCore(FewCells) \in Core
  BY <1>1, <1>2, Zenon DEF ResetCore, Core
<1>4. ASSUME NEW c \in Core PROVE ResetCore(DOMAIN c.store) \in Core
  <2>1. c.store \in [Cells -> Word] \cup [FewCells -> Word]
    BY DEF Core
  <2>2. DOMAIN c.store \in {Cells, FewCells}
    BY <2>1
  <2> QED BY <1>3, <2>2
<1> QED BY <1>3, <1>4
-----------------------------------------------------------------------------
(***************************************************************************)
(* The type of the state.                                                  *)
(***************************************************************************)
CoresTyped == spus \in [Cores -> Core]

FateTyped == /\ fate \in {"alive", "crashed", "terminated"}
             /\ hostCalls \in 0 .. MaxHostCalls

CallTyped ==
    \/ main = NotInCall /\ threads = [i \in Cores |-> NoThread]
    \/ /\ main \in [does : {"creating", "joining"}, next : Cores, max : Budgets,
                    before : [Cores -> Core]]
       /\ threads \in [Cores -> [at : {"none", "new", "running", "done"},
                                 left : 0 .. main.max]]
       /\ \A i \in Cores :
             threads[i].at = "none" <=> main.does = "creating" /\ i >= main.next

LEMMA TypeParts == ManagerTypeOK <=> CoresTyped /\ FateTyped /\ CallTyped
BY DEF ManagerTypeOK, CoresTyped, FateTyped, CallTyped

LEMMA NotInCallFacts ==
  ASSUME NEW m, m.does \in {"creating", "joining"}
  PROVE  m # NotInCall
BY DEF NotInCall

LEMMA CoresFacts ==
  /\ NumCores \in Nat \ {0} /\ 0 \in Cores /\ NumCores - 1 \in Cores
  /\ Budgets \subseteq Nat
  /\ \A i \in Cores : i \in Nat /\ i <= NumCores - 1
                      /\ (i # NumCores - 1 => i + 1 \in Cores)
BY ManagerAssumption DEF Cores

LEMMA TypeInitially == ManagerInit => ManagerTypeOK
<1> SUFFICES ASSUME ManagerInit PROVE CoresTyped /\ FateTyped /\ CallTyped
  BY TypeParts
<1>1. CoresTyped
  BY ResetIsCore DEF ManagerInit, NewCores, CoresTyped
<1>2. FateTyped
  BY ManagerAssumption DEF ManagerInit, FateTyped
<1>3. CallTyped
  BY DEF ManagerInit, CallTyped
<1> QED BY <1>1, <1>2, <1>3

\* What the host writes into a core.
Programmed(c, p) ==
    [c EXCEPT !.pc = p.pc,
              !.store = [k \in DOMAIN @ |-> IF k \in DOMAIN p.words THEN p.words[k]
                                            ELSE @[k]]]

LEMMA ProgrammedIsCore ==
  ASSUME NEW c \in Core, NEW p \in Programs
  PROVE  Programmed(c, p) \in Core
<1> DEFINE store == [k \in DOMAIN c.store |-> IF k \in DOMAIN p.words THEN p.words[k]
                                              ELSE c.store[k]]
<1>1. /\ p.pc \in 0 .. (PCLimit - 1)
      /\ \A k \in DOMAIN p.words : p.words[k] \in Word
  BY ManagerAssumption
<1>2. c.store \in [Cells -> Word] \cup [FewCells -> Word]
  BY DEF Core
<1>3. \A k \in DOMAIN c.store : store[k] \in Word
  BY <1>1, <1>2
<1>4. store \in [Cells -> Word] \cup [FewCells -> Word]
  <2>1. CASE c.store \in [Cells -> Word]
    BY <1>3, <2>1
  <2>2. CASE c.store \in [FewCells -> Word]
    BY <1>3, <2>2
  <2> QED BY <1>2, <2>1, <2>2
<1>5. Programmed(c, p) = [[c EXCEPT !.pc = p.pc] EXCEPT !.store = store]
  BY DEF Programmed, Core
<1> HIDE DEF store
<1> QED BY <1>1, <1>4, <1>5, Zenon DEF Core

LEMMA HostProgramStep ==
  ASSUME NEW i \in Cores, NEW p \in Programs, HostProgram(i, p), CoresTyped
  PROVE  spus' = [spus EXCEPT ![i] = Programmed(spus[i], p)]
BY DEF HostProgram, Programmed, CoresTyped, Core

LEMMA CoresStayTyped ==
  ASSUME ManagerTypeOK, [ManagerNext]_managerVars
  PROVE  CoresTyped'
<1>1. CoresTyped /\ CallTyped
  BY TypeParts
<1>2. CASE UNCHANGED spus
  BY <1>1, <1>2 DEF CoresTyped
<1>3. ASSUME NEW i \in Cores, NEW p \in Programs, HostProgram(i, p) PROVE CoresTyped'
  <2>1. Programmed(spus[i], p) \in Core
    BY <1>1, ProgrammedIsCore DEF CoresTyped
  <2> QED BY <1>1, <1>3, <2>1, HostProgramStep DEF CoresTyped
<1>4. ASSUME NEW i \in Cores, HostReset(i) PROVE CoresTyped'
  <2>1. spus' = [spus EXCEPT ![i] = ResetCore(DOMAIN spus[i].store)]
    BY <1>4 DEF HostReset
  <2>2. ResetCore(DOMAIN spus[i].store) \in Core
    BY <1>1, ResetIsCore DEF CoresTyped
  <2> QED BY <1>1, <2>1, <2>2 DEF CoresTyped
<1>5. ASSUME NEW max \in Budgets, ExecuteAllSPUs(max) PROVE CoresTyped'
  <2>1. CASE UNCHANGED spus
    BY <1>1, <2>1 DEF CoresTyped
  <2>2. CASE spus' \in AfterAll(max)
    <3>1. max \in Nat
      BY CoresFacts
    <3>2. ASSUME NEW i \in Cores PROVE spus'[i] \in Core
      <4>1. spus'[i] \in ExecuteBlock(spus[i], max) /\ spus'[i] # Crash
        BY <2>2 DEF AfterAll
      <4> QED BY <1>1, <3>1, <4>1, BlockKeepsCore DEF CoresTyped
    <3> QED BY <2>2, <3>2 DEF AfterAll, CoresTyped
  <2> QED BY <1>5, <2>1, <2>2 DEF ExecuteAllSPUs
<1>6. ASSUME NEW i \in Cores, ExecuteOne(i) PROVE CoresTyped'
  <2>1. PICK c \in ExecuteInstruction(spus[i]) :
           IF c = Crash THEN fate' = "crashed" /\ UNCHANGED spus
                        ELSE spus' = [spus EXCEPT ![i] = c] /\ UNCHANGED fate
    BY <1>6 DEF ExecuteOne
  <2>2. c # Crash => c \in Core
    BY <1>1, InstructionKeepsCore DEF CoresTyped
  <2> QED BY <1>1, <2>1, <2>2 DEF CoresTyped
<1>7. \/ UNCHANGED spus
      \/ \E i \in Cores : \E p \in Programs : HostProgram(i, p)
      \/ \E i \in Cores : HostReset(i) \/ ExecuteOne(i)
      \/ \E max \in Budgets : ExecuteAllSPUs(max)
  BY DEF ManagerNext, managerVars, MainThread, Host, Thread, CreateThread,
         ThreadNotCreated, JoinThread, TestHalted, BlockEnds, ExecuteAllSPUsParallel
<1> QED BY <1>2, <1>3, <1>4, <1>5, <1>6, <1>7
LEMMA FateStaysTyped ==
  ASSUME ManagerTypeOK, [ManagerNext]_managerVars
  PROVE  FateTyped'
<1>1. FateTyped
  BY TypeParts
<1>2. /\ fate' \in {fate, "crashed", "terminated"}
      /\ \/ hostCalls' = hostCalls
         \/ hostCalls < MaxHostCalls /\ hostCalls' = hostCalls + 1
  BY DEF ManagerNext, managerVars, MainThread, Host, Thread, CreateThread,
         ThreadNotCreated, JoinThread, TestHalted, BlockEnds, ExecuteOne,
         HostProgram, HostReset, ExecuteAllSPUs, ExecuteAllSPUsParallel
<1>3. MaxHostCalls \in Nat
  BY ManagerAssumption
<1> QED BY <1>1, <1>2, <1>3 DEF FateTyped

\* The steps of a call, without the cores: who does what, and which thread
\* moves where.
InCall ==
    /\ main \in [does : {"creating", "joining"}, next : Cores, max : Budgets,
                 before : [Cores -> Core]]
    /\ threads \in [Cores -> [at : {"none", "new", "running", "done"},
                              left : 0 .. main.max]]
    /\ \A i \in Cores :
          threads[i].at = "none" <=> main.does = "creating" /\ i >= main.next

Moves(i, at, left) == threads' = [threads EXCEPT ![i] = [at |-> at, left |-> left]]

LEMMA CallCases ==
  CallTyped <=> (main = NotInCall /\ threads = [i \in Cores |-> NoThread]) \/ InCall
BY DEF CallTyped, InCall

LEMMA InCallFacts ==
  ASSUME InCall
  PROVE  /\ main # NotInCall /\ main.max \in Nat /\ main.max \in Budgets
         /\ main.does \in {"creating", "joining"} /\ main.next \in Cores
         /\ main.before \in [Cores -> Core]
         /\ \A i \in Cores : /\ threads[i].left \in 0 .. main.max
                             /\ threads[i].at \in {"none", "new", "running", "done"}
<1>1. main.does \in {"creating", "joining"} /\ main.max \in Budgets
  BY DEF InCall
<1>2. main # NotInCall
  BY <1>1, NotInCallFacts
<1>3. main.max \in Nat /\ main.next \in Cores /\ main.before \in [Cores -> Core]
  BY <1>1, CoresFacts DEF InCall
<1> QED BY <1>1, <1>2, <1>3 DEF InCall

LEMMA NotInCallDoes == NotInCall.does = "nothing"
BY DEF NotInCall

\* A thread that exists moves to another point: the call stays typed.
LEMMA MoveKeepsInCall ==
  ASSUME InCall, NEW i \in Cores, threads[i].at # "none", main' = main,
         NEW at \in {"new", "running", "done"}, NEW left \in 0 .. main.max,
         Moves(i, at, left)
  PROVE  InCall'
<1> DEFINE T == [at : {"none", "new", "running", "done"}, left : 0 .. main.max]
<1>1. threads \in [Cores -> T]
  BY DEF InCall
<1>2. [at |-> at, left |-> left] \in T
  OBVIOUS
<1>3. threads' = [threads EXCEPT ![i] = [at |-> at, left |-> left]]
  BY DEF Moves
<1> HIDE DEF T
<1>4. threads' \in [Cores -> T]
  BY <1>1, <1>2, <1>3
<1>5. ASSUME NEW j \in Cores
      PROVE  threads'[j].at = "none" <=> threads[j].at = "none"
  <2>1. CASE j = i
    BY <1>1, <1>3, <2>1
  <2>2. CASE j # i
    BY <1>1, <1>3, <2>2
  <2> QED BY <2>1, <2>2
<1> QED BY <1>4, <1>5 DEF InCall, T

LEMMA MoveOfThread ==
  ASSUME InCall, NEW i \in Cores, Thread(i)
  PROVE  /\ main' = main /\ fate = "alive"
         /\ \/ /\ threads[i].at = "new" /\ ~ spus[i].halted
               /\ Moves(i, "running", threads[i].left)
               /\ UNCHANGED <<spus, fate>>
            \/ /\ threads[i].at = "new" /\ spus[i].halted
               /\ Moves(i, "done", threads[i].left)
               /\ UNCHANGED <<spus, fate>>
            \/ /\ ExecuteOne(i)
               /\ threads[i].at = "running" /\ threads[i].left > 0
               /\ Moves(i, "running", threads[i].left - 1)
            \/ /\ threads[i].at = "running" /\ (threads[i].left = 0 \/ spus[i].halted)
               /\ Moves(i, "done", threads[i].left)
               /\ UNCHANGED <<spus, fate>>
<1> DEFINE T == [at : {"none", "new", "running", "done"}, left : 0 .. main.max]
<1>1. threads \in [Cores -> T] /\ threads[i] \in T
  BY DEF InCall
<1>2. ASSUME NEW at
      PROVE  [threads EXCEPT ![i].at = at] =
             [threads EXCEPT ![i] = [at |-> at, left |-> threads[i].left]]
  <2>1. [threads[i] EXCEPT !.at = at] = [at |-> at, left |-> threads[i].left]
    BY <1>1
  <2>2. [threads EXCEPT ![i].at = at] =
        [threads EXCEPT ![i] = [threads[i] EXCEPT !.at = at]]
    BY <1>1
  <2> QED BY <2>1, <2>2
<1>3. ASSUME NEW left
      PROVE  [threads EXCEPT ![i].left = left] =
             [threads EXCEPT ![i] = [at |-> threads[i].at, left |-> left]]
  <2>1. [threads[i] EXCEPT !.left = left] = [at |-> threads[i].at, left |-> left]
    BY <1>1
  <2>2. [threads EXCEPT ![i].left = left] =
        [threads EXCEPT ![i] = [threads[i] EXCEPT !.left = left]]
    BY <1>1
  <2> QED BY <2>1, <2>2
<1>4. CASE TestHalted(i)
  BY <1>2, <1>4 DEF TestHalted, Moves
<1>5. CASE ExecuteOne(i)
  BY <1>3, <1>5 DEF ExecuteOne, Moves
<1>6. CASE BlockEnds(i)
  BY <1>2, <1>6 DEF BlockEnds, Moves
<1> QED BY <1>4, <1>5, <1>6 DEF Thread
-----------------------------------------------------------------------------
(***************************************************************************)
(* Every step keeps the call typed and the cores with their threads.       *)
(***************************************************************************)
CallInv == CallTyped /\ CallFollows

LEMMA OutsideCall ==
  ASSUME CallTyped, main = NotInCall
  PROVE  threads = [i \in Cores |-> NoThread]
BY CallCases, InCallFacts

LEMMA InsideCall ==
  ASSUME CallInv, fate = "alive", main.does \in {"creating", "joining"}
  PROVE  InCall /\ \A i \in Cores : CoreFollows(i)
BY CallCases, NotInCallFacts DEF CallInv, CallFollows

LEMMA CoreUnmoved ==
  ASSUME NEW i \in Cores, CoreFollows(i), main' = main, threads'[i] = threads[i],
         spus'[i] = spus[i]
  PROVE  CoreFollows(i)'
BY DEF CoreFollows

LEMMA IdleKeepsCallInv ==
  ASSUME CallInv, main = NotInCall, UNCHANGED <<main, threads>>
  PROVE  CallInv'
<1>1. threads = [i \in Cores |-> NoThread]
  BY OutsideCall DEF CallInv
<1> QED BY <1>1 DEF CallInv, CallTyped, CallFollows

LEMMA CallBegins ==
  ASSUME CallInv, CoresTyped, NEW max \in Budgets, ExecuteAllSPUsParallel(max)
  PROVE  CallInv'
<1>1. /\ main' = [does |-> "creating", next |-> 0, max |-> max, before |-> spus]
      /\ UNCHANGED <<spus, fate, threads>> /\ main = NotInCall
  BY DEF ExecuteAllSPUsParallel, Idle
<1>2. threads = [i \in Cores |-> NoThread]
  BY <1>1, OutsideCall DEF CallInv
<1>3. \A i \in Cores : threads'[i] = NoThread /\ NoThread.at = "none"
  BY <1>1, <1>2 DEF NoThread
<1>4. InCall'
  <2>1. max \in Nat /\ 0 \in Cores /\ \A i \in Cores : i >= 0
    BY CoresFacts
  <2>2. main' \in [does : {"creating", "joining"}, next : Cores, max : Budgets,
                   before : [Cores -> Core]]
    BY <1>1, <2>1 DEF CoresTyped
  <2>3. NoThread \in [at : {"none", "new", "running", "done"}, left : 0 .. main'.max]
    BY <1>1, <2>1 DEF NoThread
  <2>4. threads' \in [Cores -> [at : {"none", "new", "running", "done"},
                                left : 0 .. main'.max]]
    BY <1>1, <1>2, <2>3
  <2> QED BY <1>1, <1>3, <2>1, <2>2, <2>4 DEF InCall
<1>5. ASSUME NEW i \in Cores PROVE CoreFollows(i)'
  BY <1>1, <1>3 DEF CoreFollows
<1> QED BY <1>4, <1>5 DEF CallInv, CallTyped, InCall, CallFollows

LEMMA ThreadCreated ==
  ASSUME CallInv, CreateThread
  PROVE  CallInv'
<1>1. InCall /\ (\A i \in Cores : CoreFollows(i)) /\ main.does = "creating"
  BY InsideCall DEF CreateThread
<1> DEFINE k == main.next
           T == [at : {"none", "new", "running", "done"}, left : 0 .. main.max]
<1>2. /\ k \in Cores /\ main.max \in Nat /\ threads \in [Cores -> T]
  BY <1>1, InCallFacts DEF InCall
<1>3. /\ threads' = [threads EXCEPT ![k] = [at |-> "new", left |-> main.max]]
      /\ spus' = spus /\ fate' = fate
  BY DEF CreateThread
<1>4. [at |-> "new", left |-> main.max] \in T
  BY <1>2
<1> HIDE DEF T
<1>5. /\ threads' \in [Cores -> T]
      /\ threads'[k] = [at |-> "new", left |-> main.max]
      /\ \A i \in Cores : i # k => threads'[i] = threads[i]
  BY <1>2, <1>3, <1>4
<1>6. threads[k].at = "none" /\ spus[k] = main.before[k]
  <2>1. k \in Nat
    BY <1>2, CoresFacts
  <2>2. threads[k].at = "none"
    BY <1>1, <1>2, <2>1 DEF InCall
  <2> QED BY <1>1, <1>2, <2>2 DEF CoreFollows
<1>7. /\ main' \in [does : {"creating", "joining"}, next : Cores, max : Budgets,
                    before : [Cores -> Core]]
      /\ main'.max = main.max /\ main'.before = main.before
      /\ \/ k = NumCores - 1 /\ main'.does = "joining" /\ main'.next = 0
         \/ k # NumCores - 1 /\ main'.does = "creating" /\ main'.next = k + 1
  <2>1. main \in [does : {"creating", "joining"}, next : Cores, max : Budgets,
                  before : [Cores -> Core]]
    BY <1>1 DEF InCall
  <2>2. CASE LastThread
    <3>1. main' = [main EXCEPT !.does = "joining", !.next = 0]
      BY <2>2 DEF CreateThread
    <3> QED BY <2>1, <2>2, <3>1, CoresFacts DEF LastThread
  <2>3. CASE ~ LastThread
    <3>1. main' = [main EXCEPT !.next = k + 1]
      BY <2>3 DEF CreateThread, NextThread
    <3>2. k + 1 \in Cores
      BY <1>2, <2>3, CoresFacts DEF LastThread
    <3> QED BY <1>1, <2>1, <2>3, <3>1, <3>2 DEF LastThread
  <2> QED BY <2>2, <2>3
<1>8. InCall'
  <2>1. ASSUME NEW i \in Cores
        PROVE  threads'[i].at = "none" <=> (main'.does = "creating" /\ i >= main'.next)
    <3>1. i \in Nat /\ k \in Nat /\ i <= NumCores - 1
      BY <1>2, CoresFacts
    <3>2. CASE i = k
      BY <1>5, <1>7, <3>1, <3>2
    <3>3. CASE i # k
      <4>1. threads'[i].at = "none" <=> i >= k
        BY <1>1, <1>5, <3>3 DEF InCall
      <4> QED BY <1>7, <3>1, <3>3, <4>1, CoresFacts
    <3> QED BY <3>2, <3>3
  <2> QED BY <1>5, <1>7, <2>1 DEF InCall, T
<1>9. ASSUME NEW i \in Cores PROVE CoreFollows(i)'
  <2>1. ~ (main'.does = "joining" /\ i < main'.next)
    BY <1>7, CoresFacts
  <2>2. CASE i = k
    BY <1>3, <1>5, <1>6, <1>7, <2>1, <2>2 DEF CoreFollows
  <2>3. CASE i # k
    <3>1. CoreFollows(i) /\ threads'[i] = threads[i]
      BY <1>1, <1>5, <2>3
    <3> QED BY <1>3, <1>7, <2>1, <3>1 DEF CoreFollows
  <2> QED BY <2>2, <2>3
<1> QED BY <1>8, <1>9 DEF CallInv, CallTyped, InCall, CallFollows
\* Before the first thread exists, the call has changed nothing.
LEMMA NothingStarted ==
  ASSUME InCall, \A i \in Cores : CoreFollows(i), main.does = "creating",
         main.next = 0
  PROVE  \A i \in Cores : threads[i] = NoThread /\ spus[i] = main.before[i]
<1> SUFFICES ASSUME NEW i \in Cores
             PROVE  threads[i] = NoThread /\ spus[i] = main.before[i]
  OBVIOUS
<1>1. threads[i].at = "none"
  BY CoresFacts DEF InCall
<1> QED BY <1>1 DEF CoreFollows

LEMMA CreationFails ==
  ASSUME CallInv, ThreadNotCreated
  PROVE  CallInv'
<1>1. InCall /\ (\A i \in Cores : CoreFollows(i)) /\ main.does = "creating"
  BY InsideCall DEF ThreadNotCreated
<1>2. CASE main.next = 0
  <2>1. main' = NotInCall /\ threads' = threads
    BY <1>2 DEF ThreadNotCreated
  <2>2. threads \in [Cores -> [at : {"none", "new", "running", "done"},
                               left : 0 .. main.max]]
    BY <1>1 DEF InCall
  <2>3. threads = [i \in Cores |-> NoThread]
    BY <1>1, <1>2, <2>2, NothingStarted
  <2> QED BY <2>1, <2>3 DEF CallInv, CallTyped, CallFollows
<1>3. CASE main.next # 0
  <2>1. fate' = "terminated" /\ UNCHANGED <<main, threads>>
    BY <1>3 DEF ThreadNotCreated
  <2> QED BY <1>1, <2>1 DEF CallInv, CallTyped, InCall, CallFollows
<1> QED BY <1>2, <1>3

\* What a thread's step makes of its core.
LEMMA ThreadFollows ==
  ASSUME InCall, CoresTyped, NEW i \in Cores, CoreFollows(i), Thread(i),
         fate' = "alive"
  PROVE  CoreFollows(i)'
<1> DEFINE t == threads[i]
           b == main.before[i]
           T == [at : {"none", "new", "running", "done"}, left : 0 .. main.max]
<1>1. /\ main.max \in Nat /\ t.left \in 0 .. main.max /\ t.left \in Nat
      /\ main.does \in {"creating", "joining"}
  BY InCallFacts
<1>2. main' = main
  BY MoveOfThread
<1>3. ASSUME NEW at, NEW left, Moves(i, at, left)
      PROVE  threads'[i].at = at /\ threads'[i].left = left
  <2>1. threads \in [Cores -> T]
    BY DEF InCall
  <2> HIDE DEF T
  <2> QED BY <1>3, <2>1 DEF Moves
<1>4. t.at # "done" => ~ (main.does = "joining" /\ i < main.next)
  BY DEF CoreFollows
<1>5. CASE /\ t.at = "new" /\ ~ spus[i].halted /\ Moves(i, "running", t.left)
           /\ UNCHANGED <<spus, fate>>
  <2>1. spus[i] = b /\ t.left = main.max
    BY <1>5 DEF CoreFollows
  <2>2. spus[i] \in ExecuteBlock(b, 0) /\ main.max - main.max = 0
    BY <1>1, <2>1, BlockEquation
  <2> QED BY <1>2, <1>3, <1>4, <1>5, <2>1, <2>2 DEF CoreFollows
<1>6. CASE /\ t.at = "new" /\ spus[i].halted /\ Moves(i, "done", t.left)
           /\ UNCHANGED <<spus, fate>>
  <2>1. spus[i] = b
    BY <1>6 DEF CoreFollows
  <2>2. spus[i] \in ExecuteBlock(b, 0)
    BY <1>1, <2>1, BlockEquation
  <2>3. spus[i] \in ExecuteBlock(b, main.max)
    BY <1>1, <1>6, <2>2, BlockStays
  <2> QED BY <1>2, <1>3, <1>4, <1>6, <2>3 DEF CoreFollows
<1>7. CASE /\ ExecuteOne(i) /\ t.at = "running" /\ t.left > 0
           /\ Moves(i, "running", t.left - 1)
  <2>1. PICK c \in ExecuteInstruction(spus[i]) :
           c # Crash /\ spus' = [spus EXCEPT ![i] = c]
    BY <1>7 DEF ExecuteOne
  <2>2. spus[i] \in ExecuteBlock(b, main.max - t.left)
    BY <1>7 DEF CoreFollows
  <2>3. spus[i] # Crash
    BY CrashAssumption DEF CoresTyped
  <2>4. main.max - t.left \in Nat
    BY <1>1
  <2>5. c \in ExecuteBlock(b, (main.max - t.left) + 1)
    BY <2>1, <2>2, <2>3, <2>4, BlockGoesOn
  <2>6. main.max - (t.left - 1) = (main.max - t.left) + 1
    BY <1>1
  <2>7. spus'[i] = c
    BY <2>1 DEF CoresTyped
  <2> QED BY <1>2, <1>3, <1>4, <1>7, <2>5, <2>6, <2>7 DEF CoreFollows
<1>8. CASE /\ t.at = "running" /\ (t.left = 0 \/ spus[i].halted)
           /\ Moves(i, "done", t.left) /\ UNCHANGED <<spus, fate>>
  <2>1. spus[i] \in ExecuteBlock(b, main.max - t.left)
    BY <1>8 DEF CoreFollows
  <2>2. main.max - t.left \in Nat /\ main.max - t.left <= main.max
    BY <1>1
  <2>3. CASE t.left = 0
    <3>1. main.max - t.left = main.max
      BY <1>1, <2>3
    <3>2. spus[i] \in ExecuteBlock(b, main.max)
      BY <2>1, <3>1
    <3> QED BY <1>2, <1>3, <1>4, <1>8, <3>2 DEF CoreFollows
  <2>4. CASE spus[i].halted
    <3>1. spus[i] \in ExecuteBlock(b, main.max)
      BY <1>1, <2>1, <2>2, <2>4, BlockStays
    <3> QED BY <1>2, <1>3, <1>4, <1>8, <3>1 DEF CoreFollows
  <2> QED BY <1>8, <2>3, <2>4
<1> QED BY <1>5, <1>6, <1>7, <1>8, MoveOfThread

LEMMA ThreadMoves ==
  ASSUME CallInv, CoresTyped, NEW i \in Cores, Thread(i)
  PROVE  CallInv'
<1>1. fate = "alive" /\ threads[i].at \in {"new", "running"}
  BY DEF Thread, TestHalted, ExecuteOne, BlockEnds
<1>2. main # NotInCall
  <2>1. ASSUME main = NotInCall PROVE FALSE
    <3>1. threads = [j \in Cores |-> NoThread]
      BY <2>1, OutsideCall DEF CallInv
    <3> QED BY <1>1, <3>1 DEF NoThread
  <2> QED BY <2>1
<1>3. InCall /\ \A j \in Cores : CoreFollows(j)
  BY <1>1, <1>2, CallCases DEF CallInv, CallFollows
<1>4. threads[i].left \in 0 .. main.max /\ main.max \in Nat
  BY <1>3, InCallFacts
<1>5. main' = main
  BY <1>3, MoveOfThread
<1>6. PICK at \in {"new", "running", "done"}, left \in 0 .. main.max :
         Moves(i, at, left)
  BY <1>3, <1>4, MoveOfThread
<1>7. InCall'
  BY <1>1, <1>3, <1>5, <1>6, MoveKeepsInCall
<1>8. ASSUME fate' = "alive", NEW j \in Cores PROVE CoreFollows(j)'
  <2>1. CASE j = i
    BY <1>3, <1>8, <2>1, ThreadFollows
  <2>2. CASE j # i
    <3>1. threads'[j] = threads[j]
      BY <1>3, <1>6, <2>2 DEF Moves, InCall
    <3>2. spus'[j] = spus[j]
      BY <2>2 DEF CoresTyped, Thread, TestHalted, ExecuteOne, BlockEnds
    <3> QED BY <1>3, <1>5, <3>1, <3>2, CoreUnmoved
  <2> QED BY <2>1, <2>2
<1>9. CallTyped'
  BY <1>7 DEF CallTyped, InCall
<1>10. CallFollows'
  BY <1>8 DEF CallFollows
<1> QED BY <1>9, <1>10 DEF CallInv

LEMMA ThreadJoined ==
  ASSUME CallInv, JoinThread
  PROVE  CallInv'
<1>1. /\ InCall /\ \A i \in Cores : CoreFollows(i)
      /\ main.does = "joining" /\ threads[main.next].at = "done"
  BY InsideCall DEF JoinThread
<1>2. CASE LastThread
  <2>1. main' = NotInCall /\ threads' = [i \in Cores |-> NoThread]
    BY <1>2 DEF JoinThread
  <2> QED BY <2>1 DEF CallInv, CallTyped, CallFollows
<1>3. CASE ~ LastThread
  <2>1. /\ main' = [main EXCEPT !.next = main.next + 1]
        /\ UNCHANGED <<threads, spus, fate>>
    BY <1>3 DEF JoinThread, NextThread
  <2>2. main.next + 1 \in Cores
    BY <1>1, <1>3, InCallFacts, CoresFacts DEF LastThread
  <2>3. /\ main' \in [does : {"creating", "joining"}, next : Cores, max : Budgets,
                      before : [Cores -> Core]]
        /\ main'.does = main.does /\ main'.max = main.max
        /\ main'.before = main.before /\ main'.next = main.next + 1
    BY <1>1, <2>1, <2>2 DEF InCall
  <2>4. InCall'
    BY <1>1, <2>1, <2>3 DEF InCall
  <2>5. ASSUME NEW i \in Cores PROVE CoreFollows(i)'
    <3>1. i < main.next + 1 => i < main.next \/ i = main.next
      <4>1. i \in Nat /\ main.next \in Nat
        BY <1>1, InCallFacts, CoresFacts
      <4> QED BY <4>1
    <3>2. i < main.next + 1 => threads[i].at = "done"
      BY <1>1, <3>1 DEF CoreFollows
    <3> QED BY <1>1, <2>1, <2>3, <3>2 DEF CoreFollows
  <2> QED BY <2>4, <2>5 DEF CallInv, CallTyped, InCall, CallFollows
<1> QED BY <1>2, <1>3
-----------------------------------------------------------------------------
(***************************************************************************)
(* The inductive invariant and the theorem of types.                       *)
(***************************************************************************)
ManagerInv == ManagerTypeOK /\ CallFollows

LEMMA InvInitially == ManagerInit => ManagerInv
BY TypeInitially DEF ManagerInv, ManagerInit, CallFollows

LEMMA InvNext == ManagerInv /\ [ManagerNext]_managerVars => ManagerInv'
<1> SUFFICES ASSUME ManagerInv, [ManagerNext]_managerVars PROVE ManagerInv'
  OBVIOUS
<1>1. ManagerTypeOK /\ CoresTyped /\ CallInv
  BY TypeParts DEF ManagerInv, CallInv
<1>2. CoresTyped' /\ FateTyped'
  BY <1>1, CoresStayTyped, FateStaysTyped
<1>3. CallInv'
  <2>1. CASE UNCHANGED <<main, threads, spus, fate>>
    BY <1>1, <2>1 DEF CallInv, CallTyped, CallFollows, CoreFollows
  <2>2. CASE Idle /\ UNCHANGED <<main, threads>>
    BY <1>1, <2>2, IdleKeepsCallInv DEF Idle
  <2>3. CASE \E max \in Budgets : ExecuteAllSPUsParallel(max)
    BY <1>1, <2>3, CallBegins
  <2>4. CASE MainThread
    BY <1>1, <2>4, ThreadCreated, CreationFails, ThreadJoined DEF MainThread
  <2>5. CASE \E i \in Cores : Thread(i)
    BY <1>1, <2>5, ThreadMoves
  <2>6. CASE Host
    BY <2>2, <2>3, <2>6 DEF Host, HostProgram, HostReset, ExecuteAllSPUs
  <2> QED BY <2>1, <2>4, <2>5, <2>6 DEF ManagerNext, managerVars
<1>4. ManagerTypeOK'
  BY <1>2, <1>3, TypeParts DEF ManagerTypeOK, CoresTyped, FateTyped, CallTyped, CallInv
<1> QED BY <1>3, <1>4 DEF ManagerInv, CallInv

LEMMA InvAlways == ManagerSpec => []ManagerInv
BY InvInitially, InvNext, PTL DEF ManagerSpec

\* Every core is one the code can have, a thread runs only inside a call and
\* never counts past its budget (SPUManager.cpp:45), for every number of cores.
THEOREM ManagerTyped == ManagerSpec => []ManagerTypeOK
BY InvAlways, PTL DEF ManagerInv
-----------------------------------------------------------------------------
(***************************************************************************)
(* The refinement: executeAllSPUsParallel is a call that takes every core  *)
(* through the instructions it would execute alone.                        *)
(***************************************************************************)
LEMMA SameBlocks ==
  ASSUME NEW c, NEW max
  PROVE  Sequential!ExecuteBlock(c, max) = ExecuteBlock(c, max)
BY DEF Sequential!ExecuteBlock, ExecuteBlock, Sequential!ExecuteInstruction,
       ExecuteInstruction, Sequential!Fetched, Fetched, Sequential!Word, Word,
       Sequential!Executed, Executed, Sequential!BranchTarget, BranchTarget,
       Sequential!IgnoredOps, IgnoredOps, Sequential!RegisterOps, RegisterOps,
       Sequential!ArithmeticOps, ArithmeticOps, Sequential!LogicalOps, LogicalOps,
       Sequential!LoadOps, LoadOps, Sequential!ImmediateOps, ImmediateOps
\* The cores as the caller of the manager sees them.
Seen == IF main = NotInCall THEN spus ELSE main.before

Stutter == UNCHANGED <<Seen, fate>>

LEMMA SeenInitially ==
  ManagerInit => fate = "alive" /\ Seen \in [Cores -> Sequential!NewCores]
<1>1. Sequential!NewCores = NewCores
  BY DEF Sequential!NewCores, NewCores, Sequential!ResetCore, ResetCore,
         Sequential!Cells, Cells, Sequential!FewCells, FewCells
<1> QED BY <1>1 DEF ManagerInit, Seen

LEMMA HostIsSequential ==
  ASSUME ManagerInv, Host
  PROVE  Sequential!Next \/ Stutter
<1>1. spus \in [Cores -> Core] /\ main = NotInCall /\ fate = "alive" /\ Seen = spus
  BY TypeParts DEF ManagerInv, CoresTyped, Host, HostProgram, HostReset,
     ExecuteAllSPUs, ExecuteAllSPUsParallel, Idle, Seen
<1>2. ASSUME NEW i \in Cores, (\E p \in Programs : HostProgram(i, p)) \/ HostReset(i)
      PROVE  Sequential!HostCall
  <2>1. Seen' = spus' /\ fate' = fate
    BY <1>1, <1>2 DEF HostProgram, HostReset, Seen
  <2>2. \A j \in Cores \ {i} : spus'[j] = spus[j]
    BY <1>1, <1>2 DEF HostProgram, HostReset
  <2> QED BY <1>1, <2>1, <2>2 DEF Sequential!HostCall, Seen
<1>3. ASSUME NEW max \in Budgets, ExecuteAllSPUs(max)
      PROVE  Sequential!Call(max) \/ Sequential!CallCrashes(max)
  <2>1. Seen' = spus'
    BY <1>1, <1>3 DEF ExecuteAllSPUs, Seen
  <2>2. CASE spus' \in AfterAll(max) /\ UNCHANGED fate
    <3>1. \A i \in Cores : Seen'[i] \in Sequential!ExecuteBlock(Seen[i], max) \ {Crash}
      BY <1>1, <2>1, <2>2, SameBlocks DEF AfterAll
    <3> QED BY <1>1, <2>2, <3>1 DEF Sequential!Call, Seen
  <2>3. CASE fate' = "crashed" /\ \E i \in Cores : Crash \in ExecuteBlock(spus[i], max)
    <3>1. \E i \in Cores : Crash \in Sequential!ExecuteBlock(Seen[i], max)
      BY <1>1, <2>3, SameBlocks
    <3> QED BY <1>1, <2>3, <3>1 DEF Sequential!CallCrashes, Seen
  <2> QED BY <1>3, <2>2, <2>3 DEF ExecuteAllSPUs
<1>4. ASSUME NEW max \in Budgets, ExecuteAllSPUsParallel(max) PROVE Stutter
  <2>1. /\ main' = [does |-> "creating", next |-> 0, max |-> max, before |-> spus]
        /\ fate' = fate
    BY <1>4 DEF ExecuteAllSPUsParallel
  <2>2. main' # NotInCall /\ main'.before = spus
    BY <2>1, NotInCallFacts
  <2> QED BY <1>1, <2>1, <2>2 DEF Stutter, Seen
<1> QED BY <1>2, <1>3, <1>4 DEF Host, Sequential!Next

LEMMA InsideIsSequential ==
  ASSUME ManagerInv, MainThread \/ \E i \in Cores : Thread(i)
  PROVE  Sequential!Next \/ Stutter
<1>1. CallInv /\ CallInv' /\ CoresTyped /\ CoresTyped' /\ fate = "alive"
  <2>1. [ManagerNext]_managerVars
    BY DEF ManagerNext
  <2>2. ManagerInv'
    BY <2>1, InvNext
  <2>3. ManagerTypeOK'
    BY <2>2 DEF ManagerInv
  <2>4. CoresTyped' /\ CallInv'
    BY <2>2, <2>3 DEF ManagerTypeOK, CoresTyped, CallTyped, ManagerInv, CallInv
  <2> QED BY <2>4, TypeParts DEF ManagerInv, CallInv, MainThread, CreateThread,
          ThreadNotCreated, JoinThread, Thread, TestHalted, ExecuteOne, BlockEnds
<1>2. main # NotInCall
  <2>1. CASE MainThread
    BY <2>1, NotInCallFacts, NotInCallDoes DEF MainThread, CreateThread,
       ThreadNotCreated, JoinThread
  <2>2. ASSUME NEW i \in Cores, Thread(i), main = NotInCall PROVE FALSE
    <3>1. threads = [j \in Cores |-> NoThread]
      BY <1>1, <2>2, OutsideCall DEF CallInv
    <3> QED BY <2>2, <3>1 DEF NoThread, Thread, TestHalted, ExecuteOne, BlockEnds
  <2> QED BY <2>1, <2>2
<1>3. InCall /\ \A i \in Cores : CoreFollows(i)
  BY <1>1, <1>2, CallCases DEF CallInv, CallFollows
<1>4. /\ Seen = main.before /\ main.max \in Nat /\ main.max \in Budgets
      /\ main.next \in Cores
  BY <1>2, <1>3, InCallFacts DEF Seen
<1>5. ASSUME main' # NotInCall, main'.before = main.before, fate' = fate
      PROVE  Stutter
  BY <1>4, <1>5 DEF Stutter, Seen
<1>6. CASE CreateThread
  <2>1. main' = [main EXCEPT !.does = "joining", !.next = 0]
          \/ main' = [main EXCEPT !.next = main.next + 1]
    BY <1>6 DEF CreateThread, NextThread
  <2>2. main'.does \in {"creating", "joining"} /\ main'.before = main.before
    BY <1>3, <2>1 DEF InCall
  <2>3. main' # NotInCall
    BY <2>2, NotInCallFacts
  <2> QED BY <1>5, <1>6, <2>2, <2>3 DEF CreateThread
<1>7. CASE ThreadNotCreated
  <2>1. CASE main.next = 0
    <3>1. main' = NotInCall /\ spus' = spus /\ fate' = fate /\ main.does = "creating"
      BY <1>7, <2>1 DEF ThreadNotCreated
    <3>2. \A i \in Cores : spus[i] = main.before[i]
      BY <1>3, <2>1, <3>1, NothingStarted
    <3>3. spus = main.before
      BY <1>1, <1>3, <3>2, InCallFacts DEF CoresTyped
    <3> QED BY <1>4, <3>1, <3>3 DEF Stutter, Seen
  <2>2. CASE main.next # 0
    <3>1. fate' = "terminated"
      BY <1>7, <2>2 DEF ThreadNotCreated
    <3> QED BY <1>1, <3>1 DEF Sequential!Next, Sequential!OutOfThreads
  <2> QED BY <2>1, <2>2
<1>8. CASE JoinThread
  <2>1. CASE LastThread
    <3>1. /\ main' = NotInCall /\ spus' = spus /\ fate' = fate
          /\ main.does = "joining" /\ threads[main.next].at = "done"
          /\ main.next = NumCores - 1
      BY <1>8, <2>1 DEF JoinThread, LastThread
    <3>2. ASSUME NEW i \in Cores
          PROVE  Seen'[i] \in Sequential!ExecuteBlock(Seen[i], main.max) \ {Crash}
      <4>1. i < main.next \/ i = main.next
        BY <3>1, CoresFacts
      <4>2. threads[i].at = "done"
        BY <1>3, <3>1, <4>1 DEF CoreFollows
      <4>3. spus[i] \in ExecuteBlock(main.before[i], main.max)
        BY <1>3, <4>2 DEF CoreFollows
      <4>4. spus[i] # Crash
        BY <1>1, CrashAssumption DEF CoresTyped
      <4>5. Seen' = spus
        BY <3>1 DEF Seen
      <4> QED BY <1>4, <4>3, <4>4, <4>5, SameBlocks
    <3>3. Sequential!Call(main.max)
      BY <1>1, <3>1, <3>2 DEF Sequential!Call, Seen
    <3> QED BY <1>4, <3>3 DEF Sequential!Next
  <2>2. CASE ~ LastThread
    <3>1. main' = [main EXCEPT !.next = main.next + 1] /\ fate' = fate
      BY <1>8, <2>2 DEF JoinThread, NextThread
    <3>2. main'.does \in {"creating", "joining"} /\ main'.before = main.before
      BY <1>3, <3>1 DEF InCall
    <3>3. main' # NotInCall
      BY <3>2, NotInCallFacts
    <3> QED BY <1>5, <3>1, <3>2, <3>3
  <2> QED BY <2>1, <2>2
<1>9. ASSUME NEW i \in Cores, Thread(i) PROVE Sequential!Next \/ Stutter
  <2>1. main' = main
    BY <1>3, <1>9, MoveOfThread
  <2>2. CASE fate' = fate
    BY <1>2, <1>5, <2>1, <2>2
  <2>3. CASE fate' # fate
    <3>1. /\ ExecuteOne(i) /\ fate' = "crashed"
          /\ Crash \in ExecuteInstruction(spus[i])
      BY <1>9, <2>3 DEF Thread, TestHalted, ExecuteOne, BlockEnds
    <3>2. /\ spus[i] \in ExecuteBlock(main.before[i], main.max - threads[i].left)
          /\ threads[i].left > 0 /\ threads[i].left \in 0 .. main.max
          /\ spus[i] # Crash
      BY <1>1, <1>3, <3>1, InCallFacts, CrashAssumption
         DEF ExecuteOne, CoreFollows, CoresTyped
    <3> DEFINE n == main.max - threads[i].left
    <3>3. n \in Nat /\ n + 1 \in Nat /\ n + 1 <= main.max
      BY <1>4, <3>2
    <3> HIDE DEF n
    <3>4. Crash \in ExecuteBlock(main.before[i], n + 1)
      BY <3>1, <3>2, <3>3, BlockGoesOn DEF n
    <3>5. Crash \in ExecuteBlock(main.before[i], main.max)
      BY <1>4, <3>3, <3>4, BlockStays
    <3>6. Sequential!CallCrashes(main.max)
      BY <1>1, <1>4, <3>1, <3>5, SameBlocks DEF Sequential!CallCrashes, Seen
    <3> QED BY <1>4, <3>6 DEF Sequential!Next
  <2> QED BY <2>2, <2>3
<1> QED BY <1>6, <1>7, <1>8, <1>9 DEF MainThread

LEMMA NextIsSequential ==
  ManagerInv /\ [ManagerNext]_managerVars => [Sequential!Next]_<<Seen, fate>>
<1> SUFFICES ASSUME ManagerInv, [ManagerNext]_managerVars
             PROVE  Sequential!Next \/ Stutter
  BY DEF Stutter
<1>1. CASE UNCHANGED managerVars
  BY <1>1 DEF managerVars, Stutter, Seen
<1> QED BY <1>1, HostIsSequential, InsideIsSequential DEF ManagerNext

\* The threads of executeAllSPUsParallel (SPUManager.cpp:45) leave every core
\* as running one after the other would: for every number of cores and threads
\* scheduled in every order, a call is one step of SPUCores.
THEOREM ParallelRunsAreSequential == ManagerSpec => ParallelIsSequential
<1>1. (fate = "alive" /\ Seen \in [Cores -> Sequential!NewCores])
        /\ [][Sequential!Next]_<<Seen, fate>> => ParallelIsSequential
  BY DEF ParallelIsSequential, Sequential!Spec, Seen
<1> QED BY <1>1, SeenInitially, NextIsSequential, InvAlways, PTL DEF ManagerSpec
=============================================================================
