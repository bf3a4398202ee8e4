------------------------------ MODULE SPUCores ------------------------------
(***************************************************************************)
(* What SPUManager promises, whichever of its two ways of running the      *)
(* cores is called: a call takes every core through the instructions it    *)
(* would execute alone, or the process ends.                               *)
(***************************************************************************)
EXTENDS SPUInterpreter

CONSTANTS Cores,     \* the core numbers
          Budgets    \* bound: the values of maxInstructions

VARIABLES spus,      \* spus_
          fate       \* "alive", "crashed" or "terminated"

\* Between calls the host changes one core through its interface.
HostCall == /\ fate = "alive" /\ UNCHANGED fate
            /\ \E i \in Cores : \A j \in Cores \ {i} : spus'[j] = spus[j]

Call(max) ==
    /\ fate = "alive" /\ UNCHANGED fate
    /\ \A i \in Cores : spus'[i] \in ExecuteBlock(spus[i], max) \ {Crash}

\* A core meets an instruction that ends the process.
CallCrashes(max) ==
    /\ fate = "alive" /\ fate' = "crashed"
    /\ \E i \in Cores : Crash \in ExecuteBlock(spus[i], max)

\* A thread cannot be created: std::thread throws.
OutOfThreads == fate = "alive" /\ fate' = "terminated"

Next == \/ HostCall \/ OutOfThreads
        \/ \E max \in Budgets : Call(max) \/ CallCrashes(max)

Spec == /\ fate = "alive" /\ spus \in [Cores -> NewCores]
        /\ [][Next]_<<spus, fate>>
=============================================================================
