----------------------------- MODULE SPUManager -----------------------------
(***************************************************************************)
(* SPUManager: executeAllSPUs runs the cores one after the other,          *)
(* executeAllSPUsParallel starts a thread for each and joins them all.     *)
(* Every step of a thread is a step of the model.  Between calls the host  *)
(* sets PCs, writes local stores and resets cores.                         *)
(***************************************************************************)
EXTENDS SPUInterpreter

CONSTANTS
    NumCores,    \* 6
    Budgets,     \* bound: the values of maxInstructions
    Programs,    \* bound: [pc, words]: what the host writes into a core
    MaxHostCalls \* bound: programs and resets of the host

Cores == 0 .. (NumCores - 1)

ASSUME ManagerAssumption ==
    /\ NumCores \in Nat \ {0} /\ Budgets \subseteq Nat /\ MaxHostCalls \in Nat
    /\ \A p \in Programs : /\ p.pc \in 0 .. (PCLimit - 1)
                           /\ p.words \in [DOMAIN p.words -> Word]

VARIABLES
    spus,       \* spus_
    fate,       \* "alive", "crashed" or "terminated" (std::terminate)
    main,       \* the caller inside executeAllSPUsParallel: what it does, the
                \* number of the next thread it does it to, maxInstructions, and
                \* as a history the cores when the call began
    threads,    \* what the threads of the running call do
    hostCalls   \* counts what MaxHostCalls bounds

managerVars == <<spus, fate, main, threads, hostCalls>>

NotInCall == [does |-> "nothing"]
NoThread  == [at |-> "none", left |-> 0]

ManagerInit ==
    /\ spus \in [Cores -> NewCores]
    /\ fate = "alive" /\ main = NotInCall
    /\ threads = [i \in Cores |-> NoThread]
    /\ hostCalls = 0

Idle == fate = "alive" /\ main = NotInCall
-----------------------------------------------------------------------------
\* setPC and a program written through getLocalStore(); halted_ stays.
HostProgram(i, p) ==
    /\ Idle /\ hostCalls < MaxHostCalls
    /\ spus' = [spus EXCEPT
          ![i].pc = p.pc,
          ![i].store = [k \in DOMAIN @ |-> IF k \in DOMAIN p.words THEN p.words[k]
                                           ELSE @[k]]]
    /\ hostCalls' = hostCalls + 1
    /\ UNCHANGED <<fate, main, threads>>

HostReset(i) ==
    /\ Idle /\ hostCalls < MaxHostCalls
    /\ spus' = [spus EXCEPT ![i] = ResetCore(DOMAIN @.store)]
    /\ hostCalls' = hostCalls + 1
    /\ UNCHANGED <<fate, main, threads>>

AfterAll(max) ==
    {after \in [Cores -> UNION {ExecuteBlock(spus[i], max) : i \in Cores}] :
        \A i \in Cores : after[i] \in ExecuteBlock(spus[i], max) \ {Crash}}

\* Emulator::runFrame's call.  What the cores before a crash have done is lost
\* with the process.
ExecuteAllSPUs(max) ==
    /\ Idle
    /\ \/ /\ spus' \in AfterAll(max)
          /\ UNCHANGED fate
       \/ /\ \E i \in Cores : Crash \in ExecuteBlock(spus[i], max)
          /\ fate' = "crashed"
          /\ UNCHANGED spus
    /\ UNCHANGED <<main, threads, hostCalls>>
-----------------------------------------------------------------------------
ExecuteAllSPUsParallel(max) ==
    /\ Idle
    /\ main' = [does |-> "creating", next |-> 0, max |-> max, before |-> spus]
    /\ UNCHANGED <<spus, fate, threads, hostCalls>>

LastThread == main.next = NumCores - 1
NextThread == main' = [main EXCEPT !.next = @ + 1]

CreateThread ==
    /\ fate = "alive" /\ main.does = "creating"
    /\ threads' = [threads EXCEPT ![main.next] = [at |-> "new", left |-> main.max]]
    /\ IF LastThread THEN main' = [main EXCEPT !.does = "joining", !.next = 0]
                     ELSE NextThread
    /\ UNCHANGED <<spus, fate, hostCalls>>

\* Mutant: the exception is caught and the call left, with threads running.
LeaveOnException ==
    /\ fate = "alive" /\ main.does = "creating"
    /\ main' = NotInCall
    /\ UNCHANGED <<spus, fate, threads, hostCalls>>

\* std::thread throws: the array is destroyed, and a joinable thread in it ends
\* the process.  Without one the exception just leaves the call.
ThreadNotCreated ==
    /\ fate = "alive" /\ main.does = "creating"
    /\ IF main.next = 0 THEN main' = NotInCall /\ UNCHANGED fate
                        ELSE fate' = "terminated" /\ UNCHANGED main
    /\ UNCHANGED <<spus, threads, hostCalls>>

\* A thread looks at isHalted() before it runs its core.
TestHalted(i) ==
    /\ fate = "alive" /\ threads[i].at = "new"
    /\ threads' = [threads EXCEPT
          ![i].at = IF spus[i].halted THEN "done" ELSE "running"]
    /\ UNCHANGED <<spus, fate, main, hostCalls>>

\* Mutant: the loop counter of executeBlock does not count.
ExecuteUntilHalted(i) ==
    /\ fate = "alive" /\ threads[i].at = "running"
    /\ threads[i].left > 0 /\ ~spus[i].halted
    /\ \E c \in ExecuteInstruction(spus[i]) :
          IF c = Crash THEN fate' = "crashed" /\ UNCHANGED spus
                       ELSE spus' = [spus EXCEPT ![i] = c] /\ UNCHANGED fate
    /\ UNCHANGED <<main, threads, hostCalls>>

\* One pass of the loop in executeBlock.
ExecuteOne(i) ==
    /\ fate = "alive" /\ threads[i].at = "running"
    /\ threads[i].left > 0 /\ ~spus[i].halted
    /\ threads' = [threads EXCEPT ![i].left = @ - 1]
    /\ \E c \in ExecuteInstruction(spus[i]) :
          IF c = Crash THEN fate' = "crashed" /\ UNCHANGED spus
                       ELSE spus' = [spus EXCEPT ![i] = c] /\ UNCHANGED fate
    /\ UNCHANGED <<main, hostCalls>>

BlockEnds(i) ==
    /\ fate = "alive" /\ threads[i].at = "running"
    /\ threads[i].left = 0 \/ spus[i].halted
    /\ threads' = [threads EXCEPT ![i].at = "done"]
    /\ UNCHANGED <<spus, fate, main, hostCalls>>

\* Mutant: the threads are detached.
DetachThread ==
    /\ fate = "alive" /\ main.does = "joining"
    /\ IF LastThread THEN main' = NotInCall ELSE NextThread
    /\ UNCHANGED threads
    /\ UNCHANGED <<spus, fate, hostCalls>>

\* join(), in the order of the cores.
JoinThread ==
    /\ fate = "alive" /\ main.does = "joining" /\ threads[main.next].at = "done"
    /\ IF LastThread
       THEN main' = NotInCall /\ threads' = [i \in Cores |-> NoThread]
       ELSE NextThread /\ UNCHANGED threads
    /\ UNCHANGED <<spus, fate, hostCalls>>

MainThread == CreateThread \/ ThreadNotCreated \/ JoinThread
Thread(i)  == TestHalted(i) \/ ExecuteOne(i) \/ BlockEnds(i)
Host       == \/ \E i \in Cores : \/ \E p \in Programs : HostProgram(i, p)
                                  \/ HostReset(i)
              \/ \E max \in Budgets : \/ ExecuteAllSPUs(max)
                                      \/ ExecuteAllSPUsParallel(max)

ManagerNext == MainThread \/ Host \/ \E i \in Cores : Thread(i)

ManagerSpec == ManagerInit /\ [][ManagerNext]_managerVars

\* Threads are scheduled; nothing makes the host call again.
ManagerFairSpec ==
    /\ ManagerSpec /\ WF_managerVars(MainThread)
    /\ \A i \in Cores : WF_managerVars(Thread(i))
-----------------------------------------------------------------------------
(***************************************************************************)
(* Properties.                                                             *)
(***************************************************************************)
\* The type of the state; a thread runs only inside a call and within its budget.
ManagerTypeOK ==
    /\ spus \in [Cores -> Core]
    /\ fate \in {"alive", "crashed", "terminated"}
    /\ hostCalls \in 0 .. MaxHostCalls
    /\ \/ main = NotInCall /\ threads = [i \in Cores |-> NoThread]
       \/ /\ main \in [does : {"creating", "joining"}, next : Cores, max : Budgets,
                       before : [Cores -> Core]]
          /\ threads \in [Cores -> [at : {"none", "new", "running", "done"},
                                    left : 0 .. main.max]]
          /\ \A i \in Cores :
                threads[i].at = "none" <=> main.does = "creating" /\ i >= main.next

Sequential == INSTANCE SPUCores WITH
    spus <- IF main = NotInCall THEN spus ELSE main.before

\* The threads of executeAllSPUsParallel (SPUManager.cpp:45) leave every core as
\* one after the other would have: each ran by one thread, for the same
\* number of instructions, and all were done when the call returned - whatever
\* the order in which they were created, scheduled and joined.
ParallelIsSequential == Sequential!Spec

\* A call returns, also for a core that branches to itself or whose PC has left its
\* local store, or the process ends.
CallsReturn == (main # NotInCall) ~> (main = NotInCall \/ fate # "alive")

\* A thread fetches inside its core's local store, also in the smaller one that
\* init() takes "if 256KB fails" (SPUInterpreter.cpp:19).  The code tests the PC
\* against the size of the larger one.
FetchesStayInStore ==
    \A i \in Cores :
       /\ fate = "alive" /\ threads[i].at = "running" /\ threads[i].left > 0
       /\ ~spus[i].halted /\ spus[i].pc < StoreSize
       => spus[i].pc \in DOMAIN spus[i].store
=============================================================================
