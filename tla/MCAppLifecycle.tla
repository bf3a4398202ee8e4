--------------------------- MODULE MCAppLifecycle ---------------------------
(* Instances of an activity, and loader threads, are interchangeable: the    *)
(* runs of the findings use that, the run with liveness properties does not. *)
EXTENDS AppLifecycle, TLC

Symmetry == Permutations(Activities) \cup Permutations(Threads)

\* No load has lost its emulator: the run of RunningGameIsLoaded does not need
\* what a deleted emulator may answer.
NoDanglingLoad == \A t \in Threads : loads[t].target # "dangling"
=============================================================================
