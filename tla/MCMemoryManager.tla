-------------------------- MODULE MCMemoryManager --------------------------
(* A small address space that keeps the geometry of the real one: main RAM   *)
(* starts inside chunk 0, ends inside another chunk, and is longer than a    *)
(* chunk; there is a chunk above it and a last chunk whose end wraps to 0.   *)
EXTENDS MemoryManager

\* One segment above main RAM that starts a chunk and is shorter than it, one
\* that ends against main RAM, and one that strictly contains main RAM.
MCSegments ==
    {[vaddr |-> 6, size |-> 1, flags |-> {"R"}],
     [vaddr |-> 0, size |-> 1, flags |-> {"R", "W"}],
     [vaddr |-> 0, size |-> 7, flags |-> {"R", "X"}]}

\* After an undefined access FlatMemory promises nothing more: the refinement
\* run does not look beyond it.
StillDefined == ~wild

\* unmaps only labels the steps FlatMemory sees; states that differ in nothing
\* else have the same steps and are explored once.
WithoutLabel == <<regions, initialized, wild>>
=============================================================================
