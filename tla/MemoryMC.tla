------------------------------ MODULE MemoryMC ------------------------------
(* The three block sizes of memory.c with fewer blocks of each; requests   *)
(* on both sides of every boundary.  Message buffers are of the second.    *)
EXTENDS MessageBoxes

SmallPools == <<[size |-> 16, num |-> 2], [size |-> 32, num |-> 3], [size |-> 64, num |-> 1]>>
Asked      == {-1, 8, 9, 24, 25, 57}

Interchangeable == Permutations(Boxes) \cup Permutations(Threads)
=============================================================================
