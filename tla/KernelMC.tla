------------------------------ MODULE KernelMC ------------------------------
(* Small instances of the kernel: three slots, two or three priorities.    *)
EXTENDS KernelThreads, TLC

CONSTANTS b1, b2, d1

Boxes   == {b1, b2}
Box     == {b1}
Payload == {d1}

SizesAny  == {0, 1}
SizesGood == {1}

Interchangeable == Permutations(Boxes)
=============================================================================
