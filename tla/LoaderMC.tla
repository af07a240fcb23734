------------------------------ MODULE LoaderMC ------------------------------
(* Files as the linker makes them: one linked below app RAM, one above it  *)
(* (the distance it is moved by wraps), one for the address where app RAM  *)
(* begins, and one of two segments with a third that is empty.  A pointer  *)
(* to the end of the image, a fixed address, and an entry of a debug       *)
(* section that names a word in RAM are among them.                        *)
EXTENDS Loader

Pointer(n)  == [kind |-> "pointer", n |-> n]
Distance(n) == [kind |-> "distance", n |-> n]
Number(n)   == [kind |-> "number", n |-> n]

Segment(vaddr, words, memsz, align) ==
    [vaddr |-> vaddr, words |-> words, memsz |-> memsz, align |-> align]

Entry(offset, type, alloc) == [offset |-> offset, type |-> type, alloc |-> alloc]

Low ==
    [segments    |-> <<Segment(2, <<Pointer(3), Distance(0), Number(3)>>, 3, 1)>>,
     entry       |-> 2,
     relocations |-> {Entry(2, "ABS32", TRUE), Entry(3, "REL32", TRUE), Entry(4, "ABS32", FALSE)}]

High ==
    [segments    |-> <<Segment(29, <<Pointer(0), Number(5)>>, 2, 1)>>,
     entry       |-> 29,
     relocations |-> {Entry(29, "ABS32", TRUE), Entry(30, "ABS32", TRUE)}]

Home ==
    [segments    |-> <<Segment(16, <<Pointer(0)>>, 1, 1)>>,
     entry       |-> 16,
     relocations |-> {Entry(16, "ABS32", TRUE), Entry(16, "other", TRUE)}]

Two ==
    [segments    |-> <<Segment(6, <<Pointer(0)>>, 2, 1), Segment(9, <<>>, 0, 1),
                       Segment(4, <<Pointer(2), Number(9)>>, 2, 4)>>,
     entry       |-> 5,
     relocations |-> {Entry(6, "ABS32", TRUE), Entry(4, "ABS32", TRUE), Entry(0, "NONE", TRUE)}]

Card    == {Low, High, Home, Two}
Slots   == {1, 2}
=============================================================================
