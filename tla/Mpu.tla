-------------------------------- MODULE Mpu --------------------------------
(* The regions that mpu.c opens to unprivileged code, in words of four     *)
(* bytes: powers of two of at least 8 words, aligned to their size.        *)
(* mpu_region_from_range_strict is a wrong version, kept for its mutant.   *)
EXTENDS Integers

region_size[k \in 0 .. 27] == IF k = 0 THEN 8 ELSE 2 * region_size[k - 1]

(* start & ~(size - 1)                                                     *)
region_base(start, k) == start - (start % region_size[k])

mpu_region_from_range_strict(start, end) ==
    LET reaches(k) == region_base(start, k) + region_size[k] > end
        k == CHOOSE k \in 0 .. 27 : reaches(k) /\ \A j \in 0 .. k - 1 : ~reaches(j)
    IN  region_base(start, k) .. region_base(start, k) + region_size[k] - 1

(* The loop doubles the size, and aligns the base anew, until the region   *)
(* reaches the end.                                                        *)
mpu_region_from_range(start, end) ==
    LET reaches(k) == region_base(start, k) + region_size[k] >= end
        k == CHOOSE k \in 0 .. 27 : reaches(k) /\ \A j \in 0 .. k - 1 : ~reaches(j)
    IN  region_base(start, k) .. region_base(start, k) + region_size[k] - 1
=============================================================================
