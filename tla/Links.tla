-------------------------------- MODULE Links --------------------------------
(* Lists threaded through their elements, as the kernel's C code keeps     *)
(* them: a pointer to the first element, in each element a pointer to the  *)
(* next, and NULL behind the last.                                         *)
EXTENDS Integers, FiniteSets

CONSTANT NULL

(* The elements met from first along next; more than bound + 1 of them     *)
(* show a cycle.                                                           *)
Chain(first, next, bound) ==
    LET node[n \in 0 .. bound] ==
            IF n = 0 THEN first
            ELSE IF node[n - 1] = NULL THEN NULL ELSE next[node[n - 1]]
        length == Cardinality({n \in DOMAIN node : node[n] # NULL})
    IN  [i \in 1 .. length |-> node[i - 1]]
=============================================================================
