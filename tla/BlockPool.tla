------------------------------ MODULE BlockPool ------------------------------
(* The allocator as its users see it: so many blocks left of each size; a  *)
(* request takes one of the smallest size that holds it, and the system    *)
(* stops exactly when there is none of that size left or no such size.     *)
EXTENDS Integers

CONSTANTS Capacity,     \* kind of block -> how many there are
          Usable,       \* kind of block -> bytes a user gets
          Requests

VARIABLES
    left,       \* kind of block -> how many are left
    asked,      \* size -> how many blocks asked for at that size are out
    stopped

Kinds == DOMAIN Capacity

Holding(size) == {i \in Kinds : 0 <= size /\ size <= Usable[i]}

Smallest(size) == {i \in Holding(size) : \A j \in Holding(size) : Usable[i] <= Usable[j]}

Stop(why) == stopped' = why /\ UNCHANGED <<left, asked>>

Alloc(size) ==
    \/ Holding(size) = {} /\ Stop("no pool")
    \/ \E i \in Smallest(size) :
        \/ /\ left[i] > 0
           /\ left' = [left EXCEPT ![i] = @ - 1]
           /\ asked' = [asked EXCEPT ![size] = @ + 1]
           /\ UNCHANGED stopped
        \/ left[i] = 0 /\ Stop("empty pool")

Free(size) ==
    \E i \in Smallest(size) :
        /\ asked[size] > 0
        /\ left' = [left EXCEPT ![i] = @ + 1]
        /\ asked' = [asked EXCEPT ![size] = @ - 1]
        /\ UNCHANGED stopped

Init == left = Capacity /\ asked = [size \in Requests |-> 0] /\ stopped = "no"

Next == stopped = "no" /\ \E size \in Requests : Alloc(size) \/ Free(size)

Spec == Init /\ [][Next]_<<left, asked, stopped>>
=============================================================================
