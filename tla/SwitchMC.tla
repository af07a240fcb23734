------------------------------ MODULE SwitchMC ------------------------------
(* Three slots; room for two kernel stacks of the smallest size the code *)
(* accepts and for two of apps.                                            *)
EXTENDS Switch

L == INSTANCE ReadyList WITH Threads <- 1 .. 4

(* readyque_remove takes a thread from the front, the middle or the end of *)
(* a queue of up to four, and the next thread is linked behind the rest.   *)
ASSUME RemovesAnywhere ==
    \A q \in UNION {SetToSeqs(S) : S \in SUBSET (1 .. 4)}, t \in 1 .. 4 :
        LET list == FoldLeft(LAMBDA s, u : L!putcurrent(s, u, 0), L!Empty, q)
            cut  == L!readyque_remove(list, t, 0)
            rest == SelectSeq(q, LAMBDA u : u # t)
        IN  /\ L!Linked(cut, 0) = rest
            /\ L!Linked(L!putcurrent(cut, t, 0), 0) = Append(rest, t)

Slots  == 0 .. 2
Levels == 0 .. 1
Kernel64 == [first |-> 0, end |-> 64]
Apps64   == [first |-> 64, end |-> 128]

Call(by, type, param) == [by |-> by, type |-> type, param |-> param]

Made ==
    {Call("main", "run", 1), Call("main", "run_app", 1), Call("main", "chpri", 1),
     Call("run", "setintr", 0), Call("run", "sleep", 0),
     Call("run_app", "exit", 0), Call("run_app", "sleep", 0)}
    \cup {Call("run", type, t) : type \in {"wakeup", "kill"}, t \in {1, 2}}
=============================================================================
