------------------------------- MODULE Sched -------------------------------
(***************************************************************************)
(* The ready queues of kernel.c.  A value s of the queues is a record:     *)
(*   s.q      for each priority, the threads linked from readyque[p].head, *)
(*   s.ready  the threads whose flags hold PICOX_THREAD_FLAG_READY.        *)
(* The code keeps the two in different places (links and flag words), so   *)
(* they are two fields here, and their agreement is something to prove.    *)
(* Threads are the indices of the array threads[]; NULL is the null        *)
(* pointer.  ReadyList.tla is the same code with its pointers.             *)
(*                                                                         *)
(* Definitions named <function>_<fault> are wrong versions of a function,  *)
(* kept to show which property notices the fault.                          *)
(***************************************************************************)
EXTENDS Integers, SequencesExt

CONSTANT NULL

Position(q, t) == CHOOSE i \in DOMAIN q : q[i] = t

(* Take t, the caller, off its queue: the head becomes t's successor, so   *)
(* whatever was linked before t is dropped with it.                        *)
getcurrent(s, t, p) ==
    IF t = NULL \/ t \notin s.ready
    THEN s
    ELSE [q     |-> [s.q EXCEPT ![p] = SubSeq(@, Position(@, t) + 1, Len(@))],
          ready |-> s.ready \ {t}]

putcurrent_at_head(s, t, p) ==
    IF t = NULL \/ t \in s.ready
    THEN s
    ELSE [q     |-> [s.q EXCEPT ![p] = <<t>> \o @],
          ready |-> s.ready \cup {t}]

(* Link t at the tail of its queue unless its flag says it is queued.      *)
putcurrent(s, t, p) ==
    IF t = NULL \/ t \in s.ready
    THEN s
    ELSE [q     |-> [s.q EXCEPT ![p] = Append(@, t)],
          ready |-> s.ready \cup {t}]

readyque_remove_keeps_links(s, t, p) ==
    IF t \in ToSet(s.q[p])
    THEN [s EXCEPT !.ready = @ \ {t}]
    ELSE s

(* Unlink t wherever it stands in the queue of its priority.               *)
readyque_remove(s, t, p) ==
    IF t \in ToSet(s.q[p])
    THEN [q     |-> [s.q EXCEPT ![p] = RemoveAt(@, Position(@, t))],
          ready |-> s.ready \ {t}]
    ELSE s

Idle(s) == \A p \in DOMAIN s.q : s.q[p] = <<>>

TopPriority(s) ==
    CHOOSE p \in DOMAIN s.q :
        s.q[p] # <<>> /\ \A o \in DOMAIN s.q : s.q[o] # <<>> => p <= o

first_ready(s) == Head(s.q[TopPriority(s)])
=============================================================================
