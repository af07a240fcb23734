------------------------------ MODULE ReadyList ------------------------------
(***************************************************************************)
(* The ready queues as kernel.c keeps them: a head and a tail pointer per  *)
(* priority, a next pointer and a READY flag per thread.  Switch uses them *)
(* and shows that they implement the sequences of Sched, which Kernel      *)
(* uses: every pointer that is stale, not cleared or not moved would show  *)
(* as a queue that differs.                                                *)
(*                                                                         *)
(* Definitions named <function>_<fault> are wrong versions of a function,  *)
(* kept to show which property notices the fault.                          *)
(***************************************************************************)
EXTENDS Links, SequencesExt

CONSTANTS Threads, Priorities

Empty == [head  |-> [p \in Priorities |-> NULL],
          tail  |-> [p \in Priorities |-> NULL],
          next  |-> [t \in Threads |-> NULL],
          ready |-> {}]

Linked(s, p) == Chain(s.head[p], s.next, Cardinality(Threads))

getcurrent_keeps_tail(s, t, p) ==
    IF t = NULL \/ t \notin s.ready
    THEN s
    ELSE [s EXCEPT !.head[p] = s.next[t],
                   !.ready   = @ \ {t},
                   !.next[t] = NULL]

getcurrent(s, t, p) ==
    IF t = NULL \/ t \notin s.ready
    THEN s
    ELSE [s EXCEPT !.head[p] = s.next[t],
                   !.tail[p] = IF s.next[t] = NULL THEN NULL ELSE @,
                   !.ready   = @ \ {t},
                   !.next[t] = NULL]

putcurrent(s, t, p) ==
    IF t = NULL \/ t \in s.ready
    THEN s
    ELSE [head  |-> IF s.tail[p] = NULL THEN [s.head EXCEPT ![p] = t] ELSE s.head,
          next  |-> IF s.tail[p] = NULL THEN s.next ELSE [s.next EXCEPT ![s.tail[p]] = t],
          tail  |-> [s.tail EXCEPT ![p] = t],
          ready |-> s.ready \cup {t}]

(* The loop's prev when thp has reached the target; NULL at the head.      *)
prev(s, t, p) ==
    IF s.head[p] = t THEN NULL
    ELSE CHOOSE u \in ToSet(Linked(s, p)) : s.next[u] = t

readyque_remove(s, t, p) ==
    IF t \notin ToSet(Linked(s, p))
    THEN s
    ELSE LET before == prev(s, t, p) IN
         [head  |-> IF before = NULL THEN [s.head EXCEPT ![p] = s.next[t]] ELSE s.head,
          next  |-> [u \in Threads |-> IF u = t THEN NULL
                                       ELSE IF u = before THEN s.next[t] ELSE s.next[u]],
          tail  |-> IF s.tail[p] = t THEN [s.tail EXCEPT ![p] = before] ELSE s.tail,
          ready |-> s.ready \ {t}]

none_ready(s) == \A p \in Priorities : s.head[p] = NULL

first_ready(s) ==
    s.head[CHOOSE p \in Priorities :
             s.head[p] # NULL /\ \A o \in Priorities : s.head[o] # NULL => p <= o]

(* The same queues as Sched has them.                                      *)
AsQueues(s) == [q |-> [p \in Priorities |-> Linked(s, p)], ready |-> s.ready]
=============================================================================
