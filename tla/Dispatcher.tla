----------------------------- MODULE Dispatcher -----------------------------
(***************************************************************************)
(* What the handlers of kernel.c do with the ready queues, on the          *)
(* sequences of Sched: one action per combination of getcurrent,           *)
(* putcurrent and readyque_remove that a call or an interrupt makes, each  *)
(* followed by schedule.  Switch does the same with the linked lists of    *)
(* the code, and is shown to implement this.                               *)
(***************************************************************************)
EXTENDS Sched

CONSTANTS Threads, Priorities

VARIABLES queues, prio, current

dvars == <<queues, prio, current>>

schedule(s) ==
    /\ queues' = s
    /\ current' = IF Idle(s) THEN NULL ELSE first_ready(s)

taken == getcurrent(queues, current, prio[current])
back == putcurrent(taken, current, prio[current])

Init ==
    \E t \in Threads :
        /\ prio = [u \in Threads |-> 0]
        /\ queues = putcurrent([q |-> [p \in Priorities |-> <<>>], ready |-> {}], t, 0)
        /\ current = t

(* Any call that keeps the caller ready, and the timer.                    *)
Rotate == schedule(back) /\ UNCHANGED prio

(* sleep, a refused run or kill; exit, which clears the priority as well.  *)
Leave ==
    /\ schedule(taken)
    /\ prio' \in {prio, [prio EXCEPT ![current] = 0]}

(* run of a new thread, with the priority asked for; wakeup, with its own. *)
Bring(t, p) ==
    /\ schedule(putcurrent(back, t, p))
    /\ prio' = [prio EXCEPT ![t] = p]

(* wakeup from an interrupt handler: the interrupted thread stays put.     *)
BringFromInterrupt(t) == schedule(putcurrent(queues, t, prio[t])) /\ UNCHANGED prio

(* kill of another thread.                                                 *)
Kill(t) ==
    /\ t # current
    /\ schedule(putcurrent(readyque_remove(taken, t, prio[t]), current, prio[current]))
    /\ prio' = [prio EXCEPT ![t] = 0]

Chpri(p) ==
    /\ schedule(putcurrent(taken, current, p))
    /\ prio' = [prio EXCEPT ![current] = p]

Next ==
    /\ current # NULL
    /\ \/ Rotate
       \/ Leave
       \/ \E t \in Threads, p \in Priorities : Bring(t, p)
       \/ \E t \in Threads : BringFromInterrupt(t)
       \/ \E t \in Threads : Kill(t)
       \/ \E p \in Priorities : Chpri(p)

Spec == Init /\ [][Next]_dvars
=============================================================================
