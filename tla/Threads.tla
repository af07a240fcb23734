------------------------------- MODULE Threads -------------------------------
(***************************************************************************)
(* What the kernel promises its threads, without queues, flags and stacks: *)
(* each slot is in one of the states kernel.c declares and never stores    *)
(* (picox_thread_state), the running thread is one of the most urgent that *)
(* can run, only its own calls change what a thread waits for, and every   *)
(* box hands its messages over in order, each of them once.                *)
(***************************************************************************)
EXTENDS Integers, Sequences

CONSTANTS Thread, Priority, MsgBox, Message, NULL

VARIABLES
    state,      \* the picox_thread_state of each slot
    priority,
    receiver,   \* the thread blocked on each box, or NULL
    box,
    inbox,      \* what the latest call of each thread has received
    down        \* the system has stopped

tvars == <<state, priority, receiver, box, inbox, down>>

Runnable(st) == {t \in Thread : st[t] \in {"READY", "RUNNING"}}

(* The states that can follow st: the running thread goes back among the   *)
(* ready ones and one of the most urgent takes its place.                  *)
Dispatch(st, pr) ==
    /\ priority' = pr
    /\ down' = (Runnable(st) = {})
    /\ \/ /\ Runnable(st) = {}
          /\ state' = st
       \/ \E next \in Runnable(st) :
            /\ \A t \in Runnable(st) : pr[next] <= pr[t]
            /\ state' = [t \in Thread |-> IF t = next THEN "RUNNING"
                                          ELSE IF t \in Runnable(st) THEN "READY"
                                          ELSE st[t]]

Running(me) == state[me] = "RUNNING"

(* The running thread's next call starts with nothing received.            *)
Settled == {inbox, [t \in Thread |-> IF Running(t) THEN NULL ELSE inbox[t]]}

quiet == inbox' \in Settled /\ UNCHANGED <<receiver, box>>

Init ==
    /\ \E first \in Thread, p \in Priority :
         /\ state = [t \in Thread |-> IF t = first THEN "RUNNING" ELSE "UNUSED"]
         /\ priority = [t \in Thread |-> IF t = first THEN p ELSE 0]
    /\ receiver = [b \in MsgBox |-> NULL]
    /\ box = [b \in MsgBox |-> <<>>]
    /\ inbox = [t \in Thread |-> NULL]
    /\ down = FALSE

Yield == Dispatch(state, priority) /\ quiet

(* A new thread has received nothing.                                      *)
Create(t, p) ==
    /\ state[t] = "UNUSED"
    /\ Dispatch([state EXCEPT ![t] = "READY"], [priority EXCEPT ![t] = p])
    /\ \E i \in Settled : inbox' = [i EXCEPT ![t] = NULL]
    /\ UNCHANGED <<receiver, box>>

(* A thread ends by its own exit or by another's kill.                     *)
End(t) ==
    /\ state[t] \in {"RUNNING", "READY", "BLOCKED_SLEEP"}
    /\ Dispatch([state EXCEPT ![t] = "UNUSED"], [priority EXCEPT ![t] = 0])
    /\ \E i \in Settled : inbox' = [i EXCEPT ![t] = NULL]
    /\ UNCHANGED <<receiver, box>>

Sleep(me) ==
    /\ Running(me)
    /\ Dispatch([state EXCEPT ![me] = "BLOCKED_SLEEP"], priority)
    /\ quiet

Wake(t) ==
    /\ state[t] = "BLOCKED_SLEEP"
    /\ Dispatch([state EXCEPT ![t] = "READY"], priority)
    /\ quiet

SetPriority(me, p) ==
    /\ Running(me)
    /\ Dispatch(state, [priority EXCEPT ![me] = p])
    /\ quiet

(* A message joins an unattended box, or wakes the receiver of an empty one. *)
Send(b, m) ==
    \/ /\ receiver[b] = NULL
       /\ box' = [box EXCEPT ![b] = Append(@, m)]
       /\ inbox' \in Settled
       /\ Dispatch(state, priority)
       /\ UNCHANGED receiver
    \/ \E t \in Thread :
       /\ receiver[b] = t /\ state[t] = "BLOCKED_RECV" /\ box[b] = <<>>
       /\ receiver' = [receiver EXCEPT ![b] = NULL]
       /\ \E i \in Settled : inbox' = [i EXCEPT ![t] = m]
       /\ Dispatch([state EXCEPT ![t] = "READY"], priority)
       /\ UNCHANGED box

Receive(me, b) ==
    /\ Running(me) /\ receiver[b] = NULL
    /\ \/ /\ box[b] = <<>>
          /\ receiver' = [receiver EXCEPT ![b] = me]
          /\ Dispatch([state EXCEPT ![me] = "BLOCKED_RECV"], priority)
          /\ inbox' \in Settled
          /\ UNCHANGED box
       \/ /\ box[b] # <<>>
          /\ box' = [box EXCEPT ![b] = Tail(@)]
          /\ inbox' = [inbox EXCEPT ![me] = Head(box[b])]
          /\ Dispatch(state, priority)
          /\ UNCHANGED receiver

(* Out of message buffers, or a second receiver for a box.                 *)
GoDown ==
    /\ down' = TRUE
    /\ state' = [t \in Thread |-> IF Running(t) THEN "READY" ELSE state[t]]
    /\ UNCHANGED <<priority, receiver, box, inbox>>

Next ==
    /\ ~down
    /\ \/ Yield
       \/ \E t \in Thread, p \in Priority : Create(t, p) \/ SetPriority(t, p)
       \/ \E t \in Thread : End(t) \/ Sleep(t) \/ Wake(t)
       \/ \E b \in MsgBox, m \in Message : Send(b, m)
       \/ \E b \in MsgBox, t \in Thread : Receive(t, b)
       \/ GoDown

Spec == Init /\ [][Next]_tvars
=============================================================================
