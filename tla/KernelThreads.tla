---------------------------- MODULE KernelThreads ----------------------------
(***************************************************************************)
(* The kernel with careful callers implements Threads: the states that     *)
(* kernel.c declares but does not store are read off the queues and boxes. *)
(***************************************************************************)
EXTENDS Kernel

StateOf(t) ==
    CASE ~live(t)                         -> "UNUSED"
      [] current = t /\ halted = "no"     -> "RUNNING"
      [] t \in rq.ready /\ ~(current = t /\ halted = "no") -> "READY"
      [] live(t) /\ t \notin rq.ready /\ waiting(t) -> "BLOCKED_RECV"
      [] OTHER                            -> "BLOCKED_SLEEP"

Promise == INSTANCE Threads WITH
    state    <- [t \in Thread |-> StateOf(t)],
    priority <- [t \in Thread |-> tcb[t].priority],
    inbox    <- [t \in Thread |-> tcb[t].got],
    down     <- halted # "no"

(* Every call moves a thread only as the declared life cycle allows, and   *)
(* every message goes once, in order, to the thread that waits for it.     *)
KeepsPromise == Promise!Spec
=============================================================================
