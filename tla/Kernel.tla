------------------------------- MODULE Kernel -------------------------------
(***************************************************************************)
(* The PICOX kernel (kernel.c): threads, ready queues, message boxes and   *)
(* the system and service calls.                                           *)
(*                                                                         *)
(* SVC, SysTick and the UART interrupt have the same exception priority,   *)
(* so a handler runs to its dispatch() undisturbed and every call is one   *)
(* atomic step: thread_intr, syscall_proc with getcurrent, the call's own  *)
(* function, and schedule.  What interleaves is which call or interrupt    *)
(* comes next; the caller is always current, the dispatched thread.        *)
(*                                                                         *)
(* Definitions named <function>_<fault> are wrong versions of a function,  *)
(* kept to show which property notices the fault; no specification here    *)
(* uses them.                                                              *)
(***************************************************************************)
EXTENDS Sched, FiniteSets

CONSTANTS
    THREAD_NUM,     \* slots of threads[]
    PRIORITY_NUM,   \* ready queues; 0 is the most urgent
    MsgBox,         \* indices of msgboxs[]
    Data,           \* the (size, p) pairs a message carries
    Sizes,          \* stack sizes asked for; 0 is one below the 128-byte minimum
    USER_STACK,     \* room between _userstack and _userstack_end
    APP_STACK,      \* room between _appstack and _appstack_end
    MSGBUFS         \* blocks of the memory pool message buffers come from

Thread   == 0 .. THREAD_NUM - 1
Priority == 0 .. PRIORITY_NUM - 1

ASSUME ThreadAssumption   == THREAD_NUM \in Nat \ {0}
ASSUME PriorityAssumption == PRIORITY_NUM \in Nat \ {0}
ASSUME SizeAssumption     == /\ Sizes \subseteq Nat
                             /\ USER_STACK \in Nat \ {0}
                             /\ APP_STACK \in Nat
                             /\ MSGBUFS \in Nat
ASSUME NullAssumption     == /\ NULL \notin Thread
                             /\ NULL \notin [from : Thread \cup {NULL}, data : Data]

Pools    == {"RUN", "APP"}
Message  == [from : Thread \cup {NULL}, data : Data]

(* The latest system call of a thread: only RECV and SLEEP matter to       *)
(* anything, the other thirteen types are OTHER.                           *)
CallType == {"RECV", "SLEEP", "OTHER"}
Tcb      == [func : BOOLEAN, priority : Priority, type : CallType,
             got : Message \cup {NULL}]

VARIABLES
    current,    \* the dispatched thread
    rq,         \* readyque[] and the READY flags (Sched)
    tcb,        \* per slot: init.func # NULL, priority, syscall.type, and what
                \* recvmsg stored in syscall.param
    receiver,   \* msgboxs[b].receiver
    box,        \* the message buffers linked from msgboxs[b].head
    blocks,     \* free blocks of the pool of message buffers
    held,       \* blocks of that pool in the hands of threads
    stack,      \* room above thread_stack ("RUN") and app_thread_stack ("APP")
    halted      \* why nothing more happens: see Halts

(* "sysdown" is picox_sysdown, which masks interrupts and spins.  The two  *)
(* others stop the model where the code's behaviour is no longer defined   *)
(* by the code: "zombie" once a cleared TCB (null stack pointer) is linked *)
(* into a ready queue, "wild" once recvmsg writes through a parameter      *)
(* block that is null or belongs to some other call.                       *)
Halts == {"no", "sysdown", "zombie", "wild"}

mail    == <<receiver, box>>
memory  == <<blocks, held, stack>>
vars    == <<current, rq, tcb, receiver, box, blocks, held, stack, halted>>

(* A slot after its memset to 0; call type 0 is RUN.                       *)
Cleared == [func |-> FALSE, priority |-> 0, type |-> "OTHER", got |-> NULL]

Started(pri) == [Cleared EXCEPT !.func = TRUE, !.priority = pri]

live(t) == tcb[t].func
-----------------------------------------------------------------------------
(* picox_start(func, "main", 0, 0x800, ...) of handler.c, up to svc #1.    *)
picox_start(pri, size) ==
    /\ current = 0
    /\ rq = [q     |-> [p \in Priority |-> IF p = pri THEN <<0>> ELSE <<>>],
             ready |-> {0}]
    /\ tcb = [t \in Thread |-> IF t = 0 THEN Started(pri) ELSE Cleared]
    /\ receiver = [b \in MsgBox |-> NULL]
    /\ box = [b \in MsgBox |-> <<>>]
    /\ blocks = MSGBUFS
    /\ held = 0
    /\ stack = [k \in Pools |-> IF k = "RUN" THEN USER_STACK - size ELSE APP_STACK]
    /\ halted = "no"

Init == picox_start(0, 1)
-----------------------------------------------------------------------------
(* The way into and out of every handler.                                  *)

halt(why) == halted' = why /\ UNCHANGED <<current, rq, tcb, mail, memory>>

schedule(s) ==
    /\ rq' = s
    /\ IF Idle(s) THEN halted' = "sysdown" /\ UNCHANGED current
                  ELSE current' = first_ready(s) /\ UNCHANGED halted

(* syscall_proc: the caller leaves its queue before the call's function.   *)
taken == getcurrent(rq, current, tcb[current].priority)

(* putcurrent of the caller, on the queues s.                              *)
requeue(s) == putcurrent(s, current, tcb[current].priority)

(* syscall_intr: the caller's latest call and its parameter block.         *)
entered(type) == [tcb EXCEPT ![current].type = type, ![current].got = NULL]
-----------------------------------------------------------------------------
(* Threads.                                                                *)

room(kind, size) == size > 0 /\ size <= stack[kind]

FreeSlots == {t \in Thread : ~live(t)}

FreeSlot == CHOOSE t \in FreeSlots : \A u \in FreeSlots : t <= u

(* picox_run ("RUN") and picox_run_app ("APP") differ in the pool of       *)
(* stacks they cut from.  The early returns come before putcurrent, so a   *)
(* caller whose request is refused is in no queue afterwards.              *)
thread_run(kind, pri, size) ==
    \/ /\ room(kind, size) /\ FreeSlots # {}
       /\ tcb' = [entered("OTHER") EXCEPT ![FreeSlot] = Started(pri)]
       /\ stack' = [stack EXCEPT ![kind] = @ - size]
       /\ schedule(putcurrent(requeue(taken), FreeSlot, pri))
       /\ UNCHANGED <<receiver, box, blocks, held>>
    \/ /\ ~(room(kind, size) /\ FreeSlots # {})
       /\ tcb' = entered("OTHER")
       /\ schedule(taken)
       /\ UNCHANGED <<mail, memory>>

thread_exit ==
    /\ tcb' = [tcb EXCEPT ![current] = Cleared]
    /\ schedule(taken)
    /\ UNCHANGED <<mail, memory>>

(* Calls that only send the caller to the back of its queue.               *)
yield ==
    /\ tcb' = entered("OTHER")
    /\ schedule(requeue(taken))
    /\ UNCHANGED <<mail, memory>>

thread_wait    == yield
thread_getid   == yield
thread_setintr == yield
thread_ps      == yield

(* What thread_ps has written to its caller's array, entry for slot, and   *)
(* the number it returns.                                                  *)
ps_info  == [t \in Thread |-> IF live(t) THEN [id |-> t, priority |-> tcb[t].priority] ELSE NULL]
ps_count == Cardinality({t \in Thread : live(t)})

thread_sleep ==
    /\ tcb' = entered("SLEEP")
    /\ schedule(taken)
    /\ UNCHANGED <<mail, memory>>

(* thread_wakeup puts id into a queue whatever it was waiting for.         *)
wake(id, s, tcbs) ==
    IF live(id)
    THEN /\ schedule(putcurrent(s, id, tcb[id].priority))
         /\ tcb' = tcbs
         /\ UNCHANGED <<mail, memory>>
    ELSE halt("zombie")

thread_wakeup(id) == wake(id, requeue(taken), entered("OTHER"))

(* The caller is off its queue while its priority changes.                 *)
thread_chpri(pri) ==
    LET new == IF pri > 0 THEN pri ELSE tcb[current].priority IN
    /\ tcb' = [entered("OTHER") EXCEPT ![current].priority = new]
    /\ schedule(putcurrent(taken, current, new))
    /\ UNCHANGED <<mail, memory>>

thread_kill_drops_caller(id) ==
    \/ /\ ~live(id) \/ id # current
       /\ tcb' = [entered("OTHER") EXCEPT ![id] = Cleared]
       /\ schedule(readyque_remove(taken, id, tcb[id].priority))
       /\ UNCHANGED <<mail, memory>>
    \/ /\ live(id) /\ id = current
       /\ halt("zombie")

(* A slot that is not in use: -1 before putcurrent.  The caller itself:    *)
(* its TCB is cleared and then linked into readyque[0].                    *)
thread_kill(id) ==
    \/ /\ ~live(id)
       /\ tcb' = entered("OTHER")
       /\ schedule(taken)
       /\ UNCHANGED <<mail, memory>>
    \/ /\ live(id) /\ id # current
       /\ tcb' = [entered("OTHER") EXCEPT ![id] = Cleared]
       /\ schedule(requeue(readyque_remove(taken, id, tcb[id].priority)))
       /\ UNCHANGED <<mail, memory>>
    \/ /\ live(id) /\ id = current
       /\ halt("zombie")
-----------------------------------------------------------------------------
(* Memory: the pool of memory.c that message buffers come from.            *)

alloc_unchecked(s, tcbs) ==
    /\ blocks' = blocks - 1
    /\ held' = held + 1
    /\ tcb' = tcbs
    /\ schedule(s)
    /\ UNCHANGED <<mail, stack>>

alloc(s, tcbs) ==
    IF blocks = 0
    THEN halt("sysdown")
    ELSE /\ blocks' = blocks - 1
         /\ held' = held + 1
         /\ tcb' = tcbs
         /\ schedule(s)
         /\ UNCHANGED <<mail, stack>>

free(s, tcbs) ==
    /\ held > 0
    /\ blocks' = blocks + 1
    /\ held' = held - 1
    /\ tcb' = tcbs
    /\ schedule(s)
    /\ UNCHANGED <<mail, stack>>

thread_malloc == alloc(requeue(taken), entered("OTHER"))
thread_free   == free(requeue(taken), entered("OTHER"))
-----------------------------------------------------------------------------
(* Message boxes.                                                          *)

deliver_keeps_receiver(b, t, q, s, tcbs) ==
    IF tcbs[t].type # "RECV"
    THEN halt("wild")
    ELSE /\ box' = [box EXCEPT ![b] = Tail(q)]
         /\ tcb' = [tcbs EXCEPT ![t].got = Head(q)]
         /\ schedule(putcurrent(s, t, tcb[t].priority))
         /\ UNCHANGED receiver

deliver_newest(b, t, q, s, tcbs) ==
    IF tcbs[t].type # "RECV"
    THEN halt("wild")
    ELSE /\ box' = [box EXCEPT ![b] = SubSeq(q, 1, Len(q) - 1)]
         /\ tcb' = [tcbs EXCEPT ![t].got = q[Len(q)]]
         /\ receiver' = [receiver EXCEPT ![b] = NULL]
         /\ schedule(putcurrent(s, t, tcb[t].priority))

(* recvmsg and the putcurrent after it: the oldest buffer of q, the box's  *)
(* buffers, goes to the parameter block of the receiver t.  If an early    *)
(* wakeup took t out of recv the block is dead stack until t's next call;  *)
(* it is kept here as if it were still the call's.                         *)
deliver(b, t, q, s, tcbs) ==
    IF tcbs[t].type # "RECV"
    THEN halt("wild")
    ELSE /\ box' = [box EXCEPT ![b] = Tail(q)]
         /\ tcb' = [tcbs EXCEPT ![t].got = Head(q)]
         /\ receiver' = [receiver EXCEPT ![b] = NULL]
         /\ schedule(putcurrent(s, t, tcb[t].priority))

(* sendmsg takes a block for the buffer; recvmsg gives it back at once     *)
(* when a receiver is waiting.                                             *)
post(b, m, s, tcbs) ==
    IF blocks = 0
    THEN halt("sysdown")
    ELSE \/ /\ receiver[b] = NULL
            /\ box' = [box EXCEPT ![b] = Append(@, m)]
            /\ blocks' = blocks - 1
            /\ tcb' = tcbs
            /\ schedule(s)
            /\ UNCHANGED <<receiver, held, stack>>
         \/ /\ receiver[b] # NULL
            /\ deliver(b, receiver[b], Append(box[b], m), s, tcbs)
            /\ UNCHANGED memory

thread_send(b, d) ==
    post(b, [from |-> current, data |-> d], requeue(taken), entered("OTHER"))

thread_recv_leaks(b) ==
    \/ /\ receiver[b] # NULL
       /\ halt("sysdown")
    \/ /\ receiver[b] = NULL /\ box[b] = <<>>
       /\ receiver' = [receiver EXCEPT ![b] = current]
       /\ tcb' = entered("RECV")
       /\ schedule(taken)
       /\ UNCHANGED <<box, memory>>
    \/ /\ receiver[b] = NULL /\ box[b] # <<>>
       /\ deliver(b, current, box[b], taken, entered("RECV"))
       /\ UNCHANGED memory

thread_recv_always_blocks(b) ==
    \/ /\ receiver[b] # NULL
       /\ halt("sysdown")
    \/ /\ receiver[b] = NULL
       /\ receiver' = [receiver EXCEPT ![b] = current]
       /\ tcb' = entered("RECV")
       /\ schedule(taken)
       /\ UNCHANGED <<box, memory>>

(* A box has room for one waiting receiver; a second one is a sysdown.     *)
thread_recv(b) ==
    \/ /\ receiver[b] # NULL
       /\ halt("sysdown")
    \/ /\ receiver[b] = NULL /\ box[b] = <<>>
       /\ receiver' = [receiver EXCEPT ![b] = current]
       /\ tcb' = entered("RECV")
       /\ schedule(taken)
       /\ UNCHANGED <<box, memory>>
    \/ /\ receiver[b] = NULL /\ box[b] # <<>>
       /\ deliver(b, current, box[b], taken, entered("RECV"))
       /\ blocks' = blocks + 1
       /\ UNCHANGED <<held, stack>>
-----------------------------------------------------------------------------
(* Interrupts.  A service call of an interrupt handler runs with current = *)
(* NULL, so it moves no caller; the interrupted thread keeps its place.    *)

timer_intr ==
    /\ schedule(requeue(taken))
    /\ UNCHANGED <<tcb, mail, memory>>

picoxs_send(b, d) == post(b, [from |-> NULL, data |-> d], rq, tcb)
picoxs_wakeup(id) == wake(id, rq, tcb)
picoxs_malloc     == alloc(rq, tcb)
picoxs_free       == free(rq, tcb)
-----------------------------------------------------------------------------
(* Calls no argument can make go wrong.                                    *)
PlainCall ==
    \/ thread_exit
    \/ thread_wait
    \/ thread_getid
    \/ thread_setintr
    \/ thread_ps
    \/ thread_sleep
    \/ \E p \in Priority : thread_chpri(p)
    \/ thread_malloc
    \/ thread_free
    \/ \E b \in MsgBox : thread_recv(b)
    \/ \E b \in MsgBox, d \in Data : thread_send(b, d)

Interrupt ==
    \/ timer_intr
    \/ \E b \in MsgBox, d \in Data : picoxs_send(b, d)
    \/ picoxs_malloc
    \/ picoxs_free

Next ==
    /\ halted = "no"
    /\ \/ PlainCall
       \/ Interrupt
       \/ \E kind \in Pools, p \in Priority, n \in Sizes : thread_run(kind, p, n)
       \/ \E id \in Thread : thread_wakeup(id)
       \/ \E id \in Thread : thread_kill(id)
       \/ \E id \in Thread : picoxs_wakeup(id)

Spec == Init /\ [][Next]_vars
-----------------------------------------------------------------------------
(* What the kernel never checks and its callers have to respect: a run is  *)
(* asked for only while there is a slot and stack for it; kill and wakeup  *)
(* name a live thread that waits for no message, and kill not the caller.  *)
waiting(t) == \E b \in MsgBox : receiver[b] = t

Respected(id) == live(id) /\ ~waiting(id)

CarefulNext ==
    /\ halted = "no"
    /\ \/ PlainCall
       \/ Interrupt
       \/ \E kind \in Pools, p \in Priority, n \in Sizes :
            room(kind, n) /\ FreeSlots # {} /\ thread_run(kind, p, n)
       \/ \E id \in Thread : Respected(id) /\ thread_wakeup(id)
       \/ \E id \in Thread : Respected(id) /\ id # current /\ thread_kill(id)
       \/ \E id \in Thread : Respected(id) /\ picoxs_wakeup(id)

CarefulSpec == Init /\ [][CarefulNext]_vars
-----------------------------------------------------------------------------
(* Properties.                                                             *)

(* The range of every variable; kernel.c keeps all of them in static data. *)
TypeOK ==
    /\ current \in Thread
    /\ rq \in [q : [Priority -> Seq(Thread)], ready : SUBSET Thread]
    /\ tcb \in [Thread -> Tcb]
    /\ receiver \in [MsgBox -> Thread \cup {NULL}]
    /\ box \in [MsgBox -> Seq(Message)]
    /\ blocks \in Nat
    /\ held \in Nat
    /\ stack \in [Pools -> Nat]
    /\ halted \in Halts

(* A thread is linked in a ready queue exactly when its flag says so.      *)
FlagsAgree == \A t \in Thread : t \in rq.ready <=> \E p \in Priority : t \in ToSet(rq.q[p])

(* It is linked once, in the queue of the priority its TCB holds now, and  *)
(* its slot is in use.                                                     *)
OwnQueue ==
    \A p \in Priority :
        /\ IsInjective(rq.q[p])
        /\ \A t \in ToSet(rq.q[p]) : live(t) /\ tcb[t].priority = p

(* The dispatched thread heads the most urgent queue, which is what makes  *)
(* getcurrent's "head = current->next" right.                              *)
CurrentIsFirst == halted = "no" => ~Idle(rq) /\ current = first_ready(rq)

(* Whatever is called, in any order and with any argument, the links, the  *)
(* flags, the priorities and the dispatched thread agree (kernel.c, every  *)
(* function that ends in putcurrent, and readyque_remove).                 *)
QueueInv == FlagsAgree /\ OwnQueue /\ CurrentIsFirst

(* No message buffer is lost or freed twice between sendmsg, recvmsg and   *)
(* the users of the same pool: every block is free, held or in a box.      *)
LinkedIn(boxes) == UNION {{b} \X DOMAIN boxes[b] : b \in MsgBox}

Conservation == blocks + held + Cardinality(LinkedIn(box)) = MSGBUFS

(* With careful callers, a recorded receiver is a thread that is blocked   *)
(* in recv on that box alone, and no message lies in the box it waits on.  *)
BoxInv ==
    \A b \in MsgBox : receiver[b] # NULL =>
        /\ box[b] = <<>>
        /\ live(receiver[b])
        /\ receiver[b] \notin rq.ready
        /\ tcb[receiver[b]].type = "RECV"
        /\ \A o \in MsgBox \ {b} : receiver[o] # receiver[b]

(* With careful callers, a thread that is in no queue has asked for it: it *)
(* waits in a box or it called sleep.  Nobody falls out of the scheduler.  *)
NoLostThread ==
    \A t \in Thread : live(t) =>
        t \in rq.ready \/ waiting(t) \/ tcb[t].type = "SLEEP"

(* With careful callers, no cleared TCB is ever queued and recvmsg never   *)
(* writes through a parameter block that is not the receiver's recv.       *)
NoWreck == halted \notin {"zombie", "wild"}

(* A thread that stays among the most urgent ready ones is dispatched      *)
(* again and again, because the periodic SysTick rotates its queue.        *)
Foremost(t) == halted = "no" /\ t \in rq.ready /\ tcb[t].priority = TopPriority(rq)

RoundRobin == \A t \in Thread : <>[]Foremost(t) => []<>(current = t)

(* SysTick is periodic and no handler masks it for good.                   *)
FairSpec == Spec /\ WF_vars(halted = "no" /\ timer_intr)
=============================================================================
