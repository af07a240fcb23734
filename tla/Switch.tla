------------------------------- MODULE Switch -------------------------------
(***************************************************************************)
(* From one thread to the next: what the exception handlers of handler.c   *)
(* save, what dispatch of kernel.c loads, the first frames thread_run and  *)
(* thread_run_app lay out, and the ready queues with their pointers in     *)
(* between.  Memory is words; an address counts words, so the byte offset  *)
(* #32 of the assembly is word 8.                                          *)
(*                                                                         *)
(* Every exception has the same priority: one is taken while a thread runs *)
(* and is over before the next, so the main stack is empty whenever one is *)
(* taken, and a handler is one step.  Threads run any code that leaves     *)
(* FRAME words of their stack free: here each pushes a word, fills every   *)
(* register with a value of its own, and then makes calls.                 *)
(*                                                                         *)
(* Definitions named <function>_<fault> are wrong versions of a function,  *)
(* kept to show which property notices the fault.                          *)
(***************************************************************************)
EXTENDS ReadyList, Mpu

CONSTANTS
    UserStack, AppStack,    \* [first, end]: _userstack and _appstack
    STACK,                  \* words of a thread's stack
    Calls                   \* what the first thread, system threads and apps call

FRAME == 18                 \* words of a saved context

ASSUME SlotAssumption ==
    /\ Threads \subseteq Nat /\ IsFiniteSet(Threads) /\ 0 \in Threads
    /\ Priorities \subseteq Nat /\ 0 \in Priorities
    /\ NULL \notin Threads /\ NULL \notin {"run", "run_app"}

ASSUME CallAssumption ==      \* the kernel checks no priority, and nobody passes a wrong one
    /\ Calls \subseteq [by : STRING, type : STRING, param : Nat]
    /\ \A call \in Calls :
         call.type \in {"run", "run_app", "chpri"} => call.param \in Priorities

ASSUME StackAssumption ==
    /\ STACK \in Nat /\ STACK > FRAME
    /\ \A s \in {UserStack, AppStack} : s.first \in Nat /\ s.end \in Nat
    /\ UserStack.first + STACK <= UserStack.end        \* room for the first thread
    /\ UserStack.end <= AppStack.first
    /\ \E k \in 0 .. 27 :             \* the linker script aligns it to its size
         /\ AppStack.end - AppStack.first = region_size[k]
         /\ AppStack.first % region_size[k] = 0

VARIABLES
    lists,      \* readyque, next and flags
    current,
    threads,    \* slot -> [func, priority, stack, sp], a picox_thread
    area,       \* thread_stack and app_thread_stack, by the call that uses them
    softvec,    \* kinds of interrupt that have a handler
    enabled,    \* kinds that the hardware raises
    memory,
    cpu         \* register -> word

svars == <<lists, current, threads, area, softvec, enabled, memory, cpu>>

(* A word of memory or a register: a number, the value of a register of a  *)
(* thread's own making, or something that has a name.                      *)
number(n) == <<"number", n>>
own(t, r) == <<r, t>>
the(name) == <<name, 0>>

(* What an exception pushes and pops by itself, lowest address first.      *)
Hardware == <<"r0", "r1", "r2", "r3", "r12", "lr", "pc", "xpsr">>
Low      == <<"r4", "r5", "r6", "r7">>
High     == <<"r8", "r9", "r10", "r11">>

(* What dispatch pops, then the exception return.                          *)
Popped == High \o Low \o <<"exc_return", "control">> \o Hardware

values(c, names) == [i \in DOMAIN names |-> c[names[i]]]

(* Word of the frame -> where it lies.                                     *)
Offset == [r \in ToSet(Popped) |-> (CHOOSE i \in DOMAIN Popped : Popped[i] = r) - 1]

(* Memory is a sequence whose i-th element has the address i - 1.          *)
word(m, a) == m[a + 1]

store(m, at, words) ==
    SubSeq(m, 1, at) \o words \o SubSeq(m, at + Len(words) + 1, Len(m))

(* From dispatch's context->sp to the thread's next instruction.           *)
dispatch(m, at) ==
    [r \in DOMAIN Offset \cup {"sp"} |->
        IF r = "sp" THEN at + FRAME ELSE word(m, at + Offset[r])]

(* Taking an exception: PSP goes down by the eight words.                  *)
exception_frame(c) == store(memory, c["sp"] - 8, values(c, Hardware))

(* The ten words below them, as all three handlers write them: r4-r7 at    *)
(* #16, then r8-r11 through r4-r7 at #0, EXC_RETURN at #32, CONTROL at #36. *)
save_context(c) ==
    LET psp == c["sp"] - 8 - 10 IN
    store(store(store(exception_frame(c), psp + 4, values(c, Low)),
                psp, values(c, High)),
          psp + 8, <<c["exc_return"], c["control"]>>)
-----------------------------------------------------------------------------
prio == [t \in Threads |-> threads[t].priority]
Live == {t \in Threads : threads[t].func # NULL}

Cleared == [func |-> NULL, priority |-> 0, stack |-> 0, sp |-> 0]

(* The words thread_run pushes on a new stack, and those of thread_run_app. *)
pushes(call, t) ==
    CASE call = "run" ->
            <<the("thumb"), the("thread_init"), the("thread_end"), number(0), number(0),
              number(0), number(0), own(t, "thp"), the("privileged"), the("thread")>>
      [] call = "run_app" ->
            <<the("thumb"), the("app_thread_init"), the("thread_end"), number(0), number(0),
              the("argv"), the("argc"), the("func"), the("unprivileged"), the("thread")>>

pushed(call, t) == Reverse(pushes(call, t) \o [i \in 1 .. 8 |-> number(0)])

stack_end(call) == IF call = "run" THEN UserStack.end ELSE AppStack.end

started(call, priority) ==
    [func |-> call, priority |-> priority,
     stack |-> area[call] + STACK, sp |-> area[call] + STACK - FRAME]

(* picox_start and svc #1: the first thread, put in place and dispatched.  *)
Init ==
    /\ lists = putcurrent(Empty, 0, 0)
    /\ current = 0
    /\ threads = [t \in Threads |->
         IF t = 0 THEN [func |-> "run", priority |-> 0, stack |-> UserStack.first + STACK,
                        sp |-> UserStack.first + STACK - FRAME]
         ELSE Cleared]
    /\ area = [run |-> UserStack.first + STACK, run_app |-> AppStack.first]
    /\ softvec = {"syscall", "timer"} /\ enabled = {"syscall"}
    /\ memory = store([a \in 1 .. AppStack.end |-> number(0)],
                      UserStack.first + STACK - FRAME, pushed("run", 0))
    /\ cpu = dispatch(memory, UserStack.first + STACK - FRAME)
-----------------------------------------------------------------------------
(* interrupt and thread_intr, in three parts: the caller's stack pointer   *)
(* is kept in its TCB; the handler runs; schedule and dispatch.            *)
entered == [threads EXCEPT ![current].sp = cpu["sp"] - FRAME]

saved == save_context(cpu)

thread_intr(q, ths, m) ==
    /\ lists' = q /\ threads' = ths /\ memory' = m
    /\ current' = IF none_ready(q) THEN NULL ELSE first_ready(q)
    /\ cpu' = IF none_ready(q) THEN cpu ELSE dispatch(m, ths[first_ready(q)].sp)

mine == getcurrent(lists, current, prio[current])

requeued == putcurrent(mine, current, prio[current])
-----------------------------------------------------------------------------
(* System calls.  The saved pc is that of the next instruction; type and   *)
(* param are the sp[10] and sp[11] of syscall_intr.                        *)
at_svc == [cpu EXCEPT !["pc"] = the("returned")]

called == save_context(at_svc)

syscall_type == word(called, entered[current].sp + 10)[1]
syscall_param == word(called, entered[current].sp + 11)[2]

FreeSlots == Threads \ Live

(* thread_run and thread_run_app; the caller is requeued, with the new     *)
(* thread behind it, unless there is no room or no slot.                   *)
thread_run ==
    /\ syscall_type \in {"run", "run_app"}
    /\ \/ /\ FreeSlots # {} /\ area[syscall_type] + STACK <= stack_end(syscall_type)
          /\ LET t == Min(FreeSlots) IN
             /\ thread_intr(putcurrent(requeued, t, syscall_param),
                            [entered EXCEPT ![t] = started(syscall_type, syscall_param)],
                            store(called, area[syscall_type] + STACK - FRAME,
                                  pushed(syscall_type, t)))
             /\ area' = [area EXCEPT ![syscall_type] = @ + STACK]
       \/ /\ FreeSlots = {} \/ area[syscall_type] + STACK > stack_end(syscall_type)
          /\ thread_intr(mine, entered, called)
          /\ UNCHANGED area
    /\ UNCHANGED softvec

thread_exit ==
    /\ syscall_type = "exit"
    /\ thread_intr(mine, [entered EXCEPT ![current] = Cleared], called)
    /\ UNCHANGED <<area, softvec>>

thread_sleep ==
    /\ syscall_type = "sleep"
    /\ thread_intr(mine, entered, called)
    /\ UNCHANGED <<area, softvec>>

(* Callers wake threads that are in use.                                   *)
thread_wakeup ==
    /\ syscall_type = "wakeup" /\ syscall_param \in Live
    /\ thread_intr(putcurrent(requeued, syscall_param, prio[syscall_param]), entered, called)
    /\ UNCHANGED <<area, softvec>>

thread_chpri ==
    /\ syscall_type = "chpri"
    /\ LET p == IF syscall_param > 0 THEN syscall_param ELSE prio[current] IN
       thread_intr(putcurrent(mine, current, p), [entered EXCEPT ![current].priority = p], called)
    /\ UNCHANGED <<area, softvec>>

(* Callers do not kill themselves; a kill of a free slot is refused and    *)
(* the caller not requeued.                                                *)
thread_kill ==
    /\ syscall_type = "kill" /\ syscall_param # current
    /\ IF syscall_param \in Live
       THEN thread_intr(
              putcurrent(readyque_remove(mine, syscall_param, prio[syscall_param]),
                         current, prio[current]),
              [entered EXCEPT ![syscall_param] = Cleared], called)
       ELSE thread_intr(mine, entered, called)
    /\ UNCHANGED <<area, softvec>>

thread_setintr ==
    /\ syscall_type = "setintr"
    /\ thread_intr(requeued, entered, called)
    /\ softvec' = softvec \cup {"serintr"}
    /\ UNCHANGED area

SVC_Handler ==
    /\ cpu["pc"] = the("svc")
    /\ \/ thread_run
       \/ thread_exit
       \/ thread_sleep
       \/ thread_wakeup
       \/ thread_chpri
       \/ thread_kill
       \/ thread_setintr
    /\ UNCHANGED enabled
-----------------------------------------------------------------------------
SysTick_Handler ==
    /\ "timer" \in enabled
    /\ thread_intr(requeued, entered, saved)
    /\ UNCHANGED <<area, softvec, enabled>>

(* UART0_IRQ_Handler when nobody has set the soft vector: interrupt        *)
(* returns, and the exception returns, to a stack pointer ten words low.   *)
unhandled ==
    LET psp == cpu["sp"] - FRAME IN
    [r \in DOMAIN cpu |->
        IF r \in ToSet(Hardware) THEN word(saved, psp - 10 + Offset[r])
        ELSE IF r \in ToSet(Low) THEN word(saved, psp - 4 + Offset[r])
        ELSE IF r = "sp" THEN psp + 8 ELSE cpu[r]]

(* The console's handler wakes a thread through a service call, which      *)
(* leaves the interrupted thread in its queue.                             *)
UART0_IRQ_Handler ==
    /\ "serintr" \in enabled
    /\ \E t \in Live :
         LET handled == "serintr" \in softvec
             q == IF handled THEN putcurrent(lists, t, prio[t]) ELSE lists
         IN  /\ lists' = q /\ memory' = saved
             /\ threads' = IF handled THEN entered ELSE threads
             /\ current' = IF handled THEN first_ready(q) ELSE current
             /\ cpu' = IF handled THEN dispatch(saved, entered[first_ready(q)].sp)
                       ELSE unhandled
    /\ UNCHANGED <<area, softvec, enabled>>
-----------------------------------------------------------------------------
(* The threads' own code.                                                  *)
unchanged_by_threads == <<lists, current, threads, area, softvec>>

(* From its first instruction: a word is pushed, every register is used.   *)
compute ==
    /\ cpu["pc"] \in {the("thread_init"), the("app_thread_init")}
    /\ memory' = store(memory, cpu["sp"] - 1, <<own(current, "pushed")>>)
    /\ cpu' = [r \in DOMAIN cpu |->
         IF r = "sp" THEN cpu["sp"] - 1
         ELSE IF r = "pc" THEN the("code")
         ELSE IF r \in {"exc_return", "control", "xpsr"} THEN cpu[r]
         ELSE own(current, r)]
    /\ UNCHANGED <<unchanged_by_threads, enabled>>

caller == IF current = 0 THEN "main" ELSE threads[current].func

(* picox_syscall up to its svc instruction.                                *)
picox_syscall(type, param) ==
    /\ cpu["pc"] \in {the("code"), the("returned")}
    /\ cpu' = [cpu EXCEPT !["r0"] = the(type), !["r1"] = number(param), !["pc"] = the("svc")]
    /\ UNCHANGED <<unchanged_by_threads, enabled, memory>>

(* start_thread, the first, starts SysTick.                                *)
systick_init ==
    /\ current = 0 /\ cpu["pc"] = the("returned")
    /\ enabled' = enabled \cup {"timer"}
    /\ UNCHANGED <<unchanged_by_threads, memory, cpu>>

serial_interrupt_enable_early ==
    /\ cpu["control"] = the("privileged") /\ cpu["pc"] = the("code")
    /\ enabled' = enabled \cup {"serintr"}
    /\ UNCHANGED <<unchanged_by_threads, memory, cpu>>

(* consdrv_main, once its picox_setintr has returned.                      *)
serial_interrupt_enable ==
    /\ cpu["r0"] = the("setintr") /\ cpu["pc"] = the("returned")
    /\ enabled' = enabled \cup {"serintr"}
    /\ UNCHANGED <<unchanged_by_threads, memory, cpu>>

Next ==
    /\ current # NULL
    /\ \/ SVC_Handler
       \/ SysTick_Handler
       \/ UART0_IRQ_Handler
       \/ compute
       \/ \E call \in Calls : call.by = caller /\ picox_syscall(call.type, call.param)
       \/ systick_init
       \/ serial_interrupt_enable

Spec == Init /\ [][Next]_svars
-----------------------------------------------------------------------------
(* Read along its links, every queue changes as Kernel says it does        *)
(* (getcurrent, putcurrent, readyque_remove with their pointers).          *)
Queues == INSTANCE Dispatcher WITH queues <- AsQueues(lists)

KeepsQueues == Queues!Spec

(* The registers of a thread, in the processor while it runs and otherwise *)
(* where dispatch will load them from, and the stack above them.           *)
registers_and_stack(t) ==
    IF t = current
    THEN values(cpu, Popped) \o SubSeq(memory, cpu["sp"] + 1, threads[t].stack)
    ELSE SubSeq(memory, threads[t].sp + 1, threads[t].stack)

(* How a thread finds its registers when it starts; all others are 0.      *)
First(call, t) ==
    LET named ==
          IF call = "run"
          THEN [r0 |-> own(t, "thp"), lr |-> the("thread_end"), pc |-> the("thread_init"),
                control |-> the("privileged"),
                exc_return |-> the("thread"), xpsr |-> the("thumb")]
          ELSE [r0 |-> the("func"), r1 |-> the("argc"), r2 |-> the("argv"),
                lr |-> the("thread_end"), pc |-> the("app_thread_init"),
                control |-> the("unprivileged"),
                exc_return |-> the("thread"), xpsr |-> the("thumb")]
    IN  [i \in DOMAIN Popped |->
            IF Popped[i] \in DOMAIN named THEN named[Popped[i]] ELSE number(0)]

Firsts == [call \in {"run", "run_app"} |-> {First(call, t) : t \in Threads}]

(* Whatever interrupts, calls, starts and ends of others come between two  *)
(* of its instructions, a thread finds its registers, its privilege and    *)
(* its stack as it left them, and the kernel does what its r0 asked for    *)
(* (the handlers' saves, syscall_intr, dispatch, the first frames).        *)
Own == INSTANCE Processors WITH
    processor <- [t \in Live |-> registers_and_stack(t)],
    running   <- current,
    R0        <- Offset["r0"] + 1,
    PC        <- Offset["pc"] + 1,
    Mode      <- {Offset[r] + 1 : r \in {"control", "exc_return", "xpsr"}},
    Fresh     <- Firsts

OwnProcessor == Own!Spec

(* What unprivileged code may write of the stacks: mpu_init's region 1.    *)
AppRegion == mpu_region_from_range(AppStack.first, AppStack.end)

(* A thread that runs unprivileged can reach all of its stack, and no word *)
(* of the stack of a thread that does not (mpu_region_from_range, the two  *)
(* stack areas, CONTROL as it is saved and loaded).                        *)
Confined ==
    \A t \in Live :
        LET stack == threads[t].stack - STACK .. threads[t].stack - 1 IN
        IF registers_and_stack(t)[Offset["control"] + 1] = the("unprivileged")
        THEN stack \subseteq AppRegion
        ELSE stack \cap AppRegion = {}
=============================================================================
