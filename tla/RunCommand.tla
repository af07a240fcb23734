----------------------------- MODULE RunCommand -----------------------------
(***************************************************************************)
(* The threads main.c starts, over the kernel: the shell's run and kill    *)
(* commands, the app thread of exec.c, the SD driver's request loop, the   *)
(* wrapper thread of every app, and the console's receive interrupt.       *)
(*                                                                         *)
(* A thread is its program counter; every step of it is one system call of *)
(* Kernel, made while it is the dispatched thread.  Between two calls the  *)
(* timer and the UART may interrupt.  A call that does not come back (a    *)
(* refused run, a kill of an empty slot) leaves its caller in no queue.    *)
(*                                                                         *)
(* Left out: console output.  consdrv has the highest priority and waits   *)
(* on CONSTX whenever another thread runs, so a consdrv_write has printed  *)
(* and freed its text before the writer's next instruction.                *)
(***************************************************************************)
EXTENDS Kernel, CommandLine

CONSTANTS KillIds       \* thread ids typed after "kill"

Main    == 0
Consdrv == 1
Sddrv   == 2
Shell   == 3
Exec    == 4
Apps    == Thread \ {Main, Consdrv, Sddrv, Shell, Exec}

Boxes    == {"CONSRX", "CONSTX", "APPREQUEST", "CMDEND", "APPEVENT",
             "SDREQUEST", "SDRESULT"}

(* Lines that are typed, by name.  The digit of a kill is chosen, from     *)
(* KillIds, when the command is executed.                                  *)
Typed == [run    |-> <<" ", "run", " ", " ", "file">>,
          run_bg |-> <<"run", " ", "file", " ", "&", " ">>,
          kill   |-> <<"kill", " ", "digit">>,
          ps     |-> <<"ps", " ">>,
          other  |-> <<"run", "&">>]

Commands == DOMAIN Typed
Payloads == Commands \cup {"fg", "bg", "loaded", "failed", "none"}

ASSUME BoxAssumption == MsgBox = Boxes /\ Data = Payloads

(* define.h has 10 slots and 16 priorities, linker.ld stacks for more than *)
(* main and the four threads it starts.                                    *)
ASSUME SystemAssumption ==
    /\ THREAD_NUM >= 5 /\ PRIORITY_NUM >= 16
    /\ {1, 2} \subseteq Sizes /\ USER_STACK >= 7

VARIABLES
    pc,         \* where each thread is in its function
    uart,       \* "off" until consdrv enables it, "idle", or a line half sent
    asked,      \* command_run's option->background: "fg" or "bg"
    job,        \* exec_main's request->background and id
    bg,         \* exec_app's copy of param->background
    failures,   \* history: loads that failed so far
    cause       \* history: since the foreground app was started, it ended or
                \* Ctrl-C was typed

locals == <<asked, job, bg>>
history == <<failures, cause>>
system == <<pc, uart, locals, history>>
rvars  == <<vars, system>>

Executed == [l \in Commands |-> command_execute(Typed[l])]

At(t, l)   == halted = "no" /\ uart \in {"off", "idle"} /\ current = t /\ pc[t] = l
Goto(t, l) == pc' = [pc EXCEPT ![t] = l]
Got(t)     == tcb[t].got.data
-----------------------------------------------------------------------------
SystemInit ==
    /\ Init
    /\ pc = [t \in Thread |-> IF t = Main THEN "run consdrv" ELSE "none"]
    /\ uart = "off"
    /\ asked = "fg"
    /\ job = [kind |-> "fg", id |-> 0]
    /\ bg = [t \in Thread |-> FALSE]
    /\ failures = 0
    /\ cause = FALSE

(* start_thread: four runs, then down to the lowest priority, then SysTick. *)
boot(from, to, pri, size, entry) ==
    /\ At(Main, from)
    /\ thread_run("RUN", pri, size)
    /\ pc' = [pc EXCEPT ![Main] = to, ![FreeSlot] = entry]

start_thread ==
    /\ \/ boot("run consdrv", "run sddrv", 1, 1, "setintr")
       \/ boot("run sddrv", "run shell", 2, 2, "recv")
       \/ boot("run shell", "run exec", 3, 1, "prompt")
       \/ boot("run exec", "chpri", 3, 2, "recv")
       \/ At(Main, "chpri") /\ thread_chpri(15) /\ Goto(Main, "systick_init")
       \/ At(Main, "systick_init") /\ Goto(Main, "wfi") /\ UNCHANGED vars
    /\ UNCHANGED <<uart, locals, history>>

consdrv_main ==
    /\ \/ /\ At(Consdrv, "setintr") /\ thread_setintr /\ Goto(Consdrv, "recv")
          /\ uart' = "idle"
       \/ /\ At(Consdrv, "recv") /\ thread_recv("CONSTX") /\ Goto(Consdrv, "recv")
          /\ UNCHANGED uart
    /\ UNCHANGED <<locals, history>>

sddrv_main ==
    /\ \/ At(Sddrv, "recv") /\ thread_recv("SDREQUEST") /\ Goto(Sddrv, "load")
       \/ /\ At(Sddrv, "load") /\ Goto(Sddrv, "recv")
          /\ \E r \in {"loaded", "failed"} : thread_send("SDRESULT", r)
    /\ UNCHANGED <<uart, locals, history>>
-----------------------------------------------------------------------------
(* The command table: what the line in hand calls, with which argument.    *)
Calls(command) == At(Shell, "execute") /\ Executed[Got(Shell)].command = <<command>>

Argument == Executed[Got(Shell)].argument

(* command_run: a request block, the request, and the wait for its end.    *)
command_run ==
    \/ /\ Calls("run") /\ Argument # <<>>
       /\ asked' = IF Executed[Got(Shell)].background THEN "bg" ELSE "fg"
       /\ thread_malloc /\ Goto(Shell, "send")
    \/ /\ At(Shell, "send") /\ UNCHANGED asked
       /\ thread_send("APPREQUEST", asked) /\ Goto(Shell, "await end")
    \/ /\ At(Shell, "await end") /\ UNCHANGED asked
       /\ thread_recv("CMDEND") /\ Goto(Shell, "free")

command_kill(id) ==
    /\ Calls("kill") /\ Argument = <<"digit">>
    /\ thread_kill(id) /\ Goto(Shell, "free")

command_ps ==
    /\ Calls("ps")
    /\ thread_ps /\ Goto(Shell, "free")

(* The lines command_ps prints: the first count entries of an array that   *)
(* was on the stack; NULL is an entry nobody wrote.                        *)
ps_lines == {ps_info[n] : n \in 0 .. ps_count - 1}

(* help, echo, version, clear, an unknown command, an empty line or a run  *)
(* or kill without its argument: output only, so the shell goes straight   *)
(* on to free the line.                                                    *)
Prints ==
    /\ At(Shell, "execute")
    /\ ~Calls("ps")
    /\ ~(Calls("run") /\ Argument # <<>>)
    /\ ~(Calls("kill") /\ Argument = <<"digit">>)

shell_main ==
    /\ \/ /\ At(Shell, "prompt") /\ UNCHANGED asked
          /\ thread_recv("CONSRX") /\ Goto(Shell, "execute")
       \/ command_run
       \/ /\ UNCHANGED asked
          /\ command_ps \/ \E id \in KillIds : command_kill(id)
       \/ /\ At(Shell, "free") \/ Prints
          /\ thread_free /\ Goto(Shell, "prompt")
          /\ UNCHANGED asked
    /\ UNCHANGED <<uart, job, bg, history>>
-----------------------------------------------------------------------------
load_request ==
    /\ \/ /\ At(Exec, "recv") /\ thread_recv("APPREQUEST") /\ Goto(Exec, "load")
          /\ UNCHANGED job
       \/ /\ At(Exec, "load") /\ thread_send("SDREQUEST", "none")
          /\ Goto(Exec, "await load")
          /\ job' = [job EXCEPT !.kind = Got(Exec)]
       \/ /\ At(Exec, "await load") /\ thread_recv("SDRESULT") /\ Goto(Exec, "start")
          /\ UNCHANGED job
    /\ UNCHANGED <<bg, history>>

load_failed_goes_on ==
    /\ At(Exec, "start") /\ Got(Exec) = "failed"
    /\ thread_send("CMDEND", "none") /\ Goto(Exec, "end")
    /\ failures' = failures + 1
    /\ UNCHANGED <<job, bg, cause>>

(* exec.c 49-57: the request block is not freed on this path.              *)
load_failed ==
    /\ At(Exec, "start") /\ Got(Exec) = "failed"
    /\ thread_send("CMDEND", "none") /\ Goto(Exec, "recv")
    /\ failures' = failures + 1
    /\ UNCHANGED <<job, bg, cause>>

start_app ==
    /\ At(Exec, "start") /\ Got(Exec) = "loaded"
    /\ thread_run("APP", 8, 1)
    /\ \/ /\ room("APP", 1) /\ FreeSlots # {}
          /\ pc' = [pc EXCEPT ![Exec] = IF job.kind = "bg" THEN "end" ELSE "await app",
                              ![FreeSlot] = "entry"]
          /\ job' = [job EXCEPT !.id = FreeSlot]
          /\ bg' = [bg EXCEPT ![FreeSlot] = (job.kind = "bg")]
          /\ cause' = IF job.kind = "bg" THEN cause ELSE FALSE
       \/ /\ ~(room("APP", 1) /\ FreeSlots # {})
          /\ UNCHANGED <<pc, job, bg, cause>>
    /\ UNCHANGED failures

finish_app_ends_first ==
    /\ \/ At(Exec, "await app") /\ thread_recv("APPEVENT") /\ Goto(Exec, "end")
       \/ At(Exec, "kill") /\ thread_kill(job.id) /\ Goto(Exec, "free")
       \/ /\ At(Exec, "end") /\ thread_send("CMDEND", "none")
          /\ Goto(Exec, IF job.kind = "fg" THEN "kill" ELSE "free")
       \/ At(Exec, "free") /\ thread_free /\ Goto(Exec, "recv")
    /\ UNCHANGED <<job, bg, history>>

finish_app_keeps_request ==
    /\ \/ At(Exec, "await app") /\ thread_recv("APPEVENT") /\ Goto(Exec, "kill")
       \/ At(Exec, "kill") /\ thread_kill(job.id) /\ Goto(Exec, "end")
       \/ At(Exec, "end") /\ thread_send("CMDEND", "none") /\ Goto(Exec, "recv")
       \/ At(Exec, "free") /\ thread_free /\ Goto(Exec, "recv")
    /\ UNCHANGED <<job, bg, history>>

finish_app_tells_nobody ==
    /\ \/ At(Exec, "await app") /\ thread_recv("APPEVENT") /\ Goto(Exec, "kill")
       \/ At(Exec, "kill") /\ thread_kill(job.id) /\ Goto(Exec, "free")
       \/ At(Exec, "end") /\ thread_send("CMDEND", "none") /\ Goto(Exec, "free")
       \/ At(Exec, "free") /\ thread_free /\ Goto(Exec, "recv")
    /\ UNCHANGED <<job, bg, history>>

(* Foreground: wait for the app's end or Ctrl-C, then kill the wrapper.    *)
(* Both: tell the shell, free the request.                                 *)
finish_app ==
    /\ \/ At(Exec, "await app") /\ thread_recv("APPEVENT") /\ Goto(Exec, "kill")
       \/ At(Exec, "kill") /\ thread_kill(job.id) /\ Goto(Exec, "end")
       \/ At(Exec, "end") /\ thread_send("CMDEND", "none") /\ Goto(Exec, "free")
       \/ At(Exec, "free") /\ thread_free /\ Goto(Exec, "recv")
    /\ UNCHANGED <<job, bg, history>>

exec_main ==
    /\ load_request \/ load_failed \/ start_app \/ finish_app
    /\ UNCHANGED <<uart, asked>>

(* exec_app: entry returns if it ever does; a foreground app says so.      *)
exec_app(t) ==
    /\ \/ /\ At(t, "entry") /\ ~bg[t]
          /\ thread_send("APPEVENT", "none") /\ Goto(t, "exit")
          /\ cause' = TRUE
       \/ /\ \/ At(t, "exit")
             \/ At(t, "entry") /\ bg[t]
          /\ thread_exit /\ Goto(t, "none")
          /\ UNCHANGED cause
    /\ UNCHANGED <<uart, locals, failures>>
-----------------------------------------------------------------------------
(* consdrv_interrupt: an Enter allocates the line and sends it, in one     *)
(* handler, so nothing else runs between the two; Ctrl-C sends APPEVENT.   *)
Interruptible == halted = "no" /\ uart = "idle"

send_input_line ==
    /\ \/ /\ Interruptible
          /\ picoxs_malloc
          /\ uart' \in Commands
       \/ /\ halted = "no" /\ uart \in Commands
          /\ picoxs_send("CONSRX", uart)
          /\ uart' = "idle"
    /\ UNCHANGED <<pc, locals, history>>

ctrl_c ==
    /\ Interruptible
    /\ picoxs_send("APPEVENT", "none")
    /\ cause' = TRUE
    /\ UNCHANGED <<pc, uart, locals, failures>>

systick ==
    /\ Interruptible /\ pc[Main] = "wfi"
    /\ timer_intr
    /\ UNCHANGED system
-----------------------------------------------------------------------------
SystemNext ==
    \/ start_thread
    \/ consdrv_main
    \/ sddrv_main
    \/ shell_main
    \/ exec_main
    \/ \E t \in Apps : exec_app(t)
    \/ send_input_line
    \/ ctrl_c
    \/ systick

SystemSpec == SystemInit /\ [][SystemNext]_rvars

(* SysTick is periodic, a handler that has begun ends, and a thread that   *)
(* is dispatched again and again gets through to its next call; an app may *)
(* compute for ever, and nobody has to type.                               *)
FairSystem ==
    /\ SystemSpec
    /\ WF_rvars(systick)
    /\ WF_rvars(send_input_line /\ uart \in Commands)
    /\ WF_rvars(start_thread)
    /\ SF_rvars(consdrv_main)
    /\ SF_rvars(sddrv_main)
    /\ SF_rvars(shell_main)
    /\ SF_rvars(exec_main)
-----------------------------------------------------------------------------
InForeground(t) == t \in Apps /\ live(t) /\ ~bg[t]

(* The console belongs to the shell or to one foreground app: while a      *)
(* foreground wrapper exists the shell waits for its end, and there is one *)
(* at most.                                                                *)
OneForeground ==
    /\ Cardinality({t \in Apps : InForeground(t)}) <= 1
    /\ (\E t \in Apps : InForeground(t)) =>
         pc[Shell] = "await end" \/ (pc[Shell] = "free" /\ receiver["CMDEND"] = Shell)

(* A run has one request on its way and gets one answer: messages of the   *)
(* handshake never pile up, and an answer finds the shell at its recv.     *)
Handshake ==
    /\ Len(box["APPREQUEST"]) + Len(box["CMDEND"]) + Len(box["SDREQUEST"])
         + Len(box["SDRESULT"]) <= 1
    /\ box["CMDEND"] # <<>> => pc[Shell] = "await end"
    /\ box["APPREQUEST"] # <<>> => pc[Shell] \in {"await end", "free"}

(* Every block handed out is accounted for: a typed line until the shell   *)
(* frees it, a request until exec does, and, never freed, the request of   *)
(* each load that failed.  Nothing else leaks and nothing is freed twice.  *)
HoldsLine ==
    \/ pc[Shell] \in {"send", "await end", "free"}
    \/ pc[Shell] = "execute" /\ tcb[Shell].got # NULL

HoldsRequest ==
    \/ pc[Exec] \in {"await load", "start", "await app", "kill", "end", "free"}
    \/ pc[Exec] = "load" /\ tcb[Exec].got # NULL

One(P) == IF P THEN 1 ELSE 0

LeakOnlyOnFailure ==
    halted = "no" =>
        held = Len(box["CONSRX"]) + One(uart \in Commands) + One(HoldsLine)
                 + Len(box["APPREQUEST"]) + One(pc[Shell] = "send") + One(HoldsRequest)
                 + failures

(* Once exec has the event that ends a foreground app, the prompt comes    *)
(* back (or the system goes down), whatever is typed meanwhile.            *)
PromptReturns ==
    (pc[Exec] = "kill" /\ tcb[Exec].got # NULL) ~> (pc[Shell] = "prompt" \/ halted # "no")
-----------------------------------------------------------------------------
(* What comments of the repository say, and the program does not keep.     *)

(* exec.c:67, on the recv of APPEVENT: the message comes from the app's    *)
(* end or from Ctrl-C.  An event typed before this app was started does.   *)
EventHasCause ==
    pc[Exec] = "kill" /\ tcb[Exec].got # NULL => cause

(* kernel.c:53: the receiver of a box is a thread waiting to receive.      *)
ReceiverWaits ==
    \A b \in MsgBox : receiver[b] # NULL =>
        live(receiver[b]) /\ receiver[b] \notin rq.ready /\ tcb[receiver[b]].type = "RECV"

(* shell.c:57 and 142: ps shows the process status, the id, name and       *)
(* priority of each.                                                       *)
PsListsThreads ==
    Calls("ps") =>
        ps_lines = {[id |-> t, priority |-> tcb[t].priority] : t \in {u \in Thread : live(u)}}

(* shell.c:117: run waits until the command's execution ends.  A command   *)
(* in the background ends as soon as its thread is started.                *)
BackgroundRunEnds ==
    (pc[Shell] = "await end" /\ asked = "bg") ~> (pc[Shell] = "prompt" \/ halted # "no")
=============================================================================
