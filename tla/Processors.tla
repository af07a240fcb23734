----------------------------- MODULE Processors -----------------------------
(***************************************************************************)
(* What a thread may take for granted: a processor and a stack of its own. *)
(* Only its own instructions change them; interrupts and the calls of      *)
(* others leave no trace.  A system call returns behind the svc            *)
(* instruction with everything else as it was, and what it does is what    *)
(* r0 asks for.                                                            *)
(***************************************************************************)
EXTENDS Integers, Functions

CONSTANTS
    NULL,
    R0, PC,     \* where in a processor these two registers are
    Mode,       \* where those are that a thread's own code does not change
    Fresh       \* call that starts a thread -> what its processor may hold then

VARIABLES
    processor,  \* live thread -> its registers, then its stack: a sequence of words
    running     \* the thread whose instructions are executed

pvars == <<processor, running>>

Init ==
    /\ running = 0
    /\ \E c \in Fresh["run"] : processor = [t \in {0} |-> c]

(* The running thread's own code.                                          *)
Work(old, new) ==
    /\ DOMAIN new = DOMAIN old
    /\ \A i \in Mode : new[running][i] = old[running][i]
    /\ \A t \in DOMAIN old \ {running} : new[t] = old[t]

(* What the kernel does for the call the running thread has stopped at.    *)
Call(old, new) ==
    LET asked    == old[running][R0][1]
        returned == [old EXCEPT ![running][PC] = <<"returned", 0>>]
    IN  /\ old[running][PC] = <<"svc", 0>>
        /\ \/ asked # "exit" /\ new = returned
           \/ /\ asked \in DOMAIN Fresh
              /\ \E t \in DOMAIN new \ DOMAIN old :
                    DOMAIN new = DOMAIN old \cup {t} /\ new[t] \in Fresh[asked]
              /\ Restrict(new, DOMAIN old) = returned
           \/ asked = "exit" /\ new = Restrict(old, DOMAIN old \ {running})
           \/ asked = "kill" /\ \E t \in DOMAIN old \ {running} :
                    new = Restrict(returned, DOMAIN old \ {t})

Next ==
    LET old == processor  new == processor' IN
    \/ Work(old, new) /\ UNCHANGED running
    \/ /\ new = old \/ Call(old, new)
       /\ running' \in DOMAIN new \cup {NULL}

Spec == Init /\ [][Next]_pvars
=============================================================================
