------------------------------ MODULE TextPipe ------------------------------
(* The console's output as its writers see it: a pipe that takes a text    *)
(* whole or not at all, in the order it is given them, and loses, repeats  *)
(* and reorders nothing it has taken.                                      *)
EXTENDS Sequences

CONSTANT Outputs        \* the texts, as they leave the pipe

VARIABLE pipe

Init == pipe = <<>>

Take(text) == pipe' = pipe \o text

Emit == pipe # <<>> /\ pipe' = Tail(pipe)

Next == Emit \/ \E text \in Outputs : Take(text)

Spec == Init /\ [][Next]_pipe
=============================================================================
