---------------------------- MODULE CommandLine ----------------------------
(* How the shell takes a line apart (shell.c).  A line is a sequence of    *)
(* characters; a word whose letters do not matter is one character.        *)
EXTENDS Integers, SequencesExt

(* The line up to end, once the spaces before end are taken off.           *)
before_spaces(s) == SubSeq(s, 1, SelectLastInSeq(s, LAMBDA c : c # " "))

skip_spaces(s) == Reverse(before_spaces(Reverse(s)))

(* A final & asks for the background, with or without spaces around it.    *)
command_execute(line) ==
    LET words      == before_spaces(skip_spaces(line))
        background == words # <<>> /\ Last(words) = "&"
        rest       == IF background THEN before_spaces(Front(words)) ELSE words
        space      == SelectInSeq(rest, LAMBDA c : c = " ")
    IN  [command    |-> IF space = 0 THEN rest ELSE SubSeq(rest, 1, space - 1),
         argument   |-> IF space = 0 THEN <<>>
                        ELSE skip_spaces(SubSeq(rest, space + 1, Len(rest))),
         background |-> background]

(* The command, its argument and the background come out as they went in,  *)
(* whatever spaces are between and around them.  An argument may contain   *)
(* spaces and &; without the background it does not end in one.            *)
Spaces(n) == [i \in 1 .. n |-> " "]

Trimmed(s) == s = <<>> \/ (Head(s) # " " /\ Last(s) # " ")

ParsesLines(chars, length, spaces) ==
    \A command, argument \in BoundedSeq(chars, length), background \in BOOLEAN,
       i, j, k, l \in 0 .. spaces :
        LET words == command \o Spaces(j) \o argument IN
        (/\ command # <<>> /\ " " \notin ToSet(command)
         /\ Trimmed(argument) /\ (argument # <<>> => j > 0)
         /\ background \/ Last(before_spaces(words)) # "&") =>
            command_execute(Spaces(i) \o words \o Spaces(k)
                              \o (IF background THEN <<"&">> ELSE <<>>) \o Spaces(l)) =
            [command |-> command, argument |-> argument, background |-> background]
=============================================================================
