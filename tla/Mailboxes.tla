----------------------------- MODULE Mailboxes -----------------------------
(* Message boxes as threads see them: each a queue of messages, or a       *)
(* thread that waits for one.                                              *)
EXTENDS Sequences

CONSTANTS Boxes, Threads, Contents, NULL

VARIABLES mail, waiting, last

Init ==
    /\ mail = [b \in Boxes |-> <<>>]
    /\ waiting = [b \in Boxes |-> NULL]
    /\ last = [t \in Threads |-> [sender |-> NULL, p |-> NULL]]

Send(t, b, p) ==
    LET m == [sender |-> t, p |-> p] IN
    \/ /\ waiting[b] = NULL
       /\ mail' = [mail EXCEPT ![b] = Append(@, m)]
       /\ UNCHANGED <<waiting, last>>
    \/ /\ waiting[b] # NULL
       /\ last' = [last EXCEPT ![waiting[b]] = m]
       /\ waiting' = [waiting EXCEPT ![b] = NULL]
       /\ UNCHANGED mail

Recv(t, b) ==
    /\ waiting[b] = NULL
    /\ \/ /\ mail[b] = <<>>
          /\ waiting' = [waiting EXCEPT ![b] = t]
          /\ UNCHANGED <<mail, last>>
       \/ /\ mail[b] # <<>>
          /\ last' = [last EXCEPT ![t] = Head(mail[b])]
          /\ mail' = [mail EXCEPT ![b] = Tail(@)]
          /\ UNCHANGED waiting

Next ==
    \/ \E t \in Threads, b \in Boxes, p \in Contents : Send(t, b, p)
    \/ \E t \in Threads, b \in Boxes : Recv(t, b)

Spec == Init /\ [][Next]_<<mail, waiting, last>>
=============================================================================
