---------------------------- MODULE MessageBoxes ----------------------------
(***************************************************************************)
(* The message boxes of kernel.c on the allocator of memory.c: a message   *)
(* waits in a picox_msgbuf that sendmsg takes from the pools and links     *)
(* behind the box's tail, and that recvmsg unlinks and gives back.  They   *)
(* share the pools with what threads allocate for themselves.              *)
(*                                                                         *)
(* Definitions named <function>_<fault> are wrong versions of a function,  *)
(* kept to show which property notices the fault.                          *)
(***************************************************************************)
EXTENDS Memory

CONSTANTS Boxes, Threads, Contents

ASSUME BoxAssumption == NULL \notin Threads

MSGBUF == 16    \* sizeof(picox_msgbuf)

VARIABLES
    buffer,     \* block -> the picox_msgbuf in it: [next, sender, p]
    box,        \* msgboxs[]: [receiver, head, tail]
    result,     \* thread -> what its last recv returned: [sender, p]
    held        \* the blocks threads have from picox_malloc

bvars == <<heap, down, buffer, box, result, held>>

Nothing == [sender |-> NULL, p |-> NULL]
Unused  == [next |-> NULL, sender |-> NULL, p |-> NULL]

Init ==
    /\ heap = picoxmem_init /\ down = "no"
    /\ buffer = [a \in AllBlocks |-> Unused]
    /\ box = [b \in Boxes |-> [receiver |-> NULL, head |-> NULL, tail |-> NULL]]
    /\ result = [t \in Threads |-> Nothing]
    /\ held = {}
-----------------------------------------------------------------------------
(* sendmsg and recvmsg act on several of the variables, here the fields of *)
(* a record k.                                                             *)
now == [heap |-> heap, buffer |-> buffer, box |-> box, result |-> result]

becomes(k) ==
    /\ heap' = k.heap /\ buffer' = k.buffer /\ box' = k.box /\ result' = k.result
    /\ UNCHANGED <<down, held>>

sendmsg(k, b, t, p) ==
    LET a    == allocated(k.heap, MSGBUF)
        last == k.box[b].tail
        new  == [k.buffer EXCEPT ![a] = [next |-> NULL, sender |-> t, p |-> p]]
    IN  [k EXCEPT
            !.heap = picoxmem_alloc(@, MSGBUF),
            !.buffer = IF last = NULL THEN new ELSE [new EXCEPT ![last].next = a],
            !.box[b].head = IF last = NULL THEN a ELSE @,
            !.box[b].tail = a]

recvmsg_keeps_receiver(k, b) ==
    LET a    == k.box[b].head
        rest == k.buffer[a].next
    IN  [k EXCEPT
            !.box[b] = [receiver |-> @.receiver, head |-> rest,
                        tail |-> IF rest = NULL THEN NULL ELSE @.tail],
            !.result[k.box[b].receiver] = [sender |-> k.buffer[a].sender, p |-> k.buffer[a].p],
            !.buffer[a] = Unused,
            !.heap = picoxmem_free(@, a)]

recvmsg_keeps_buffer(k, b) ==
    LET a    == k.box[b].head
        rest == k.buffer[a].next
    IN  [k EXCEPT
            !.box[b] = [receiver |-> NULL, head |-> rest,
                        tail |-> IF rest = NULL THEN NULL ELSE @.tail],
            !.result[k.box[b].receiver] = [sender |-> k.buffer[a].sender, p |-> k.buffer[a].p],
            !.buffer[a] = Unused]

(* The message at the head goes to the box's receiver.  What is left in    *)
(* the freed block is blanked, so that a second use of it would show.      *)
recvmsg(k, b) ==
    LET a    == k.box[b].head
        rest == k.buffer[a].next
    IN  [k EXCEPT
            !.box[b] = [receiver |-> NULL, head |-> rest,
                        tail |-> IF rest = NULL THEN NULL ELSE @.tail],
            !.result[k.box[b].receiver] = [sender |-> k.buffer[a].sender, p |-> k.buffer[a].p],
            !.buffer[a] = Unused,
            !.heap = picoxmem_free(@, a)]

goes_down(size) == sysdown(size) /\ UNCHANGED <<heap, buffer, box, result, held>>
-----------------------------------------------------------------------------
Waiting(t) == \E b \in Boxes : box[b].receiver = t

thread_send(t, b, p) ==
    /\ ~Waiting(t)
    /\ \/ goes_down(MSGBUF)
       \/ /\ available(heap, MSGBUF)
          /\ LET sent == sendmsg(now, b, t, p) IN
             becomes(IF box[b].receiver # NULL THEN recvmsg(sent, b) ELSE sent)

(* A second receiver would take the system down; callers have a box each.  *)
thread_recv(t, b) ==
    /\ ~Waiting(t) /\ box[b].receiver = NULL
    /\ LET asked == [now EXCEPT !.box[b].receiver = t] IN
       becomes(IF box[b].head = NULL THEN asked ELSE recvmsg(asked, b))

thread_malloc(size) ==
    \/ goes_down(size)
    \/ /\ available(heap, size)
       /\ heap' = picoxmem_alloc(heap, size)
       /\ held' = held \cup {allocated(heap, size)}
       /\ UNCHANGED <<down, buffer, box, result>>

thread_free(a) ==
    /\ heap' = picoxmem_free(heap, a)
    /\ held' = held \ {a}
    /\ UNCHANGED <<down, buffer, box, result>>

Next ==
    /\ down = "no"
    /\ \/ \E t \in Threads, b \in Boxes, p \in Contents : thread_send(t, b, p)
       \/ \E t \in Threads, b \in Boxes : thread_recv(t, b)
       \/ \E size \in Requests : thread_malloc(size)
       \/ \E a \in held : thread_free(a)

Spec == Init /\ [][Next]_bvars
-----------------------------------------------------------------------------
Queued(b) ==
    Chain(box[b].head, [a \in AllBlocks |-> buffer[a].next], Cardinality(AllBlocks))

(* Every block that is out is a thread's or waits in one box; so no buffer *)
(* is lost, and none is freed while it is linked (sendmsg, recvmsg).       *)
NoLostBuffer ==
    LET linked == [b \in Boxes |-> ToSet(Queued(b))] IN
    /\ DOMAIN heap.given = held \cup UNION Range(linked)
    /\ \A b \in Boxes :
        /\ IsInjective(Queued(b)) /\ linked[b] \cap held = {}
        /\ \A c \in Boxes \ {b} : linked[b] \cap linked[c] = {}

(* What callers of the allocator can count: the blocks left in each pool,  *)
(* and those that are out for each size asked for.                         *)
Sizes == Requests \cup {MSGBUF}

Left == [i \in Index |-> Cardinality(Blocks(i) \ DOMAIN heap.given)]

AskedFor ==
    [size \in Sizes |-> Cardinality({a \in DOMAIN heap.given : heap.given[a] = size})]

Counters == INSTANCE BlockPool WITH
    Capacity <- [i \in Index |-> Pools[i].num],
    Usable   <- [i \in Index |-> Pools[i].size - HEADER],
    Requests <- Sizes,
    left     <- Left,
    asked    <- AskedFor,
    stopped  <- down

(* Kernel keeps only how many blocks are left; that is all an allocation   *)
(* depends on: it takes one of the smallest size that holds the request,   *)
(* and the system goes down exactly when that count is zero or no pool     *)
(* holds it (picoxmem_alloc, picoxmem_free).                               *)
CountsBlocks == Counters!Spec

(* The boxes read along their links, and who waits in them.                *)
Mailed ==
    [b \in Boxes |->
        LET q == Queued(b) IN
        [i \in DOMAIN q |-> [sender |-> buffer[q[i]].sender, p |-> buffer[q[i]].p]]]

Receiver == [b \in Boxes |-> box[b].receiver]

Mail == INSTANCE Mailboxes WITH
    mail    <- Mailed,
    waiting <- Receiver,
    last    <- result

(* Read along their links the boxes are the queues of messages that Kernel *)
(* has: each message once, in order, to one receiver (thread_send,         *)
(* thread_recv with their pointers).                                       *)
KeepsMessages == Mail!Spec
=============================================================================
