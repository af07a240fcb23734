----------------------------- MODULE RunProofs -----------------------------
(***************************************************************************)
(* The shell, the app thread and the SD driver over the kernel: one app in *)
(* the foreground, one request on its way, no block lost but with a failed *)
(* load; for any numbers of slots, stacks and blocks, as long as only apps *)
(* are killed from the prompt.                                             *)
(*                                                                         *)
(* The invariant says of each program's place which boxes it waits on and  *)
(* what it has to hand on.  A step is a call of one thread, or of the      *)
(* console's handler; the kernel's effect of a call is stated once         *)
(* (Sent, Received, Spared), and every thread the call does not name keeps *)
(* its slot and its place in the queues.                                   *)
(***************************************************************************)
EXTENDS RunCommand, KernelProofs

USE NullAssumption, ThreadAssumption, PriorityAssumption

(* Who receives from a box, and where its program goes on from there.      *)
Place ==
    [CONSTX     |-> [reader |-> Consdrv, at |-> "recv"],
     SDREQUEST  |-> [reader |-> Sddrv,   at |-> "load"],
     CONSRX     |-> [reader |-> Shell,   at |-> "execute"],
     CMDEND     |-> [reader |-> Shell,   at |-> "free"],
     APPREQUEST |-> [reader |-> Exec,    at |-> "load"],
     SDRESULT   |-> [reader |-> Exec,    at |-> "start"],
     APPEVENT   |-> [reader |-> Exec,    at |-> "kill"]]

Waits(b) ==
    LET t == Place[b].reader IN
    /\ receiver[b] = t /\ pc[t] = Place[b].at /\ box[b] = <<>>
    /\ tcb[t].type = "RECV" /\ tcb[t].got = NULL /\ t \notin rq.ready

Waiters == \A b \in MsgBox : receiver[b] = NULL \/ Waits(b)

(* What a thread has received it has until its next call; exec, when its   *)
(* run was refused, is not ready again.                                    *)
Fetched ==
    /\ pc[Shell] = "execute" /\ tcb[Shell].got = NULL => receiver["CONSRX"] = Shell
    /\ pc[Exec] = "load" /\ tcb[Exec].got = NULL => receiver["APPREQUEST"] = Exec
    /\ pc[Exec] = "start" /\ tcb[Exec].got = NULL => Exec \notin rq.ready

(* How far main is: the threads started before it and the stack used.      *)
Boots ==
    {<<"run consdrv", 1, 1>>, <<"run sddrv", 2, 2>>, <<"run shell", 3, 4>>, <<"run exec", 4, 5>>,
     <<"chpri", 5, 7>>, <<"systick_init", 5, 7>>, <<"wfi", 5, 7>>}

Booted ==
    \E n \in 1 .. 5, used \in 1 .. 7 :
        /\ <<pc[Main], n, used>> \in Boots
        /\ \A t \in 0 .. 4 : live(t) <=> t < n
        /\ \A t \in 1 .. 4 : t >= n => pc[t] = "none"
        /\ n < 5 => \A t \in Apps : ~live(t)
        /\ stack["RUN"] = USER_STACK - used

(* Who waits for an answer has it coming: its request lies in a box, or is *)
(* in somebody's hands, or the answer lies in a box.                       *)
InHand(request, taken_up, answer, waits) ==
    \/ ~waits /\ ~taken_up /\ request = <<>> /\ answer = <<>>
    \/ waits /\ taken_up /\ request = <<>> /\ answer = <<>>
    \/ waits /\ ~taken_up /\ Len(request) = 1 /\ answer = <<>>
    \/ waits /\ ~taken_up /\ request = <<>> /\ Len(answer) = 1

(* The shell waits for exec, exec for the SD driver.                       *)
ShellWaits == pc[Shell] = "await end" \/ receiver["CMDEND"] = Shell

ExecRuns ==
    \/ pc[Exec] \in {"await load", "start", "await app", "kill", "end"}
    \/ pc[Exec] = "load" /\ receiver["APPREQUEST"] # Exec

RunInHand == InHand(box["APPREQUEST"], ExecRuns, box["CMDEND"], ShellWaits)

ExecWaits == pc[Exec] = "await load" \/ receiver["SDRESULT"] = Exec

SddrvLoads == pc[Sddrv] = "load" /\ receiver["SDREQUEST"] # Sddrv

LoadInHand == InHand(box["SDREQUEST"], SddrvLoads, box["SDRESULT"], ExecWaits)

(* The app exec waits for is the only one in the foreground.               *)
Foreground ==
    /\ pc[Exec] \in {"await app", "kill"} => job.id \in Apps
    /\ \A t \in Apps : InForeground(t) => t = job.id /\ pc[Exec] \in {"await app", "kill"}

LocalTypes ==
    /\ pc = [t \in Thread |-> pc[t]]
    /\ uart \in {"off", "idle"} \cup Commands
    /\ asked \in {"fg", "bg"}
    /\ job \in [kind : Data, id : Thread]
    /\ bg \in [Thread -> BOOLEAN]
    /\ failures \in Nat

Places == LocalTypes /\ Booted /\ Waiters /\ Fetched

(* The blocks that are lines, the blocks that are requests for exec.       *)
lines == Len(box["CONSRX"]) + One(uart \in Commands) + One(HoldsLine)

requests == Len(box["APPREQUEST"]) + One(pc[Shell] = "send") + One(HoldsRequest)

Accounted == halted = "no" => held = lines + requests + failures

Handed == RunInHand /\ LoadInHand /\ Foreground /\ Accounted

Programs == Places /\ Handed
-----------------------------------------------------------------------------
(* What the kernel does for a caller.                                      *)
Spared(t) == tcb'[t] = tcb[t] /\ (t \in rq'.ready <=> t \in rq.ready)

SameLife == \A t \in Thread : tcb'[t].func = tcb[t].func

OtherBoxes(b) == \A o \in MsgBox \ {b} : receiver'[o] = receiver[o] /\ box'[o] = box[o]

(* A message of the threads S to box b.                                    *)
Sent(b, S) ==
    /\ SameLife /\ OtherBoxes(b) /\ held' = held /\ stack' = stack /\ receiver'[b] = NULL
    /\ \/ /\ receiver[b] = NULL
          /\ Len(box'[b]) = Len(box[b]) + 1 /\ (box[b] = <<>> => Len(box'[b]) = 1)
          /\ \A t \in Thread \ S : Spared(t)
       \/ /\ receiver[b] = Place[b].reader
          /\ box'[b] = box[b]
          /\ tcb'[receiver[b]].got # NULL
          /\ \A t \in Thread \ (S \cup {receiver[b]}) : Spared(t)

(* A recv of the caller.                                                   *)
Received(b) ==
    /\ SameLife /\ OtherBoxes(b) /\ held' = held /\ stack' = stack /\ receiver[b] = NULL
    /\ \A t \in Thread \ {current} : Spared(t)
    /\ \/ /\ box[b] = <<>> /\ box'[b] = <<>> /\ receiver'[b] = current
          /\ tcb'[current].type = "RECV" /\ tcb'[current].got = NULL
          /\ current \notin rq'.ready
       \/ /\ box[b] # <<>> /\ receiver'[b] = NULL
          /\ Len(box'[b]) = Len(box[b]) - 1 /\ (Len(box[b]) = 1 => box'[b] = <<>>)
          /\ tcb'[current].got # NULL

(* A call that leaves the boxes alone and the other threads of S.          *)
Called(S) == UNCHANGED mail /\ \A t \in Thread \ S : Spared(t)

LEMMA Entered ==
    ASSUME Kept, NEW type \in CallType
    PROVE  /\ \A t \in Thread : entered(type)[t].func = tcb[t].func
           /\ \A t \in Thread \ {current} : entered(type)[t] = tcb[t]
           /\ entered(type)[current].type = type
           /\ entered(type)[current].got = NULL
           /\ entered(type) \in [Thread -> Tcb]
           /\ taken.ready = rq.ready \ {current}
           /\ requeue(taken).ready = rq.ready
           /\ current \in rq.ready /\ current \in Thread
<1>1. current \in Thread /\ tcb \in [Thread -> Tcb] /\ tcb[current] \in Tcb
  BY KeptTypes
<1>2. entered(type)[current].got = NULL
  BY <1>1 DEF entered, Tcb
<1>3. QED
  BY <1>2, EnteredSlots, Entry, TakenSound

(* A thread that waits on a box is not the caller.                         *)
LEMMA CallerWaitsNot ==
    ASSUME Kept, Waiters, NEW b \in MsgBox, receiver[b] # NULL
    PROVE  Waits(b) /\ receiver[b] # current /\ receiver[b] \in Thread
<1>1. Waits(b) /\ receiver[b] \in Thread
  BY KeptTypes DEF Waiters
<1>2. current \in rq.ready
  BY TakenSound
<1>3. QED
  BY <1>1, <1>2 DEF Waits

LEMMA Posting ==
    ASSUME Kept, Waiters, NEW b \in MsgBox, NEW m \in Message, NEW s, NEW tc \in [Thread -> Tcb],
           NEW S, S \subseteq {current}, post(b, m, s, tc), s.ready = rq.ready,
           \A t \in Thread : tc[t].func = tcb[t].func,
           \A t \in Thread \ S : tc[t] = tcb[t]
    PROVE  halt("sysdown") \/ Sent(b, S)
<1>1. CASE blocks = 0
  BY <1>1 DEF post
<1>2. CASE /\ receiver[b] = NULL
           /\ box' = [box EXCEPT ![b] = Append(@, m)]
           /\ tcb' = tc /\ schedule(s)
           /\ UNCHANGED <<receiver, held, stack>>
  <2>1. PICK q \in Seq(Message) : q = box[b]
    BY KeptTypes
  <2>2. Len(Append(q, m)) = Len(q) + 1 /\ (q = <<>> => Len(Append(q, m)) = 1)
    BY <2>1
  <2>3. box'[b] = Append(q, m) /\ \A o \in MsgBox \ {b} : box'[o] = box[o]
    BY <1>2, <2>1, KeptTypes
  <2>4. rq'.ready = rq.ready
    BY <1>2, Rescheduled
  <2>5. QED
    BY <1>2, <2>1, <2>2, <2>3, <2>4 DEF Sent, SameLife, OtherBoxes, Spared
<1>3. CASE /\ receiver[b] # NULL
           /\ deliver(b, receiver[b], Append(box[b], m), s, tc)
           /\ UNCHANGED memory
  <2>1. PICK t \in Thread : t = receiver[b]
    BY <1>3, CallerWaitsNot
  <2>2. /\ Waits(b) /\ t # current /\ t = Place[b].reader /\ box[b] = <<>>
        /\ tcb[t].type = "RECV" /\ tc[t] = tcb[t]
    BY <1>3, <2>1, CallerWaitsNot DEF Waits
  <2>3. /\ box' = [box EXCEPT ![b] = Tail(Append(box[b], m))]
        /\ tcb' = [tc EXCEPT ![t].got = Head(Append(box[b], m))]
        /\ receiver' = [receiver EXCEPT ![b] = NULL]
        /\ schedule(putcurrent(s, t, tcb[t].priority))
    BY <1>3, <2>1, <2>2 DEF deliver
  <2>4. Tail(Append(<<>>, m)) = <<>> /\ Head(Append(<<>>, m)) = m /\ m # NULL
    BY DEF Message
  <2>5. /\ box'[b] = <<>> /\ receiver'[b] = NULL
        /\ OtherBoxes(b)
    BY <2>2, <2>3, <2>4, KeptTypes DEF OtherBoxes
  <2>6. tc[t] \in Tcb
    BY <2>1
  <2>7. /\ tcb'[t].got # NULL /\ tcb'[t].func = tc[t].func
        /\ \A u \in Thread \ {t} : tcb'[u] = tc[u]
    BY <2>2, <2>3, <2>4, <2>6 DEF Tcb
  <2>8. rq'.ready = rq.ready \cup {t}
    BY <2>1, <2>3, PutReady, Rescheduled
  <2>9. SameLife
    BY <2>7 DEF SameLife
  <2>10. \A u \in Thread \ (S \cup {t}) : Spared(u)
    BY <2>7, <2>8 DEF Spared
  <2>11. QED
    BY <1>3, <2>1, <2>2, <2>5, <2>7, <2>9, <2>10 DEF Sent, memory
<1>4. QED
  BY <1>1, <1>2, <1>3 DEF post

LEMMA Sending ==
    ASSUME Kept, Waiters, NEW b \in MsgBox, NEW d \in Data, thread_send(b, d)
    PROVE  halt("sysdown") \/ Sent(b, {current})
<1>1. [from |-> current, data |-> d] \in Message
  BY KeptTypes DEF Message
<1>2. "OTHER" \in CallType
  BY DEF CallType
<1>3. QED
  BY <1>1, <1>2, Entered, Posting DEF thread_send

LEMMA HandlerSends ==
    ASSUME Kept, Waiters, NEW b \in MsgBox, NEW d \in Data, picoxs_send(b, d)
    PROVE  halt("sysdown") \/ Sent(b, {})
<1>1. [from |-> NULL, data |-> d] \in Message
  BY DEF Message
<1>2. PICK m \in Message : post(b, m, rq, tcb)
  BY <1>1 DEF picoxs_send
<1>3. tcb \in [Thread -> Tcb] /\ {} \subseteq {current}
  BY KeptTypes
<1>4. \A t \in Thread \ {} : tcb[t] = tcb[t]
  OBVIOUS
<1>5. QED
  BY <1>2, <1>3, <1>4, Posting

LEMMA Receiving ==
    ASSUME Kept, Waiters, NEW b \in MsgBox, Place[b].reader = current, thread_recv(b)
    PROVE  Received(b)
<1>1. receiver[b] = NULL
  BY CallerWaitsNot DEF Waits
<1>2. /\ \A t \in Thread : entered("RECV")[t].func = tcb[t].func
      /\ \A t \in Thread \ {current} : entered("RECV")[t] = tcb[t]
      /\ entered("RECV")[current].type = "RECV" /\ entered("RECV")[current].got = NULL
      /\ entered("RECV") \in [Thread -> Tcb]
      /\ taken.ready = rq.ready \ {current} /\ current \in rq.ready /\ current \in Thread
  BY Entered DEF CallType
<1>3. CASE /\ box[b] = <<>>
           /\ receiver' = [receiver EXCEPT ![b] = current]
           /\ tcb' = entered("RECV")
           /\ schedule(taken)
           /\ UNCHANGED <<box, memory>>
  <2>1. rq'.ready = rq.ready \ {current}
    BY <1>2, <1>3, Rescheduled
  <2>2. receiver'[b] = current /\ OtherBoxes(b)
    BY <1>3, KeptTypes DEF OtherBoxes
  <2>3. QED
    BY <1>1, <1>2, <1>3, <2>1, <2>2 DEF Received, SameLife, Spared, memory
<1>4. CASE /\ box[b] # <<>>
           /\ deliver(b, current, box[b], taken, entered("RECV"))
           /\ UNCHANGED <<held, stack>>
  <2>1. PICK q \in Seq(Message) : q = box[b] /\ q # <<>>
    BY <1>4, KeptTypes
  <2>2. /\ Len(Tail(q)) = Len(q) - 1 /\ Head(q) # NULL
        /\ Len(q) = 1 => Tail(q) = <<>>
    <3>1. Len(Tail(q)) = Len(q) - 1 /\ Head(q) \in Message
      BY <2>1
    <3>2. NULL \notin Message
      BY DEF Message
    <3>3. Len(q) = 1 => Tail(q) = <<>>
      <4>1. PICK r \in Seq(Message) : r = Tail(q)
        BY <2>1, HeadTailProperties
      <4>2. Len(r) = 0 => r = <<>>
        BY EmptySeq
      <4>3. QED
        BY <2>1, <3>1, <4>1, <4>2, LenProperties
    <3>4. QED
      BY <3>1, <3>2, <3>3
  <2>3. PICK tc : tc = entered("RECV")
    OBVIOUS
  <2>4. /\ box' = [box EXCEPT ![b] = Tail(q)]
        /\ tcb' = [tc EXCEPT ![current].got = Head(q)]
        /\ receiver' = [receiver EXCEPT ![b] = NULL]
        /\ schedule(putcurrent(taken, current, tcb[current].priority))
    BY <1>2, <1>4, <2>1, <2>3 DEF deliver
  <2>5. rq'.ready = rq.ready
    <3>1. rq'.ready = taken.ready \cup {current}
      BY <1>2, <2>4, PutReady, Rescheduled
    <3>2. QED
      BY <1>2, <3>1
  <2>6. tc[current] \in Tcb
    BY <1>2, <2>3
  <2>7. /\ tcb'[current].got # NULL /\ tcb'[current].func = tc[current].func
        /\ \A t \in Thread \ {current} : tcb'[t] = tc[t]
    BY <1>2, <2>2, <2>3, <2>4, <2>6 DEF Tcb
  <2>8. receiver'[b] = NULL /\ box'[b] = Tail(q) /\ OtherBoxes(b)
    BY <2>4, KeptTypes DEF OtherBoxes
  <2>9. SameLife /\ \A t \in Thread \ {current} : Spared(t)
    BY <1>2, <2>3, <2>5, <2>7 DEF SameLife, Spared
  <2>10. QED
    BY <1>1, <1>4, <2>1, <2>2, <2>7, <2>8, <2>9 DEF Received
<1>5. QED
  BY <1>1, <1>3, <1>4 DEF thread_recv

LEMMA Yielding ==
    ASSUME Kept, yield
    PROVE  SameLife /\ Called({current}) /\ held' = held /\ stack' = stack
<1>1. "OTHER" \in CallType
  BY DEF CallType
<1>2. rq'.ready = rq.ready
  BY <1>1, Entered, Rescheduled DEF yield
<1>3. QED
  BY <1>1, <1>2, Entered DEF yield, SameLife, Called, Spared, memory

LEMMA Ticking ==
    ASSUME Kept, timer_intr
    PROVE  SameLife /\ Called({}) /\ held' = held /\ stack' = stack
<1>1. "OTHER" \in CallType
  BY DEF CallType
<1>2. rq'.ready = rq.ready
  BY <1>1, Entered, Rescheduled DEF timer_intr
<1>3. QED
  BY <1>2 DEF timer_intr, SameLife, Called, Spared, memory

LEMMA Allocating ==
    ASSUME Kept, thread_malloc
    PROVE  \/ halt("sysdown")
           \/ SameLife /\ Called({current}) /\ held' = held + 1 /\ stack' = stack
<1>1. "OTHER" \in CallType
  BY DEF CallType
<1>2. CASE /\ held' = held + 1 /\ tcb' = entered("OTHER")
           /\ schedule(requeue(taken)) /\ UNCHANGED <<mail, stack>>
  <2>1. rq'.ready = rq.ready
    BY <1>1, <1>2, Entered, Rescheduled
  <2>2. QED
    BY <1>1, <1>2, <2>1, Entered DEF SameLife, Called, Spared
<1>3. QED
  BY <1>2 DEF thread_malloc, alloc

LEMMA HandlerAllocates ==
    ASSUME Kept, picoxs_malloc
    PROVE  \/ halt("sysdown")
           \/ SameLife /\ Called({}) /\ held' = held + 1 /\ stack' = stack
<1>1. schedule(rq) => rq'.ready = rq.ready
  BY Rescheduled
<1>2. QED
  BY <1>1 DEF picoxs_malloc, alloc, SameLife, Called, Spared

LEMMA Freeing ==
    ASSUME Kept, thread_free
    PROVE  SameLife /\ Called({current}) /\ held' = held - 1 /\ stack' = stack
<1>1. "OTHER" \in CallType /\ held \in Nat
  BY KeptTypes DEF CallType
<1>2. rq'.ready = rq.ready
  BY <1>1, Entered, Rescheduled DEF thread_free, free
<1>3. QED
  BY <1>1, <1>2, Entered DEF thread_free, free, SameLife, Called, Spared

LEMMA Lowering ==
    ASSUME Kept, NEW pri \in Priority, thread_chpri(pri)
    PROVE  SameLife /\ Called({current}) /\ held' = held /\ stack' = stack
<1> DEFINE new == IF pri > 0 THEN pri ELSE tcb[current].priority
<1>1. "OTHER" \in CallType
  BY DEF CallType
<1>2. PICK tc : tc = entered("OTHER")
  OBVIOUS
<1>3. /\ tcb' = [tc EXCEPT ![current].priority = new]
      /\ schedule(putcurrent(taken, current, new)) /\ UNCHANGED <<mail, memory>>
  BY <1>2 DEF thread_chpri
<1> HIDE DEF new
<1>4. rq'.ready = taken.ready \cup {current}
  BY <1>1, <1>3, Entered, PutReady, Rescheduled
<1>5. tc \in [Thread -> Tcb] /\ tc[current] \in Tcb /\ current \in Thread
  BY <1>1, <1>2, Entered
<1>6. tcb'[current].func = tc[current].func /\ \A t \in Thread \ {current} : tcb'[t] = tc[t]
  BY <1>3, <1>5 DEF Tcb
<1>7. rq'.ready = rq.ready
  BY <1>1, <1>4, Entered
<1>8. QED
  BY <1>1, <1>2, <1>3, <1>6, <1>7, Entered DEF SameLife, Called, Spared, memory

LEMMA Exiting ==
    ASSUME Kept, thread_exit
    PROVE  /\ ~tcb'[current].func
           /\ \A t \in Thread \ {current} : tcb'[t].func = tcb[t].func
           /\ Called({current}) /\ held' = held /\ stack' = stack
<1>1. "OTHER" \in CallType
  BY DEF CallType
<1>2. rq'.ready = rq.ready \ {current}
  BY <1>1, Entered, Rescheduled DEF thread_exit
<1>3. ~tcb'[current].func /\ \A t \in Thread \ {current} : tcb'[t] = tcb[t]
  BY KeptTypes DEF thread_exit, Cleared
<1>4. QED
  BY <1>2, <1>3 DEF thread_exit, Called, Spared, memory

(* A kill ends the thread, or finds it ended and drops the caller.         *)
LEMMA Killing ==
    ASSUME Kept, NEW id \in Thread, id # current, thread_kill(id)
    PROVE  /\ ~tcb'[id].func /\ \A t \in Thread \ {id} : tcb'[t].func = tcb[t].func
           /\ Called({current, id}) /\ held' = held /\ stack' = stack
<1>1. "OTHER" \in CallType
  BY DEF CallType
<1>2. PICK tc : tc = entered("OTHER")
  OBVIOUS
<1>3. /\ tc \in [Thread -> Tcb] /\ taken.ready = rq.ready \ {current}
      /\ \A t \in Thread : tc[t].func = tcb[t].func
      /\ \A t \in Thread \ {current} : tc[t] = tcb[t]
  BY <1>1, <1>2, Entered
<1>4. CASE ~live(id) /\ tcb' = tc /\ schedule(taken) /\ UNCHANGED <<mail, memory>>
  <2>1. rq'.ready = rq.ready \ {current}
    BY <1>3, <1>4, Rescheduled
  <2>2. QED
    BY <1>3, <1>4, <2>1 DEF Called, Spared, memory, live
<1>5. CASE /\ tcb' = [tc EXCEPT ![id] = Cleared]
           /\ schedule(requeue(readyque_remove(taken, id, tcb[id].priority)))
           /\ UNCHANGED <<mail, memory>>
  <2> DEFINE s == readyque_remove(taken, id, tcb[id].priority)
  <2>1. HomeIn(tcb)[id] = tcb[id].priority /\ HomeIn(tcb)[id] \in Priority /\ Sound(taken, tcb)
    BY KeptTypes, TakenSound DEF HomeIn, Tcb
  <2>2. Sound(s, tcb) /\ s.ready = taken.ready \ {id}
    <3>1. /\ Agree(taken, Thread, Priority, AliveIn(tcb), HomeIn(tcb))
          /\ HomeIn(tcb)[id] \in Priority
      BY <2>1 DEF Sound
    <3>2. /\ Agree(readyque_remove(taken, id, HomeIn(tcb)[id]), Thread, Priority,
                    AliveIn(tcb), HomeIn(tcb))
          /\ readyque_remove(taken, id, HomeIn(tcb)[id]).ready = taken.ready \ {id}
      BY <3>1, RemoveAgrees
    <3>3. QED
      BY <2>1, <3>2 DEF Sound
  <2> HIDE DEF s
  <2>3. rq'.ready = s.ready \cup {current}
    BY <1>5, <2>2, RequeueSound, Rescheduled DEF s
  <2>4. ~tcb'[id].func /\ \A t \in Thread \ {id} : tcb'[t] = tc[t]
    BY <1>3, <1>5 DEF Cleared
  <2>5. QED
    BY <1>3, <1>5, <2>2, <2>3, <2>4 DEF Called, Spared, memory
<1>6. QED
  BY <1>2, <1>4, <1>5 DEF thread_kill

(* A run that is granted starts the first free slot.                       *)
LEMMA Running ==
    ASSUME Kept, NEW kind \in Pools, NEW pri \in Priority, NEW size, room(kind, size),
           FreeSlots # {}, thread_run(kind, pri, size)
    PROVE  /\ FreeSlot \in Thread /\ ~live(FreeSlot) /\ FreeSlot # current
           /\ tcb'[FreeSlot].func
           /\ \A t \in Thread \ {FreeSlot} : tcb'[t].func = tcb[t].func
           /\ Called({current, FreeSlot}) /\ held' = held
           /\ stack' = [stack EXCEPT ![kind] = @ - size]
<1>1. "OTHER" \in CallType
  BY DEF CallType
<1>2. PICK tc : tc = entered("OTHER")
  OBVIOUS
<1>3. /\ tc \in [Thread -> Tcb] /\ requeue(taken).ready = rq.ready
      /\ \A t \in Thread : tc[t].func = tcb[t].func
      /\ \A t \in Thread \ {current} : tc[t] = tcb[t]
  BY <1>1, <1>2, Entered
<1>4. PICK f : f = FreeSlot
  OBVIOUS
<1>5. f \in Thread /\ ~live(f) /\ f # current
  BY <1>4, FreeSlotIsFree, TakenSound
<1>6. /\ tcb' = [tc EXCEPT ![f] = Started(pri)]
      /\ stack' = [stack EXCEPT ![kind] = @ - size]
      /\ schedule(putcurrent(requeue(taken), f, pri))
      /\ UNCHANGED <<receiver, box, blocks, held>>
  BY <1>2, <1>4 DEF thread_run
<1>7. rq'.ready = rq.ready \cup {f}
  BY <1>3, <1>5, <1>6, PutReady, Rescheduled
<1>8. tcb'[f] = Started(pri) /\ \A t \in Thread \ {f} : tcb'[t] = tc[t]
  BY <1>3, <1>5, <1>6
<1>9. tcb'[f].func
  BY <1>8 DEF Started, Cleared
<1>10. QED
  BY <1>3, <1>4, <1>5, <1>6, <1>7, <1>8, <1>9 DEF Called, Spared, mail

(* A run that is refused drops its caller.                                 *)
LEMMA Refusing ==
    ASSUME Kept, NEW kind, NEW pri, NEW size,
           ~(room(kind, size) /\ FreeSlots # {}), thread_run(kind, pri, size)
    PROVE  /\ SameLife /\ Called({current}) /\ held' = held /\ stack' = stack
           /\ tcb'[current].got = NULL /\ current \notin rq'.ready
<1>1. "OTHER" \in CallType
  BY DEF CallType
<1>2. tcb' = entered("OTHER") /\ schedule(taken) /\ UNCHANGED <<mail, memory>>
  BY DEF thread_run
<1>3. rq'.ready = rq.ready \ {current}
  BY <1>1, <1>2, Entered, Rescheduled
<1>4. QED
  BY <1>1, <1>2, <1>3, Entered DEF SameLife, Called, Spared, memory
-----------------------------------------------------------------------------
(* What a step keeps of the threads it does not name.                      *)
LEMMA SystemThreads ==
    /\ 0 .. 4 \subseteq Thread /\ Thread \subseteq Nat
    /\ Apps = Thread \ 0 .. 4
    /\ \A t \in 0 .. 4 : t = Main \/ t = Consdrv \/ t = Sddrv \/ t = Shell \/ t = Exec
    /\ Main = 0 /\ Consdrv = 1 /\ Sddrv = 2 /\ Shell = 3 /\ Exec = 4
    /\ Main \in Thread /\ Consdrv \in Thread /\ Sddrv \in Thread /\ Shell \in Thread
    /\ Exec \in Thread
BY SystemAssumption DEF SystemAssumption, Thread, Apps, Main, Consdrv, Sddrv, Shell, Exec

LEMMA Distinct ==
    /\ Main # Consdrv /\ Main # Sddrv /\ Main # Shell /\ Main # Exec /\ Consdrv # Sddrv
    /\ Consdrv # Shell /\ Consdrv # Exec /\ Sddrv # Shell /\ Sddrv # Exec /\ Shell # Exec
    /\ NULL # Main /\ NULL # Consdrv /\ NULL # Sddrv /\ NULL # Shell /\ NULL # Exec
BY SystemThreads, NullAssumption DEF NullAssumption, Main, Consdrv, Sddrv, Shell, Exec

LEMMA PlacesDiffer ==
    /\ \A o, b \in MsgBox :
         Place[o].reader = Place[b].reader /\ Place[o].at = Place[b].at => o = b
    /\ \A b \in MsgBox : Place[b].reader \in Thread /\ Place[b].reader \notin Apps
    /\ \A b \in MsgBox : Place[b].at # "none"
BY BoxAssumption, SystemThreads
DEF BoxAssumption, Boxes, Place, Main, Consdrv, Sddrv, Shell, Exec

LEMMA BootedKept ==
    ASSUME Booted, pc'[Main] = pc[Main], stack'["RUN"] = stack["RUN"],
           \A t \in 0 .. 4 : tcb'[t].func = tcb[t].func,
           \A t \in 1 .. 4 : pc[t] = "none" => pc'[t] = "none",
           pc[Exec] # "none" \/ \A t \in Apps : tcb'[t].func => tcb[t].func
    PROVE  Booted'
<1>1. PICK n \in 1 .. 5, used \in 1 .. 7 :
         /\ <<pc[Main], n, used>> \in Boots
         /\ \A t \in 0 .. 4 : live(t) <=> t < n
         /\ \A t \in 1 .. 4 : t >= n => pc[t] = "none"
         /\ n < 5 => \A t \in Apps : ~live(t)
         /\ stack["RUN"] = USER_STACK - used
  BY DEF Booted
<1>2. \A t \in 0 .. 4 : live(t)' <=> t < n
  BY <1>1 DEF live
<1>3. \A t \in 1 .. 4 : t >= n => pc'[t] = "none"
  BY <1>1
<1>4. n < 5 => \A t \in Apps : ~live(t)'
  BY <1>1 DEF live, Exec
<1>5. <<pc'[Main], n, used>> \in Boots /\ stack'["RUN"] = USER_STACK - used
  BY <1>1
<1>6. QED
  BY <1>2, <1>3, <1>4, <1>5 DEF Booted

LEMMA SentWaiters ==
    ASSUME Kept, Waiters, NEW b \in MsgBox, NEW S, S \subseteq {current}, Sent(b, S),
           \A t \in Thread \ S : pc'[t] = pc[t]
    PROVE  Waiters'
<1> SUFFICES ASSUME NEW o \in MsgBox, receiver'[o] # NULL
             PROVE  Waits(o)'
  BY DEF Waiters
<1>1. o # b
  BY DEF Sent
<1>2. receiver'[o] = receiver[o] /\ box'[o] = box[o]
  BY <1>1 DEF Sent, OtherBoxes
<1>3. PICK t \in Thread : t = receiver[o]
  BY <1>2, CallerWaitsNot
<1>4. Waits(o) /\ t # current /\ t \notin S
  BY <1>2, <1>3, CallerWaitsNot
<1>5. t # receiver[b]
  <2>1. CASE receiver[b] = NULL
    BY <2>1, <1>3, NullAssumption DEF NullAssumption
  <2>2. CASE receiver[b] # NULL
    <3>1. Waits(b)
      BY <2>2, CallerWaitsNot
    <3>2. QED
      BY <1>1, <1>3, <1>4, <3>1, PlacesDiffer DEF Waits
  <2>3. QED
    BY <2>1, <2>2
<1>6. Spared(t) /\ pc'[t] = pc[t]
  BY <1>4, <1>5 DEF Sent
<1>7. QED
  BY <1>2, <1>3, <1>4, <1>6 DEF Waits, Spared

LEMMA ReceivedWaiters ==
    ASSUME Kept, Waiters, NEW b \in MsgBox, Received(b), Place[b].reader = current,
           pc'[current] = Place[b].at, \A t \in Thread \ {current} : pc'[t] = pc[t]
    PROVE  Waiters'
<1> SUFFICES ASSUME NEW o \in MsgBox, receiver'[o] # NULL
             PROVE  Waits(o)'
  BY DEF Waiters
<1>1. CASE o = b
  BY <1>1 DEF Received, Waits
<1>2. CASE o # b
  <2>1. receiver'[o] = receiver[o] /\ box'[o] = box[o]
    BY <1>2 DEF Received, OtherBoxes
  <2>2. PICK t \in Thread : t = receiver[o]
    BY <2>1, CallerWaitsNot
  <2>3. Waits(o) /\ t # current
    BY <2>1, <2>2, CallerWaitsNot
  <2>4. Spared(t) /\ pc'[t] = pc[t]
    BY <2>3 DEF Received
  <2>5. QED
    BY <2>1, <2>2, <2>3, <2>4 DEF Waits, Spared
<1>3. QED
  BY <1>1, <1>2

LEMMA CalledWaiters ==
    ASSUME Kept, Waiters, NEW S, Called(S),
           \A t \in S : t = current \/ t \in Apps \/ pc[t] = "none",
           \A t \in Thread \ S : pc'[t] = pc[t]
    PROVE  Waiters'
<1> SUFFICES ASSUME NEW o \in MsgBox, receiver'[o] # NULL
             PROVE  Waits(o)'
  BY DEF Waiters
<1>1. receiver'[o] = receiver[o] /\ box'[o] = box[o]
  BY DEF Called, mail
<1>2. PICK t \in Thread : t = receiver[o]
  BY <1>1, CallerWaitsNot
<1>3. Waits(o) /\ t # current
  BY <1>1, <1>2, CallerWaitsNot
<1>4. t \notin S
  BY <1>2, <1>3, PlacesDiffer DEF Waits
<1>5. Spared(t) /\ pc'[t] = pc[t]
  BY <1>4 DEF Called
<1>6. QED
  BY <1>1, <1>2, <1>3, <1>5 DEF Waits, Spared
-----------------------------------------------------------------------------
(* What is handed on, from the places it depends on.                       *)
LEMMA BoxNames ==
    /\ "CONSTX" \in MsgBox /\ "SDREQUEST" \in MsgBox /\ "CONSRX" \in MsgBox
    /\ "CMDEND" \in MsgBox /\ "APPREQUEST" \in MsgBox /\ "SDRESULT" \in MsgBox
    /\ "APPEVENT" \in MsgBox
    /\ Data = Commands \cup {"fg", "bg", "loaded", "failed", "none"}
BY BoxAssumption DEF BoxAssumption, Boxes, Payloads

LEMMA CommandNames == Commands = {"run", "run_bg", "kill", "ps", "other"}
BY DEF Commands, Typed

LEMMA Lengths ==
    ASSUME Kept
    PROVE  \A b \in MsgBox : Len(box[b]) \in Nat
BY KeptTypes

LEMMA Moves ==
    ASSUME LocalTypes, NEW t \in Thread, NEW l, Goto(t, l)
    PROVE  /\ pc'[t] = l /\ \A u \in Thread \ {t} : pc'[u] = pc[u]
           /\ pc' = [u \in Thread |-> pc'[u]]
BY DEF Goto, LocalTypes

LEMMA Counts ==
    /\ Len(box["CONSRX"]) \in Int => lines \in Int
    /\ Len(box["APPREQUEST"]) \in Int => requests \in Int
BY DEF lines, requests, One

LEMMA AccountedKept ==
    ASSUME Kept, Accounted, failures \in Nat, failures' \in Nat,
           held' \in Int, lines' \in Int, requests' \in Int,
           held' - lines' - requests' - failures' = held - lines - requests - failures
    PROVE  Accounted'
<1>1. held \in Int /\ lines \in Int /\ requests \in Int
  BY KeptTypes, Lengths, BoxNames, Counts
<1>2. PICK h, l, r, f \in Int : h = held /\ l = lines /\ r = requests /\ f = failures
  BY <1>1
<1>3. PICK h2, l2, r2, f2 \in Int :
        h2 = held' /\ l2 = lines' /\ r2 = requests' /\ f2 = failures'
  BY <1>1
<1>4. h = l + r + f
  BY <1>2 DEF Accounted, Kept
<1>5. h2 - l2 - r2 - f2 = h - l - r - f
  BY <1>2, <1>3
<1>6. h2 = l2 + r2 + f2
  BY <1>4, <1>5
<1>7. QED
  BY <1>3, <1>6 DEF Accounted

LEMMA ForegroundKept ==
    ASSUME Foreground, pc'[Exec] = pc[Exec], job' = job, bg' = bg,
           \A t \in Apps : tcb'[t].func => tcb[t].func
    PROVE  Foreground'
BY DEF Foreground, InForeground, live, Apps

LEMMA ConsdrvKeeps ==
    ASSUME Kept, Programs, consdrv_main
    PROVE  Programs'
<1>1. /\ Places /\ Handed /\ LocalTypes /\ Booted /\ Waiters /\ Fetched
      /\ current = Consdrv /\ pc[Consdrv] # "none"
      /\ Goto(Consdrv, "recv")
      /\ UNCHANGED <<locals, history>>
  BY DEF Programs, Places, consdrv_main, At
<1>2. /\ pc'[Consdrv] = "recv" /\ \A t \in Thread \ {Consdrv} : pc'[t] = pc[t]
      /\ pc' = [t \in Thread |-> pc'[t]]
  BY <1>1, SystemThreads, Moves
<1>3. /\ SameLife /\ held' = held /\ stack' = stack
      /\ \A t \in Thread \ {Consdrv} : Spared(t)
      /\ \A b \in MsgBox \ {"CONSTX"} : receiver'[b] = receiver[b] /\ box'[b] = box[b]
      /\ Waiters'
      /\ uart' \in {"off", "idle"} \cup Commands
      /\ uart' \in Commands <=> uart \in Commands
  <2>1. CASE At(Consdrv, "setintr") /\ thread_setintr /\ uart' = "idle"
    <3>1. SameLife /\ Called({current}) /\ held' = held /\ stack' = stack
      BY <2>1, Yielding DEF thread_setintr
    <3>2. Waiters'
      BY <1>1, <1>2, <3>1, CalledWaiters
    <3>3. uart \in {"off", "idle"}
      BY <2>1 DEF At
    <3>4. QED
      BY <1>1, <2>1, <3>1, <3>2, <3>3, CommandNames DEF Called, mail
  <2>2. CASE At(Consdrv, "recv") /\ thread_recv("CONSTX") /\ UNCHANGED uart
    <3>1. Place["CONSTX"].reader = current /\ Place["CONSTX"].at = "recv"
      BY <1>1 DEF Place
    <3>2. Received("CONSTX")
      BY <1>1, <2>2, <3>1, BoxNames, Receiving
    <3>3. Waiters'
      BY <1>1, <1>2, <3>1, <3>2, BoxNames, ReceivedWaiters
    <3>4. QED
      BY <1>1, <2>2, <3>2, <3>3 DEF Received, OtherBoxes, LocalTypes
  <2>3. QED
    BY <2>1, <2>2 DEF consdrv_main
<1>4. LocalTypes'
  BY <1>1, <1>2, <1>3 DEF LocalTypes, locals, history
<1>5. Booted'
  BY <1>1, <1>2, <1>3, SystemThreads, BootedKept DEF SameLife
<1>6. Spared(Shell) /\ Spared(Exec) /\ pc'[Shell] = pc[Shell] /\ pc'[Exec] = pc[Exec]
      /\ pc'[Sddrv] = pc[Sddrv]
  BY <1>2, <1>3, SystemThreads
<1>7. Fetched'
  BY <1>1, <1>3, <1>6, BoxNames DEF Fetched, Spared
<1>8. Foreground'
  BY <1>1, <1>3, <1>6, ForegroundKept DEF Handed, SameLife, locals, Apps
<1>9. Handed'
  <2>1. /\ box'["APPREQUEST"] = box["APPREQUEST"] /\ box'["CMDEND"] = box["CMDEND"]
        /\ box'["SDREQUEST"] = box["SDREQUEST"] /\ box'["SDRESULT"] = box["SDRESULT"]
        /\ box'["CONSRX"] = box["CONSRX"]
        /\ receiver'["APPREQUEST"] = receiver["APPREQUEST"]
        /\ receiver'["CMDEND"] = receiver["CMDEND"]
        /\ receiver'["SDREQUEST"] = receiver["SDREQUEST"]
        /\ receiver'["SDRESULT"] = receiver["SDRESULT"]
    BY <1>3, BoxNames
  <2>2. RunInHand'
    BY <1>1, <1>6, <2>1 DEF Handed, RunInHand, InHand, ShellWaits, ExecRuns
  <2>3. LoadInHand'
    BY <1>1, <1>6, <2>1 DEF Handed, LoadInHand, InHand, ExecWaits, SddrvLoads
  <2>4. requests' = requests /\ lines' = lines
    BY <1>3, <1>6, <2>1 DEF requests, lines, HoldsRequest, HoldsLine, Spared, One
  <2>5. Accounted'
    BY <1>1, <1>3, <2>4, KeptTypes, Lengths, BoxNames, Counts, AccountedKept
    DEF Handed, history, LocalTypes
  <2>6. QED
    BY <1>8, <2>2, <2>3, <2>5 DEF Handed
<1>10. QED
  BY <1>3, <1>4, <1>5, <1>7, <1>9 DEF Programs, Places

(* A halt, by a program that is not in the midst of a foreground run.      *)
Stops ==
    /\ halt("sysdown") /\ bg' = bg
    /\ pc'[Shell] = pc[Shell] \/ pc[Shell] \in {"execute", "send"}

LEMMA SddrvKeeps ==
    ASSUME Kept, Programs, sddrv_main
    PROVE  Stops \/ Programs'
<1>1. /\ Places /\ Handed /\ LocalTypes /\ Booted /\ Waiters /\ Fetched
      /\ RunInHand /\ LoadInHand /\ Foreground /\ Accounted
      /\ current = Sddrv /\ pc[Sddrv] \in {"recv", "load"}
      /\ uart' = uart /\ UNCHANGED <<locals, history>>
  BY DEF Programs, Places, Handed, sddrv_main, At
<1>2. PICK l : Goto(Sddrv, l)
  BY DEF sddrv_main
<1>3. /\ pc'[Sddrv] = l /\ \A t \in Thread \ {Sddrv} : pc'[t] = pc[t]
      /\ pc' = [t \in Thread |-> pc'[t]]
  BY <1>1, <1>2, SystemThreads, Moves
<1>4. pc'[Shell] = pc[Shell] /\ pc'[Exec] = pc[Exec] /\ pc'[Main] = pc[Main]
  BY <1>3, SystemThreads
<1>5. LocalTypes'
  BY <1>1, <1>3 DEF LocalTypes, locals, history
<1>6. receiver["SDREQUEST"] # Sddrv
  BY <1>1, CallerWaitsNot, BoxNames, SystemThreads, NullAssumption DEF NullAssumption
<1>7. CASE At(Sddrv, "recv") /\ thread_recv("SDREQUEST") /\ l = "load"
  <2>1. Place["SDREQUEST"].reader = current /\ Place["SDREQUEST"].at = "load"
    BY <1>1 DEF Place
  <2>2. Received("SDREQUEST")
    BY <1>1, <1>7, <2>1, BoxNames, Receiving
  <2>3. Waiters'
    BY <1>1, <1>3, <1>7, <2>1, <2>2, BoxNames, ReceivedWaiters
  <2>4. Booted'
    BY <1>1, <1>3, <1>4, <1>7, <2>2, SystemThreads, BootedKept DEF Received, SameLife
  <2>5. Spared(Shell) /\ Spared(Exec)
    BY <1>1, <2>2, SystemThreads DEF Received
  <2>6. /\ box'["APPREQUEST"] = box["APPREQUEST"] /\ box'["CMDEND"] = box["CMDEND"]
        /\ box'["SDRESULT"] = box["SDRESULT"] /\ box'["CONSRX"] = box["CONSRX"]
        /\ receiver'["CONSRX"] = receiver["CONSRX"]
        /\ receiver'["APPREQUEST"] = receiver["APPREQUEST"]
        /\ receiver'["CMDEND"] = receiver["CMDEND"]
        /\ receiver'["SDRESULT"] = receiver["SDRESULT"]
    BY <2>2, BoxNames DEF Received, OtherBoxes
  <2>7. Fetched'
    BY <1>1, <1>4, <2>5, <2>6 DEF Fetched, Spared
  <2>8. RunInHand'
    BY <1>1, <1>4, <2>6 DEF RunInHand, InHand, ShellWaits, ExecRuns
  <2>9. LoadInHand'
    <3>1. ExecWaits' <=> ExecWaits
      BY <1>4, <2>6 DEF ExecWaits
    <3>2. ~SddrvLoads
      BY <1>7 DEF SddrvLoads, At
    <3>3. \/ /\ SddrvLoads' /\ box["SDREQUEST"] # <<>>
             /\ Len(box["SDREQUEST"]) = 1 => box'["SDREQUEST"] = <<>>
          \/ ~SddrvLoads' /\ box'["SDREQUEST"] = box["SDREQUEST"]
      BY <1>1, <1>3, <1>7, <2>2, SystemThreads, NullAssumption
      DEF Received, SddrvLoads, NullAssumption
    <3>4. QED
      BY <1>1, <2>6, <3>1, <3>2, <3>3 DEF LoadInHand, InHand
  <2>10. Foreground'
    BY <1>1, <1>4, <2>2, ForegroundKept DEF Received, SameLife, locals, Apps
  <2>11. requests' = requests /\ lines' = lines /\ held' = held
    BY <1>1, <1>4, <2>2, <2>5, <2>6
    DEF requests, lines, HoldsRequest, HoldsLine, Spared, One, Received
  <2>12. Accounted'
    BY <1>1, <2>11, KeptTypes, Lengths, BoxNames, Counts, AccountedKept
    DEF history, LocalTypes
  <2>13. QED
    BY <1>5, <2>3, <2>4, <2>7, <2>8, <2>9, <2>10, <2>12 DEF Programs, Places, Handed
<1>8. CASE /\ At(Sddrv, "load") /\ l = "recv"
           /\ \E r \in {"loaded", "failed"} : thread_send("SDRESULT", r)
  <2>1. halt("sysdown") \/ Sent("SDRESULT", {current})
    BY <1>1, <1>8, BoxNames, Sending
  <2>2. ASSUME halt("sysdown") PROVE Stops
    BY <1>1, <1>4, <2>2 DEF Stops, locals
  <2>3. ASSUME Sent("SDRESULT", {current}) PROVE Programs'
    <3>1. Waiters'
      BY <1>1, <1>3, <2>3, BoxNames, SentWaiters
    <3>2. Booted'
      BY <1>1, <1>3, <1>4, <1>8, <2>3, SystemThreads, BootedKept DEF Sent, SameLife
    <3>3. /\ box'["APPREQUEST"] = box["APPREQUEST"] /\ box'["CMDEND"] = box["CMDEND"]
          /\ box'["SDREQUEST"] = box["SDREQUEST"] /\ box'["CONSRX"] = box["CONSRX"]
          /\ receiver'["CONSRX"] = receiver["CONSRX"]
          /\ receiver'["APPREQUEST"] = receiver["APPREQUEST"]
          /\ receiver'["CMDEND"] = receiver["CMDEND"]
          /\ receiver'["SDREQUEST"] = receiver["SDREQUEST"]
      BY <2>3, BoxNames DEF Sent, OtherBoxes
    <3>4. SddrvLoads /\ ~SddrvLoads'
      BY <1>3, <1>6, <1>8 DEF SddrvLoads, At
    <3>5. /\ receiver'["SDRESULT"] = NULL /\ NULL # Exec /\ Spared(Shell)
          /\ \/ /\ receiver["SDRESULT"] = NULL /\ Spared(Exec)
                /\ box["SDRESULT"] = <<>> => Len(box'["SDRESULT"]) = 1
             \/ /\ receiver["SDRESULT"] = Exec /\ pc[Exec] = "start"
                /\ tcb'[Exec].got # NULL
                /\ box'["SDRESULT"] = box["SDRESULT"]
      <4>1. Place["SDRESULT"].reader = Exec /\ Place["SDRESULT"].at = "start"
        BY DEF Place
      <4>2. /\ NULL # Exec /\ Shell # Exec /\ Shell # Sddrv /\ Exec # Sddrv
            /\ Shell \in Thread /\ Exec \in Thread
        BY SystemThreads, Distinct
      <4>3. receiver["SDRESULT"] # NULL => pc[Exec] = "start"
        BY <1>1, <4>1, BoxNames DEF Waiters, Waits
      <4>4. QED
        BY <1>1, <2>3, <4>1, <4>2, <4>3 DEF Sent
    <3>6. Fetched'
      BY <1>1, <1>4, <3>3, <3>5 DEF Fetched, Spared
    <3>7. RunInHand'
      BY <1>1, <1>4, <3>3 DEF RunInHand, InHand, ShellWaits, ExecRuns
    <3>8. LoadInHand'
      <4>1. \/ /\ box["SDRESULT"] = <<>> => Len(box'["SDRESULT"]) = 1
               /\ ExecWaits' <=> ExecWaits
            \/ /\ box'["SDRESULT"] = box["SDRESULT"]
               /\ ExecWaits /\ ~ExecWaits'
        BY <1>4, <3>5 DEF ExecWaits
      <4>2. QED
        BY <1>1, <3>3, <3>4, <4>1 DEF LoadInHand, InHand
    <3>9. Foreground'
      BY <1>1, <1>4, <2>3, ForegroundKept DEF Sent, SameLife, locals, Apps
    <3>10. requests' = requests /\ lines' = lines /\ held' = held
      BY <1>1, <1>4, <2>3, <3>3, <3>5
      DEF requests, lines, HoldsRequest, HoldsLine, Spared, One, Sent
    <3>11. Accounted'
      BY <1>1, <3>10, KeptTypes, Lengths, BoxNames, Counts, AccountedKept
      DEF history, LocalTypes
    <3>12. QED
      BY <1>5, <3>1, <3>2, <3>6, <3>7, <3>8, <3>9, <3>11 DEF Programs, Places, Handed
  <2>4. QED
    BY <2>1, <2>2, <2>3
<1>9. QED
  <2>1. ASSUME At(Sddrv, "recv"), thread_recv("SDREQUEST"), Goto(Sddrv, "load")
        PROVE  Stops \/ Programs'
    <3>1. l = "load"
      BY <1>1, <1>3, <2>1, SystemThreads, Moves
    <3>2. QED
      BY <1>7, <2>1, <3>1
  <2>2. ASSUME At(Sddrv, "load"), Goto(Sddrv, "recv"),
               \E r \in {"loaded", "failed"} : thread_send("SDRESULT", r)
        PROVE  Stops \/ Programs'
    <3>1. l = "recv"
      BY <1>1, <1>3, <2>2, SystemThreads, Moves
    <3>2. QED
      BY <1>8, <2>2, <3>1
  <2>3. QED
    BY <2>1, <2>2 DEF sddrv_main

(* How the two counts move.                                                *)
LEMMA LinesMove ==
    ASSUME Kept, uart' \in Commands <=> uart \in Commands
    PROVE  /\ (/\ HoldsLine' <=> HoldsLine
               /\ box'["CONSRX"] = box["CONSRX"]) => (lines' = lines)
           /\ (/\ ~HoldsLine /\ HoldsLine'
               /\ Len(box'["CONSRX"]) = Len(box["CONSRX"]) - 1) => (lines' = lines)
           /\ (/\ HoldsLine /\ ~HoldsLine'
               /\ box'["CONSRX"] = box["CONSRX"]) => (lines' = lines - 1)
<1>1. PICK n \in Nat : n = Len(box["CONSRX"])
  BY Lengths, BoxNames
<1>2. PICK u \in {0, 1} : u = One(uart \in Commands) /\ u = One(uart \in Commands)'
  BY DEF One
<1>3. PICK h \in {0, 1} : h = One(HoldsLine) /\ (h = 1 <=> HoldsLine)
  BY DEF One
<1>4. PICK k \in {0, 1} : k = One(HoldsLine)' /\ (k = 1 <=> HoldsLine')
  BY DEF One
<1>5. PICK m : m = Len(box'["CONSRX"])
  OBVIOUS
<1>6. box'["CONSRX"] = box["CONSRX"] => m = n
  BY <1>1, <1>5
<1>7. lines = n + u + h
  BY <1>1, <1>2, <1>3 DEF lines
<1>8. lines' = m + u + k
  BY <1>2, <1>4, <1>5 DEF lines
<1>9. QED
  BY <1>1, <1>3, <1>4, <1>5, <1>6, <1>7, <1>8

LEMMA RequestsMove ==
    ASSUME Kept
    PROVE  /\ (/\ HoldsRequest' <=> HoldsRequest
               /\ pc'[Shell] = "send" <=> pc[Shell] = "send"
               /\ box'["APPREQUEST"] = box["APPREQUEST"]) => (requests' = requests)
           /\ (/\ HoldsRequest' <=> HoldsRequest
               /\ pc'[Shell] = "send" /\ pc[Shell] # "send"
               /\ box'["APPREQUEST"] = box["APPREQUEST"]) => (requests' = requests + 1)
           /\ (/\ HoldsRequest' <=> HoldsRequest
               /\ pc'[Shell] # "send" /\ pc[Shell] = "send"
               /\ Len(box'["APPREQUEST"]) = Len(box["APPREQUEST"]) + 1)
               => (requests' = requests)
           /\ (/\ ~HoldsRequest /\ HoldsRequest'
               /\ pc'[Shell] # "send" /\ pc[Shell] = "send"
               /\ box'["APPREQUEST"] = box["APPREQUEST"]) => (requests' = requests)
           /\ (/\ ~HoldsRequest /\ HoldsRequest'
               /\ pc'[Shell] = "send" <=> pc[Shell] = "send"
               /\ Len(box'["APPREQUEST"]) = Len(box["APPREQUEST"]) - 1)
               => (requests' = requests)
           /\ (/\ HoldsRequest /\ ~HoldsRequest'
               /\ pc'[Shell] = "send" <=> pc[Shell] = "send"
               /\ box'["APPREQUEST"] = box["APPREQUEST"]) => (requests' = requests - 1)
<1>1. PICK n \in Nat : n = Len(box["APPREQUEST"])
  BY Lengths, BoxNames
<1>2. PICK u \in {0, 1} : u = One(pc[Shell] = "send") /\ (u = 1 <=> pc[Shell] = "send")
  BY DEF One
<1>3. PICK v \in {0, 1} : v = One(pc[Shell] = "send")' /\ (v = 1 <=> pc'[Shell] = "send")
  BY DEF One
<1>4. PICK h \in {0, 1} : h = One(HoldsRequest) /\ (h = 1 <=> HoldsRequest)
  BY DEF One
<1>5. PICK k \in {0, 1} : k = One(HoldsRequest)' /\ (k = 1 <=> HoldsRequest')
  BY DEF One
<1>6. PICK m : m = Len(box'["APPREQUEST"])
  OBVIOUS
<1>7. box'["APPREQUEST"] = box["APPREQUEST"] => m = n
  BY <1>1, <1>6
<1>8. requests = n + u + h
  BY <1>1, <1>2, <1>4 DEF requests
<1>9. requests' = m + v + k
  BY <1>3, <1>5, <1>6 DEF requests
<1>10. /\ (pc'[Shell] = "send" <=> pc[Shell] = "send") <=> v = u
       /\ pc'[Shell] = "send" /\ pc[Shell] # "send" => v = 1 /\ u = 0
       /\ pc'[Shell] # "send" /\ pc[Shell] = "send" => v = 0 /\ u = 1
  BY <1>2, <1>3
<1>11. /\ (HoldsRequest' <=> HoldsRequest) <=> k = h
       /\ ~HoldsRequest /\ HoldsRequest' => k = 1 /\ h = 0
       /\ HoldsRequest /\ ~HoldsRequest' => k = 0 /\ h = 1
  BY <1>4, <1>5
<1>12. /\ Len(box'["APPREQUEST"]) = Len(box["APPREQUEST"]) + 1 => m = n + 1
       /\ Len(box'["APPREQUEST"]) = Len(box["APPREQUEST"]) - 1 => m = n - 1
  BY <1>1, <1>6
<1>13. /\ k = h /\ v = u /\ m = n => requests' = requests
       /\ k = h /\ v = 1 /\ u = 0 /\ m = n => requests' = requests + 1
       /\ k = h /\ v = 0 /\ u = 1 /\ m = n + 1 => requests' = requests
       /\ k = 1 /\ h = 0 /\ v = 0 /\ u = 1 /\ m = n => requests' = requests
       /\ k = 1 /\ h = 0 /\ v = u /\ m = n - 1 => requests' = requests
       /\ k = 0 /\ h = 1 /\ v = u /\ m = n => requests' = requests - 1
  <2>1. k \in {0, 1} /\ h \in {0, 1} /\ v \in {0, 1} /\ u \in {0, 1} /\ n \in Nat
    OBVIOUS
  <2> QED BY ONLY <1>8, <1>9, <2>1
<1>14. QED
  BY <1>7, <1>10, <1>11, <1>12, <1>13

LEMMA AccountedSame ==
    ASSUME Kept, Accounted, lines' = lines, requests' = requests, failures' = failures,
           held' = held
    PROVE  Accounted'
BY DEF Accounted, Kept

LEMMA AccountedMoved ==
    ASSUME Kept, Accounted, failures \in Nat, NEW i \in Int, NEW j \in Int, NEW f \in Int,
           lines' = i, requests' = j, failures' = f,
           held' - held = (i - lines) + (j - requests) + (f - failures), held' \in Int
    PROVE  Accounted'
<1>1. PICK h, l, r, g \in Int : h = held /\ l = lines /\ r = requests /\ g = failures
  BY KeptTypes, Lengths, BoxNames, Counts
<1>2. PICK k \in Int : k = held'
  OBVIOUS
<1>3. h = l + r + g
  BY <1>1 DEF Accounted, Kept
<1>4. k - h = (i - l) + (j - r) + (f - g)
  BY <1>1, <1>2
<1>5. k = i + j + f
  BY <1>3, <1>4
<1>6. QED
  BY <1>2, <1>5 DEF Accounted

LEMMA AccountedMore ==
    ASSUME Kept, Accounted, failures \in Nat, failures' = failures, held' = held + 1,
           \/ lines' = lines + 1 /\ requests' = requests
           \/ lines' = lines /\ requests' = requests + 1
    PROVE  Accounted'
<1>1. PICK h, l, r, g \in Int : h = held /\ l = lines /\ r = requests /\ g = failures
  BY KeptTypes, Lengths, BoxNames, Counts
<1>2. h = l + r + g
  BY <1>1 DEF Accounted, Kept
<1>3. held' = h + 1 /\ failures' = g
  BY <1>1
<1>4. CASE lines' = lines + 1 /\ requests' = requests
  <2>1. lines' = l + 1 /\ requests' = r
    BY <1>1, <1>4
  <2>2. h + 1 = (l + 1) + r + g
    BY <1>2
  <2>3. held' = lines' + requests' + failures'
    BY <1>3, <2>1, <2>2
  <2>4. QED
    BY <2>3 DEF Accounted
<1>5. CASE lines' = lines /\ requests' = requests + 1
  <2>1. lines' = l /\ requests' = r + 1
    BY <1>1, <1>5
  <2>2. h + 1 = l + (r + 1) + g
    BY <1>2
  <2>3. held' = lines' + requests' + failures'
    BY <1>3, <2>1, <2>2
  <2>4. QED
    BY <2>3 DEF Accounted
<1>6. QED
  BY <1>4, <1>5

LEMMA AccountedLess ==
    ASSUME Kept, Accounted, failures \in Nat, failures' = failures, held' = held - 1,
           \/ lines' = lines - 1 /\ requests' = requests
           \/ lines' = lines /\ requests' = requests - 1
    PROVE  Accounted'
<1>1. PICK h, l, r, g \in Int : h = held /\ l = lines /\ r = requests /\ g = failures
  BY KeptTypes, Lengths, BoxNames, Counts
<1>2. h = l + r + g
  BY <1>1 DEF Accounted, Kept
<1>3. held' = h - 1 /\ failures' = g
  BY <1>1
<1>4. CASE lines' = lines - 1 /\ requests' = requests
  <2>1. lines' = l - 1 /\ requests' = r
    BY <1>1, <1>4
  <2>2. h - 1 = (l - 1) + r + g
    BY <1>2
  <2>3. held' = lines' + requests' + failures'
    BY <1>3, <2>1, <2>2
  <2>4. QED
    BY <2>3 DEF Accounted
<1>5. CASE lines' = lines /\ requests' = requests - 1
  <2>1. lines' = l /\ requests' = r - 1
    BY <1>1, <1>5
  <2>2. h - 1 = l + (r - 1) + g
    BY <1>2
  <2>3. held' = lines' + requests' + failures'
    BY <1>3, <2>1, <2>2
  <2>4. QED
    BY <2>3 DEF Accounted
<1>6. QED
  BY <1>4, <1>5
-----------------------------------------------------------------------------
(* The shell.                                                              *)
LEMMA ShellMoves ==
    ASSUME Kept, Programs, current = Shell, pc[Shell] # "none", NEW l, Goto(Shell, l),
           uart' = uart, asked' \in {"fg", "bg"}, UNCHANGED <<job, bg, history>>
    PROVE  /\ Booted /\ Waiters /\ Fetched /\ RunInHand /\ LoadInHand /\ Foreground
           /\ Accounted /\ LocalTypes /\ LocalTypes'
           /\ pc'[Shell] = l /\ pc'[Main] = pc[Main] /\ pc'[Sddrv] = pc[Sddrv]
           /\ pc'[Exec] = pc[Exec] /\ \A t \in Thread \ {Shell} : pc'[t] = pc[t]
           /\ receiver["CONSRX"] # Shell /\ receiver["CMDEND"] # Shell
<1>1. /\ Booted /\ Waiters /\ Fetched /\ RunInHand /\ LoadInHand /\ Foreground
      /\ Accounted /\ LocalTypes
  BY DEF Programs, Places, Handed
<1>2. /\ pc'[Shell] = l /\ \A t \in Thread \ {Shell} : pc'[t] = pc[t]
      /\ pc' = [t \in Thread |-> pc'[t]]
  BY <1>1, SystemThreads, Moves
<1>3. LocalTypes'
  BY <1>1, <1>2 DEF LocalTypes, history
<1>4. receiver["CONSRX"] # Shell /\ receiver["CMDEND"] # Shell
  BY <1>1, CallerWaitsNot, BoxNames, SystemThreads, NullAssumption DEF NullAssumption
<1>5. QED
  BY <1>1, <1>2, <1>3, <1>4, SystemThreads

LEMMA ShellKeepsRest ==
    ASSUME Kept, Programs, current = Shell, pc[Shell] # "none", NEW l, Goto(Shell, l),
           uart' = uart, asked' \in {"fg", "bg"}, UNCHANGED <<job, bg, history>>,
           \A t \in 0 .. 4 : tcb'[t].func = tcb[t].func,
           \A t \in Apps : tcb'[t].func => tcb[t].func,
           stack' = stack,
           \A b \in {"SDREQUEST", "SDRESULT"} : receiver'[b] = receiver[b] /\ box'[b] = box[b]
    PROVE  Booted' /\ LoadInHand' /\ Foreground'
<1>1. /\ Booted /\ LoadInHand /\ Foreground /\ pc'[Main] = pc[Main]
      /\ pc'[Sddrv] = pc[Sddrv] /\ pc'[Exec] = pc[Exec]
      /\ \A t \in Thread \ {Shell} : pc'[t] = pc[t]
  BY ShellMoves
<1>2. Booted'
  BY <1>1, SystemThreads, BootedKept
<1>3. LoadInHand'
  BY <1>1 DEF LoadInHand, InHand, ExecWaits, SddrvLoads
<1>4. Foreground'
  BY <1>1, ForegroundKept
<1>5. QED
  BY <1>2, <1>3, <1>4

LEMMA ShellReads ==
    ASSUME Kept, Programs, At(Shell, "prompt"), thread_recv("CONSRX"), Goto(Shell, "execute"),
           uart' = uart, asked' = asked, UNCHANGED <<job, bg, history>>
    PROVE  Programs'
<1>1. current = Shell /\ pc[Shell] = "prompt" /\ asked \in {"fg", "bg"}
  BY DEF At, Programs, Places, LocalTypes
<1>2. /\ Waiters /\ Fetched /\ RunInHand /\ Accounted /\ LocalTypes /\ LocalTypes'
      /\ pc'[Shell] = "execute" /\ pc'[Exec] = pc[Exec]
      /\ \A t \in Thread \ {Shell} : pc'[t] = pc[t]
      /\ receiver["CONSRX"] # Shell /\ receiver["CMDEND"] # Shell
  BY <1>1, ShellMoves
<1>3. Place["CONSRX"].reader = current /\ Place["CONSRX"].at = "execute"
  BY <1>1 DEF Place
<1>4. Received("CONSRX")
  BY <1>2, <1>3, BoxNames, Receiving
<1>5. Waiters'
  BY <1>1, <1>2, <1>3, <1>4, BoxNames, ReceivedWaiters
<1>6. \A b \in {"APPREQUEST", "CMDEND", "SDREQUEST", "SDRESULT"} :
        receiver'[b] = receiver[b] /\ box'[b] = box[b]
  BY <1>4, BoxNames DEF Received, OtherBoxes
<1>7. SameLife /\ held' = held /\ stack' = stack /\ Spared(Exec)
  BY <1>1, <1>4, SystemThreads, Distinct DEF Received
<1>8. Booted' /\ LoadInHand' /\ Foreground'
  BY <1>1, <1>2, <1>6, <1>7, ShellKeepsRest, SystemThreads DEF SameLife
<1>9. Fetched'
  BY <1>1, <1>2, <1>4, <1>6, <1>7 DEF Fetched, Spared, Received
<1>10. RunInHand'
  BY <1>1, <1>2, <1>6 DEF RunInHand, InHand, ShellWaits, ExecRuns
<1>11. lines' = lines
  <2>1. ~HoldsLine
    BY <1>1 DEF HoldsLine
  <2>2. \/ ~HoldsLine' /\ box'["CONSRX"] = box["CONSRX"]
        \/ HoldsLine' /\ Len(box'["CONSRX"]) = Len(box["CONSRX"]) - 1
    BY <1>1, <1>2, <1>4 DEF HoldsLine, Received
  <2>3. QED
    BY <2>1, <2>2, LinesMove
<1>12. requests' = requests
  BY <1>1, <1>2, <1>6, <1>7, RequestsMove DEF HoldsRequest, Spared
<1>13. Accounted'
  BY <1>2, <1>7, <1>11, <1>12, AccountedSame DEF history
<1>14. QED
  BY <1>2, <1>5, <1>8, <1>9, <1>10, <1>13 DEF Programs, Places, Handed

(* A call of the shell that leaves the boxes alone.                        *)
LEMMA ShellCalls ==
    ASSUME Kept, Programs, current = Shell, pc[Shell] \in {"execute", "free"},
           NEW l \in {"send", "free", "prompt"}, Goto(Shell, l),
           uart' = uart, asked' \in {"fg", "bg"}, UNCHANGED <<job, bg, history>>,
           \A t \in 0 .. 4 : tcb'[t].func = tcb[t].func,
           \A t \in Apps : tcb'[t].func => tcb[t].func,
           stack' = stack, NEW S, S \subseteq {current} \cup Apps, Called(S),
           \/ held' = held /\ l = "free" /\ pc[Shell] = "execute"
           \/ held' = held + 1 /\ l = "send" /\ pc[Shell] = "execute"
           \/ held' = held - 1 /\ l = "prompt"
    PROVE  Programs'
<1>1. /\ Waiters /\ Fetched /\ RunInHand /\ Accounted /\ LocalTypes /\ LocalTypes'
      /\ pc'[Shell] = l /\ pc'[Exec] = pc[Exec]
      /\ \A t \in Thread \ {Shell} : pc'[t] = pc[t]
      /\ receiver["CONSRX"] # Shell /\ receiver["CMDEND"] # Shell
  BY ShellMoves
<1>2. box' = box /\ receiver' = receiver /\ Spared(Exec)
  BY SystemThreads DEF Called, mail
<1>3. Waiters'
  <2>1. \A t \in Thread \ (S \cup {Shell}) : pc'[t] = pc[t] /\ Spared(t)
    BY <1>1 DEF Called
  <2>2. Called(S \cup {Shell}) /\ S \cup {Shell} \subseteq {current} \cup Apps
    BY <2>1 DEF Called
  <2>3. QED
    BY <1>1, <2>1, <2>2, CalledWaiters
<1>4. Booted' /\ LoadInHand' /\ Foreground'
  BY <1>2, ShellKeepsRest
<1>5. Fetched'
  BY <1>1, <1>2 DEF Fetched, Spared
<1>6. RunInHand'
  BY <1>1, <1>2 DEF RunInHand, InHand, ShellWaits, ExecRuns
<1>7. HoldsLine /\ (HoldsLine' <=> l # "prompt")
  BY <1>1 DEF HoldsLine, Fetched
<1>8. HoldsRequest' <=> HoldsRequest
  BY <1>1, <1>2 DEF HoldsRequest, Spared
<1>9. Accounted'
  <2>1. CASE held' = held /\ l = "free"
    BY <1>1, <1>2, <1>7, <1>8, <2>1, LinesMove, RequestsMove, AccountedSame DEF history
  <2>2. CASE held' = held + 1 /\ l = "send"
    BY <1>1, <1>2, <1>7, <1>8, <2>2, LinesMove, RequestsMove, AccountedMore
    DEF history, LocalTypes
  <2>3. CASE held' = held - 1 /\ l = "prompt"
    BY <1>1, <1>2, <1>7, <1>8, <2>3, LinesMove, RequestsMove, AccountedLess
    DEF history, LocalTypes
  <2>4. QED
    BY <2>1, <2>2, <2>3
<1>10. QED
  BY <1>1, <1>3, <1>4, <1>5, <1>6, <1>9 DEF Programs, Places, Handed

LEMMA ShellSends ==
    ASSUME Kept, Programs, At(Shell, "send"), thread_send("APPREQUEST", asked),
           Goto(Shell, "await end"), uart' = uart, asked' = asked,
           UNCHANGED <<job, bg, history>>
    PROVE  Stops \/ Programs'
<1>1. current = Shell /\ pc[Shell] = "send" /\ asked \in {"fg", "bg"}
  BY DEF At, Programs, Places, LocalTypes
<1>2. /\ Waiters /\ Fetched /\ RunInHand /\ Accounted /\ LocalTypes /\ LocalTypes'
      /\ pc'[Shell] = "await end" /\ pc'[Exec] = pc[Exec]
      /\ \A t \in Thread \ {Shell} : pc'[t] = pc[t]
      /\ receiver["CONSRX"] # Shell /\ receiver["CMDEND"] # Shell
  BY <1>1, ShellMoves
<1>3. halt("sysdown") \/ Sent("APPREQUEST", {current})
  BY <1>1, <1>2, BoxNames, Sending
<1>4. ASSUME halt("sysdown") PROVE Stops
  BY <1>1, <1>4 DEF Stops
<1>5. ASSUME Sent("APPREQUEST", {current}) PROVE Programs'
  <2>1. Waiters'
    BY <1>1, <1>2, <1>5, BoxNames, SentWaiters
  <2>2. \A b \in {"CONSRX", "CMDEND", "SDREQUEST", "SDRESULT"} :
          receiver'[b] = receiver[b] /\ box'[b] = box[b]
    BY <1>5, BoxNames DEF Sent, OtherBoxes
  <2>3. SameLife /\ held' = held /\ stack' = stack
    BY <1>5 DEF Sent
  <2>4. Booted' /\ LoadInHand' /\ Foreground'
    BY <1>1, <1>2, <2>2, <2>3, ShellKeepsRest, SystemThreads DEF SameLife
  <2>5. /\ receiver'["APPREQUEST"] = NULL /\ NULL # Exec
        /\ \/ /\ receiver["APPREQUEST"] = NULL /\ Spared(Exec)
              /\ Len(box'["APPREQUEST"]) = Len(box["APPREQUEST"]) + 1
              /\ box["APPREQUEST"] = <<>> => Len(box'["APPREQUEST"]) = 1
           \/ /\ receiver["APPREQUEST"] = Exec /\ pc[Exec] = "load"
              /\ tcb[Exec].got = NULL /\ tcb'[Exec].got # NULL
              /\ box'["APPREQUEST"] = box["APPREQUEST"]
    <3>1. Place["APPREQUEST"].reader = Exec /\ Place["APPREQUEST"].at = "load"
      BY DEF Place
    <3>2. NULL # Exec /\ Shell # Exec /\ Exec \in Thread
      BY SystemThreads, Distinct
    <3>3. receiver["APPREQUEST"] # NULL => pc[Exec] = "load" /\ tcb[Exec].got = NULL
      BY <1>2, <3>1, BoxNames DEF Waiters, Waits
    <3>4. QED
      BY <1>1, <1>5, <3>1, <3>2, <3>3 DEF Sent
  <2>6. Fetched'
    BY <1>2, <2>2, <2>5 DEF Fetched, Spared
  <2>7. RunInHand'
    <3>1. ~ShellWaits /\ ShellWaits'
      BY <1>1, <1>2 DEF ShellWaits
    <3>2. \/ /\ ExecRuns' <=> ExecRuns
             /\ box["APPREQUEST"] = <<>> => Len(box'["APPREQUEST"]) = 1
          \/ ExecRuns' /\ box'["APPREQUEST"] = box["APPREQUEST"]
      BY <1>2, <2>5 DEF ExecRuns
    <3>3. QED
      BY <1>2, <2>2, <3>1, <3>2 DEF RunInHand, InHand
  <2>8. lines' = lines
    BY <1>1, <1>2, <2>2, LinesMove DEF HoldsLine
  <2>9. requests' = requests
    <3>1. \/ /\ HoldsRequest' <=> HoldsRequest
             /\ Len(box'["APPREQUEST"]) = Len(box["APPREQUEST"]) + 1
          \/ /\ ~HoldsRequest /\ HoldsRequest'
             /\ box'["APPREQUEST"] = box["APPREQUEST"]
      BY <1>2, <2>5 DEF HoldsRequest, Spared
    <3>2. QED
      BY <1>1, <1>2, <3>1, RequestsMove
  <2>10. Accounted'
    BY <1>2, <2>3, <2>8, <2>9, AccountedSame DEF history
  <2>11. QED
    BY <1>2, <2>1, <2>4, <2>6, <2>7, <2>10 DEF Programs, Places, Handed
<1>6. QED
  BY <1>3, <1>4, <1>5

LEMMA ShellAwaits ==
    ASSUME Kept, Programs, At(Shell, "await end"), thread_recv("CMDEND"), Goto(Shell, "free"),
           uart' = uart, asked' = asked, UNCHANGED <<job, bg, history>>
    PROVE  Programs'
<1>1. current = Shell /\ pc[Shell] = "await end" /\ asked \in {"fg", "bg"}
  BY DEF At, Programs, Places, LocalTypes
<1>2. /\ Waiters /\ Fetched /\ RunInHand /\ Accounted /\ LocalTypes /\ LocalTypes'
      /\ pc'[Shell] = "free" /\ pc'[Exec] = pc[Exec]
      /\ \A t \in Thread \ {Shell} : pc'[t] = pc[t]
      /\ receiver["CONSRX"] # Shell /\ receiver["CMDEND"] # Shell
  BY <1>1, ShellMoves
<1>3. Place["CMDEND"].reader = current /\ Place["CMDEND"].at = "free"
  BY <1>1 DEF Place
<1>4. Received("CMDEND")
  BY <1>2, <1>3, BoxNames, Receiving
<1>5. Waiters'
  BY <1>1, <1>2, <1>3, <1>4, BoxNames, ReceivedWaiters
<1>6. \A b \in {"APPREQUEST", "CONSRX", "SDREQUEST", "SDRESULT"} :
        receiver'[b] = receiver[b] /\ box'[b] = box[b]
  BY <1>4, BoxNames DEF Received, OtherBoxes
<1>7. SameLife /\ held' = held /\ stack' = stack /\ Spared(Exec)
  BY <1>1, <1>4, SystemThreads, Distinct DEF Received
<1>8. Booted' /\ LoadInHand' /\ Foreground'
  BY <1>1, <1>2, <1>6, <1>7, ShellKeepsRest, SystemThreads DEF SameLife
<1>9. Fetched'
  BY <1>1, <1>2, <1>6, <1>7 DEF Fetched, Spared
<1>10. RunInHand'
  <2>1. ShellWaits /\ (ExecRuns' <=> ExecRuns)
    BY <1>1, <1>2, <1>6 DEF ShellWaits, ExecRuns
  <2>2. \/ ShellWaits' /\ box["CMDEND"] = <<>> /\ box'["CMDEND"] = <<>>
        \/ /\ ~ShellWaits' /\ box["CMDEND"] # <<>>
           /\ Len(box["CMDEND"]) = 1 => box'["CMDEND"] = <<>>
    BY <1>1, <1>2, <1>4, SystemThreads, NullAssumption DEF ShellWaits, Received, NullAssumption
  <2>3. QED
    BY <1>2, <1>6, <2>1, <2>2 DEF RunInHand, InHand
<1>11. lines' = lines
  BY <1>1, <1>2, <1>6, LinesMove DEF HoldsLine
<1>12. requests' = requests
  BY <1>1, <1>2, <1>6, <1>7, RequestsMove DEF HoldsRequest, Spared
<1>13. Accounted'
  BY <1>2, <1>7, <1>11, <1>12, AccountedSame DEF history
<1>14. QED
  BY <1>2, <1>5, <1>8, <1>9, <1>10, <1>13 DEF Programs, Places, Handed

LEMMA ShellKeeps ==
    ASSUME Kept, Programs, KillIds \subseteq Apps, shell_main
    PROVE  Stops \/ Programs'
<1>1. /\ current = Shell /\ uart' = uart /\ UNCHANGED <<job, bg, history>>
      /\ asked \in {"fg", "bg"} /\ asked' \in {"fg", "bg"}
      /\ pc[Shell] \in {"prompt", "execute", "send", "await end", "free"}
  BY DEF shell_main, command_run, command_ps, command_kill, Calls, Prints, At, Programs,
     Places, LocalTypes
<1>2. CASE At(Shell, "prompt") /\ thread_recv("CONSRX") /\ Goto(Shell, "execute")
           /\ asked' = asked
  BY <1>1, <1>2, ShellReads
<1>3. CASE At(Shell, "execute") /\ thread_malloc /\ Goto(Shell, "send")
  <2>1. pc[Shell] = "execute"
    BY <1>3 DEF At
  <2>2. ASSUME halt("sysdown") PROVE Stops
    BY <1>1, <2>1, <2>2 DEF Stops
  <2>3. ASSUME SameLife, Called({current}), held' = held + 1, stack' = stack
        PROVE  Programs'
    BY <1>1, <1>3, <2>1, <2>3, ShellCalls, SystemThreads DEF SameLife
  <2>4. QED
    BY <1>3, <2>2, <2>3, Allocating
<1>4. CASE At(Shell, "send") /\ thread_send("APPREQUEST", asked) /\ Goto(Shell, "await end")
           /\ asked' = asked
  BY <1>1, <1>4, ShellSends
<1>5. CASE At(Shell, "await end") /\ thread_recv("CMDEND") /\ Goto(Shell, "free")
           /\ asked' = asked
  BY <1>1, <1>5, ShellAwaits
<1>6. ASSUME At(Shell, "execute"), NEW id \in KillIds, thread_kill(id), Goto(Shell, "free")
      PROVE  Programs'
  <2>1. pc[Shell] = "execute"
    BY <1>6 DEF At
  <2>2. id \in Thread /\ id \in Apps /\ id \notin 0 .. 4 /\ id # current
    BY <1>1, SystemThreads DEF Apps
  <2>3. /\ ~tcb'[id].func /\ \A t \in Thread \ {id} : tcb'[t].func = tcb[t].func
        /\ Called({current, id}) /\ held' = held /\ stack' = stack
    BY <1>6, <2>2, Killing
  <2>4. /\ \A t \in 0 .. 4 : tcb'[t].func = tcb[t].func
        /\ \A t \in Apps : tcb'[t].func => tcb[t].func
    BY <2>2, <2>3, SystemThreads
  <2>5. {current, id} \subseteq {current} \cup Apps
    BY <2>2
  <2>6. QED
    BY <1>1, <1>6, <2>1, <2>3, <2>4, <2>5, ShellCalls
<1>7. CASE At(Shell, "execute") /\ thread_ps /\ Goto(Shell, "free")
  <2>1. pc[Shell] = "execute"
    BY <1>7 DEF At
  <2>2. SameLife /\ Called({current}) /\ held' = held /\ stack' = stack
    BY <1>7, Yielding DEF thread_ps
  <2>3. QED
    BY <1>1, <1>7, <2>1, <2>2, ShellCalls, SystemThreads DEF SameLife
<1>8. CASE (At(Shell, "free") \/ At(Shell, "execute")) /\ thread_free /\ Goto(Shell, "prompt")
  <2>1. pc[Shell] \in {"execute", "free"}
    BY <1>8 DEF At
  <2>2. SameLife /\ Called({current}) /\ held' = held - 1 /\ stack' = stack
    BY <1>8, Freeing
  <2>3. QED
    BY <1>1, <1>8, <2>1, <2>2, ShellCalls, SystemThreads DEF SameLife
<1>9. QED
  BY <1>2, <1>3, <1>4, <1>5, <1>6, <1>7, <1>8
  DEF shell_main, command_run, command_ps, command_kill, Calls, Prints
-----------------------------------------------------------------------------
(* The app thread.                                                         *)
LEMMA ExecStands ==
    ASSUME Kept, Programs, current = Exec
    PROVE  /\ Booted /\ Waiters /\ Fetched /\ RunInHand /\ LoadInHand /\ Foreground
           /\ Accounted /\ LocalTypes
           /\ receiver["APPREQUEST"] # Exec /\ receiver["SDRESULT"] # Exec
           /\ receiver["APPEVENT"] # Exec
<1>1. /\ Booted /\ Waiters /\ Fetched /\ RunInHand /\ LoadInHand /\ Foreground
      /\ Accounted /\ LocalTypes
  BY DEF Programs, Places, Handed
<1>2. /\ receiver["APPREQUEST"] # Exec /\ receiver["SDRESULT"] # Exec
      /\ receiver["APPEVENT"] # Exec
  BY <1>1, CallerWaitsNot, BoxNames, Distinct
<1>3. QED
  BY <1>1, <1>2

LEMMA ExecMoves ==
    ASSUME LocalTypes, NEW l, Goto(Exec, l)
    PROVE  /\ pc'[Exec] = l /\ \A t \in Thread \ {Exec} : pc'[t] = pc[t]
           /\ pc' = [t \in Thread |-> pc'[t]] /\ \A t \in 0 .. 3 : pc'[t] = pc[t]
<1>1. /\ pc'[Exec] = l /\ \A t \in Thread \ {Exec} : pc'[t] = pc[t]
      /\ pc' = [t \in Thread |-> pc'[t]]
  BY SystemThreads, Moves
<1>2. \A t \in 0 .. 3 : t \in Thread \ {Exec}
  BY SystemThreads DEF Exec
<1>3. QED
  BY <1>1, <1>2

LEMMA ExecKeepsRest ==
    ASSUME Kept, Programs, current = Exec, pc[Exec] # "none",
           pc' = [t \in Thread |-> pc'[t]], \A t \in 0 .. 3 : pc'[t] = pc[t],
           uart' = uart, asked' = asked, job' \in [kind : Data, id : Thread],
           bg' \in [Thread -> BOOLEAN], failures' \in Nat,
           \A t \in 0 .. 4 : tcb'[t].func = tcb[t].func, stack'["RUN"] = stack["RUN"],
           receiver'["CONSRX"] = receiver["CONSRX"], box'["CONSRX"] = box["CONSRX"],
           pc[Shell] = "execute" => tcb'[Shell].got = tcb[Shell].got
    PROVE  /\ LocalTypes' /\ Booted' /\ lines' = lines
           /\ pc'[Shell] = pc[Shell] /\ pc'[Sddrv] = pc[Sddrv]
<1>1. Booted /\ LocalTypes
  BY ExecStands
<1>2. LocalTypes'
  BY <1>1 DEF LocalTypes
<1>3. pc'[Main] = pc[Main] /\ pc'[Shell] = pc[Shell] /\ pc'[Sddrv] = pc[Sddrv]
  BY DEF Main, Shell, Sddrv
<1>4. \A t \in 1 .. 4 : pc[t] = "none" => pc'[t] = "none"
  BY DEF Exec
<1>5. Booted'
  BY <1>1, <1>3, <1>4, BootedKept
<1>6. HoldsLine' <=> HoldsLine
  BY <1>3 DEF HoldsLine
<1>7. lines' = lines
  BY <1>6, LinesMove
<1>8. QED
  BY <1>2, <1>3, <1>5, <1>7

LEMMA NoForeground ==
    ASSUME Foreground, pc[Exec] \notin {"await app", "kill"},
           pc'[Exec] \notin {"await app", "kill"}, bg' = bg,
           \A t \in Apps : tcb'[t].func => tcb[t].func
    PROVE  Foreground'
BY DEF Foreground, InForeground, live, Apps

LEMMA ExecAwaitsRequest ==
    ASSUME Kept, Programs, At(Exec, "recv"), thread_recv("APPREQUEST"), Goto(Exec, "load"),
           UNCHANGED <<uart, locals, history>>
    PROVE  Programs'
<1>1. current = Exec /\ pc[Exec] = "recv"
  BY DEF At
<1>2. /\ Booted /\ Waiters /\ Fetched /\ RunInHand /\ LoadInHand /\ Foreground
      /\ Accounted /\ LocalTypes
      /\ receiver["APPREQUEST"] # Exec /\ receiver["SDRESULT"] # Exec
  BY <1>1, ExecStands
<1>3. /\ pc'[Exec] = "load" /\ \A t \in Thread \ {Exec} : pc'[t] = pc[t]
      /\ pc' = [t \in Thread |-> pc'[t]] /\ \A t \in 0 .. 3 : pc'[t] = pc[t]
  BY <1>2, ExecMoves
<1>4. Place["APPREQUEST"].reader = current /\ Place["APPREQUEST"].at = "load"
  BY <1>1 DEF Place
<1>5. Received("APPREQUEST")
  BY <1>2, <1>4, BoxNames, Receiving
<1>6. Waiters'
  BY <1>1, <1>2, <1>3, <1>4, <1>5, BoxNames, ReceivedWaiters
<1>7. \A b \in {"CONSRX", "CMDEND", "SDREQUEST", "SDRESULT"} :
        receiver'[b] = receiver[b] /\ box'[b] = box[b]
  BY <1>5, BoxNames DEF Received, OtherBoxes
<1>8. SameLife /\ held' = held /\ stack' = stack /\ Spared(Shell)
  BY <1>1, <1>5, SystemThreads, Distinct DEF Received
<1>9. /\ LocalTypes' /\ Booted' /\ lines' = lines
      /\ pc'[Shell] = pc[Shell] /\ pc'[Sddrv] = pc[Sddrv]
  BY <1>1, <1>2, <1>3, <1>7, <1>8, SystemThreads, ExecKeepsRest
  DEF SameLife, Spared, locals, history, LocalTypes
<1>10. Fetched'
  BY <1>1, <1>2, <1>3, <1>5, <1>7, <1>8, <1>9 DEF Fetched, Spared, Received
<1>11. \/ /\ ~ExecRuns' /\ ~HoldsRequest' /\ box'["APPREQUEST"] = box["APPREQUEST"]
       \/ /\ ExecRuns' /\ HoldsRequest' /\ box["APPREQUEST"] # <<>>
          /\ Len(box'["APPREQUEST"]) = Len(box["APPREQUEST"]) - 1
          /\ Len(box["APPREQUEST"]) = 1 => box'["APPREQUEST"] = <<>>
  BY <1>1, <1>3, <1>5, Distinct DEF ExecRuns, HoldsRequest, Received
<1>12. ~ExecRuns /\ ~HoldsRequest
  BY <1>1 DEF ExecRuns, HoldsRequest
<1>13. RunInHand'
  <2>1. ShellWaits' <=> ShellWaits
    BY <1>7, <1>9 DEF ShellWaits
  <2>2. QED
    BY <1>2, <1>7, <1>11, <1>12, <2>1 DEF RunInHand, InHand
<1>14. LoadInHand'
  BY <1>1, <1>2, <1>3, <1>7, <1>9 DEF LoadInHand, InHand, ExecWaits, SddrvLoads
<1>15. Foreground'
  BY <1>1, <1>2, <1>3, <1>8, NoForeground DEF SameLife, Apps, locals
<1>16. requests' = requests
  BY <1>9, <1>11, <1>12, RequestsMove
<1>17. Accounted'
  BY <1>2, <1>8, <1>9, <1>16, AccountedSame DEF history
<1>18. QED
  BY <1>6, <1>9, <1>10, <1>13, <1>14, <1>15, <1>17 DEF Programs, Places, Handed

LEMMA ExecRequestsLoad ==
    ASSUME Kept, Programs, At(Exec, "load"), thread_send("SDREQUEST", "none"),
           Goto(Exec, "await load"), job' = [job EXCEPT !.kind = Got(Exec)],
           UNCHANGED <<uart, asked, bg, history>>
    PROVE  Stops \/ Programs'
<1>1. current = Exec /\ pc[Exec] = "load"
  BY DEF At
<1>2. /\ Booted /\ Waiters /\ Fetched /\ RunInHand /\ LoadInHand /\ Foreground
      /\ Accounted /\ LocalTypes
      /\ receiver["APPREQUEST"] # Exec /\ receiver["SDRESULT"] # Exec
  BY <1>1, ExecStands
<1>3. /\ pc'[Exec] = "await load" /\ \A t \in Thread \ {Exec} : pc'[t] = pc[t]
      /\ pc' = [t \in Thread |-> pc'[t]] /\ \A t \in 0 .. 3 : pc'[t] = pc[t]
  BY <1>2, ExecMoves
<1>4. tcb[Exec].got \in Message
  BY <1>1, <1>2, KeptTypes, SystemThreads DEF Fetched, Tcb
<1>5. job' \in [kind : Data, id : Thread]
  BY <1>2, <1>4 DEF Message, Got, LocalTypes
<1>6. halt("sysdown") \/ Sent("SDREQUEST", {current})
  BY <1>2, BoxNames, Sending
<1>7. ASSUME halt("sysdown") PROVE Stops
  BY <1>3, <1>7, SystemThreads, Distinct DEF Stops
<1>8. ASSUME Sent("SDREQUEST", {current}) PROVE Programs'
  <2>1. Waiters'
    BY <1>1, <1>2, <1>3, <1>8, BoxNames, SentWaiters
  <2>2. \A b \in {"CONSRX", "CMDEND", "APPREQUEST", "SDRESULT"} :
          receiver'[b] = receiver[b] /\ box'[b] = box[b]
    BY <1>8, BoxNames DEF Sent, OtherBoxes
  <2>3. SameLife /\ held' = held /\ stack' = stack
    BY <1>8 DEF Sent
  <2>4. /\ receiver'["SDREQUEST"] = NULL /\ Spared(Shell)
        /\ \/ /\ receiver["SDREQUEST"] = NULL
              /\ box["SDREQUEST"] = <<>> => Len(box'["SDREQUEST"]) = 1
           \/ /\ receiver["SDREQUEST"] = Sddrv /\ pc[Sddrv] = "load"
              /\ box'["SDREQUEST"] = box["SDREQUEST"]
    <3>1. Place["SDREQUEST"].reader = Sddrv /\ Place["SDREQUEST"].at = "load"
      BY DEF Place
    <3>2. receiver["SDREQUEST"] # NULL => pc[Sddrv] = "load"
      BY <1>2, <3>1, BoxNames DEF Waiters, Waits
    <3>3. QED
      BY <1>1, <1>8, <3>1, <3>2, SystemThreads, Distinct DEF Sent
  <2>5. /\ LocalTypes' /\ Booted' /\ lines' = lines
        /\ pc'[Shell] = pc[Shell] /\ pc'[Sddrv] = pc[Sddrv]
    BY <1>1, <1>2, <1>3, <1>5, <2>2, <2>3, <2>4, SystemThreads, ExecKeepsRest
    DEF SameLife, Spared, history, LocalTypes
  <2>6. Fetched'
    BY <1>2, <1>3, <2>2, <2>4, <2>5 DEF Fetched, Spared
  <2>7. RunInHand'
    BY <1>1, <1>2, <1>3, <2>2, <2>5 DEF RunInHand, InHand, ShellWaits, ExecRuns
  <2>8. LoadInHand'
    <3>1. ~ExecWaits /\ ExecWaits'
      BY <1>1, <1>2, <1>3 DEF ExecWaits
    <3>2. \/ /\ SddrvLoads' <=> SddrvLoads
             /\ box["SDREQUEST"] = <<>> => Len(box'["SDREQUEST"]) = 1
          \/ SddrvLoads' /\ box'["SDREQUEST"] = box["SDREQUEST"]
      BY <2>4, <2>5, Distinct DEF SddrvLoads
    <3>3. QED
      BY <1>2, <2>2, <3>1, <3>2 DEF LoadInHand, InHand
  <2>9. Foreground'
    BY <1>1, <1>2, <1>3, <2>3, NoForeground DEF SameLife, Apps
  <2>10. HoldsRequest /\ HoldsRequest'
    BY <1>1, <1>2, <1>3 DEF HoldsRequest, Fetched
  <2>11. requests' = requests
    BY <2>2, <2>5, <2>10, RequestsMove
  <2>12. Accounted'
    BY <1>2, <2>3, <2>5, <2>11, AccountedSame DEF history
  <2>13. QED
    BY <2>1, <2>5, <2>6, <2>7, <2>8, <2>9, <2>12 DEF Programs, Places, Handed
<1>9. QED
  BY <1>6, <1>7, <1>8

LEMMA ExecAwaitsLoad ==
    ASSUME Kept, Programs, At(Exec, "await load"), thread_recv("SDRESULT"),
           Goto(Exec, "start"), UNCHANGED <<uart, locals, history>>
    PROVE  Programs'
<1>1. current = Exec /\ pc[Exec] = "await load"
  BY DEF At
<1>2. /\ Booted /\ Waiters /\ Fetched /\ RunInHand /\ LoadInHand /\ Foreground
      /\ Accounted /\ LocalTypes
      /\ receiver["APPREQUEST"] # Exec /\ receiver["SDRESULT"] # Exec
  BY <1>1, ExecStands
<1>3. /\ pc'[Exec] = "start" /\ \A t \in Thread \ {Exec} : pc'[t] = pc[t]
      /\ pc' = [t \in Thread |-> pc'[t]] /\ \A t \in 0 .. 3 : pc'[t] = pc[t]
  BY <1>2, ExecMoves
<1>4. Place["SDRESULT"].reader = current /\ Place["SDRESULT"].at = "start"
  BY <1>1 DEF Place
<1>5. Received("SDRESULT")
  BY <1>2, <1>4, BoxNames, Receiving
<1>6. Waiters'
  BY <1>1, <1>2, <1>3, <1>4, <1>5, BoxNames, ReceivedWaiters
<1>7. \A b \in {"CONSRX", "CMDEND", "SDREQUEST", "APPREQUEST"} :
        receiver'[b] = receiver[b] /\ box'[b] = box[b]
  BY <1>5, BoxNames DEF Received, OtherBoxes
<1>8. SameLife /\ held' = held /\ stack' = stack /\ Spared(Shell)
  BY <1>1, <1>5, SystemThreads, Distinct DEF Received
<1>9. /\ LocalTypes' /\ Booted' /\ lines' = lines
      /\ pc'[Shell] = pc[Shell] /\ pc'[Sddrv] = pc[Sddrv]
  BY <1>1, <1>2, <1>3, <1>7, <1>8, SystemThreads, ExecKeepsRest
  DEF SameLife, Spared, locals, history, LocalTypes
<1>10. Fetched'
  BY <1>1, <1>2, <1>3, <1>5, <1>7, <1>8, <1>9 DEF Fetched, Spared, Received
<1>11. RunInHand'
  BY <1>1, <1>2, <1>3, <1>7, <1>9 DEF RunInHand, InHand, ShellWaits, ExecRuns
<1>12. LoadInHand'
  <2>1. ExecWaits /\ (SddrvLoads' <=> SddrvLoads)
    BY <1>1, <1>7, <1>9 DEF ExecWaits, SddrvLoads
  <2>2. \/ ExecWaits' /\ box["SDRESULT"] = <<>> /\ box'["SDRESULT"] = <<>>
        \/ /\ ~ExecWaits' /\ box["SDRESULT"] # <<>>
           /\ Len(box["SDRESULT"]) = 1 => box'["SDRESULT"] = <<>>
    BY <1>1, <1>3, <1>5, Distinct DEF ExecWaits, Received
  <2>3. QED
    BY <1>2, <1>7, <2>1, <2>2 DEF LoadInHand, InHand
<1>13. Foreground'
  BY <1>1, <1>2, <1>3, <1>8, NoForeground DEF SameLife, Apps, locals
<1>14. HoldsRequest /\ HoldsRequest'
  BY <1>1, <1>3 DEF HoldsRequest
<1>15. requests' = requests
  BY <1>7, <1>9, <1>14, RequestsMove
<1>16. Accounted'
  BY <1>2, <1>8, <1>9, <1>15, AccountedSame DEF history
<1>17. QED
  BY <1>6, <1>9, <1>10, <1>11, <1>12, <1>13, <1>16 DEF Programs, Places, Handed

(* The answer to the shell: exec keeps the request after a load, and       *)
(* forgets it when the load failed.                                        *)
LEMMA ExecAnswers ==
    ASSUME Kept, Programs, current = Exec, thread_send("CMDEND", "none"),
           NEW l, Goto(Exec, l), UNCHANGED <<uart, locals, cause>>,
           \/ pc[Exec] = "start" /\ l = "recv" /\ failures' = failures + 1
           \/ pc[Exec] = "end" /\ l = "free" /\ failures' = failures
    PROVE  Stops \/ Programs'
<1>1. /\ Booted /\ Waiters /\ Fetched /\ RunInHand /\ LoadInHand /\ Foreground
      /\ Accounted /\ LocalTypes
      /\ receiver["APPREQUEST"] # Exec /\ receiver["SDRESULT"] # Exec
  BY ExecStands
<1>2. /\ pc'[Exec] = l /\ \A t \in Thread \ {Exec} : pc'[t] = pc[t]
      /\ pc' = [t \in Thread |-> pc'[t]] /\ \A t \in 0 .. 3 : pc'[t] = pc[t]
  BY <1>1, ExecMoves
<1>3. failures \in Nat /\ failures' \in Nat
  BY <1>1 DEF LocalTypes
<1>4. halt("sysdown") \/ Sent("CMDEND", {current})
  BY <1>1, BoxNames, Sending
<1>5. ASSUME halt("sysdown") PROVE Stops
  BY <1>2, <1>5, SystemThreads, Distinct DEF Stops, locals
<1>6. ASSUME Sent("CMDEND", {current}) PROVE Programs'
  <2>1. Waiters'
    BY <1>1, <1>2, <1>6, BoxNames, SentWaiters
  <2>2. \A b \in {"CONSRX", "APPREQUEST", "SDREQUEST", "SDRESULT"} :
          receiver'[b] = receiver[b] /\ box'[b] = box[b]
    BY <1>6, BoxNames DEF Sent, OtherBoxes
  <2>3. SameLife /\ held' = held /\ stack' = stack
    BY <1>6 DEF Sent
  <2>4. /\ receiver'["CMDEND"] = NULL
        /\ \/ /\ receiver["CMDEND"] = NULL /\ Spared(Shell)
              /\ box["CMDEND"] = <<>> => Len(box'["CMDEND"]) = 1
           \/ /\ receiver["CMDEND"] = Shell /\ pc[Shell] = "free"
              /\ box'["CMDEND"] = box["CMDEND"]
    <3>1. Place["CMDEND"].reader = Shell /\ Place["CMDEND"].at = "free"
      BY DEF Place
    <3>2. receiver["CMDEND"] # NULL => pc[Shell] = "free"
      BY <1>1, <3>1, BoxNames DEF Waiters, Waits
    <3>3. QED
      BY <1>6, <3>1, <3>2, SystemThreads, Distinct DEF Sent
  <2>5. /\ LocalTypes' /\ Booted' /\ lines' = lines
        /\ pc'[Shell] = pc[Shell] /\ pc'[Sddrv] = pc[Sddrv]
    BY <1>1, <1>2, <1>3, <2>2, <2>3, <2>4, SystemThreads, ExecKeepsRest
    DEF SameLife, Spared, locals, LocalTypes
  <2>6. Fetched'
    BY <1>1, <1>2, <2>2, <2>4, <2>5 DEF Fetched, Spared
  <2>7. RunInHand'
    <3>1. ExecRuns /\ ~ExecRuns'
      BY <1>1, <1>2, <2>2 DEF ExecRuns
    <3>2. \/ /\ ShellWaits' <=> ShellWaits
             /\ box["CMDEND"] = <<>> => Len(box'["CMDEND"]) = 1
          \/ /\ ShellWaits /\ ~ShellWaits'
             /\ box'["CMDEND"] = box["CMDEND"]
      BY <2>4, <2>5, Distinct DEF ShellWaits
    <3>3. QED
      BY <1>1, <2>2, <3>1, <3>2 DEF RunInHand, InHand
  <2>8. LoadInHand'
    BY <1>1, <1>2, <2>2, <2>5 DEF LoadInHand, InHand, ExecWaits, SddrvLoads
  <2>9. Foreground'
    BY <1>1, <1>2, <2>3, NoForeground DEF SameLife, Apps, locals
  <2>10. HoldsRequest /\ (HoldsRequest' <=> l = "free")
    BY <1>2 DEF HoldsRequest
  <2>11. Accounted'
    <3>1. CASE l = "free"
      BY <1>1, <2>2, <2>3, <2>5, <2>10, <3>1, RequestsMove, AccountedSame
    <3>2. CASE l = "recv"
      <4>1. requests' = requests - 1 /\ failures' = failures + 1
        BY <2>2, <2>5, <2>10, <3>2, RequestsMove
      <4>2. held \in Int /\ lines \in Int /\ requests \in Int
        BY KeptTypes, Lengths, BoxNames, Counts
      <4>3. QED
        BY <1>1, <1>3, <2>3, <2>5, <4>1, <4>2, AccountedMoved
    <3>3. QED
      BY <3>1, <3>2
  <2>12. QED
    BY <2>1, <2>5, <2>6, <2>7, <2>8, <2>9, <2>11 DEF Programs, Places, Handed
<1>7. QED
  BY <1>4, <1>5, <1>6

LEMMA AllBooted ==
    ASSUME Kept, Booted, pc[Exec] # "none"
    PROVE  (\A t \in 0 .. 4 : live(t)) /\ (FreeSlots # {} => FreeSlot \in Apps)
<1>1. \A t \in 0 .. 4 : live(t)
  BY DEF Booted, Exec
<1>2. FreeSlots # {} => FreeSlot \in Thread /\ ~live(FreeSlot)
  BY FreeSlotIsFree
<1>3. QED
  BY <1>1, <1>2, SystemThreads

LEMMA ExecStarts ==
    ASSUME Kept, Programs, start_app, UNCHANGED <<uart, asked>>
    PROVE  Programs'
<1>1. current = Exec /\ pc[Exec] = "start" /\ failures' = failures
  BY DEF At, start_app
<1>2. /\ Booted /\ Waiters /\ Fetched /\ RunInHand /\ LoadInHand /\ Foreground
      /\ Accounted /\ LocalTypes
      /\ receiver["APPREQUEST"] # Exec /\ receiver["SDRESULT"] # Exec
  BY <1>1, ExecStands
<1>3. "APP" \in Pools /\ 8 \in Priority
  BY SystemAssumption DEF Pools, Priority, SystemAssumption
<1>4. CASE /\ room("APP", 1) /\ FreeSlots # {} /\ thread_run("APP", 8, 1)
           /\ pc' = [pc EXCEPT ![Exec] = IF job.kind = "bg" THEN "end" ELSE "await app",
                               ![FreeSlot] = "entry"]
           /\ job' = [job EXCEPT !.id = FreeSlot]
           /\ bg' = [bg EXCEPT ![FreeSlot] = (job.kind = "bg")]
  <2>1. PICK f : f = FreeSlot
    OBVIOUS
  <2>2. f \in Apps /\ f \in Thread /\ f \notin 0 .. 4
    BY <1>1, <1>2, <1>4, <2>1, AllBooted, SystemThreads
  <2>3. /\ ~live(f) /\ f # current /\ tcb'[f].func
        /\ \A t \in Thread \ {f} : tcb'[t].func = tcb[t].func
        /\ Called({current, f}) /\ held' = held
        /\ stack' = [stack EXCEPT !["APP"] = @ - 1]
    BY <1>3, <1>4, <2>1, Running
  <2>4. /\ pc'[Exec] = (IF job.kind = "bg" THEN "end" ELSE "await app")
        /\ \A t \in Thread \ {Exec, f} : pc'[t] = pc[t]
        /\ pc' = [t \in Thread |-> pc'[t]]
    <3>1. pc = [t \in Thread |-> pc[t]] /\ Exec \in Thread /\ Exec # f
      BY <1>1, <1>2, <2>3, SystemThreads DEF LocalTypes
    <3>2. QED
      BY <1>4, <2>1, <3>1, SystemThreads
  <2>5. \A t \in 0 .. 3 : pc'[t] = pc[t]
    <3>1. \A t \in 0 .. 3 : t \in Thread \ {Exec, f}
      BY <2>2, SystemThreads DEF Exec
    <3>2. QED
      BY <2>4, <3>1
  <2>6. /\ job' \in [kind : Data, id : Thread] /\ job'.id = f /\ job'.kind = job.kind
        /\ bg' \in [Thread -> BOOLEAN] /\ bg'[f] = (job.kind = "bg")
        /\ \A t \in Thread \ {f} : bg'[t] = bg[t]
    BY <1>2, <1>4, <2>1, <2>2 DEF LocalTypes
  <2>7. box' = box /\ receiver' = receiver /\ Spared(Shell) /\ stack'["RUN"] = stack["RUN"]
    <3>1. Shell # f /\ Shell # current /\ Shell \in Thread
      BY <1>1, <2>2, SystemThreads, Distinct DEF Shell
    <3>2. stack'["RUN"] = stack["RUN"]
      BY <2>3, KeptTypes DEF Pools
    <3>3. QED
      BY <2>3, <3>1, <3>2 DEF Called, mail
  <2>8. \A t \in 0 .. 4 : tcb'[t].func = tcb[t].func
    BY <2>2, <2>3, SystemThreads
  <2>9. /\ LocalTypes' /\ Booted' /\ lines' = lines
        /\ pc'[Shell] = pc[Shell] /\ pc'[Sddrv] = pc[Sddrv]
    BY <1>1, <1>2, <2>4, <2>5, <2>6, <2>7, <2>8, ExecKeepsRest DEF Spared, LocalTypes
  <2>10. Waiters'
    <3>1. {current, f} \subseteq {current} \cup Apps
      BY <2>2
    <3>2. \A t \in Thread \ {current, f} : pc'[t] = pc[t]
      BY <1>1, <2>4
    <3>3. QED
      BY <1>2, <2>3, <3>1, <3>2, CalledWaiters
  <2>11. Fetched'
    BY <1>2, <2>4, <2>7, <2>9 DEF Fetched, Spared
  <2>12. RunInHand'
    BY <1>1, <1>2, <2>4, <2>7, <2>9 DEF RunInHand, InHand, ShellWaits, ExecRuns
  <2>13. LoadInHand'
    BY <1>1, <1>2, <2>4, <2>7, <2>9 DEF LoadInHand, InHand, ExecWaits, SddrvLoads
  <2>14. Foreground'
    <3>1. \A t \in Apps : InForeground(t)' <=>
            t = f /\ job.kind # "bg"
      <4>1. ASSUME NEW t \in Apps, t # f PROVE ~InForeground(t)'
        <5>1. ~InForeground(t)
          BY <1>1, <1>2, <4>1 DEF Foreground
        <5>2. live(t)' <=> live(t)
          BY <2>3, <4>1, SystemThreads DEF live
        <5>3. bg'[t] = bg[t]
          BY <2>6, <4>1, SystemThreads
        <5>4. QED
          BY <5>1, <5>2, <5>3 DEF InForeground, Apps
      <4>2. InForeground(f)' <=> job.kind # "bg"
        BY <2>2, <2>3, <2>6 DEF InForeground, live, Apps
      <4>3. QED
        BY <4>1, <4>2
    <3>2. pc'[Exec] \in {"await app", "kill"} => job'.id \in Apps
      BY <2>2, <2>6
    <3>3. QED
      BY <2>4, <2>6, <3>1, <3>2 DEF Foreground, Apps
  <2>15. HoldsRequest /\ HoldsRequest'
    BY <1>1, <2>4 DEF HoldsRequest
  <2>16. requests' = requests
    BY <2>7, <2>9, <2>15, RequestsMove
  <2>17. Accounted'
    BY <1>1, <1>2, <2>3, <2>9, <2>16, AccountedSame
  <2>18. QED
    BY <2>9, <2>10, <2>11, <2>12, <2>13, <2>14, <2>17 DEF Programs, Places, Handed
<1>5. CASE /\ ~(room("APP", 1) /\ FreeSlots # {}) /\ thread_run("APP", 8, 1)
           /\ UNCHANGED <<pc, job, bg, cause>>
  <2>1. /\ SameLife /\ Called({current}) /\ held' = held /\ stack' = stack
        /\ tcb'[current].got = NULL /\ current \notin rq'.ready
    BY <1>5, Refusing
  <2>2. pc' = pc /\ job' = job /\ bg' = bg
    BY <1>5
  <2>3. box' = box /\ receiver' = receiver /\ Spared(Shell)
    BY <1>1, <2>1, SystemThreads, Distinct DEF Called, mail
  <2>4. /\ LocalTypes' /\ Booted' /\ lines' = lines
    BY <1>1, <1>2, <2>1, <2>2, <2>3, SystemThreads, ExecKeepsRest
    DEF SameLife, Spared, LocalTypes
  <2>5. Waiters'
    BY <1>2, <2>1, <2>2, CalledWaiters
  <2>6. Fetched'
    BY <1>1, <1>2, <2>1, <2>2, <2>3 DEF Fetched, Spared
  <2>7. RunInHand' /\ LoadInHand'
    BY <1>2, <2>2, <2>3
    DEF RunInHand, LoadInHand, InHand, ShellWaits, ExecRuns, ExecWaits, SddrvLoads
  <2>8. Foreground'
    BY <1>2, <2>1, <2>2, ForegroundKept DEF SameLife, Apps
  <2>9. HoldsRequest /\ HoldsRequest'
    BY <1>1, <2>2 DEF HoldsRequest
  <2>10. requests' = requests
    BY <2>2, <2>3, <2>9, RequestsMove
  <2>11. Accounted'
    BY <1>1, <1>2, <2>1, <2>4, <2>10, AccountedSame
  <2>12. QED
    BY <2>4, <2>5, <2>6, <2>7, <2>8, <2>11 DEF Programs, Places, Handed
<1>6. QED
  BY <1>4, <1>5 DEF start_app

(* The rest of a run: exec's calls that leave the boxes of the handshake.  *)
LEMMA ExecGoesOn ==
    ASSUME Kept, Programs, current = Exec, NEW l, Goto(Exec, l),
           UNCHANGED <<uart, locals, history>>,
           \/ pc[Exec] = "await app" /\ l = "kill" /\ held' = held
           \/ pc[Exec] = "kill" /\ l = "end" /\ held' = held /\ ~tcb'[job.id].func
           \/ pc[Exec] = "free" /\ l = "recv" /\ held' = held - 1,
           \A t \in 0 .. 4 : tcb'[t].func = tcb[t].func,
           \A t \in Apps : tcb'[t].func => tcb[t].func, stack' = stack,
           \A b \in {"CONSRX", "APPREQUEST", "CMDEND", "SDREQUEST", "SDRESULT"} :
              receiver'[b] = receiver[b] /\ box'[b] = box[b],
           Spared(Shell), Waiters'
    PROVE  Programs'
<1>1. /\ Booted /\ Waiters /\ Fetched /\ RunInHand /\ LoadInHand /\ Foreground
      /\ Accounted /\ LocalTypes
      /\ receiver["APPREQUEST"] # Exec /\ receiver["SDRESULT"] # Exec
  BY ExecStands
<1>2. /\ pc'[Exec] = l /\ \A t \in Thread \ {Exec} : pc'[t] = pc[t]
      /\ pc' = [t \in Thread |-> pc'[t]] /\ \A t \in 0 .. 3 : pc'[t] = pc[t]
  BY <1>1, ExecMoves
<1>3. /\ LocalTypes' /\ Booted' /\ lines' = lines
      /\ pc'[Shell] = pc[Shell] /\ pc'[Sddrv] = pc[Sddrv]
  BY <1>1, <1>2, ExecKeepsRest DEF Spared, locals, history, LocalTypes
<1>4. Fetched'
  BY <1>1, <1>2, <1>3 DEF Fetched, Spared
<1>5. RunInHand'
  BY <1>1, <1>2, <1>3 DEF RunInHand, InHand, ShellWaits, ExecRuns
<1>6. LoadInHand'
  BY <1>1, <1>2, <1>3 DEF LoadInHand, InHand, ExecWaits, SddrvLoads
<1>7. Foreground'
  <2>1. CASE pc[Exec] = "await app" /\ l = "kill"
    BY <1>1, <1>2, <2>1 DEF Foreground, InForeground, live, Apps, locals
  <2>2. CASE pc[Exec] = "kill" /\ l = "end" /\ ~tcb'[job.id].func
    <3>1. \A t \in Apps : InForeground(t) => t = job.id
      BY <1>1 DEF Foreground
    <3>2. \A t \in Apps : InForeground(t)' => InForeground(t) /\ t # job.id
      BY <2>2 DEF InForeground, live, locals, Apps
    <3>3. \A t \in Apps : ~InForeground(t)'
      BY <3>1, <3>2
    <3>4. QED
      BY <1>2, <2>2, <3>3 DEF Foreground, Apps
  <2>3. CASE pc[Exec] = "free" /\ l = "recv"
    BY <1>1, <1>2, <2>3, NoForeground DEF locals
  <2>4. QED
    BY <2>1, <2>2, <2>3
<1>8. HoldsRequest /\ (HoldsRequest' <=> l # "recv")
  BY <1>2 DEF HoldsRequest
<1>9. Accounted'
  <2>1. CASE l # "recv" /\ held' = held
    BY <1>1, <1>3, <1>8, <2>1, RequestsMove, AccountedSame DEF history
  <2>2. CASE l = "recv" /\ held' = held - 1
    BY <1>1, <1>3, <1>8, <2>2, RequestsMove, AccountedLess DEF history, LocalTypes
  <2>3. QED
    BY <2>1, <2>2
<1>10. QED
  BY <1>3, <1>4, <1>5, <1>6, <1>7, <1>9 DEF Programs, Places, Handed

LEMMA ExecKeeps ==
    ASSUME Kept, Programs, exec_main
    PROVE  Stops \/ Programs'
<1>1. current = Exec /\ uart' = uart /\ asked' = asked
  BY DEF exec_main, load_request, load_failed, start_app, finish_app, At
<1>2. /\ Waiters /\ Foreground /\ LocalTypes /\ Booted
  BY <1>1, ExecStands
<1>3. CASE load_request
  <2>1. CASE At(Exec, "recv") /\ thread_recv("APPREQUEST") /\ Goto(Exec, "load")
             /\ UNCHANGED job
    BY <1>1, <1>3, <2>1, ExecAwaitsRequest DEF load_request, locals
  <2>2. CASE /\ At(Exec, "load") /\ thread_send("SDREQUEST", "none")
             /\ Goto(Exec, "await load") /\ job' = [job EXCEPT !.kind = Got(Exec)]
    BY <1>1, <1>3, <2>2, ExecRequestsLoad DEF load_request
  <2>3. CASE At(Exec, "await load") /\ thread_recv("SDRESULT") /\ Goto(Exec, "start")
             /\ UNCHANGED job
    BY <1>1, <1>3, <2>3, ExecAwaitsLoad DEF load_request, locals
  <2>4. QED
    BY <1>3, <2>1, <2>2, <2>3 DEF load_request
<1>4. CASE load_failed
  <2>1. /\ pc[Exec] = "start" /\ thread_send("CMDEND", "none") /\ Goto(Exec, "recv")
        /\ failures' = failures + 1 /\ UNCHANGED <<uart, locals, cause>>
    BY <1>1, <1>4 DEF load_failed, At, locals
  <2>2. QED
    BY <1>1, <2>1, ExecAnswers
<1>5. CASE start_app
  BY <1>1, <1>5, ExecStarts
<1>6. CASE finish_app
  <2>1. UNCHANGED <<uart, locals, history>>
    BY <1>1, <1>6 DEF finish_app, locals
  <2>2. CASE At(Exec, "await app") /\ thread_recv("APPEVENT") /\ Goto(Exec, "kill")
    <3>1. Place["APPEVENT"].reader = current /\ Place["APPEVENT"].at = "kill"
      BY <1>1 DEF Place
    <3>2. Received("APPEVENT")
      BY <1>2, <2>2, <3>1, BoxNames, Receiving
    <3>3. pc'[Exec] = "kill" /\ \A t \in Thread \ {Exec} : pc'[t] = pc[t]
      BY <1>2, <2>2, ExecMoves
    <3>4. Waiters'
      BY <1>1, <1>2, <3>1, <3>2, <3>3, BoxNames, ReceivedWaiters
    <3>5. \A b \in {"CONSRX", "APPREQUEST", "CMDEND", "SDREQUEST", "SDRESULT"} :
            receiver'[b] = receiver[b] /\ box'[b] = box[b]
      BY <3>2, BoxNames DEF Received, OtherBoxes
    <3>6. SameLife /\ held' = held /\ stack' = stack /\ Spared(Shell)
      BY <1>1, <3>2, SystemThreads, Distinct DEF Received
    <3>7. pc[Exec] = "await app" /\ (\A t \in 0 .. 4 : tcb'[t].func = tcb[t].func)
          /\ (\A t \in Apps : tcb'[t].func => tcb[t].func)
      BY <2>2, <3>6, SystemThreads DEF At, SameLife
    <3>8. QED
      BY <1>1, <2>1, <2>2, <3>4, <3>5, <3>6, <3>7, ExecGoesOn
  <2>3. CASE At(Exec, "kill") /\ thread_kill(job.id) /\ Goto(Exec, "end")
    <3>1. pc[Exec] = "kill" /\ job.id \in Apps
      BY <1>2, <2>3 DEF At, Foreground
    <3>2. PICK id \in Thread : id = job.id /\ id \in Apps /\ id # current /\ id \notin 0 .. 4
      BY <1>1, <3>1, SystemThreads DEF Apps
    <3>3. /\ ~tcb'[id].func /\ \A t \in Thread \ {id} : tcb'[t].func = tcb[t].func
          /\ Called({current, id}) /\ held' = held /\ stack' = stack
      BY <2>3, <3>2, Killing
    <3>4. /\ \A t \in 0 .. 4 : tcb'[t].func = tcb[t].func
          /\ \A t \in Apps : tcb'[t].func => tcb[t].func
      BY <3>2, <3>3, SystemThreads
    <3>5. pc'[Exec] = "end" /\ \A t \in Thread \ {Exec} : pc'[t] = pc[t]
      BY <1>2, <2>3, ExecMoves
    <3>6. {current, id} \subseteq {current} \cup Apps
      BY <3>2
    <3>7. Waiters'
      BY <1>1, <1>2, <3>3, <3>5, <3>6, CalledWaiters
    <3>8. Spared(Shell) /\ box' = box /\ receiver' = receiver
      <4>1. Shell # id /\ Shell # current /\ Shell \in Thread
        BY <1>1, <3>2, SystemThreads, Distinct DEF Shell
      <4>2. QED
        BY <3>3, <4>1 DEF Called, mail
    <3>9. QED
      BY <1>1, <2>1, <2>3, <3>1, <3>2, <3>3, <3>4, <3>7, <3>8, ExecGoesOn
  <2>4. CASE At(Exec, "end") /\ thread_send("CMDEND", "none") /\ Goto(Exec, "free")
    <3>1. pc[Exec] = "end" /\ failures' = failures /\ UNCHANGED <<uart, locals, cause>>
      BY <2>1, <2>4 DEF At, history
    <3>2. QED
      BY <1>1, <2>4, <3>1, ExecAnswers
  <2>5. CASE At(Exec, "free") /\ thread_free /\ Goto(Exec, "recv")
    <3>1. SameLife /\ Called({current}) /\ held' = held - 1 /\ stack' = stack
      BY <2>5, Freeing
    <3>2. pc[Exec] = "free" /\ pc'[Exec] = "recv" /\ \A t \in Thread \ {Exec} : pc'[t] = pc[t]
      BY <1>2, <2>5, ExecMoves DEF At
    <3>3. Waiters'
      BY <1>1, <1>2, <3>1, <3>2, CalledWaiters
    <3>4. Spared(Shell) /\ box' = box /\ receiver' = receiver
      BY <1>1, <3>1, SystemThreads, Distinct DEF Called, mail
    <3>5. (\A t \in 0 .. 4 : tcb'[t].func = tcb[t].func)
          /\ (\A t \in Apps : tcb'[t].func => tcb[t].func)
      BY <3>1, SystemThreads DEF SameLife
    <3>6. QED
      BY <1>1, <2>1, <2>5, <3>1, <3>2, <3>3, <3>4, <3>5, ExecGoesOn
  <2>6. QED
    BY <1>6, <2>2, <2>3, <2>4, <2>5 DEF finish_app
<1>7. QED
  BY <1>3, <1>4, <1>5, <1>6 DEF exec_main
-----------------------------------------------------------------------------
(* The apps, the console's interrupt and the timer: the system threads     *)
(* stand still.                                                            *)
Still == \A t \in 0 .. 4 : pc'[t] = pc[t] /\ tcb'[t].func = tcb[t].func

LEMMA StillKept ==
    ASSUME Kept, Programs, Still, pc' = [t \in Thread |-> pc'[t]], UNCHANGED locals,
           uart' \in {"off", "idle"} \cup Commands, failures' = failures, stack' = stack,
           \A t \in Apps : tcb'[t].func => tcb[t].func,
           \A b \in {"APPREQUEST", "CMDEND", "SDREQUEST", "SDRESULT"} :
              receiver'[b] = receiver[b] /\ box'[b] = box[b],
           pc[Exec] = "load" => tcb'[Exec].got = tcb[Exec].got,
           pc[Exec] = "start" => Spared(Exec),
           tcb'[Shell].got = NULL =>
              tcb[Shell].got = NULL /\ receiver'["CONSRX"] = receiver["CONSRX"]
    PROVE  /\ LocalTypes' /\ Booted' /\ Fetched' /\ RunInHand' /\ LoadInHand' /\ Foreground'
           /\ requests' = requests
<1>1. /\ Booted /\ Fetched /\ RunInHand /\ LoadInHand /\ Foreground /\ LocalTypes
  BY DEF Programs, Places, Handed
<1>2. /\ pc'[Main] = pc[Main] /\ pc'[Sddrv] = pc[Sddrv] /\ pc'[Shell] = pc[Shell]
      /\ pc'[Exec] = pc[Exec]
  BY DEF Still, Main, Sddrv, Shell, Exec
<1>3. LocalTypes'
  BY <1>1 DEF LocalTypes, locals
<1>4. \A t \in 1 .. 4 : pc[t] = "none" => pc'[t] = "none"
  BY DEF Still
<1>5. Booted'
  BY <1>1, <1>2, <1>4, BootedKept DEF Still
<1>6. Fetched'
  BY <1>1, <1>2 DEF Fetched, Spared
<1>7. RunInHand'
  BY <1>1, <1>2 DEF RunInHand, InHand, ShellWaits, ExecRuns
<1>8. LoadInHand'
  BY <1>1, <1>2 DEF LoadInHand, InHand, ExecWaits, SddrvLoads
<1>9. Foreground'
  BY <1>1, <1>2, ForegroundKept DEF locals
<1>10. HoldsRequest' <=> HoldsRequest
  BY <1>2 DEF HoldsRequest
<1>11. requests' = requests
  BY <1>2, <1>10, RequestsMove
<1>12. QED
  BY <1>3, <1>5, <1>6, <1>7, <1>8, <1>9, <1>11

(* An event, from an app that ends or for a Ctrl-C.                        *)
LEMMA EventKeeps ==
    ASSUME Kept, Programs, NEW S, S \subseteq {current}, S \subseteq Apps,
           Sent("APPEVENT", S), \A t \in Thread \ S : pc'[t] = pc[t],
           pc' = [t \in Thread |-> pc'[t]], UNCHANGED <<uart, locals, failures>>
    PROVE  Programs'
<1>1. Waiters /\ LocalTypes /\ Accounted
  BY DEF Programs, Places, Handed
<1>2. Waiters'
  BY <1>1, BoxNames, SentWaiters
<1>3. \A b \in {"CONSRX", "APPREQUEST", "CMDEND", "SDREQUEST", "SDRESULT"} :
        receiver'[b] = receiver[b] /\ box'[b] = box[b]
  BY BoxNames DEF Sent, OtherBoxes
<1>4. Shell \in Thread \ S /\ Exec \in Thread \ S
  BY SystemThreads DEF Apps
<1>5. Spared(Shell) /\ (Spared(Exec) \/ pc[Exec] = "kill")
  <2>1. Place["APPEVENT"].reader = Exec /\ Place["APPEVENT"].at = "kill"
    BY DEF Place
  <2>2. receiver["APPEVENT"] # NULL => pc[Exec] = "kill"
    BY <1>1, <2>1, BoxNames DEF Waiters, Waits
  <2>3. QED
    BY <1>4, <2>1, <2>2, Distinct DEF Sent
<1>6. Still
  <2>1. \A t \in 0 .. 4 : t \in Thread \ S
    BY SystemThreads
  <2>2. QED
    BY <2>1 DEF Still, Sent, SameLife
<1>7. SameLife /\ held' = held /\ stack' = stack
  BY DEF Sent
<1>8. /\ LocalTypes' /\ Booted' /\ Fetched' /\ RunInHand' /\ LoadInHand' /\ Foreground'
      /\ requests' = requests
  BY <1>1, <1>3, <1>5, <1>6, <1>7, StillKept DEF SameLife, Spared, Apps, LocalTypes
<1>9. lines' = lines
  BY <1>3, <1>4, <1>5, LinesMove DEF HoldsLine, Spared
<1>10. Accounted'
  BY <1>1, <1>7, <1>8, <1>9, AccountedSame
<1>11. QED
  BY <1>2, <1>8, <1>10 DEF Programs, Places, Handed

LEMMA AppKeeps ==
    ASSUME Kept, Programs, NEW t \in Apps, exec_app(t)
    PROVE  Stops \/ Programs'
<1>1. /\ current = t /\ t \in Thread /\ t \notin 0 .. 4
      /\ UNCHANGED <<uart, locals, failures>>
  BY SystemThreads DEF exec_app, At
<1>2. Waiters /\ LocalTypes /\ Accounted
  BY DEF Programs, Places, Handed
<1>3. PICK l : Goto(t, l)
  BY DEF exec_app
<1>4. /\ pc'[t] = l /\ \A u \in Thread \ {t} : pc'[u] = pc[u]
      /\ pc' = [u \in Thread |-> pc'[u]]
  BY <1>1, <1>2, <1>3, Moves
<1>5. \A u \in 0 .. 4 : pc'[u] = pc[u] /\ u # t /\ u \in Thread
  BY <1>1, <1>4, SystemThreads
<1>6. pc'[Shell] = pc[Shell] /\ Shell # t /\ Shell \in Thread
  BY <1>5 DEF Shell
<1>7. CASE thread_send("APPEVENT", "none")
  <2>1. halt("sysdown") \/ Sent("APPEVENT", {current})
    BY <1>2, <1>7, BoxNames, Sending
  <2>2. ASSUME halt("sysdown") PROVE Stops
    BY <1>1, <1>6, <2>2 DEF Stops, locals
  <2>3. ASSUME Sent("APPEVENT", {current}) PROVE Programs'
    BY <1>1, <1>4, <2>3, EventKeeps
  <2>4. QED
    BY <2>1, <2>2, <2>3
<1>8. CASE thread_exit
  <2>1. /\ ~tcb'[t].func
        /\ \A u \in Thread \ {t} : tcb'[u].func = tcb[u].func
        /\ Called({t}) /\ held' = held /\ stack' = stack
    BY <1>1, <1>8, Exiting
  <2>2. Waiters'
    BY <1>1, <1>2, <1>4, <2>1, CalledWaiters
  <2>3. box' = box /\ receiver' = receiver /\ Spared(Shell) /\ Spared(Exec)
    BY <1>5, <2>1 DEF Called, mail, Shell, Exec
  <2>4. Still /\ \A u \in Apps : tcb'[u].func => tcb[u].func
    BY <1>5, <2>1 DEF Still, Apps
  <2>5. /\ LocalTypes' /\ Booted' /\ Fetched' /\ RunInHand' /\ LoadInHand' /\ Foreground'
        /\ requests' = requests
    BY <1>1, <1>2, <1>4, <2>1, <2>3, <2>4, StillKept DEF Spared, LocalTypes
  <2>6. lines' = lines
    BY <1>1, <1>6, <2>3, LinesMove DEF HoldsLine, Spared
  <2>7. Accounted'
    BY <1>1, <1>2, <2>1, <2>5, <2>6, AccountedSame
  <2>8. QED
    BY <2>2, <2>5, <2>7 DEF Programs, Places, Handed
<1>9. QED
  BY <1>7, <1>8 DEF exec_app

LEMMA CtrlCKeeps ==
    ASSUME Kept, Programs, ctrl_c
    PROVE  Stops \/ Programs'
<1>1. /\ Waiters /\ LocalTypes /\ UNCHANGED <<pc, uart, locals, failures>>
  BY DEF Programs, Places, ctrl_c
<1>2. halt("sysdown") \/ Sent("APPEVENT", {})
  BY <1>1, BoxNames, HandlerSends DEF ctrl_c
<1>3. ASSUME halt("sysdown") PROVE Stops
  BY <1>1, <1>3 DEF Stops, locals
<1>4. ASSUME Sent("APPEVENT", {}) PROVE Programs'
  BY <1>1, <1>4, EventKeeps DEF LocalTypes
<1>5. QED
  BY <1>2, <1>3, <1>4

LEMMA TickKeeps ==
    ASSUME Kept, Programs, systick
    PROVE  Programs'
<1>1. /\ Waiters /\ LocalTypes /\ Accounted /\ UNCHANGED <<pc, uart, locals, history>>
  BY DEF Programs, Places, Handed, systick, system
<1>2. SameLife /\ Called({}) /\ held' = held /\ stack' = stack
  BY Ticking DEF systick
<1>3. Waiters'
  BY <1>1, <1>2, CalledWaiters
<1>4. box' = box /\ receiver' = receiver /\ Spared(Shell) /\ Spared(Exec)
  BY <1>2, SystemThreads DEF Called, mail
<1>5. Still /\ \A u \in Apps : tcb'[u].func => tcb[u].func
  BY <1>1, <1>2, SystemThreads DEF Still, SameLife
<1>6. /\ LocalTypes' /\ Booted' /\ Fetched' /\ RunInHand' /\ LoadInHand' /\ Foreground'
      /\ requests' = requests
  BY <1>1, <1>2, <1>4, <1>5, StillKept DEF Spared, LocalTypes, history
<1>7. lines' = lines
  BY <1>1, <1>4, LinesMove DEF HoldsLine, Spared
<1>8. Accounted'
  BY <1>1, <1>2, <1>6, <1>7, AccountedSame DEF history
<1>9. QED
  BY <1>3, <1>6, <1>8 DEF Programs, Places, Handed

(* An Enter, in two parts: the line's block, then its message.             *)
LEMMA LineMoves ==
    ASSUME Kept
    PROVE  /\ (/\ HoldsLine' <=> HoldsLine
               /\ uart' \in Commands /\ uart \notin Commands
               /\ box'["CONSRX"] = box["CONSRX"]) => (lines' = lines + 1)
           /\ (/\ HoldsLine' <=> HoldsLine
               /\ uart' \notin Commands /\ uart \in Commands
               /\ Len(box'["CONSRX"]) = Len(box["CONSRX"]) + 1) => (lines' = lines)
           /\ (/\ ~HoldsLine /\ HoldsLine'
               /\ uart' \notin Commands /\ uart \in Commands
               /\ box'["CONSRX"] = box["CONSRX"]) => (lines' = lines)
<1>1. PICK n \in Nat : n = Len(box["CONSRX"])
  BY Lengths, BoxNames
<1>2. PICK u \in {0, 1} : u = One(uart \in Commands) /\ (u = 1 <=> uart \in Commands)
  BY DEF One
<1>3. PICK v \in {0, 1} : v = One(uart \in Commands)' /\ (v = 1 <=> uart' \in Commands)
  BY DEF One
<1>4. PICK h \in {0, 1} : h = One(HoldsLine) /\ (h = 1 <=> HoldsLine)
  BY DEF One
<1>5. PICK k \in {0, 1} : k = One(HoldsLine)' /\ (k = 1 <=> HoldsLine')
  BY DEF One
<1>6. PICK m : m = Len(box'["CONSRX"])
  OBVIOUS
<1>7. box'["CONSRX"] = box["CONSRX"] => m = n
  BY <1>1, <1>6
<1>8. lines = n + u + h
  BY <1>1, <1>2, <1>4 DEF lines
<1>9. lines' = m + v + k
  BY <1>3, <1>5, <1>6 DEF lines
<1>10. QED
  BY <1>1, <1>2, <1>3, <1>4, <1>5, <1>6, <1>7, <1>8, <1>9

LEMMA InputKeeps ==
    ASSUME Kept, Programs, send_input_line
    PROVE  Stops \/ Programs'
<1>1. /\ Waiters /\ Fetched /\ LocalTypes /\ Accounted /\ UNCHANGED <<pc, locals, history>>
  BY DEF Programs, Places, Handed, send_input_line
<1>2. ASSUME halt("sysdown") PROVE Stops
  BY <1>1, <1>2 DEF Stops, locals
<1>3. ASSUME uart = "idle", picoxs_malloc, uart' \in Commands, ~halt("sysdown")
      PROVE  Programs'
  <2>1. SameLife /\ Called({}) /\ held' = held + 1 /\ stack' = stack
    BY <1>3, HandlerAllocates
  <2>2. Waiters'
    BY <1>1, <2>1, CalledWaiters
  <2>3. box' = box /\ receiver' = receiver /\ Spared(Shell) /\ Spared(Exec)
    BY <2>1, SystemThreads DEF Called, mail
  <2>4. Still /\ \A u \in Apps : tcb'[u].func => tcb[u].func
    BY <1>1, <2>1, SystemThreads DEF Still, SameLife
  <2>5. /\ LocalTypes' /\ Booted' /\ Fetched' /\ RunInHand' /\ LoadInHand' /\ Foreground'
        /\ requests' = requests
    BY <1>1, <1>3, <2>1, <2>3, <2>4, StillKept DEF Spared, LocalTypes, history
  <2>6. lines' = lines + 1
    BY <1>1, <1>3, <2>3, CommandNames, LineMoves DEF HoldsLine, Spared
  <2>7. Accounted'
    BY <1>1, <2>1, <2>5, <2>6, AccountedMore DEF history, LocalTypes
  <2>8. QED
    BY <2>2, <2>5, <2>7 DEF Programs, Places, Handed
<1>4. ASSUME uart \in Commands, picoxs_send("CONSRX", uart), uart' = "idle", ~halt("sysdown")
      PROVE  Programs'
  <2>1. Sent("CONSRX", {})
    BY <1>1, <1>4, BoxNames, HandlerSends
  <2>2. SameLife /\ held' = held /\ stack' = stack
    BY <2>1 DEF Sent
  <2>3. Waiters'
    BY <1>1, <2>1, BoxNames, SentWaiters
  <2>4. \A b \in {"APPREQUEST", "CMDEND", "SDREQUEST", "SDRESULT"} :
          receiver'[b] = receiver[b] /\ box'[b] = box[b]
    BY <2>1, BoxNames DEF Sent, OtherBoxes
  <2>5. /\ receiver'["CONSRX"] = NULL /\ Spared(Exec)
        /\ \/ /\ receiver["CONSRX"] = NULL /\ Spared(Shell)
              /\ Len(box'["CONSRX"]) = Len(box["CONSRX"]) + 1
           \/ /\ pc[Shell] = "execute" /\ tcb[Shell].got = NULL /\ tcb'[Shell].got # NULL
              /\ box'["CONSRX"] = box["CONSRX"]
    <3>1. Place["CONSRX"].reader = Shell /\ Place["CONSRX"].at = "execute"
      BY DEF Place
    <3>2. receiver["CONSRX"] # NULL => pc[Shell] = "execute" /\ tcb[Shell].got = NULL
      BY <1>1, <3>1, BoxNames DEF Waiters, Waits
    <3>3. QED
      BY <2>1, <3>1, <3>2, SystemThreads, Distinct DEF Sent
  <2>6. Still /\ \A u \in Apps : tcb'[u].func => tcb[u].func
    BY <1>1, <2>2, SystemThreads DEF Still, SameLife
  <2>7. tcb'[Shell].got = NULL =>
          tcb[Shell].got = NULL /\ receiver'["CONSRX"] = receiver["CONSRX"]
    BY <2>5 DEF Spared
  <2>8. /\ LocalTypes' /\ Booted' /\ Fetched' /\ RunInHand' /\ LoadInHand' /\ Foreground'
        /\ requests' = requests
    BY <1>1, <1>4, <2>2, <2>4, <2>5, <2>6, <2>7, StillKept DEF Spared, LocalTypes, history
  <2>9. lines' = lines
    <3>1. uart \in Commands /\ uart' \notin Commands
      BY <1>4, CommandNames
    <3>2. \/ (HoldsLine' <=> HoldsLine) /\ Len(box'["CONSRX"]) = Len(box["CONSRX"]) + 1
          \/ ~HoldsLine /\ HoldsLine' /\ box'["CONSRX"] = box["CONSRX"]
      BY <1>1, <2>5 DEF HoldsLine, Spared
    <3>3. QED
      BY <3>1, <3>2, LineMoves
  <2>10. Accounted'
    BY <1>1, <2>2, <2>8, <2>9, AccountedSame DEF history
  <2>11. QED
    BY <2>3, <2>8, <2>10 DEF Programs, Places, Handed
<1>5. QED
  BY <1>2, <1>3, <1>4 DEF send_input_line, Interruptible
-----------------------------------------------------------------------------
(* main starts the others.                                                 *)
LEMMA LeastFreeSlot ==
    ASSUME NEW n \in Thread, ~live(n), \A t \in 0 .. n - 1 : live(t)
    PROVE  FreeSlots # {} /\ FreeSlot = n
<1>1. FreeSlots \subseteq Nat /\ n \in FreeSlots
  BY DEF FreeSlots, Thread
<1>2. \A t \in FreeSlots : t >= n
  BY <1>1 DEF FreeSlots, Thread
<1>3. \E t \in FreeSlots : \A u \in FreeSlots : t <= u
  BY <1>1, LeastNatural
<1>4. FreeSlot \in FreeSlots /\ \A u \in FreeSlots : FreeSlot <= u
  BY <1>3 DEF FreeSlot
<1>5. QED
  BY <1>1, <1>2, <1>4

LEMMA BootKeeps ==
    ASSUME Kept, Programs, pc' = [t \in Thread |-> pc'[t]], UNCHANGED <<uart, locals, history>>,
           Waiters', Booted', held' = held, box' = box, receiver' = receiver,
           \A t \in Apps : tcb'[t].func => tcb[t].func,
           \/ pc'[Sddrv] = pc[Sddrv]
           \/ pc[Sddrv] = "none" /\ pc'[Sddrv] = "recv",
           \/ pc'[Shell] = pc[Shell] /\ Spared(Shell)
           \/ pc[Shell] = "none" /\ pc'[Shell] = "prompt",
           \/ pc'[Exec] = pc[Exec] /\ Spared(Exec)
           \/ pc[Exec] = "none" /\ pc'[Exec] = "recv"
    PROVE  Programs'
<1>1. /\ Fetched /\ RunInHand /\ LoadInHand /\ Foreground /\ LocalTypes /\ Accounted
  BY DEF Programs, Places, Handed
<1>2. LocalTypes'
  BY <1>1 DEF LocalTypes, locals, history
<1>3. Fetched'
  BY <1>1 DEF Fetched, Spared
<1>4. RunInHand'
  <2>1. (ShellWaits' <=> ShellWaits) /\ (ExecRuns' <=> ExecRuns)
    BY DEF ShellWaits, ExecRuns
  <2>2. QED
    BY <1>1, <2>1 DEF RunInHand, InHand
<1>5. LoadInHand'
  <2>1. (ExecWaits' <=> ExecWaits) /\ (SddrvLoads' <=> SddrvLoads)
    BY DEF ExecWaits, SddrvLoads
  <2>2. QED
    BY <1>1, <2>1 DEF LoadInHand, InHand
<1>6. Foreground'
  <2>1. CASE pc'[Exec] = pc[Exec]
    BY <1>1, <2>1, ForegroundKept DEF locals
  <2>2. CASE pc[Exec] = "none" /\ pc'[Exec] = "recv"
    BY <1>1, <2>2, NoForeground DEF locals
  <2>3. QED
    BY <2>1, <2>2
<1>7. (HoldsLine' <=> HoldsLine) /\ (HoldsRequest' <=> HoldsRequest)
      /\ (pc'[Shell] = "send" <=> pc[Shell] = "send")
  BY DEF HoldsLine, HoldsRequest, Spared
<1>8. lines' = lines /\ requests' = requests
  BY <1>7, LinesMove, RequestsMove
<1>9. Accounted'
  BY <1>1, <1>8, AccountedSame DEF history
<1>10. QED
  BY <1>2, <1>3, <1>4, <1>5, <1>6, <1>9 DEF Programs, Places, Handed

(* One of the four runs: it starts thread n, where used pages of the pool  *)
(* are taken; after it there are next threads, and more pages are taken.   *)
Starts(from, to, n, used, pri, size, entry, next, more) ==
    /\ boot(from, to, pri, size, entry)
    /\ n \in 1 .. 4 /\ next \in 2 .. 5 /\ next = n + 1
    /\ used \in 1 .. 7 /\ more \in 1 .. 7 /\ more = used + size
    /\ pri \in Priority /\ size \in {1, 2}
    /\ <<from, n, used>> \in Boots /\ <<to, next, more>> \in Boots
    /\ \/ n = 1
       \/ n = 2 /\ entry = "recv"
       \/ n = 3 /\ entry = "prompt"
       \/ n = 4 /\ entry = "recv"

LEMMA StartsNext ==
    ASSUME Kept, Programs, UNCHANGED <<uart, locals, history>>,
           NEW from, NEW to, NEW n, NEW used, NEW pri, NEW size, NEW entry, NEW next, NEW more,
           Starts(from, to, n, used, pri, size, entry, next, more)
    PROVE  Programs'
<1> /\ boot(from, to, pri, size, entry)
    /\ n \in 1 .. 4 /\ next \in 2 .. 5 /\ next = n + 1
    /\ used \in 1 .. 7 /\ more \in 1 .. 7 /\ more = used + size
    /\ pri \in Priority /\ size \in {1, 2}
    /\ <<from, n, used>> \in Boots /\ <<to, next, more>> \in Boots
    /\ \/ n = 1
       \/ n = 2 /\ entry = "recv"
       \/ n = 3 /\ entry = "prompt"
       \/ n = 4 /\ entry = "recv"
  BY DEF Starts
<1>1. current = Main /\ pc[Main] = from /\ Booted /\ Waiters /\ LocalTypes
  BY DEF boot, At, Programs, Places
<1>2. /\ \A t \in 0 .. 4 : live(t) <=> t < n
      /\ \A t \in 1 .. 4 : t >= n => pc[t] = "none"
      /\ \A t \in Apps : ~live(t)
      /\ stack["RUN"] = USER_STACK - used
  <2>1. PICK m \in 1 .. 5, u \in 1 .. 7 :
          /\ <<from, m, u>> \in Boots
          /\ \A t \in 0 .. 4 : live(t) <=> t < m
          /\ \A t \in 1 .. 4 : t >= m => pc[t] = "none"
          /\ m < 5 => \A t \in Apps : ~live(t)
          /\ stack["RUN"] = USER_STACK - u
    BY <1>1 DEF Booted
  <2>2. m = n /\ u = used
    BY <2>1 DEF Boots
  <2>3. m < 5
    BY <2>2
  <2>4. QED
    BY <2>1, <2>2, <2>3
<1>3. n \in Thread /\ n \notin Apps /\ n # Main /\ pc[n] = "none"
  BY <1>2, SystemThreads
<1>4. FreeSlots # {} /\ FreeSlot = n
  <2>1. ~live(n)
    BY <1>2
  <2>2. ASSUME NEW t \in 0 .. n - 1 PROVE live(t)
    <3>1. t \in 0 .. 4 /\ t < n
      OBVIOUS
    <3>2. QED
      BY <1>2, <3>1
  <2>3. QED
    BY <1>3, <2>1, <2>2, LeastFreeSlot
<1>5. "RUN" \in Pools /\ room("RUN", size)
  BY <1>2, SystemAssumption, SizeAssumption DEF Pools, room, SystemAssumption, SizeAssumption
<1>6. thread_run("RUN", pri, size) /\ pc' = [pc EXCEPT ![Main] = to, ![n] = entry]
  BY <1>4 DEF boot
<1>7. /\ tcb'[n].func
      /\ \A t \in Thread \ {n} : tcb'[t].func = tcb[t].func
      /\ Called({Main, n}) /\ held' = held
      /\ stack' = [stack EXCEPT !["RUN"] = @ - size]
  BY <1>1, <1>4, <1>5, <1>6, Running
<1>8. /\ pc'[Main] = to /\ pc'[n] = entry /\ \A t \in Thread \ {Main, n} : pc'[t] = pc[t]
      /\ pc' = [t \in Thread |-> pc'[t]]
  <2>1. pc = [t \in Thread |-> pc[t]]
    BY <1>1 DEF LocalTypes
  <2>2. QED
    BY <1>3, <1>6, <2>1, SystemThreads
<1>9. Waiters'
  BY <1>1, <1>3, <1>7, <1>8, CalledWaiters
<1>10. box' = box /\ receiver' = receiver
  BY <1>7 DEF Called, mail
<1>11. Booted'
  <2>1. \A t \in 0 .. 4 : live(t)' <=> t < next
    <3>1. SUFFICES ASSUME NEW t \in 0 .. 4
                   PROVE  live(t)' <=> t < next
      OBVIOUS
    <3>2. t \in Thread
      BY SystemThreads
    <3>3. CASE t = n
      BY <1>7, <3>3 DEF live
    <3>4. CASE t # n
      <4>1. live(t)' <=> live(t)
        BY <1>7, <3>2, <3>4 DEF live
      <4>2. QED
        BY <1>2, <3>4, <4>1
    <3>5. QED
      BY <3>3, <3>4
  <2>2. \A t \in 1 .. 4 : t >= next => pc'[t] = "none"
    BY <1>2, <1>8, SystemThreads
  <2>3. \A t \in Apps : ~live(t)'
    BY <1>2, <1>3, <1>7, SystemThreads DEF live
  <2>4. stack'["RUN"] = USER_STACK - more
    BY <1>2, <1>7, KeptTypes, SizeAssumption DEF SizeAssumption, Pools
  <2>5. <<pc'[Main], next, more>> \in Boots
    BY <1>8
  <2>6. next \in 1 .. 5
    OBVIOUS
  <2>7. QED
    BY <2>1, <2>2, <2>3, <2>4, <2>5, <2>6 DEF Booted
<1>12. \A t \in Apps : tcb'[t].func => tcb[t].func
  BY <1>3, <1>7, SystemThreads
<1>13. \A t \in {Sddrv, Shell, Exec} \ {n} : pc'[t] = pc[t] /\ Spared(t)
  BY <1>7, <1>8, SystemThreads, Distinct DEF Called
<1>14. \/ pc'[Sddrv] = pc[Sddrv]
       \/ pc[Sddrv] = "none" /\ pc'[Sddrv] = "recv"
  BY <1>3, <1>8, <1>13 DEF Sddrv
<1>15. \/ pc'[Shell] = pc[Shell] /\ Spared(Shell)
       \/ pc[Shell] = "none" /\ pc'[Shell] = "prompt"
  BY <1>3, <1>8, <1>13 DEF Shell
<1>16. \/ pc'[Exec] = pc[Exec] /\ Spared(Exec)
       \/ pc[Exec] = "none" /\ pc'[Exec] = "recv"
  BY <1>3, <1>8, <1>13 DEF Exec
<1>17. QED
  BY <1>7, <1>8, <1>9, <1>10, <1>11, <1>12, <1>14, <1>15, <1>16, BootKeeps

LEMMA MainGoesOn ==
    ASSUME Kept, Programs, current = Main, pc[Main] \in {"chpri", "systick_init"},
           NEW l \in {"systick_init", "wfi"}, Goto(Main, l), UNCHANGED <<uart, locals, history>>,
           SameLife, Called({current}), held' = held, stack' = stack
    PROVE  Programs'
<1>1. /\ Booted /\ Waiters /\ LocalTypes
  BY DEF Programs, Places
<1>2. /\ pc'[Main] = l /\ \A t \in Thread \ {Main} : pc'[t] = pc[t]
      /\ pc' = [t \in Thread |-> pc'[t]]
  BY <1>1, SystemThreads, Moves
<1>3. Waiters'
  BY <1>1, <1>2, CalledWaiters
<1>4. Booted'
  <2>1. PICK n \in 1 .. 5, used \in 1 .. 7 :
          /\ <<pc[Main], n, used>> \in Boots
          /\ \A t \in 0 .. 4 : live(t) <=> t < n
          /\ stack["RUN"] = USER_STACK - used
    BY <1>1 DEF Booted
  <2>2. n = 5 /\ used = 7
    BY <2>1 DEF Boots
  <2>3. <<pc'[Main], 5, 7>> \in Boots
    BY <1>2 DEF Boots
  <2>4. \A t \in 0 .. 4 : live(t)' <=> t < n
    BY <2>1, SystemThreads DEF SameLife, live
  <2>5. (\A t \in 1 .. 4 : t >= n => pc'[t] = "none") /\ (n < 5 => \A t \in Apps : ~live(t)')
    BY <2>2
  <2>6. <<pc'[Main], n, used>> \in Boots /\ stack'["RUN"] = USER_STACK - used
    BY <2>1, <2>2, <2>3
  <2>7. QED
    BY <2>4, <2>5, <2>6 DEF Booted
<1>5. /\ pc'[Sddrv] = pc[Sddrv] /\ pc'[Shell] = pc[Shell] /\ pc'[Exec] = pc[Exec]
      /\ Spared(Shell) /\ Spared(Exec)
  BY <1>2, SystemThreads, Distinct DEF Called
<1>6. /\ box' = box /\ receiver' = receiver /\ \A t \in Apps : tcb'[t].func => tcb[t].func
  BY SystemThreads DEF Called, mail, SameLife
<1>7. QED
  BY <1>2, <1>3, <1>4, <1>5, <1>6, BootKeeps

LEMMA StartKeeps ==
    ASSUME Kept, Programs, start_thread
    PROVE  Programs'
<1>1. UNCHANGED <<uart, locals, history>>
  BY DEF start_thread
<1>2. 1 \in Priority /\ 2 \in Priority /\ 3 \in Priority /\ 15 \in Priority
  BY SystemAssumption DEF Priority, SystemAssumption
<1>3. CASE boot("run consdrv", "run sddrv", 1, 1, "setintr")
  <2> DEFINE n == 1  used == 1  next == 2  more == 2  size == 1  pri == 1
  <2>1. boot("run consdrv", "run sddrv", pri, size, "setintr")
    BY <1>3, Zenon
  <2>2. /\ n \in 1 .. 4 /\ used \in 1 .. 7 /\ next \in 2 .. 5 /\ more \in 1 .. 7
        /\ size \in {1, 2} /\ next = n + 1 /\ more = used + size /\ n = 1
    OBVIOUS
  <2>3. pri \in Priority
    BY <1>2
  <2>4. <<"run consdrv", n, used>> \in Boots /\ <<"run sddrv", next, more>> \in Boots
    BY DEF Boots
  <2> HIDE DEF n, used, next, more, size, pri
  <2>5. Starts("run consdrv", "run sddrv", n, used, pri, size, "setintr", next, more)
    BY <2>1, <2>2, <2>3, <2>4, Zenon DEF Starts
  <2>6. QED
    BY <1>1, <2>5, StartsNext
<1>4. CASE boot("run sddrv", "run shell", 2, 2, "recv")
  <2> DEFINE n == 2  used == 2  next == 3  more == 4  size == 2  pri == 2
  <2>1. boot("run sddrv", "run shell", pri, size, "recv")
    BY <1>4, Zenon
  <2>2. /\ n \in 1 .. 4 /\ used \in 1 .. 7 /\ next \in 2 .. 5 /\ more \in 1 .. 7
        /\ size \in {1, 2} /\ next = n + 1 /\ more = used + size /\ n = 2
    OBVIOUS
  <2>3. pri \in Priority
    BY <1>2
  <2>4. <<"run sddrv", n, used>> \in Boots /\ <<"run shell", next, more>> \in Boots
    BY DEF Boots
  <2> HIDE DEF n, used, next, more, size, pri
  <2>5. Starts("run sddrv", "run shell", n, used, pri, size, "recv", next, more)
    BY <2>1, <2>2, <2>3, <2>4, Zenon DEF Starts
  <2>6. QED
    BY <1>1, <2>5, StartsNext
<1>5. CASE boot("run shell", "run exec", 3, 1, "prompt")
  <2> DEFINE n == 3  used == 4  next == 4  more == 5  size == 1  pri == 3
  <2>1. boot("run shell", "run exec", pri, size, "prompt")
    BY <1>5, Zenon
  <2>2. /\ n \in 1 .. 4 /\ used \in 1 .. 7 /\ next \in 2 .. 5 /\ more \in 1 .. 7
        /\ size \in {1, 2} /\ next = n + 1 /\ more = used + size /\ n = 3
    OBVIOUS
  <2>3. pri \in Priority
    BY <1>2
  <2>4. <<"run shell", n, used>> \in Boots /\ <<"run exec", next, more>> \in Boots
    BY DEF Boots
  <2> HIDE DEF n, used, next, more, size, pri
  <2>5. Starts("run shell", "run exec", n, used, pri, size, "prompt", next, more)
    BY <2>1, <2>2, <2>3, <2>4, Zenon DEF Starts
  <2>6. QED
    BY <1>1, <2>5, StartsNext
<1>6. CASE boot("run exec", "chpri", 3, 2, "recv")
  <2> DEFINE n == 4  used == 5  next == 5  more == 7  size == 2  pri == 3
  <2>1. boot("run exec", "chpri", pri, size, "recv")
    BY <1>6, Zenon
  <2>2. /\ n \in 1 .. 4 /\ used \in 1 .. 7 /\ next \in 2 .. 5 /\ more \in 1 .. 7
        /\ size \in {1, 2} /\ next = n + 1 /\ more = used + size /\ n = 4
    OBVIOUS
  <2>3. pri \in Priority
    BY <1>2
  <2>4. <<"run exec", n, used>> \in Boots /\ <<"chpri", next, more>> \in Boots
    BY DEF Boots
  <2> HIDE DEF n, used, next, more, size, pri
  <2>5. Starts("run exec", "chpri", n, used, pri, size, "recv", next, more)
    BY <2>1, <2>2, <2>3, <2>4, Zenon DEF Starts
  <2>6. QED
    BY <1>1, <2>5, StartsNext
<1>7. CASE At(Main, "chpri") /\ thread_chpri(15) /\ Goto(Main, "systick_init")
  <2>1. SameLife /\ Called({current}) /\ held' = held /\ stack' = stack
    BY <1>2, <1>7, Lowering
  <2>2. current = Main /\ pc[Main] = "chpri"
    BY <1>7 DEF At
  <2>3. QED
    BY <1>1, <1>7, <2>1, <2>2, MainGoesOn
<1>8. CASE At(Main, "systick_init") /\ Goto(Main, "wfi") /\ UNCHANGED vars
  <2>1. SameLife /\ Called({current}) /\ held' = held /\ stack' = stack
    BY <1>8 DEF SameLife, Called, Spared, vars, mail
  <2>2. current = Main /\ pc[Main] = "systick_init"
    BY <1>8 DEF At
  <2>3. QED
    BY <1>1, <1>8, <2>1, <2>2, MainGoesOn
<1>9. QED
  BY <1>3, <1>4, <1>5, <1>6, <1>7, <1>8 DEF start_thread
-----------------------------------------------------------------------------
(* What the invariant says of the properties.                              *)
LEMMA ProgramsInForeground == Programs => OneForeground
<1> SUFFICES ASSUME Programs
             PROVE  OneForeground
  OBVIOUS
<1>1. Foreground /\ RunInHand /\ Waiters
  BY DEF Programs, Places, Handed
<1>2. Cardinality({t \in Apps : InForeground(t)}) <= 1
  <2>1. {t \in Apps : InForeground(t)} \subseteq {job.id}
    BY <1>1 DEF Foreground
  <2>2. IsFiniteSet({job.id}) /\ Cardinality({job.id}) = 1
    BY FS_Singleton
  <2>3. Cardinality({t \in Apps : InForeground(t)}) <= Cardinality({job.id})
    BY <2>1, <2>2, FS_Subset
  <2>4. QED
    BY <2>2, <2>3
<1>3. ASSUME NEW t \in Apps, InForeground(t)
      PROVE  pc[Shell] = "await end" \/ (pc[Shell] = "free" /\ receiver["CMDEND"] = Shell)
  <2>1. ExecRuns
    BY <1>1, <1>3 DEF Foreground, ExecRuns
  <2>2. ShellWaits
    BY <1>1, <2>1 DEF RunInHand, InHand
  <2>3. receiver["CMDEND"] = Shell => pc[Shell] = "free"
    BY <1>1, BoxNames, Distinct DEF Waiters, Waits, Place
  <2>4. QED
    BY <2>2, <2>3 DEF ShellWaits
<1>4. QED
  BY <1>2, <1>3 DEF OneForeground

LEMMA ProgramsInHand == IInv /\ Programs => Handshake
<1> SUFFICES ASSUME IInv, Programs
             PROVE  Handshake
  OBVIOUS
<1>1. RunInHand /\ LoadInHand /\ Waiters
  BY DEF Programs, Places, Handed
<1>2. /\ receiver["CMDEND"] = Shell => pc[Shell] = "free" /\ box["CMDEND"] = <<>>
      /\ receiver["SDRESULT"] = Exec => pc[Exec] = "start"
  BY <1>1, BoxNames, Distinct DEF Waiters, Waits, Place
<1>3. ExecWaits => ExecRuns
  BY <1>2 DEF ExecWaits, ExecRuns
<1>4. PICK a, c, q, r \in Nat : a = Len(box["APPREQUEST"]) /\ c = Len(box["CMDEND"])
                             /\ q = Len(box["SDREQUEST"]) /\ r = Len(box["SDRESULT"])
  BY BoxNames DEF IInv, TypeOK
<1>5. /\ (box["APPREQUEST"] = <<>> => a = 0) /\ (box["CMDEND"] = <<>> => c = 0)
      /\ (box["SDREQUEST"] = <<>> => q = 0) /\ (box["SDRESULT"] = <<>> => r = 0)
  BY <1>4
<1>6. a + c <= 1 /\ (ExecRuns => a = 0 /\ c = 0)
  <2>1. \/ a = 0 /\ c = 0
        \/ ~ExecRuns /\ a = 1 /\ c = 0
        \/ ~ExecRuns /\ a = 0 /\ c = 1
    BY <1>1, <1>4, <1>5, Zenon DEF RunInHand, InHand
  <2>2. QED
    BY <2>1
<1>7. q + r <= 1 /\ (~ExecWaits => q = 0 /\ r = 0)
  <2>1. \/ q = 0 /\ r = 0
        \/ ExecWaits /\ q = 1 /\ r = 0
        \/ ExecWaits /\ q = 0 /\ r = 1
    BY <1>1, <1>4, <1>5, Zenon DEF LoadInHand, InHand
  <2>2. QED
    BY <2>1
<1>8. a + c + q + r <= 1
  BY <1>3, <1>6, <1>7
<1>9. /\ box["CMDEND"] # <<>> => pc[Shell] = "await end"
      /\ box["APPREQUEST"] # <<>> => pc[Shell] \in {"await end", "free"}
  BY <1>1, <1>2 DEF RunInHand, InHand, ShellWaits
<1>10. QED
  BY <1>4, <1>8, <1>9 DEF Handshake

LEMMA ProgramsAccount == Kept /\ Programs => LeakOnlyOnFailure
<1> SUFFICES ASSUME Kept, Programs
             PROVE  LeakOnlyOnFailure
  OBVIOUS
<1>1. Accounted /\ failures \in Nat
  BY DEF Programs, Places, Handed, LocalTypes
<1>2. PICK a \in Nat : a = Len(box["APPREQUEST"])
  BY Lengths, BoxNames
<1>3. PICK c \in Nat : c = Len(box["CONSRX"])
  BY Lengths, BoxNames
<1>4. PICK u, v, h, k \in {0, 1} : u = One(uart \in Commands) /\ v = One(HoldsLine)
                                /\ h = One(pc[Shell] = "send") /\ k = One(HoldsRequest)
  BY DEF One
<1>5. held = (c + u + v) + (a + h + k) + failures
  BY <1>1, <1>2, <1>3, <1>4 DEF Accounted, Kept, lines, requests
<1>6. held = c + u + v + a + h + k + failures
  BY <1>1, <1>5
<1>7. QED
  BY <1>2, <1>3, <1>4, <1>6 DEF LeakOnlyOnFailure
-----------------------------------------------------------------------------
(* Every step of a program is a call of the kernel.                        *)
LEMMA StepsAreCalls ==
    ASSUME Kept, Programs, KillIds \subseteq Apps, SystemNext
    PROVE  [Next]_vars
<1>1. /\ LocalTypes /\ halted = "no"
      /\ asked \in Data /\ job.id \in Thread /\ (uart \in Commands => uart \in Data)
  BY BoxNames DEF Programs, Places, LocalTypes, Kept
<1>2. ASSUME start_thread PROVE [Next]_vars
  <2>1. /\ "RUN" \in Pools /\ 1 \in Sizes /\ 2 \in Sizes
        /\ 1 \in Priority /\ 2 \in Priority /\ 3 \in Priority /\ 15 \in Priority
    BY SystemAssumption DEF SystemAssumption, Pools, Priority
  <2>2. CASE \E p \in {1, 2, 3}, n \in {1, 2} : thread_run("RUN", p, n)
    BY <1>1, <2>1, <2>2 DEF Next
  <2>3. CASE thread_chpri(15)
    BY <1>1, <2>1, <2>3 DEF Next, PlainCall
  <2>4. CASE UNCHANGED vars
    BY <2>4
  <2>5. QED
    BY <1>2, <2>2, <2>3, <2>4 DEF start_thread, boot
<1>3. ASSUME consdrv_main PROVE Next
  BY <1>1, <1>3, BoxNames DEF consdrv_main, Next, PlainCall
<1>4. ASSUME sddrv_main PROVE Next
  BY <1>1, <1>4, BoxNames DEF sddrv_main, Next, PlainCall
<1>5. ASSUME shell_main PROVE Next
  <2>1. \/ thread_recv("CONSRX") \/ thread_malloc \/ thread_send("APPREQUEST", asked)
        \/ thread_recv("CMDEND") \/ thread_ps \/ thread_free
        \/ \E id \in KillIds : thread_kill(id)
    BY <1>5 DEF shell_main, command_run, command_ps, command_kill
  <2>2. KillIds \subseteq Thread
    BY SystemThreads
  <2>3. QED
    BY <1>1, <2>1, <2>2, BoxNames DEF Next, PlainCall
<1>6. ASSUME exec_main PROVE Next
  <2>1. \/ thread_recv("APPREQUEST") \/ thread_send("SDREQUEST", "none")
        \/ thread_recv("SDRESULT") \/ thread_send("CMDEND", "none") \/ thread_run("APP", 8, 1)
        \/ thread_recv("APPEVENT") \/ thread_kill(job.id) \/ thread_free
    BY <1>6 DEF exec_main, load_request, load_failed, start_app, finish_app
  <2>2. "APP" \in Pools /\ 8 \in Priority /\ 1 \in Sizes
    BY SystemAssumption DEF Pools, Priority, SystemAssumption
  <2>3. QED
    BY <1>1, <2>1, <2>2, BoxNames DEF Next, PlainCall
<1>7. ASSUME NEW t \in Apps, exec_app(t) PROVE Next
  BY <1>1, <1>7, BoxNames DEF exec_app, Next, PlainCall
<1>8. ASSUME send_input_line PROVE Next
  BY <1>1, <1>8, BoxNames DEF send_input_line, Next, Interrupt
<1>9. ASSUME ctrl_c PROVE Next
  BY <1>1, <1>9, BoxNames DEF ctrl_c, Next, Interrupt
<1>10. ASSUME systick PROVE Next
  BY <1>1, <1>10 DEF systick, Next, Interrupt
<1>11. QED
  BY <1>2, <1>3, <1>4, <1>5, <1>6, <1>7, <1>8, <1>9, <1>10 DEF SystemNext
-----------------------------------------------------------------------------
(* The invariant: the kernel's and the programs', or, once the system is   *)
(* down, what was true of it when it stopped.                              *)
Down == halted # "no" /\ OneForeground /\ Handshake

SInv == IInv /\ (Programs \/ Down)

LEMMA StopsDown ==
    ASSUME Kept, Programs, Stops
    PROVE  Down'
<1>1. OneForeground /\ Handshake
  BY ProgramsInForeground, ProgramsInHand DEF Kept
<1>2. /\ halted' # "no" /\ tcb' = tcb /\ box' = box /\ receiver' = receiver /\ bg' = bg
      /\ pc'[Shell] = pc[Shell] \/ pc[Shell] \in {"execute", "send"}
  BY DEF Stops, halt, mail
<1>3. \A t \in Apps : InForeground(t)' <=> InForeground(t)
  BY <1>2 DEF InForeground, live, Apps
<1>4. {t \in Apps : InForeground(t)}' = {t \in Apps : InForeground(t)}
  BY <1>2 DEF InForeground, live, Apps
<1>5. OneForeground'
  <2>1. (Cardinality({t \in Apps : InForeground(t)}) <= 1)'
    BY <1>1, <1>4 DEF OneForeground
  <2>2. (\E t \in Apps : InForeground(t)') =>
          pc'[Shell] = "await end" \/ (pc'[Shell] = "free" /\ receiver'["CMDEND"] = Shell)
    BY <1>1, <1>2, <1>3 DEF OneForeground
  <2>3. QED
    BY <2>1, <2>2 DEF OneForeground, Apps
<1>6. Handshake'
  <2>1. (Len(box["APPREQUEST"]) + Len(box["CMDEND"]) + Len(box["SDREQUEST"])
          + Len(box["SDRESULT"]) <= 1)'
    BY <1>1, <1>2 DEF Handshake
  <2>2. /\ box'["CMDEND"] # <<>> => pc'[Shell] = "await end"
        /\ box'["APPREQUEST"] # <<>> => pc'[Shell] \in {"await end", "free"}
    BY <1>1, <1>2 DEF Handshake
  <2>3. QED
    BY <2>1, <2>2 DEF Handshake
<1>7. QED
  BY <1>2, <1>5, <1>6 DEF Down

LEMMA ProgramsKept ==
    ASSUME Kept, Programs, KillIds \subseteq Apps, SystemNext
    PROVE  Programs' \/ Down'
<1>1. Stops \/ Programs'
  <2>1. CASE start_thread
    BY <2>1, StartKeeps
  <2>2. CASE consdrv_main
    BY <2>2, ConsdrvKeeps
  <2>3. CASE sddrv_main
    BY <2>3, SddrvKeeps
  <2>4. CASE shell_main
    BY <2>4, ShellKeeps
  <2>5. CASE exec_main
    BY <2>5, ExecKeeps
  <2>6. ASSUME NEW t \in Apps, exec_app(t) PROVE Stops \/ Programs'
    BY <2>6, AppKeeps
  <2>7. CASE send_input_line
    BY <2>7, InputKeeps
  <2>8. CASE ctrl_c
    BY <2>8, CtrlCKeeps
  <2>9. CASE systick
    BY <2>9, TickKeeps
  <2>10. QED
    BY <2>1, <2>2, <2>3, <2>4, <2>5, <2>6, <2>7, <2>8, <2>9 DEF SystemNext
<1>2. QED
  BY <1>1, StopsDown

LEMMA SystemSteps ==
    ASSUME SystemNext
    PROVE  halted = "no"
BY DEF SystemNext, start_thread, boot, consdrv_main, sddrv_main, shell_main, command_run,
   command_ps, command_kill, Calls, Prints, exec_main, load_request, load_failed, start_app,
   finish_app, exec_app, send_input_line, ctrl_c, systick, Interruptible, At

LEMMA StutterKeeps ==
    ASSUME SInv, UNCHANGED rvars
    PROVE  SInv'
<1>1. IInv'
  BY NextIInv DEF SInv, rvars
<1>2. /\ tcb' = tcb /\ rq' = rq /\ receiver' = receiver /\ box' = box /\ held' = held
      /\ stack' = stack /\ halted' = halted /\ pc' = pc /\ uart' = uart /\ asked' = asked
      /\ job' = job /\ bg' = bg /\ failures' = failures
  BY DEF rvars, vars, system, mail, memory, locals, history
<1>3. CASE Programs
  <2>1. LocalTypes' /\ Booted'
    BY <1>2, <1>3 DEF Programs, Places, LocalTypes, Booted, live, Apps
  <2>2. Waiters' /\ Fetched'
    BY <1>2, <1>3 DEF Programs, Places, Waiters, Waits, Fetched
  <2>3. RunInHand' /\ LoadInHand'
    BY <1>2, <1>3 DEF Programs, Handed, RunInHand, LoadInHand, InHand, ShellWaits, ExecRuns,
       ExecWaits, SddrvLoads
  <2>4. Foreground'
    BY <1>2, <1>3, ForegroundKept DEF Programs, Handed
  <2>5. Accounted'
    BY <1>2, <1>3 DEF Programs, Handed, Accounted, lines, requests, HoldsLine, HoldsRequest
  <2>6. QED
    BY <1>1, <2>1, <2>2, <2>3, <2>4, <2>5 DEF SInv, Programs, Places, Handed
<1>4. CASE Down
  <2>1. OneForeground' /\ Handshake'
    BY <1>2, <1>4 DEF Down, OneForeground, Handshake, InForeground, live, Apps
  <2>2. QED
    BY <1>1, <1>2, <1>4, <2>1 DEF SInv, Down
<1>5. QED
  BY <1>3, <1>4 DEF SInv

LEMMA SystemBegins == SystemInit => SInv
<1> SUFFICES ASSUME SystemInit
             PROVE  SInv
  OBVIOUS
<1>1. IInv
  BY InitIInv DEF SystemInit
<1>2. /\ tcb = [t \in Thread |-> IF t = 0 THEN Started(0) ELSE Cleared]
      /\ receiver = [b \in MsgBox |-> NULL] /\ box = [b \in MsgBox |-> <<>>] /\ held = 0
      /\ stack = [k \in Pools |-> IF k = "RUN" THEN USER_STACK - 1 ELSE APP_STACK]
  BY DEF SystemInit, Init, picox_start
<1>3. /\ pc = [t \in Thread |-> IF t = Main THEN "run consdrv" ELSE "none"]
      /\ uart = "off" /\ asked = "fg" /\ job = [kind |-> "fg", id |-> 0]
      /\ bg = [t \in Thread |-> FALSE] /\ failures = 0
  BY DEF SystemInit
<1>4. /\ pc[Main] = "run consdrv" /\ pc[Shell] = "none" /\ pc[Exec] = "none"
      /\ pc[Sddrv] = "none"
  BY <1>3, SystemThreads, Distinct
<1>5. \A b \in MsgBox : receiver[b] = NULL /\ box[b] = <<>>
  BY <1>2
<1>6. \A t \in Thread : live(t) <=> t = 0
  BY <1>2 DEF live, Started, Cleared
<1>7. \A t \in Apps : ~live(t)
  BY <1>6, SystemThreads
<1>8. LocalTypes
  BY <1>3, BoxNames, SystemThreads DEF LocalTypes
<1>9. Booted
  <2>1. <<pc[Main], 1, 1>> \in Boots
    BY <1>4 DEF Boots
  <2>2. \A t \in 0 .. 4 : live(t) <=> t < 1
    BY <1>6, SystemThreads
  <2>3. \A t \in 1 .. 4 : pc[t] = "none"
    <3>1. \A t \in 1 .. 4 : t \in Thread /\ t # Main
      BY SystemThreads DEF Main
    <3>2. QED
      BY <1>3, <3>1
  <2>4. \A t \in Apps : ~live(t)
    BY <1>7
  <2>5. stack["RUN"] = USER_STACK - 1
    BY <1>2 DEF Pools
  <2>6. QED
    BY <2>1, <2>2, <2>3, <2>4, <2>5 DEF Booted
<1>10. Waiters /\ Fetched
  BY <1>4, <1>5 DEF Waiters, Fetched
<1>11. RunInHand
  BY <1>4, <1>5, BoxNames, Distinct DEF RunInHand, InHand, ShellWaits, ExecRuns
<1>12. LoadInHand
  BY <1>4, <1>5, BoxNames, Distinct DEF LoadInHand, InHand, ExecWaits, SddrvLoads
<1>13. Foreground
  BY <1>4, <1>7 DEF Foreground, InForeground
<1>14. Accounted
  <2>1. ~HoldsLine /\ ~HoldsRequest /\ uart \notin Commands
    BY <1>3, <1>4, CommandNames DEF HoldsLine, HoldsRequest
  <2>2. Len(box["CONSRX"]) = 0 /\ Len(box["APPREQUEST"]) = 0
    BY <1>5, BoxNames
  <2>3. One(uart \in Commands) = 0 /\ One(HoldsLine) = 0 /\ One(pc[Shell] = "send") = 0
        /\ One(HoldsRequest) = 0
    BY <1>4, <2>1 DEF One
  <2>4. lines = 0 /\ requests = 0
    BY <2>2, <2>3 DEF lines, requests
  <2>5. held = 0 /\ failures = 0
    BY <1>2, <1>3
  <2>6. held = lines + requests + failures
    BY <2>4, <2>5
  <2>7. QED
    BY <2>6 DEF Accounted
<1>15. QED
  BY <1>1, <1>8, <1>9, <1>10, <1>11, <1>12, <1>13, <1>14 DEF SInv, Programs, Places, Handed

LEMMA SystemStays ==
    ASSUME KillIds \subseteq Apps
    PROVE  SInv /\ [SystemNext]_rvars => SInv'
<1>1. ASSUME SInv, SystemNext PROVE SInv'
  <2>1. halted = "no"
    BY <1>1, SystemSteps
  <2>2. Kept /\ Programs
    BY <1>1, <2>1 DEF SInv, Down, Kept
  <2>3. [Next]_vars
    BY <1>1, <2>2, StepsAreCalls
  <2>4. IInv'
    BY <2>2, <2>3, NextIInv DEF Kept
  <2>5. Programs' \/ Down'
    BY <1>1, <2>2, ProgramsKept
  <2>6. QED
    BY <2>4, <2>5 DEF SInv
<1>2. QED
  BY <1>1, StutterKeeps

LEMMA SystemHolds == SInv => OneForeground /\ Handshake /\ LeakOnlyOnFailure
<1>1. CASE Down
  BY <1>1 DEF Down, LeakOnlyOnFailure
<1>2. CASE IInv /\ Programs
  <2>1. halted = "no" => LeakOnlyOnFailure
    BY <1>2, ProgramsAccount DEF Kept
  <2>2. QED
    BY <1>2, <2>1, ProgramsInForeground, ProgramsInHand DEF LeakOnlyOnFailure
<1>3. QED
  BY <1>1, <1>2 DEF SInv
-----------------------------------------------------------------------------
(* As long as only apps are killed from the prompt, one app at most is in  *)
(* the foreground, and while one is the shell waits (exec.c:63-72,         *)
(* shell.c:105-121).                                                       *)
THEOREM ForegroundIsOne ==
    ASSUME KillIds \subseteq Apps
    PROVE  SystemSpec => []OneForeground
<1>1. SInv /\ [SystemNext]_rvars => SInv'
  BY SystemStays
<1>2. QED
  BY <1>1, SystemBegins, SystemHolds, PTL DEF SystemSpec

(* Of a run there is one message on its way between the shell, exec and    *)
(* the SD driver, and an answer finds the shell at its recv                *)
(* (shell.c:116-119, exec.c:45-69, sddrv.c).                               *)
THEOREM OneRequestOnItsWay ==
    ASSUME KillIds \subseteq Apps
    PROVE  SystemSpec => []Handshake
<1>1. SInv /\ [SystemNext]_rvars => SInv'
  BY SystemStays
<1>2. QED
  BY <1>1, SystemBegins, SystemHolds, PTL DEF SystemSpec

(* Every block handed out is a typed line, a request on its way or in      *)
(* exec's hands, or the request of a load that failed (exec.c:49-57).      *)
THEOREM BlocksAccountedFor ==
    ASSUME KillIds \subseteq Apps
    PROVE  SystemSpec => []LeakOnlyOnFailure
<1>1. SInv /\ [SystemNext]_rvars => SInv'
  BY SystemStays
<1>2. QED
  BY <1>1, SystemBegins, SystemHolds, PTL DEF SystemSpec
=============================================================================
