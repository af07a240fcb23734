---------------------------- MODULE KernelProofs ----------------------------
(***************************************************************************)
(* Kernel's ready queues, flags, priorities and dispatched thread agree    *)
(* after any sequence of calls and interrupts, for any number of threads,  *)
(* priorities, boxes and messages.                                         *)
(*                                                                         *)
(* The invariant is TypeOK with QueueInv and Slots.  A call takes the      *)
(* caller out of its queue (LEMMA TakenSound, which needs CurrentIsFirst), *)
(* changes slots of threads that are in no queue (SlotChange), links or    *)
(* unlinks some threads (the lemmas on Agree, which are about the queues   *)
(* alone) and ends in schedule (Scheduled).                                *)
(***************************************************************************)
EXTENDS KernelThreads, SequenceTheorems, FiniteSetTheorems, WellFoundedInduction, TLAPS

(***************************************************************************)
(* The ready queues of Sched, for any sets T of threads and P of           *)
(* priorities: what getcurrent, putcurrent and readyque_remove keep of the *)
(* agreement between links, flags and priorities.                          *)
(***************************************************************************)
(* A thread of T is linked exactly when it is flagged, once, in the queue  *)
(* of its priority home[t], and only if it is in alive.                    *)
Agree(s, T, P, alive, home) ==
    /\ s \in [q : [P -> Seq(T)], ready : SUBSET T]
    /\ \A t \in T : t \in s.ready <=> \E p \in P : t \in ToSet(s.q[p])
    /\ \A p \in P : IsInjective(s.q[p])
    /\ \A p \in P : \A t \in ToSet(s.q[p]) : t \in alive /\ home[t] = p

-----------------------------------------------------------------------------
(* A non-empty set of naturals has a least element.                        *)
LEMMA LeastNatural ==
    ASSUME NEW S, S \subseteq Nat, S # {}
    PROVE  \E m \in S : \A n \in S : m <= n
<1> DEFINE R == {ss \in Nat \X Nat : ss[1] < ss[2]}
<1>1. IsWellFoundedOn(R, Nat)
  BY NatLessThanWellFounded DEF OpToRel
<1>2. PICK m \in S : \A n \in S : ~(<<n, m>> \in R)
  <2> HIDE DEF R
  <2> QED BY <1>1, WFMin
<1>3. ASSUME NEW n \in S PROVE m <= n
  BY <1>2, m \in Nat, n \in Nat, <<n,m>> \in Nat \X Nat
<1>4. QED
  BY <1>3

(* The position of an element of a sequence is one of its indices.         *)
LEMMA PositionIsIndex ==
    ASSUME NEW q, NEW t \in ToSet(q)
    PROVE  Position(q, t) \in DOMAIN q /\ q[Position(q, t)] = t
BY DEF Position, ToSet

(* Appending a new element adds it and repeats nothing.                    *)
LEMMA AppendNew ==
    ASSUME NEW T, NEW q \in Seq(T), NEW t \in T, t \notin ToSet(q), IsInjective(q)
    PROVE  /\ Append(q, t) \in Seq(T)
           /\ ToSet(Append(q, t)) = ToSet(q) \cup {t}
           /\ IsInjective(Append(q, t))
<1> DEFINE a == Append(q, t)
<1>1. /\ a \in Seq(T) /\ Len(a) = Len(q) + 1 /\ Len(q) \in Nat
      /\ \A i \in 1 .. Len(q) : a[i] = q[i]
      /\ a[Len(q) + 1] = t
  OBVIOUS
<1>2. DOMAIN a = 1 .. Len(q) + 1 /\ DOMAIN q = 1 .. Len(q)
  BY <1>1
<1> HIDE DEF a
<1>3. ToSet(a) = ToSet(q) \cup {t}
  BY <1>1, <1>2 DEF ToSet
<1>4. IsInjective(a)
  BY <1>1, <1>2 DEF ToSet, IsInjective
<1>5. QED
  BY <1>1, <1>3, <1>4 DEF a

(* Dropping the head of a sequence without repetitions.                    *)
LEMMA DropHead ==
    ASSUME NEW T, NEW q \in Seq(T), q # <<>>, IsInjective(q)
    PROVE  /\ SubSeq(q, Position(q, Head(q)) + 1, Len(q)) = Tail(q)
           /\ Tail(q) \in Seq(T)
           /\ ToSet(Tail(q)) = ToSet(q) \ {Head(q)}
           /\ IsInjective(Tail(q))
<1> DEFINE r == Tail(q)
<1>1. /\ Len(q) \in Nat /\ Len(q) > 0 /\ Head(q) = q[1]
      /\ DOMAIN q = 1 .. Len(q)
      /\ r \in Seq(T) /\ DOMAIN r = 1 .. Len(q) - 1
      /\ \A i \in 1 .. Len(q) - 1 : r[i] = q[i + 1]
  OBVIOUS
<1>2. Position(q, Head(q)) = 1
  BY <1>1 DEF Position, IsInjective
<1>3. SubSeq(q, 2, Len(q)) = r
  BY TailIsSubSeq
<1> HIDE DEF r
<1>4. IsInjective(r)
  <2> SUFFICES ASSUME NEW i \in DOMAIN r, NEW j \in DOMAIN r, r[i] = r[j]
               PROVE  i = j
    BY DEF IsInjective
  <2>1. i + 1 \in DOMAIN q /\ j + 1 \in DOMAIN q /\ q[i + 1] = q[j + 1]
    BY <1>1
  <2>2. i + 1 = j + 1
    BY <2>1 DEF IsInjective
  <2>3. QED
    BY <1>1, <2>2
<1>5. ToSet(r) = ToSet(q) \ {Head(q)}
  <2>1. ASSUME NEW i \in DOMAIN r PROVE r[i] \in ToSet(q) /\ r[i] # Head(q)
    <3>1. i + 1 \in DOMAIN q /\ r[i] = q[i + 1] /\ 1 \in DOMAIN q /\ i + 1 # 1
      BY <1>1
    <3>2. QED
      BY <1>1, <3>1 DEF ToSet, IsInjective
  <2>2. ASSUME NEW i \in DOMAIN q, q[i] # Head(q) PROVE q[i] \in ToSet(r)
    <3>1. i - 1 \in DOMAIN r /\ r[i - 1] = q[i]
      BY <1>1, <2>2
    <3>2. QED
      BY <3>1 DEF ToSet
  <2>3. QED
    BY <2>1, <2>2 DEF ToSet
<1>6. QED
  BY <1>1, <1>2, <1>3, <1>4, <1>5 DEF r

(* Taking out one element of a sequence without repetitions.               *)
LEMMA TakeOut ==
    ASSUME NEW T, NEW q \in Seq(T), NEW t \in ToSet(q), IsInjective(q)
    PROVE  /\ RemoveAt(q, Position(q, t)) \in Seq(T)
           /\ ToSet(RemoveAt(q, Position(q, t))) = ToSet(q) \ {t}
           /\ IsInjective(RemoveAt(q, Position(q, t)))
<1> DEFINE k == Position(q, t)
           r == RemoveAt(q, k)
           f == SubSeq(q, 1, k - 1)
           b == SubSeq(q, k + 1, Len(q))
<1>1. k \in 1 .. Len(q) /\ q[k] = t /\ Len(q) \in Nat /\ DOMAIN q = 1 .. Len(q)
  BY PositionIsIndex
<1> HIDE DEF k
<1>2. /\ f \in Seq(T) /\ Len(f) = k - 1
      /\ \A i \in 1 .. k - 1 : f[i] = q[i]
  BY <1>1
<1>3. /\ b \in Seq(T) /\ Len(b) = Len(q) - k
      /\ \A i \in 1 .. Len(q) - k : b[i] = q[k + i]
  BY <1>1
<1>4. r = f \o b
  BY DEF RemoveAt
<1> HIDE DEF f, b, r
<1>5. /\ r \in Seq(T) /\ Len(r) = Len(q) - 1
      /\ \A i \in 1 .. k - 1 : r[i] = q[i]
      /\ \A i \in k .. Len(q) - 1 : r[i] = q[i + 1]
  <2>1. /\ r \in Seq(T) /\ Len(r) = Len(f) + Len(b)
        /\ \A i \in 1 .. Len(r) : r[i] = IF i <= Len(f) THEN f[i] ELSE b[i - Len(f)]
    <3>1. /\ f \o b \in Seq(T) /\ Len(f \o b) = Len(f) + Len(b)
          /\ \A i \in 1 .. Len(f) + Len(b) :
               (f \o b)[i] = IF i <= Len(f) THEN f[i] ELSE b[i - Len(f)]
      BY <1>2, <1>3, ConcatProperties, Zenon
    <3>2. QED
      BY <1>4, <3>1, Zenon
  <2>2. Len(r) = Len(q) - 1
    BY <1>1, <1>2, <1>3, <2>1
  <2>3. ASSUME NEW i \in 1 .. k - 1 PROVE r[i] = q[i]
    <3>1. i \in 1 .. Len(r) /\ i <= Len(f)
      BY <1>1, <1>2, <2>2
    <3>2. r[i] = f[i]
      BY <2>1, <3>1
    <3> QED BY <1>2, <3>2
  <2>4. ASSUME NEW i \in k .. Len(q) - 1 PROVE r[i] = q[i + 1]
    <3>1. i \in 1 .. Len(r) /\ ~(i <= Len(f)) /\ i - Len(f) \in 1 .. Len(q) - k
      BY <1>1, <1>2, <2>2
    <3>2. r[i] = b[i - Len(f)]
      BY <2>1, <3>1
    <3>3. k + (i - Len(f)) = i + 1
      BY <1>1, <1>2
    <3>4. QED
      BY <1>3, <3>1, <3>2, <3>3
  <2>5. QED
    BY <2>1, <2>2, <2>3, <2>4
<1>6. DOMAIN r = 1 .. Len(q) - 1
  BY <1>5
<1>7. \A i \in DOMAIN r : r[i] = q[IF i < k THEN i ELSE i + 1]
  BY <1>1, <1>5, <1>6
<1>8. IsInjective(r)
  BY <1>1, <1>6, <1>7 DEF IsInjective
<1>9. ToSet(r) = ToSet(q) \ {t}
  <2>1. ToSet(r) \subseteq ToSet(q) \ {t}
    BY <1>1, <1>6, <1>7 DEF ToSet, IsInjective
  <2>2. ASSUME NEW i \in DOMAIN q, q[i] # t PROVE q[i] \in ToSet(r)
    <3>1. CASE i < k
      BY <1>1, <1>6, <1>7, <3>1 DEF ToSet
    <3>2. CASE i > k
      <4>1. i - 1 \in DOMAIN r /\ r[i - 1] = q[i]
        BY <1>1, <1>6, <1>7, <3>2
      <4>2. QED
        BY <4>1 DEF ToSet
    <3>3. QED
      BY <1>1, <2>2, <3>1, <3>2
  <2>3. QED
    BY <2>1, <2>2 DEF ToSet
<1>10. QED
  BY <1>5, <1>8, <1>9 DEF r, k
-----------------------------------------------------------------------------
(* The most urgent non-empty queue and its first thread exist.             *)
LEMMA FirstReadyExists ==
    ASSUME NEW s, NEW T, NEW N \in Nat, NEW alive, NEW home,
           Agree(s, T, 0 .. N - 1, alive, home), ~Idle(s)
    PROVE  /\ TopPriority(s) \in 0 .. N - 1
           /\ s.q[TopPriority(s)] # <<>>
           /\ \A o \in 0 .. N - 1 : s.q[o] # <<>> => TopPriority(s) <= o
           /\ first_ready(s) \in T
           /\ first_ready(s) \in ToSet(s.q[TopPriority(s)])
<1> DEFINE S == {p \in 0 .. N - 1 : s.q[p] # <<>>}
<1>1. DOMAIN s.q = 0 .. N - 1 /\ \A p \in 0 .. N - 1 : s.q[p] \in Seq(T)
  BY DEF Agree
<1>2. S \subseteq Nat /\ S # {}
  BY <1>1 DEF Idle
<1>3. PICK m \in S : \A n \in S : m <= n
  <2> HIDE DEF S
  <2> QED BY <1>2, LeastNatural
<1>4. /\ TopPriority(s) \in 0 .. N - 1
      /\ s.q[TopPriority(s)] # <<>>
      /\ \A o \in 0 .. N - 1 : s.q[o] # <<>> => TopPriority(s) <= o
  BY <1>1, <1>3 DEF TopPriority
<1>5. /\ first_ready(s) \in T
      /\ first_ready(s) \in ToSet(s.q[TopPriority(s)])
  BY <1>1, <1>4 DEF first_ready, ToSet
<1>6. QED
  BY <1>4, <1>5

(* A queue updated so that exactly t comes or goes keeps the agreement.    *)
LEMMA AgreeAdd ==
    ASSUME NEW s, NEW T, NEW P, NEW alive, NEW home, NEW t \in T, NEW p \in P, NEW new,
           Agree(s, T, P, alive, home), t \in alive, home[t] = p,
           new \in Seq(T), IsInjective(new), ToSet(new) = ToSet(s.q[p]) \cup {t}
    PROVE  Agree([q |-> [s.q EXCEPT ![p] = new], ready |-> s.ready \cup {t}],
                 T, P, alive, home)
<1> DEFINE u == [q |-> [s.q EXCEPT ![p] = new], ready |-> s.ready \cup {t}]
<1>1. /\ s.q \in [P -> Seq(T)] /\ s.ready \subseteq T
      /\ \A x \in T : x \in s.ready <=> \E o \in P : x \in ToSet(s.q[o])
      /\ \A o \in P : IsInjective(s.q[o])
      /\ \A o \in P : \A x \in ToSet(s.q[o]) : x \in alive /\ home[x] = o
  BY DEF Agree
<1>2. /\ u.q \in [P -> Seq(T)] /\ u.ready = s.ready \cup {t}
      /\ u \in [q : [P -> Seq(T)], ready : SUBSET T]
      /\ u.q[p] = new /\ \A o \in P \ {p} : u.q[o] = s.q[o]
  BY <1>1
<1> HIDE DEF u
<1>3. \A x \in T : x \in u.ready <=> \E o \in P : x \in ToSet(u.q[o])
  BY <1>1, <1>2
<1>4. \A o \in P : IsInjective(u.q[o])
  BY <1>1, <1>2
<1>5. ASSUME NEW o \in P, NEW x \in ToSet(u.q[o]) PROVE x \in alive /\ home[x] = o
  <2>1. CASE o = p
    <3>1. x = t \/ x \in ToSet(s.q[p])
      BY <1>2, <2>1
    <3>2. QED
      BY <1>1, <2>1, <3>1
  <2>2. CASE o # p
    BY <1>1, <1>2, <2>2
  <2>3. QED
    BY <2>1, <2>2
<1>6. QED
  BY <1>2, <1>3, <1>4, <1>5 DEF Agree, u

LEMMA AgreeDrop ==
    ASSUME NEW s, NEW T, NEW P, NEW alive, NEW home, NEW t \in T, NEW p \in P, NEW new,
           Agree(s, T, P, alive, home), home[t] = p,
           new \in Seq(T), IsInjective(new), ToSet(new) = ToSet(s.q[p]) \ {t}
    PROVE  Agree([q |-> [s.q EXCEPT ![p] = new], ready |-> s.ready \ {t}],
                 T, P, alive, home)
<1> DEFINE u == [q |-> [s.q EXCEPT ![p] = new], ready |-> s.ready \ {t}]
<1>1. /\ s.q \in [P -> Seq(T)] /\ s.ready \subseteq T
      /\ \A x \in T : x \in s.ready <=> \E o \in P : x \in ToSet(s.q[o])
      /\ \A o \in P : IsInjective(s.q[o])
      /\ \A o \in P : \A x \in ToSet(s.q[o]) : x \in alive /\ home[x] = o
  BY DEF Agree
<1>2. /\ u.q \in [P -> Seq(T)] /\ u.ready = s.ready \ {t}
      /\ u \in [q : [P -> Seq(T)], ready : SUBSET T]
      /\ u.q[p] = new /\ \A o \in P \ {p} : u.q[o] = s.q[o]
  BY <1>1
<1> HIDE DEF u
<1>3. \A x \in T : x \in u.ready <=> \E o \in P : x \in ToSet(u.q[o])
  BY <1>1, <1>2
<1>4. \A o \in P : IsInjective(u.q[o])
  BY <1>1, <1>2
<1>5. \A o \in P : \A x \in ToSet(u.q[o]) : x \in alive /\ home[x] = o
  BY <1>1, <1>2
<1>6. QED
  BY <1>2, <1>3, <1>4, <1>5 DEF Agree, u

(* getcurrent takes out the head of the most urgent queue, and only it.    *)
LEMMA GetcurrentAgrees ==
    ASSUME NEW s, NEW T, NEW N \in Nat, NEW alive, NEW home,
           Agree(s, T, 0 .. N - 1, alive, home), ~Idle(s), NULL \notin T
    PROVE  LET t == first_ready(s)
               u == getcurrent(s, t, home[t])
           IN  /\ Agree(u, T, 0 .. N - 1, alive, home)
               /\ u.ready = s.ready \ {t}
               /\ t \in s.ready /\ t \in alive /\ home[t] \in 0 .. N - 1
<1> DEFINE t == first_ready(s)
           p == TopPriority(s)
<1>1. /\ p \in 0 .. N - 1 /\ t \in T /\ s.q[p] # <<>> /\ t \in ToSet(s.q[p])
      /\ t = Head(s.q[p])
  BY FirstReadyExists DEF first_ready
<1>2. s.q[p] \in Seq(T) /\ IsInjective(s.q[p])
  BY <1>1 DEF Agree
<1>3. home[t] = p /\ t \in s.ready /\ t \in alive
  BY <1>1 DEF Agree
<1>4. /\ SubSeq(s.q[p], Position(s.q[p], t) + 1, Len(s.q[p])) = Tail(s.q[p])
      /\ Tail(s.q[p]) \in Seq(T)
      /\ ToSet(Tail(s.q[p])) = ToSet(s.q[p]) \ {t}
      /\ IsInjective(Tail(s.q[p]))
  BY <1>1, <1>2, DropHead
<1>5. t # NULL
  BY <1>1
<1>6. getcurrent(s, t, home[t]) =
        [q |-> [s.q EXCEPT ![p] = Tail(s.q[p])], ready |-> s.ready \ {t}]
  BY <1>3, <1>4, <1>5 DEF getcurrent
<1> HIDE DEF t, p
<1>7. Agree([q |-> [s.q EXCEPT ![p] = Tail(s.q[p])], ready |-> s.ready \ {t}],
            T, 0 .. N - 1, alive, home)
  BY <1>1, <1>3, <1>4, AgreeDrop
<1>8. QED
  BY <1>1, <1>3, <1>6, <1>7 DEF t

(* putcurrent queues any live thread, whatever state it is in.             *)
LEMMA PutcurrentAgrees ==
    ASSUME NEW s, NEW T, NEW P, NEW alive, NEW home, NEW t \in T,
           Agree(s, T, P, alive, home), t \in alive, home[t] \in P, NULL \notin T
    PROVE  /\ Agree(putcurrent(s, t, home[t]), T, P, alive, home)
           /\ putcurrent(s, t, home[t]).ready = s.ready \cup {t}
<1> DEFINE p == home[t]
<1>1. CASE t \in s.ready
  BY <1>1 DEF putcurrent
<1>2. CASE t \notin s.ready
  <2>1. s.q[p] \in Seq(T) /\ IsInjective(s.q[p]) /\ t \notin ToSet(s.q[p])
    BY <1>2 DEF Agree
  <2>2. putcurrent(s, t, p) =
          [q |-> [s.q EXCEPT ![p] = Append(s.q[p], t)], ready |-> s.ready \cup {t}]
    BY <1>2 DEF putcurrent
  <2>3. /\ Append(s.q[p], t) \in Seq(T) /\ IsInjective(Append(s.q[p], t))
        /\ ToSet(Append(s.q[p], t)) = ToSet(s.q[p]) \cup {t}
    BY <2>1, AppendNew
  <2> HIDE DEF p
  <2>4. Agree([q |-> [s.q EXCEPT ![p] = Append(s.q[p], t)], ready |-> s.ready \cup {t}],
              T, P, alive, home)
    BY <2>3, AgreeAdd DEF p
  <2>5. QED
    BY <2>2, <2>4 DEF p
<1>3. QED
  BY <1>1, <1>2

(* readyque_remove takes any thread out, wherever it stands.               *)
LEMMA RemoveAgrees ==
    ASSUME NEW s, NEW T, NEW P, NEW alive, NEW home, NEW t \in T,
           Agree(s, T, P, alive, home), home[t] \in P
    PROVE  /\ Agree(readyque_remove(s, t, home[t]), T, P, alive, home)
           /\ readyque_remove(s, t, home[t]).ready = s.ready \ {t}
<1> DEFINE p == home[t]
           r == RemoveAt(s.q[p], Position(s.q[p], t))
<1>1. CASE t \in ToSet(s.q[p])
  <2>1. s.q[p] \in Seq(T) /\ IsInjective(s.q[p])
    BY DEF Agree
  <2>2. readyque_remove(s, t, p) =
          [q |-> [s.q EXCEPT ![p] = r], ready |-> s.ready \ {t}]
    BY <1>1 DEF readyque_remove
  <2>3. r \in Seq(T) /\ IsInjective(r) /\ ToSet(r) = ToSet(s.q[p]) \ {t}
    BY <1>1, <2>1, TakeOut
  <2> HIDE DEF p, r
  <2>4. Agree([q |-> [s.q EXCEPT ![p] = r], ready |-> s.ready \ {t}], T, P, alive, home)
    BY <2>3, AgreeDrop DEF p
  <2>5. QED
    BY <2>2, <2>4 DEF p
<1>2. CASE t \notin ToSet(s.q[p])
  <2>1. t \notin s.ready
    BY <1>2 DEF Agree
  <2>2. QED
    BY <1>2, <2>1 DEF readyque_remove
<1>3. QED
  BY <1>1, <1>2

(* Only the queued threads' slots and priorities matter to the agreement.  *)
LEMMA AgreeElsewhere ==
    ASSUME NEW s, NEW T, NEW P, NEW alive, NEW home, NEW alive2, NEW home2,
           Agree(s, T, P, alive, home),
           \A t \in s.ready : t \in alive => t \in alive2 /\ home2[t] = home[t]
    PROVE  Agree(s, T, P, alive2, home2)
<1>1. ASSUME NEW p \in P, NEW t \in ToSet(s.q[p])
      PROVE  t \in alive2 /\ home2[t] = p
  <2>1. t \in T
    BY DEF Agree, ToSet
  <2>2. t \in s.ready /\ t \in alive /\ home[t] = p
    BY <2>1 DEF Agree
  <2>3. QED
    BY <2>2
<1>2. QED
  BY <1>1 DEF Agree
-----------------------------------------------------------------------------
(***************************************************************************)
(* The calls.                                                              *)
(***************************************************************************)

AliveIn(tc) == {t \in Thread : tc[t].func}
HomeIn(tc)  == [t \in Thread |-> tc[t].priority]

(* FlagsAgree and OwnQueue for the queues s and the slots tc.              *)
Sound(s, tc) == Agree(s, Thread, Priority, AliveIn(tc), HomeIn(tc))

(* A cleared slot is never in a recv: only then may deliver queue the      *)
(* thread whose slot it finds in one.                                      *)
Slots == {tc \in [Thread -> Tcb] : \A t \in Thread : tc[t].type = "RECV" => tc[t].func}

IInv == TypeOK /\ QueueInv /\ tcb \in Slots

Kept == IInv /\ halted = "no"

USE NullAssumption, ThreadAssumption, PriorityAssumption

-----------------------------------------------------------------------------
LEMMA SoundIsInv ==
    ASSUME TypeOK
    PROVE  Sound(rq, tcb) <=> FlagsAgree /\ OwnQueue
<1>1. \A p \in Priority : ToSet(rq.q[p]) \subseteq Thread
  BY DEF TypeOK, ToSet
<1>2. QED
  BY <1>1 DEF Sound, Agree, TypeOK, FlagsAgree, OwnQueue, AliveIn, HomeIn, live

LEMMA ClearedIsTcb == Cleared \in Tcb /\ \A p \in Priority : Started(p) \in Tcb
<1>1. 0 \in Priority
  BY DEF Priority
<1>2. Cleared \in Tcb
  BY <1>1 DEF Cleared, Tcb, CallType
<1>3. ASSUME NEW p \in Priority PROVE Started(p) \in Tcb
  BY <1>2 DEF Started, Tcb
<1>4. QED
  BY <1>2, <1>3

(* The handler's first step leaves sound queues without the caller.        *)
LEMMA TakenSound ==
    ASSUME Kept
    PROVE  /\ Sound(rq, tcb) /\ Sound(taken, tcb)
           /\ taken.ready = rq.ready \ {current}
           /\ current \in rq.ready /\ live(current) /\ current \in Thread
           /\ tcb[current].priority \in Priority
<1>1. Sound(rq, tcb) /\ ~Idle(rq) /\ current = first_ready(rq) /\ current \in Thread
  BY SoundIsInv DEF Kept, IInv, QueueInv, CurrentIsFirst, TypeOK
<1>2. HomeIn(tcb)[current] = tcb[current].priority
  BY <1>1 DEF HomeIn
<1>3. /\ Agree(taken, Thread, 0 .. PRIORITY_NUM - 1, AliveIn(tcb), HomeIn(tcb))
      /\ taken.ready = rq.ready \ {current}
      /\ current \in rq.ready /\ current \in AliveIn(tcb)
      /\ HomeIn(tcb)[current] \in 0 .. PRIORITY_NUM - 1
  BY <1>1, <1>2, GetcurrentAgrees DEF Sound, Priority, taken
<1>4. QED
  BY <1>1, <1>2, <1>3 DEF Sound, Priority, AliveIn, live

(* Linking a live thread.                                                  *)
LEMMA PutSound ==
    ASSUME NEW s, NEW tc \in [Thread -> Tcb], NEW t \in Thread,
           Sound(s, tc), tc[t].func
    PROVE  /\ Sound(putcurrent(s, t, tc[t].priority), tc)
           /\ putcurrent(s, t, tc[t].priority).ready = s.ready \cup {t}
<1>1. t \in AliveIn(tc) /\ HomeIn(tc)[t] = tc[t].priority /\ HomeIn(tc)[t] \in Priority
  BY DEF AliveIn, HomeIn, Tcb
<1>2. QED
  BY <1>1, PutcurrentAgrees DEF Sound

LEMMA RequeueSound ==
    ASSUME Kept, NEW s, Sound(s, tcb)
    PROVE  /\ Sound(requeue(s), tcb)
           /\ requeue(s).ready = s.ready \cup {current}
<1>1. tcb \in [Thread -> Tcb] /\ current \in Thread /\ tcb[current].func
  BY TakenSound DEF Kept, IInv, TypeOK, live
<1>2. QED
  BY <1>1, PutSound DEF requeue

(* Slots may change while their threads are in no queue; a queued thread's *)
(* call type and parameters may change too.                                *)
LEMMA SlotChange ==
    ASSUME NEW s, NEW tc, NEW tc2, Sound(s, tc),
           \A t \in s.ready : t \in Thread =>
               tc2[t].func = tc[t].func /\ tc2[t].priority = tc[t].priority
    PROVE  Sound(s, tc2)
<1>1. \A t \in s.ready : t \in Thread
  BY DEF Sound, Agree
<1>2. QED
  BY <1>1, AgreeElsewhere DEF Sound, AliveIn, HomeIn

LEMMA EnteredSlots ==
    ASSUME Kept, NEW type \in CallType
    PROVE  /\ entered(type) \in [Thread -> Tcb]
           /\ \A t \in Thread : /\ entered(type)[t].func = tcb[t].func
                                /\ entered(type)[t].priority = tcb[t].priority
           /\ \A t \in Thread \ {current} : entered(type)[t] = tcb[t]
           /\ entered(type)[current].type = type
<1>1. tcb \in [Thread -> Tcb] /\ current \in Thread
  BY DEF Kept, IInv, TypeOK
<1>2. tcb[current] \in Tcb /\ NULL \in Message \cup {NULL}
  BY <1>1
<1>3. entered(type) \in [Thread -> Tcb]
  BY <1>1, <1>2 DEF entered, Tcb
<1>4. entered(type)[current].type = type
  BY <1>1, <1>2 DEF entered, Tcb
<1>5. /\ entered(type)[current].func = tcb[current].func
      /\ entered(type)[current].priority = tcb[current].priority
  BY <1>1, <1>2 DEF entered, Tcb
<1>6. \A t \in Thread \ {current} : entered(type)[t] = tcb[t]
  BY <1>1 DEF entered
<1>7. QED
  BY <1>3, <1>4, <1>5, <1>6

(* schedule ends every handler: whatever it finds becomes the next state.  *)
LEMMA Scheduled ==
    ASSUME Kept, NEW s, NEW tc \in [Thread -> Tcb], Sound(s, tc),
           schedule(s), tcb' = tc
    PROVE  /\ current' \in Thread /\ halted' \in {"no", "sysdown"} /\ rq' = s
           /\ rq' \in [q : [Priority -> Seq(Thread)], ready : SUBSET Thread]
           /\ tcb' \in [Thread -> Tcb]
           /\ QueueInv'
<1>1. rq' = s /\ s \in [q : [Priority -> Seq(Thread)], ready : SUBSET Thread]
  BY DEF schedule, Sound, Agree
<1>2. /\ current' \in Thread /\ halted' \in {"no", "sysdown"}
      /\ halted' = "no" => ~Idle(s) /\ current' = first_ready(s)
  <2>1. CASE Idle(s)
    BY <2>1 DEF schedule, Kept, IInv, TypeOK
  <2>2. CASE ~Idle(s)
    <3>1. first_ready(s) \in Thread
      BY <2>2, FirstReadyExists DEF Sound, Priority
    <3>2. QED
      BY <2>2, <3>1 DEF schedule, Kept
  <2>3. QED
    BY <2>1, <2>2
<1>3. \A p \in Priority : ToSet(s.q[p]) \subseteq Thread
  BY <1>1 DEF ToSet
<1>4. FlagsAgree' /\ OwnQueue'
  BY <1>1, <1>3 DEF Sound, Agree, FlagsAgree, OwnQueue, AliveIn, HomeIn, live
<1>5. CurrentIsFirst'
  BY <1>1, <1>2 DEF CurrentIsFirst
<1>6. QED
  BY <1>1, <1>2, <1>4, <1>5 DEF QueueInv
-----------------------------------------------------------------------------
(* The two ways a handler can end.                                         *)
LEMMA Ending ==
    ASSUME Kept, NEW s, NEW tc \in Slots, Sound(s, tc),
           schedule(s), tcb' = tc,
           receiver' \in [MsgBox -> Thread \cup {NULL}],
           box' \in [MsgBox -> Seq(Message)],
           blocks' \in Nat, held' \in Nat, stack' \in [Pools -> Nat]
    PROVE  IInv'
<1>1. /\ current' \in Thread /\ halted' \in {"no", "sysdown"}
      /\ rq' \in [q : [Priority -> Seq(Thread)], ready : SUBSET Thread]
      /\ tcb' \in [Thread -> Tcb]
      /\ QueueInv'
  BY Scheduled DEF Slots
<1>2. QED
  BY <1>1 DEF IInv, TypeOK, Halts

LEMMA Halting ==
    ASSUME Kept, NEW why \in Halts \ {"no"}, halt(why)
    PROVE  IInv'
<1>1. /\ UNCHANGED <<current, rq, tcb, receiver, box, blocks, held, stack>>
      /\ halted' = why
  BY DEF halt, mail, memory
<1>2. TypeOK'
  BY <1>1 DEF Kept, IInv, TypeOK
<1>3. FlagsAgree' /\ OwnQueue'
  BY <1>1 DEF Kept, IInv, QueueInv, FlagsAgree, OwnQueue, live
<1>4. CurrentIsFirst'
  BY <1>1 DEF CurrentIsFirst
<1>5. QED
  BY <1>1, <1>2, <1>3, <1>4 DEF Kept, IInv, QueueInv

(* The slots as the handler's first step leaves them fit the same queues.  *)
LEMMA EnteredSound ==
    ASSUME Kept, NEW type \in CallType, NEW s, Sound(s, tcb)
    PROVE  Sound(s, entered(type))
<1>1. \A t \in Thread : /\ entered(type)[t].func = tcb[t].func
                        /\ entered(type)[t].priority = tcb[t].priority
  BY EnteredSlots
<1>2. QED
  BY <1>1, SlotChange

(* Calls that change no slot but the caller's type and requeue it or not.  *)
LEMMA Entry ==
    ASSUME Kept, NEW type \in CallType
    PROVE  /\ entered(type) \in Slots
           /\ Sound(taken, entered(type))
           /\ Sound(requeue(taken), entered(type))
           /\ Sound(requeue(taken), tcb)
           /\ requeue(taken).ready = rq.ready
<1>1. Sound(taken, tcb) /\ taken.ready = rq.ready \ {current} /\ current \in rq.ready
  BY TakenSound
<1>2. Sound(requeue(taken), tcb) /\ requeue(taken).ready = rq.ready
  BY <1>1, RequeueSound
<1>3. entered(type) \in Slots
  <2>1. tcb \in Slots /\ live(current) /\ current \in Thread
    BY TakenSound DEF Kept, IInv
  <2>2. QED
    BY <2>1, EnteredSlots DEF Slots, live
<1>4. QED
  BY <1>1, <1>2, <1>3, EnteredSound

LEMMA KeptTypes ==
    ASSUME Kept
    PROVE  /\ current \in Thread /\ tcb \in [Thread -> Tcb] /\ tcb \in Slots
           /\ receiver \in [MsgBox -> Thread \cup {NULL}]
           /\ box \in [MsgBox -> Seq(Message)]
           /\ blocks \in Nat /\ held \in Nat /\ stack \in [Pools -> Nat]
BY DEF Kept, IInv, TypeOK
(* What schedule leaves, and what putcurrent queues.                       *)
LEMMA Rescheduled ==
    ASSUME Kept, NEW s, schedule(s)
    PROVE  rq'.ready = s.ready /\ halted' \in {"no", "sysdown"}
BY DEF Kept, schedule

LEMMA PutReady ==
    ASSUME NEW s, NEW t \in Thread, NEW p
    PROVE  putcurrent(s, t, p).ready = s.ready \cup {t}
BY DEF putcurrent
-----------------------------------------------------------------------------
(* Threads.                                                                *)

LEMMA FreeSlotIsFree ==
    ASSUME Kept, FreeSlots # {}
    PROVE  FreeSlot \in Thread /\ ~live(FreeSlot)
<1>1. FreeSlots \subseteq Nat
  BY DEF FreeSlots, Thread
<1>2. \E t \in FreeSlots : \A u \in FreeSlots : t <= u
  BY <1>1, LeastNatural
<1>3. FreeSlot \in FreeSlots
  BY <1>2 DEF FreeSlot
<1>4. QED
  BY <1>3 DEF FreeSlots

LEMMA RunKeeps ==
    ASSUME Kept, NEW kind \in Pools, NEW pri \in Priority, NEW size \in Sizes,
           thread_run(kind, pri, size)
    PROVE  IInv'
<1>1. CASE /\ room(kind, size) /\ FreeSlots # {}
           /\ tcb' = [entered("OTHER") EXCEPT ![FreeSlot] = Started(pri)]
           /\ stack' = [stack EXCEPT ![kind] = @ - size]
           /\ schedule(putcurrent(requeue(taken), FreeSlot, pri))
           /\ UNCHANGED <<receiver, box, blocks, held>>
  <2> DEFINE tc == [entered("OTHER") EXCEPT ![FreeSlot] = Started(pri)]
  <2>1. FreeSlot \in Thread /\ ~live(FreeSlot)
    BY <1>1, FreeSlotIsFree
  <2>2. /\ entered("OTHER") \in Slots
        /\ Sound(requeue(taken), entered("OTHER"))
        /\ requeue(taken).ready = rq.ready /\ Sound(rq, tcb)
    BY Entry, TakenSound DEF CallType
  <2>3. FreeSlot \notin rq.ready
    BY <2>1, <2>2 DEF Sound, Agree, AliveIn, live
  <2>4. /\ tc \in [Thread -> Tcb] /\ tc[FreeSlot] = Started(pri)
        /\ \A t \in Thread \ {FreeSlot} : tc[t] = entered("OTHER")[t]
    BY <2>1, <2>2, ClearedIsTcb DEF Slots
  <2>5. tc[FreeSlot].func /\ tc[FreeSlot].priority = pri
    BY <2>4 DEF Started, Cleared
  <2>10. tc \in Slots
    BY <2>2, <2>4, <2>5 DEF Slots
  <2> HIDE DEF tc
  <2>6. Sound(requeue(taken), tc)
    BY <2>2, <2>3, <2>4, SlotChange
  <2>7. Sound(putcurrent(requeue(taken), FreeSlot, pri), tc)
    BY <2>1, <2>4, <2>5, <2>6, PutSound DEF Slots
  <2>8. stack' \in [Pools -> Nat]
    <3>1. size \in Nat /\ size <= stack[kind] /\ stack \in [Pools -> Nat]
      BY <1>1, SizeAssumption, KeptTypes DEF room
    <3>2. stack[kind] - size \in Nat
      BY <3>1
    <3>3. QED
      BY <1>1, <3>1, <3>2
  <2>9. QED
    BY <1>1, <2>10, <2>7, <2>8, KeptTypes, Ending DEF tc
<1>2. CASE tcb' = entered("OTHER") /\ schedule(taken) /\ UNCHANGED <<mail, memory>>
  <2>1. entered("OTHER") \in Slots /\ Sound(taken, entered("OTHER"))
    BY Entry DEF CallType
  <2>2. QED
    BY <1>2, <2>1, KeptTypes, Ending DEF mail, memory
<1>3. QED
  BY <1>1, <1>2 DEF thread_run

LEMMA ExitKeeps ==
    ASSUME Kept, thread_exit
    PROVE  IInv'
<1> DEFINE tc == [tcb EXCEPT ![current] = Cleared]
<1>1. Sound(taken, tcb) /\ taken.ready = rq.ready \ {current}
  BY TakenSound
<1>2. tc \in Slots /\ \A t \in Thread \ {current} : tc[t] = tcb[t]
  BY KeptTypes, ClearedIsTcb DEF Slots, Cleared
<1> HIDE DEF tc
<1>3. Sound(taken, tc)
  BY <1>1, <1>2, SlotChange
<1>4. QED
  BY <1>2, <1>3, KeptTypes, Ending DEF tc, thread_exit, mail, memory

LEMMA YieldKeeps ==
    ASSUME Kept, yield
    PROVE  IInv'
<1>1. /\ entered("OTHER") \in Slots
      /\ Sound(requeue(taken), entered("OTHER"))
  BY Entry DEF CallType
<1>2. QED
  BY <1>1, KeptTypes, Ending DEF yield, mail, memory

LEMMA SleepKeeps ==
    ASSUME Kept, thread_sleep
    PROVE  IInv'
<1>1. entered("SLEEP") \in Slots /\ Sound(taken, entered("SLEEP"))
  BY Entry DEF CallType
<1>2. QED
  BY <1>1, KeptTypes, Ending DEF thread_sleep, mail, memory

(* wake with any sound queues and slots like the current ones.             *)
LEMMA WakeKeeps ==
    ASSUME Kept, NEW id \in Thread, NEW s, NEW tc \in Slots, Sound(s, tc),
           tc[id].func = tcb[id].func, tc[id].priority = tcb[id].priority,
           wake(id, s, tc)
    PROVE  IInv'
<1>1. CASE live(id)
  <2>1. Sound(putcurrent(s, id, tcb[id].priority), tc)
    BY <1>1, PutSound DEF live, Slots
  <2>2. QED
    BY <1>1, <2>1, KeptTypes, Ending DEF wake, mail, memory
<1>2. CASE ~live(id)
  BY <1>2, Halting DEF wake, Halts
<1>3. QED
  BY <1>1, <1>2

LEMMA WakeupKeeps ==
    ASSUME Kept, NEW id \in Thread, thread_wakeup(id) \/ picoxs_wakeup(id)
    PROVE  IInv'
<1>1. CASE thread_wakeup(id)
  <2>1. /\ entered("OTHER") \in Slots
        /\ Sound(requeue(taken), entered("OTHER"))
        /\ entered("OTHER")[id].func = tcb[id].func
        /\ entered("OTHER")[id].priority = tcb[id].priority
    BY Entry, EnteredSlots DEF CallType
  <2>2. QED
    BY <1>1, <2>1, WakeKeeps DEF thread_wakeup
<1>2. CASE picoxs_wakeup(id)
  BY <1>2, TakenSound, KeptTypes, WakeKeeps DEF picoxs_wakeup
<1>3. QED
  BY <1>1, <1>2

LEMMA ChpriKeeps ==
    ASSUME Kept, NEW pri \in Priority, thread_chpri(pri)
    PROVE  IInv'
<1> DEFINE new == IF pri > 0 THEN pri ELSE tcb[current].priority
           tc  == [entered("OTHER") EXCEPT ![current].priority = new]
<1>1. /\ Sound(taken, tcb) /\ taken.ready = rq.ready \ {current}
      /\ live(current) /\ current \in Thread /\ tcb[current].priority \in Priority
  BY TakenSound
<1>2. /\ entered("OTHER") \in Slots /\ Sound(taken, entered("OTHER"))
      /\ entered("OTHER")[current].func = tcb[current].func
  BY <1>1, Entry, EnteredSlots DEF CallType
<1>3. new \in Priority
  BY <1>1
<1> HIDE DEF new
<1>4. tc \in [Thread -> Tcb]
  BY <1>1, <1>2, <1>3 DEF Tcb, Slots
<1>5. /\ \A t \in Thread \ {current} : tc[t] = entered("OTHER")[t]
      /\ tc[current].priority = new /\ tc[current].func
  BY <1>1, <1>2, <1>3 DEF Tcb, live, Slots
<1> HIDE DEF tc
<1>6. Sound(taken, tc)
  BY <1>1, <1>2, <1>5, SlotChange
<1>7. Sound(putcurrent(taken, current, new), tc)
  BY <1>1, <1>4, <1>5, <1>6, PutSound
<1>8. tcb' = tc /\ schedule(putcurrent(taken, current, new)) /\ UNCHANGED <<mail, memory>>
  BY DEF thread_chpri, new, tc
<1>9. tc \in Slots
  BY <1>2, <1>4, <1>5 DEF Slots
<1>10. QED
  BY <1>9, <1>7, <1>8, KeptTypes, Ending DEF mail, memory

(* The victim leaves its queue before its slot is cleared.                 *)
LEMMA KillKeeps ==
    ASSUME Kept, NEW id \in Thread, thread_kill(id)
    PROVE  IInv'
<1>1. CASE tcb' = entered("OTHER") /\ schedule(taken) /\ UNCHANGED <<mail, memory>>
  <2>1. entered("OTHER") \in Slots /\ Sound(taken, entered("OTHER"))
    BY Entry DEF CallType
  <2>2. QED
    BY <1>1, <2>1, KeptTypes, Ending DEF mail, memory
<1>2. CASE /\ live(id) /\ id # current
           /\ tcb' = [entered("OTHER") EXCEPT ![id] = Cleared]
           /\ schedule(requeue(readyque_remove(taken, id, tcb[id].priority)))
           /\ UNCHANGED <<mail, memory>>
  <2> DEFINE s  == readyque_remove(taken, id, tcb[id].priority)
             tc == [entered("OTHER") EXCEPT ![id] = Cleared]
  <2>1. Sound(taken, tcb)
    BY TakenSound
  <2>2. HomeIn(tcb)[id] = tcb[id].priority /\ HomeIn(tcb)[id] \in Priority
    BY KeptTypes DEF HomeIn, Tcb
  <2>3. Sound(s, tcb) /\ s.ready = taken.ready \ {id}
    BY <2>1, <2>2, RemoveAgrees DEF Sound
  <2> HIDE DEF s
  <2>4. Sound(requeue(s), tcb) /\ id \notin requeue(s).ready
    BY <1>2, <2>3, RequeueSound
  <2>5. entered("OTHER") \in Slots /\ Sound(requeue(s), entered("OTHER"))
    BY <2>4, Entry, EnteredSound DEF CallType
  <2>6. /\ tc \in Slots
        /\ \A t \in Thread \ {id} : tc[t] = entered("OTHER")[t]
    BY <2>5, ClearedIsTcb DEF Slots, Cleared
  <2> HIDE DEF tc
  <2>7. Sound(requeue(s), tc)
    BY <2>4, <2>5, <2>6, SlotChange
  <2>8. QED
    BY <1>2, <2>6, <2>7, KeptTypes, Ending DEF s, tc, mail, memory
<1>3. CASE halt("zombie")
  BY <1>3, Halting DEF Halts
<1>4. QED
  BY <1>1, <1>2, <1>3 DEF thread_kill
-----------------------------------------------------------------------------
(* Memory.                                                                 *)

LEMMA AllocKeeps ==
    ASSUME Kept, NEW s, NEW tc \in Slots, Sound(s, tc), alloc(s, tc)
    PROVE  IInv'
<1>1. CASE blocks = 0
  BY <1>1, Halting DEF alloc, Halts
<1>2. CASE blocks # 0
  <2>1. blocks - 1 \in Nat /\ held + 1 \in Nat
    BY <1>2, KeptTypes
  <2>2. QED
    BY <1>2, <2>1, KeptTypes, Ending DEF alloc, mail
<1>3. QED
  BY <1>1, <1>2

LEMMA FreeKeeps ==
    ASSUME Kept, NEW s, NEW tc \in Slots, Sound(s, tc), free(s, tc)
    PROVE  IInv'
<1>1. blocks + 1 \in Nat /\ held - 1 \in Nat
  BY KeptTypes DEF free
<1>2. QED
  BY <1>1, KeptTypes, Ending DEF free, mail

LEMMA MemoryKeeps ==
    ASSUME Kept, thread_malloc \/ thread_free \/ picoxs_malloc \/ picoxs_free
    PROVE  IInv'
<1>1. /\ entered("OTHER") \in Slots
      /\ Sound(requeue(taken), entered("OTHER"))
      /\ tcb \in Slots /\ Sound(rq, tcb)
  BY Entry, TakenSound, KeptTypes DEF CallType
<1>2. QED
  BY <1>1, AllocKeeps, FreeKeeps
     DEF thread_malloc, thread_free, picoxs_malloc, picoxs_free
-----------------------------------------------------------------------------
(* Message boxes.                                                          *)

LEMMA DeliverKeeps ==
    ASSUME Kept, NEW b \in MsgBox, NEW t \in Thread, NEW q \in Seq(Message), q # <<>>,
           NEW s, NEW tc \in Slots, Sound(s, tc),
           tc[t].func = tcb[t].func, tc[t].priority = tcb[t].priority,
           deliver(b, t, q, s, tc),
           blocks' \in Nat, held' \in Nat, stack' \in [Pools -> Nat]
    PROVE  IInv'
<1>1. CASE tc[t].type # "RECV"
  BY <1>1, Halting DEF deliver, Halts
<1>2. CASE tc[t].type = "RECV"
  <2> DEFINE got == [tc EXCEPT ![t].got = Head(q)]
  <2>1. Head(q) \in Message /\ Tail(q) \in Seq(Message)
    OBVIOUS
  <2>2. got \in [Thread -> Tcb]
    BY <2>1 DEF Tcb, Slots
  <2>3. \A u \in Thread : /\ got[u].func = tc[u].func
                          /\ got[u].priority = tc[u].priority
                          /\ got[u].type = tc[u].type
    BY DEF Tcb, Slots
  <2> HIDE DEF got
  <2>8. got \in Slots /\ tc[t].func
    BY <1>2, <2>2, <2>3 DEF Slots
  <2>4. Sound(s, got)
    BY <2>3, SlotChange
  <2>5. Sound(putcurrent(s, t, tcb[t].priority), got)
    BY <2>2, <2>3, <2>4, <2>8, PutSound
  <2>6. /\ receiver' \in [MsgBox -> Thread \cup {NULL}]
        /\ box' \in [MsgBox -> Seq(Message)]
    BY <1>2, <2>1, KeptTypes DEF deliver
  <2>7. QED
    BY <1>2, <2>8, <2>5, <2>6, Ending DEF deliver, got
<1>3. QED
  BY <1>1, <1>2

LEMMA PostKeeps ==
    ASSUME Kept, NEW b \in MsgBox, NEW m \in Message,
           NEW s, NEW tc \in Slots, Sound(s, tc),
           \A t \in Thread : tc[t].func = tcb[t].func /\ tc[t].priority = tcb[t].priority,
           post(b, m, s, tc)
    PROVE  IInv'
<1>1. CASE blocks = 0
  BY <1>1, Halting DEF post, Halts
<1>2. CASE blocks # 0 /\ receiver[b] = NULL
  <2>1. blocks - 1 \in Nat /\ [box EXCEPT ![b] = Append(@, m)] \in [MsgBox -> Seq(Message)]
    BY <1>2, KeptTypes
  <2>2. /\ box' = [box EXCEPT ![b] = Append(@, m)] /\ blocks' = blocks - 1
        /\ tcb' = tc /\ schedule(s) /\ UNCHANGED <<receiver, held, stack>>
    BY <1>2 DEF post
  <2>3. QED
    BY <2>1, <2>2, KeptTypes, Ending
<1>3. CASE blocks # 0 /\ receiver[b] # NULL
  <2> DEFINE q == Append(box[b], m)
  <2>1. q \in Seq(Message) /\ q # <<>> /\ receiver[b] \in Thread
    BY <1>3, KeptTypes
  <2> HIDE DEF q
  <2>2. deliver(b, receiver[b], q, s, tc) /\ UNCHANGED memory
    BY <1>3 DEF post, q
  <2>3. QED
    BY <2>1, <2>2, KeptTypes, DeliverKeeps DEF memory
<1>4. QED
  BY <1>1, <1>2, <1>3

LEMMA SendKeeps ==
    ASSUME Kept, NEW b \in MsgBox, NEW d \in Data, thread_send(b, d) \/ picoxs_send(b, d)
    PROVE  IInv'
<1>1. /\ entered("OTHER") \in Slots /\ Sound(requeue(taken), entered("OTHER"))
      /\ \A t \in Thread : /\ entered("OTHER")[t].func = tcb[t].func
                           /\ entered("OTHER")[t].priority = tcb[t].priority
  BY Entry, EnteredSlots DEF CallType
<1>2. /\ tcb \in Slots /\ Sound(rq, tcb)
      /\ [from |-> current, data |-> d] \in Message
      /\ [from |-> NULL, data |-> d] \in Message
  BY TakenSound, KeptTypes DEF Message
<1>3. QED
  BY <1>1, <1>2, PostKeeps DEF thread_send, picoxs_send

LEMMA RecvKeeps ==
    ASSUME Kept, NEW b \in MsgBox, thread_recv(b)
    PROVE  IInv'
<1>1. /\ entered("RECV") \in Slots /\ Sound(taken, entered("RECV"))
      /\ entered("RECV")[current].func = tcb[current].func
      /\ entered("RECV")[current].priority = tcb[current].priority
  BY Entry, EnteredSlots, KeptTypes DEF CallType
<1>2. CASE halt("sysdown")
  BY <1>2, Halting DEF Halts
<1>3. CASE /\ receiver' = [receiver EXCEPT ![b] = current]
           /\ tcb' = entered("RECV") /\ schedule(taken)
           /\ UNCHANGED <<box, memory>>
  BY <1>1, <1>3, KeptTypes, Ending DEF memory
<1>4. CASE /\ box[b] # <<>> /\ deliver(b, current, box[b], taken, entered("RECV"))
           /\ blocks' = blocks + 1 /\ UNCHANGED <<held, stack>>
  <2>1. blocks' \in Nat /\ held' \in Nat /\ stack' \in [Pools -> Nat]
        /\ box[b] \in Seq(Message)
    BY <1>4, KeptTypes
  <2>2. QED
    BY <1>1, <1>4, <2>1, KeptTypes, DeliverKeeps
<1>5. QED
  BY <1>2, <1>3, <1>4 DEF thread_recv
-----------------------------------------------------------------------------
LEMMA TimerKeeps ==
    ASSUME Kept, timer_intr
    PROVE  IInv'
<1>1. tcb \in Slots /\ Sound(requeue(taken), tcb)
  BY Entry, KeptTypes DEF CallType
<1>2. QED
  BY <1>1, KeptTypes, Ending DEF timer_intr, mail, memory

(* The state in which picox_start raises the first svc.                    *)
LEMMA InitIInv == Init => IInv
<1> SUFFICES ASSUME Init PROVE IInv
  OBVIOUS
<1>1. 0 \in Thread /\ 0 \in Priority
  BY DEF Thread, Priority
<1>2. TypeOK
  <2>1. tcb \in [Thread -> Tcb]
    BY <1>1, ClearedIsTcb DEF Init, picox_start
  <2>2. rq \in [q : [Priority -> Seq(Thread)], ready : SUBSET Thread]
    BY <1>1 DEF Init, picox_start
  <2>3. stack \in [Pools -> Nat]
    BY SizeAssumption DEF Init, picox_start
  <2>4. QED
    BY <1>1, <2>1, <2>2, <2>3, SizeAssumption DEF Init, picox_start, TypeOK, Halts
<1>3. tcb \in Slots
  BY <1>2 DEF Init, picox_start, TypeOK, Slots, Started, Cleared
<1>4. /\ \A p \in Priority : rq.q[p] = IF p = 0 THEN <<0>> ELSE <<>>
      /\ rq.ready = {0} /\ DOMAIN rq.q = Priority /\ current = 0
      /\ tcb[0] = Started(0)
  BY <1>1 DEF Init, picox_start
<1>5. /\ \A p \in Priority : ToSet(rq.q[p]) = IF p = 0 THEN {0} ELSE {}
      /\ \A p \in Priority : IsInjective(rq.q[p])
  BY <1>4 DEF ToSet, IsInjective
<1>6. FlagsAgree /\ OwnQueue
  <2>1. FlagsAgree
    BY <1>1, <1>4, <1>5 DEF FlagsAgree
  <2>2. live(0) /\ tcb[0].priority = 0
    BY <1>4 DEF live, Started, Cleared
  <2>3. ASSUME NEW p \in Priority
        PROVE  IsInjective(rq.q[p]) /\ \A t \in ToSet(rq.q[p]) : live(t) /\ tcb[t].priority = p
    <3>1. IsInjective(rq.q[p])
      BY <1>5
    <3>2. ASSUME NEW t \in ToSet(rq.q[p]) PROVE t = 0 /\ p = 0
      BY <1>5
    <3> QED BY <2>2, <3>1, <3>2
  <2>4. OwnQueue
    BY <2>3 DEF OwnQueue
  <2> QED BY <2>1, <2>4
<1>7. CurrentIsFirst
  <2>1. ~Idle(rq) /\ TopPriority(rq) = 0
    <3>1. DOMAIN rq.q = 0 .. PRIORITY_NUM - 1 /\ 0 \in DOMAIN rq.q /\ rq.q[0] # <<>>
      <4>1. 0 \in Priority
        BY PriorityAssumption DEF Priority
      <4>2. <<0>> # <<>>
        OBVIOUS
      <4>3. rq.q[0] = <<0>>
        BY <1>4, <4>1, Zenon
      <4>4. DOMAIN rq.q = Priority
        BY <1>4
      <4> QED BY <4>1, <4>2, <4>3, <4>4 DEF Priority
    <3>2. \A p \in DOMAIN rq.q : rq.q[p] # <<>> <=> p = 0
      BY <1>4, <3>1
    <3>3. ~Idle(rq)
      BY <3>1 DEF Idle
    <3>4. \A p \in DOMAIN rq.q :
             (rq.q[p] # <<>> /\ \A o \in DOMAIN rq.q : rq.q[o] # <<>> => p <= o) <=> p = 0
      BY <3>1, <3>2
    <3>5. TopPriority(rq) = 0
      BY <3>1, <3>4, Zenon DEF TopPriority
    <3> QED BY <3>3, <3>5
  <2>2. QED
    BY <1>1, <1>4, <2>1 DEF CurrentIsFirst, first_ready
<1>8. QED
  BY <1>2, <1>3, <1>6, <1>7 DEF IInv, QueueInv

LEMMA NextIInv == IInv /\ [Next]_vars => IInv'
<1> SUFFICES ASSUME IInv, [Next]_vars PROVE IInv'
  OBVIOUS
<1>1. CASE Next
  <2>1. Kept
    BY <1>1 DEF Next, Kept
  <2>2. CASE PlainCall
    BY <2>1, <2>2, ExitKeeps, YieldKeeps, SleepKeeps, ChpriKeeps, MemoryKeeps,
       SendKeeps, RecvKeeps
       DEF PlainCall, thread_wait, thread_getid, thread_setintr, thread_ps
  <2>3. CASE Interrupt
    BY <2>1, <2>3, TimerKeeps, SendKeeps, MemoryKeeps DEF Interrupt
  <2>4. CASE \E kind \in Pools, p \in Priority, n \in Sizes : thread_run(kind, p, n)
    BY <2>1, <2>4, RunKeeps
  <2>5. CASE \E id \in Thread : thread_wakeup(id) \/ picoxs_wakeup(id)
    BY <2>1, <2>5, WakeupKeeps
  <2>6. CASE \E id \in Thread : thread_kill(id)
    BY <2>1, <2>6, KillKeeps
  <2>7. QED
    BY <1>1, <2>2, <2>3, <2>4, <2>5, <2>6 DEF Next
<1>2. CASE UNCHANGED vars
  BY <1>2 DEF vars, IInv, TypeOK, QueueInv, FlagsAgree, OwnQueue, CurrentIsFirst, live,
              Slots
<1>3. QED
  BY <1>1, <1>2

(* Every variable keeps its type: in particular no call ever links a value *)
(* that is not a thread, and neither pool of stacks is overdrawn           *)
(* (kernel.c:168 and 223).                                                 *)
THEOREM TypeCorrect == Spec => []TypeOK
<1>1. IInv => TypeOK
  BY DEF IInv
<1>2. QED
  BY <1>1, InitIInv, NextIInv, PTL DEF Spec

(* Whatever the callers do, links, flags, priorities and the dispatched    *)
(* thread agree (kernel.c:98-143 and every call that uses them).           *)
THEOREM QueuesAgree == Spec => []QueueInv
<1>1. IInv => QueueInv
  BY DEF IInv
<1>2. QED
  BY <1>1, InitIInv, NextIInv, PTL DEF Spec
-----------------------------------------------------------------------------
(* The buffers in boxes, counted.                                          *)
Counted ==
    /\ IsFiniteSet(LinkedIn(box))
    /\ blocks + held + Cardinality(LinkedIn(box)) = MSGBUFS

LEMMA SameLengths ==
    ASSUME NEW x \in [MsgBox -> Seq(Message)], NEW y \in [MsgBox -> Seq(Message)],
           \A c \in MsgBox : Len(y[c]) = Len(x[c])
    PROVE  LinkedIn(y) = LinkedIn(x)
<1>1. \A c \in MsgBox : DOMAIN y[c] = DOMAIN x[c]
  OBVIOUS
<1>2. QED
  BY <1>1 DEF LinkedIn

LEMMA OneLonger ==
    ASSUME NEW x \in [MsgBox -> Seq(Message)], NEW y \in [MsgBox -> Seq(Message)],
           NEW b \in MsgBox, Len(y[b]) = Len(x[b]) + 1,
           \A c \in MsgBox \ {b} : Len(y[c]) = Len(x[c])
    PROVE  /\ IsFiniteSet(LinkedIn(x)) <=> IsFiniteSet(LinkedIn(y))
           /\ IsFiniteSet(LinkedIn(x)) => /\ Cardinality(LinkedIn(x)) \in Nat
                                          /\ Cardinality(LinkedIn(y)) = Cardinality(LinkedIn(x)) + 1
<1>1. PICK n \in Nat : n = Len(x[b])
  OBVIOUS
<1>2. DOMAIN x[b] = 1 .. n /\ DOMAIN y[b] = 1 .. n + 1
  BY <1>1
<1>3. DOMAIN y[b] = DOMAIN x[b] \cup {n + 1} /\ n + 1 \notin DOMAIN x[b]
  BY <1>2
<1>4. \A c \in MsgBox \ {b} : DOMAIN y[c] = DOMAIN x[c]
  OBVIOUS
<1>5. PICK e : e = <<b, n + 1>>
  OBVIOUS
<1>6. \A z : z \in LinkedIn(x) <=> \E c \in MsgBox : \E i \in DOMAIN x[c] : z = <<c, i>>
  BY DEF LinkedIn
<1>7. \A z : z \in LinkedIn(y) <=> \E c \in MsgBox : \E i \in DOMAIN y[c] : z = <<c, i>>
  BY DEF LinkedIn
<1>8. e \notin LinkedIn(x)
  BY <1>3, <1>5, <1>6
<1>9. LinkedIn(y) = LinkedIn(x) \cup {e}
  BY <1>3, <1>4, <1>5, <1>6, <1>7
<1>10. PICK X, Y : X = LinkedIn(x) /\ Y = LinkedIn(y)
  OBVIOUS
<1>11. e \notin X /\ Y = X \cup {e} /\ X = Y \ {e}
  BY <1>8, <1>9, <1>10
<1>12. IsFiniteSet(X) => /\ IsFiniteSet(Y) /\ Cardinality(X) \in Nat
                         /\ Cardinality(Y) = Cardinality(X) + 1
  BY <1>11, FS_AddElement, FS_CardinalityType
<1>13. ASSUME IsFiniteSet(Y) PROVE IsFiniteSet(X)
  <2>1. IsFiniteSet(Y \ {e})
    <3>1. \A S : \A z : IsFiniteSet(S) => IsFiniteSet(S \ {z})
      BY ONLY FS_RemoveElement
    <3> QED BY ONLY <1>13, <3>1
  <2> QED BY <1>11, <2>1
<1>14. QED
  BY <1>10, <1>12, <1>13

LEMMA AllocCounted ==
    ASSUME Kept, Counted, NEW s, NEW tc, alloc(s, tc) \/ free(s, tc)
    PROVE  Counted'
<1>1. CASE halt("sysdown")
  BY <1>1 DEF halt, mail, memory, Counted
<1>2. PICK n : n = Cardinality(LinkedIn(box))
  OBVIOUS
<1>3. /\ IsFiniteSet(LinkedIn(box)) /\ n \in Nat /\ blocks + held + n = MSGBUFS
      /\ blocks \in Nat /\ held \in Nat
  BY <1>2, KeptTypes, FS_CardinalityType DEF Counted
<1>4. CASE /\ box' = box
           /\ \/ blocks' = blocks - 1 /\ held' = held + 1
              \/ blocks' = blocks + 1 /\ held' = held - 1
  <2>1. blocks' + held' + n = MSGBUFS
    BY <1>3, <1>4
  <2>2. QED
    BY <1>2, <1>3, <1>4, <2>1 DEF Counted
<1>5. QED
  BY <1>1, <1>4 DEF alloc, free, mail

(* A message in, or a message out, or both at once.                        *)
LEMMA PostCounted ==
    ASSUME Kept, Counted, NEW b \in MsgBox, NEW m \in Message, NEW s, NEW tc, post(b, m, s, tc)
    PROVE  Counted'
<1>1. /\ box \in [MsgBox -> Seq(Message)] /\ blocks \in Nat /\ held \in Nat
      /\ IsFiniteSet(LinkedIn(box)) /\ Cardinality(LinkedIn(box)) \in Nat
      /\ blocks + held + Cardinality(LinkedIn(box)) = MSGBUFS
  BY KeptTypes, FS_CardinalityType DEF Counted
<1>2. ASSUME NEW why, halt(why) PROVE Counted'
  BY <1>2 DEF halt, mail, memory, Counted
<1>3. PICK q : q = Append(box[b], m)
  OBVIOUS
<1>4. q \in Seq(Message) /\ Len(q) = Len(box[b]) + 1 /\ q # <<>>
  BY <1>1, <1>3
<1>5. CASE /\ box' = [box EXCEPT ![b] = q] /\ blocks' = blocks - 1 /\ UNCHANGED held
  <2>1. PICK y : y = box'
    OBVIOUS
  <2>2. /\ y \in [MsgBox -> Seq(Message)] /\ y[b] = q
        /\ \A c \in MsgBox \ {b} : y[c] = box[c]
    BY <1>1, <1>4, <1>5, <2>1
  <2>3. Len(y[b]) = Len(box[b]) + 1 /\ \A c \in MsgBox \ {b} : Len(y[c]) = Len(box[c])
    BY <1>4, <2>2
  <2>4. /\ IsFiniteSet(LinkedIn(y))
        /\ Cardinality(LinkedIn(y)) = Cardinality(LinkedIn(box)) + 1
    BY <1>1, <2>2, <2>3, OneLonger
  <2>5. QED
    BY <1>1, <1>5, <2>1, <2>4 DEF Counted
<1>6. CASE /\ box' = [box EXCEPT ![b] = Tail(q)] /\ UNCHANGED <<blocks, held>>
  <2>1. PICK y : y = box'
    OBVIOUS
  <2>2. Tail(q) \in Seq(Message) /\ Len(Tail(q)) = Len(box[b])
    BY <1>1, <1>4, HeadTailProperties
  <2>3. /\ y \in [MsgBox -> Seq(Message)] /\ y[b] = Tail(q)
        /\ \A c \in MsgBox \ {b} : y[c] = box[c]
    BY <1>1, <1>6, <2>1, <2>2
  <2>4. \A c \in MsgBox : Len(y[c]) = Len(box[c])
    BY <2>2, <2>3
  <2>5. LinkedIn(y) = LinkedIn(box)
    BY <1>1, <2>3, <2>4, SameLengths
  <2>6. QED
    BY <1>1, <1>6, <2>1, <2>5 DEF Counted
<1>7. QED
  BY <1>2, <1>3, <1>5, <1>6 DEF post, deliver, memory

LEMMA RecvCounted ==
    ASSUME Kept, Counted, NEW b \in MsgBox, thread_recv(b)
    PROVE  Counted'
<1>1. /\ box \in [MsgBox -> Seq(Message)] /\ blocks \in Nat /\ held \in Nat
      /\ IsFiniteSet(LinkedIn(box)) /\ Cardinality(LinkedIn(box)) \in Nat
      /\ blocks + held + Cardinality(LinkedIn(box)) = MSGBUFS
  BY KeptTypes, FS_CardinalityType DEF Counted
<1>2. CASE UNCHANGED <<box, blocks, held>>
  BY <1>2 DEF Counted
<1>3. CASE /\ box[b] # <<>> /\ box' = [box EXCEPT ![b] = Tail(box[b])]
           /\ blocks' = blocks + 1 /\ UNCHANGED held
  <2>1. PICK y, q : y = box' /\ q = box[b]
    OBVIOUS
  <2>2. Tail(q) \in Seq(Message) /\ Len(q) = Len(Tail(q)) + 1
    BY <1>1, <1>3, <2>1, HeadTailProperties
  <2>3. /\ y \in [MsgBox -> Seq(Message)] /\ y[b] = Tail(q)
        /\ \A c \in MsgBox \ {b} : y[c] = box[c]
    BY <1>1, <1>3, <2>1, <2>2
  <2>4. Len(box[b]) = Len(y[b]) + 1 /\ \A c \in MsgBox \ {b} : Len(box[c]) = Len(y[c])
    BY <2>1, <2>2, <2>3
  <2>5. /\ IsFiniteSet(LinkedIn(y)) /\ Cardinality(LinkedIn(y)) \in Nat
        /\ Cardinality(LinkedIn(box)) = Cardinality(LinkedIn(y)) + 1
    BY <1>1, <2>3, <2>4, OneLonger
  <2>6. QED
    BY <1>1, <1>3, <2>1, <2>5 DEF Counted
<1>4. QED
  BY <1>2, <1>3 DEF thread_recv, halt, deliver, mail, memory

LEMMA InitCounted == Init => Counted
<1> SUFFICES ASSUME Init PROVE Counted
  OBVIOUS
<1>1. box = [b \in MsgBox |-> <<>>] /\ blocks = MSGBUFS /\ held = 0
  BY DEF Init, picox_start
<1>2. LinkedIn(box) = {}
  BY <1>1 DEF LinkedIn
<1>3. IsFiniteSet({}) /\ Cardinality({}) = 0
  BY ONLY FS_EmptySet
<1>4. MSGBUFS \in Nat
  BY SizeAssumption
<1>5. blocks + held + 0 = MSGBUFS
  BY ONLY <1>1, <1>4
<1>6. QED
  BY <1>2, <1>3, <1>5 DEF Counted

LEMMA NextCounted == IInv /\ Counted /\ [Next]_vars => Counted'
<1> SUFFICES ASSUME IInv, Counted, [Next]_vars PROVE Counted'
  OBVIOUS
<1>1. ASSUME UNCHANGED <<box, blocks, held>> PROVE Counted'
  BY <1>1 DEF Counted
<1>2. CASE Next
  <2>1. Kept /\ current \in Thread
    BY <1>2 DEF Next, Kept, IInv, TypeOK
  <2>2. ASSUME NEW b \in MsgBox, NEW d \in Data, thread_send(b, d) \/ picoxs_send(b, d)
        PROVE  Counted'
    <3>1. [from |-> current, data |-> d] \in Message /\ [from |-> NULL, data |-> d] \in Message
      BY <2>1 DEF Message
    <3>2. QED
      BY <2>1, <2>2, <3>1, PostCounted DEF thread_send, picoxs_send
  <2>3. ASSUME thread_malloc \/ thread_free \/ picoxs_malloc \/ picoxs_free
        PROVE  Counted'
    BY <2>1, <2>3, AllocCounted DEF thread_malloc, thread_free, picoxs_malloc, picoxs_free
  <2>4. ASSUME thread_exit \/ yield \/ thread_sleep \/ timer_intr PROVE Counted'
    BY <1>1, <2>4 DEF thread_exit, yield, thread_sleep, timer_intr, mail, memory
  <2>5. CASE PlainCall
    <3>1. ASSUME NEW p \in Priority, thread_chpri(p) PROVE Counted'
      BY <1>1, <3>1 DEF thread_chpri, mail, memory
    <3>2. QED
      BY <2>1, <2>2, <2>3, <2>4, <2>5, <3>1, RecvCounted
         DEF PlainCall, thread_wait, thread_getid, thread_setintr, thread_ps
  <2>6. CASE Interrupt
    BY <2>2, <2>3, <2>4, <2>6 DEF Interrupt
  <2>7. ASSUME NEW kind \in Pools, NEW p \in Priority, NEW n \in Sizes, thread_run(kind, p, n)
        PROVE  Counted'
    BY <1>1, <2>7 DEF thread_run, mail, memory
  <2>8. ASSUME NEW id \in Thread, thread_wakeup(id) \/ picoxs_wakeup(id) \/ thread_kill(id)
        PROVE  Counted'
    <3>1. UNCHANGED <<box, blocks, held>>
      BY <2>8 DEF thread_wakeup, picoxs_wakeup, wake, thread_kill, halt, mail, memory
    <3>2. QED
      BY <1>1, <3>1
  <2>9. QED
    BY <1>2, <2>5, <2>6, <2>7, <2>8 DEF Next
<1>3. CASE UNCHANGED vars
  BY <1>1, <1>3 DEF vars
<1>4. QED
  BY <1>2, <1>3

(* Every block of the pool is free, held or a buffer in a box, whatever is *)
(* sent, received, allocated or freed and whoever waits (sendmsg, recvmsg, *)
(* thread_malloc, thread_free and the service calls).                      *)
THEOREM BlocksConserved == Spec => []Conservation
<1>1. Init => IInv /\ Counted
  BY InitIInv, InitCounted
<1>2. IInv /\ Counted /\ [Next]_vars => (IInv /\ Counted)'
  BY NextIInv, NextCounted
<1>3. IInv /\ Counted => Conservation
  BY DEF Counted, Conservation
<1>4. QED
  BY <1>1, <1>2, <1>3, PTL DEF Spec
-----------------------------------------------------------------------------
(***************************************************************************)
(* With callers that respect what the kernel does not check, nobody falls  *)
(* out of the scheduler, a recorded receiver really waits in that box, and *)
(* no cleared slot is queued: for any number of threads, boxes, messages.  *)
(*                                                                         *)
(* BoxInv, NoLostThread and NoWreck are inductive together, on top of      *)
(* IInv: a receiver is in no queue, so the caller never is one, and the    *)
(* calls that name another thread are respected.                           *)
(***************************************************************************)
Careful == BoxInv /\ NoLostThread /\ NoWreck

-----------------------------------------------------------------------------
(* A receiver is live, in no queue, and therefore not the caller.          *)
LEMMA WaitersAreIdle ==
    ASSUME Kept, Careful, NEW t \in Thread, waiting(t)
    PROVE  live(t) /\ t \notin rq.ready /\ t # current
BY TakenSound DEF Careful, BoxInv, waiting

(* A halt of a careful system is a sysdown.                                *)
LEMMA CarefulHalt ==
    ASSUME Careful, halt("sysdown")
    PROVE  Careful'
BY DEF halt, mail, memory, Careful, BoxInv, NoLostThread, NoWreck, live, waiting

(* Calls that leave the boxes alone: waiting threads keep their slot and   *)
(* stay out of the queues, and a thread may only leave the queues by       *)
(* ending or going to sleep.                                               *)
LEMMA MailUntouched ==
    ASSUME Kept, Careful, UNCHANGED mail, halted' \in {"no", "sysdown"},
           \A t \in Thread : waiting(t) =>
               t \notin rq'.ready /\ tcb'[t].func = tcb[t].func /\ tcb'[t].type = tcb[t].type,
           \A t \in Thread : tcb'[t].func =>
               \/ t \in rq'.ready
               \/ tcb'[t].type = "SLEEP"
               \/ live(t) /\ t \notin rq.ready /\ tcb'[t].type = tcb[t].type
    PROVE  Careful'
<1>1. receiver' = receiver /\ box' = box
  BY DEF mail
<1>2. \A b \in MsgBox : receiver[b] # NULL => receiver[b] \in Thread /\ waiting(receiver[b])
  BY KeptTypes DEF waiting
<1>3. BoxInv'
  BY <1>1, <1>2 DEF Careful, BoxInv, live
<1>4. NoLostThread'
  <2> SUFFICES ASSUME NEW t \in Thread, tcb'[t].func
               PROVE  \/ t \in rq'.ready
                      \/ \E b \in MsgBox : receiver[b] = t
                      \/ tcb'[t].type = "SLEEP"
    BY <1>1 DEF NoLostThread, live, waiting
  <2>1. CASE live(t) /\ t \notin rq.ready /\ tcb'[t].type = tcb[t].type
    BY <2>1 DEF Careful, NoLostThread, waiting
  <2>2. QED
    BY <2>1
<1>5. NoWreck'
  BY DEF NoWreck
<1>6. QED
  BY <1>3, <1>4, <1>5 DEF Careful
-----------------------------------------------------------------------------
LEMMA CarefulRun ==
    ASSUME Kept, Careful, NEW kind \in Pools, NEW pri \in Priority, NEW size \in Sizes,
           room(kind, size), FreeSlots # {}, thread_run(kind, pri, size)
    PROVE  Careful'
<1>1. /\ tcb' = [entered("OTHER") EXCEPT ![FreeSlot] = Started(pri)]
      /\ schedule(putcurrent(requeue(taken), FreeSlot, pri)) /\ UNCHANGED mail
  BY DEF thread_run, mail
<1>2. FreeSlot \in Thread /\ ~live(FreeSlot)
  BY FreeSlotIsFree
<1>3. /\ entered("OTHER") \in Slots /\ requeue(taken).ready = rq.ready
      /\ \A t \in Thread : entered("OTHER")[t].func = tcb[t].func
      /\ \A t \in Thread \ {current} : entered("OTHER")[t] = tcb[t]
  BY Entry, EnteredSlots DEF CallType
<1>4. rq'.ready = rq.ready \cup {FreeSlot} /\ halted' \in {"no", "sysdown"}
  BY <1>1, <1>2, <1>3, Rescheduled, PutReady
<1>5. \A t \in Thread \ {FreeSlot} : tcb'[t] = entered("OTHER")[t]
  BY <1>1, <1>2, <1>3 DEF Slots
<1>6. current \in rq.ready
  BY TakenSound
<1>7. ASSUME NEW t \in Thread, waiting(t)
      PROVE  t \notin rq'.ready /\ tcb'[t].func = tcb[t].func /\ tcb'[t].type = tcb[t].type
  BY <1>2, <1>3, <1>4, <1>5, <1>7, WaitersAreIdle
<1>8. ASSUME NEW t \in Thread, tcb'[t].func
      PROVE  \/ t \in rq'.ready
             \/ live(t) /\ t \notin rq.ready /\ tcb'[t].type = tcb[t].type
  BY <1>3, <1>4, <1>5, <1>6, <1>8 DEF live
<1>9. QED
  BY <1>1, <1>4, <1>7, <1>8, MailUntouched

(* Calls that change at most the caller's slot, whose type they set.       *)
LEMMA CallerOnly ==
    ASSUME Kept, Careful, UNCHANGED mail, NEW s, schedule(s),
           \A t \in Thread \ {current} : tcb'[t] = tcb[t],
           \/ s.ready = rq.ready
           \/ s.ready = rq.ready \ {current} /\ (tcb'[current].type = "SLEEP" \/ ~tcb'[current].func)
    PROVE  Careful'
<1>1. rq'.ready = s.ready /\ halted' \in {"no", "sysdown"} /\ current \in rq.ready
  BY Rescheduled, TakenSound
<1>2. ASSUME NEW t \in Thread, waiting(t)
      PROVE  t \notin rq'.ready /\ tcb'[t].func = tcb[t].func /\ tcb'[t].type = tcb[t].type
  BY <1>1, <1>2, WaitersAreIdle
<1>3. ASSUME NEW t \in Thread, tcb'[t].func
      PROVE  \/ t \in rq'.ready
             \/ tcb'[t].type = "SLEEP"
             \/ live(t) /\ t \notin rq.ready /\ tcb'[t].type = tcb[t].type
  BY <1>1, <1>3 DEF live
<1>4. QED
  BY <1>1, <1>2, <1>3, MailUntouched

LEMMA CarefulCallerOnly ==
    ASSUME Kept, Careful,
           \/ thread_exit \/ yield \/ thread_sleep \/ timer_intr
           \/ thread_malloc \/ thread_free \/ picoxs_malloc \/ picoxs_free
           \/ \E p \in Priority : thread_chpri(p)
    PROVE  Careful'
<1>1. /\ entered("OTHER") \in Slots /\ entered("SLEEP") \in Slots
      /\ \A t \in Thread \ {current} :
           entered("OTHER")[t] = tcb[t] /\ entered("SLEEP")[t] = tcb[t]
      /\ entered("SLEEP")[current].type = "SLEEP"
      /\ requeue(taken).ready = rq.ready
  BY Entry, EnteredSlots DEF CallType
<1>2. taken.ready = rq.ready \ {current} /\ current \in rq.ready /\ current \in Thread
  BY TakenSound
<1>3. CASE thread_exit
  <2>1. ~[tcb EXCEPT ![current] = Cleared][current].func
    BY <1>2, KeptTypes DEF Cleared
  <2>2. QED
    BY <1>2, <1>3, <2>1, KeptTypes, CallerOnly DEF thread_exit
<1>4. CASE yield
  BY <1>1, <1>4, CallerOnly DEF yield
<1>5. CASE thread_sleep
  BY <1>1, <1>2, <1>5, CallerOnly DEF thread_sleep
<1>6. CASE timer_intr
  BY <1>1, <1>6, CallerOnly DEF timer_intr
<1>7. CASE thread_malloc \/ thread_free
  BY <1>1, <1>7, CarefulHalt, CallerOnly DEF thread_malloc, thread_free, alloc, free
<1>8. CASE picoxs_malloc \/ picoxs_free
  BY <1>8, CarefulHalt, CallerOnly DEF picoxs_malloc, picoxs_free, alloc, free
<1>9. ASSUME NEW p \in Priority, thread_chpri(p) PROVE Careful'
  <2> DEFINE new == IF p > 0 THEN p ELSE tcb[current].priority
  <2>1. /\ tcb' = [entered("OTHER") EXCEPT ![current].priority = new]
        /\ schedule(putcurrent(taken, current, new)) /\ UNCHANGED mail
    BY <1>9 DEF thread_chpri
  <2> HIDE DEF new
  <2>2. putcurrent(taken, current, new).ready = rq.ready
    <3>1. putcurrent(taken, current, new).ready = taken.ready \cup {current}
      BY <1>2, PutReady
    <3>2. QED
      BY <1>2, <3>1
  <2>3. \A t \in Thread \ {current} : tcb'[t] = tcb[t]
    BY <1>1, <2>1 DEF Slots
  <2>4. QED
    BY <2>1, <2>2, <2>3, CallerOnly
<1>10. QED
  BY <1>3, <1>4, <1>5, <1>6, <1>7, <1>8, <1>9

LEMMA CarefulWake ==
    ASSUME Kept, Careful, NEW id \in Thread, Respected(id),
           thread_wakeup(id) \/ picoxs_wakeup(id)
    PROVE  Careful'
<1>1. /\ \A t \in Thread : entered("OTHER")[t].func = tcb[t].func
      /\ \A t \in Thread \ {current} : entered("OTHER")[t] = tcb[t]
      /\ requeue(taken).ready = rq.ready /\ current \in rq.ready
  BY Entry, EnteredSlots, TakenSound DEF CallType
<1>2. /\ UNCHANGED mail /\ tcb' \in {entered("OTHER"), tcb}
      /\ \/ schedule(putcurrent(requeue(taken), id, tcb[id].priority))
         \/ schedule(putcurrent(rq, id, tcb[id].priority))
  BY DEF Respected, thread_wakeup, picoxs_wakeup, wake
<1>3. rq'.ready = rq.ready \cup {id} /\ halted' \in {"no", "sysdown"}
  BY <1>1, <1>2, Rescheduled, PutReady
<1>4. ASSUME NEW t \in Thread, waiting(t)
      PROVE  t \notin rq'.ready /\ tcb'[t].func = tcb[t].func /\ tcb'[t].type = tcb[t].type
  BY <1>1, <1>2, <1>3, <1>4, WaitersAreIdle DEF Respected
<1>5. ASSUME NEW t \in Thread, tcb'[t].func
      PROVE  \/ t \in rq'.ready
             \/ live(t) /\ t \notin rq.ready /\ tcb'[t].type = tcb[t].type
  BY <1>1, <1>2, <1>3, <1>5 DEF live
<1>6. QED
  BY <1>2, <1>3, <1>4, <1>5, MailUntouched

LEMMA CarefulKill ==
    ASSUME Kept, Careful, NEW id \in Thread, Respected(id), id # current, thread_kill(id)
    PROVE  Careful'
<1> DEFINE s == readyque_remove(taken, id, tcb[id].priority)
<1>1. /\ tcb' = [entered("OTHER") EXCEPT ![id] = Cleared]
      /\ schedule(requeue(s)) /\ UNCHANGED mail
  BY DEF thread_kill, Respected
<1>2. /\ entered("OTHER") \in Slots
      /\ \A t \in Thread \ {current} : entered("OTHER")[t] = tcb[t]
      /\ Sound(taken, tcb) /\ taken.ready = rq.ready \ {current}
      /\ current \in rq.ready /\ current \in Thread
  BY Entry, EnteredSlots, TakenSound DEF CallType
<1>3. HomeIn(tcb)[id] = tcb[id].priority /\ HomeIn(tcb)[id] \in Priority
  BY KeptTypes DEF HomeIn, Tcb
<1>4. Sound(s, tcb) /\ s.ready = taken.ready \ {id}
  BY <1>2, <1>3, RemoveAgrees DEF Sound
<1> HIDE DEF s
<1>5. rq'.ready = rq.ready \ {id} /\ halted' \in {"no", "sysdown"}
  BY <1>1, <1>2, <1>4, RequeueSound, Rescheduled
<1>6. /\ \A t \in Thread \ {id} : tcb'[t] = entered("OTHER")[t]
      /\ ~tcb'[id].func
  BY <1>1, <1>2 DEF Slots, Cleared
<1>7. ASSUME NEW t \in Thread, waiting(t)
      PROVE  t \notin rq'.ready /\ tcb'[t].func = tcb[t].func /\ tcb'[t].type = tcb[t].type
  BY <1>2, <1>5, <1>6, <1>7, WaitersAreIdle DEF Respected
<1>8. ASSUME NEW t \in Thread, tcb'[t].func
      PROVE  \/ t \in rq'.ready
             \/ live(t) /\ t \notin rq.ready /\ tcb'[t].type = tcb[t].type
  BY <1>2, <1>5, <1>6, <1>8 DEF live
<1>9. QED
  BY <1>1, <1>5, <1>7, <1>8, MailUntouched
-----------------------------------------------------------------------------
(* A receiver that is handed a message is queued and its box forgets it.   *)
LEMMA CarefulDeliver ==
    ASSUME Kept, Careful, NEW b \in MsgBox, NEW t \in Thread, NEW q \in Seq(Message),
           NEW s, NEW tc \in Slots, deliver(b, t, q, s, tc),
           tc[t].type = "RECV", receiver[b] \in {t, NULL}, s.ready \cup {t} = rq.ready \cup {t},
           \A o \in MsgBox \ {b} : receiver[o] # t,
           \A u \in Thread : tc[u].func = tcb[u].func,
           \A u \in Thread \ {current} : tc[u] = tcb[u]
    PROVE  Careful'
<1>1. /\ box' = [box EXCEPT ![b] = Tail(q)]
      /\ tcb' = [tc EXCEPT ![t].got = Head(q)]
      /\ receiver' = [receiver EXCEPT ![b] = NULL]
      /\ schedule(putcurrent(s, t, tcb[t].priority))
  BY DEF deliver
<1>2. rq'.ready = rq.ready \cup {t} /\ halted' \in {"no", "sysdown"}
  <2>1. putcurrent(s, t, tcb[t].priority).ready = s.ready \cup {t}
    BY PutReady
  <2>2. QED
    BY <1>1, <2>1, Rescheduled
<1>3. /\ \A o \in MsgBox \ {b} : receiver'[o] = receiver[o] /\ box'[o] = box[o]
      /\ receiver'[b] = NULL
  BY <1>1, KeptTypes
<1>4. \A u \in Thread : tcb'[u].func = tcb[u].func /\ tcb'[u].type = tc[u].type
  BY <1>1 DEF Slots, Tcb
<1>5. BoxInv'
  <2> SUFFICES ASSUME NEW o \in MsgBox, receiver'[o] # NULL
               PROVE  /\ box'[o] = <<>>
                      /\ tcb'[receiver'[o]].func
                      /\ receiver'[o] \notin rq'.ready
                      /\ tcb'[receiver'[o]].type = "RECV"
                      /\ \A x \in MsgBox \ {o} : receiver'[x] # receiver'[o]
    BY DEF BoxInv, live
  <2>1. o # b /\ receiver'[o] = receiver[o] /\ box'[o] = box[o]
    BY <1>3
  <2>2. receiver[o] \in Thread /\ receiver[o] # t /\ waiting(receiver[o])
    BY <2>1, KeptTypes DEF waiting
  <2>3. /\ live(receiver[o]) /\ receiver[o] \notin rq.ready /\ receiver[o] # current
        /\ box[o] = <<>> /\ tcb[receiver[o]].type = "RECV"
        /\ \A x \in MsgBox \ {o} : receiver[x] # receiver[o]
    BY <2>1, <2>2, WaitersAreIdle DEF Careful, BoxInv
  <2>4. \A x \in MsgBox \ {o} : receiver'[x] # receiver'[o]
    BY <1>3, <2>1, <2>3
  <2>5. QED
    BY <1>2, <1>4, <2>1, <2>2, <2>3, <2>4 DEF live
<1>6. NoLostThread'
  <2> SUFFICES ASSUME NEW u \in Thread, tcb'[u].func
               PROVE  \/ u \in rq'.ready
                      \/ \E o \in MsgBox : receiver'[o] = u
                      \/ tcb'[u].type = "SLEEP"
    BY DEF NoLostThread, live, waiting
  <2>1. CASE u \in rq.ready \/ u = t
    BY <1>2, <2>1
  <2>2. CASE u \notin rq.ready /\ u # t
    <3>1. u # current /\ live(u) /\ tc[u] = tcb[u]
      BY <1>4, <2>2, TakenSound DEF live
    <3>2. waiting(u) \/ tcb[u].type = "SLEEP"
      BY <2>2, <3>1 DEF Careful, NoLostThread
    <3>3. CASE waiting(u)
      <4>1. PICK o \in MsgBox : receiver[o] = u
        BY <3>3 DEF waiting
      <4>2. o # b
        BY <2>2, <4>1
      <4>3. QED
        BY <1>3, <4>1, <4>2
    <3>4. QED
      BY <1>4, <3>1, <3>2, <3>3
  <2>3. QED
    BY <2>1, <2>2
<1>7. QED
  BY <1>2, <1>5, <1>6 DEF Careful, NoWreck

(* The slots are as the handler's first step leaves them, or untouched.    *)
LEMMA CarefulPost ==
    ASSUME Kept, Careful, NEW b \in MsgBox, NEW m \in Message,
           NEW s, s.ready = rq.ready, NEW tc \in Slots, post(b, m, s, tc),
           \A u \in Thread : tc[u].func = tcb[u].func,
           \A u \in Thread \ {current} : tc[u] = tcb[u]
    PROVE  Careful'
<1>1. CASE blocks = 0
  BY <1>1, CarefulHalt DEF post
<1>2. CASE blocks # 0 /\ receiver[b] = NULL
  <2>1. /\ box' = [box EXCEPT ![b] = Append(@, m)] /\ receiver' = receiver
        /\ tcb' = tc /\ schedule(s)
    BY <1>2 DEF post
  <2>2. rq'.ready = rq.ready /\ halted' \in {"no", "sysdown"}
    BY <2>1, Rescheduled
  <2>3. BoxInv'
    <3> SUFFICES ASSUME NEW o \in MsgBox, receiver[o] # NULL
                 PROVE  /\ box'[o] = <<>>
                        /\ tcb'[receiver[o]].func
                        /\ receiver[o] \notin rq'.ready
                        /\ tcb'[receiver[o]].type = "RECV"
                        /\ \A x \in MsgBox \ {o} : receiver[x] # receiver[o]
      BY <2>1 DEF BoxInv, live
    <3>1. receiver[o] \in Thread /\ waiting(receiver[o])
      BY KeptTypes DEF waiting
    <3>2. receiver[o] \notin rq.ready /\ receiver[o] # current /\ live(receiver[o])
      BY <3>1, WaitersAreIdle
    <3>3. box'[o] = box[o]
      BY <1>2, <2>1, KeptTypes
    <3>4. QED
      BY <2>1, <2>2, <3>1, <3>2, <3>3 DEF Careful, BoxInv, live
  <2>4. NoLostThread'
    <3> SUFFICES ASSUME NEW u \in Thread, tc[u].func
                 PROVE  \/ u \in rq'.ready
                        \/ \E o \in MsgBox : receiver[o] = u
                        \/ tc[u].type = "SLEEP"
      BY <2>1 DEF NoLostThread, live, waiting
    <3>1. CASE u \in rq.ready
      BY <2>2, <3>1
    <3>2. CASE u \notin rq.ready
      <4>1. u # current /\ tc[u] = tcb[u] /\ live(u)
        BY <3>2, TakenSound DEF live
      <4>2. QED
        BY <3>2, <4>1 DEF Careful, NoLostThread, waiting
    <3>3. QED
      BY <3>1, <3>2
  <2>5. QED
    BY <2>2, <2>3, <2>4 DEF Careful, NoWreck
<1>3. CASE blocks # 0 /\ receiver[b] # NULL
  <2> DEFINE t == receiver[b]
             q == Append(box[b], m)
  <2>1. /\ box[b] \in Seq(Message) /\ t \in Thread /\ tcb[t].type = "RECV"
        /\ \A o \in MsgBox \ {b} : receiver[o] # t
    BY <1>3, KeptTypes DEF Careful, BoxInv
  <2>2. t # current
    BY <1>3, <2>1, WaitersAreIdle DEF waiting
  <2>3. q \in Seq(Message) /\ deliver(b, t, q, s, tc)
    BY <1>3, <2>1 DEF post
  <2>4. tc[t].type = "RECV" /\ receiver[b] \in {t, NULL}
    BY <2>1, <2>2
  <2>5. s.ready \cup {t} = rq.ready \cup {t}
    OBVIOUS
  <2> HIDE DEF t, q
  <2>6. QED
    BY <2>1, <2>3, <2>4, <2>5, CarefulDeliver
<1>4. QED
  BY <1>1, <1>2, <1>3

LEMMA CarefulSend ==
    ASSUME Kept, Careful, NEW b \in MsgBox, NEW d \in Data,
           thread_send(b, d) \/ picoxs_send(b, d)
    PROVE  Careful'
<1>1. /\ entered("OTHER") \in Slots /\ requeue(taken).ready = rq.ready
      /\ \A t \in Thread : entered("OTHER")[t].func = tcb[t].func
      /\ \A t \in Thread \ {current} : entered("OTHER")[t] = tcb[t]
  BY Entry, EnteredSlots DEF CallType
<1>2. /\ tcb \in Slots
      /\ [from |-> current, data |-> d] \in Message
      /\ [from |-> NULL, data |-> d] \in Message
  BY KeptTypes DEF Message
<1>3. QED
  BY <1>1, <1>2, CarefulPost DEF thread_send, picoxs_send

LEMMA CarefulRecv ==
    ASSUME Kept, Careful, NEW b \in MsgBox, thread_recv(b)
    PROVE  Careful'
<1>1. /\ entered("RECV") \in Slots
      /\ \A t \in Thread : entered("RECV")[t].func = tcb[t].func
      /\ \A t \in Thread \ {current} : entered("RECV")[t] = tcb[t]
      /\ entered("RECV")[current].type = "RECV"
  BY Entry, EnteredSlots DEF CallType
<1>2. /\ taken.ready = rq.ready \ {current} /\ current \in rq.ready
      /\ current \in Thread /\ live(current)
  BY TakenSound
<1>3. \A o \in MsgBox : receiver[o] # current
  BY <1>2, WaitersAreIdle DEF waiting
<1>4. CASE receiver[b] # NULL /\ halt("sysdown")
  BY <1>4, CarefulHalt
<1>5. CASE /\ receiver[b] = NULL /\ box[b] = <<>>
           /\ receiver' = [receiver EXCEPT ![b] = current]
           /\ tcb' = entered("RECV") /\ schedule(taken)
           /\ UNCHANGED <<box, memory>>
  <2>1. rq'.ready = rq.ready \ {current} /\ halted' \in {"no", "sysdown"}
    BY <1>2, <1>5, Rescheduled
  <2>2. receiver'[b] = current /\ \A o \in MsgBox \ {b} : receiver'[o] = receiver[o]
    BY <1>5, KeptTypes
  <2>3. BoxInv'
    <3> SUFFICES ASSUME NEW o \in MsgBox, receiver'[o] # NULL
                 PROVE  /\ box[o] = <<>>
                        /\ tcb'[receiver'[o]].func
                        /\ receiver'[o] \notin rq'.ready
                        /\ tcb'[receiver'[o]].type = "RECV"
                        /\ \A x \in MsgBox \ {o} : receiver'[x] # receiver'[o]
      BY <1>5 DEF BoxInv, live
    <3>1. CASE o = b
      BY <1>1, <1>2, <1>3, <1>5, <2>1, <2>2, <3>1 DEF live
    <3>2. CASE o # b
      <4>1. receiver'[o] = receiver[o] /\ receiver[o] \in Thread /\ waiting(receiver[o])
        BY <2>2, <3>2, KeptTypes DEF waiting
      <4>2. receiver[o] \notin rq.ready /\ receiver[o] # current /\ live(receiver[o])
        BY <4>1, WaitersAreIdle
      <4>3. \A x \in MsgBox \ {o} : receiver'[x] # receiver'[o]
        BY <2>2, <4>1, <4>2 DEF Careful, BoxInv
      <4>4. QED
        BY <1>1, <1>5, <2>1, <4>1, <4>2, <4>3 DEF Careful, BoxInv, live
    <3>3. QED
      BY <3>1, <3>2
  <2>4. NoLostThread'
    <3> SUFFICES ASSUME NEW u \in Thread, tcb'[u].func
                 PROVE  \/ u \in rq'.ready
                        \/ \E o \in MsgBox : receiver'[o] = u
                        \/ tcb'[u].type = "SLEEP"
      BY DEF NoLostThread, live, waiting
    <3>1. CASE u = current
      BY <2>2, <3>1
    <3>2. CASE u # current
      <4>1. tcb'[u] = tcb[u] /\ live(u)
        BY <1>1, <1>5, <3>2 DEF live
      <4>2. u \in rq.ready \/ waiting(u) \/ tcb[u].type = "SLEEP"
        BY <4>1 DEF Careful, NoLostThread
      <4>3. ASSUME waiting(u) PROVE \E o \in MsgBox : receiver'[o] = u
        <5>1. PICK o \in MsgBox : receiver[o] = u
          BY <4>3 DEF waiting
        <5>2. o # b
          BY <1>5, <5>1
        <5>3. QED
          BY <2>2, <5>1, <5>2
      <4>4. QED
        BY <2>1, <3>2, <4>1, <4>2, <4>3
    <3>3. QED
      BY <3>1, <3>2
  <2>5. QED
    BY <2>1, <2>3, <2>4 DEF Careful, NoWreck
<1>6. CASE /\ receiver[b] = NULL
           /\ deliver(b, current, box[b], taken, entered("RECV"))
  <2>1. box[b] \in Seq(Message) /\ receiver[b] \in {current, NULL}
    BY <1>6, KeptTypes
  <2>2. taken.ready \cup {current} = rq.ready \cup {current}
    BY <1>2
  <2>3. QED
    BY <1>1, <1>2, <1>3, <1>6, <2>1, <2>2, CarefulDeliver
<1>7. QED
  BY <1>4, <1>5, <1>6 DEF thread_recv
-----------------------------------------------------------------------------
LEMMA InitCareful == Init => Careful
<1> SUFFICES ASSUME Init PROVE Careful
  OBVIOUS
<1>1. /\ \A b \in MsgBox : receiver[b] = NULL
      /\ \A t \in Thread : tcb[t] = IF t = 0 THEN Started(0) ELSE Cleared
      /\ rq.ready = {0} /\ halted = "no"
  BY DEF Init, picox_start
<1>2. \A t \in Thread : live(t) => t = 0
  BY <1>1 DEF live, Cleared
<1>3. QED
  BY <1>1, <1>2 DEF Careful, BoxInv, NoLostThread, NoWreck

(* A careful step is a step of the kernel.                                 *)
LEMMA CarefulIsNext == CarefulNext => Next
BY DEF CarefulNext, Next

LEMMA NextCareful == IInv /\ Careful /\ [CarefulNext]_vars => Careful'
<1> SUFFICES ASSUME IInv, Careful, [CarefulNext]_vars PROVE Careful'
  OBVIOUS
<1>1. CASE CarefulNext
  <2>1. Kept
    BY <1>1 DEF CarefulNext, Kept
  <2>2. CASE PlainCall
    BY <2>1, <2>2, CarefulCallerOnly, CarefulSend, CarefulRecv
       DEF PlainCall, thread_wait, thread_getid, thread_setintr, thread_ps
  <2>3. CASE Interrupt
    BY <2>1, <2>3, CarefulCallerOnly, CarefulSend DEF Interrupt
  <2>4. CASE \E kind \in Pools, p \in Priority, n \in Sizes :
                room(kind, n) /\ FreeSlots # {} /\ thread_run(kind, p, n)
    BY <2>1, <2>4, CarefulRun
  <2>5. CASE \E id \in Thread : Respected(id) /\ (thread_wakeup(id) \/ picoxs_wakeup(id))
    BY <2>1, <2>5, CarefulWake
  <2>6. CASE \E id \in Thread : Respected(id) /\ id # current /\ thread_kill(id)
    BY <2>1, <2>6, CarefulKill
  <2>7. QED
    BY <1>1, <2>2, <2>3, <2>4, <2>5, <2>6 DEF CarefulNext
<1>2. CASE UNCHANGED vars
  BY <1>2 DEF vars, Careful, BoxInv, NoLostThread, NoWreck, live, waiting
<1>3. QED
  BY <1>1, <1>2

LEMMA CarefulInductive == CarefulSpec => [](IInv /\ Careful)
<1>1. IInv /\ [CarefulNext]_vars => IInv'
  BY CarefulIsNext, NextIInv
<1>2. QED
  BY <1>1, InitIInv, NextIInv, InitCareful, NextCareful, PTL DEF CarefulSpec

(* A recorded receiver is blocked in recv on that box alone, so recvmsg    *)
(* writes where its caller waits (kernel.c:333-370).                       *)
THEOREM ReceiversWait == CarefulSpec => []BoxInv
<1>1. Careful => BoxInv
  BY DEF Careful
<1>2. QED
  BY <1>1, CarefulInductive, PTL

(* No thread drops out of every queue and every box (kernel.c:161-391).    *)
THEOREM NobodyIsLost == CarefulSpec => []NoLostThread
<1>1. Careful => NoLostThread
  BY DEF Careful
<1>2. QED
  BY <1>1, CarefulInductive, PTL

(* No cleared slot is dispatched and no foreign parameter block written    *)
(* (kernel.c:287-292, 333-346 and 381-391).                                *)
THEOREM NothingIsWrecked == CarefulSpec => []NoWreck
<1>1. Careful => NoWreck
  BY DEF Careful
<1>2. QED
  BY <1>1, CarefulInductive, PTL
-----------------------------------------------------------------------------
(***************************************************************************)
(* The kernel with careful callers implements Threads, for any number of   *)
(* threads, priorities, boxes and messages.                                *)
(*                                                                         *)
(* A call moves at most one thread of Threads (OneMoves): the queues that  *)
(* schedule is given say who can run, slots and boxes say what the others  *)
(* wait for, and the head of the most urgent queue is a thread that        *)
(* Threads may choose.                                                     *)
(***************************************************************************)

(* The variables of Threads, as the kernel has them.                       *)
Now  == [t \in Thread |-> StateOf(t)]
Prio == [t \in Thread |-> tcb[t].priority]
Holding  == [t \in Thread |-> tcb[t].got]

(* The state of a thread that is in no queue.                              *)
Asleep(t) == IF ~live(t) THEN "UNUSED"
             ELSE IF waiting(t) THEN "BLOCKED_RECV" ELSE "BLOCKED_SLEEP"

LEMMA StateNow ==
    ASSUME Kept
    PROVE  \A t \in Thread :
             /\ StateOf(t) = IF t = current THEN "RUNNING"
                             ELSE IF t \in rq.ready THEN "READY" ELSE Asleep(t)
             /\ Now[t] = StateOf(t)
             /\ Promise!Running(t) <=> t = current
<1>1. halted = "no" /\ live(current) /\ current \in rq.ready
  BY TakenSound DEF Kept
<1>2. Sound(rq, tcb) /\ \A t \in Thread : t \in rq.ready => live(t)
  BY TakenSound DEF Sound, Agree, AliveIn, live
<1>3. ASSUME NEW t \in Thread
      PROVE  StateOf(t) = IF t = current THEN "RUNNING"
                          ELSE IF t \in rq.ready THEN "READY" ELSE Asleep(t)
  BY <1>1, <1>2 DEF StateOf, Asleep
<1>4. ASSUME NEW t \in Thread
      PROVE  Promise!Running(t) <=> t = current
  BY <1>3 DEF Promise!Running, Asleep
<1> QED BY <1>3, <1>4 DEF Now

LEMMA NoElements ==
    ASSUME NEW q \in Seq(Thread)
    PROVE  q = <<>> <=> ToSet(q) = {}
<1>1. CASE q = <<>>
  BY <1>1 DEF ToSet
<1>2. CASE q # <<>>
  <2>1. 1 \in DOMAIN q
    BY <1>2
  <2> QED BY <1>2, <2>1 DEF ToSet
<1> QED BY <1>1, <1>2

(* schedule chooses as Threads allows.                                     *)
LEMMA Chooses ==
    ASSUME Kept, IInv', NEW s, schedule(s)
    PROVE  /\ rq' = s /\ s.ready \subseteq Thread
           /\ \A t \in s.ready : tcb'[t].func
           /\ s.ready = {} => halted' = "sysdown"
           /\ s.ready # {} => /\ halted' = "no" /\ current' \in s.ready
                              /\ \A t \in s.ready : tcb'[current'].priority <= tcb'[t].priority
<1> DEFINE tc == tcb'
<1>0. Sound(s, tc)
  <2>1. rq' = s
    BY DEF schedule
  <2>2. \A p \in Priority : ToSet(s.q[p]) \subseteq Thread
    BY <2>1 DEF IInv, TypeOK, ToSet
  <2> QED BY <2>1, <2>2 DEF Sound, Agree, IInv, TypeOK, QueueInv, FlagsAgree, OwnQueue,
                            AliveIn, HomeIn, live
<1> HIDE DEF tc
<1>1. /\ s.ready \subseteq Thread /\ s.q \in [Priority -> Seq(Thread)]
      /\ \A t \in Thread : t \in s.ready <=> \E p \in Priority : t \in ToSet(s.q[p])
      /\ \A p \in Priority : \A t \in ToSet(s.q[p]) : tc[t].func /\ tc[t].priority = p
  BY <1>0 DEF Sound, Agree, AliveIn, HomeIn
<1>2. \A p \in Priority : s.q[p] = <<>> <=> ToSet(s.q[p]) = {}
  BY <1>1, NoElements
<1>3. Idle(s) <=> s.ready = {}
  <2>1. Idle(s) <=> \A p \in Priority : ToSet(s.q[p]) = {}
    BY <1>1, <1>2 DEF Idle
  <2>2. \A p \in Priority : ToSet(s.q[p]) \subseteq Thread
    BY <1>1 DEF ToSet
  <2> QED BY <1>1, <2>1, <2>2
<1>4. ASSUME ~Idle(s)
      PROVE  /\ first_ready(s) \in s.ready
             /\ \A t \in s.ready : tc[first_ready(s)].priority <= tc[t].priority
  <2>1. /\ TopPriority(s) \in Priority
        /\ \A o \in Priority : s.q[o] # <<>> => TopPriority(s) <= o
        /\ first_ready(s) \in Thread /\ first_ready(s) \in ToSet(s.q[TopPriority(s)])
    BY <1>0, <1>4, FirstReadyExists DEF Sound, Priority
  <2>2. ASSUME NEW t \in s.ready PROVE tc[first_ready(s)].priority <= tc[t].priority
    <3>1. PICK p \in Priority : t \in ToSet(s.q[p])
      BY <1>1
    <3>2. s.q[p] # <<>> /\ tc[t].priority = p
      BY <1>1, <1>2, <3>1
    <3> QED BY <1>1, <2>1, <3>2
  <2> QED BY <1>1, <2>1, <2>2
<1> QED BY <1>1, <1>3, <1>4 DEF schedule, Kept, tc

(* A call that changes the state of one thread at most.                    *)
LEMMA OneMoves ==
    ASSUME Kept, IInv', NEW s, schedule(s),
           NEW u \in Thread, NEW st,
           \A t \in Thread \ {u} : /\ t \in s.ready <=> t \in rq.ready
                                   /\ tcb'[t].func = tcb[t].func
                                   /\ waiting(t)' <=> waiting(t),
           IF u \in s.ready THEN st \in {"READY", "RUNNING"} ELSE st = Asleep(u)'
    PROVE  Promise!Dispatch([Now EXCEPT ![u] = st], Prio')
<1> DEFINE next == [Now EXCEPT ![u] = st]
<1>1. /\ rq' = s /\ s.ready \subseteq Thread
      /\ \A t \in s.ready : tcb'[t].func
      /\ s.ready = {} => halted' = "sysdown"
      /\ s.ready # {} => /\ halted' = "no" /\ current' \in s.ready
                         /\ \A t \in s.ready : tcb'[current'].priority <= tcb'[t].priority
  BY Chooses
<1>2. next = [t \in Thread |-> IF t = u THEN st ELSE StateOf(t)]
  BY DEF Now
<1>3. \A t \in s.ready : next[t] \in {"READY", "RUNNING"}
  BY <1>1, <1>2, StateNow, TakenSound
<1>4. \A t \in Thread \ s.ready : next[t] = Asleep(t)'
  BY <1>2, StateNow, TakenSound DEF Asleep, live
<1>5. \A t \in Thread : next[t] \in {"READY", "RUNNING"} <=> t \in s.ready
  BY <1>3, <1>4 DEF Asleep
<1>6. Promise!Runnable(next) = s.ready
  BY <1>1, <1>5 DEF Promise!Runnable
<1>7. \A t \in Thread : StateOf(t)' =
        IF halted' = "no" /\ t = current' THEN "RUNNING"
        ELSE IF t \in s.ready THEN "READY" ELSE Asleep(t)'
  BY <1>1 DEF StateOf, Asleep, live
<1> DEFINE chosen == [t \in Thread |-> IF t = current' THEN "RUNNING"
                                       ELSE IF t \in s.ready THEN "READY" ELSE next[t]]
<1>8. CASE s.ready = {}
  <2>1. Now' = next
    BY <1>1, <1>2, <1>4, <1>7, <1>8 DEF Now
  <2> QED BY <1>1, <1>6, <1>8, <2>1 DEF Promise!Dispatch, Now, Prio
<1>9. CASE s.ready # {}
  <2>1. Now' = chosen
    BY <1>1, <1>4, <1>7, <1>9 DEF Now
  <2>2. \A t \in s.ready : Prio'[current'] <= Prio'[t]
    BY <1>1, <1>9 DEF Prio
  <2> HIDE DEF next
  <2>3. \E first \in Promise!Runnable(next) :
          /\ \A t \in Promise!Runnable(next) : Prio'[first] <= Prio'[t]
          /\ Now' = [t \in Thread |-> IF t = first THEN "RUNNING"
                                      ELSE IF t \in Promise!Runnable(next) THEN "READY"
                                      ELSE next[t]]
    BY <1>1, <1>6, <1>9, <2>1, <2>2
  <2>4. (halted # "no")' = (Promise!Runnable(next) = {})
    BY <1>1, <1>6, <1>9
  <2>5. Promise!Dispatch(next, Prio')
    BY <2>3, <2>4 DEF Promise!Dispatch, Now, Prio
  <2> QED BY <2>5 DEF next
<1> QED BY <1>8, <1>9

(* What a caller has received is forgotten when it calls.                  *)
LEMMA Forgotten ==
    ASSUME Kept, NEW type \in CallType
    PROVE  /\ Holding \in Promise!Settled
           /\ [t \in Thread |-> entered(type)[t].got] \in Promise!Settled
<1>1. Promise!Settled = {Holding, [t \in Thread |-> IF t = current THEN NULL ELSE tcb[t].got]}
  BY StateNow DEF Promise!Settled, Holding
<1>2. entered(type)[current].got = NULL
  <2>1. tcb \in [Thread -> Tcb] /\ current \in Thread /\ tcb[current] \in Tcb
    BY KeptTypes
  <2> QED BY <2>1 DEF entered, Tcb
<1>3. \A t \in Thread \ {current} : entered(type)[t] = tcb[t]
  BY EnteredSlots
<1> QED BY <1>1, <1>2, <1>3

(* Nobody moves but the caller, to the back of its queue.                  *)
LEMMA Yields ==
    ASSUME Kept, IInv', NEW s, schedule(s), s.ready = rq.ready, UNCHANGED mail,
           tcb' = tcb \/ tcb' = entered("OTHER")
    PROVE  Promise!Yield
<1>1. /\ \A t \in Thread : tcb'[t].func = tcb[t].func /\ tcb'[t].priority = tcb[t].priority
      /\ Holding' \in Promise!Settled
  BY EnteredSlots, Forgotten DEF CallType, Holding
<1>2. current \in Thread /\ current \in rq.ready
  BY TakenSound
<1>3. \A t \in Thread : waiting(t)' <=> waiting(t)
  BY DEF waiting, mail
<1>4. Promise!Dispatch([Now EXCEPT ![current] = "RUNNING"], Prio')
  BY <1>1, <1>2, <1>3, OneMoves
<1>5. [Now EXCEPT ![current] = "RUNNING"] = Now /\ Prio' = Prio
  BY <1>1, StateNow DEF Now, Prio
<1>6. Promise!Dispatch(Now, Prio)
  BY <1>4, <1>5 DEF Promise!Dispatch, Promise!Runnable
<1>7. Promise!quiet
  BY <1>1 DEF Promise!quiet, Holding, mail
<1> QED BY <1>6, <1>7 DEF Promise!Yield, Now, Prio

LEMMA GoesDown ==
    ASSUME Kept, halt("sysdown")
    PROVE  Promise!GoDown
<1>1. /\ UNCHANGED <<current, rq, tcb, receiver, box>> /\ halted' = "sysdown"
  BY DEF halt, mail
<1>2. current \in rq.ready /\ live(current) /\ halted = "no"
  BY TakenSound DEF Kept
<1>3. ASSUME NEW t \in Thread
      PROVE  StateOf(t)' = IF t = current THEN "READY" ELSE StateOf(t)
  <2>1. (live(t)' <=> live(t)) /\ (waiting(t)' <=> waiting(t))
    BY <1>1 DEF live, waiting
  <2> QED BY <1>1, <1>2, <2>1 DEF StateOf
<1>4. Now' = [t \in Thread |-> IF Promise!Running(t) THEN "READY" ELSE StateOf(t)]
  BY <1>3, StateNow DEF Now
<1> QED BY <1>1, <1>4 DEF Promise!GoDown, Now
------------------------------------------------------------------------------
(* Each call is a step of Threads.                                         *)
LEMMA QuietSteps ==
    ASSUME Kept, IInv',
           \/ yield \/ timer_intr
           \/ thread_malloc \/ thread_free \/ picoxs_malloc \/ picoxs_free
    PROVE  Promise!Yield \/ Promise!GoDown
<1>1. requeue(taken).ready = rq.ready
  BY Entry DEF CallType
<1>2. CASE yield \/ timer_intr
  BY <1>1, <1>2, Yields DEF yield, timer_intr
<1>3. CASE thread_malloc \/ thread_free
  BY <1>1, <1>3, Yields, GoesDown DEF thread_malloc, thread_free, alloc, free
<1>4. CASE picoxs_malloc \/ picoxs_free
  BY <1>4, Yields, GoesDown DEF picoxs_malloc, picoxs_free, alloc, free
<1> QED BY <1>2, <1>3, <1>4

LEMMA ExitEnds ==
    ASSUME Kept, IInv', thread_exit, NEW me, me = current
    PROVE  Promise!End(me)
<1>1. /\ tcb' = [tcb EXCEPT ![me] = Cleared] /\ schedule(taken) /\ UNCHANGED mail
      /\ tcb \in [Thread -> Tcb] /\ me \in Thread /\ taken.ready = rq.ready \ {me}
  BY KeptTypes, TakenSound DEF thread_exit
<1>2. /\ \A t \in Thread \ {me} : tcb'[t] = tcb[t]
      /\ ~tcb'[me].func /\ tcb'[me].priority = 0 /\ tcb'[me].got = NULL
  BY <1>1 DEF Cleared
<1>3. \A t \in Thread : waiting(t)' <=> waiting(t)
  BY <1>1 DEF waiting, mail
<1>4. Asleep(me)' = "UNUSED"
  BY <1>2 DEF Asleep, live
<1>5. Promise!Dispatch([Now EXCEPT ![me] = "UNUSED"], Prio')
  BY <1>1, <1>2, <1>3, <1>4, OneMoves
<1>6. Prio' = [Prio EXCEPT ![me] = 0] /\ Holding' = [Holding EXCEPT ![me] = NULL]
  BY <1>1, <1>2 DEF Prio, Holding
<1>7. Promise!Dispatch([Now EXCEPT ![me] = "UNUSED"], [Prio EXCEPT ![me] = 0])
  BY <1>5, <1>6 DEF Promise!Dispatch
<1>8. \E i \in Promise!Settled : Holding' = [i EXCEPT ![me] = NULL]
  BY <1>6, Forgotten DEF CallType
<1>9. Now[me] = "RUNNING"
  BY <1>1, StateNow
<1> QED BY <1>1, <1>7, <1>8, <1>9 DEF Promise!End, Now, Prio, Holding, mail

LEMMA SleepSleeps ==
    ASSUME Kept, Careful, IInv', thread_sleep, NEW me, me = current
    PROVE  Promise!Sleep(me)
<1>1. /\ tcb' = entered("SLEEP") /\ schedule(taken) /\ UNCHANGED mail
      /\ live(me) /\ me \in Thread /\ taken.ready = rq.ready \ {me}
  BY TakenSound DEF thread_sleep
<1>2. /\ \A t \in Thread : tcb'[t].func = tcb[t].func /\ tcb'[t].priority = tcb[t].priority
      /\ Holding' \in Promise!Settled
  BY <1>1, EnteredSlots, Forgotten DEF CallType, Holding
<1>3. \A t \in Thread : waiting(t)' <=> waiting(t)
  BY <1>1 DEF waiting, mail
<1>4. Asleep(me)' = "BLOCKED_SLEEP"
  BY <1>1, <1>2, <1>3, WaitersAreIdle DEF Asleep, live
<1>5. Promise!Dispatch([Now EXCEPT ![me] = "BLOCKED_SLEEP"], Prio')
  BY <1>1, <1>2, <1>3, <1>4, OneMoves
<1>6. Prio' = Prio
  BY <1>2 DEF Prio
<1>7. Promise!Dispatch([Now EXCEPT ![me] = "BLOCKED_SLEEP"], Prio)
  BY <1>5, <1>6 DEF Promise!Dispatch
<1>8. Promise!quiet
  BY <1>1, <1>2 DEF Promise!quiet, Holding, mail
<1>9. Promise!Running(me)
  BY <1>1, StateNow
<1> QED BY <1>7, <1>8, <1>9 DEF Promise!Sleep, Now, Prio

LEMMA ChpriSets ==
    ASSUME Kept, IInv', NEW pri \in Priority, thread_chpri(pri)
    PROVE  \E p \in Priority : Promise!SetPriority(current, p)
<1> DEFINE new == IF pri > 0 THEN pri ELSE tcb[current].priority
<1>1. /\ current \in Thread /\ tcb[current].priority \in Priority
      /\ taken.ready = rq.ready \ {current} /\ current \in rq.ready
      /\ entered("OTHER") \in [Thread -> Tcb]
  BY TakenSound, EnteredSlots DEF CallType
<1>2. new \in Priority
  BY <1>1
<1>3. /\ tcb' = [entered("OTHER") EXCEPT ![current].priority = new]
      /\ schedule(putcurrent(taken, current, new)) /\ UNCHANGED mail
  BY DEF thread_chpri
<1> HIDE DEF new
<1>4. putcurrent(taken, current, new).ready = rq.ready
  <2>1. putcurrent(taken, current, new).ready = taken.ready \cup {current}
    BY <1>1, PutReady
  <2> QED BY <1>1, <2>1
<1>5. /\ tcb'[current].priority = new /\ tcb'[current].got = entered("OTHER")[current].got
      /\ tcb'[current].func = entered("OTHER")[current].func
      /\ \A t \in Thread \ {current} : tcb'[t] = entered("OTHER")[t]
  BY <1>1, <1>2, <1>3 DEF Tcb
<1>6. /\ \A t \in Thread : tcb'[t].func = tcb[t].func
      /\ \A t \in Thread \ {current} : tcb'[t].priority = tcb[t].priority
  BY <1>5, EnteredSlots DEF CallType
<1>7. Holding' \in Promise!Settled
  <2>1. Holding' = [t \in Thread |-> entered("OTHER")[t].got]
    BY <1>5 DEF Holding
  <2> QED BY <2>1, Forgotten DEF CallType
<1>8. \A t \in Thread : waiting(t)' <=> waiting(t)
  BY <1>3 DEF waiting, mail
<1>9. Promise!Dispatch([Now EXCEPT ![current] = "RUNNING"], Prio')
  BY <1>1, <1>3, <1>4, <1>6, <1>8, OneMoves
<1>10. [Now EXCEPT ![current] = "RUNNING"] = Now /\ Prio' = [Prio EXCEPT ![current] = new]
  BY <1>5, <1>6, StateNow DEF Now, Prio
<1>11. Promise!Dispatch(Now, [Prio EXCEPT ![current] = new])
  BY <1>9, <1>10 DEF Promise!Dispatch, Promise!Runnable
<1>12. Promise!quiet
  BY <1>3, <1>7 DEF Promise!quiet, Holding, mail
<1>13. Promise!Running(current)
  BY <1>1, StateNow
<1>14. Promise!SetPriority(current, new)
  BY <1>11, <1>12, <1>13 DEF Promise!SetPriority, Now, Prio
<1> QED BY <1>2, <1>14

LEMMA RunCreates ==
    ASSUME Kept, IInv', NEW kind \in Pools, NEW pri \in Priority, NEW size \in Sizes,
           room(kind, size), FreeSlots # {}, thread_run(kind, pri, size),
           NEW new, new = FreeSlot
    PROVE  new \in Thread /\ Promise!Create(new, pri)
<1>1. /\ tcb' = [entered("OTHER") EXCEPT ![new] = Started(pri)]
      /\ schedule(putcurrent(requeue(taken), new, pri)) /\ UNCHANGED mail
  BY DEF thread_run, mail
<1>2. new \in Thread /\ ~live(new)
  BY FreeSlotIsFree
<1>3. /\ entered("OTHER") \in [Thread -> Tcb] /\ requeue(taken).ready = rq.ready
      /\ \A t \in Thread : /\ entered("OTHER")[t].func = tcb[t].func
                           /\ entered("OTHER")[t].priority = tcb[t].priority
  BY Entry, EnteredSlots DEF CallType
<1>4. putcurrent(requeue(taken), new, pri).ready = rq.ready \cup {new}
  BY <1>2, <1>3, PutReady
<1>5. /\ \A t \in Thread \ {new} : tcb'[t] = entered("OTHER")[t]
      /\ tcb'[new].priority = pri /\ tcb'[new].got = NULL
  BY <1>1, <1>2, <1>3 DEF Started, Cleared
<1>6. \A t \in Thread : waiting(t)' <=> waiting(t)
  BY <1>1 DEF waiting, mail
<1>7. Promise!Dispatch([Now EXCEPT ![new] = "READY"], Prio')
  BY <1>1, <1>2, <1>3, <1>4, <1>5, <1>6, OneMoves
<1>8. Prio' = [Prio EXCEPT ![new] = pri]
  BY <1>2, <1>3, <1>5 DEF Prio
<1>9. Promise!Dispatch([Now EXCEPT ![new] = "READY"], [Prio EXCEPT ![new] = pri])
  BY <1>7, <1>8 DEF Promise!Dispatch
<1>10. \E i \in Promise!Settled : Holding' = [i EXCEPT ![new] = NULL]
  <2>1. Holding' = [[t \in Thread |-> entered("OTHER")[t].got] EXCEPT ![new] = NULL]
    BY <1>2, <1>5 DEF Holding
  <2> QED BY <2>1, Forgotten DEF CallType
<1>11. Now[new] = "UNUSED"
  BY <1>2, StateNow, TakenSound DEF Asleep, Sound, Agree, AliveIn, live
<1> QED BY <1>1, <1>2, <1>9, <1>10, <1>11 DEF Promise!Create, Now, Prio, Holding, mail

LEMMA WakeWakes ==
    ASSUME Kept, Careful, IInv', NEW id \in Thread, Respected(id),
           thread_wakeup(id) \/ picoxs_wakeup(id)
    PROVE  Promise!Wake(id) \/ Promise!Yield
<1>1. requeue(taken).ready = rq.ready
  BY Entry DEF CallType
<1>2. PICK s : /\ schedule(putcurrent(s, id, tcb[id].priority)) /\ s.ready = rq.ready
               /\ tcb' = tcb \/ tcb' = entered("OTHER")
               /\ UNCHANGED mail
  BY <1>1 DEF Respected, thread_wakeup, picoxs_wakeup, wake
<1>3. putcurrent(s, id, tcb[id].priority).ready = rq.ready \cup {id}
  BY <1>2, PutReady
<1>4. CASE id \in rq.ready
  BY <1>2, <1>3, <1>4, Yields
<1>5. CASE id \notin rq.ready
  <2>1. /\ \A t \in Thread : tcb'[t].func = tcb[t].func /\ tcb'[t].priority = tcb[t].priority
        /\ Holding' \in Promise!Settled
    BY <1>2, EnteredSlots, Forgotten DEF CallType, Holding
  <2>2. \A t \in Thread : waiting(t)' <=> waiting(t)
    BY <1>2 DEF waiting, mail
  <2>3. Promise!Dispatch([Now EXCEPT ![id] = "READY"], Prio')
    BY <1>2, <1>3, <2>1, <2>2, OneMoves
  <2>4. Prio' = Prio
    BY <2>1 DEF Prio
  <2>5. Promise!Dispatch([Now EXCEPT ![id] = "READY"], Prio)
    BY <2>3, <2>4 DEF Promise!Dispatch
  <2>6. Promise!quiet
    BY <1>2, <2>1 DEF Promise!quiet, Holding, mail
  <2>7. Now[id] = "BLOCKED_SLEEP"
    BY <1>5, StateNow, TakenSound DEF Asleep, Respected
  <2> QED BY <2>5, <2>6, <2>7 DEF Promise!Wake, Now, Prio
<1> QED BY <1>4, <1>5

LEMMA KillEnds ==
    ASSUME Kept, IInv', NEW id \in Thread, Respected(id), id # current, thread_kill(id)
    PROVE  Promise!End(id)
<1> DEFINE s == readyque_remove(taken, id, tcb[id].priority)
<1>1. /\ tcb' = [entered("OTHER") EXCEPT ![id] = Cleared]
      /\ schedule(requeue(s)) /\ UNCHANGED mail
  BY DEF thread_kill, Respected
<1>2. /\ Sound(taken, tcb) /\ taken.ready = rq.ready \ {current}
      /\ current \in rq.ready /\ current \in Thread
      /\ entered("OTHER") \in [Thread -> Tcb]
      /\ \A t \in Thread : /\ entered("OTHER")[t].func = tcb[t].func
                           /\ entered("OTHER")[t].priority = tcb[t].priority
  BY TakenSound, EnteredSlots DEF CallType
<1>3. Sound(s, tcb) /\ s.ready = taken.ready \ {id}
  <2>1. HomeIn(tcb)[id] = tcb[id].priority /\ HomeIn(tcb)[id] \in Priority
    BY KeptTypes DEF HomeIn, Tcb
  <2>2. Agree(taken, Thread, Priority, AliveIn(tcb), HomeIn(tcb))
    BY <1>2 DEF Sound
  <2> DEFINE r == readyque_remove(taken, id, HomeIn(tcb)[id])
  <2>3. Agree(r, Thread, Priority, AliveIn(tcb), HomeIn(tcb)) /\ r.ready = taken.ready \ {id}
    <3>1. PICK v, T, P, alive, home :
            /\ v = taken /\ T = Thread /\ P = Priority /\ alive = AliveIn(tcb) /\ home = HomeIn(tcb)
      OBVIOUS
    <3>2. id \in T /\ home[id] \in P /\ Agree(v, T, P, alive, home)
      BY <2>1, <2>2, <3>1
    <3>3. PICK w : w = readyque_remove(v, id, home[id])
      OBVIOUS
    <3>4. Agree(w, T, P, alive, home) /\ w.ready = v.ready \ {id}
      BY ONLY <3>2, <3>3, RemoveAgrees
    <3>5. w = r
      BY <3>1, <3>3
    <3> HIDE DEF r
    <3> QED BY <3>1, <3>4, <3>5
  <2>4. s = r
    BY <2>1
  <2> QED BY <2>3, <2>4 DEF Sound
<1> HIDE DEF s
<1>4. requeue(s).ready = rq.ready \ {id}
  BY <1>2, <1>3, RequeueSound
<1>5. /\ \A t \in Thread \ {id} : tcb'[t] = entered("OTHER")[t]
      /\ ~tcb'[id].func /\ tcb'[id].priority = 0 /\ tcb'[id].got = NULL
  BY <1>1, <1>2 DEF Cleared
<1>6. \A t \in Thread : waiting(t)' <=> waiting(t)
  BY <1>1 DEF waiting, mail
<1>7. Asleep(id)' = "UNUSED"
  BY <1>5 DEF Asleep, live
<1>8. Promise!Dispatch([Now EXCEPT ![id] = "UNUSED"], Prio')
  BY <1>1, <1>2, <1>4, <1>5, <1>6, <1>7, OneMoves
<1>9. Prio' = [Prio EXCEPT ![id] = 0]
  BY <1>2, <1>5 DEF Prio
<1>10. Promise!Dispatch([Now EXCEPT ![id] = "UNUSED"], [Prio EXCEPT ![id] = 0])
  BY <1>8, <1>9 DEF Promise!Dispatch
<1>11. \E i \in Promise!Settled : Holding' = [i EXCEPT ![id] = NULL]
  <2>1. Holding' = [[t \in Thread |-> entered("OTHER")[t].got] EXCEPT ![id] = NULL]
    BY <1>5 DEF Holding
  <2> QED BY <2>1, Forgotten DEF CallType
<1>12. Now[id] \in {"READY", "BLOCKED_SLEEP"}
  BY StateNow DEF Asleep, Respected
<1> QED BY <1>1, <1>10, <1>11, <1>12 DEF Promise!End, Now, Prio, Holding, mail

(* A message is handed over: its thread can run, the box forgets it.       *)
LEMMA Delivers ==
    ASSUME Kept, IInv', NEW b \in MsgBox, NEW t \in Thread, NEW s,
           schedule(s), s.ready = rq.ready \cup {t},
           receiver' = [receiver EXCEPT ![b] = NULL], receiver[b] \in {t, NULL},
           \A u \in Thread : tcb'[u].func = tcb[u].func /\ tcb'[u].priority = tcb[u].priority
    PROVE  /\ Promise!Dispatch([Now EXCEPT ![t] = "READY"], Prio)
           /\ Promise!Dispatch([Now EXCEPT ![t] = "RUNNING"], Prio)
<1>1. \A u \in Thread \ {t} : waiting(u)' <=> waiting(u)
  <2>1. receiver \in [MsgBox -> Thread \cup {NULL}]
    BY KeptTypes
  <2>2. \A u \in Thread \ {t} : \A o \in MsgBox : receiver'[o] = u <=> receiver[o] = u
    BY <2>1
  <2> QED BY <2>2 DEF waiting
<1>2. /\ Promise!Dispatch([Now EXCEPT ![t] = "READY"], Prio')
      /\ Promise!Dispatch([Now EXCEPT ![t] = "RUNNING"], Prio')
  BY <1>1, OneMoves
<1>3. Prio' = Prio
  BY DEF Prio
<1> QED BY <1>2, <1>3 DEF Promise!Dispatch

LEMMA PostSends ==
    ASSUME Kept, Careful, IInv', NEW b \in MsgBox, NEW m \in Message, NEW s, s.ready = rq.ready,
           NEW tc, tc = tcb \/ tc = entered("OTHER"), post(b, m, s, tc)
    PROVE  Promise!Send(b, m) \/ Promise!GoDown
<1>0. /\ tc \in [Thread -> Tcb] /\ [t \in Thread |-> tc[t].got] \in Promise!Settled
      /\ \A t \in Thread : tc[t].func = tcb[t].func /\ tc[t].priority = tcb[t].priority
      /\ \A t \in Thread \ {current} : tc[t] = tcb[t]
  BY KeptTypes, EnteredSlots, Forgotten DEF CallType, Holding
<1>1. CASE blocks = 0
  BY <1>1, GoesDown DEF post
<1>2. CASE blocks # 0 /\ receiver[b] = NULL
  <2>1. /\ box' = [box EXCEPT ![b] = Append(@, m)] /\ receiver' = receiver
        /\ tcb' = tc /\ schedule(s)
    BY <1>2 DEF post
  <2>2. \A t \in Thread : waiting(t)' <=> waiting(t)
    BY <2>1 DEF waiting
  <2>3. current \in Thread /\ current \in rq.ready
    BY TakenSound
  <2>4. Promise!Dispatch([Now EXCEPT ![current] = "RUNNING"], Prio')
    BY <1>0, <2>1, <2>2, <2>3, OneMoves
  <2>5. [Now EXCEPT ![current] = "RUNNING"] = Now /\ Prio' = Prio
    BY <1>0, <2>1, StateNow DEF Now, Prio
  <2>6. Promise!Dispatch(Now, Prio)
    BY <2>4, <2>5 DEF Promise!Dispatch, Promise!Runnable
  <2>7. Holding' \in Promise!Settled
    BY <1>0, <2>1 DEF Holding
  <2> QED BY <1>2, <2>1, <2>6, <2>7 DEF Promise!Send, Now, Prio, Holding
<1>3. ASSUME blocks # 0, receiver[b] # NULL, NEW t, t = receiver[b]
      PROVE  Promise!Send(b, m)
  <2>1. /\ box \in [MsgBox -> Seq(Message)] /\ t \in Thread /\ waiting(t)
        /\ tcb[t].type = "RECV" /\ box[b] = <<>> /\ \A o \in MsgBox \ {b} : receiver[o] # t
    BY <1>3, KeptTypes DEF Careful, BoxInv, waiting
  <2>2. live(t) /\ t \notin rq.ready /\ t # current
    BY <2>1, WaitersAreIdle
  <2> DEFINE back == putcurrent(s, t, tcb[t].priority)
  <2>3. /\ box' = [box EXCEPT ![b] = Tail(<<m>>)]
        /\ tcb' = [tc EXCEPT ![t].got = Head(<<m>>)]
        /\ receiver' = [receiver EXCEPT ![b] = NULL] /\ schedule(back)
    <3>1. tc[t].type = "RECV"
      BY <1>0, <2>1, <2>2
    <3>2. deliver(b, t, <<m>>, s, tc)
      BY <1>3, <2>1 DEF post
    <3> QED BY <3>1, <3>2 DEF deliver
  <2>4. back.ready = rq.ready \cup {t}
    <3>1. back.ready = s.ready \cup {t}
      BY <2>1, PutReady
    <3> QED BY <3>1
  <2>5. /\ \A u \in Thread : tcb'[u].func = tc[u].func /\ tcb'[u].priority = tc[u].priority
        /\ Holding' = [[u \in Thread |-> tc[u].got] EXCEPT ![t] = Head(<<m>>)]
    <3>1. ASSUME NEW n, n = Head(<<m>>)
          PROVE  /\ \A u \in Thread : tcb'[u].func = tc[u].func /\ tcb'[u].priority = tc[u].priority
                 /\ Holding' = [[u \in Thread |-> tc[u].got] EXCEPT ![t] = n]
      BY <1>0, <2>1, <2>3, <3>1 DEF Holding, Tcb
    <3> QED BY <3>1
  <2> HIDE DEF back
  <2>6. Promise!Dispatch([Now EXCEPT ![t] = "READY"], Prio)
    BY <1>0, <1>3, <2>1, <2>3, <2>4, <2>5, Delivers
  <2>7. Tail(<<m>>) = <<>> /\ Head(<<m>>) = m
    OBVIOUS
  <2>8. box' = box
    BY <2>1, <2>3, <2>7
  <2>9. \E i \in Promise!Settled : Holding' = [i EXCEPT ![t] = m]
    <3>1. Holding' = [[u \in Thread |-> tc[u].got] EXCEPT ![t] = m]
      BY <2>5, <2>7
    <3> QED BY <1>0, <3>1
  <2>10. Now[t] = "BLOCKED_RECV"
    BY <2>1, <2>2, StateNow DEF Asleep
  <2> QED BY <1>3, <2>1, <2>3, <2>6, <2>8, <2>9, <2>10 DEF Promise!Send, Now, Prio, Holding
<1> QED BY <1>1, <1>2, <1>3

LEMMA SendSends ==
    ASSUME Kept, Careful, IInv', NEW b \in MsgBox, NEW d \in Data,
           thread_send(b, d) \/ picoxs_send(b, d)
    PROVE  Promise!GoDown \/ \E m \in Message : Promise!Send(b, m)
<1>1. requeue(taken).ready = rq.ready /\ current \in Thread
  BY Entry, TakenSound DEF CallType
<1>2. [from |-> current, data |-> d] \in Message /\ [from |-> NULL, data |-> d] \in Message
  BY <1>1 DEF Message
<1>3. ASSUME NEW m \in Message, m = [from |-> current, data |-> d], thread_send(b, d)
      PROVE  Promise!Send(b, m) \/ Promise!GoDown
  BY <1>1, <1>3, PostSends DEF thread_send
<1>4. ASSUME NEW m \in Message, m = [from |-> NULL, data |-> d], picoxs_send(b, d)
      PROVE  Promise!Send(b, m) \/ Promise!GoDown
  BY <1>4, PostSends DEF picoxs_send
<1> QED BY <1>2, <1>3, <1>4

LEMMA RecvReceives ==
    ASSUME Kept, Careful, IInv', NEW b \in MsgBox, thread_recv(b), NEW me, me = current
    PROVE  Promise!Receive(me, b) \/ Promise!GoDown
<1>1. /\ entered("RECV") \in [Thread -> Tcb] /\ entered("RECV")[me].type = "RECV"
      /\ \A t \in Thread : /\ entered("RECV")[t].func = tcb[t].func
                           /\ entered("RECV")[t].priority = tcb[t].priority
      /\ \A t \in Thread \ {me} : entered("RECV")[t] = tcb[t]
  BY EnteredSlots DEF CallType
<1>2. /\ taken.ready = rq.ready \ {me} /\ me \in rq.ready /\ me \in Thread /\ live(me)
      /\ receiver \in [MsgBox -> Thread \cup {NULL}] /\ box \in [MsgBox -> Seq(Message)]
  BY TakenSound, KeptTypes
<1>3. \A o \in MsgBox : receiver[o] # me
  BY <1>2, WaitersAreIdle DEF waiting
<1>4. Promise!Running(me) /\ Now[me] = "RUNNING"
  BY <1>2, StateNow
<1>5. CASE halt("sysdown")
  BY <1>5, GoesDown
<1>6. CASE /\ receiver[b] = NULL /\ box[b] = <<>>
           /\ receiver' = [receiver EXCEPT ![b] = me]
           /\ tcb' = entered("RECV") /\ schedule(taken) /\ UNCHANGED box
  <2>1. \A t \in Thread \ {me} : waiting(t)' <=> waiting(t)
    <3>1. \A t \in Thread \ {me} : \A o \in MsgBox : receiver'[o] = t <=> receiver[o] = t
      BY <1>2, <1>6
    <3> QED BY <3>1 DEF waiting
  <2>2. Asleep(me)' = "BLOCKED_RECV"
    BY <1>1, <1>2, <1>6 DEF Asleep, live, waiting
  <2>3. Promise!Dispatch([Now EXCEPT ![me] = "BLOCKED_RECV"], Prio')
    BY <1>1, <1>2, <1>6, <2>1, <2>2, OneMoves
  <2>4. Prio' = Prio /\ Holding' \in Promise!Settled
    BY <1>1, <1>6, Forgotten DEF Prio, Holding, CallType
  <2>5. Promise!Dispatch([Now EXCEPT ![me] = "BLOCKED_RECV"], Prio)
    BY <2>3, <2>4 DEF Promise!Dispatch
  <2> QED BY <1>4, <1>6, <2>4, <2>5 DEF Promise!Receive, Now, Prio, Holding
<1>7. CASE /\ receiver[b] = NULL /\ box[b] # <<>>
           /\ deliver(b, me, box[b], taken, entered("RECV"))
  <2> DEFINE back == putcurrent(taken, me, tcb[me].priority)
  <2>1. /\ box' = [box EXCEPT ![b] = Tail(box[b])]
        /\ tcb' = [entered("RECV") EXCEPT ![me].got = Head(box[b])]
        /\ receiver' = [receiver EXCEPT ![b] = NULL] /\ schedule(back)
    BY <1>1, <1>7 DEF deliver
  <2>2. back.ready = rq.ready \cup {me}
    <3>1. back.ready = taken.ready \cup {me}
      BY <1>2, PutReady
    <3> QED BY <1>2, <3>1
  <2>3. /\ \A u \in Thread : /\ tcb'[u].func = entered("RECV")[u].func
                             /\ tcb'[u].priority = entered("RECV")[u].priority
        /\ Holding' = [[u \in Thread |-> entered("RECV")[u].got] EXCEPT ![me] = Head(box[b])]
    <3>1. ASSUME NEW tc \in [Thread -> Tcb], tc = entered("RECV"), NEW m, m = Head(box[b])
          PROVE  /\ \A u \in Thread : /\ tcb'[u].func = tc[u].func
                                      /\ tcb'[u].priority = tc[u].priority
                 /\ Holding' = [[u \in Thread |-> tc[u].got] EXCEPT ![me] = m]
      BY <1>2, <2>1, <3>1 DEF Holding, Tcb
    <3> QED BY <1>1, <3>1
  <2> HIDE DEF back
  <2>4. Promise!Dispatch([Now EXCEPT ![me] = "RUNNING"], Prio)
    BY <1>1, <1>2, <1>7, <2>1, <2>2, <2>3, Delivers
  <2>5. [Now EXCEPT ![me] = "RUNNING"] = Now
    BY <1>4 DEF Now
  <2>6. Promise!Dispatch(Now, Prio)
    BY <2>4, <2>5 DEF Promise!Dispatch, Promise!Runnable
  <2>7. Holding' = [Holding EXCEPT ![me] = Head(box[b])] /\ receiver' = receiver
    BY <1>1, <1>2, <1>7, <2>1, <2>3 DEF Holding
  <2> QED BY <1>4, <1>7, <2>6, <2>7, <2>1 DEF Promise!Receive, Now, Prio, Holding
<1> QED BY <1>5, <1>6, <1>7 DEF thread_recv
------------------------------------------------------------------------------
LEMMA InitImplements == Init => Promise!Init
<1> SUFFICES ASSUME Init PROVE Promise!Init
  OBVIOUS
<1>1. 0 \in Thread /\ 0 \in Priority
  BY DEF Thread, Priority
<1>2. /\ current = 0 /\ rq.ready = {0} /\ halted = "no"
      /\ \A t \in Thread : tcb[t] = IF t = 0 THEN Started(0) ELSE Cleared
      /\ receiver = [b \in MsgBox |-> NULL] /\ box = [b \in MsgBox |-> <<>>]
  BY DEF Init, picox_start
<1>3. \A t \in Thread : /\ live(t) <=> t = 0
                        /\ tcb[t].priority = 0 /\ tcb[t].got = NULL
  <2>1. Started(0).func /\ Started(0).priority = 0 /\ Started(0).got = NULL
    BY DEF Started, Cleared
  <2>2. ~Cleared.func /\ Cleared.priority = 0 /\ Cleared.got = NULL
    BY DEF Cleared
  <2> QED BY <1>1, <1>2, <2>1, <2>2 DEF live
<1>4. Now = [t \in Thread |-> IF t = 0 THEN "RUNNING" ELSE "UNUSED"]
  BY <1>2, <1>3 DEF Now, StateOf
<1>5. Prio = [t \in Thread |-> IF t = 0 THEN 0 ELSE 0] /\ Holding = [t \in Thread |-> NULL]
  BY <1>3 DEF Prio, Holding
<1> QED BY <1>1, <1>2, <1>4, <1>5 DEF Promise!Init, Now, Prio, Holding

LEMMA StepImplements ==
    IInv /\ Careful /\ [CarefulNext]_vars => [Promise!Next]_(Promise!tvars)
<1> SUFFICES ASSUME IInv, Careful, [CarefulNext]_vars
             PROVE  [Promise!Next]_(Promise!tvars)
  OBVIOUS
<1>1. CASE UNCHANGED vars
  <2>1. Now' = Now /\ Prio' = Prio /\ Holding' = Holding /\ UNCHANGED <<receiver, box, halted>>
    BY <1>1 DEF vars, Now, Prio, Holding, StateOf, live, waiting
  <2> QED BY <2>1 DEF Promise!tvars, Now, Prio, Holding
<1>2. CASE CarefulNext
  <2>1. Kept /\ IInv' /\ current \in Thread
    BY <1>2, CarefulIsNext, NextIInv DEF Kept, CarefulNext, IInv, TypeOK
  <2>2. \/ Promise!Yield
        \/ \E t \in Thread, p \in Priority : Promise!Create(t, p) \/ Promise!SetPriority(t, p)
        \/ \E t \in Thread : Promise!End(t) \/ Promise!Sleep(t) \/ Promise!Wake(t)
        \/ \E b \in MsgBox, m \in Message : Promise!Send(b, m)
        \/ \E b \in MsgBox, t \in Thread : Promise!Receive(t, b)
        \/ Promise!GoDown
    <3>1. CASE \/ thread_wait \/ thread_getid \/ thread_setintr \/ thread_ps \/ timer_intr
               \/ thread_malloc \/ thread_free \/ picoxs_malloc \/ picoxs_free
      BY <2>1, <3>1, QuietSteps DEF thread_wait, thread_getid, thread_setintr, thread_ps
    <3>2. CASE thread_exit
      BY <2>1, <3>2, ExitEnds
    <3>3. CASE thread_sleep
      BY <2>1, <3>3, SleepSleeps
    <3>4. CASE \E p \in Priority : thread_chpri(p)
      BY <2>1, <3>4, ChpriSets
    <3>5. CASE \E kind \in Pools, p \in Priority, n \in Sizes :
                 room(kind, n) /\ FreeSlots # {} /\ thread_run(kind, p, n)
      BY <2>1, <3>5, RunCreates
    <3>6. CASE \E id \in Thread : Respected(id) /\ (thread_wakeup(id) \/ picoxs_wakeup(id))
      BY <2>1, <3>6, WakeWakes
    <3>7. CASE \E id \in Thread : Respected(id) /\ id # current /\ thread_kill(id)
      BY <2>1, <3>7, KillEnds
    <3>8. CASE \E b \in MsgBox, d \in Data : thread_send(b, d) \/ picoxs_send(b, d)
      BY <2>1, <3>8, SendSends
    <3>9. CASE \E b \in MsgBox : thread_recv(b)
      BY <2>1, <3>9, RecvReceives
    <3> QED BY <1>2, <3>1, <3>2, <3>3, <3>4, <3>5, <3>6, <3>7, <3>8, <3>9
            DEF CarefulNext, PlainCall, Interrupt
  <2> QED BY <2>1, <2>2 DEF Promise!Next, Kept
<1> QED BY <1>1, <1>2 DEF vars

(* With careful callers every call is a step of Threads: it moves a thread *)
(* only as the declared life cycle allows, the running thread is always    *)
(* one of the most urgent, and every message goes once and in order to the *)
(* thread that waits for it (kernel.c, all calls and interrupts).          *)
THEOREM KernelImplementsThreads == CarefulSpec => KeepsPromise
<1>1. Init => Promise!Init
  BY InitImplements
<1>2. IInv /\ Careful /\ [CarefulNext]_vars => [Promise!Next]_(Promise!tvars)
  BY StepImplements
<1> QED BY <1>1, <1>2, CarefulInductive, PTL DEF CarefulSpec, KeepsPromise, Promise!Spec
=============================================================================
