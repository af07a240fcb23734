----------------------------- MODULE ConsoleProofs -----------------------------
(***************************************************************************)
(* What the console driver promises, for every size of the ring, every     *)
(* depth and level of the UART's transmit FIFO and every set of texts: the *)
(* types of its state, no lost wakeup of its output, one line to the shell *)
(* per Enter, and texts and echoes that leave whole and in order.          *)
(*                                                                         *)
(* Three arguments that hardly touch each other:                           *)
(*  - the bytes on their way out are the FIFO, then the ring from head to  *)
(*    tail, then what the thread has yet to push.  A step appends a text   *)
(*    to all of them, removes the first, or moves one between two of the   *)
(*    three; a handler runs only while the thread has nothing to push, so  *)
(*    its echo too goes to the end;                                        *)
(*  - what is typed and not read yet is all of Enter, one other key, or    *)
(*    the LF of an Enter whose CR was the last byte read;                  *)
(*  - whoever stops draining a ring that is not empty has seen the FIFO    *)
(*    full, hence above its level, and leaves the interrupt enabled; from  *)
(*    there the level falls by one at a time and raises the interrupt as   *)
(*    it passes.  Until the next drain nobody disables or clears the       *)
(*    interrupt and nobody fills the ring.                                 *)
(***************************************************************************)
EXTENDS Console, SequenceTheorems, FiniteSetTheorems, WellFoundedInduction, TLAPS

USE SizeAssumption

(* The names of the bytes that leave the console; an empty slot of the     *)
(* ring holds one of its own.                                              *)
Byte ==
    {"none", "CR", "LF", "^C", "BS", "SP", "a", "BEL"}
      \cup UNION {ToSet(text) : text \in Texts}

Slot == 0 .. SEND_SIZE - 1

Rings == [buffer : [Slot -> Byte], head : Slot, tail : Slot]

Used(r) == (r.tail - r.head) % SEND_SIZE

(* The bytes that wait in a ring, from its head to its tail.               *)
BytesOf(r) == [i \in 1 .. Used(r) |-> r.buffer[(r.head + i - 1) % SEND_SIZE]]
--------------------------------------------------------------------------------
(* Positions wrap around once at most.                                     *)
LEMMA Wraps ==
    ASSUME NEW a \in Int, NEW b \in Int
    PROVE  /\ a \in Slot => a % SEND_SIZE = a
           /\ a \in SEND_SIZE .. 2 * SEND_SIZE - 1 => a % SEND_SIZE = a - SEND_SIZE
           /\ a \in Slot /\ b \in Slot =>
                (b - a) % SEND_SIZE = IF a <= b THEN b - a ELSE b - a + SEND_SIZE
BY DEF Slot

LEMMA UsedIs ==
    ASSUME NEW r \in Rings
    PROVE  /\ Used(r) = IF r.head <= r.tail THEN r.tail - r.head ELSE r.tail - r.head + SEND_SIZE
           /\ Used(r) \in 0 .. SEND_SIZE - 1
           /\ send_buffer_free(r) = SEND_SIZE - 1 - Used(r)
           /\ Used(r) = 0 <=> r.head = r.tail
<1>1. r.head \in Slot /\ r.tail \in Slot /\ r.head \in Int /\ r.tail \in Int /\ SEND_SIZE \in Nat
  BY DEF Rings, Slot
<1>2. Used(r) = IF r.head <= r.tail THEN r.tail - r.head ELSE r.tail - r.head + SEND_SIZE
  BY <1>1, Wraps DEF Used
<1> QED BY <1>1, <1>2 DEF Slot, send_buffer_free, Used

LEMMA NextIs ==
    ASSUME NEW i \in Slot
    PROVE  /\ next(i) = IF i = SEND_SIZE - 1 THEN 0 ELSE i + 1
           /\ next(i) \in Slot
BY DEF next, Slot

(* The bytes of a ring, one by one.                                        *)
LEMMA Held ==
    ASSUME NEW r \in Rings
    PROVE  /\ BytesOf(r) \in Seq(Byte) /\ Len(BytesOf(r)) = Used(r)
           /\ \A i \in 1 .. Used(r) :
                BytesOf(r)[i] = IF r.head + i <= SEND_SIZE THEN r.buffer[r.head + i - 1]
                                ELSE r.buffer[r.head + i - 1 - SEND_SIZE]
<1>1. Used(r) \in 0 .. SEND_SIZE - 1 /\ SEND_SIZE \in Nat /\ r.head \in Slot /\ r.buffer \in [Slot -> Byte]
  BY UsedIs DEF Rings
<1>2. ASSUME NEW i \in 1 .. Used(r)
      PROVE  /\ (r.head + i - 1) % SEND_SIZE = IF r.head + i <= SEND_SIZE THEN r.head + i - 1
                                               ELSE r.head + i - 1 - SEND_SIZE
             /\ (r.head + i - 1) % SEND_SIZE \in Slot
  <2>1. PICK h \in Slot, at \in Int : h = r.head /\ at = h + i - 1
    BY <1>1 DEF Slot
  <2>2. at \in Slot \/ at \in SEND_SIZE .. 2 * SEND_SIZE - 1
    BY <1>1, <2>1 DEF Slot
  <2>3. at % SEND_SIZE = IF at \in Slot THEN at ELSE at - SEND_SIZE
    BY <2>2, Wraps
  <2>4. PICK S \in Nat : S = SEND_SIZE
    BY <1>1
  <2>5. h \in Int /\ i \in Int /\ at \in Int /\ S \in Int /\ at = h + i - 1 /\ 0 <= at
    BY <1>1, <2>1, <2>4 DEF Slot
  <2>6. at \in Slot <=> at <= S - 1
    BY <2>4, <2>5 DEF Slot
  <2>7. at <= S - 1 <=> h + i <= S
    BY ONLY <2>5
  <2>8. at \notin Slot => at <= 2 * S - 1
    BY <2>2, <2>4
  <2>9. CASE at <= S - 1
    <3>1. at % S = h + i - 1 /\ at % S \in Slot /\ h + i <= S
      BY <2>3, <2>4, <2>5, <2>6, <2>7, <2>9
    <3> QED BY <2>1, <2>4, <2>5, <3>1
  <2>10. CASE ~(at <= S - 1)
    <3>1. at % S = at - S /\ ~(h + i <= S) /\ at <= 2 * S - 1
      BY <2>3, <2>4, <2>6, <2>7, <2>8, <2>10
    <3>2. at - S \in Int /\ 0 <= at - S /\ at - S <= S - 1 /\ at - S = h + i - 1 - S
      BY ONLY <2>5, <2>10, <3>1
    <3>3. at - S \in Slot
      BY <2>4, <3>2 DEF Slot
    <3> QED BY <2>1, <2>4, <2>5, <3>1, <3>2, <3>3
  <2> QED BY <2>9, <2>10
<1>3. BytesOf(r) \in Seq(Byte) /\ Len(BytesOf(r)) = Used(r)
  BY <1>1, <1>2 DEF BytesOf
<1>4. \A i \in 1 .. Used(r) : BytesOf(r)[i] = r.buffer[(r.head + i - 1) % SEND_SIZE]
  BY DEF BytesOf
<1> QED BY <1>2, <1>3, <1>4

LEMMA SameElements ==
    ASSUME NEW S, NEW s \in Seq(S), NEW t \in Seq(S), Len(s) = Len(t),
           \A i \in 1 .. Len(s) : s[i] = t[i]
    PROVE  s = t
OBVIOUS

(* send_push_raw, on any ring.                                             *)
LEMMA PushType ==
    ASSUME NEW r \in Rings, NEW byte \in Byte
    PROVE  send_push_raw(r, byte) \in Rings
BY NextIs DEF send_push_raw, Rings

(* send_push_raw, on a ring with room.                                     *)
LEMMA Pushed ==
    ASSUME NEW r \in Rings, NEW byte \in Byte, send_buffer_free(r) > 0
    PROVE  /\ send_push_raw(r, byte) \in Rings
           /\ send_buffer_free(send_push_raw(r, byte)) = send_buffer_free(r) - 1
           /\ BytesOf(send_push_raw(r, byte)) = Append(BytesOf(r), byte)
<1> DEFINE p == [buffer |-> [r.buffer EXCEPT ![r.tail] = byte], head |-> r.head, tail |-> next(r.tail)]
<1>1. /\ r.head \in Slot /\ r.tail \in Slot /\ r.buffer \in [Slot -> Byte]
      /\ r = [buffer |-> r.buffer, head |-> r.head, tail |-> r.tail]
  BY DEF Rings
<1>2. next(r.tail) # r.head
  BY <1>1, UsedIs, NextIs DEF Slot
<1>3. send_push_raw(r, byte) = p
  BY <1>1, <1>2 DEF send_push_raw
<1>4. p \in Rings
  BY <1>1, NextIs DEF Rings
<1>5. Used(p) = Used(r) + 1
  <2>1. PICK h \in Slot, t \in Slot, n \in Slot : h = r.head /\ t = r.tail /\ n = next(t)
    BY <1>1, NextIs
  <2>2. n = IF t = SEND_SIZE - 1 THEN 0 ELSE t + 1
    BY <2>1, NextIs
  <2>3. Used(p) = IF h <= n THEN n - h ELSE n - h + SEND_SIZE
    <3>1. p.head = h /\ p.tail = n
      BY <2>1
    <3> HIDE DEF p
    <3> QED BY <1>4, <3>1, UsedIs
  <2>4. Used(r) = IF h <= t THEN t - h ELSE t - h + SEND_SIZE
    BY <2>1, UsedIs
  <2>5. n # h
    BY <1>2, <2>1
  <2> HIDE DEF p
  <2> QED BY <2>2, <2>3, <2>4, <2>5 DEF Slot
<1>6. send_buffer_free(p) = send_buffer_free(r) - 1
  <2> HIDE DEF p
  <2> QED BY <1>4, <1>5, UsedIs
<1>7. BytesOf(p) = Append(BytesOf(r), byte)
  <2>0. /\ BytesOf(p) \in Seq(Byte) /\ Len(BytesOf(p)) = Used(r) + 1
        /\ BytesOf(r) \in Seq(Byte) /\ Len(BytesOf(r)) = Used(r) /\ Used(r) \in 0 .. SEND_SIZE - 1
    <3> HIDE DEF p
    <3> QED BY <1>4, <1>5, Held, UsedIs
  <2>1. /\ Append(BytesOf(r), byte) \in Seq(Byte) /\ Len(Append(BytesOf(r), byte)) = Used(r) + 1
        /\ \A i \in 1 .. Used(r) : Append(BytesOf(r), byte)[i] = BytesOf(r)[i]
        /\ Append(BytesOf(r), byte)[Used(r) + 1] = byte
    BY <2>0, AppendProperties
  <2>2. ASSUME NEW i \in 1 .. Used(r) + 1
        PROVE  BytesOf(p)[i] = Append(BytesOf(r), byte)[i]
    <3> DEFINE slot == IF r.head + i <= SEND_SIZE THEN r.head + i - 1 ELSE r.head + i - 1 - SEND_SIZE
    <3>1. slot \in Slot
      <4>1. PICK S, h, u : S = SEND_SIZE /\ h = r.head /\ u = Used(r)
        OBVIOUS
      <4>2. S \in Int /\ h \in Int /\ u \in Int /\ i \in Int /\ 0 <= h /\ h <= S - 1
            /\ u <= S - 1 /\ 1 <= i /\ i <= u + 1
        BY <1>1, <2>0, <4>1 DEF Slot
      <4>3. h + i <= S => h + i - 1 \in 0 .. S - 1
        BY ONLY <4>2
      <4>4. ~(h + i <= S) => h + i - 1 - S \in 0 .. S - 1
        BY ONLY <4>2
      <4> QED BY <4>1, <4>3, <4>4 DEF Slot
    <3>2. BytesOf(p)[i] = p.buffer[slot]
      <4>1. p.head = r.head
        OBVIOUS
      <4> HIDE DEF p
      <4> QED BY <1>4, <1>5, <4>1, Held
    <3>3. i \in 1 .. Used(r) => BytesOf(r)[i] = r.buffer[slot]
      BY Held
    <3>4. slot = r.tail <=> i = Used(r) + 1
      <4>1. PICK h \in Slot, t \in Slot, u \in 0 .. SEND_SIZE - 1 : h = r.head /\ t = r.tail /\ u = Used(r)
        BY <1>1, <2>0
      <4>2. u = IF h <= t THEN t - h ELSE t - h + SEND_SIZE
        BY <4>1, UsedIs
      <4>3. i \in 1 .. u + 1 /\ slot = IF h + i <= SEND_SIZE THEN h + i - 1 ELSE h + i - 1 - SEND_SIZE
        BY <4>1
      <4> HIDE DEF slot
      <4>4. slot = t <=> i = u + 1
        BY <4>2, <4>3 DEF Slot
      <4> QED BY <4>1, <4>4
    <3>5. p.buffer[slot] = IF slot = r.tail THEN byte ELSE r.buffer[slot]
      BY <1>1, <3>1
    <3> HIDE DEF p, slot
    <3>6. i = Used(r) + 1 \/ i \in 1 .. Used(r)
      BY <2>0
    <3> QED BY <2>0, <2>1, <3>2, <3>3, <3>4, <3>5, <3>6
  <2> HIDE DEF p
  <2> QED BY <2>0, <2>1, <2>2, SameElements
<1> HIDE DEF p
<1> QED BY <1>3, <1>4, <1>6, <1>7

(* What send_drain takes is the ring's first byte.                         *)
Popped(r) == [r EXCEPT !.buffer[r.head] = "none", !.head = next(@)]

LEMMA Drained ==
    ASSUME NEW r \in Rings, r.head # r.tail
    PROVE  /\ Popped(r) \in Rings
           /\ send_buffer_free(Popped(r)) = send_buffer_free(r) + 1
           /\ BytesOf(r) # <<>> /\ r.buffer[r.head] = Head(BytesOf(r))
           /\ BytesOf(Popped(r)) = Tail(BytesOf(r))
<1> DEFINE p == [buffer |-> [r.buffer EXCEPT ![r.head] = "none"], head |-> next(r.head), tail |-> r.tail]
<1>1. /\ r.head \in Slot /\ r.tail \in Slot /\ r.buffer \in [Slot -> Byte]
      /\ r = [buffer |-> r.buffer, head |-> r.head, tail |-> r.tail]
  BY DEF Rings
<1>3. Popped(r) = p
  <2>1. PICK b, h, t : /\ r = [buffer |-> b, head |-> h, tail |-> t]
                       /\ b = r.buffer /\ h = r.head /\ t = r.tail
    BY <1>1
  <2>2. Popped(r) = [r EXCEPT !.buffer = [b EXCEPT ![h] = "none"], !.head = next(h)]
    BY <2>1 DEF Popped
  <2> QED BY <2>1, <2>2
<1>4. p \in Rings
  <2>1. "none" \in Byte
    BY DEF Byte
  <2> QED BY <1>1, <2>1, NextIs DEF Rings
<1>5. Used(p) = Used(r) - 1 /\ Used(r) \in 1 .. SEND_SIZE - 1
  <2>1. PICK h \in Slot, t \in Slot, n \in Slot : h = r.head /\ t = r.tail /\ n = next(h)
    BY <1>1, NextIs
  <2>2. n = IF h = SEND_SIZE - 1 THEN 0 ELSE h + 1
    BY <2>1, NextIs
  <2>3. Used(p) = IF n <= t THEN t - n ELSE t - n + SEND_SIZE
    <3>1. p.head = n /\ p.tail = t
      BY <2>1
    <3> HIDE DEF p
    <3> QED BY <1>4, <3>1, UsedIs
  <2>4. Used(r) = IF h <= t THEN t - h ELSE t - h + SEND_SIZE
    BY <2>1, UsedIs
  <2>5. t # h
    BY <2>1
  <2> HIDE DEF p
  <2> QED BY <2>2, <2>3, <2>4, <2>5 DEF Slot
<1>6. send_buffer_free(p) = send_buffer_free(r) + 1
  <2> HIDE DEF p
  <2> QED BY <1>4, <1>5, UsedIs
<1>7. /\ BytesOf(p) \in Seq(Byte) /\ Len(BytesOf(p)) = Used(r) - 1
      /\ BytesOf(r) \in Seq(Byte) /\ Len(BytesOf(r)) = Used(r)
  <2> HIDE DEF p
  <2> QED BY <1>4, <1>5, Held, UsedIs
<1>8. /\ BytesOf(r) # <<>> /\ Head(BytesOf(r)) = BytesOf(r)[1]
      /\ Tail(BytesOf(r)) \in Seq(Byte) /\ Len(Tail(BytesOf(r))) = Used(r) - 1
      /\ \A i \in 1 .. Used(r) - 1 : Tail(BytesOf(r))[i] = BytesOf(r)[i + 1]
  BY <1>5, <1>7, HeadTailProperties, EmptySeq
<1>9. BytesOf(r)[1] = r.buffer[r.head]
  <2>1. 1 \in 1 .. Used(r) /\ r.head + 1 <= SEND_SIZE /\ r.head + 1 - 1 = r.head
    BY <1>1, <1>5 DEF Slot
  <2> QED BY <2>1, Held
<1>10. ASSUME NEW i \in 1 .. Used(r) - 1
       PROVE  BytesOf(p)[i] = Tail(BytesOf(r))[i]
  <2>1. PICK h \in Slot, n \in Slot, u \in 1 .. SEND_SIZE - 1 :
          h = r.head /\ n = next(h) /\ u = Used(r)
    BY <1>1, <1>5, NextIs
  <2>2. PICK slot \in Slot : slot = IF h + i + 1 <= SEND_SIZE THEN h + i ELSE h + i - SEND_SIZE
    BY <2>1 DEF Slot
  <2>3. i \in 1 .. u - 1 /\ i + 1 \in 1 .. u /\ i \in 1 .. u
    BY <2>1
  <2>4. BytesOf(r)[i + 1] = r.buffer[slot]
    <3>1. slot = IF h + (i + 1) <= SEND_SIZE THEN h + (i + 1) - 1 ELSE h + (i + 1) - 1 - SEND_SIZE
      BY <2>2, <2>3 DEF Slot
    <3> QED BY <2>1, <2>3, <3>1, Held
  <2>5. BytesOf(p)[i] = p.buffer[slot]
    <3>1. p.head = n
      BY <2>1
    <3>2. n = IF h = SEND_SIZE - 1 THEN 0 ELSE h + 1
      BY <2>1, NextIs
    <3>3. slot = IF n + i <= SEND_SIZE THEN n + i - 1 ELSE n + i - 1 - SEND_SIZE
      BY <2>2, <2>3, <3>2 DEF Slot
    <3> HIDE DEF p
    <3> QED BY <1>4, <1>5, <3>1, <3>3, Held
  <2>6. slot # h
    BY <2>2, <2>3 DEF Slot
  <2>7. p.buffer[slot] = r.buffer[slot]
    BY <1>1, <2>1, <2>6
  <2> HIDE DEF p
  <2> QED BY <1>8, <2>4, <2>5, <2>7
<1>11. BytesOf(p) = Tail(BytesOf(r))
  <2> HIDE DEF p
  <2> QED BY <1>7, <1>8, <1>10, SameElements
<1> HIDE DEF p
<1> QED BY <1>3, <1>4, <1>6, <1>8, <1>9, <1>11
--------------------------------------------------------------------------------
(* Induction, as a statement about a set of numbers.                       *)
LEMMA LeastElement ==
    ASSUME NEW D \in SUBSET Nat, D # {}
    PROVE  \E n \in D : \A m \in D : n <= m
<1> DEFINE less == {ss \in Nat \X Nat : ss[1] < ss[2]}
<1>1. IsWellFoundedOn(less, Nat)
  BY NatLessThanWellFounded DEF OpToRel
<1>2. PICK n \in D : \A m \in D : ~(<<m, n>> \in less)
  <2> HIDE DEF less
  <2> QED BY <1>1, WFMin
<1>3. \A m \in D : n <= m
  <2> TAKE m \in D
  <2>1. m \in Nat /\ n \in Nat /\ <<m, n>> \in Nat \X Nat
    OBVIOUS
  <2>2. ~(<<m, n>>[1] < <<m, n>>[2])
    BY <1>2, <2>1
  <2> QED BY <2>1, <2>2
<1> QED BY <1>3

(* Induction over a set of numbers.                                        *)
LEMMA InductionOnSet ==
    ASSUME NEW bound \in Nat, NEW S, 0 \in S,
           \A n \in 1 .. bound : n - 1 \in S => n \in S
    PROVE  0 .. bound \subseteq S
<1> DEFINE D == {n \in 0 .. bound : n \notin S}
<1>1. SUFFICES ASSUME D # {} PROVE FALSE
  OBVIOUS
<1>2. D \in SUBSET Nat
  OBVIOUS
<1>3. PICK n \in D : \A m \in D : n <= m
  <2> HIDE DEF D
  <2> QED BY <1>1, <1>2, LeastElement
<1>4. n \in 1 .. bound /\ n - 1 \in 0 .. bound /\ n - 1 \notin D
  BY <1>3
<1> QED BY <1>3, <1>4

(* A value computed in steps, as a recursive function computes it.         *)
Computes(g, S, first, N, step) ==
    /\ g \in [0 .. N -> S]
    /\ g[0] = first
    /\ \A n \in 1 .. N : g[n] = step[n][g[n - 1]]

LEMMA Iterates ==
    ASSUME NEW S, NEW first \in S, NEW N \in Nat, NEW step \in [1 .. N -> [S -> S]]
    PROVE  \E g : Computes(g, S, first, N, step)
<1> DEFINE Runs(m) == {g \in [0 .. m -> S] :
                         g[0] = first /\ \A n \in 1 .. m : g[n] = step[n][g[n - 1]]}
           some == {m \in 0 .. N : Runs(m) # {}}
<1>1. 0 \in some
  <2>1. [n \in 0 .. 0 |-> first] \in Runs(0)
    OBVIOUS
  <2> HIDE DEF Runs
  <2> QED BY <2>1
<1>2. ASSUME NEW m \in 1 .. N, m - 1 \in some
      PROVE  m \in some
  <2>1. PICK g \in [0 .. m - 1 -> S] : g[0] = first /\ \A n \in 1 .. m - 1 : g[n] = step[n][g[n - 1]]
    BY <1>2
  <2>2. PICK last \in S : last = step[m][g[m - 1]]
    <3>1. m - 1 \in 0 .. m - 1
      OBVIOUS
    <3> QED BY <2>1, <3>1
  <2> DEFINE h == [n \in 0 .. m |-> IF n = m THEN last ELSE g[n]]
  <2>3. \A n \in 0 .. m : n = m \/ n \in 0 .. m - 1
    OBVIOUS
  <2>4. h \in [0 .. m -> S] /\ h[0] = first
    BY <2>1, <2>2, <2>3
  <2>5. ASSUME NEW n \in 1 .. m
        PROVE  h[n] = step[n][h[n - 1]]
    <3>1. n - 1 \in 0 .. m /\ n - 1 # m /\ n \in 0 .. m /\ (n # m => n \in 1 .. m - 1)
      OBVIOUS
    <3>2. h[n - 1] = g[n - 1]
      BY <3>1
    <3>3. CASE n = m
      BY <2>2, <3>1, <3>2, <3>3
    <3>4. CASE n # m
      BY <2>1, <3>1, <3>2, <3>4
    <3> QED BY <3>3, <3>4
  <2> HIDE DEF h
  <2>6. h \in Runs(m)
    BY <2>4, <2>5
  <2> HIDE DEF Runs
  <2> QED BY <2>6
<1>3. 0 .. N \subseteq some
  <2> HIDE DEF some
  <2> QED BY <1>1, <1>2, InductionOnSet
<1> QED BY <1>3 DEF Computes

Prefix(bytes, n) == [i \in 1 .. n |-> bytes[i]]

LEMMA LongerPrefix ==
    ASSUME NEW S, NEW bytes \in Seq(S), NEW n \in 1 .. Len(bytes)
    PROVE  /\ Prefix(bytes, n - 1) \in Seq(S) /\ bytes[n] \in S
           /\ Prefix(bytes, n) = Append(Prefix(bytes, n - 1), bytes[n])
BY DEF Prefix

(* send_push_text's loop, on a ring with room for all the bytes.           *)
LEMMA AllPushed ==
    ASSUME NEW r \in Rings, NEW bytes \in Seq(Byte), Len(bytes) <= send_buffer_free(r)
    PROVE  /\ send_push(r, bytes) \in Rings
           /\ send_buffer_free(send_push(r, bytes)) = send_buffer_free(r) - Len(bytes)
           /\ BytesOf(send_push(r, bytes)) = BytesOf(r) \o bytes
<1> DEFINE N == Len(bytes)
           Def(g) == [n \in 0 .. N |-> IF n = 0 THEN r ELSE send_push_raw(g[n - 1], bytes[n])]
           pushed == CHOOSE g : g = Def(g)
<1>0. N \in Nat /\ \A n \in 1 .. N : bytes[n] \in Byte
  OBVIOUS
<1>3. send_push(r, bytes) = pushed[N]
  BY DEF send_push
<1> HIDE DEF N
<1>2. pushed = Def(pushed)
  <2> DEFINE step == [n \in 1 .. N |-> [p \in Rings |-> send_push_raw(p, bytes[n])]]
  <2>1. step \in [1 .. N -> [Rings -> Rings]]
    BY <1>0, PushType
  <2>2. \A n \in 1 .. N, p \in Rings : step[n][p] = send_push_raw(p, bytes[n])
    OBVIOUS
  <2> HIDE DEF step
  <2>3. PICK g \in [0 .. N -> Rings] : g[0] = r /\ \A n \in 1 .. N : g[n] = step[n][g[n - 1]]
    <3>1. \E g : Computes(g, Rings, r, N, step)
      BY <1>0, <2>1, Iterates
    <3> QED BY <3>1 DEF Computes
  <2>4. ASSUME NEW n \in 0 .. N
        PROVE  g[n] = Def(g)[n]
    <3>1. n # 0 => n \in 1 .. N /\ n - 1 \in 0 .. N
      BY <1>0
    <3>2. n # 0 => g[n - 1] \in Rings
      BY <2>3, <3>1
    <3> QED BY <2>2, <2>3, <3>1, <3>2
  <2>5. g = Def(g)
    BY <2>3, <2>4
  <2> HIDE DEF Def
  <2> QED BY <2>5
<1> DEFINE Good(p, n) == /\ p \in Rings
                         /\ send_buffer_free(p) = send_buffer_free(r) - n
                         /\ BytesOf(p) = BytesOf(r) \o Prefix(bytes, n)
           good == {n \in 0 .. N : Good(pushed[n], n)}
<1>4. BytesOf(r) \in Seq(Byte) /\ send_buffer_free(r) \in Int /\ N <= send_buffer_free(r)
  BY Held, UsedIs DEF N
<1> HIDE DEF pushed
<1>5. 0 \in good
  <2>1. pushed[0] = r
    BY <1>0, <1>2
  <2>2. Prefix(bytes, 0) = <<>>
    BY DEF Prefix
  <2>3. BytesOf(r) \o <<>> = BytesOf(r)
    BY <1>4
  <2> QED BY <1>0, <1>4, <2>1, <2>2, <2>3
<1>6. ASSUME NEW n \in 1 .. N, n - 1 \in good
      PROVE  n \in good
  <2>1. pushed[n] = send_push_raw(pushed[n - 1], bytes[n])
    <3>1. n \in 0 .. N /\ n # 0
      BY <1>0
    <3>2. pushed[n] = Def(pushed)[n]
      BY <1>2
    <3> QED BY <3>1, <3>2
  <2>2. PICK p : p = pushed[n - 1]
    OBVIOUS
  <2>3. Good(p, n - 1)
    BY <1>6, <2>2
  <2>4. bytes[n] \in Byte /\ send_buffer_free(p) > 0
    BY <1>0, <1>4, <2>3 DEF N
  <2>5. PICK q : q = send_push_raw(p, bytes[n])
    OBVIOUS
  <2>6. /\ q \in Rings /\ send_buffer_free(q) = send_buffer_free(p) - 1
        /\ BytesOf(q) = Append(BytesOf(p), bytes[n])
    BY <2>3, <2>4, <2>5, Pushed
  <2>7. BytesOf(q) = BytesOf(r) \o Prefix(bytes, n)
    <3>1. PICK pre \in Seq(Byte) : pre = Prefix(bytes, n - 1)
      BY LongerPrefix DEF N
    <3>2. Prefix(bytes, n) = Append(pre, bytes[n])
      BY <3>1, LongerPrefix DEF N
    <3>3. PICK x \in Seq(Byte) : x = BytesOf(r)
      BY <1>4
    <3>4. x \o Append(pre, bytes[n]) = Append(x \o pre, bytes[n])
      BY <2>4
    <3> QED BY <2>3, <2>6, <3>1, <3>2, <3>3, <3>4
  <2>8. send_buffer_free(q) = send_buffer_free(r) - n
    BY <1>0, <1>4, <2>3, <2>6
  <2> QED BY <1>0, <2>1, <2>2, <2>5, <2>6, <2>7, <2>8
<1>7. 0 .. N \subseteq good
  <2> HIDE DEF good
  <2> QED BY <1>0, <1>5, <1>6, InductionOnSet
<1>8. Prefix(bytes, N) = bytes
  BY DEF Prefix, N
<1>9. Good(pushed[N], N)
  BY <1>0, <1>7
<1> QED BY <1>3, <1>8, <1>9 DEF N

(* A text's CRs and LFs are bytes like the others.                         *)
LEMMA EncodedBytes ==
    ASSUME NEW text \in Seq(Byte)
    PROVE  Encoded(text) \in Seq(Byte)
<1> DEFINE N == Len(text)
           code(n) == IF text[n] = "LF" THEN <<"CR", "LF">> ELSE <<text[n]>>
           Def(g) == [n \in 0 .. N |-> IF n = 0 THEN <<>> ELSE g[n - 1] \o code(n)]
           sent == CHOOSE g : g = Def(g)
<1>0. N \in Nat
  OBVIOUS
<1>1. \A n \in 1 .. N : code(n) \in Seq(Byte)
  <2>1. "CR" \in Byte /\ "LF" \in Byte
    BY DEF Byte
  <2>2. <<"CR", "LF">> \in Seq(Byte)
    BY <2>1
  <2>3. \A n \in 1 .. N : text[n] \in Byte
    OBVIOUS
  <2>4. \A n \in 1 .. N : <<text[n]>> \in Seq(Byte)
    BY <2>3
  <2> QED BY <2>2, <2>4
<1>3. Encoded(text) = sent[N]
  BY DEF Encoded
<1> HIDE DEF N, code
<1>2. sent = Def(sent)
  <2> DEFINE step == [n \in 1 .. N |-> [x \in Seq(Byte) |-> x \o code(n)]]
  <2>1. step \in [1 .. N -> [Seq(Byte) -> Seq(Byte)]]
    <3>1. ASSUME NEW n \in 1 .. N, NEW x \in Seq(Byte)
          PROVE  x \o code(n) \in Seq(Byte)
      BY <1>1
    <3> QED BY <3>1
  <2>2. \A n \in 1 .. N, x \in Seq(Byte) : step[n][x] = x \o code(n)
    OBVIOUS
  <2> HIDE DEF step
  <2>3. PICK g \in [0 .. N -> Seq(Byte)] : g[0] = <<>> /\ \A n \in 1 .. N : g[n] = step[n][g[n - 1]]
    <3>1. \E g : Computes(g, Seq(Byte), <<>>, N, step)
      <4>1. <<>> \in Seq(Byte)
        OBVIOUS
      <4> QED BY <1>0, <2>1, <4>1, Iterates
    <3> QED BY <3>1 DEF Computes
  <2>4. ASSUME NEW n \in 0 .. N
        PROVE  g[n] = Def(g)[n]
    <3>1. n # 0 => n \in 1 .. N /\ n - 1 \in 0 .. N
      BY <1>0
    <3>2. n # 0 => g[n - 1] \in Seq(Byte)
      BY <2>3, <3>1
    <3> QED BY <2>2, <2>3, <3>1, <3>2
  <2>5. g = Def(g)
    BY <2>3, <2>4
  <2> HIDE DEF Def
  <2> QED BY <2>5
<1> DEFINE good == {n \in 0 .. N : sent[n] \in Seq(Byte)}
<1> HIDE DEF sent
<1>5. 0 \in good
  <2>1. sent[0] = <<>>
    BY <1>0, <1>2
  <2>2. <<>> \in Seq(Byte)
    OBVIOUS
  <2>3. 0 \in 0 .. N
    BY <1>0
  <2> QED BY <2>1, <2>2, <2>3
<1>6. ASSUME NEW n \in 1 .. N, n - 1 \in good
      PROVE  n \in good
  <2>1. sent[n] = sent[n - 1] \o code(n)
    <3>1. n \in 0 .. N /\ n # 0
      BY <1>0
    <3>2. sent[n] = Def(sent)[n]
      BY <1>2
    <3> QED BY <3>1, <3>2
  <2>2. PICK a \in Seq(Byte), b \in Seq(Byte) : a = sent[n - 1] /\ b = code(n)
    BY <1>1, <1>6
  <2>3. a \o b \in Seq(Byte)
    OBVIOUS
  <2>4. n \in 0 .. N
    BY <1>0
  <2> QED BY <2>1, <2>2, <2>3, <2>4
<1>7. 0 .. N \subseteq good
  <2> HIDE DEF good
  <2> QED BY <1>0, <1>5, <1>6, InductionOnSet
<1> QED BY <1>0, <1>3, <1>7
--------------------------------------------------------------------------------
(* The transmit FIFO and its interrupt.                                    *)
FifoOK ==
    /\ txfifo \in Seq(Byte)
    /\ Len(txfifo) <= TX_FIFO
    /\ tx \in [enabled : BOOLEAN, raised : BOOLEAN]

(* The ring has room for what the thread has yet to push, and a handler    *)
(* runs only while the thread is not in its masked section.                *)
WritersOK ==
    /\ ring \in Rings
    /\ thread \in [at : {"recv", "push", "drain"}, rest : Seq(Byte)]
    /\ thread.at # "push" => thread.rest = <<>>
    /\ Len(thread.rest) <= send_buffer_free(ring)
    /\ irq \in {"idle", "rx", "echo", "drain"}
    /\ irq # "idle" => thread.at = "recv"

Outputs == {Encoded(text) : text \in Texts \cup Echoes}

(* All that has been accepted and has not left the UART.                   *)
OnItsWay == txfifo \o RingBytes \o thread.rest

(* A step of TextPipe or a stutter.                                        *)
PipeStep ==
    \/ OnItsWay' = OnItsWay
    \/ OnItsWay # <<>> /\ OnItsWay' = Tail(OnItsWay)
    \/ \E text \in Outputs : OnItsWay' = OnItsWay \o text

LEMMA RingBytesAre == RingBytes = BytesOf(ring) /\ RingBytes' = BytesOf(ring')
BY DEF RingBytes, BytesOf, Used

LEMMA TextsAreBytes ==
    /\ \A text \in Texts : text \in Seq(Byte)
    /\ \A text \in Echoes : text \in Seq(Byte)
<1>1. ASSUME NEW text \in Texts PROVE text \in Seq(Byte)
  <2>1. UNION {ToSet(t) : t \in Texts} \subseteq Byte
    BY DEF Byte
  <2>2. text \in Seq(UNION {ToSet(t) : t \in Texts})
    BY TextAssumption
  <2> HIDE DEF Byte
  <2>3. PICK B : B = UNION {ToSet(t) : t \in Texts}
    OBVIOUS
  <2> QED BY <2>1, <2>2, <2>3, SeqMonotonic
<1>2. ASSUME NEW text \in Echoes PROVE text \in Seq(Byte)
  <2>1. /\ "LF" \in Byte /\ "^C" \in Byte /\ "BS" \in Byte
        /\ "SP" \in Byte /\ "a" \in Byte /\ "BEL" \in Byte
    BY DEF Byte
  <2>2. /\ <<"LF">> \in Seq(Byte) /\ <<"a">> \in Seq(Byte) /\ <<"BEL">> \in Seq(Byte)
        /\ <<"^C", "LF">> \in Seq(Byte)
    BY <2>1
  <2>3. <<"BS", "SP", "BS">> \in Seq(Byte)
    BY <2>1
  <2> QED BY <2>2, <2>3 DEF Echoes
<1> QED BY <1>1, <1>2

(* send_drain's loop moves the ring's first byte to the FIFO, while it has *)
(* room.                                                                   *)
LEMMA DrainByte ==
    ASSUME FifoOK, ring \in Rings, drain_byte
    PROVE  /\ FifoOK' /\ ring' \in Rings
           /\ send_buffer_free(ring') = send_buffer_free(ring) + 1
           /\ txfifo' \o RingBytes' = txfifo \o RingBytes
<1>1. PICK byte : byte = ring.buffer[ring.head]
  OBVIOUS
<1>2. ring.head # ring.tail /\ ring' = Popped(ring) /\ serial_send_byte(byte)
  BY <1>1 DEF drain_byte, RingEmpty, Popped
<1>3. /\ ring' \in Rings /\ send_buffer_free(ring') = send_buffer_free(ring) + 1
      /\ BytesOf(ring) # <<>> /\ byte = Head(BytesOf(ring))
      /\ BytesOf(ring') = Tail(BytesOf(ring)) /\ BytesOf(ring) \in Seq(Byte)
  BY <1>1, <1>2, Drained, Held
<1>4. Len(txfifo) \in Nat /\ Len(txfifo) < TX_FIFO /\ txfifo \in Seq(Byte)
  BY DEF FifoOK, drain_byte, serial_is_send_enable
<1>5. byte \in Byte
  BY <1>3
<1>6. txfifo' = Append(txfifo, byte)
  BY <1>2 DEF serial_send_byte
<1>7. txfifo' \in Seq(Byte) /\ Len(txfifo') = Len(txfifo) + 1
  BY <1>4, <1>5, <1>6
<1>8. tx' \in [enabled : BOOLEAN, raised : BOOLEAN]
  BY <1>2 DEF FifoOK, serial_send_byte
<1>9. FifoOK'
  BY <1>4, <1>7, <1>8 DEF FifoOK
<1>10. txfifo' \o RingBytes' = txfifo \o RingBytes
  <2>1. PICK x \in Seq(Byte), y \in Seq(Byte) : x = txfifo /\ y = BytesOf(ring)
    BY <1>3, <1>4
  <2>2. Append(x, Head(y)) \o Tail(y) = x \o y
    BY <1>3, <2>1
  <2> QED BY <1>3, <1>6, <2>1, <2>2, RingBytesAre
<1> QED BY <1>3, <1>9, <1>10

(* It ends with an empty ring, or with a full FIFO and the interrupt       *)
(* enabled.                                                                *)
LEMMA DrainEnd ==
    ASSUME FifoOK, drain_end
    PROVE  /\ FifoOK' /\ UNCHANGED <<ring, txfifo>>
           /\ ~RingEmpty' => tx'.enabled /\ Len(txfifo') > TX_LEVEL
<1>1. UNCHANGED <<ring, txfifo>> /\ RingEmpty' = RingEmpty
  BY DEF drain_end, RingEmpty
<1>2. tx' \in [enabled : BOOLEAN, raised : BOOLEAN]
  BY DEF drain_end, FifoOK, serial_intr_send_disable, serial_intr_send_enable
<1>3. ASSUME ~RingEmpty
      PROVE  tx'.enabled /\ Len(txfifo') > TX_LEVEL
  <2>1. ~(Len(txfifo) < TX_FIFO) /\ Len(txfifo) \in Nat
    BY <1>3, LenProperties DEF drain_end, serial_is_send_enable, FifoOK
  <2>2. tx'.enabled
    BY <1>3 DEF drain_end, FifoOK, serial_intr_is_send_enable, serial_intr_send_enable
  <2> QED BY <1>1, <2>1, <2>2
<1> QED BY <1>1, <1>2, <1>3 DEF FifoOK

LEMMA Unmoved ==
    ASSUME UNCHANGED <<ring, txfifo, thread>>
    PROVE  OnItsWay' = OnItsWay
BY DEF OnItsWay, RingBytes

(* A sequence in three parts: its middle may take the first of the last.   *)
LEMMA MovedOver ==
    ASSUME NEW a \in Seq(Byte), NEW b \in Seq(Byte), NEW c \in Seq(Byte), c # <<>>
    PROVE  a \o Append(b, Head(c)) \o Tail(c) = a \o b \o c
<1>1. Head(c) \in Byte
  OBVIOUS
<1>2. \A h \in Byte : a \o Append(b, h) = Append(a \o b, h)
  OBVIOUS
<1>3. PICK x \in Seq(Byte) : x = a \o b
  <2>1. a \in Seq(Byte) /\ b \in Seq(Byte)
    OBVIOUS
  <2>2. a \o b \in Seq(Byte)
    BY ONLY <2>1
  <2> QED BY <2>2
<1>4. Append(x, Head(c)) \o Tail(c) = x \o c
  <2>1. x \in Seq(Byte) /\ c \in Seq(Byte) /\ c # <<>>
    OBVIOUS
  <2> QED BY ONLY <2>1
<1> QED BY <1>1, <1>2, <1>3, <1>4

(* The first of a sequence in three parts is the first of its first part.  *)
LEMMA FirstLeaves ==
    ASSUME NEW a \in Seq(Byte), NEW b \in Seq(Byte), NEW c \in Seq(Byte), a # <<>>
    PROVE  a \o b \o c # <<>> /\ Tail(a) \o b \o c = Tail(a \o b \o c)
<1>1. PICK x \in Seq(Byte) : x = a \o b
  <2>1. a \in Seq(Byte) /\ b \in Seq(Byte)
    OBVIOUS
  <2>2. a \o b \in Seq(Byte)
    BY ONLY <2>1
  <2> QED BY <2>2
<1>2. x # <<>> /\ Tail(x) = Tail(a) \o b
  BY <1>1
<1>3. x \o c # <<>> /\ Tail(x \o c) = Tail(x) \o c
  BY <1>2
<1> QED BY <1>1, <1>2, <1>3

LEMMA Concatenated ==
    ASSUME NEW a \in Seq(Byte), NEW b \in Seq(Byte), NEW c \in Seq(Byte)
    PROVE  /\ a \o b \in Seq(Byte) /\ a \o <<>> = a
           /\ (a \o b) \o c = a \o (b \o c)
OBVIOUS

(* send_text: accepts a text the pipe can take, and moves bytes on.        *)
LEMMA SendText ==
    ASSUME FifoOK, WritersOK, send_text
    PROVE  FifoOK' /\ WritersOK' /\ PipeStep
<1>1. PICK t \in Seq(Byte), r \in Seq(Byte), rest \in Seq(Byte) :
        t = txfifo /\ r = BytesOf(ring) /\ rest = thread.rest
  BY Held DEF FifoOK, WritersOK
<1>2. OnItsWay = t \o r \o rest
  BY <1>1, RingBytesAre DEF OnItsWay
<1>3. irq = "idle" /\ irq' = irq
  BY DEF send_text
<1>4. CASE thread.at = "recv" /\ \E text \in Texts :
              Fits(text) /\ thread' = [at |-> "push", rest |-> Encoded(text)] /\ UNCHANGED <<ring, txfifo, tx>>
  <2>1. PICK text \in Texts :
          Fits(text) /\ thread' = [at |-> "push", rest |-> Encoded(text)] /\ UNCHANGED <<ring, txfifo, tx>>
    BY <1>4
  <2>2. PICK bytes \in Seq(Byte) : bytes = Encoded(text)
    BY EncodedBytes, TextsAreBytes
  <2>3. WritersOK'
    BY <1>3, <2>1, <2>2 DEF WritersOK, Fits, send_required_size
  <2>4. OnItsWay' = t \o r \o bytes
    BY <1>1, <2>1, <2>2, RingBytesAre DEF OnItsWay
  <2>5. rest = <<>>
    BY <1>1, <1>4 DEF WritersOK
  <2>6. OnItsWay' = OnItsWay \o bytes
    BY <1>2, <2>4, <2>5, Concatenated
  <2>7. bytes \in Outputs
    BY <2>1, <2>2 DEF Outputs
  <2>8. FifoOK'
    BY <2>1 DEF FifoOK
  <2> QED BY <2>3, <2>6, <2>7, <2>8 DEF PipeStep
<1>5. CASE /\ thread.at = "push" /\ thread.rest # <<>>
           /\ ring' = send_push_raw(ring, Head(thread.rest))
           /\ thread' = [thread EXCEPT !.rest = Tail(@)]
           /\ UNCHANGED <<txfifo, tx>>
  <2>1. Head(rest) \in Byte /\ Tail(rest) \in Seq(Byte) /\ Len(Tail(rest)) = Len(rest) - 1 /\ Len(rest) > 0
        /\ Len(rest) \in Nat
    BY <1>1, <1>5
  <2>2. Len(rest) <= send_buffer_free(ring) /\ send_buffer_free(ring) \in Int /\ ring \in Rings
    BY <1>1, UsedIs DEF WritersOK
  <2>3. PICK byte \in Byte : byte = Head(rest)
    BY <2>1
  <2>4. /\ ring' \in Rings /\ send_buffer_free(ring') = send_buffer_free(ring) - 1
        /\ BytesOf(ring') = Append(r, Head(rest))
    <3>1. ring' = send_push_raw(ring, byte) /\ send_buffer_free(ring) > 0
      BY <1>1, <1>5, <2>1, <2>2, <2>3
    <3> QED BY <1>1, <2>2, <2>3, <3>1, Pushed
  <2>5. thread' = [at |-> "push", rest |-> Tail(rest)]
    BY <1>1, <1>5 DEF WritersOK
  <2>6. WritersOK'
    BY <1>3, <2>1, <2>2, <2>4, <2>5 DEF WritersOK
  <2>7. OnItsWay' = t \o Append(r, Head(rest)) \o Tail(rest)
    BY <1>1, <1>5, <2>4, <2>5, RingBytesAre DEF OnItsWay
  <2>8. OnItsWay' = OnItsWay
    <3>1. rest # <<>>
      BY <1>1, <1>5
    <3>2. t \in Seq(Byte) /\ r \in Seq(Byte) /\ rest \in Seq(Byte)
      OBVIOUS
    <3>3. t \o Append(r, Head(rest)) \o Tail(rest) = t \o r \o rest
      BY ONLY <3>1, <3>2, MovedOver
    <3> QED BY <1>2, <2>7, <3>3
  <2>9. FifoOK'
    BY <1>5 DEF FifoOK
  <2> QED BY <2>6, <2>8, <2>9 DEF PipeStep
<1>6. CASE /\ thread.at = "push" /\ thread.rest = <<>>
           /\ thread' = [thread EXCEPT !.at = "drain"]
           /\ UNCHANGED <<ring, txfifo, tx>>
  <2>1. thread' = [at |-> "drain", rest |-> <<>>]
    BY <1>6 DEF WritersOK
  <2>2. WritersOK'
    BY <1>3, <1>6, <2>1 DEF WritersOK
  <2>3. OnItsWay' = OnItsWay
    <3>1. thread'.rest = thread.rest /\ txfifo' = txfifo /\ RingBytes' = RingBytes
      BY <1>6, <2>1, RingBytesAre
    <3> QED BY <3>1 DEF OnItsWay
  <2> QED BY <1>6, <2>2, <2>3 DEF PipeStep, FifoOK
<1>7. CASE thread.at = "drain" /\ drain_byte /\ UNCHANGED thread
  <2>1. /\ FifoOK' /\ ring' \in Rings /\ send_buffer_free(ring') = send_buffer_free(ring) + 1
        /\ txfifo' \o RingBytes' = txfifo \o RingBytes
    BY <1>7, DrainByte DEF WritersOK
  <2>2. WritersOK'
    <3>1. send_buffer_free(ring) \in Int /\ Len(thread.rest) \in Nat
      BY UsedIs DEF WritersOK
    <3> QED BY <1>3, <1>7, <2>1, <3>1 DEF WritersOK
  <2> QED BY <1>7, <2>1, <2>2 DEF PipeStep, OnItsWay
<1>8. CASE thread.at = "drain" /\ drain_end /\ thread' = [thread EXCEPT !.at = "recv"]
  <2>1. thread' = [at |-> "recv", rest |-> <<>>] /\ thread.rest = <<>>
    BY <1>8 DEF WritersOK
  <2>2. FifoOK' /\ UNCHANGED <<ring, txfifo>>
    BY <1>8, DrainEnd
  <2>3. WritersOK'
    BY <1>3, <2>1, <2>2 DEF WritersOK
  <2>4. OnItsWay' = OnItsWay
    BY <2>1, <2>2, RingBytesAre DEF OnItsWay
  <2> QED BY <2>2, <2>3, <2>4 DEF PipeStep
<1> QED BY <1>4, <1>5, <1>6, <1>7, <1>8 DEF send_text

(* An echo is pushed whole, or dropped.                                    *)
LEMMA Echoed ==
    ASSUME WritersOK, NEW text \in Echoes, echo(text)
    PROVE  /\ ring' \in Rings /\ 0 <= send_buffer_free(ring') /\ irq' \in {"rx", "echo"}
           /\ \/ BytesOf(ring') = BytesOf(ring)
              \/ BytesOf(ring') = BytesOf(ring) \o Encoded(text)
<1>1. PICK bytes \in Seq(Byte) : bytes = Encoded(text)
  BY EncodedBytes, TextsAreBytes
<1>2. ring \in Rings /\ send_buffer_free(ring) \in Int /\ 0 <= send_buffer_free(ring)
  BY UsedIs DEF WritersOK
<1>3. CASE Fits(text)
  <2>1. Len(bytes) <= send_buffer_free(ring) /\ Len(bytes) \in Nat
    BY <1>1, <1>3 DEF Fits, send_required_size
  <2>2. ring' = send_push(ring, bytes) /\ irq' = "echo"
    BY <1>1, <1>3 DEF echo
  <2>3. bytes \in Seq(Byte) /\ ring \in Rings /\ Len(bytes) <= send_buffer_free(ring)
    BY <1>2, <2>1
  <2>4. PICK pushed : pushed = send_push(ring, bytes)
    OBVIOUS
  <2>5. /\ pushed \in Rings /\ send_buffer_free(pushed) = send_buffer_free(ring) - Len(bytes)
        /\ BytesOf(pushed) = BytesOf(ring) \o bytes
    BY ONLY <2>3, <2>4, AllPushed
  <2> QED BY <1>1, <1>2, <2>1, <2>2, <2>4, <2>5
<1>4. CASE ~Fits(text)
  BY <1>2, <1>4 DEF echo
<1> QED BY <1>3, <1>4

(* The handler: its echo goes behind everything, since the thread has      *)
(* nothing left to push while it runs.                                     *)
LEMMA Interrupt ==
    ASSUME FifoOK, WritersOK, consdrv_interrupt
    PROVE  FifoOK' /\ WritersOK' /\ PipeStep
<1>1. PICK t \in Seq(Byte), r \in Seq(Byte) : t = txfifo /\ r = BytesOf(ring)
  BY Held DEF FifoOK, WritersOK
<1>2. UNCHANGED thread
  BY DEF consdrv_interrupt
<1>3. CASE enter_interrupt
  <2>1. irq' = "rx" /\ thread.at = "recv" /\ UNCHANGED <<ring, txfifo, tx>>
    BY <1>3 DEF enter_interrupt, Masked, WritersOK
  <2> QED BY <1>2, <2>1, Unmoved DEF WritersOK, PipeStep, FifoOK
<1>4. ASSUME irq # "idle"
      PROVE  thread.at = "recv" /\ thread.rest = <<>> /\ OnItsWay = t \o r \o <<>> /\ OnItsWay = t \o r
  <2>1. thread.at = "recv" /\ thread.rest = <<>>
    BY <1>4 DEF WritersOK
  <2>2. OnItsWay = t \o r \o <<>>
    BY <1>1, <2>1, RingBytesAre DEF OnItsWay
  <2> QED BY <2>1, <2>2, Concatenated
<1>5. CASE receive_byte
  <2>1. irq = "rx" /\ UNCHANGED <<txfifo, tx>>
    BY <1>5 DEF receive_byte
  <2>2. PICK c : process_received_character(c)
    BY <1>5 DEF receive_byte
  <2>3. (\E text \in Echoes : echo(text)) \/ (irq' = "rx" /\ ring' = ring)
    BY <2>2 DEF process_received_character, type_character, Echoes
  <2>4. CASE irq' = "rx" /\ ring' = ring
    BY <1>2, <1>4, <2>1, <2>4, Unmoved DEF WritersOK, PipeStep, FifoOK
  <2>5. CASE \E text \in Echoes : echo(text)
    <3>1. PICK text \in Echoes : echo(text)
      BY <2>5
    <3>2. PICK bytes \in Seq(Byte) : bytes = Encoded(text)
      BY EncodedBytes, TextsAreBytes
    <3>3. /\ ring' \in Rings /\ 0 <= send_buffer_free(ring') /\ irq' \in {"rx", "echo"}
          /\ BytesOf(ring') = r \/ BytesOf(ring') = r \o bytes
      BY <1>1, <3>1, <3>2, Echoed
    <3>4. WritersOK'
      <4>1. thread.at = "recv" /\ thread.rest = <<>>
        BY <1>4, <2>1
      <4>2. Len(<<>>) = 0
        OBVIOUS
      <4> QED BY <1>2, <3>3, <4>1, <4>2 DEF WritersOK
    <3>5. OnItsWay' = t \o BytesOf(ring') \o <<>>
      BY <1>1, <1>2, <1>4, <2>1, RingBytesAre DEF OnItsWay
    <3>6. OnItsWay' = OnItsWay \/ OnItsWay' = OnItsWay \o bytes
      <4>1. CASE BytesOf(ring') = r
        BY <1>4, <2>1, <3>5, <4>1
      <4>2. CASE BytesOf(ring') = r \o bytes
        <5>1. t \o (r \o bytes) \o <<>> = t \o (r \o bytes) /\ t \o (r \o bytes) = (t \o r) \o bytes
          BY Concatenated
        <5> QED BY <1>4, <2>1, <3>5, <4>2, <5>1
      <4> QED BY <3>3, <4>1, <4>2
    <3>7. bytes \in Outputs
      BY <3>1, <3>2 DEF Outputs
    <3> QED BY <2>1, <3>4, <3>6, <3>7 DEF PipeStep, FifoOK
  <2> QED BY <2>3, <2>4, <2>5
<1>6. ASSUME irq # "idle", drain_byte, irq' = irq
      PROVE  FifoOK' /\ WritersOK' /\ PipeStep
  <2>1. /\ FifoOK' /\ ring' \in Rings /\ send_buffer_free(ring') = send_buffer_free(ring) + 1
        /\ txfifo' \o RingBytes' = txfifo \o RingBytes
    BY <1>6, DrainByte DEF WritersOK
  <2>2. WritersOK'
    <3>1. send_buffer_free(ring) \in Int /\ Len(thread.rest) \in Nat
      BY UsedIs DEF WritersOK
    <3> QED BY <1>2, <1>6, <2>1, <3>1 DEF WritersOK
  <2> QED BY <1>2, <2>1, <2>2 DEF PipeStep, OnItsWay
<1>7. ASSUME irq # "idle", drain_end, irq' \in {"rx", "idle"}
      PROVE  FifoOK' /\ WritersOK' /\ PipeStep
  <2>1. FifoOK' /\ UNCHANGED <<ring, txfifo>>
    BY <1>7, DrainEnd
  <2> QED BY <1>2, <1>4, <1>7, <2>1, Unmoved DEF WritersOK, PipeStep
<1>8. CASE clear_interrupts
  <2>1. irq = "rx" /\ irq' \in {"drain", "idle"} /\ UNCHANGED <<ring, txfifo>>
    BY <1>8 DEF clear_interrupts
  <2>2. tx' \in [enabled : BOOLEAN, raised : BOOLEAN]
    <3>1. tx \in [enabled : BOOLEAN, raised : BOOLEAN]
      BY DEF FifoOK
    <3>2. tx' \in {tx, serial_intr_clear_send, serial_intr_send_disable}
      BY <1>8 DEF clear_interrupts
    <3>3. serial_intr_clear_send \in [enabled : BOOLEAN, raised : BOOLEAN]
      BY <3>1 DEF serial_intr_clear_send
    <3>4. serial_intr_send_disable \in [enabled : BOOLEAN, raised : BOOLEAN]
      BY DEF serial_intr_send_disable
    <3> QED BY <3>1, <3>2, <3>3, <3>4
  <2> QED BY <1>2, <1>4, <2>1, <2>2, Unmoved DEF WritersOK, PipeStep, FifoOK
<1>9. CASE drain_echo
  BY <1>6, <1>7, <1>9 DEF drain_echo
<1>10. CASE drain_ring
  BY <1>6, <1>7, <1>10 DEF drain_ring
<1> QED BY <1>3, <1>5, <1>8, <1>9, <1>10 DEF consdrv_interrupt

(* The line sends the first byte of the FIFO.                              *)
LEMMA Transmit ==
    ASSUME FifoOK, WritersOK, transmit
    PROVE  FifoOK' /\ WritersOK' /\ PipeStep
<1>1. PICK t \in Seq(Byte), r \in Seq(Byte), rest \in Seq(Byte) :
        t = txfifo /\ r = BytesOf(ring) /\ rest = thread.rest
  BY Held DEF FifoOK, WritersOK
<1>2. t # <<>> /\ txfifo' = Tail(t) /\ UNCHANGED <<ring, thread, irq>>
  BY <1>1 DEF transmit
<1>3. Tail(t) \in Seq(Byte) /\ Len(Tail(t)) = Len(t) - 1 /\ Len(t) \in Nat
  BY <1>2
<1>4. OnItsWay = t \o r \o rest /\ OnItsWay' = Tail(t) \o r \o rest
  BY <1>1, <1>2, RingBytesAre DEF OnItsWay
<1>5. PipeStep
  <2>1. t \in Seq(Byte) /\ r \in Seq(Byte) /\ rest \in Seq(Byte) /\ t # <<>>
    BY <1>2
  <2>2. t \o r \o rest # <<>> /\ Tail(t) \o r \o rest = Tail(t \o r \o rest)
    BY ONLY <2>1, FirstLeaves
  <2>3. OnItsWay # <<>> /\ OnItsWay' = Tail(OnItsWay)
    BY <1>4, <2>2
  <2> QED BY <2>3 DEF PipeStep
<1>6. tx' \in [enabled : BOOLEAN, raised : BOOLEAN]
  BY DEF transmit, FifoOK
<1>7. FifoOK'
  BY <1>1, <1>2, <1>3, <1>6 DEF FifoOK
<1>8. WritersOK'
  BY <1>2 DEF WritersOK
<1> QED BY <1>5, <1>7, <1>8
--------------------------------------------------------------------------------
(* The line of the keyboard: what has been typed and not read is the whole *)
(* of Enter, or one other key, or the LF of an Enter whose CR was the last *)
(* byte read, or nothing.                                                  *)
Coming == rxfifo \o due

Arriving == Keys \cup {"CR", "LF"}

Other(s) ==
    \/ s = <<>>
    \/ \E key \in Keys \ {"Enter"} : s = <<key>>
    \/ s = <<"LF">> /\ newline = <<"CR", "LF">> /\ previous_was_cr

LineOK ==
    /\ rxfifo \in Seq(Arriving) /\ due \in Seq(Arriving) /\ Len(rxfifo) <= RX_FIFO
    /\ newline \in Newlines
    /\ recv_length \in 0 .. RECV_SIZE - 1
    /\ previous_was_cr \in BOOLEAN
    /\ newline = <<"LF">> => ~previous_was_cr
    /\ \/ Coming = newline /\ unanswered = 1
       \/ Other(Coming) /\ unanswered = 0

LEMMA NewlineBytes ==
    ASSUME newline \in Newlines
    PROVE  /\ newline \in Seq(Arriving) /\ newline # <<>>
           /\ Head(newline) = IF newline = <<"LF">> THEN "LF" ELSE "CR"
           /\ Tail(newline) = IF newline = <<"CR", "LF">> THEN <<"LF">> ELSE <<>>
<1>1. "CR" \in Arriving /\ "LF" \in Arriving
  BY DEF Arriving
<1>2. CASE newline = <<"CR">>
  BY <1>1, <1>2
<1>3. CASE newline = <<"LF">>
  BY <1>1, <1>3
<1>4. CASE newline = <<"CR", "LF">>
  BY <1>1, <1>4
<1> QED BY <1>2, <1>3, <1>4 DEF Newlines

(* A key is pressed once nothing of the last one is on its way.            *)
LEMMA Pressed ==
    ASSUME LineOK, NEW key \in Keys, press(key)
    PROVE  LineOK'
<1>1. key \in Arriving /\ <<key>> \in Seq(Arriving)
  BY DEF Arriving
<1>2. rxfifo = <<>> /\ due = <<>> /\ rxfifo' = <<>> /\ Len(<<>>) = 0
  BY DEF press
<1>3. UNCHANGED <<recv_length, previous_was_cr, newline>>
  BY DEF press
<1>4. due' = IF key = "Enter" THEN newline ELSE <<key>>
  BY DEF press
<1>5. due' \in Seq(Arriving)
  BY <1>1, <1>4, NewlineBytes DEF LineOK
<1>6. Coming' = due'
  BY <1>2, <1>5 DEF Coming
<1>7. Coming = <<>>
  BY <1>2 DEF Coming
<1>8. unanswered = 0
  BY <1>7, NewlineBytes DEF LineOK
<1>9. unanswered' = IF key = "Enter" THEN 1 ELSE 0
  BY <1>8 DEF press
<1>10. \/ Coming' = newline' /\ unanswered' = 1
       \/ Other(Coming)' /\ unanswered' = 0
  BY <1>3, <1>4, <1>6, <1>9 DEF Other
<1> QED BY <1>2, <1>3, <1>5, <1>10 DEF LineOK

(* A byte that arrives only moves.                                         *)
LEMMA Arrived ==
    ASSUME LineOK, arrive
    PROVE  LineOK'
<1>1. PICK x \in Seq(Arriving), y \in Seq(Arriving) : x = rxfifo /\ y = due
  BY DEF LineOK
<1>2. y # <<>> /\ rxfifo' = Append(x, Head(y)) /\ due' = Tail(y) /\ Len(x) < RX_FIFO
  BY <1>1 DEF arrive
<1>3. Head(y) \in Arriving /\ Tail(y) \in Seq(Arriving) /\ Append(x, Head(y)) \in Seq(Arriving)
      /\ Len(Append(x, Head(y))) = Len(x) + 1 /\ Len(x) \in Nat
  BY <1>2
<1>4. Append(x, Head(y)) \o Tail(y) = x \o y
  BY <1>2
<1>5. Coming' = Coming
  BY <1>1, <1>2, <1>4 DEF Coming
<1>6. UNCHANGED <<recv_length, previous_was_cr, unanswered, newline>>
  BY DEF arrive, line
<1> QED BY <1>1, <1>2, <1>3, <1>5, <1>6 DEF LineOK, Other

(* What the byte read does to the line, whatever its echo.                 *)
LEMMA Received ==
    ASSUME LineOK, receive_byte, newline' = newline, due' = due
    PROVE  LineOK'
<1>1. PICK x \in Seq(Arriving), y \in Seq(Arriving) : x = rxfifo /\ y = due
  BY DEF LineOK
<1>2. PICK c : c = Head(x)
  OBVIOUS
<1>3. x # <<>> /\ rxfifo' = Tail(x) /\ process_received_character(c)
  BY <1>1, <1>2 DEF receive_byte, serial_is_recv_enable, serial_recv_byte
<1>4. c \in Arriving /\ Tail(x) \in Seq(Arriving) /\ Len(Tail(x)) = Len(x) - 1 /\ Len(x) \in Nat
  BY <1>2, <1>3
<1>5. x \o y # <<>> /\ Head(x \o y) = c /\ Tail(x \o y) = Tail(x) \o y
  BY <1>2, <1>3
<1>6. Coming # <<>> /\ c = Head(Coming) /\ Coming' = Tail(Coming)
  BY <1>1, <1>3, <1>5 DEF Coming
<1>7. previous_was_cr' = (c = "CR")
  BY <1>3 DEF process_received_character
<1>8. recv_length' \in 0 .. RECV_SIZE - 1
  <2>1. recv_length \in 0 .. RECV_SIZE - 1
    BY DEF LineOK
  <2> QED BY <1>3, <2>1 DEF process_received_character, type_character, send_input_line
<1>9. unanswered' = IF c \in {"CR", "LF"} /\ ~ends_crlf(c) THEN unanswered - 1 ELSE unanswered
  BY <1>3 DEF process_received_character, send_input_line, ends_crlf
<1>10. /\ newline' = <<"LF">> => ~previous_was_cr'
       /\ \/ Coming' = newline' /\ unanswered' = 1
          \/ Other(Coming)' /\ unanswered' = 0
  <2>1. CASE Coming = newline /\ unanswered = 1
    <3>1. c \in {"CR", "LF"} /\ ~ends_crlf(c) /\ (newline = <<"LF">> <=> c = "LF")
      BY <1>6, <2>1, NewlineBytes DEF LineOK, ends_crlf
    <3>2. unanswered' = 0
      BY <1>9, <2>1, <3>1
    <3>3. Coming' = IF newline = <<"CR", "LF">> THEN <<"LF">> ELSE <<>>
      BY <1>6, <2>1, NewlineBytes DEF LineOK
    <3>4. newline = <<"CR", "LF">> => previous_was_cr'
      <4>1. <<"CR", "LF">> # <<"LF">>
        <5>1. Len(<<"CR", "LF">>) = 2 /\ Len(<<"LF">>) = 1
          OBVIOUS
        <5> QED BY <5>1
      <4> QED BY <1>7, <3>1, <4>1
    <3> QED BY <1>7, <3>1, <3>2, <3>3, <3>4 DEF Other
  <2>2. CASE Other(Coming) /\ unanswered = 0
    <3>1. CASE \E key \in Keys \ {"Enter"} : Coming = <<key>>
      <4>1. PICK key \in Keys \ {"Enter"} : Coming = <<key>>
        BY <3>1
      <4>2. c = key /\ Coming' = <<>>
        BY <1>6, <4>1
      <4>3. c \notin {"CR", "LF"}
        BY <4>2 DEF Keys
      <4> QED BY <1>7, <1>9, <2>2, <4>2, <4>3 DEF Other
    <3>2. CASE Coming = <<"LF">> /\ newline = <<"CR", "LF">> /\ previous_was_cr
      <4>1. c = "LF" /\ Coming' = <<>>
        BY <1>6, <3>2
      <4> QED BY <1>7, <1>9, <2>2, <3>2, <4>1 DEF Other, ends_crlf
    <3> QED BY <1>6, <2>2, <3>1, <3>2 DEF Other
  <2> QED BY <2>1, <2>2 DEF LineOK
<1>11. rxfifo' \in Seq(Arriving) /\ due' \in Seq(Arriving) /\ Len(rxfifo') <= RX_FIFO
  BY <1>1, <1>3, <1>4 DEF LineOK
<1>12. previous_was_cr' \in BOOLEAN
  BY <1>7
<1>13. newline' \in Newlines
  BY DEF LineOK
<1> QED BY <1>8, <1>10, <1>11, <1>12, <1>13 DEF LineOK

LEMMA LineKept ==
    ASSUME LineOK, UNCHANGED <<line, typing, rxfifo>>
    PROVE  LineOK'
BY DEF LineOK, Other, Coming, line, typing

(* Of what is on its way, only a whole Enter is unanswered.                *)
LEMMA LinesCounted ==
    ASSUME LineOK
    PROVE  OneLinePerEnter
<1> DEFINE enters == {i \in DOMAIN Coming : Coming[i] = Head(newline)}
<1>1. newline # <<>> /\ Head(newline) = IF newline = <<"LF">> THEN "LF" ELSE "CR"
  BY NewlineBytes DEF LineOK
<1>2. CASE Coming = newline /\ unanswered = 1
  <2>1. enters = {1}
    <3>1. CASE newline = <<"CR">>
      BY <1>1, <1>2, <3>1
    <3>2. CASE newline = <<"LF">>
      BY <1>1, <1>2, <3>2
    <3>3. CASE newline = <<"CR", "LF">>
      BY <1>1, <1>2, <3>3
    <3> QED BY <3>1, <3>2, <3>3 DEF LineOK, Newlines
  <2> QED BY <1>2, <2>1, FS_Singleton DEF OneLinePerEnter, Coming
<1>3. CASE Other(Coming) /\ unanswered = 0
  <2>1. enters = {}
    <3>1. CASE Coming = <<>>
      BY <3>1
    <3>2. CASE \E key \in Keys \ {"Enter"} : Coming = <<key>>
      BY <1>1, <3>2 DEF Keys
    <3>3. CASE Coming = <<"LF">> /\ newline = <<"CR", "LF">>
      <4>1. <<"CR", "LF">> # <<"LF">>
        <5>1. Len(<<"CR", "LF">>) = 2 /\ Len(<<"LF">>) = 1
          OBVIOUS
        <5> QED BY <5>1
      <4>2. Head(newline) = "CR"
        BY <1>1, <3>3, <4>1
      <4>3. DOMAIN Coming = {1} /\ Coming[1] = "LF"
        BY <3>3
      <4> QED BY <4>2, <4>3
    <3> QED BY <1>3, <3>1, <3>2, <3>3 DEF Other
  <2> QED BY <1>3, <2>1, FS_EmptySet DEF OneLinePerEnter, Coming
<1> QED BY <1>2, <1>3 DEF LineOK
--------------------------------------------------------------------------------
(* No wakeup is lost: the thread unmasks and the handler returns behind    *)
(* send_drain or with an empty ring, and until the next drain the FIFO     *)
(* only falls.                                                             *)
LEMMA Wakeup ==
    ASSUME FifoOK, WritersOK, NoLostWakeup, [Next]_cvars
    PROVE  NoLostWakeup'
<1>1. CASE send_text
  <2>1. CASE thread'.at \in {"push", "drain"}
    BY <2>1 DEF NoLostWakeup, Masked
  <2>2. CASE drain_end
    BY <2>2, DrainEnd DEF NoLostWakeup
  <2> QED BY <1>1, <2>1, <2>2 DEF send_text, WritersOK
<1>2. CASE consdrv_interrupt
  <2>1. CASE irq' # "idle"
    BY <2>1 DEF NoLostWakeup
  <2>2. CASE drain_end
    BY <2>2, DrainEnd DEF NoLostWakeup
  <2>3. CASE RingEmpty'
    BY <2>3 DEF NoLostWakeup
  <2>4. CASE receive_byte
    <3>1. irq' # "idle"
      BY <2>4 DEF receive_byte, process_received_character, type_character, echo
    <3> QED BY <2>1, <3>1
  <2>5. CASE enter_interrupt \/ drain_echo \/ clear_interrupts \/ drain_ring
    <3>1. irq' # "idle" \/ drain_end \/ RingEmpty'
      BY <2>5 DEF enter_interrupt, drain_echo, clear_interrupts, drain_ring, RingEmpty
    <3> QED BY <2>1, <2>2, <2>3, <3>1
  <2> QED BY <1>2, <2>4, <2>5 DEF consdrv_interrupt
<1>3. CASE transmit
  <2>1. /\ txfifo # <<>> /\ txfifo' = Tail(txfifo) /\ UNCHANGED <<ring, thread, irq>>
        /\ tx' = IF Len(txfifo) = TX_LEVEL + 1 THEN [tx EXCEPT !.raised = TRUE] ELSE tx
    BY <1>3 DEF transmit
  <2>2. Len(txfifo') = Len(txfifo) - 1 /\ Len(txfifo) \in Nat
    BY <2>1 DEF FifoOK
  <2> QED BY <2>1, <2>2 DEF FifoOK, NoLostWakeup, RingEmpty, Masked
<1>4. CASE UNCHANGED <<ring, txfifo, tx, thread, irq>>
  BY <1>4 DEF NoLostWakeup, RingEmpty, Masked
<1>5. CASE arrive
  BY <1>4, <1>5 DEF arrive
<1>6. CASE \E key \in Keys : press(key)
  BY <1>4, <1>6 DEF press
<1>7. CASE UNCHANGED cvars
  BY <1>4, <1>7 DEF cvars
<1> QED BY <1>1, <1>2, <1>3, <1>5, <1>6, <1>7 DEF Next
--------------------------------------------------------------------------------
IInv == FifoOK /\ WritersOK /\ LineOK /\ NoLostWakeup

LEMMA Initially == Init => IInv
<1> SUFFICES ASSUME Init PROVE IInv
  OBVIOUS
<1>1. FifoOK
  BY EmptySeq DEF Init, FifoOK
<1>2. WritersOK
  <2>1. ring \in Rings
    <3>1. "none" \in Byte /\ 0 \in Slot
      BY DEF Byte, Slot
    <3> QED BY <3>1 DEF Init, Rings, Slot
  <2>2. send_buffer_free(ring) \in Nat
    BY <2>1, UsedIs
  <2>3. <<>> \in Seq(Byte) /\ Len(<<>>) = 0
    OBVIOUS
  <2> QED BY <2>1, <2>2, <2>3 DEF Init, WritersOK
<1>3. LineOK
  <2>1. <<>> \in Seq(Arriving) /\ Len(<<>>) = 0 /\ <<>> \o <<>> = <<>>
    OBVIOUS
  <2>2. Coming = <<>>
    BY <2>1 DEF Init, Coming
  <2>3. 0 \in 0 .. RECV_SIZE - 1 /\ 0 <= RX_FIFO /\ FALSE \in BOOLEAN
    OBVIOUS
  <2>4. Other(Coming)
    BY <2>2 DEF Other
  <2>5. /\ rxfifo = <<>> /\ due = <<>> /\ newline \in Newlines /\ unanswered = 0
        /\ recv_length = 0 /\ previous_was_cr = FALSE
    BY DEF Init
  <2> QED BY <2>1, <2>3, <2>4, <2>5 DEF LineOK
<1>4. NoLostWakeup
  BY DEF Init, NoLostWakeup, RingEmpty
<1> QED BY <1>1, <1>2, <1>3, <1>4 DEF IInv

LEMMA Step == IInv /\ [Next]_cvars => IInv' /\ PipeStep
<1> SUFFICES ASSUME IInv, [Next]_cvars PROVE IInv' /\ PipeStep
  OBVIOUS
<1>0. FifoOK /\ WritersOK /\ LineOK /\ NoLostWakeup'
  BY Wakeup DEF IInv
<1>1. CASE send_text
  <2>1. UNCHANGED <<line, typing, rxfifo>>
    BY <1>1 DEF send_text
  <2> QED BY <1>0, <1>1, <2>1, SendText, LineKept DEF IInv
<1>2. CASE consdrv_interrupt
  <2>1. LineOK'
    <3>1. CASE receive_byte
      <4>1. newline' = newline /\ due' = due
        BY <1>2 DEF consdrv_interrupt, typing
      <4> QED BY <1>0, <3>1, <4>1, Received
    <3>2. CASE UNCHANGED <<line, typing, rxfifo>>
      BY <1>0, <3>2, LineKept
    <3> QED BY <1>2, <3>1, <3>2
        DEF consdrv_interrupt, enter_interrupt, drain_echo, clear_interrupts, drain_ring
  <2> QED BY <1>0, <1>2, <2>1, Interrupt DEF IInv
<1>3. CASE transmit
  <2>1. UNCHANGED <<line, typing, rxfifo>>
    BY <1>3 DEF transmit
  <2> QED BY <1>0, <1>3, <2>1, Transmit, LineKept DEF IInv
<1>4. ASSUME UNCHANGED <<ring, txfifo, tx, thread, irq>>
      PROVE  FifoOK' /\ WritersOK' /\ PipeStep
  BY <1>0, <1>4, Unmoved DEF FifoOK, WritersOK, PipeStep
<1>5. CASE arrive
  BY <1>0, <1>4, <1>5, Arrived DEF IInv, arrive
<1>6. CASE \E key \in Keys : press(key)
  BY <1>0, <1>4, <1>6, Pressed DEF IInv, press
<1>7. CASE UNCHANGED cvars
  BY <1>0, <1>4, <1>7, LineKept DEF IInv, cvars, line, typing
<1> QED BY <1>1, <1>2, <1>3, <1>5, <1>6, <1>7 DEF Next

LEMMA Types ==
    ASSUME IInv
    PROVE  TypeOK
<1>1. ring.head \in DOMAIN ring.buffer /\ ring.tail \in DOMAIN ring.buffer
  BY DEF IInv, WritersOK, Rings
<1> QED BY <1>1 DEF IInv, FifoOK, WritersOK, LineOK, TypeOK

LEMMA PipeInit == Init => Pipe!Init
<1> SUFFICES ASSUME Init PROVE OnItsWay = <<>>
  BY DEF Pipe!Init, OnItsWay
<1>1. RingBytes = <<>>
  BY DEF Init, RingBytes
<1>2. <<>> \o <<>> = <<>>
  OBVIOUS
<1> QED BY <1>1, <1>2 DEF Init, OnItsWay

LEMMA PipeNext == PipeStep => [Pipe!Next]_(txfifo \o RingBytes \o thread.rest)
BY DEF PipeStep, OnItsWay, Outputs, Pipe!Next, Pipe!Emit, Pipe!Take

(* While bytes wait in the ring and nobody drains it, the transmit         *)
(* interrupt is enabled and has been or will be raised (send_drain,        *)
(* consdrv_interrupt, and the UART's edge).                                *)
THEOREM WakeupsArrive == Spec => []NoLostWakeup
<1>1. IInv => NoLostWakeup
  BY DEF IInv
<1> QED BY <1>1, Initially, Step, PTL DEF Spec

(* Head and tail stay in the ring, the line being typed keeps room for its *)
(* final zero byte, and the FIFOs their bounds (consdrv.c, serial.c).      *)
THEOREM ConsoleTypes == Spec => []TypeOK
BY Initially, Step, Types, PTL DEF Spec

(* One press of Enter sends one line to the shell, whether the terminal    *)
(* sends CR, LF or CR LF, and wherever an interrupt splits the two         *)
(* (process_received_character).                                           *)
THEOREM LinesMatchEnters == Spec => []OneLinePerEnter
<1>1. IInv => OneLinePerEnter
  BY LinesCounted DEF IInv
<1> QED BY <1>1, Initially, Step, PTL DEF Spec

(* Texts and echoes leave the UART whole and in the order they were        *)
(* accepted: the driver implements TextPipe (send_text,                    *)
(* send_text_from_interrupt, send_drain).                                  *)
THEOREM TextsStayWhole == Spec => WholeTexts
<1>1. IInv /\ [Next]_cvars => [Pipe!Next]_(txfifo \o RingBytes \o thread.rest)
  BY Step, PipeNext
<1>2. Spec => []IInv
  BY Initially, Step, PTL DEF Spec
<1> QED BY <1>1, <1>2, PipeInit, PTL DEF Spec, WholeTexts, Pipe!Spec
================================================================================
