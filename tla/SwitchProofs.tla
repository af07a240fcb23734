----------------------------- MODULE SwitchProofs -----------------------------
(***************************************************************************)
(* Context switches, for any threads, priorities, stacks and calls: the    *)
(* pointers of the ready queues hold the sequences of Sched, a thread      *)
(* finds its registers and its stack as it left them, and apps reach their *)
(* own stacks and no others.                                               *)
(*                                                                         *)
(* In order: the region of the MPU; what saving and loading a context does *)
(* to memory; the queues with their pointers; the invariant Inv, which     *)
(* says where the stacks lie, what each holds and who is queued where; and *)
(* each handler and each piece of the threads' own code, which keep Inv    *)
(* and are steps of Dispatcher and of Processors.                          *)
(***************************************************************************)
EXTENDS Switch, LinkProofs

(***************************************************************************)
(* The region that unprivileged code may write.                            *)
(***************************************************************************)
LEMMA RegionSizes ==
    /\ region_size[0] = 8
    /\ \A k \in 1 .. 27 : region_size[k] = 2 * region_size[k - 1]
    /\ \A k \in 0 .. 27 : region_size[k] \in Nat /\ region_size[k] > 0
<1> DEFINE sizes == <<8, 16, 32, 64, 128, 256, 512, 1024, 2048, 4096, 8192, 16384, 32768, 65536,
                      131072, 262144, 524288, 1048576, 2097152, 4194304, 8388608, 16777216,
                      33554432, 67108864, 134217728, 268435456, 536870912, 1073741824>>
           f == [k \in 0 .. 27 |-> sizes[k + 1]]
           Doubles(g) == g = [k \in 0 .. 27 |-> IF k = 0 THEN 8 ELSE 2 * g[k - 1]]
<1>1. /\ f = [k \in 0 .. 27 |-> f[k]] /\ f[0] = 8
      /\ \A k \in 1 .. 27 : f[k] = 2 * f[k - 1]
  OBVIOUS
<1> HIDE DEF f
<1>2. Doubles(f)
  BY <1>1
<1>3. region_size = CHOOSE g : Doubles(g)
  BY DEF region_size
<1>4. Doubles(region_size)
  <2> HIDE DEF Doubles
  <2> QED BY <1>2, <1>3
<1>5. region_size[0] = 8 /\ \A k \in 1 .. 27 : region_size[k] = 2 * region_size[k - 1]
  BY <1>4
<1>6. \A k \in 0 .. 27 : region_size[k] \in Nat /\ region_size[k] > 0
  <2> DEFINE S == {k \in 0 .. 27 : region_size[k] \in Nat /\ region_size[k] > 0}
  <2>1. 0 \in S
    BY <1>5
  <2>2. ASSUME NEW k \in 1 .. 27, k - 1 \in S PROVE k \in S
    <3>1. region_size[k] = 2 * region_size[k - 1] /\ k \in 0 .. 27
      BY <1>5
    <3> QED BY <2>2, <3>1
  <2>3. 0 .. 27 \subseteq S
    <3> HIDE DEF S
    <3> QED BY <2>1, <2>2, InductionOnSet
  <2> QED BY <2>3
<1> QED BY <1>5, <1>6

(* Half of what divides divides.                                           *)
LEMMA HalfDivides ==
    ASSUME NEW x \in Nat, NEW n \in Nat, n > 0, x % (2 * n) = 0
    PROVE  x % n = 0
<1>1. PICK d \in Nat : x = (2 * n) * d
  <2>1. 2 * n \in Nat /\ 2 * n > 0
    OBVIOUS
  <2>2. x = (2 * n) * (x \div (2 * n)) + (x % (2 * n)) /\ x \div (2 * n) \in Nat
    BY <2>1
  <2> QED BY <2>2
<1>2. PICK e \in Nat, r \in Nat : x = n * e + r /\ r < n /\ r = x % n
  <2>1. x = n * (x \div n) + (x % n) /\ x \div n \in Nat /\ x % n \in Nat /\ x % n < n
    OBVIOUS
  <2> QED BY <2>1
<1>3. (2 * n) * d = n * (2 * d)
  OBVIOUS
<1>4. n * (2 * d - e) = r
  BY <1>1, <1>2, <1>3
<1>5. PICK k \in Int : k = 2 * d - e
  <2>1. 2 * d - e \in Int
    OBVIOUS
  <2> QED BY <2>1
<1>6. n * k = r
  BY <1>4, <1>5
<1>7. k > 0 => n * k >= n
  OBVIOUS
<1>8. k <= 0 => n * k <= 0
  OBVIOUS
<1> QED BY <1>2, <1>6, <1>7, <1>8

(* The region for the apps' stacks is their area, no more and no less.     *)
LEMMA RegionIsArea ==
    mpu_region_from_range(AppStack.first, AppStack.end) = AppStack.first .. AppStack.end - 1
<1> DEFINE first == AppStack.first
           end == AppStack.end
           reaches(k) == region_base(first, k) + region_size[k] >= end
           chosen == CHOOSE k \in 0 .. 27 : reaches(k) /\ \A j \in 0 .. k - 1 : ~reaches(j)
<1>1. /\ first \in Nat /\ end \in Nat
  BY StackAssumption
<1>2. PICK K \in 0 .. 27 : end - first = region_size[K] /\ first % region_size[K] = 0
  BY StackAssumption
<1>3. /\ \A k \in 1 .. 27 : region_size[k] = 2 * region_size[k - 1]
      /\ \A k \in 0 .. 27 : region_size[k] \in Nat /\ region_size[k] > 0
  BY RegionSizes
<1> HIDE DEF first, end
<1>4. \A k \in 0 .. K : first % region_size[k] = 0 /\ region_size[k] <= region_size[K]
  <2> DEFINE S == {k \in 0 .. K : first % region_size[K - k] = 0
                                   /\ region_size[K - k] <= region_size[K]}
  <2>1. 0 \in S
    <3>1. K - 0 = K
      OBVIOUS
    <3> QED BY <1>2, <1>3, <3>1
  <2>2. ASSUME NEW k \in 1 .. K, k - 1 \in S PROVE k \in S
    <3>1. PICK n \in 1 .. 27 : n = K - (k - 1) /\ n - 1 = K - k
      OBVIOUS
    <3>2. first % region_size[n] = 0 /\ region_size[n] <= region_size[K]
      BY <2>2, <3>1
    <3>3. region_size[n] = 2 * region_size[n - 1] /\ n - 1 \in 0 .. 27
      BY <1>3
    <3>4. region_size[n - 1] \in Nat /\ region_size[n - 1] > 0
      BY <1>3, <3>3
    <3>5. first % region_size[n - 1] = 0
      BY <1>1, <3>2, <3>3, <3>4, HalfDivides
    <3>6. region_size[n - 1] <= region_size[K]
      BY <1>3, <3>2, <3>3, <3>4
    <3> QED BY <3>1, <3>5, <3>6
  <2>3. 0 .. K \subseteq S
    <3> HIDE DEF S
    <3>1. K \in Nat
      OBVIOUS
    <3> QED BY <2>1, <2>2, <3>1, InductionOnSet
  <2> TAKE k \in 0 .. K
  <2>4. K - k \in S /\ K - (K - k) = k
    BY <2>3
  <2> QED BY <2>4
<1>5. \A k \in 0 .. K : region_base(first, k) = first
  BY <1>1, <1>4 DEF region_base
<1>6. reaches(K)
  <2>1. K \in 0 .. K
    OBVIOUS
  <2> QED BY <1>1, <1>2, <1>3, <1>5, <2>1
<1>7. chosen \in 0 .. 27 /\ reaches(chosen) /\ \A j \in 0 .. chosen - 1 : ~reaches(j)
  <2> DEFINE D == {k \in 0 .. 27 : reaches(k)}
  <2>1. D \in SUBSET Nat /\ D # {}
    BY <1>6
  <2> HIDE DEF reaches
  <2>2. PICK k \in D : \A j \in D : k <= j
    <3> HIDE DEF D
    <3> QED BY <2>1, LeastElement
  <2>3. k \in 0 .. 27 /\ reaches(k) /\ \A j \in 0 .. k - 1 : ~reaches(j)
    <3>1. ASSUME NEW j \in 0 .. k - 1, reaches(j) PROVE FALSE
      <4>1. j \in D /\ j < k
        BY <3>1
      <4> QED BY <2>2, <4>1
    <3> QED BY <3>1
  <2> QED BY <2>3
<1>8. \A j \in 0 .. chosen - 1 : ~reaches(j)
  BY <1>7
<1> HIDE DEF chosen
<1>9. chosen \in 0 .. K
  <2>1. ~(K \in 0 .. chosen - 1)
    BY <1>6, <1>8
  <2> QED BY <1>7, <2>1
<1>10. region_base(first, chosen) = first /\ region_size[chosen] = end - first
  <2>1. region_base(first, chosen) = first /\ region_size[chosen] <= region_size[K]
    BY <1>4, <1>5, <1>9
  <2>2. first + region_size[chosen] >= end
    BY <1>7, <2>1
  <2>3. /\ region_size[chosen] \in Int /\ region_size[K] \in Int /\ first \in Int /\ end \in Int
    BY <1>1, <1>3, <1>7
  <2>4. end - first = region_size[K] /\ region_size[chosen] <= region_size[K]
    BY <1>2, <2>1
  <2>5. region_size[chosen] = end - first
    BY ONLY <2>2, <2>3, <2>4
  <2> QED BY <2>1, <2>5
<1>11. mpu_region_from_range(first, end)
         = region_base(first, chosen) .. region_base(first, chosen) + region_size[chosen] - 1
  BY DEF mpu_region_from_range, chosen
<1>12. first + ((end - first) - 1) = end - 1
  BY <1>1
<1> HIDE DEF region_size
<1>13. mpu_region_from_range(first, end) = first .. end - 1
  BY <1>10, <1>11, <1>12
<1> QED BY <1>13 DEF first, end

(***************************************************************************)
(* Words of memory: what a store, a save of a context and dispatch do.     *)
(***************************************************************************)
(* The registers of a context.                                             *)
Registers == {"r8", "r9", "r10", "r11", "r4", "r5", "r6", "r7", "exc_return", "control",
              "r0", "r1", "r2", "r3", "r12", "lr", "pc", "xpsr"}

(* What a thread, the kernel or the hardware may put into a word.          *)
Tags == Registers \cup {call.type : call \in Calls}
        \cup {"number", "pushed", "thp", "thumb", "thread", "thread_init", "app_thread_init",
              "thread_end", "privileged", "unprivileged", "func", "argc", "argv",
              "svc", "code", "returned"}

Words == Tags \X Nat

(* Two sequences joined.                                                   *)
LEMMA Joined ==
    ASSUME NEW S, NEW v \in Seq(S), NEW w \in Seq(S)
    PROVE  /\ v \o w \in Seq(S) /\ Len(v \o w) = Len(v) + Len(w)
           /\ \A i \in 1 .. Len(v) + Len(w) :
                (v \o w)[i] = IF i <= Len(v) THEN v[i] ELSE w[i - Len(v)]
BY ConcatProperties, Zenon

(* Sequences with the same elements are the same.                          *)
LEMMA SameSequence ==
    ASSUME NEW S, NEW v \in Seq(S), NEW w \in Seq(S), Len(v) = Len(w),
           \A i \in 1 .. Len(v) : v[i] = w[i]
    PROVE  v = w
OBVIOUS

(* The 18 words of a saved context.                                        *)
LEMMA ContextWords ==
    Popped = <<"r8", "r9", "r10", "r11", "r4", "r5", "r6", "r7", "exc_return", "control",
               "r0", "r1", "r2", "r3", "r12", "lr", "pc", "xpsr">>
<1> DEFINE mode == <<"exc_return", "control">>
           two == High \o Low
           three == two \o mode
           all == <<"r8", "r9", "r10", "r11", "r4", "r5", "r6", "r7", "exc_return", "control",
                    "r0", "r1", "r2", "r3", "r12", "lr", "pc", "xpsr">>
<1>1. /\ High \in Seq(Registers) /\ Len(High) = 4 /\ \A i \in 1 .. 4 : High[i] = all[i]
      /\ Low \in Seq(Registers) /\ Len(Low) = 4 /\ \A i \in 1 .. 4 : Low[i] = all[i + 4]
      /\ Hardware \in Seq(Registers) /\ Len(Hardware) = 8
      /\ \A i \in 1 .. 8 : Hardware[i] = all[i + 10]
      /\ mode \in Seq(Registers) /\ Len(mode) = 2 /\ \A i \in 1 .. 2 : mode[i] = all[i + 8]
  BY DEF High, Low, Hardware, Registers
<1>2. all \in Seq(Registers) /\ Len(all) = 18
  BY DEF Registers
<1>3. Popped = three \o Hardware
  BY DEF Popped
<1> HIDE DEF mode, all
<1>4. two \in Seq(Registers) /\ Len(two) = 8 /\ \A i \in 1 .. 8 : two[i] = all[i]
  <2>1. /\ two \in Seq(Registers) /\ Len(two) = Len(High) + Len(Low)
        /\ \A i \in 1 .. Len(High) + Len(Low) :
             two[i] = IF i <= Len(High) THEN High[i] ELSE Low[i - Len(High)]
    <3>1. High \in Seq(Registers) /\ Low \in Seq(Registers)
      BY <1>1
    <3> QED BY <3>1, Joined, Zenon
  <2> HIDE DEF two
  <2>2. Len(High) = 4 /\ Len(Low) = 4 /\ Len(High) + Len(Low) = 8
    BY <1>1
  <2>3. \A i \in 1 .. 8 : two[i] = IF i <= 4 THEN High[i] ELSE Low[i - 4]
    BY <2>1, <2>2
  <2>4. \A i \in 1 .. 8 : two[i] = all[i]
    <3> TAKE i \in 1 .. 8
    <3>1. i <= 4 => i \in 1 .. 4
      OBVIOUS
    <3>2. ~(i <= 4) => i - 4 \in 1 .. 4 /\ (i - 4) + 4 = i
      OBVIOUS
    <3>3. CASE i <= 4
      <4>1. High[i] = all[i]
        BY <1>1, <3>1, <3>3
      <4> QED BY <2>3, <3>3, <4>1
    <3>4. CASE ~(i <= 4)
      <4>1. Low[i - 4] = all[(i - 4) + 4]
        BY <1>1, <3>2, <3>4
      <4> QED BY <2>3, <3>2, <3>4, <4>1
    <3> QED BY <3>3, <3>4
  <2> QED BY <2>1, <2>2, <2>4
<1> HIDE DEF two
<1>5. three \in Seq(Registers) /\ Len(three) = 10 /\ \A i \in 1 .. 10 : three[i] = all[i]
  <2>1. /\ three \in Seq(Registers) /\ Len(three) = Len(two) + Len(mode)
        /\ \A i \in 1 .. Len(two) + Len(mode) :
             three[i] = IF i <= Len(two) THEN two[i] ELSE mode[i - Len(two)]
    <3>1. two \in Seq(Registers) /\ mode \in Seq(Registers)
      BY <1>1, <1>4
    <3> QED BY <3>1, Joined, Zenon
  <2> HIDE DEF three
  <2>2. Len(two) = 8 /\ Len(mode) = 2 /\ Len(two) + Len(mode) = 10
    BY <1>1, <1>4
  <2>3. \A i \in 1 .. 10 : three[i] = IF i <= 8 THEN two[i] ELSE mode[i - 8]
    BY <2>1, <2>2
  <2>4. \A i \in 1 .. 10 : three[i] = all[i]
    <3> TAKE i \in 1 .. 10
    <3>1. i <= 8 => i \in 1 .. 8
      OBVIOUS
    <3>2. ~(i <= 8) => i - 8 \in 1 .. 2 /\ (i - 8) + 8 = i
      OBVIOUS
    <3>3. CASE i <= 8
      <4>1. two[i] = all[i]
        BY <1>4, <3>1, <3>3
      <4> QED BY <2>3, <3>3, <4>1
    <3>4. CASE ~(i <= 8)
      <4>1. mode[i - 8] = all[(i - 8) + 8]
        BY <1>1, <3>2, <3>4
      <4> QED BY <2>3, <3>2, <3>4, <4>1
    <3> QED BY <3>3, <3>4
  <2> QED BY <2>1, <2>2, <2>4
<1> HIDE DEF three
<1>6. Popped \in Seq(Registers) /\ Len(Popped) = 18 /\ \A i \in 1 .. 18 : Popped[i] = all[i]
  <2>1. /\ Popped \in Seq(Registers) /\ Len(Popped) = Len(three) + Len(Hardware)
        /\ \A i \in 1 .. Len(three) + Len(Hardware) :
             Popped[i] = IF i <= Len(three) THEN three[i] ELSE Hardware[i - Len(three)]
    <3>1. three \in Seq(Registers) /\ Hardware \in Seq(Registers)
      BY <1>1, <1>5
    <3> QED BY <1>3, <3>1, Joined, Zenon
  <2>2. Len(three) = 10 /\ Len(Hardware) = 8 /\ Len(three) + Len(Hardware) = 18
    BY <1>1, <1>5
  <2>3. \A i \in 1 .. 18 : Popped[i] = IF i <= 10 THEN three[i] ELSE Hardware[i - 10]
    BY <2>1, <2>2
  <2>4. \A i \in 1 .. 18 : Popped[i] = all[i]
    <3> TAKE i \in 1 .. 18
    <3>1. i <= 10 => i \in 1 .. 10
      OBVIOUS
    <3>2. ~(i <= 10) => i - 10 \in 1 .. 8 /\ (i - 10) + 10 = i
      OBVIOUS
    <3>3. CASE i <= 10
      <4>1. three[i] = all[i]
        BY <1>5, <3>1, <3>3
      <4> QED BY <2>3, <3>3, <4>1
    <3>4. CASE ~(i <= 10)
      <4>1. Hardware[i - 10] = all[(i - 10) + 10]
        BY <1>1, <3>2, <3>4
      <4> QED BY <2>3, <3>2, <3>4, <4>1
    <3> QED BY <3>3, <3>4
  <2> QED BY <2>1, <2>2, <2>4
<1>7. Popped = all
  BY <1>2, <1>6, SameSequence
<1> QED BY <1>7 DEF all

(* Every register has its own word of the context.                         *)
LEMMA OwnWord ==
    /\ Popped \in Seq(Registers) /\ Len(Popped) = 18 /\ DOMAIN Popped = 1 .. 18
    /\ \A i, j \in 1 .. 18 : Popped[i] = Popped[j] => i = j
    /\ \A i \in 1 .. 18 : Popped[i] \in Registers /\ Popped[i] # "sp"
    /\ \A r \in Registers : \E i \in 1 .. 18 : r = Popped[i]
<1>1. Popped \in Seq(Registers) /\ Len(Popped) = 18 /\ DOMAIN Popped = 1 .. 18
  BY ContextWords DEF Registers
<1>2. \A i, j \in 1 .. 18 : Popped[i] = Popped[j] => i = j
  BY ContextWords
<1>3. \A i \in 1 .. 18 : Popped[i] # "sp"
  BY ContextWords
<1>4. \A i \in 1 .. 18 : Popped[i] \in Registers
  BY <1>1, ElementOfSeq
<1>5. \A r \in Registers : \E i \in 1 .. 18 : r = Popped[i]
  BY ContextWords DEF Registers
<1> QED BY <1>1, <1>2, <1>3, <1>4, <1>5

(* Where in the frame each register lies.                                  *)
LEMMA OffsetOf ==
    /\ DOMAIN Offset = Registers
    /\ \A i \in 1 .. 18 : Offset[Popped[i]] = i - 1
<1>1. DOMAIN Offset = Registers /\ \A r \in Registers :
        Offset[r] = (CHOOSE i \in DOMAIN Popped : Popped[i] = r) - 1
  <2>1. ToSet(Popped) = Registers
    BY OwnWord DEF ToSet
  <2> QED BY <2>1 DEF Offset
<1>2. ASSUME NEW i \in 1 .. 18 PROVE (CHOOSE j \in DOMAIN Popped : Popped[j] = Popped[i]) = i
  BY OwnWord
<1> QED BY <1>1, <1>2, OwnWord

(* The parts that the handlers store one by one.                           *)
LEMMA Parts ==
    /\ High \in Seq(Registers) /\ Len(High) = 4 /\ \A i \in 1 .. 4 : High[i] = Popped[i]
    /\ Low \in Seq(Registers) /\ Len(Low) = 4 /\ \A i \in 1 .. 4 : Low[i] = Popped[i + 4]
    /\ Hardware \in Seq(Registers) /\ Len(Hardware) = 8
    /\ \A i \in 1 .. 8 : Hardware[i] = Popped[i + 10]
    /\ Popped[9] = "exc_return" /\ Popped[10] = "control"
BY ContextWords DEF High, Low, Hardware, Registers

(* The words of a store, and those it leaves.                              *)
Overlaid(m, at, ws, new) ==
    /\ new \in Seq(Words) /\ Len(new) = Len(m)
    /\ \A i \in 1 .. Len(m) :
         new[i] = IF at < i /\ i <= at + Len(ws) THEN ws[i - at] ELSE m[i]

(* A store lays its words over memory, and changes no other word.          *)
LEMMA Stored ==
    ASSUME NEW m \in Seq(Words), NEW ws \in Seq(Words), NEW at \in Nat, at + Len(ws) <= Len(m)
    PROVE  Overlaid(m, at, ws, store(m, at, ws))
<1>1. PICK n \in Nat, k \in Nat : n = Len(m) /\ k = Len(ws) /\ at + k <= n
  OBVIOUS
<1> DEFINE f == SubSeq(m, 1, at)
           b == SubSeq(m, at + k + 1, n)
           fw == f \o ws
<1>2. f \in Seq(Words) /\ Len(f) = at /\ \A i \in 1 .. at : f[i] = m[i]
  BY <1>1
<1>3. /\ b \in Seq(Words) /\ Len(b) = n - (at + k)
      /\ \A i \in 1 .. n - (at + k) : b[i] = m[(at + k) + i]
  BY <1>1
<1>4. store(m, at, ws) = fw \o b
  BY <1>1 DEF store
<1> HIDE DEF f, b
<1>5. /\ fw \in Seq(Words) /\ Len(fw) = Len(f) + Len(ws)
      /\ \A i \in 1 .. Len(f) + Len(ws) : fw[i] = IF i <= Len(f) THEN f[i] ELSE ws[i - Len(f)]
  BY <1>2, Joined, Zenon
<1> HIDE DEF fw
<1>6. /\ fw \o b \in Seq(Words) /\ Len(fw \o b) = Len(fw) + Len(b)
      /\ \A i \in 1 .. Len(fw) + Len(b) :
           (fw \o b)[i] = IF i <= Len(fw) THEN fw[i] ELSE b[i - Len(fw)]
  <2>1. fw \in Seq(Words) /\ b \in Seq(Words)
    BY <1>3, <1>5
  <2> QED BY <2>1, Joined, Zenon
<1>7. Len(fw) = at + k /\ Len(fw) + Len(b) = n
  BY <1>1, <1>2, <1>3, <1>5
<1>8. ASSUME NEW i \in 1 .. n
      PROVE  (fw \o b)[i] = IF at < i /\ i <= at + k THEN ws[i - at] ELSE m[i]
  <2>1. CASE i <= at
    <3>1. i \in 1 .. at /\ i <= at + k /\ ~(at < i) /\ i \in 1 .. at + k
      BY <1>1, <2>1
    <3> QED BY <1>1, <1>2, <1>5, <1>6, <1>7, <3>1
  <2>2. CASE at < i /\ i <= at + k
    <3>1. ~(i <= at) /\ i \in 1 .. at + k
      BY <1>1, <2>2
    <3> QED BY <1>1, <1>2, <1>5, <1>6, <1>7, <2>2, <3>1
  <2>3. CASE ~(i <= at + k)
    <3>1. i - (at + k) \in 1 .. n - (at + k) /\ (at + k) + (i - (at + k)) = i
      BY <2>3
    <3> QED BY <1>3, <1>6, <1>7, <2>3, <3>1
  <2>4. i <= at \/ (at < i /\ i <= at + k) \/ ~(i <= at + k)
    OBVIOUS
  <2> QED BY <2>1, <2>2, <2>3, <2>4
<1> QED BY <1>1, <1>4, <1>6, <1>7, <1>8 DEF Overlaid

(* What the processor holds.                                               *)
Cpu(c) ==
    /\ c = [r \in Registers \cup {"sp"} |-> c[r]] /\ c["sp"] \in Nat
    /\ \A r \in Registers : c[r] \in Words

Loads(c, names, ws) ==
    /\ ws \in Seq(Words) /\ Len(ws) = Len(names)
    /\ \A i \in 1 .. Len(names) : ws[i] = c[names[i]]

(* The words that the handlers read from the processor.                    *)
LEMMA ValuesOf ==
    ASSUME NEW c, Cpu(c), NEW names \in Seq(Registers)
    PROVE  Loads(c, names, values(c, names))
<1>1. PICK n \in Nat : n = Len(names) /\ DOMAIN names = 1 .. n
  OBVIOUS
<1>2. values(c, names) = [i \in 1 .. n |-> c[names[i]]]
  BY <1>1 DEF values
<1>3. \A i \in 1 .. n : c[names[i]] \in Words
  BY <1>1, ElementOfSeq DEF Cpu
<1> QED BY <1>1, <1>2, <1>3 DEF Loads

(* The 18 words of the processor.                                          *)
LEMMA ContextOf ==
    ASSUME NEW c, Cpu(c)
    PROVE  /\ values(c, Popped) \in Seq(Words) /\ Len(values(c, Popped)) = 18
           /\ \A i \in 1 .. 18 : values(c, Popped)[i] = c[Popped[i]]
<1>1. Loads(c, Popped, values(c, Popped))
  BY OwnWord, ValuesOf
<1> QED BY <1>1, OwnWord DEF Loads

(* A saved context: 18 words below the stack pointer, in the order in      *)
(* which dispatch pops them, and no other word of memory.                  *)
LEMMA SavedContext ==
    ASSUME memory \in Seq(Words), NEW c, Cpu(c), 18 <= c["sp"], c["sp"] <= Len(memory)
    PROVE  Overlaid(memory, c["sp"] - 18, values(c, Popped), save_context(c))
<1>1. PICK n \in Nat, a \in Nat : n = Len(memory) /\ a + 18 = c["sp"] /\ a + 18 <= n
  <2>1. c["sp"] - 18 \in Nat /\ (c["sp"] - 18) + 18 = c["sp"] /\ Len(memory) \in Nat
    BY DEF Cpu
  <2> QED BY <2>1
<1> DEFINE h == values(c, Hardware)
           l == values(c, Low)
           g == values(c, High)
           e == <<c["exc_return"], c["control"]>>
           m1 == store(memory, a + 10, h)
           m2 == store(m1, a + 4, l)
           m3 == store(m2, a, g)
           m4 == store(m3, a + 8, e)
<1>2. save_context(c) = m4
  <2>1. c["sp"] - 8 = a + 10 /\ c["sp"] - 8 - 10 = a
    BY <1>1
  <2>2. (a + 10) - 10 = a
    OBVIOUS
  <2> QED BY <2>1, <2>2 DEF save_context, exception_frame
<1>3. h \in Seq(Words) /\ Len(h) = 8 /\ \A i \in 1 .. 8 : h[i] = c[Popped[i + 10]]
  <2>1. Loads(c, Hardware, h)
    BY Parts, ValuesOf
  <2>2. Len(Hardware) = 8 /\ \A i \in 1 .. 8 : Hardware[i] = Popped[i + 10]
    BY Parts
  <2> HIDE DEF h
  <2> QED BY <2>1, <2>2 DEF Loads
<1>4. l \in Seq(Words) /\ Len(l) = 4 /\ \A i \in 1 .. 4 : l[i] = c[Popped[i + 4]]
  <2>1. Loads(c, Low, l)
    BY Parts, ValuesOf
  <2> HIDE DEF l
  <2> QED BY <2>1, Parts DEF Loads
<1>5. g \in Seq(Words) /\ Len(g) = 4 /\ \A i \in 1 .. 4 : g[i] = c[Popped[i]]
  <2>1. Loads(c, High, g)
    BY Parts, ValuesOf
  <2> HIDE DEF g
  <2> QED BY <2>1, Parts DEF Loads
<1>6. e \in Seq(Words) /\ Len(e) = 2 /\ \A i \in 1 .. 2 : e[i] = c[Popped[i + 8]]
  <2>1. c["exc_return"] \in Words /\ c["control"] \in Words
    BY DEF Cpu, Registers
  <2> QED BY <2>1, Parts
<1> HIDE DEF h, l, g, e
<1>7. /\ m1 \in Seq(Words) /\ Len(m1) = n
      /\ \A i \in 1 .. n : m1[i] = IF a + 10 < i /\ i <= a + 18 THEN h[i - (a + 10)] ELSE memory[i]
  <2>1. a + 10 \in Nat /\ (a + 10) + Len(h) = a + 18 /\ (a + 10) + Len(h) <= Len(memory)
    BY <1>1, <1>3
  <2>2. Overlaid(memory, a + 10, h, m1)
    BY <1>3, <2>1, Stored
  <2> HIDE DEF m1
  <2> QED BY <1>1, <2>1, <2>2 DEF Overlaid
<1> HIDE DEF m1
<1>8. /\ m2 \in Seq(Words) /\ Len(m2) = n
      /\ \A i \in 1 .. n : m2[i] = IF a + 4 < i /\ i <= a + 8 THEN l[i - (a + 4)] ELSE m1[i]
  <2>1. a + 4 \in Nat /\ (a + 4) + Len(l) = a + 8 /\ (a + 4) + Len(l) <= Len(m1)
    BY <1>1, <1>4, <1>7
  <2>2. Overlaid(m1, a + 4, l, m2)
    BY <1>4, <1>7, <2>1, Stored
  <2> HIDE DEF m2
  <2> QED BY <1>7, <2>1, <2>2 DEF Overlaid
<1> HIDE DEF m2
<1>9. /\ m3 \in Seq(Words) /\ Len(m3) = n
      /\ \A i \in 1 .. n : m3[i] = IF a < i /\ i <= a + 4 THEN g[i - a] ELSE m2[i]
  <2>1. a + Len(g) = a + 4 /\ a + Len(g) <= Len(m2)
    BY <1>1, <1>5, <1>8
  <2>2. Overlaid(m2, a, g, m3)
    BY <1>5, <1>8, <2>1, Stored
  <2> HIDE DEF m3
  <2> QED BY <1>8, <2>1, <2>2 DEF Overlaid
<1> HIDE DEF m3
<1>10. /\ m4 \in Seq(Words) /\ Len(m4) = n
       /\ \A i \in 1 .. n : m4[i] = IF a + 8 < i /\ i <= a + 10 THEN e[i - (a + 8)] ELSE m3[i]
  <2>1. a + 8 \in Nat /\ (a + 8) + Len(e) = a + 10 /\ (a + 8) + Len(e) <= Len(m3)
    BY <1>1, <1>6, <1>9
  <2>2. Overlaid(m3, a + 8, e, m4)
    BY <1>6, <1>9, <2>1, Stored
  <2> HIDE DEF m4
  <2> QED BY <1>9, <2>1, <2>2 DEF Overlaid
<1> HIDE DEF m4
<1>11. ASSUME NEW i \in 1 .. n
       PROVE  m4[i] = IF a < i /\ i <= a + 18 THEN c[Popped[i - a]] ELSE memory[i]
  <2>1. CASE a < i /\ i <= a + 4
    <3>1. i - a \in 1 .. 4
      BY <2>1
    <3> QED BY <1>5, <1>9, <1>10, <2>1, <3>1
  <2>2. CASE a + 4 < i /\ i <= a + 8
    <3>1. i - (a + 4) \in 1 .. 4 /\ (i - (a + 4)) + 4 = i - a
      BY <2>2
    <3> QED BY <1>4, <1>8, <1>9, <1>10, <2>2, <3>1
  <2>3. CASE a + 8 < i /\ i <= a + 10
    <3>1. i - (a + 8) \in 1 .. 2 /\ (i - (a + 8)) + 8 = i - a
      BY <2>3
    <3> QED BY <1>6, <1>10, <2>3, <3>1
  <2>4. CASE a + 10 < i /\ i <= a + 18
    <3>1. i - (a + 10) \in 1 .. 8 /\ (i - (a + 10)) + 10 = i - a
      BY <2>4
    <3>2. m4[i] = h[i - (a + 10)]
      BY <1>7, <1>8, <1>9, <1>10, <2>4
    <3>3. h[i - (a + 10)] = c[Popped[(i - (a + 10)) + 10]]
      BY <1>3, <3>1
    <3> QED BY <2>4, <3>1, <3>2, <3>3
  <2>5. CASE i <= a \/ a + 18 < i
    BY <1>7, <1>8, <1>9, <1>10, <2>5
  <2> QED BY <2>1, <2>2, <2>3, <2>4, <2>5
<1>12. c["sp"] - 18 = a
  BY <1>1
<1>13. ASSUME NEW i \in 1 .. n
       PROVE  m4[i] = IF a < i /\ i <= a + 18 THEN values(c, Popped)[i - a] ELSE memory[i]
  <2>1. a < i /\ i <= a + 18 => i - a \in 1 .. 18
    <3>1. i \in Int /\ a \in Int
      OBVIOUS
    <3> QED BY ONLY <3>1
  <2> QED BY <1>11, <2>1, ContextOf
<1>14. Len(values(c, Popped)) = 18
  BY ContextOf
<1> QED BY <1>1, <1>2, <1>10, <1>12, <1>13, <1>14 DEF Overlaid

(* What dispatch loads: the 18 words, and the stack pointer above them.    *)
LEMMA Dispatched ==
    ASSUME NEW m \in Seq(Words), NEW at \in Nat, at + 18 <= Len(m)
    PROVE  /\ Cpu(dispatch(m, at)) /\ dispatch(m, at)["sp"] = at + 18
           /\ \A i \in 1 .. 18 : dispatch(m, at)[Popped[i]] = m[at + i]
<1> DEFINE d == dispatch(m, at)
<1>1. "sp" \notin Registers /\ DOMAIN Offset = Registers
  BY OffsetOf DEF Registers
<1>2. /\ d = [r \in Registers \cup {"sp"} |-> d[r]] /\ d["sp"] = at + 18
      /\ \A r \in Registers : d[r] = m[(at + Offset[r]) + 1]
  BY <1>1 DEF dispatch, FRAME, word
<1> HIDE DEF d
<1>3. \A i \in 1 .. 18 : d[Popped[i]] = m[at + i]
  <2> TAKE i \in 1 .. 18
  <2>1. Popped[i] \in Registers /\ Offset[Popped[i]] = i - 1
    BY OwnWord, OffsetOf
  <2>2. (at + (i - 1)) + 1 = at + i
    OBVIOUS
  <2> QED BY <1>2, <2>1, <2>2
<1>4. \A r \in Registers : d[r] \in Words
  <2> TAKE r \in Registers
  <2>1. PICK i \in 1 .. 18 : r = Popped[i]
    BY OwnWord
  <2>2. at + i \in 1 .. Len(m)
    OBVIOUS
  <2> QED BY <1>3, <2>1, <2>2, ElementOfSeq
<1>5. Cpu(d)
  BY <1>2, <1>4 DEF Cpu
<1> QED BY <1>2, <1>3, <1>5 DEF d

(***************************************************************************)
(* What a thread sees, and the layout of the stacks.                       *)
(***************************************************************************)
View(m, c, run, ths, t) ==
    IF t = run THEN values(c, Popped) \o SubSeq(m, c["sp"] + 1, ths[t].stack)
    ELSE SubSeq(m, ths[t].sp + 1, ths[t].stack)

(* The stack pointer of a thread when all its registers are saved.         *)
Base(c, run, ths, t) == IF t = run THEN c["sp"] - 18 ELSE ths[t].sp

Sees(m, c, run, ths, t, v) ==
    /\ v \in Seq(Words) /\ Len(v) = ths[t].stack - Base(c, run, ths, t)
    /\ \A i \in 1 .. Len(v) :
         v[i] = IF t = run /\ i <= 18 THEN c[Popped[i]] ELSE m[Base(c, run, ths, t) + i]

(* Room for the stack pointer of t: 18 or 19 words of its stack are taken. *)
Pushed(c, run, ths, t) ==
    Base(c, run, ths, t) \in Nat /\ ths[t].stack - Base(c, run, ths, t) \in {18, 19}

(* A part of memory.                                                       *)
LEMMA PartOfMemory ==
    ASSUME NEW m \in Seq(Words), NEW a \in Nat, NEW b \in Nat, a <= b, b <= Len(m)
    PROVE  /\ SubSeq(m, a + 1, b) \in Seq(Words) /\ Len(SubSeq(m, a + 1, b)) = b - a
           /\ \A i \in 1 .. b - a : SubSeq(m, a + 1, b)[i] = m[a + i]
<1>1. SubSeq(m, a + 1, b) \in Seq(Words) /\ Len(SubSeq(m, a + 1, b)) = b - a
  OBVIOUS
<1>2. ASSUME NEW i \in 1 .. b - a PROVE SubSeq(m, a + 1, b)[i] = m[a + i]
  OBVIOUS
<1> QED BY <1>1, <1>2

(* What a thread sees, word for word.                                      *)
LEMMA ViewOf ==
    ASSUME NEW m \in Seq(Words), NEW c, NEW run, NEW ths, NEW t, t = run => Cpu(c),
           ths[t].stack \in Nat, ths[t].stack <= Len(m), Pushed(c, run, ths, t)
    PROVE  Sees(m, c, run, ths, t, View(m, c, run, ths, t))
<1> DEFINE base == Base(c, run, ths, t)
           top == ths[t].stack
           v == View(m, c, run, ths, t)
<1>1. base \in Nat /\ top \in Nat /\ top - base \in {18, 19} /\ top <= Len(m)
  BY DEF Pushed
<1>2. CASE t # run
  <2>1. v = SubSeq(m, base + 1, top)
    BY <1>2 DEF View, Base
  <2> HIDE DEF base, v, top
  <2>2. base <= top
    BY <1>1
  <2>3. /\ v \in Seq(Words) /\ Len(v) = top - base
        /\ \A i \in 1 .. top - base : v[i] = m[base + i]
    BY <1>1, <2>1, <2>2, PartOfMemory
  <2> QED BY <1>2, <2>3 DEF Sees, base, v, top
<1>3. CASE t = run
  <2> DEFINE f == values(c, Popped)
             b == SubSeq(m, c["sp"] + 1, top)
  <2>0. v = f \o b
    BY <1>3 DEF View
  <2>1. c["sp"] \in Nat /\ base = c["sp"] - 18
    BY <1>3 DEF Base, Cpu
  <2> HIDE DEF base, v, top
  <2>2. f \in Seq(Words) /\ Len(f) = 18 /\ \A i \in 1 .. 18 : f[i] = c[Popped[i]]
    BY <1>3, ContextOf
  <2>3. c["sp"] = base + 18 /\ c["sp"] <= top
    <3>1. c["sp"] \in Int /\ base \in Int /\ top \in Int /\ top - base \in {18, 19}
      BY <1>1, <2>1
    <3>2. base = c["sp"] - 18
      BY <2>1
    <3> QED BY ONLY <3>1, <3>2
  <2>4. /\ b \in Seq(Words) /\ Len(b) = top - c["sp"]
        /\ \A i \in 1 .. top - c["sp"] : b[i] = m[c["sp"] + i]
    BY <1>1, <2>1, <2>3, PartOfMemory
  <2> HIDE DEF f, b
  <2>5. /\ v \in Seq(Words) /\ Len(v) = Len(f) + Len(b)
        /\ \A i \in 1 .. Len(f) + Len(b) : v[i] = IF i <= Len(f) THEN f[i] ELSE b[i - Len(f)]
    <3>1. f \in Seq(Words) /\ b \in Seq(Words)
      BY <2>2, <2>4
    <3> DEFINE fb == f \o b
    <3>2. /\ fb \in Seq(Words) /\ Len(fb) = Len(f) + Len(b)
          /\ \A i \in 1 .. Len(f) + Len(b) : fb[i] = IF i <= Len(f) THEN f[i] ELSE b[i - Len(f)]
      BY <3>1, Joined, Zenon
    <3>3. v = fb
      BY <2>0
    <3> HIDE DEF fb
    <3> QED BY <3>2, <3>3
  <2>6. Len(f) + Len(b) = top - base
    BY <1>1, <2>2, <2>3, <2>4
  <2>7. ASSUME NEW i \in 1 .. top - base
        PROVE  v[i] = IF i <= 18 THEN c[Popped[i]] ELSE m[base + i]
    <3>1. i <= 18 => i \in 1 .. 18
      OBVIOUS
    <3>2. ~(i <= 18) => i - 18 \in 1 .. top - c["sp"] /\ c["sp"] + (i - 18) = base + i
      BY <1>1, <2>3
    <3>3. v[i] = IF i <= 18 THEN f[i] ELSE b[i - 18]
      BY <2>2, <2>5, <2>6
    <3>4. CASE i <= 18
      BY <2>2, <3>1, <3>3, <3>4
    <3>5. CASE ~(i <= 18)
      <4>1. b[i - 18] = m[c["sp"] + (i - 18)]
        BY <2>4, <3>2, <3>5
      <4> QED BY <3>2, <3>3, <3>5, <4>1
    <3> QED BY <3>4, <3>5
  <2> QED BY <1>3, <2>5, <2>6, <2>7 DEF Sees, base, v, top
<1> QED BY <1>2, <1>3

(* Two views of the same words.                                            *)
LEMMA SameWords ==
    ASSUME NEW v \in Seq(Words), NEW w \in Seq(Words), Len(v) = Len(w),
           \A i \in 1 .. Len(w) : v[i] = w[i]
    PROVE  v = w
BY SameSequence

(* Loading a context changes nothing for its thread.                       *)
LEMMA LoadedView ==
    ASSUME NEW m \in Seq(Words), NEW ths, NEW t, NEW other, t # other,
           ths[t].stack \in Nat, ths[t].stack <= Len(m), Pushed(cpu, other, ths, t)
    PROVE  /\ View(m, dispatch(m, ths[t].sp), t, ths, t) = SubSeq(m, ths[t].sp + 1, ths[t].stack)
           /\ Pushed(dispatch(m, ths[t].sp), t, ths, t)
           /\ Cpu(dispatch(m, ths[t].sp))
<1> DEFINE at == ths[t].sp
           top == ths[t].stack
           d == dispatch(m, at)
           v == View(m, d, t, ths, t)
           w == SubSeq(m, at + 1, top)
<1>1. at \in Nat /\ top \in Nat /\ top - at \in {18, 19} /\ top <= Len(m)
  BY DEF Pushed, Base
<1>2. at + 18 <= Len(m) /\ at <= top
  BY <1>1
<1>3. Cpu(d) /\ d["sp"] = at + 18 /\ \A i \in 1 .. 18 : d[Popped[i]] = m[at + i]
  <2> HIDE DEF at
  <2> QED BY <1>1, <1>2, Dispatched
<1> HIDE DEF d
<1>4. Base(d, t, ths, t) = at
  <2> HIDE DEF at
  <2>1. at \in Int /\ d["sp"] = at + 18
    BY <1>1, <1>3
  <2>2. d["sp"] - 18 = at
    BY ONLY <2>1
  <2> QED BY <2>2 DEF Base
<1>5. Pushed(d, t, ths, t)
  BY <1>1, <1>4 DEF Pushed
<1>6. Sees(m, d, t, ths, t, v)
  BY <1>1, <1>3, <1>5, ViewOf
<1> HIDE DEF v
<1>7. /\ v \in Seq(Words) /\ Len(v) = top - at
      /\ \A i \in 1 .. top - at : v[i] = IF i <= 18 THEN d[Popped[i]] ELSE m[at + i]
  BY <1>4, <1>6 DEF Sees
<1> HIDE DEF at, top
<1>8. w \in Seq(Words) /\ Len(w) = top - at /\ \A i \in 1 .. top - at : w[i] = m[at + i]
  BY <1>1, <1>2, PartOfMemory
<1> HIDE DEF w
<1>9. \A i \in 1 .. top - at : v[i] = w[i]
  <2> TAKE i \in 1 .. top - at
  <2>1. i <= 18 => i \in 1 .. 18
    OBVIOUS
  <2> QED BY <1>3, <1>7, <1>8, <2>1
<1>10. v = w
  BY <1>7, <1>8, <1>9, SameWords
<1> QED BY <1>3, <1>5, <1>10 DEF at, top, d, v, w

(***************************************************************************)
(* The ready queues: the pointers and flags of s hold the queues q.        *)
(***************************************************************************)
Pointers == [head  : [Priorities -> Threads \cup {NULL}],
          tail  : [Priorities -> Threads \cup {NULL}],
          next  : [Threads -> Threads \cup {NULL}],
          ready : SUBSET Threads]

LastOf(q) == IF q = <<>> THEN NULL ELSE q[Len(q)]

Holds(s, q) ==
    /\ s \in Pointers
    /\ q \in [Priorities -> Seq(Threads)]
    /\ \A p \in Priorities : /\ IsInjective(q[p])
                             /\ Lists(s.head[p], s.next, q[p])
                             /\ s.tail[p] = LastOf(q[p])
    /\ \A t \in Threads : t \in s.ready <=> \E p \in Priorities : t \in ToSet(q[p])
    /\ \A p, o \in Priorities : p # o => ToSet(q[p]) \cap ToSet(q[o]) = {}
    /\ \A t \in Threads \ s.ready : s.next[t] = NULL

USE SlotAssumption

(* The queues are what a walk along the links meets.                       *)
LEMMA HoldsQueues ==
    ASSUME NEW s, NEW q, Holds(s, q)
    PROVE  /\ AsQueues(s) = [q |-> q, ready |-> s.ready]
           /\ \A p \in Priorities : Linked(s, p) = q[p]
<1>1. ASSUME NEW p \in Priorities PROVE Linked(s, p) = q[p]
  <2>1. q[p] \in Seq(Threads) /\ IsInjective(q[p]) /\ Lists(s.head[p], s.next, q[p])
    BY DEF Holds
  <2>2. Len(q[p]) <= Cardinality(Threads)
    BY <2>1, LengthOfInjective
  <2>3. Cardinality(Threads) \in Nat
    BY FS_CardinalityType
  <2> QED BY <2>1, <2>2, <2>3, ChainOfList DEF Linked
<1>2. q = [p \in Priorities |-> q[p]]
  BY DEF Holds
<1>3. [p \in Priorities |-> Linked(s, p)] = [p \in Priorities |-> q[p]]
  BY <1>1
<1> QED BY <1>1, <1>2, <1>3 DEF AsQueues

(* A queue is empty exactly if its head points nowhere.                    *)
LEMMA HeadOfQueue ==
    ASSUME NEW s, NEW q, Holds(s, q), NEW p \in Priorities
    PROVE  /\ s.head[p] = NULL <=> q[p] = <<>>
           /\ q[p] # <<>> => /\ s.head[p] = Head(q[p]) /\ Head(q[p]) = q[p][1]
                             /\ Head(q[p]) \in ToSet(q[p]) /\ Head(q[p]) \in Threads
                             /\ Head(q[p]) \in s.ready
<1>1. /\ q[p] \in Seq(Threads) /\ Lists(s.head[p], s.next, q[p])
  BY DEF Holds
<1>2. ASSUME q[p] # <<>>
      PROVE  /\ Head(q[p]) = q[p][1] /\ q[p][1] \in ToSet(q[p]) /\ q[p][1] \in Threads
  <2>1. Len(q[p]) \in Nat /\ Len(q[p]) # 0 /\ DOMAIN q[p] = 1 .. Len(q[p])
    BY <1>1, <1>2
  <2>2. 1 \in DOMAIN q[p]
    BY <2>1
  <2> QED BY <1>1, <1>2, <2>2 DEF ToSet
<1>3. q[p] # <<>> => q[p][1] \in s.ready
  BY <1>2 DEF Holds
<1> QED BY <1>1, <1>2, <1>3 DEF Lists

(* The thread t is the first in the queue of p.                            *)
IsFirst(s, q, p, t) ==
    s.head[p] = t /\ t \in ToSet(q[p]) /\ t \in Threads /\ t \in s.ready

(* The head of a queue that is not empty is its first thread.              *)
LEMMA FirstOfQueue ==
    ASSUME NEW s, NEW q, Holds(s, q), NEW p \in Priorities, q[p] # <<>>, NEW t, t = Head(q[p])
    PROVE  IsFirst(s, q, p, t)
<1>1. /\ q[p] \in Seq(Threads) /\ Lists(s.head[p], s.next, q[p])
  BY DEF Holds
<1>2. PICK r \in Seq(Threads) : r = q[p]
  BY <1>1
<1>3. Len(r) \in Nat /\ Len(r) # 0 /\ r # <<>>
  BY <1>2
<1>4. 1 \in 1 .. Len(r)
  BY <1>3
<1>5. t = r[1] /\ t \in Threads
  BY <1>2, <1>3, <1>4
<1>6. t \in ToSet(q[p])
  BY <1>2, <1>4, <1>5 DEF ToSet
<1>7. s.head[p] = t
  BY <1>1, <1>2, <1>3, <1>5 DEF Lists
<1>8. t \in s.ready
  BY <1>5, <1>6 DEF Holds
<1> QED BY <1>5, <1>6, <1>7, <1>8 DEF IsFirst

(* A position in a queue without repetitions is the only one.              *)
LEMMA PositionIs ==
    ASSUME NEW q, IsInjective(q), NEW k \in DOMAIN q
    PROVE  Queues!Position(q, q[k]) = k
BY DEF Queues!Position, IsInjective

(* From s to u only the queue of p changes, from q[p] to r.                *)
OneChanges(s, q, u, p, r) ==
    /\ u \in Pointers /\ r \in Seq(Threads) /\ IsInjective(r)
    /\ Lists(u.head[p], u.next, r) /\ u.tail[p] = LastOf(r)
    /\ \A o \in Priorities \ {p} : u.head[o] = s.head[o] /\ u.tail[o] = s.tail[o]
    /\ \A x \in Threads \ (ToSet(q[p]) \cup ToSet(r)) : u.next[x] = s.next[x]
    /\ u.ready = (s.ready \ ToSet(q[p])) \cup ToSet(r)
    /\ ToSet(r) \ ToSet(q[p]) \subseteq Threads \ s.ready
    /\ \A x \in ToSet(q[p]) \ ToSet(r) : u.next[x] = NULL

(* A change of one queue, and of links of threads of this queue alone.     *)
LEMMA OneQueueChanged ==
    ASSUME NEW s, NEW q, Holds(s, q), NEW p \in Priorities, NEW r, NEW u,
           OneChanges(s, q, u, p, r)
    PROVE  Holds(u, [q EXCEPT ![p] = r])
<1> /\ u \in Pointers /\ r \in Seq(Threads) /\ IsInjective(r)
    /\ Lists(u.head[p], u.next, r) /\ u.tail[p] = LastOf(r)
    /\ \A o \in Priorities \ {p} : u.head[o] = s.head[o] /\ u.tail[o] = s.tail[o]
    /\ \A x \in Threads \ (ToSet(q[p]) \cup ToSet(r)) : u.next[x] = s.next[x]
    /\ u.ready = (s.ready \ ToSet(q[p])) \cup ToSet(r)
    /\ ToSet(r) \ ToSet(q[p]) \subseteq Threads \ s.ready
    /\ \A x \in ToSet(q[p]) \ ToSet(r) : u.next[x] = NULL
  BY DEF OneChanges
<1> DEFINE w == [q EXCEPT ![p] = r]
<1>1. /\ q \in [Priorities -> Seq(Threads)] /\ s.ready \subseteq Threads
      /\ \A t \in Threads : t \in s.ready <=> \E o \in Priorities : t \in ToSet(q[o])
      /\ \A o1, o2 \in Priorities : o1 # o2 => ToSet(q[o1]) \cap ToSet(q[o2]) = {}
  BY DEF Holds, Pointers
<1>2. /\ w \in [Priorities -> Seq(Threads)] /\ w[p] = r
      /\ \A o \in Priorities \ {p} : w[o] = q[o]
  BY <1>1
<1> HIDE DEF w
<1>3. \A o \in Priorities : ToSet(q[o]) \subseteq Threads /\ ToSet(w[o]) \subseteq Threads
  <2> TAKE o \in Priorities
  <2>1. q[o] \in Seq(Threads) /\ w[o] \in Seq(Threads)
    BY <1>1, <1>2
  <2> QED BY <2>1 DEF ToSet
<1>4. ASSUME NEW o \in Priorities \ {p}, NEW x \in ToSet(q[o])
      PROVE  x \in Threads /\ x \in s.ready /\ x \notin ToSet(q[p]) /\ x \notin ToSet(r)
  BY <1>1, <1>3
<1>5. ASSUME NEW o \in Priorities
      PROVE  IsInjective(w[o]) /\ Lists(u.head[o], u.next, w[o]) /\ u.tail[o] = LastOf(w[o])
  <2>1. CASE o = p
    BY <1>2, <2>1
  <2>2. CASE o # p
    <3>1. /\ IsInjective(q[o]) /\ Lists(s.head[o], s.next, q[o]) /\ s.tail[o] = LastOf(q[o])
          /\ q[o] \in Seq(Threads) /\ w[o] = q[o]
          /\ u.head[o] = s.head[o] /\ u.tail[o] = s.tail[o]
      BY <1>1, <1>2, <2>2 DEF Holds
    <3>2. \A x \in ToSet(q[o]) : u.next[x] = s.next[x]
      BY <1>4, <2>2
    <3>3. Lists(s.head[o], u.next, q[o])
      BY <3>1, <3>2, OtherLinks
    <3> QED BY <3>1, <3>3
  <2> QED BY <2>1, <2>2
<1>6. ASSUME NEW x \in Threads
      PROVE  x \in u.ready <=> \E o \in Priorities : x \in ToSet(w[o])
  <2>1. x \in s.ready <=> \E o \in Priorities : x \in ToSet(q[o])
    BY <1>1
  <2>2. CASE x \in ToSet(r)
    BY <1>2, <2>2
  <2>3. CASE x \notin ToSet(r)
    <3>1. ~(x \in ToSet(w[p]))
      BY <1>2, <2>3
    <3>2. \A o \in Priorities \ {p} : x \in ToSet(w[o]) <=> x \in ToSet(q[o])
      BY <1>2
    <3>3. CASE x \in ToSet(q[p])
      BY <1>1, <2>3, <3>1, <3>2, <3>3
    <3>4. CASE x \notin ToSet(q[p])
      BY <2>1, <2>3, <3>1, <3>2, <3>4
    <3> QED BY <3>3, <3>4
  <2> QED BY <2>2, <2>3
<1>7. \A o1, o2 \in Priorities : o1 # o2 => ToSet(w[o1]) \cap ToSet(w[o2]) = {}
  <2> TAKE o1, o2 \in Priorities
  <2>1. o1 # p /\ o2 # p /\ o1 # o2 => ToSet(w[o1]) \cap ToSet(w[o2]) = {}
    BY <1>1, <1>2
  <2>2. \A o \in Priorities \ {p} : ToSet(w[o]) \cap ToSet(w[p]) = {}
    BY <1>2, <1>4
  <2> QED BY <2>1, <2>2
<1>8. ASSUME NEW x \in Threads \ u.ready PROVE u.next[x] = NULL
  <2>1. x \notin ToSet(r)
    OBVIOUS
  <2>2. x \notin ToSet(q[p]) => u.next[x] = s.next[x] /\ x \notin s.ready
    BY <2>1
  <2>3. x \notin s.ready => s.next[x] = NULL
    BY DEF Holds
  <2> QED BY <2>1, <2>2, <2>3
<1> QED BY <1>2, <1>5, <1>6, <1>7, <1>8 DEF Holds, w

(* From the queues q to w, with fewer threads: the pointers and flags u    *)
(* hold them, and v is what Sched makes of it.                             *)
Fewer(q, w, u, v, ready) ==
    /\ Holds(u, w) /\ u.ready = ready /\ v = AsQueues(u)
    /\ \A o \in Priorities : ToSet(w[o]) \subseteq ToSet(q[o])

(* getcurrent takes the thread at the head of its queue.                   *)
LEMMA TakesFirst ==
    ASSUME NEW s, NEW q, Holds(s, q), NEW p \in Priorities, q[p] # <<>>, NEW t, t = Head(q[p])
    PROVE  Fewer(q, [q EXCEPT ![p] = Tail(@)], getcurrent(s, t, p),
                 Queues!getcurrent(AsQueues(s), t, p), s.ready \ {t})
<1> DEFINE u == getcurrent(s, t, p)
           r == Tail(q[p])
           w == [q EXCEPT ![p] = r]
<1>1. /\ s.head[p] = t /\ t \in Threads /\ t \in s.ready /\ t # NULL /\ t \in ToSet(q[p])
      /\ q[p] \in Seq(Threads) /\ IsInjective(q[p]) /\ Lists(s.head[p], s.next, q[p])
      /\ s.tail[p] = LastOf(q[p]) /\ s \in Pointers /\ q \in [Priorities -> Seq(Threads)]
      /\ NULL \notin Threads
  <2>1. /\ q[p] \in Seq(Threads) /\ IsInjective(q[p]) /\ Lists(s.head[p], s.next, q[p])
        /\ s.tail[p] = LastOf(q[p]) /\ s \in Pointers /\ q \in [Priorities -> Seq(Threads)]
    BY DEF Holds
  <2>2. IsFirst(s, q, p, t)
    BY FirstOfQueue
  <2>3. /\ s.head[p] = t /\ t \in Threads /\ t \in s.ready /\ t \in ToSet(q[p])
    BY <2>2 DEF IsFirst
  <2>4. NULL \notin Threads /\ t # NULL
    BY <2>3
  <2> QED BY <2>1, <2>3, <2>4
<1>2. u = [s EXCEPT !.head[p] = s.next[t],
                    !.tail[p] = IF s.next[t] = NULL THEN NULL ELSE @,
                    !.ready   = @ \ {t},
                    !.next[t] = NULL]
  BY <1>1 DEF getcurrent
<1>3. /\ u \in Pointers
      /\ u.head[p] = s.next[t] /\ u.next = [s.next EXCEPT ![t] = NULL]
      /\ u.tail[p] = IF s.next[t] = NULL THEN NULL ELSE s.tail[p]
      /\ u.ready = s.ready \ {t}
      /\ \A o \in Priorities \ {p} : u.head[o] = s.head[o] /\ u.tail[o] = s.tail[o]
  <2>1. /\ s.head \in [Priorities -> Threads \cup {NULL}]
        /\ s.tail \in [Priorities -> Threads \cup {NULL}]
        /\ s.next \in [Threads -> Threads \cup {NULL}] /\ s.ready \in SUBSET Threads
        /\ s.next[t] \in Threads \cup {NULL}
    BY <1>1 DEF Pointers
  <2>2. u = [head  |-> [s.head EXCEPT ![p] = s.next[t]],
             tail  |-> [s.tail EXCEPT ![p] = IF s.next[t] = NULL THEN NULL ELSE @],
             next  |-> [s.next EXCEPT ![t] = NULL],
             ready |-> s.ready \ {t}]
    BY <1>1, <1>2 DEF Pointers
  <2> HIDE DEF u
  <2> QED BY <1>1, <2>1, <2>2 DEF Pointers
<1>4. /\ Lists(s.next[t], s.next, r)
      /\ r \in Seq(Threads) /\ IsInjective(r) /\ ToSet(r) = ToSet(q[p]) \ {t}
  BY <1>1, FirstTaken
<1>5. PICK n \in Nat : /\ n + 1 = Len(q[p]) /\ Len(r) = n /\ (r = <<>> <=> n = 0)
                       /\ \A i \in 1 .. n : r[i] = q[p][i + 1]
  <2>1. PICK n \in Nat : n + 1 = Len(q[p])
    <3>1. Len(q[p]) \in Nat /\ Len(q[p]) # 0
      BY <1>1
    <3> QED BY <3>1
  <2>2. Len(r) = Len(q[p]) - 1 /\ \A i \in 1 .. Len(r) : r[i] = q[p][i + 1]
    BY <1>1, HeadTailProperties
  <2>3. r = <<>> <=> Len(r) = 0
    <3> HIDE DEF r
    <3> QED BY <1>4
  <2> HIDE DEF r
  <2>4. Len(r) = n
    BY <2>1, <2>2
  <2> QED BY <2>1, <2>2, <2>3, <2>4
<1> HIDE DEF u, r
<1>6. ToSet(q[p]) \subseteq Threads /\ ToSet(q[p]) \subseteq s.ready
  <2>1. ToSet(q[p]) \subseteq Threads
    BY <1>1 DEF ToSet
  <2> QED BY <2>1 DEF Holds
<1>7. \A x \in Threads \ {t} : u.next[x] = s.next[x]
  BY <1>1, <1>3 DEF Pointers
<1>8. u.next[t] = NULL
  BY <1>1, <1>3 DEF Pointers
<1>9. Lists(u.head[p], u.next, r)
  <2>1. \A x \in ToSet(r) : u.next[x] = s.next[x]
    BY <1>4, <1>6, <1>7
  <2>2. r \in Seq(Threads) /\ Lists(s.next[t], s.next, r)
    BY <1>4
  <2>3. Lists(s.next[t], u.next, r)
    BY <2>1, <2>2, OtherLinks
  <2>4. u.head[p] = s.next[t]
    BY <1>3
  <2> QED BY <2>3, <2>4
<1>10. u.tail[p] = LastOf(r)
  <2>1. s.next[t] = IF r = <<>> THEN NULL ELSE r[1]
    BY <1>4 DEF Lists
  <2>2. CASE r = <<>>
    BY <1>3, <2>1, <2>2 DEF LastOf
  <2>3. CASE r # <<>>
    <3>1. n # 0 /\ n \in 1 .. n /\ 1 \in 1 .. n /\ q[p] # <<>>
      BY <1>5, <2>3
    <3>2. s.tail[p] = q[p][n + 1] /\ r[n] = q[p][n + 1] /\ r[1] \in Threads
      BY <1>1, <1>4, <1>5, <3>1 DEF LastOf
    <3> QED BY <1>1, <1>3, <1>5, <2>1, <2>3, <3>1, <3>2 DEF LastOf
  <2> QED BY <2>2, <2>3
<1>11. u.ready = (s.ready \ ToSet(q[p])) \cup ToSet(r)
  BY <1>1, <1>3, <1>4, <1>6
<1>12. Holds(u, w)
  <2>1. \A x \in Threads \ (ToSet(q[p]) \cup ToSet(r)) : u.next[x] = s.next[x]
    BY <1>1, <1>7
  <2>2. ToSet(r) \ ToSet(q[p]) \subseteq Threads \ s.ready
    BY <1>4
  <2>3. \A x \in ToSet(q[p]) \ ToSet(r) : u.next[x] = NULL
    BY <1>4, <1>8
  <2>4. /\ u \in Pointers /\ r \in Seq(Threads) /\ IsInjective(r)
        /\ \A o \in Priorities \ {p} : u.head[o] = s.head[o] /\ u.tail[o] = s.tail[o]
    BY <1>3, <1>4
  <2>5. OneChanges(s, q, u, p, r)
    BY <1>9, <1>10, <1>11, <2>1, <2>2, <2>3, <2>4 DEF OneChanges
  <2> QED BY <2>5, OneQueueChanged
<1>13. Queues!getcurrent(AsQueues(s), t, p) = AsQueues(u)
  <2>1. AsQueues(s) = [q |-> q, ready |-> s.ready] /\ AsQueues(u) = [q |-> w, ready |-> u.ready]
    BY <1>12, HoldsQueues
  <2>2. SubSeq(q[p], Queues!Position(q[p], t) + 1, Len(q[p])) = r
    <3>1. 1 \in DOMAIN q[p] /\ t = q[p][1]
      <4>1. Len(q[p]) \in Nat /\ Len(q[p]) # 0 /\ DOMAIN q[p] = 1 .. Len(q[p])
        BY <1>1
      <4> QED BY <1>1, <4>1
    <3>2. Queues!Position(q[p], t) = 1
      BY <1>1, <3>1, PositionIs
    <3>3. SubSeq(q[p], 2, Len(q[p])) = r
      BY <1>1, TailIsSubSeq DEF r
    <3> QED BY <3>2, <3>3
  <2>3. Queues!getcurrent(AsQueues(s), t, p) =
          [q |-> [q EXCEPT ![p] = SubSeq(@, Queues!Position(@, t) + 1, Len(@))],
           ready |-> s.ready \ {t}]
    BY <1>1, <2>1 DEF Queues!getcurrent
  <2> QED BY <1>3, <2>1, <2>2, <2>3 DEF w
<1>14. \A o \in Priorities : ToSet(w[o]) \subseteq ToSet(q[o])
  BY <1>1, <1>4
<1> QED BY <1>3, <1>12, <1>13, <1>14 DEF Fewer, u, r

(* The thread t stands behind the others of the queue of p.                *)
PutBehind(s, q, p, t) ==
    /\ Holds(putcurrent(s, t, p), [q EXCEPT ![p] = Append(@, t)])
    /\ putcurrent(s, t, p).ready = s.ready \cup {t}
    /\ ToSet(Append(q[p], t)) = ToSet(q[p]) \cup {t}
    /\ Queues!putcurrent(AsQueues(s), t, p) = AsQueues(putcurrent(s, t, p))

(* putcurrent links a thread that is in no queue behind the last.          *)
LEMMA PutsLast ==
    ASSUME NEW s, NEW q, Holds(s, q), NEW p \in Priorities, NEW t \in Threads \ s.ready
    PROVE  PutBehind(s, q, p, t)
<1> DEFINE u == putcurrent(s, t, p)
           r == Append(q[p], t)
           w == [q EXCEPT ![p] = r]
<1>1. /\ q[p] \in Seq(Threads) /\ IsInjective(q[p]) /\ Lists(s.head[p], s.next, q[p])
      /\ s.tail[p] = LastOf(q[p]) /\ s \in Pointers /\ q \in [Priorities -> Seq(Threads)]
      /\ t # NULL /\ t \notin ToSet(q[p]) /\ s.next[t] = NULL
  BY DEF Holds
<1>2. /\ s.head \in [Priorities -> Threads \cup {NULL}]
      /\ s.tail \in [Priorities -> Threads \cup {NULL}]
      /\ s.next \in [Threads -> Threads \cup {NULL}] /\ s.ready \in SUBSET Threads
  BY <1>1 DEF Pointers
<1>3. ToSet(q[p]) \subseteq Threads /\ ToSet(q[p]) \subseteq s.ready
  <2>1. ToSet(q[p]) \subseteq Threads
    BY <1>1 DEF ToSet
  <2> QED BY <2>1 DEF Holds
<1>4. s.tail[p] = NULL <=> q[p] = <<>>
  <2>1. q[p] # <<>> => q[p][Len(q[p])] \in Threads
    <3>1. q[p] # <<>> => Len(q[p]) \in 1 .. Len(q[p])
      BY <1>1
    <3> QED BY <1>1, <3>1
  <2> QED BY <1>1, <2>1 DEF LastOf
<1>5. u = [head  |-> IF s.tail[p] = NULL THEN [s.head EXCEPT ![p] = t] ELSE s.head,
           next  |-> IF s.tail[p] = NULL THEN s.next ELSE [s.next EXCEPT ![s.tail[p]] = t],
           tail  |-> [s.tail EXCEPT ![p] = t],
           ready |-> s.ready \cup {t}]
  BY <1>1 DEF putcurrent
<1> HIDE DEF u
<1>6. /\ u \in Pointers /\ u.tail[p] = t /\ u.ready = s.ready \cup {t}
      /\ u.head[p] = IF q[p] = <<>> THEN t ELSE s.head[p]
      /\ \A o \in Priorities \ {p} : u.head[o] = s.head[o] /\ u.tail[o] = s.tail[o]
      /\ u.next = IF q[p] = <<>> THEN s.next ELSE [s.next EXCEPT ![LastOf(q[p])] = t]
  BY <1>1, <1>2, <1>4, <1>5 DEF Pointers
<1>7. AddsLast(q[p], t, s.head[p], s.next, u.head[p], u.next)
  <2>1. CASE q[p] = <<>>
    BY <1>1, <1>6, <2>1 DEF AddsLast
  <2>2. CASE q[p] # <<>>
    <3>1. PICK n \in Nat : n + 1 = Len(q[p])
      <4>1. Len(q[p]) \in Nat /\ Len(q[p]) # 0
        BY <1>1, <2>2
      <4> QED BY <4>1
    <3>2. /\ \A i \in 1 .. n + 1 : q[p][i] \in Threads /\ q[p][i] \in ToSet(q[p])
          /\ \A i, j \in 1 .. n + 1 : q[p][i] = q[p][j] => i = j
      <4>1. q[p] \in Seq(Threads) /\ IsInjective(q[p])
        BY <1>1
      <4>2. DOMAIN q[p] = 1 .. n + 1 /\ \A i \in 1 .. n + 1 : q[p][i] \in Threads
        BY <3>1, <4>1
      <4>3. \A i \in 1 .. n + 1 : q[p][i] \in ToSet(q[p])
        BY <4>2 DEF ToSet
      <4>4. \A i, j \in 1 .. n + 1 : q[p][i] = q[p][j] => i = j
        BY <4>1, <4>2 DEF IsInjective
      <4> QED BY <4>2, <4>3, <4>4
    <3>3. LastOf(q[p]) = q[p][n + 1] /\ n + 1 \in 1 .. n + 1
      BY <2>2, <3>1 DEF LastOf
    <3>4. u.next[q[p][n + 1]] = t /\ u.next[t] = NULL
      BY <1>1, <1>2, <1>6, <2>2, <3>2, <3>3
    <3>5. ASSUME NEW i \in 1 .. n PROVE u.next[q[p][i]] = s.next[q[p][i]]
      <4>1. q[p][i] # q[p][n + 1] /\ q[p][i] \in Threads
        BY <3>2
      <4> QED BY <1>2, <1>6, <2>2, <3>3, <4>1
    <3>6. Len(q[p]) = n + 1 /\ Len(q[p]) - 1 = n
      BY <3>1
    <3> QED BY <1>6, <2>2, <3>4, <3>5, <3>6 DEF AddsLast
  <2> QED BY <2>1, <2>2
<1>8. /\ r \in Seq(Threads) /\ IsInjective(r) /\ Lists(u.head[p], u.next, r)
      /\ ToSet(r) = ToSet(q[p]) \cup {t}
  BY <1>1, <1>7, PutLast
<1>9. u.tail[p] = LastOf(r)
  <2>1. Len(r) = Len(q[p]) + 1 /\ r[Len(q[p]) + 1] = t /\ r # <<>>
    BY <1>1
  <2> HIDE DEF r
  <2> QED BY <1>6, <2>1 DEF LastOf
<1> HIDE DEF r
<1>10. \A x \in Threads \ (ToSet(q[p]) \cup ToSet(r)) : u.next[x] = s.next[x]
  <2>1. q[p] # <<>> => LastOf(q[p]) \in ToSet(q[p])
    <3>1. q[p] # <<>> => Len(q[p]) \in DOMAIN q[p]
      BY <1>1
    <3> QED BY <3>1 DEF LastOf, ToSet
  <2> QED BY <1>2, <1>6, <2>1
<1>11. u.ready = (s.ready \ ToSet(q[p])) \cup ToSet(r)
  BY <1>3, <1>6, <1>8
<1>12. Holds(u, w)
  <2>1. ToSet(r) \ ToSet(q[p]) \subseteq Threads \ s.ready
    BY <1>8
  <2>2. \A x \in ToSet(q[p]) \ ToSet(r) : u.next[x] = NULL
    BY <1>8
  <2>3. OneChanges(s, q, u, p, r)
    BY <1>6, <1>8, <1>9, <1>10, <1>11, <2>1, <2>2 DEF OneChanges
  <2> QED BY <2>3, OneQueueChanged
<1>13. Queues!putcurrent(AsQueues(s), t, p) = AsQueues(u)
  <2>1. AsQueues(s) = [q |-> q, ready |-> s.ready] /\ AsQueues(u) = [q |-> w, ready |-> u.ready]
    BY <1>12, HoldsQueues
  <2>2. Queues!putcurrent(AsQueues(s), t, p) =
          [q |-> [q EXCEPT ![p] = Append(@, t)], ready |-> s.ready \cup {t}]
    BY <1>1, <2>1 DEF Queues!putcurrent
  <2> QED BY <1>6, <2>1, <2>2 DEF r
<1>14. u.ready = s.ready \cup {t} /\ ToSet(r) = ToSet(q[p]) \cup {t}
  BY <1>6, <1>8
<1> QED BY <1>12, <1>13, <1>14, Zenon DEF PutBehind, u, r

(* readyque_remove takes a thread out wherever it stands.                  *)
LEMMA TakesAnywhere ==
    ASSUME NEW s, NEW q, Holds(s, q), NEW p \in Priorities, NEW t \in ToSet(q[p])
    PROVE  Fewer(q, [q EXCEPT ![p] = RemoveAt(@, Queues!Position(@, t))],
                 readyque_remove(s, t, p), Queues!readyque_remove(AsQueues(s), t, p),
                 s.ready \ {t})
<1> DEFINE u == readyque_remove(s, t, p)
           k == Queues!Position(q[p], t)
           r == RemoveAt(q[p], k)
           w == [q EXCEPT ![p] = r]
           before == prev(s, t, p)
<1>1. /\ q[p] \in Seq(Threads) /\ IsInjective(q[p]) /\ Lists(s.head[p], s.next, q[p])
      /\ s.tail[p] = LastOf(q[p]) /\ s \in Pointers /\ q \in [Priorities -> Seq(Threads)]
  BY DEF Holds
<1>2. /\ s.head \in [Priorities -> Threads \cup {NULL}]
      /\ s.tail \in [Priorities -> Threads \cup {NULL}]
      /\ s.next \in [Threads -> Threads \cup {NULL}] /\ s.ready \in SUBSET Threads
  BY <1>1 DEF Pointers
<1>3. ToSet(q[p]) \subseteq Threads /\ ToSet(q[p]) \subseteq s.ready
  <2>1. ToSet(q[p]) \subseteq Threads
    BY <1>1 DEF ToSet
  <2> QED BY <2>1 DEF Holds
<1>4. PICK n \in Nat : /\ n = Len(q[p]) /\ k \in 1 .. n /\ q[p][k] = t /\ n # 0
  <2>1. PICK j \in DOMAIN q[p] : q[p][j] = t
    BY DEF ToSet
  <2>2. k = j
    BY <1>1, <2>1, PositionIs
  <2>3. DOMAIN q[p] = 1 .. Len(q[p]) /\ Len(q[p]) \in Nat
    BY <1>1
  <2> QED BY <2>1, <2>2, <2>3
<1> HIDE DEF k
<1>5. /\ \A i \in 1 .. n : q[p][i] \in Threads /\ q[p][i] \in ToSet(q[p]) /\ q[p][i] # NULL
      /\ \A i, j \in 1 .. n : q[p][i] = q[p][j] => i = j
      /\ \A i \in 1 .. n : s.next[q[p][i]] = IF i = n THEN NULL ELSE q[p][i + 1]
      /\ s.head[p] = q[p][1] /\ s.tail[p] = q[p][n]
      /\ DOMAIN q[p] = 1 .. n /\ q[p] # <<>>
  <2>1. DOMAIN q[p] = 1 .. n /\ q[p] # <<>>
    BY <1>1, <1>4
  <2>2. \A i \in 1 .. n : q[p][i] \in ToSet(q[p])
    BY <2>1 DEF ToSet
  <2>3. \A i, j \in 1 .. n : q[p][i] = q[p][j] => i = j
    BY <1>1, <2>1 DEF IsInjective
  <2>4. \A i \in 1 .. n : s.next[q[p][i]] = IF i = n THEN NULL ELSE q[p][i + 1]
    BY <1>1, <1>4 DEF Lists
  <2>5. s.head[p] = q[p][1] /\ s.tail[p] = q[p][n]
    BY <1>1, <1>4, <2>1 DEF Lists, LastOf
  <2> QED BY <1>3, <2>1, <2>2, <2>3, <2>4, <2>5
<1>6. before = IF k = 1 THEN NULL ELSE q[p][k - 1]
  <2>1. Linked(s, p) = q[p]
    BY HoldsQueues
  <2>2. s.head[p] = t <=> k = 1
    <3>1. 1 \in 1 .. n
      BY <1>4
    <3> QED BY <1>4, <1>5, <3>1
  <2>3. CASE k = 1
    BY <2>2, <2>3 DEF prev
  <2>4. CASE k # 1
    <3>1. k - 1 \in 1 .. n /\ k - 1 # n /\ (k - 1) + 1 = k
      BY <1>4, <2>4
    <3>2. q[p][k - 1] \in ToSet(q[p]) /\ s.next[q[p][k - 1]] = t
      BY <1>4, <1>5, <3>1
    <3>3. ASSUME NEW x \in ToSet(q[p]), s.next[x] = t PROVE x = q[p][k - 1]
      <4>1. PICK i \in 1 .. n : x = q[p][i]
        BY <1>5 DEF ToSet
      <4>2. i # n
        BY <1>3, <1>5, <3>3, <4>1
      <4>3. i + 1 \in 1 .. n /\ q[p][i + 1] = t
        BY <1>5, <3>3, <4>1, <4>2
      <4>4. i + 1 = k
        BY <1>4, <1>5, <4>3
      <4> QED BY <1>4, <4>1, <4>4
    <3>4. before = CHOOSE x \in ToSet(q[p]) : s.next[x] = t
      BY <2>1, <2>2, <2>4 DEF prev
    <3> HIDE DEF before
    <3> QED BY <2>4, <3>2, <3>3, <3>4
  <2> QED BY <2>3, <2>4
<1>7. u = [head  |-> IF before = NULL THEN [s.head EXCEPT ![p] = s.next[t]] ELSE s.head,
           next  |-> [x \in Threads |-> IF x = t THEN NULL
                                        ELSE IF x = before THEN s.next[t] ELSE s.next[x]],
           tail  |-> IF s.tail[p] = t THEN [s.tail EXCEPT ![p] = before] ELSE s.tail,
           ready |-> s.ready \ {t}]
  <2>1. Linked(s, p) = q[p]
    BY HoldsQueues
  <2> QED BY <2>1 DEF readyque_remove
<1> HIDE DEF u, before
<1>8. k # 1 => k - 1 \in 1 .. n
  BY <1>4
<1>9. before \in Threads \cup {NULL} /\ (before = NULL <=> k = 1) /\ t \in Threads
  BY <1>3, <1>5, <1>6, <1>8
<1>10. /\ u \in Pointers
       /\ u.head[p] = IF k = 1 THEN s.next[t] ELSE s.head[p]
       /\ u.tail[p] = IF s.tail[p] = t THEN before ELSE s.tail[p]
       /\ \A x \in Threads : u.next[x] = IF x = t THEN NULL
                                         ELSE IF x = before THEN s.next[t] ELSE s.next[x]
       /\ \A o \in Priorities \ {p} : u.head[o] = s.head[o] /\ u.tail[o] = s.tail[o]
       /\ u.ready = s.ready \ {t}
  BY <1>2, <1>7, <1>9 DEF Pointers
<1>11. TakesOut(q[p], k, s.head[p], s.next, u.head[p], u.next)
  <2>1. ASSUME NEW i \in 1 .. n, i # k
        PROVE  u.next[q[p][i]] = IF i = k - 1 THEN s.next[q[p][k]] ELSE s.next[q[p][i]]
    <3>1. q[p][i] # t /\ q[p][i] \in Threads /\ q[p][i] # NULL
      BY <1>4, <1>5, <2>1
    <3>2. q[p][i] = before <=> i = k - 1
      <4>1. CASE k = 1
        <5>1. i # k - 1
          BY <1>4, <4>1
        <5> QED BY <1>6, <3>1, <4>1, <5>1
      <4>2. CASE k # 1
        BY <1>5, <1>6, <1>8, <4>2
      <4> QED BY <4>1, <4>2
    <3> QED BY <1>4, <1>10, <3>1, <3>2
  <2> QED BY <1>4, <1>10, <2>1 DEF TakesOut
<1>12. /\ r \in Seq(Threads) /\ IsInjective(r) /\ Lists(u.head[p], u.next, r)
       /\ ToSet(r) = ToSet(q[p]) \ {t}
  <2>1. k \in DOMAIN q[p]
    BY <1>4, <1>5
  <2> HIDE DEF r, w
  <2>2. ASSUME NEW l, l = q[p], NEW uh, uh = u.head[p]
        PROVE  /\ RemoveAt(l, k) \in Seq(Threads) /\ IsInjective(RemoveAt(l, k))
               /\ Lists(uh, u.next, RemoveAt(l, k))
               /\ ToSet(RemoveAt(l, k)) = ToSet(l) \ {l[k]}
    <3>1. /\ l \in Seq(Threads) /\ IsInjective(l) /\ Lists(s.head[p], s.next, l)
          /\ k \in DOMAIN l /\ TakesOut(l, k, s.head[p], s.next, uh, u.next)
      BY <1>1, <1>11, <2>1, <2>2, Zenon
    <3>2. RemoveAt(l, k) \in Seq(Threads) /\ IsInjective(RemoveAt(l, k))
      BY ONLY <3>1, TakenOut
    <3>3. Lists(uh, u.next, RemoveAt(l, k))
      BY ONLY <3>1, TakenOut
    <3>4. ToSet(RemoveAt(l, k)) = ToSet(l) \ {l[k]}
      BY ONLY <3>1, TakenOut
    <3> QED BY <3>2, <3>3, <3>4
  <2> QED BY <1>4, <2>2 DEF r
<1>13. u.tail[p] = LastOf(r)
  <2>1. PICK m \in Nat : m + 1 = n
    BY <1>4
  <2>2. /\ Len(r) = m /\ \A i \in 1 .. m : r[i] = q[p][IF i < k THEN i ELSE i + 1]
    <3>1. Len(q[p]) - 1 = m /\ k \in 1 .. Len(q[p])
      BY <1>4, <2>1
    <3> QED BY <1>1, <3>1, LeftAfterRemoval
  <2>3. r = <<>> <=> m = 0
    BY <1>12, <2>2
  <2>4. s.tail[p] = t <=> k = n
    BY <1>4, <1>5
  <2>5. CASE k = n
    <3>1. m # 0 => m \in 1 .. m /\ m < k /\ k # 1 /\ k - 1 = m
      BY <2>1, <2>5
    <3>2. m = 0 => k = 1
      BY <2>1, <2>5
    <3> QED BY <1>6, <1>10, <2>2, <2>3, <2>4, <2>5, <3>1, <3>2 DEF LastOf
  <2>6. CASE k # n
    <3>1. m # 0 /\ m \in 1 .. m /\ ~(m < k)
      BY <1>4, <2>1, <2>6
    <3> QED BY <1>5, <1>10, <2>1, <2>2, <2>3, <2>4, <2>6, <3>1 DEF LastOf
  <2> QED BY <2>5, <2>6
<1> HIDE DEF r
<1>14. Holds(u, w)
  <2>1. u.ready = (s.ready \ ToSet(q[p])) \cup ToSet(r)
    BY <1>3, <1>10, <1>12
  <2>2. ToSet(r) \ ToSet(q[p]) \subseteq Threads \ s.ready
    BY <1>12
  <2>3. \A x \in ToSet(q[p]) \ ToSet(r) : u.next[x] = NULL
    BY <1>9, <1>10, <1>12
  <2>4. before = NULL \/ before \in ToSet(q[p])
    BY <1>5, <1>6, <1>8
  <2>5. \A x \in Threads \ (ToSet(q[p]) \cup ToSet(r)) : u.next[x] = s.next[x]
    <3> TAKE x \in Threads \ (ToSet(q[p]) \cup ToSet(r))
    <3>1. x # t /\ x # before
      BY <2>4
    <3> QED BY <1>10, <3>1
  <2>6. OneChanges(s, q, u, p, r)
    BY <1>10, <1>12, <1>13, <2>1, <2>2, <2>3, <2>5 DEF OneChanges
  <2> QED BY <2>6, OneQueueChanged
<1>15. Queues!readyque_remove(AsQueues(s), t, p) = AsQueues(u)
  <2>1. AsQueues(s) = [q |-> q, ready |-> s.ready] /\ AsQueues(u) = [q |-> w, ready |-> u.ready]
    BY <1>14, HoldsQueues
  <2>2. Queues!readyque_remove(AsQueues(s), t, p) =
          [q |-> [q EXCEPT ![p] = RemoveAt(@, Queues!Position(@, t))], ready |-> s.ready \ {t}]
    <3>1. t \in ToSet(AsQueues(s).q[p])
      BY <2>1
    <3>2. Queues!readyque_remove(AsQueues(s), t, p) =
            [q |-> [AsQueues(s).q EXCEPT ![p] = RemoveAt(@, Queues!Position(@, t))],
             ready |-> AsQueues(s).ready \ {t}]
      BY <3>1 DEF Queues!readyque_remove, Queues!ToSet, ToSet, Queues!RemoveAt, RemoveAt
    <3>3. AsQueues(s).q = q /\ AsQueues(s).ready = s.ready
      BY <2>1
    <3> QED BY <3>2, <3>3
  <2> QED BY <1>10, <2>1, <2>2 DEF r, k
<1>16. \A o \in Priorities : ToSet(w[o]) \subseteq ToSet(q[o])
  BY <1>1, <1>12
<1> QED BY <1>10, <1>14, <1>15, <1>16 DEF Fewer, u, r, k

-----------------------------------------------------------------------------
(* The ready queues of the threads in alive, each in the queue home names. *)
Ready(s, alive, home) ==
    /\ Holds(s, AsQueues(s).q)
    /\ \A p \in Priorities : \A t \in ToSet(AsQueues(s).q[p]) : t \in alive /\ home[t] = p

(* The thread c is the first of its queue.                                 *)
AtFront(s, c, home) ==
    /\ c \in s.ready /\ home[c] \in Priorities
    /\ AsQueues(s).q[home[c]] # <<>> /\ c = Head(AsQueues(s).q[home[c]])

(* Whoever holds the queues says what they are.                            *)
LEMMA ReadyAs ==
    ASSUME NEW s, NEW q, NEW alive, NEW home, Holds(s, q),
           \A p \in Priorities : \A t \in ToSet(q[p]) : t \in alive /\ home[t] = p
    PROVE  Ready(s, alive, home) /\ AsQueues(s).q = q
<1>1. AsQueues(s) = [q |-> q, ready |-> s.ready]
  BY HoldsQueues
<1>2. AsQueues(s).q = q
  BY <1>1
<1> QED BY <1>2 DEF Ready

(* A thread has left its queue.                                            *)
LEMMA ReadyFewer ==
    ASSUME NEW s, NEW alive, NEW home, Ready(s, alive, home),
           NEW w, NEW u, NEW v, NEW ready, Fewer(AsQueues(s).q, w, u, v, ready)
    PROVE  Ready(u, alive, home)
<1>1. Holds(u, w)
  BY DEF Fewer
<1>2. \A o \in Priorities : \A x \in ToSet(w[o]) : x \in alive /\ home[x] = o
  BY DEF Fewer, Ready
<1> QED BY <1>1, <1>2, ReadyAs

(* Changes to threads that are in no queue do not matter.                  *)
LEMMA ReadyStays ==
    ASSUME NEW s, NEW alive, NEW home, NEW alive2, NEW home2, Ready(s, alive, home),
           \A t \in s.ready : t \in alive2 /\ home2[t] = home[t]
    PROVE  Ready(s, alive2, home2)
<1> DEFINE q == AsQueues(s).q
<1>1. Holds(s, q) /\ \A p \in Priorities : \A t \in ToSet(q[p]) : home[t] = p
  BY DEF Ready
<1> HIDE DEF q
<1>2. \A p \in Priorities : \A t \in ToSet(q[p]) : t \in s.ready
  <2>1. \A p \in Priorities : ToSet(q[p]) \subseteq Threads
    <3> TAKE p \in Priorities
    <3>1. q[p] \in Seq(Threads)
      BY <1>1 DEF Holds
    <3> QED BY <3>1 DEF ToSet
  <2> QED BY <1>1, <2>1 DEF Holds
<1> QED BY <1>1, <1>2 DEF Ready, q

(* Threads in a queue are alive, and where home says.                      *)
LEMMA ReadyMember ==
    ASSUME NEW s, NEW alive, NEW home, Ready(s, alive, home), NEW t \in s.ready
    PROVE  /\ t \in alive /\ t \in Threads /\ home[t] \in Priorities
           /\ t \in ToSet(AsQueues(s).q[home[t]])
<1>1. s.ready \subseteq Threads
  BY DEF Ready, Holds, Pointers
<1>2. PICK p \in Priorities : t \in ToSet(AsQueues(s).q[p])
  BY <1>1 DEF Ready, Holds
<1> QED BY <1>1, <1>2 DEF Ready

(* getcurrent, with its pointers, takes the first thread of its queue.     *)
LEMMA ReadyTaken ==
    ASSUME NEW s, NEW alive, NEW home, Ready(s, alive, home), NEW t, AtFront(s, t, home)
    PROVE  /\ Ready(getcurrent(s, t, home[t]), alive, home)
           /\ getcurrent(s, t, home[t]).ready = s.ready \ {t}
           /\ Queues!getcurrent(AsQueues(s), t, home[t]) = AsQueues(getcurrent(s, t, home[t]))
<1> DEFINE q == AsQueues(s).q
           p == home[t]
           u == getcurrent(s, t, p)
<1>1. /\ Holds(s, q) /\ \A o \in Priorities : \A x \in ToSet(q[o]) : x \in alive /\ home[x] = o
      /\ p \in Priorities /\ q[p] # <<>> /\ t = Head(q[p]) /\ q \in [Priorities -> Seq(Threads)]
  BY DEF Ready, AtFront, Holds
<1> HIDE DEF q
<1> HIDE DEF p
<1>2. Fewer(q, [q EXCEPT ![p] = Tail(@)], u, Queues!getcurrent(AsQueues(s), t, p), s.ready \ {t})
  BY <1>1, TakesFirst
<1> HIDE DEF u
<1>3. Ready(u, alive, home)
  BY <1>2, ReadyFewer DEF q
<1> QED BY <1>2, <1>3 DEF Fewer, u, p

(* putcurrent, with its pointers, puts a thread behind its queue.          *)
LEMMA ReadyPut ==
    ASSUME NEW s, NEW alive, NEW home, Ready(s, alive, home), NEW t \in Threads, t \in alive,
           NEW p \in Priorities, t \notin s.ready => home[t] = p
    PROVE  /\ Ready(putcurrent(s, t, p), alive, home)
           /\ putcurrent(s, t, p).ready = s.ready \cup {t}
           /\ Queues!putcurrent(AsQueues(s), t, p) = AsQueues(putcurrent(s, t, p))
<1> DEFINE q == AsQueues(s).q
           u == putcurrent(s, t, p)
<1>1. /\ Holds(s, q) /\ \A o \in Priorities : \A x \in ToSet(q[o]) : x \in alive /\ home[x] = o
      /\ q \in [Priorities -> Seq(Threads)]
  BY DEF Ready, Holds
<1>2. AsQueues(s).ready = s.ready
  BY DEF AsQueues
<1>3. CASE t \in s.ready
  <2>1. u = s /\ Queues!putcurrent(AsQueues(s), t, p) = AsQueues(s)
    BY <1>2, <1>3 DEF putcurrent, Queues!putcurrent
  <2> QED BY <1>3, <2>1
<1>4. CASE t \notin s.ready
  <2> HIDE DEF q
  <2>1. /\ Holds(u, [q EXCEPT ![p] = Append(@, t)]) /\ u.ready = s.ready \cup {t}
        /\ ToSet(Append(q[p], t)) = ToSet(q[p]) \cup {t}
        /\ Queues!putcurrent(AsQueues(s), t, p) = AsQueues(u)
    <3>1. Holds(s, q) /\ p \in Priorities /\ t \in Threads \ s.ready
      BY <1>1, <1>4
    <3>2. PutBehind(s, q, p, t)
      BY <3>1, PutsLast
    <3> QED BY <3>2, Zenon DEF PutBehind
  <2> HIDE DEF u
  <2>2. \A o \in Priorities : \A x \in ToSet([q EXCEPT ![p] = Append(@, t)][o]) :
           x \in alive /\ home[x] = o
    BY <1>1, <1>4, <2>1
  <2>3. Ready(u, alive, home)
    BY <2>1, <2>2, ReadyAs
  <2> QED BY <2>1, <2>3 DEF u
<1> QED BY <1>3, <1>4

(* readyque_remove, with its pointers, takes a thread from anywhere.       *)
LEMMA ReadyRemoved ==
    ASSUME NEW s, NEW alive, NEW home, Ready(s, alive, home), NEW t \in Threads,
           home[t] \in Priorities
    PROVE  /\ Ready(readyque_remove(s, t, home[t]), alive, home)
           /\ readyque_remove(s, t, home[t]).ready = s.ready \ {t}
           /\ Queues!readyque_remove(AsQueues(s), t, home[t])
                = AsQueues(readyque_remove(s, t, home[t]))
<1> DEFINE q == AsQueues(s).q
           p == home[t]
           u == readyque_remove(s, t, p)
<1>1. /\ Holds(s, q) /\ \A o \in Priorities : \A x \in ToSet(q[o]) : x \in alive /\ home[x] = o
      /\ p \in Priorities /\ q \in [Priorities -> Seq(Threads)]
  BY DEF Ready, Holds
<1>2. Linked(s, p) = q[p]
  BY <1>1 DEF AsQueues
<1> HIDE DEF q
<1>3. CASE t \notin ToSet(q[p])
  <2>1. t \notin s.ready
    BY <1>1, <1>3 DEF Holds
  <2>2. u = s
    BY <1>2, <1>3 DEF readyque_remove
  <2>3. Queues!readyque_remove(AsQueues(s), t, p) = AsQueues(s)
    BY <1>3 DEF Queues!readyque_remove, Queues!ToSet, ToSet, q
  <2> QED BY <2>1, <2>2, <2>3
<1>4. CASE t \in ToSet(q[p])
  <2> DEFINE r == RemoveAt(q[p], Queues!Position(q[p], t))
  <2> HIDE DEF p
  <2>1. Fewer(q, [q EXCEPT ![p] = r], u, Queues!readyque_remove(AsQueues(s), t, p), s.ready \ {t})
    BY <1>1, <1>4, TakesAnywhere
  <2> HIDE DEF u, r
  <2>2. Ready(u, alive, home)
    BY <2>1, ReadyFewer DEF q
  <2> QED BY <2>1, <2>2 DEF Fewer, u, p
<1> QED BY <1>3, <1>4

(* schedule takes the first thread of the most urgent queue.               *)
LEMMA Scheduled ==
    ASSUME NEW s, NEW alive, NEW home, Ready(s, alive, home)
    PROVE  /\ none_ready(s) <=> s.ready = {}
           /\ Queues!Idle(AsQueues(s)) <=> none_ready(s)
           /\ ~none_ready(s) => /\ AtFront(s, first_ready(s), home)
                                /\ Queues!first_ready(AsQueues(s)) = first_ready(s)
<1> DEFINE q == AsQueues(s).q
<1>1. /\ Holds(s, q) /\ \A o \in Priorities : \A x \in ToSet(q[o]) : x \in alive /\ home[x] = o
      /\ q \in [Priorities -> Seq(Threads)] /\ s.ready \subseteq Threads
      /\ \A t \in Threads : t \in s.ready <=> \E p \in Priorities : t \in ToSet(q[p])
  BY DEF Ready, Holds, Pointers
<1>2. DOMAIN q = Priorities /\ AsQueues(s).q = q
  BY <1>1
<1> HIDE DEF q
<1>3. \A p \in Priorities :
         /\ s.head[p] = NULL <=> q[p] = <<>>
         /\ q[p] # <<>> => /\ s.head[p] = Head(q[p]) /\ Head(q[p]) \in ToSet(q[p])
                           /\ Head(q[p]) \in s.ready
  BY <1>1, HeadOfQueue
<1>4. none_ready(s) <=> s.ready = {}
  <2>1. ASSUME NEW p \in Priorities, q[p] = <<>> PROVE ToSet(q[p]) = {}
    BY <2>1 DEF ToSet
  <2> QED BY <1>1, <1>3, <2>1 DEF none_ready
<1>5. Queues!Idle(AsQueues(s)) <=> none_ready(s)
  BY <1>2, <1>3 DEF Queues!Idle, none_ready
<1>6. ASSUME ~none_ready(s)
      PROVE  AtFront(s, first_ready(s), home) /\ Queues!first_ready(AsQueues(s)) = first_ready(s)
  <2> DEFINE D == {p \in Priorities : s.head[p] # NULL}
             top == CHOOSE p \in Priorities :
                      s.head[p] # NULL /\ \A o \in Priorities : s.head[o] # NULL => p <= o
             top2 == CHOOSE p \in Priorities :
                       q[p] # <<>> /\ \A o \in Priorities : q[o] # <<>> => p <= o
  <2>1. D \in SUBSET Nat /\ D # {}
    BY <1>6 DEF none_ready
  <2>2. \E p \in D : \A o \in D : p <= o
    <3> HIDE DEF D
    <3> QED BY <2>1, LeastElement
  <2>3. \E p \in Priorities :
           s.head[p] # NULL /\ \A o \in Priorities : s.head[o] # NULL => p <= o
    BY <2>2
  <2>4. top \in Priorities /\ s.head[top] # NULL
    BY <2>3
  <2>5. first_ready(s) = s.head[top]
    BY DEF first_ready
  <2>6. top2 = top
    <3>1. \A p \in Priorities :
             (s.head[p] # NULL /\ \A o \in Priorities : s.head[o] # NULL => p <= o)
             <=> (q[p] # <<>> /\ \A o \in Priorities : q[o] # <<>> => p <= o)
      BY <1>3
    <3> QED BY <3>1
  <2>7. Queues!TopPriority(AsQueues(s)) = top2
    BY <1>2 DEF Queues!TopPriority
  <2> HIDE DEF top, top2, D
  <2>8. /\ q[top] # <<>> /\ first_ready(s) = Head(q[top]) /\ first_ready(s) \in s.ready
        /\ home[first_ready(s)] = top
    BY <1>1, <1>3, <2>4, <2>5
  <2>9. AtFront(s, first_ready(s), home)
    BY <1>2, <2>4, <2>8 DEF AtFront
  <2>10. Queues!first_ready(AsQueues(s)) = first_ready(s)
    BY <1>2, <2>6, <2>7, <2>8 DEF Queues!first_ready
  <2> QED BY <2>9, <2>10
<1> QED BY <1>4, <1>5, <1>6

HIDE SlotAssumption

(***************************************************************************)
(* The first frames, and what holds of every frame.                        *)
(***************************************************************************)
(* What holds of the words v of a thread that func started: a new one has  *)
(* its frame and nothing else, one that has stopped at svc asks for a call *)
(* somebody makes, one back from setintr finds the handler set, and the    *)
(* privilege is the one it was started with.                               *)
Sound(v, func, soft) ==
    /\ v \in Seq(Words)
    /\ v[17] \in {the("thread_init"), the("app_thread_init")} => Len(v) = 18
    /\ v[17] = the("svc") =>
         \E call \in Calls : v[11] = the(call.type) /\ v[12] = number(call.param)
    /\ v[17] = the("returned") /\ v[11] = the("setintr") => "serintr" \in soft
    /\ v[10] = IF func = "run" THEN the("privileged") ELSE the("unprivileged")

Apps == {"run", "run_app"}

(* The registers of a frame, by place.                                     *)
LEMMA RegisterNames ==
    /\ Popped[1] = "r8" /\ Popped[2] = "r9" /\ Popped[3] = "r10" /\ Popped[4] = "r11"
    /\ Popped[5] = "r4" /\ Popped[6] = "r5" /\ Popped[7] = "r6" /\ Popped[8] = "r7"
    /\ Popped[9] = "exc_return" /\ Popped[10] = "control"
    /\ Popped[11] = "r0" /\ Popped[12] = "r1" /\ Popped[13] = "r2" /\ Popped[14] = "r3"
    /\ Popped[15] = "r12" /\ Popped[16] = "lr" /\ Popped[17] = "pc" /\ Popped[18] = "xpsr"
BY ContextWords

(* The words thread_run lays out, from the lowest address.                 *)
LEMMA PushedWords ==
    ASSUME NEW call \in Apps, NEW t \in Threads
    PROVE  /\ pushed(call, t) \in Seq(Words) /\ Len(pushed(call, t)) = 18
           /\ \A i \in 1 .. 8 : pushed(call, t)[i] = number(0)
           /\ \A i \in 1 .. 10 : pushed(call, t)[i + 8] = pushes(call, t)[11 - i]
           /\ pushes(call, t) \in Seq(Words) /\ Len(pushes(call, t)) = 10
<1> DEFINE a == pushes(call, t)
           z == [i \in 1 .. 8 |-> number(0)]
           az == a \o z
<1>1. /\ a \in Seq(Words) /\ Len(a) = 10
  <2>1. t \in Nat
    BY SlotAssumption
  <2>2. CASE call = "run"
    <3>1. a = <<the("thumb"), the("thread_init"), the("thread_end"), number(0), number(0),
              number(0), number(0), own(t, "thp"), the("privileged"), the("thread")>>
      BY <2>2 DEF pushes
    <3> HIDE DEF a
    <3> QED BY <2>1, <3>1 DEF Words, Tags, the, own, number
  <2>3. CASE call = "run_app"
    <3>1. a = <<the("thumb"), the("app_thread_init"), the("thread_end"), number(0), number(0),
              the("argv"), the("argc"), the("func"), the("unprivileged"), the("thread")>>
      BY <2>3 DEF pushes
    <3> HIDE DEF a
    <3> QED BY <2>1, <3>1 DEF Words, Tags, the, own, number
  <2> QED BY <2>2, <2>3 DEF Apps
<1>2. z \in Seq(Words) /\ Len(z) = 8 /\ \A i \in 1 .. 8 : z[i] = number(0)
  <2>1. number(0) \in Words
    BY DEF number, Words, Tags
  <2> QED BY <2>1
<1>3. pushed(call, t) = Reverse(az)
  BY DEF pushed
<1> HIDE DEF a, z
<1>4. /\ az \in Seq(Words) /\ Len(az) = Len(a) + Len(z)
      /\ \A i \in 1 .. Len(a) + Len(z) : az[i] = IF i <= Len(a) THEN a[i] ELSE z[i - Len(a)]
  BY <1>1, <1>2, Joined, Zenon
<1> HIDE DEF az
<1>5. az \in Seq(Words) /\ Len(az) = 18
  BY <1>1, <1>2, <1>4
<1>6. /\ Reverse(az) \in Seq(Words) /\ Len(Reverse(az)) = 18
      /\ \A i \in 1 .. 18 : Reverse(az)[i] = az[19 - i]
  <2>1. Reverse(az) = [i \in 1 .. 18 |-> az[(18 - i) + 1]]
    BY <1>5 DEF Reverse
  <2>2. \A i \in 1 .. 18 : (18 - i) + 1 = 19 - i /\ (18 - i) + 1 \in 1 .. 18
    OBVIOUS
  <2>3. \A i \in 1 .. 18 : az[(18 - i) + 1] \in Words
    BY <1>5, <2>2, ElementOfSeq
  <2> QED BY <2>1, <2>2, <2>3
<1>9. \A i \in 1 .. 18 : az[i] = IF i <= 10 THEN a[i] ELSE z[i - 10]
  <2>1. Len(a) = 10 /\ Len(a) + Len(z) = 18
    BY <1>1, <1>2
  <2> QED BY <1>4, <2>1
<1>7. \A i \in 1 .. 8 : Reverse(az)[i] = number(0)
  <2> TAKE i \in 1 .. 8
  <2>1. i \in 1 .. 18 /\ 19 - i \in 1 .. 18 /\ ~(19 - i <= 10) /\ (19 - i) - 10 \in 1 .. 8
    OBVIOUS
  <2>2. Reverse(az)[i] = az[19 - i]
    BY <1>6, <2>1
  <2>3. az[19 - i] = z[(19 - i) - 10]
    BY <1>9, <2>1
  <2> QED BY <1>2, <2>1, <2>2, <2>3
<1>8. \A i \in 1 .. 10 : Reverse(az)[i + 8] = a[11 - i]
  <2> TAKE i \in 1 .. 10
  <2>1. i + 8 \in 1 .. 18 /\ 19 - (i + 8) = 11 - i /\ 11 - i \in 1 .. 18 /\ 11 - i <= 10
    OBVIOUS
  <2>2. Reverse(az)[i + 8] = az[11 - i]
    BY <1>6, <2>1
  <2>3. az[11 - i] = a[11 - i]
    BY <1>9, <2>1
  <2> QED BY <2>2, <2>3
<1> QED BY <1>1, <1>3, <1>6, <1>7, <1>8 DEF a

(* They are what a thread shall find.                                      *)
LEMMA FirstContext ==
    ASSUME NEW call \in Apps, NEW t \in Threads
    PROVE  pushed(call, t) = First(call, t)
<1> DEFINE p == pushed(call, t)
           f == First(call, t)
<1>1. p \in Seq(Words) /\ Len(p) = 18 /\ \A i \in 1 .. 8 : p[i] = number(0)
  BY PushedWords
<1>2. \A i \in 1 .. 10 : p[i + 8] = pushes(call, t)[11 - i]
  BY PushedWords
<1> HIDE DEF p
<1>3. /\ p[9] = pushes(call, t)[10] /\ p[10] = pushes(call, t)[9] /\ p[11] = pushes(call, t)[8]
      /\ p[12] = pushes(call, t)[7] /\ p[13] = pushes(call, t)[6] /\ p[14] = pushes(call, t)[5]
      /\ p[15] = pushes(call, t)[4] /\ p[16] = pushes(call, t)[3] /\ p[17] = pushes(call, t)[2]
      /\ p[18] = pushes(call, t)[1]
  <2>1. \A i \in 1 .. 10 : \A j, k \in Nat : j = i + 8 /\ k = 11 - i => p[j] = pushes(call, t)[k]
    BY <1>2
  <2> QED BY <2>1
<1>4. CASE call = "run"
  <2> DEFINE n == [r0 |-> own(t, "thp"), lr |-> the("thread_end"), pc |-> the("thread_init"),
                   control |-> the("privileged"),
                   exc_return |-> the("thread"), xpsr |-> the("thumb")]
  <2>1. f = [i \in 1 .. 18 |-> IF Popped[i] \in DOMAIN n THEN n[Popped[i]] ELSE number(0)]
    BY <1>4, OwnWord DEF First
  <2>2. DOMAIN n = {"r0", "lr", "pc", "control", "exc_return", "xpsr"}
    OBVIOUS
  <2>3. /\ n["r0"] = own(t, "thp") /\ n["lr"] = the("thread_end") /\ n["pc"] = the("thread_init")
        /\ n["control"] = the("privileged") /\ n["exc_return"] = the("thread")
        /\ n["xpsr"] = the("thumb")
    OBVIOUS
  <2> HIDE DEF n, f
  <2>4. /\ f = [i \in 1 .. 18 |-> f[i]]
        /\ \A i \in 1 .. 8 : f[i] = number(0)
        /\ f[9] = the("thread") /\ f[10] = the("privileged") /\ f[11] = own(t, "thp")
        /\ f[12] = number(0) /\ f[13] = number(0) /\ f[14] = number(0) /\ f[15] = number(0)
        /\ f[16] = the("thread_end") /\ f[17] = the("thread_init") /\ f[18] = the("thumb")
    BY <2>1, <2>2, <2>3, RegisterNames
  <2>5. pushes(call, t)
          = <<the("thumb"), the("thread_init"), the("thread_end"), number(0), number(0),
              number(0), number(0), own(t, "thp"), the("privileged"), the("thread")>>
    BY <1>4 DEF pushes
  <2>6. \A i \in 1 .. 18 : p[i] = f[i]
    BY <1>1, <1>3, <2>4, <2>5
  <2>7. p = [i \in 1 .. 18 |-> p[i]]
    BY <1>1
  <2>8. p = f
    BY <2>4, <2>6, <2>7
  <2> QED BY <2>8 DEF p, f
<1>5. CASE call = "run_app"
  <2> DEFINE n == [r0 |-> the("func"), r1 |-> the("argc"), r2 |-> the("argv"),
                   lr |-> the("thread_end"), pc |-> the("app_thread_init"),
                   control |-> the("unprivileged"),
                   exc_return |-> the("thread"), xpsr |-> the("thumb")]
  <2>1. f = [i \in 1 .. 18 |-> IF Popped[i] \in DOMAIN n THEN n[Popped[i]] ELSE number(0)]
    BY <1>5, OwnWord DEF First
  <2>2. DOMAIN n = {"r0", "r1", "r2", "lr", "pc", "control", "exc_return", "xpsr"}
    OBVIOUS
  <2>3. /\ n["r0"] = the("func") /\ n["r1"] = the("argc") /\ n["r2"] = the("argv")
        /\ n["lr"] = the("thread_end") /\ n["pc"] = the("app_thread_init")
        /\ n["control"] = the("unprivileged") /\ n["exc_return"] = the("thread")
        /\ n["xpsr"] = the("thumb")
    OBVIOUS
  <2> HIDE DEF n, f
  <2>4. /\ f = [i \in 1 .. 18 |-> f[i]]
        /\ \A i \in 1 .. 8 : f[i] = number(0)
        /\ f[9] = the("thread") /\ f[10] = the("unprivileged") /\ f[11] = the("func")
        /\ f[12] = the("argc") /\ f[13] = the("argv") /\ f[14] = number(0) /\ f[15] = number(0)
        /\ f[16] = the("thread_end") /\ f[17] = the("app_thread_init") /\ f[18] = the("thumb")
    BY <2>1, <2>2, <2>3, RegisterNames
  <2>5. pushes(call, t)
          = <<the("thumb"), the("app_thread_init"), the("thread_end"), number(0), number(0),
              the("argv"), the("argc"), the("func"), the("unprivileged"), the("thread")>>
    BY <1>5 DEF pushes
  <2>6. \A i \in 1 .. 18 : p[i] = f[i]
    BY <1>1, <1>3, <2>4, <2>5
  <2>7. p = [i \in 1 .. 18 |-> p[i]]
    BY <1>1
  <2>8. p = f
    BY <2>4, <2>6, <2>7
  <2> QED BY <2>8 DEF p, f
<1> QED BY <1>4, <1>5 DEF Apps

(* A new thread is sound.                                                  *)
LEMMA FirstSound ==
    ASSUME NEW call \in Apps, NEW t \in Threads, NEW soft
    PROVE  Sound(pushed(call, t), call, soft) /\ Len(pushed(call, t)) = 18
<1> DEFINE p == pushed(call, t)
<1>1. p \in Seq(Words) /\ Len(p) = 18
  BY PushedWords
<1>2. \A i \in 1 .. 10 : p[i + 8] = pushes(call, t)[11 - i]
  BY PushedWords
<1>3. pushes(call, t)[2] \in {the("thread_init"), the("app_thread_init")}
  BY DEF pushes, Apps
<1>4. pushes(call, t)[9] = IF call = "run" THEN the("privileged") ELSE the("unprivileged")
  BY DEF pushes, Apps
<1> HIDE DEF p
<1>5. p[17] = pushes(call, t)[2] /\ p[10] = pushes(call, t)[9]
  <2>1. \A i \in 1 .. 10 : \A j, k \in Nat : j = i + 8 /\ k = 11 - i => p[j] = pushes(call, t)[k]
    BY <1>2
  <2> QED BY <2>1
<1>6. p[17] # the("svc") /\ p[17] # the("returned")
  BY <1>3, <1>5 DEF the
<1>7. Sound(p, call, soft)
  BY <1>1, <1>4, <1>5, <1>6 DEF Sound
<1> QED BY <1>1, <1>7 DEF p

(***************************************************************************)
(* The state: the stacks, what they hold, and the queues.                  *)
(***************************************************************************)
(* The threads in use, and their priorities; thread slots as a value.      *)
AliveIn(ths) == {t \in Threads : ths[t].func # NULL}

Homes(ths) == [t \in Threads |-> ths[t].priority]

(* Where an area begins, as it is handed out: the first thread has its own. *)
Bottom(func) == IF func = "run" THEN UserStack.first + STACK ELSE AppStack.first

(* Two threads have nothing in common.                                     *)
Apart(ths, t, u) ==
    ths[t].stack + STACK <= ths[u].stack \/ ths[u].stack + STACK <= ths[t].stack

(* Where the stacks lie, and what has been handed out.                     *)
Layout(ths, ar) ==
    /\ ths \in [Threads -> [func : Apps \cup {NULL}, priority : Priorities, stack : Nat, sp : Nat]]
    /\ ar = [call \in Apps |-> ar[call]]
    /\ \A call \in Apps :
         ar[call] \in Nat /\ Bottom(call) <= ar[call] /\ ar[call] <= stack_end(call)
    /\ \A t \in AliveIn(ths) :
         /\ (IF ths[t].func = "run" THEN UserStack.first ELSE AppStack.first) + STACK <= ths[t].stack
         /\ ths[t].stack <= ar[ths[t].func]
    /\ \A t, u \in AliveIn(ths) : t # u => Apart(ths, t, u)

(* The inductive invariant.                                                *)
Inv ==
    /\ Layout(threads, area)
    /\ memory \in Seq(Words) /\ Len(memory) = AppStack.end /\ Cpu(cpu)
    /\ \A t \in Live : /\ Pushed(cpu, current, threads, t)
                       /\ Sound(registers_and_stack(t), threads[t].func, softvec)
    /\ ("serintr" \in enabled => "serintr" \in softvec)
    /\ Ready(lists, Live, prio)
    /\ current = NULL \/ (current \in Live /\ AtFront(lists, current, prio))

(* The places of the stacks in numbers.                                    *)
LEMMA Bounds ==
    /\ STACK \in Nat /\ STACK > 18
    /\ UserStack.first \in Nat /\ UserStack.end \in Nat
    /\ AppStack.first \in Nat /\ AppStack.end \in Nat
    /\ UserStack.first + STACK <= UserStack.end /\ UserStack.end <= AppStack.first
    /\ AppStack.first <= AppStack.end
    /\ stack_end("run") = UserStack.end /\ stack_end("run_app") = AppStack.end
<1>1. /\ STACK \in Nat /\ STACK > 18
      /\ UserStack.first \in Nat /\ UserStack.end \in Nat
      /\ AppStack.first \in Nat /\ AppStack.end \in Nat
      /\ UserStack.first + STACK <= UserStack.end /\ UserStack.end <= AppStack.first
  BY StackAssumption DEF FRAME
<1>2. stack_end("run") = UserStack.end /\ stack_end("run_app") = AppStack.end
  BY DEF stack_end
<1>3. PICK k \in 0 .. 27 : AppStack.end - AppStack.first = region_size[k]
  BY StackAssumption
<1>4. region_size[k] \in Nat
  BY RegionSizes
<1> QED BY <1>1, <1>2, <1>3, <1>4

(* A stack lies in memory.                                                 *)
LEMMA StackInMemory ==
    ASSUME NEW ths, NEW ar, Layout(ths, ar), NEW t \in AliveIn(ths)
    PROVE  /\ t \in Threads /\ ths[t].func \in Apps /\ ths[t].stack \in Nat /\ ths[t].sp \in Nat
           /\ ths[t].priority \in Priorities
           /\ STACK <= ths[t].stack /\ ths[t].stack <= AppStack.end
<1>1. /\ t \in Threads /\ ths[t].func \in Apps /\ ths[t].stack \in Nat /\ ths[t].sp \in Nat
      /\ ths[t].priority \in Priorities
  BY DEF Layout, AliveIn
<1>2. /\ (IF ths[t].func = "run" THEN UserStack.first ELSE AppStack.first) + STACK <= ths[t].stack
      /\ ths[t].stack <= ar[ths[t].func] /\ ar[ths[t].func] \in Nat
      /\ ar[ths[t].func] <= stack_end(ths[t].func)
  BY <1>1 DEF Layout
<1> QED BY <1>1, <1>2, Bounds DEF Apps

(* What a thread's context becomes when it is saved with pc.               *)
With(pc, t) ==
    IF t = current THEN [registers_and_stack(t) EXCEPT ![17] = pc] ELSE registers_and_stack(t)

(* What a thread finds once it is loaded.                                  *)
Parked(m, ths, t) == SubSeq(m, ths[t].sp + 1, ths[t].stack)

(* What each thread sees in a state that satisfies Inv.                    *)
LEMMA SeenNow ==
    ASSUME Inv, NEW t \in Live
    PROVE  /\ Sees(memory, cpu, current, threads, t, registers_and_stack(t))
           /\ threads[t].stack - Base(cpu, current, threads, t) \in {18, 19}
           /\ Base(cpu, current, threads, t) \in Nat
           /\ threads[t].stack \in Nat /\ threads[t].stack <= Len(memory)
           /\ STACK <= threads[t].stack
<1>1. /\ Layout(threads, area) /\ memory \in Seq(Words) /\ Len(memory) = AppStack.end /\ Cpu(cpu)
      /\ Pushed(cpu, current, threads, t) /\ t \in AliveIn(threads)
  BY DEF Inv, Live, AliveIn
<1>2. threads[t].stack \in Nat /\ threads[t].stack <= Len(memory) /\ STACK <= threads[t].stack
  BY <1>1, StackInMemory
<1>3. registers_and_stack(t) = View(memory, cpu, current, threads, t)
  BY DEF registers_and_stack, View
<1>4. Sees(memory, cpu, current, threads, t, registers_and_stack(t))
  BY <1>1, <1>2, <1>3, ViewOf
<1> QED BY <1>1, <1>2, <1>4 DEF Pushed

(* Memory when a handler has saved the caller's context, with pc.          *)
LEMMA SavedWords ==
    ASSUME Inv, current # NULL, NEW pc \in Words, NEW c, c = [cpu EXCEPT !["pc"] = pc],
           NEW here, here = Base(cpu, current, threads, current)
    PROVE  /\ here \in Nat /\ here + 18 <= Len(memory) /\ here = cpu["sp"] - 18
           /\ save_context(c) \in Seq(Words) /\ Len(save_context(c)) = Len(memory)
           /\ \A i \in 1 .. Len(memory) : save_context(c)[i] =
                IF here < i /\ i <= here + 18
                THEN IF i - here = 17 THEN pc ELSE cpu[Popped[i - here]]
                ELSE memory[i]
<1> DEFINE sc == save_context(c)
<1>1. current \in Live /\ Cpu(cpu) /\ memory \in Seq(Words)
  BY DEF Inv
<1>3. /\ threads[current].stack - here \in {18, 19} /\ here \in Nat
      /\ threads[current].stack \in Nat /\ threads[current].stack <= Len(memory)
  BY <1>1, SeenNow
<1>4. here = cpu["sp"] - 18 /\ cpu["sp"] \in Nat
  BY <1>1 DEF Base, Cpu
<1>5. /\ Cpu(c) /\ c["sp"] = cpu["sp"] /\ c["pc"] = pc
      /\ \A i \in 1 .. 18 : i # 17 => c[Popped[i]] = cpu[Popped[i]]
  <2>1. c["sp"] = cpu["sp"] /\ c["pc"] = pc
    BY <1>1 DEF Cpu, Registers
  <2>2. Cpu(c)
    BY <1>1 DEF Cpu, Registers
  <2>3. \A i \in 1 .. 18 : i # 17 => Popped[i] # "pc" /\ Popped[i] \in Registers
    BY OwnWord, RegisterNames
  <2> QED BY <1>1, <2>1, <2>2, <2>3 DEF Cpu
<1>6. Overlaid(memory, here, values(c, Popped), sc)
  <2>1. 18 <= c["sp"] /\ c["sp"] <= Len(memory) /\ c["sp"] - 18 = here
    <3>1. PICK sp \in Nat : sp = cpu["sp"] /\ here = sp - 18
      BY <1>4
    <3>2. PICK top, len : top = threads[current].stack /\ len = Len(memory)
      OBVIOUS
    <3>3. /\ top \in Nat /\ len \in Nat /\ here \in Nat /\ sp \in Nat
          /\ top - here \in {18, 19} /\ top <= len /\ here = sp - 18
      BY <1>1, <1>3, <3>1, <3>2
    <3>4. 18 <= sp /\ sp <= len
      BY ONLY <3>3
    <3> QED BY <1>5, <3>1, <3>2, <3>4
  <2>2. Overlaid(memory, c["sp"] - 18, values(c, Popped), sc)
    BY <1>1, <1>5, <2>1, SavedContext
  <2> QED BY <2>1, <2>2
<1>7. sc \in Seq(Words) /\ Len(sc) = Len(memory)
  BY <1>6 DEF Overlaid
<1>8. \A i \in 1 .. Len(memory) :
         sc[i] = IF here < i /\ i <= here + 18 THEN c[Popped[i - here]] ELSE memory[i]
  <2>1. Len(values(c, Popped)) = 18 /\ \A i \in 1 .. 18 : values(c, Popped)[i] = c[Popped[i]]
    BY <1>5, ContextOf
  <2> HIDE DEF sc
  <2> TAKE i \in 1 .. Len(memory)
  <2>2. here < i /\ i <= here + 18 => i - here \in 1 .. 18
    <3>1. i \in Int /\ here \in Int
      BY <1>3
    <3> QED BY ONLY <3>1
  <2> QED BY <1>6, <2>1, <2>2 DEF Overlaid
<1> HIDE DEF sc
<1>9. ASSUME NEW i \in 1 .. Len(memory)
      PROVE  sc[i] = IF here < i /\ i <= here + 18
                     THEN IF i - here = 17 THEN pc ELSE cpu[Popped[i - here]]
                     ELSE memory[i]
  <2>1. CASE here < i /\ i <= here + 18
    <3>1. i - here \in 1 .. 18
      <4>1. i \in Int /\ here \in Int
        BY <1>3
      <4> QED BY ONLY <2>1, <4>1
    <3>2. sc[i] = c[Popped[i - here]]
      BY <1>8, <2>1
    <3>3. i - here = 17 => Popped[i - here] = "pc"
      BY RegisterNames
    <3> QED BY <1>5, <2>1, <3>1, <3>2, <3>3
  <2>2. CASE ~(here < i /\ i <= here + 18)
    BY <1>8, <2>2
  <2> QED BY <2>1, <2>2
<1>10. here + 18 <= Len(memory)
  BY <1>3
<1> QED BY <1>3, <1>4, <1>7, <1>9, <1>10 DEF sc

(* The handlers' saves keep the registers and the stack of every thread.   *)
LEMMA Kept ==
    ASSUME Inv, current # NULL, NEW pc \in Words, NEW c, c = [cpu EXCEPT !["pc"] = pc],
           NEW t \in Live, NEW m \in Seq(Words), Len(m) = Len(memory),
           \A i \in 1 .. Len(memory) :
             threads[t].stack - STACK < i /\ i <= threads[t].stack => m[i] = save_context(c)[i],
           NEW ths, ths[t].stack = threads[t].stack, ths[t].sp = Base(cpu, current, threads, t)
    PROVE  Parked(m, ths, t) = With(pc, t)
<1> DEFINE base == Base(cpu, current, threads, t)
           top == threads[t].stack
           v == registers_and_stack(t)
           w == Parked(m, ths, t)
           x == With(pc, t)
           here == Base(cpu, current, threads, current)
           sc == save_context(c)
<1>1. current \in Live
  BY DEF Inv
<1>2. /\ Sees(memory, cpu, current, threads, t, v) /\ top - base \in {18, 19}
      /\ base \in Nat /\ top \in Nat /\ top <= Len(memory) /\ STACK <= top
  BY SeenNow
<1>3. /\ threads[current].stack - here \in {18, 19} /\ here \in Nat
      /\ threads[current].stack \in Nat
  BY <1>1, SeenNow
<1>4. memory \in Seq(Words)
  BY DEF Inv
<1>7. \A i \in 1 .. Len(memory) : sc[i] =
         IF here < i /\ i <= here + 18
         THEN IF i - here = 17 THEN pc ELSE cpu[Popped[i - here]]
         ELSE memory[i]
  BY SavedWords
<1>8. /\ v \in Seq(Words) /\ Len(v) = top - base
      /\ \A i \in 1 .. top - base :
           v[i] = IF t = current /\ i <= 18 THEN cpu[Popped[i]] ELSE memory[base + i]
  BY <1>2 DEF Sees
<1>9. t # current => top + STACK <= threads[current].stack \/ threads[current].stack + STACK <= top
  <2>1. t \in AliveIn(threads) /\ current \in AliveIn(threads) /\ Layout(threads, area)
    BY <1>1 DEF Live, AliveIn, Inv
  <2> QED BY <2>1 DEF Layout, Apart
<1>10. w \in Seq(Words) /\ Len(w) = top - base /\ \A i \in 1 .. top - base : w[i] = m[base + i]
  <2>1. w = SubSeq(m, base + 1, top)
    BY DEF Parked
  <2>2. base <= top /\ top <= Len(m)
    BY <1>2
  <2> HIDE DEF base, top, w
  <2> QED BY <1>2, <2>1, <2>2, PartOfMemory
<1> HIDE DEF w, v, sc
<1>11. /\ x \in Seq(Words) /\ Len(x) = top - base
       /\ \A i \in 1 .. top - base : x[i] = IF t = current /\ i = 17 THEN pc ELSE v[i]
  <2>1. x = IF t = current THEN [v EXCEPT ![17] = pc] ELSE v
    BY DEF With, v
  <2> HIDE DEF x, base, top
  <2>2. top - base \in Nat /\ 17 \in 1 .. top - base
    BY <1>2
  <2> QED BY <1>8, <2>1, <2>2
<1> HIDE DEF x
<1>12. STACK \in Nat /\ STACK > 18
  BY Bounds
<1>13. ASSUME NEW i \in 1 .. top - base PROVE w[i] = x[i]
  <2>1. i \in Nat /\ base + i \in 1 .. Len(memory) /\ top - STACK < base + i /\ base + i <= top
    <3> HIDE DEF base, top
    <3> QED BY <1>2, <1>12
  <2>2. w[i] = sc[base + i]
    BY <1>10, <2>1 DEF sc
  <2>3. CASE t = current
    <3>1. base = here
      BY <2>3
    <3>2. here < base + i
      BY <1>2, <2>1, <3>1
    <3>3. CASE i <= 18
      <4>1. base + i <= here + 18 /\ (base + i) - here = i /\ i \in 1 .. 18
        BY <1>2, <3>1, <3>3
      <4>2. w[i] = IF i = 17 THEN pc ELSE cpu[Popped[i]]
        BY <1>7, <2>1, <2>2, <3>2, <4>1
      <4>3. v[i] = cpu[Popped[i]]
        BY <1>8, <2>3, <3>3
      <4> QED BY <1>11, <2>3, <4>2, <4>3
    <3>4. CASE ~(i <= 18)
      <4>1. ~(base + i <= here + 18) /\ i # 17
        BY <1>2, <2>1, <3>1, <3>4
      <4>2. w[i] = memory[base + i]
        BY <1>7, <2>1, <2>2, <4>1
      <4> QED BY <1>8, <1>11, <3>4, <4>1, <4>2
    <3> QED BY <3>3, <3>4
  <2>4. CASE t # current
    <3>1. ~(here < base + i /\ base + i <= here + 18)
      <4>1. top + STACK <= threads[current].stack \/ threads[current].stack + STACK <= top
        BY <1>9, <2>4
      <4>2. PICK z \in Nat : z = threads[current].stack /\ z - here \in {18, 19}
        BY <1>3
      <4>3. base \in Int /\ i \in Int /\ top \in Int /\ here \in Int
        BY <1>2, <1>3, <2>1
      <4> HIDE DEF base, top, here
      <4>4. top + STACK <= z => base + i <= here
        BY ONLY <1>12, <2>1, <4>2, <4>3
      <4>5. z + STACK <= top => base + i > here + 18
        <5>1. z >= here + 18
          BY ONLY <4>2, <4>3
        <5>2. z + STACK <= top => z < base + i
          BY ONLY <1>12, <2>1, <4>2, <4>3
        <5> QED BY ONLY <4>2, <4>3, <5>1, <5>2
      <4> QED BY <4>1, <4>2, <4>3, <4>4, <4>5
    <3>2. w[i] = memory[base + i]
      BY <1>7, <2>1, <2>2, <3>1
    <3> QED BY <1>8, <1>11, <2>4, <3>2
  <2> QED BY <2>3, <2>4
<1>14. w = x
  BY <1>10, <1>11, <1>13, SameWords
<1> QED BY <1>14 DEF w, x

(* The end of every handler: schedule and dispatch.                        *)
LEMMA KernelStep ==
    ASSUME Inv, NEW q, NEW ths, NEW m \in Seq(Words), Len(m) = Len(memory),
           thread_intr(q, ths, m), Layout(ths, area'),
           enabled' = enabled, softvec \subseteq softvec',
           Ready(q, AliveIn(ths), Homes(ths)),
           \A t \in AliveIn(ths) : /\ ths[t].stack - ths[t].sp \in {18, 19}
                                   /\ Sound(Parked(m, ths, t), ths[t].func, softvec')
    PROVE  /\ Inv'
           /\ Live' = AliveIn(ths) /\ prio' = Homes(ths) /\ current' \in Live' \cup {NULL}
           /\ \A t \in AliveIn(ths) : registers_and_stack(t)' = Parked(m, ths, t)
           /\ Queues!schedule(AsQueues(q))
<1>1. /\ lists' = q /\ threads' = ths /\ memory' = m
      /\ current' = IF none_ready(q) THEN NULL ELSE first_ready(q)
      /\ cpu' = IF none_ready(q) THEN cpu ELSE dispatch(m, ths[first_ready(q)].sp)
  BY DEF thread_intr
<1>2. Live' = AliveIn(ths) /\ prio' = Homes(ths)
  BY <1>1 DEF Live, AliveIn, prio, Homes
<1>3. /\ Queues!Idle(AsQueues(q)) <=> none_ready(q)
      /\ ~none_ready(q) => /\ AtFront(q, first_ready(q), Homes(ths))
                           /\ Queues!first_ready(AsQueues(q)) = first_ready(q)
  BY Scheduled
<1>4. Queues!schedule(AsQueues(q))
  BY <1>1, <1>3 DEF Queues!schedule
<1>5. NULL \notin Threads
  BY SlotAssumption
<1>6. ASSUME NEW t \in AliveIn(ths)
      PROVE  /\ t \in Threads /\ t # NULL /\ ths[t].stack \in Nat /\ ths[t].sp \in Nat
             /\ ths[t].stack <= Len(m) /\ Pushed(cpu, NULL, ths, t)
  <2>1. /\ t \in Threads /\ ths[t].stack \in Nat /\ ths[t].sp \in Nat
        /\ ths[t].stack <= AppStack.end
    BY StackInMemory
  <2>2. Len(memory) = AppStack.end
    BY DEF Inv
  <2>3. Base(cpu, NULL, ths, t) = ths[t].sp
    BY <1>5, <2>1 DEF Base
  <2> QED BY <1>5, <2>1, <2>2, <2>3 DEF Pushed
<1>7. /\ Cpu(cpu')
      /\ \A t \in AliveIn(ths) : /\ View(m, cpu', current', ths, t) = Parked(m, ths, t)
                                 /\ Pushed(cpu', current', ths, t)
      /\ current' = NULL \/ (current' \in AliveIn(ths) /\ AtFront(q, current', Homes(ths)))
  <2>1. CASE none_ready(q)
    <3>1. current' = NULL /\ cpu' = cpu
      BY <1>1, <2>1
    <3>2. Cpu(cpu)
      BY DEF Inv
    <3> QED BY <1>6, <3>1, <3>2 DEF View, Parked
  <2>2. CASE ~none_ready(q)
    <3> DEFINE f == first_ready(q)
    <3>1. current' = f /\ cpu' = dispatch(m, ths[f].sp) /\ AtFront(q, f, Homes(ths))
      BY <1>1, <1>3, <2>2
    <3> HIDE DEF f
    <3>2. f \in AliveIn(ths)
      BY <3>1, ReadyMember DEF AtFront
    <3>3. /\ f # NULL /\ ths[f].stack \in Nat /\ ths[f].stack <= Len(m)
          /\ Pushed(cpu, NULL, ths, f)
      BY <1>6, <3>2
    <3>4. View(m, dispatch(m, ths[f].sp), f, ths, f) = SubSeq(m, ths[f].sp + 1, ths[f].stack)
      BY <3>3, LoadedView
    <3>5. Pushed(dispatch(m, ths[f].sp), f, ths, f)
      BY <3>3, LoadedView
    <3>6. Cpu(dispatch(m, ths[f].sp))
      BY <3>3, LoadedView
    <3>7. ASSUME NEW t \in AliveIn(ths), t # f
          PROVE  View(m, cpu', f, ths, t) = Parked(m, ths, t) /\ Pushed(cpu', f, ths, t)
      <4>1. Pushed(cpu, NULL, ths, t) /\ t # NULL
        BY <1>6
      <4> QED BY <3>7, <4>1 DEF View, Parked, Pushed, Base
    <3> QED BY <3>1, <3>2, <3>4, <3>5, <3>6, <3>7 DEF Parked
  <2> QED BY <2>1, <2>2
<1>8. \A t \in AliveIn(ths) : registers_and_stack(t)' = Parked(m, ths, t)
  BY <1>1, <1>7 DEF registers_and_stack, View
<1>9. Inv'
  <2>1. /\ Layout(threads', area') /\ memory' \in Seq(Words) /\ Len(memory') = AppStack.end
        /\ Cpu(cpu')
    BY <1>1, <1>7 DEF Inv
  <2>2. \A t \in Live' : /\ Pushed(cpu', current', threads', t)
                         /\ Sound(registers_and_stack(t)', threads'[t].func, softvec')
    BY <1>1, <1>2, <1>7, <1>8
  <2>3. ("serintr" \in enabled' => "serintr" \in softvec')
    BY DEF Inv
  <2>4. Ready(lists', Live', prio')
    BY <1>1, <1>2
  <2>5. current' = NULL \/ (current' \in Live' /\ AtFront(lists', current', prio'))
    BY <1>1, <1>2, <1>7
  <2> QED BY <2>1, <2>2, <2>3, <2>4, <2>5 DEF Inv
<1> QED BY <1>2, <1>4, <1>7, <1>8, <1>9

(* The caller's stack pointer, as interrupt keeps it.                      *)
LEMMA Entered ==
    ASSUME Inv, current # NULL
    PROVE  /\ current \in Live /\ AtFront(lists, current, prio)
           /\ entered \in [Threads -> [func : Apps \cup {NULL}, priority : Priorities,
                                       stack : Nat, sp : Nat]]
           /\ AliveIn(entered) = Live /\ Homes(entered) = prio
           /\ \A t \in Live : /\ entered[t].func = threads[t].func
                              /\ entered[t].stack = threads[t].stack
                              /\ entered[t].sp = Base(cpu, current, threads, t)
<1>1. /\ current \in Live /\ AtFront(lists, current, prio) /\ current \in Threads
      /\ threads \in [Threads -> [func : Apps \cup {NULL}, priority : Priorities,
                                  stack : Nat, sp : Nat]]
  BY DEF Inv, Layout, Live
<1>2. Base(cpu, current, threads, current) = cpu["sp"] - FRAME
  BY DEF Base, FRAME
<1>3. cpu["sp"] - FRAME \in Nat
  BY <1>1, <1>2, SeenNow
<1>4. /\ entered \in [Threads -> [func : Apps \cup {NULL}, priority : Priorities,
                                   stack : Nat, sp : Nat]]
      /\ \A t \in Threads :
           /\ entered[t].func = threads[t].func /\ entered[t].stack = threads[t].stack
           /\ entered[t].priority = threads[t].priority
           /\ entered[t].sp = IF t = current THEN cpu["sp"] - FRAME ELSE threads[t].sp
  BY <1>1, <1>3 DEF entered
<1>5. AliveIn(entered) = Live /\ Homes(entered) = prio
  BY <1>4 DEF AliveIn, Live, Homes, prio
<1>6. \A t \in Live : entered[t].sp = Base(cpu, current, threads, t)
  BY <1>2, <1>4 DEF Base, Live
<1> QED BY <1>1, <1>4, <1>5, <1>6 DEF Live

(* Only the pc changes, and only by a call's return.                       *)
LEMMA StillSound ==
    ASSUME Inv, current # NULL, NEW pc, NEW soft, softvec \subseteq soft, NEW t \in Live,
           \/ pc = cpu["pc"]
           \/ /\ pc = the("returned")
              /\ cpu["r0"] = the("setintr") => "serintr" \in soft
    PROVE  Sound(With(pc, t), threads[t].func, soft)
<1> DEFINE v == registers_and_stack(t)
           x == With(pc, t)
<1>1. Sound(v, threads[t].func, softvec)
  BY DEF Inv
<1>2. Sees(memory, cpu, current, threads, t, v)
  BY SeenNow
<1>3. threads[t].stack - Base(cpu, current, threads, t) \in {18, 19}
  BY SeenNow
<1>4. v \in Seq(Words) /\ Len(v) \in {18, 19}
  BY <1>2, <1>3 DEF Sees
<1>5. t = current => v[17] = cpu["pc"] /\ v[11] = cpu["r0"]
  <2> HIDE DEF v
  <2>1. \A i \in 1 .. 18 : t = current => v[i] = cpu[Popped[i]]
    <3>1. PICK n \in {18, 19} : n = Len(v)
      BY <1>4
    <3>2. \A i \in 1 .. 18 : i \in 1 .. n
      <4>1. n \in {18, 19}
        OBVIOUS
      <4> QED BY ONLY <4>1
    <3>3. \A i \in 1 .. n :
             v[i] = IF t = current /\ i <= 18 THEN cpu[Popped[i]]
                    ELSE memory[Base(cpu, current, threads, t) + i]
      BY <1>2, <3>1 DEF Sees
    <3> QED BY <3>2, <3>3
  <2>2. t = current => v[17] = cpu[Popped[17]] /\ v[11] = cpu[Popped[11]]
    BY <2>1
  <2> QED BY <2>2, RegisterNames
<1>6. x = IF t = current THEN [v EXCEPT ![17] = pc] ELSE v
  BY DEF With
<1> HIDE DEF v, x
<1>7. CASE t # current \/ pc = v[17]
  <2>1. 17 \in DOMAIN v /\ v = [i \in DOMAIN v |-> v[i]]
    BY <1>4
  <2>2. x = v
    BY <1>6, <1>7, <2>1
  <2> QED BY <1>1, <2>2 DEF Sound, x
<1>8. CASE t = current /\ pc = the("returned")
           /\ (cpu["r0"] = the("setintr") => "serintr" \in soft)
  <2>1. the("returned") \in Words
    BY DEF the, Words, Tags
  <2>2. x \in Seq(Words) /\ x[17] = the("returned") /\ x[11] = v[11] /\ x[10] = v[10]
    BY <1>4, <1>6, <1>8, <2>1
  <2>3. the("returned") \notin {the("thread_init"), the("app_thread_init"), the("svc")}
    BY DEF the
  <2> QED BY <1>1, <1>5, <1>8, <2>2, <2>3 DEF Sound, x
<1> QED BY <1>5, <1>7, <1>8

(* Memory with the caller's context saved.                                *)
SavedAt(pc) == save_context([cpu EXCEPT !["pc"] = pc])

(* The pc a handler saves: as it was, or behind the svc instruction.       *)
PcAfter(pc, soft) ==
    /\ pc \in Words
    /\ \/ pc = cpu["pc"]
       \/ pc = the("returned") /\ (cpu["r0"] = the("setintr") => "serintr" \in soft)

(* What a handler leaves to the threads that were there, and to new ones.  *)
Keeps(ths, m, pc) ==
    \A t \in AliveIn(ths) \cap Live :
        /\ ths[t].func = entered[t].func /\ ths[t].stack = entered[t].stack
        /\ ths[t].sp = entered[t].sp
        /\ \A i \in 1 .. Len(memory) :
             threads[t].stack - STACK < i /\ i <= threads[t].stack => m[i] = SavedAt(pc)[i]

Starts(ths, m, soft) ==
    \A t \in AliveIn(ths) \ Live :
        ths[t].stack - ths[t].sp = 18 /\ Sound(Parked(m, ths, t), ths[t].func, soft)

(* The end of a handler: the next thread runs, and new is what each finds. *)
Turn(q, ths, new) ==
    /\ Inv'
    /\ Live' = AliveIn(ths) /\ prio' = Homes(ths) /\ current' \in Live' \cup {NULL}
    /\ [t \in Live |-> registers_and_stack(t)]' = new
    /\ Queues!schedule(AsQueues(q))

(* What every handler does to the threads: those that were there find      *)
(* their own words, the caller with pc.                                    *)
LEMMA Handled ==
    ASSUME Inv, current # NULL, NEW pc, PcAfter(pc, softvec'),
           NEW q, NEW ths, NEW m \in Seq(Words), Len(m) = Len(memory),
           thread_intr(q, ths, m), Layout(ths, area'),
           enabled' = enabled, softvec \subseteq softvec',
           Ready(q, AliveIn(ths), Homes(ths)),
           Keeps(ths, m, pc), Starts(ths, m, softvec')
    PROVE  Turn(q, ths, [t \in AliveIn(ths) |->
                          IF t \in Live THEN With(pc, t) ELSE Parked(m, ths, t)])
<1>1. ASSUME NEW t \in AliveIn(ths) \cap Live
      PROVE  /\ Parked(m, ths, t) = With(pc, t)
             /\ ths[t].stack - ths[t].sp \in {18, 19}
             /\ Sound(Parked(m, ths, t), ths[t].func, softvec')
  <2>1. /\ ths[t].func = threads[t].func /\ ths[t].stack = threads[t].stack
        /\ ths[t].sp = Base(cpu, current, threads, t)
        /\ \A i \in 1 .. Len(memory) :
             threads[t].stack - STACK < i /\ i <= threads[t].stack => m[i] = SavedAt(pc)[i]
    BY Entered DEF Keeps
  <2>2. Parked(m, ths, t) = With(pc, t)
    BY <2>1, Kept DEF PcAfter, SavedAt
  <2>3. threads[t].stack - Base(cpu, current, threads, t) \in {18, 19}
    BY SeenNow
  <2>4. Sound(With(pc, t), threads[t].func, softvec')
    BY StillSound DEF PcAfter
  <2> QED BY <2>1, <2>2, <2>3, <2>4
<1>2. \A t \in AliveIn(ths) : /\ ths[t].stack - ths[t].sp \in {18, 19}
                              /\ Sound(Parked(m, ths, t), ths[t].func, softvec')
  BY <1>1 DEF Starts
<1>3. Inv'
  BY <1>2, KernelStep
<1>4. Live' = AliveIn(ths) /\ prio' = Homes(ths) /\ current' \in Live' \cup {NULL}
  BY <1>2, KernelStep
<1>5. \A t \in AliveIn(ths) : registers_and_stack(t)' = Parked(m, ths, t)
  BY <1>2, KernelStep
<1>6. Queues!schedule(AsQueues(q))
  BY <1>2, KernelStep
<1>7. [t \in Live |-> registers_and_stack(t)]' =
         [t \in AliveIn(ths) |-> IF t \in Live THEN With(pc, t) ELSE Parked(m, ths, t)]
  BY <1>1, <1>4, <1>5
<1> QED BY <1>3, <1>4, <1>6, <1>7 DEF Turn

(* Stacks stay where they are.                                             *)
LEMMA LayoutStays ==
    ASSUME NEW ths, NEW ar, Layout(ths, ar), NEW new,
           new \in [Threads -> [func : Apps \cup {NULL}, priority : Priorities,
                                stack : Nat, sp : Nat]],
           \A t \in AliveIn(new) : /\ t \in AliveIn(ths) /\ new[t].func = ths[t].func
                                   /\ new[t].stack = ths[t].stack
    PROVE  Layout(new, ar)
<1>1. \A t \in AliveIn(new) :
        /\ (IF new[t].func = "run" THEN UserStack.first ELSE AppStack.first) + STACK <= new[t].stack
        /\ new[t].stack <= ar[new[t].func]
  BY DEF Layout
<1>2. \A t, u \in AliveIn(new) : t # u => Apart(new, t, u)
  <2> TAKE t, u \in AliveIn(new)
  <2>1. t # u => Apart(ths, t, u)
    BY DEF Layout
  <2> QED BY <2>1 DEF Apart
<1> QED BY <1>1, <1>2 DEF Layout

(* The handlers that start no thread.                                      *)
LEMMA Served ==
    ASSUME Inv, current # NULL, NEW pc, PcAfter(pc, softvec'),
           NEW q, NEW ths, thread_intr(q, ths, SavedAt(pc)),
           area' = area, enabled' = enabled, softvec \subseteq softvec',
           ths \in [Threads -> [func : Apps \cup {NULL}, priority : Priorities,
                                stack : Nat, sp : Nat]],
           Ready(q, AliveIn(ths), Homes(ths)),
           \A t \in AliveIn(ths) :
             /\ t \in Live /\ ths[t].func = entered[t].func
             /\ ths[t].stack = entered[t].stack /\ ths[t].sp = entered[t].sp
    PROVE  Turn(q, ths, [t \in AliveIn(ths) |-> With(pc, t)])
<1> DEFINE m == SavedAt(pc)
<1>1. m \in Seq(Words) /\ Len(m) = Len(memory)
  BY SavedWords DEF PcAfter, SavedAt
<1>2. Layout(ths, area')
  <2>1. Layout(threads, area) /\ Live = AliveIn(threads)
    BY DEF Inv, Live, AliveIn
  <2>2. \A t \in AliveIn(ths) : /\ t \in AliveIn(threads) /\ ths[t].func = threads[t].func
                                /\ ths[t].stack = threads[t].stack
    BY <2>1, Entered
  <2>3. Layout(ths, area)
    BY <2>1, <2>2, LayoutStays
  <2> QED BY <2>3
<1>3. Keeps(ths, m, pc)
  BY DEF Keeps
<1>4. AliveIn(ths) \ Live = {} /\ Starts(ths, m, softvec')
  BY DEF Starts
<1>5. thread_intr(q, ths, m)
  OBVIOUS
<1> HIDE DEF m
<1>6. Turn(q, ths, [t \in AliveIn(ths) |->
                      IF t \in Live THEN With(pc, t) ELSE Parked(m, ths, t)])
  BY <1>1, <1>2, <1>3, <1>4, <1>5, Handled
<1>7. [t \in AliveIn(ths) |-> IF t \in Live THEN With(pc, t) ELSE Parked(m, ths, t)]
        = [t \in AliveIn(ths) |-> With(pc, t)]
  BY <1>4
<1> QED BY <1>6, <1>7

(* What syscall_intr reads from the saved frame is what r0 and r1 held.    *)
LEMMA SyscallWords ==
    ASSUME Inv, current # NULL
    PROVE  syscall_type = cpu["r0"][1] /\ syscall_param = cpu["r1"][2]
<1> DEFINE here == Base(cpu, current, threads, current)
           pc == the("returned")
<1>1. pc \in Words
  BY DEF the, Words, Tags
<1>2. at_svc = [cpu EXCEPT !["pc"] = pc]
  BY DEF at_svc
<1>3. entered[current].sp = here
  BY Entered
<1> HIDE DEF here, pc
<1>4. /\ here \in Nat /\ here + 18 <= Len(memory)
      /\ \A i \in 1 .. Len(memory) : save_context(at_svc)[i] =
                IF here < i /\ i <= here + 18
                THEN IF i - here = 17 THEN pc ELSE cpu[Popped[i - here]]
                ELSE memory[i]
  BY <1>1, <1>2, SavedWords DEF here
<1>5. Len(memory) \in Nat
  BY DEF Inv
<1>6. /\ (here + 10) + 1 \in 1 .. Len(memory) /\ ((here + 10) + 1) - here = 11
      /\ (here + 11) + 1 \in 1 .. Len(memory) /\ ((here + 11) + 1) - here = 12
      /\ here < (here + 10) + 1 /\ (here + 10) + 1 <= here + 18
      /\ here < (here + 11) + 1 /\ (here + 11) + 1 <= here + 18
  BY <1>4, <1>5
<1>7. save_context(at_svc)[(here + 10) + 1] = cpu[Popped[11]]
  BY <1>4, <1>6
<1>8. save_context(at_svc)[(here + 11) + 1] = cpu[Popped[12]]
  BY <1>4, <1>6
<1> QED BY <1>3, <1>7, <1>8, RegisterNames DEF syscall_type, syscall_param, called, word

(* A thread that has stopped at svc asks for a call that somebody makes.   *)
LEMMA Asked ==
    ASSUME Inv, current # NULL, cpu["pc"] = the("svc")
    PROVE  /\ cpu["r0"] = the(syscall_type) /\ syscall_param \in Nat
           /\ syscall_type \in {"run", "run_app", "chpri"} => syscall_param \in Priorities
           /\ registers_and_stack(current)[11] = cpu["r0"]
           /\ registers_and_stack(current)[17] = cpu["pc"]
<1> DEFINE v == registers_and_stack(current)
<1>1. current \in Live /\ Sound(v, threads[current].func, softvec)
  BY DEF Inv
<1>2. v[17] = cpu["pc"] /\ v[11] = cpu["r0"] /\ v[12] = cpu["r1"]
  <2>1. /\ Sees(memory, cpu, current, threads, current, v)
        /\ threads[current].stack - Base(cpu, current, threads, current) \in {18, 19}
    BY <1>1, SeenNow
  <2> HIDE DEF v
  <2>2. PICK n \in {18, 19} : n = Len(v)
    BY <2>1 DEF Sees
  <2>3. \A i \in 1 .. n : v[i] = IF i <= 18 THEN cpu[Popped[i]]
                                 ELSE memory[Base(cpu, current, threads, current) + i]
    BY <2>1, <2>2 DEF Sees
  <2>4. \A i \in 1 .. 18 : i \in 1 .. n
    <3>1. n \in {18, 19}
      OBVIOUS
    <3> QED BY ONLY <3>1
  <2>5. \A i \in 1 .. 18 : v[i] = cpu[Popped[i]]
    BY <2>3, <2>4
  <2>6. v[17] = cpu[Popped[17]] /\ v[11] = cpu[Popped[11]] /\ v[12] = cpu[Popped[12]]
    BY <2>5
  <2> QED BY <2>6, RegisterNames
<1> HIDE DEF v
<1>3. PICK call \in Calls : cpu["r0"] = the(call.type) /\ cpu["r1"] = number(call.param)
  BY <1>1, <1>2 DEF Sound
<1>4. syscall_type = call.type /\ syscall_param = call.param
  BY <1>3, SyscallWords DEF the, number
<1>5. call.param \in Nat /\ (call.type \in {"run", "run_app", "chpri"} => call.param \in Priorities)
  BY CallAssumption
<1> QED BY <1>2, <1>3, <1>4, <1>5 DEF v

(***************************************************************************)
(* The handlers, one by one.                                               *)
(***************************************************************************)
(* The queues when the caller has been taken off, and put back.            *)
LEMMA Mine ==
    ASSUME Inv, current # NULL
    PROVE  /\ Ready(mine, Live, prio) /\ mine.ready = lists.ready \ {current}
           /\ Queues!taken = AsQueues(mine)
<1>1. Ready(lists, Live, prio) /\ AtFront(lists, current, prio)
  BY DEF Inv
<1>2. Ready(getcurrent(lists, current, prio[current]), Live, prio)
  BY <1>1, ReadyTaken
<1>3. getcurrent(lists, current, prio[current]).ready = lists.ready \ {current}
  BY <1>1, ReadyTaken
<1>4. Queues!getcurrent(AsQueues(lists), current, prio[current])
        = AsQueues(getcurrent(lists, current, prio[current]))
  BY <1>1, ReadyTaken
<1> QED BY <1>2, <1>3, <1>4 DEF mine, Queues!taken

(* ... and put back behind its queue.                                      *)
LEMMA Requeued ==
    ASSUME Inv, current # NULL
    PROVE  /\ Ready(requeued, Live, prio) /\ requeued.ready = lists.ready
           /\ Queues!back = AsQueues(requeued)
<1>1. Ready(mine, Live, prio) /\ mine.ready = lists.ready \ {current}
  BY Mine
<1>2. /\ current \in Live /\ current \in Threads /\ prio[current] \in Priorities
      /\ current \in lists.ready
  BY DEF Inv, Live, AtFront
<1>3. Ready(putcurrent(mine, current, prio[current]), Live, prio)
  BY <1>1, <1>2, ReadyPut
<1>4. putcurrent(mine, current, prio[current]).ready = mine.ready \cup {current}
  BY <1>1, <1>2, ReadyPut
<1>5. Queues!putcurrent(AsQueues(mine), current, prio[current])
        = AsQueues(putcurrent(mine, current, prio[current]))
  BY <1>1, <1>2, ReadyPut
<1>6. mine.ready \cup {current} = lists.ready
  BY <1>1, <1>2
<1>7. Queues!taken = AsQueues(mine)
  BY Mine
<1> QED BY <1>3, <1>4, <1>5, <1>6, <1>7 DEF requeued, Queues!back

(* Threads in a queue are in use.                                          *)
LEMMA ReadyLive ==
    ASSUME Inv
    PROVE  /\ lists.ready \subseteq Live /\ Live \subseteq Threads
           /\ \A t \in Live : prio[t] \in Priorities
<1>1. Ready(lists, Live, prio)
  BY DEF Inv
<1>2. lists.ready \subseteq Live
  BY <1>1, ReadyMember
<1>3. \A t \in Live : prio[t] \in Priorities
  BY DEF Inv, Layout, Live, prio
<1> QED BY <1>2, <1>3 DEF Live

(* Where Processors looks.                                                 *)
LEMMA Places ==
    /\ Offset["r0"] + 1 = 11 /\ Offset["pc"] + 1 = 17 /\ Offset["control"] + 1 = 10
    /\ Offset["exc_return"] + 1 = 9 /\ Offset["xpsr"] + 1 = 18
<1>1. /\ Offset[Popped[11]] = 10 /\ Offset[Popped[17]] = 16 /\ Offset[Popped[10]] = 9
      /\ Offset[Popped[9]] = 8 /\ Offset[Popped[18]] = 17
  BY OffsetOf
<1> QED BY <1>1, RegisterNames

(* What the threads find now.                                              *)
Found == [t \in Live |-> registers_and_stack(t)]

(* Behind the svc instruction, only the caller's pc is another.            *)
LEMMA Returned ==
    ASSUME Inv, current # NULL
    PROVE  /\ [t \in Live |-> With(the("returned"), t)]
                = [Found EXCEPT ![current][Offset["pc"] + 1] = <<"returned", 0>>]
           /\ \A t \in Live \ {current} : With(the("returned"), t) = Found[t]
<1>1. current \in Live
  BY DEF Inv
<1>2. Offset["pc"] + 1 = 17
  BY Places
<1> QED BY <1>1, <1>2 DEF Found, With, the

(* Saved with the pc it has, a context is as it was.                       *)
LEMMA StillThere ==
    ASSUME Inv, current # NULL, NEW t \in Live
    PROVE  With(cpu["pc"], t) = registers_and_stack(t)
<1> DEFINE v == registers_and_stack(t)
<1>1. /\ Sees(memory, cpu, current, threads, t, v)
      /\ threads[t].stack - Base(cpu, current, threads, t) \in {18, 19}
  BY SeenNow
<1> HIDE DEF v
<1>2. PICK n \in {18, 19} : n = Len(v) /\ v \in Seq(Words)
  BY <1>1 DEF Sees
<1>3. \A i \in 1 .. n : v[i] = IF t = current /\ i <= 18 THEN cpu[Popped[i]]
                               ELSE memory[Base(cpu, current, threads, t) + i]
  BY <1>1, <1>2 DEF Sees
<1>4. 17 \in 1 .. n
  BY <1>2
<1>5. t = current => v[17] = cpu["pc"]
  BY <1>3, <1>4, RegisterNames
<1>6. v = [i \in 1 .. n |-> v[i]]
  BY <1>2
<1>7. [v EXCEPT ![17] = v[17]] = v
  BY <1>4, <1>6
<1> QED BY <1>5, <1>7 DEF With, v

(* SysTick and UART: what the threads find has not changed.                *)
LEMMA Interrupted ==
    ASSUME Inv, current # NULL, NEW q, Ready(q, Live, prio), thread_intr(q, entered, saved),
           UNCHANGED <<area, softvec, enabled>>
    PROVE  /\ Inv' /\ Own!Next /\ Queues!schedule(AsQueues(q)) /\ prio' = prio
<1>1. /\ entered \in [Threads -> [func : Apps \cup {NULL}, priority : Priorities,
                                  stack : Nat, sp : Nat]]
      /\ AliveIn(entered) = Live /\ Homes(entered) = prio
  BY Entered
<1>2. PcAfter(cpu["pc"], softvec')
  BY DEF PcAfter, Inv, Cpu, Registers
<1>3. saved = SavedAt(cpu["pc"])
  <2>1. [cpu EXCEPT !["pc"] = cpu["pc"]] = cpu
    BY DEF Inv, Cpu, Registers
  <2> QED BY <2>1 DEF saved, SavedAt
<1>4. Turn(q, entered, [t \in AliveIn(entered) |-> With(cpu["pc"], t)])
  BY <1>1, <1>2, <1>3, Served
<1>5. [t \in AliveIn(entered) |-> With(cpu["pc"], t)] = Found
  BY <1>1, StillThere DEF Found
<1>6. /\ Inv' /\ Live' = Live /\ prio' = prio /\ current' \in Live' \cup {NULL}
      /\ Found' = Found /\ Queues!schedule(AsQueues(q))
  BY <1>1, <1>4, <1>5 DEF Turn, Found
<1>7. DOMAIN Found' = Live'
  BY DEF Found
<1>8. Own!Next
  BY <1>6, <1>7 DEF Own!Next, Found
<1> QED BY <1>6, <1>8

(* A call: the caller returns from it, and the kernel did what it asked.   *)
LEMMA Answered ==
    ASSUME Inv, current # NULL, NEW q, NEW ths, NEW new, Turn(q, ths, new),
           Own!Call(Found, new)
    PROVE  Own!Next
<1>1. new = Found' /\ Live' = AliveIn(ths) /\ current' \in Live' \cup {NULL}
  BY DEF Turn, Found
<1>2. DOMAIN Found' = Live'
  BY DEF Found
<1> QED BY <1>1, <1>2 DEF Own!Next, Found

(* What Own!Call reads of the caller.                                      *)
LEMMA AskedFor ==
    ASSUME Inv, current # NULL, cpu["pc"] = the("svc")
    PROVE  /\ Found[current][Offset["r0"] + 1][1] = syscall_type
           /\ Found[current][Offset["pc"] + 1] = <<"svc", 0>>
<1>1. current \in Live
  BY DEF Inv
<1>2. /\ registers_and_stack(current)[11] = cpu["r0"]
      /\ registers_and_stack(current)[17] = cpu["pc"]
  BY Asked
<1>3. syscall_type = cpu["r0"][1]
  BY SyscallWords
<1> QED BY <1>1, <1>2, <1>3, Places DEF Found, the

(* A call that ends no thread and starts none.                             *)
LEMMA AnsweredAlone ==
    ASSUME Inv, current # NULL, cpu["pc"] = the("svc"), syscall_type # "exit",
           NEW q, Ready(q, Live, Homes(threads')), NEW ths, ths = threads',
           thread_intr(q, ths, called),
           area' = area, enabled' = enabled, softvec \subseteq softvec',
           syscall_type = "setintr" => "serintr" \in softvec',
           ths \in [Threads -> [func : Apps \cup {NULL}, priority : Priorities,
                                stack : Nat, sp : Nat]],
           AliveIn(ths) = Live,
           \A t \in Live :
             /\ ths[t].func = entered[t].func
             /\ ths[t].stack = entered[t].stack /\ ths[t].sp = entered[t].sp
    PROVE  Inv' /\ Own!Next /\ Queues!schedule(AsQueues(q)) /\ prio' = Homes(ths)
<1> DEFINE new == [t \in AliveIn(ths) |-> With(the("returned"), t)]
<1>1. PcAfter(the("returned"), softvec')
  <2>1. the("returned") \in Words
    BY DEF the, Words, Tags
  <2>2. cpu["r0"] = the(syscall_type)
    BY Asked
  <2>3. cpu["r0"] = the("setintr") => syscall_type = "setintr"
    BY <2>2 DEF the
  <2> QED BY <2>1, <2>3 DEF PcAfter
<1>2. called = SavedAt(the("returned"))
  BY DEF called, at_svc, SavedAt
<1>3. Turn(q, ths, new)
  BY <1>1, <1>2, Served
<1>4. new = [Found EXCEPT ![current][Offset["pc"] + 1] = <<"returned", 0>>]
  BY Returned
<1> HIDE DEF new
<1>5. Own!Call(Found, new)
  BY <1>4, AskedFor DEF Own!Call
<1>6. Own!Next
  BY <1>3, <1>5, Answered
<1> QED BY <1>3, <1>6 DEF Turn

(* thread_sleep: the caller leaves its queue.                              *)
LEMMA SleepStep ==
    ASSUME Inv, current # NULL, cpu["pc"] = the("svc"), UNCHANGED enabled, thread_sleep
    PROVE  Inv' /\ Queues!Next /\ Own!Next
<1>1. /\ syscall_type = "sleep" /\ thread_intr(mine, entered, called)
      /\ area' = area /\ softvec' = softvec
  BY DEF thread_sleep
<1>2. threads' = entered
  BY <1>1 DEF thread_intr
<1>3. Ready(mine, Live, Homes(entered)) /\ Homes(entered) = prio
  BY Mine, Entered
<1>4. Inv' /\ Own!Next /\ Queues!schedule(AsQueues(mine)) /\ prio' = prio
  BY <1>1, <1>2, <1>3, Entered, AnsweredAlone
<1>5. Queues!Leave
  BY <1>4, Mine DEF Queues!Leave
<1> QED BY <1>4, <1>5 DEF Queues!Next

(* thread_setintr: the caller goes behind its queue, the handler is set.   *)
LEMMA SetintrStep ==
    ASSUME Inv, current # NULL, cpu["pc"] = the("svc"), UNCHANGED enabled, thread_setintr
    PROVE  Inv' /\ Queues!Next /\ Own!Next
<1>1. /\ syscall_type = "setintr" /\ thread_intr(requeued, entered, called)
      /\ area' = area /\ softvec' = softvec \cup {"serintr"}
  BY DEF thread_setintr
<1>2. threads' = entered
  BY <1>1 DEF thread_intr
<1>3. Ready(requeued, Live, Homes(entered)) /\ Homes(entered) = prio
  BY Requeued, Entered
<1>4. Inv' /\ Own!Next /\ Queues!schedule(AsQueues(requeued)) /\ prio' = prio
  BY <1>1, <1>2, <1>3, Entered, AnsweredAlone
<1>5. Queues!Rotate
  BY <1>4, Requeued DEF Queues!Rotate
<1> QED BY <1>4, <1>5 DEF Queues!Next

(* thread_wakeup: two threads are put behind their queues.                 *)
LEMMA WakeupStep ==
    ASSUME Inv, current # NULL, cpu["pc"] = the("svc"), UNCHANGED enabled, thread_wakeup
    PROVE  Inv' /\ Queues!Next /\ Own!Next
<1> DEFINE t == syscall_param
           q == putcurrent(requeued, t, prio[t])
<1>1. /\ syscall_type = "wakeup" /\ t \in Live /\ thread_intr(q, entered, called)
      /\ area' = area /\ softvec' = softvec
  BY DEF thread_wakeup
<1> HIDE DEF t
<1>2. threads' = entered
  BY <1>1 DEF thread_intr
<1>3. t \in Threads /\ prio[t] \in Priorities /\ Ready(requeued, Live, prio)
  BY <1>1, ReadyLive, Requeued
<1>4. Ready(q, Live, prio)
  BY <1>1, <1>3, ReadyPut
<1>5. Queues!putcurrent(AsQueues(requeued), t, prio[t]) = AsQueues(q)
  BY <1>1, <1>3, ReadyPut
<1> HIDE DEF q
<1>6. Homes(entered) = prio
  BY Entered
<1>7. Inv' /\ Own!Next /\ Queues!schedule(AsQueues(q)) /\ prio' = prio
  BY <1>1, <1>2, <1>4, <1>6, Entered, AnsweredAlone
<1>8. prio' = [prio EXCEPT ![t] = prio[t]]
  BY <1>7 DEF prio
<1>9. Queues!Bring(t, prio[t])
  BY <1>5, <1>7, <1>8, Requeued DEF Queues!Bring
<1> QED BY <1>3, <1>7, <1>9 DEF Queues!Next

(* thread_chpri: the caller moves to the queue of its new priority.        *)
LEMMA ChpriStep ==
    ASSUME Inv, current # NULL, cpu["pc"] = the("svc"), UNCHANGED enabled, thread_chpri
    PROVE  Inv' /\ Queues!Next /\ Own!Next
<1> DEFINE p == IF syscall_param > 0 THEN syscall_param ELSE prio[current]
           ths == [entered EXCEPT ![current].priority = p]
           q == putcurrent(mine, current, p)
<1>1. /\ syscall_type = "chpri" /\ thread_intr(q, ths, called)
      /\ area' = area /\ softvec' = softvec
  BY DEF thread_chpri
<1>2. current \in Live /\ current \in Threads /\ prio[current] \in Priorities
  BY ReadyLive DEF Inv
<1>3. p \in Priorities
  BY <1>1, <1>2, Asked
<1> HIDE DEF p
<1>4. /\ entered \in [Threads -> [func : Apps \cup {NULL}, priority : Priorities,
                                  stack : Nat, sp : Nat]]
      /\ AliveIn(entered) = Live /\ Homes(entered) = prio
  BY Entered
<1>5. /\ ths \in [Threads -> [func : Apps \cup {NULL}, priority : Priorities,
                              stack : Nat, sp : Nat]]
      /\ \A t \in Threads : /\ ths[t].func = entered[t].func
                            /\ ths[t].stack = entered[t].stack /\ ths[t].sp = entered[t].sp
                            /\ ths[t].priority = IF t = current THEN p ELSE entered[t].priority
  BY <1>2, <1>3, <1>4
<1>6. threads' = ths
  BY <1>1 DEF thread_intr
<1> HIDE DEF ths
<1>7. AliveIn(ths) = Live
  BY <1>4, <1>5 DEF AliveIn
<1>8. Homes(ths) = [prio EXCEPT ![current] = p] /\ Homes(ths)[current] = p
  BY <1>2, <1>4, <1>5 DEF Homes
<1>9. Ready(mine, Live, prio) /\ mine.ready = lists.ready \ {current}
  BY Mine
<1>10. \A t \in mine.ready : t \in Live /\ Homes(ths)[t] = prio[t]
  BY <1>8, <1>9, ReadyLive DEF prio
<1>11. Ready(mine, Live, Homes(ths))
  BY <1>9, <1>10, ReadyStays
<1> DEFINE home == Homes(ths)
<1> HIDE DEF home
<1>12. home[current] = p /\ Ready(mine, Live, home)
  BY <1>8, <1>11 DEF home
<1>13. Ready(q, Live, home)
  BY <1>2, <1>3, <1>12, ReadyPut
<1>17. Queues!putcurrent(AsQueues(mine), current, p) = AsQueues(q)
  BY <1>2, <1>3, <1>12, ReadyPut
<1> HIDE DEF q
<1>14. \A t \in Live : /\ ths[t].func = entered[t].func
                       /\ ths[t].stack = entered[t].stack /\ ths[t].sp = entered[t].sp
  BY <1>5, ReadyLive
<1>15. Inv' /\ Own!Next /\ Queues!schedule(AsQueues(q)) /\ prio' = Homes(ths)
  BY <1>1, <1>5, <1>6, <1>7, <1>13, <1>14, AnsweredAlone DEF home
<1>16. Queues!Chpri(p)
  BY <1>8, <1>17, <1>15, Mine DEF Queues!Chpri
<1> QED BY <1>3, <1>15, <1>16 DEF Queues!Next

(* thread_exit: the caller's slot is cleared.                              *)
LEMMA ExitStep ==
    ASSUME Inv, current # NULL, cpu["pc"] = the("svc"), UNCHANGED enabled, thread_exit
    PROVE  Inv' /\ Queues!Next /\ Own!Next
<1> DEFINE ths == [entered EXCEPT ![current] = Cleared]
           new == [t \in AliveIn(ths) |-> With(the("returned"), t)]
<1>1. /\ syscall_type = "exit" /\ thread_intr(mine, ths, called)
      /\ area' = area /\ softvec' = softvec
  BY DEF thread_exit
<1>2. current \in Live /\ current \in Threads
  BY ReadyLive DEF Inv
<1>3. /\ entered \in [Threads -> [func : Apps \cup {NULL}, priority : Priorities,
                                  stack : Nat, sp : Nat]]
      /\ AliveIn(entered) = Live /\ Homes(entered) = prio
  BY Entered
<1>4. /\ ths \in [Threads -> [func : Apps \cup {NULL}, priority : Priorities,
                              stack : Nat, sp : Nat]]
      /\ \A t \in Threads : ths[t] = IF t = current THEN Cleared ELSE entered[t]
  BY <1>2, <1>3, SlotAssumption DEF Cleared
<1> HIDE DEF ths
<1>5. AliveIn(ths) = Live \ {current}
  BY <1>2, <1>3, <1>4 DEF AliveIn, Cleared
<1>6. Homes(ths) = [prio EXCEPT ![current] = 0]
  <2>1. \A t \in Threads : ths[t].priority = IF t = current THEN 0 ELSE entered[t].priority
    BY <1>4 DEF Cleared
  <2>2. prio = [t \in Threads |-> entered[t].priority]
    BY <1>3 DEF Homes
  <2> QED BY <2>1, <2>2 DEF Homes
<1>7. Ready(mine, Live, prio) /\ mine.ready = lists.ready \ {current}
  BY Mine
<1>8. \A t \in mine.ready : t \in AliveIn(ths) /\ Homes(ths)[t] = prio[t]
  BY <1>5, <1>6, <1>7, ReadyLive DEF prio
<1>9. Ready(mine, AliveIn(ths), Homes(ths))
  BY <1>7, <1>8, ReadyStays
<1>10. PcAfter(the("returned"), softvec')
  <2>1. the("returned") \in Words
    BY DEF the, Words, Tags
  <2>2. cpu["r0"] # the("setintr")
    BY <1>1, Asked DEF the
  <2> QED BY <2>1, <2>2 DEF PcAfter
<1>11. called = SavedAt(the("returned"))
  BY DEF called, at_svc, SavedAt
<1>12. \A t \in AliveIn(ths) : /\ t \in Live /\ ths[t].func = entered[t].func
                               /\ ths[t].stack = entered[t].stack /\ ths[t].sp = entered[t].sp
  BY <1>4, <1>5, ReadyLive
<1>13. Turn(mine, ths, new)
  BY <1>1, <1>4, <1>9, <1>10, <1>11, <1>12, Served
<1>14. new = Restrict(Found, DOMAIN Found \ {current})
  BY <1>5, Returned DEF Restrict, Found
<1> HIDE DEF new
<1>15. Own!Call(Found, new)
  BY <1>1, <1>14, AskedFor DEF Own!Call, Own!Restrict, Restrict
<1>16. Own!Next
  BY <1>13, <1>15, Answered
<1>17. Queues!Leave
  BY <1>6, <1>13, Mine DEF Queues!Leave, Turn
<1> QED BY <1>13, <1>16, <1>17 DEF Queues!Next, Turn

(* thread_kill: another's slot is cleared, wherever it was queued.         *)
LEMMA KillStep ==
    ASSUME Inv, current # NULL, cpu["pc"] = the("svc"), UNCHANGED enabled, thread_kill
    PROVE  Inv' /\ Queues!Next /\ Own!Next
<1> DEFINE t == syscall_param
           cut == readyque_remove(mine, t, prio[t])
           q == putcurrent(cut, current, prio[current])
           ths == [entered EXCEPT ![t] = Cleared]
           new == [u \in AliveIn(ths) |-> With(the("returned"), u)]
<1>1. /\ syscall_type = "kill" /\ t # current
      /\ IF t \in Live THEN thread_intr(q, ths, called) ELSE thread_intr(mine, entered, called)
      /\ area' = area /\ softvec' = softvec
  BY DEF thread_kill
<1> HIDE DEF t
<1>2. /\ entered \in [Threads -> [func : Apps \cup {NULL}, priority : Priorities,
                                  stack : Nat, sp : Nat]]
      /\ AliveIn(entered) = Live /\ Homes(entered) = prio
  BY Entered
<1>3. CASE t \notin Live
  <2>1. threads' = entered /\ thread_intr(mine, entered, called)
    BY <1>1, <1>3 DEF thread_intr
  <2>2. Ready(mine, Live, Homes(entered))
    BY <1>2, Mine
  <2>3. Inv' /\ Own!Next /\ Queues!schedule(AsQueues(mine)) /\ prio' = prio
    BY <1>1, <1>2, <2>1, <2>2, Entered, AnsweredAlone
  <2>4. Queues!Leave
    BY <2>3, Mine DEF Queues!Leave
  <2> QED BY <2>3, <2>4 DEF Queues!Next
<1>4. CASE t \in Live
  <2>1. /\ current \in Live /\ current \in Threads /\ prio[current] \in Priorities
        /\ t \in Threads /\ prio[t] \in Priorities /\ current \in lists.ready
    BY <1>4, ReadyLive DEF Inv, AtFront
  <2>2. /\ ths \in [Threads -> [func : Apps \cup {NULL}, priority : Priorities,
                                stack : Nat, sp : Nat]]
        /\ \A u \in Threads : ths[u] = IF u = t THEN Cleared ELSE entered[u]
    BY <1>2, <2>1, SlotAssumption DEF Cleared
  <2>3. thread_intr(q, ths, called)
    BY <1>1, <1>4
  <2> HIDE DEF ths
  <2>4. AliveIn(ths) = Live \ {t}
    BY <1>2, <2>1, <2>2 DEF AliveIn, Cleared
  <2>5. Homes(ths) = [prio EXCEPT ![t] = 0]
    <3>1. \A u \in Threads : ths[u].priority = IF u = t THEN 0 ELSE entered[u].priority
      BY <2>2 DEF Cleared
    <3>2. prio = [u \in Threads |-> entered[u].priority]
      BY <1>2 DEF Homes
    <3> QED BY <3>1, <3>2 DEF Homes
  <2>6. Ready(mine, Live, prio) /\ mine.ready = lists.ready \ {current}
    BY Mine
  <2>7. Ready(cut, Live, prio)
    BY <2>1, <2>6, ReadyRemoved
  <2>8. cut.ready = mine.ready \ {t}
    BY <2>1, <2>6, ReadyRemoved
  <2>9. Queues!readyque_remove(AsQueues(mine), t, prio[t]) = AsQueues(cut)
    BY <2>1, <2>6, ReadyRemoved
  <2> HIDE DEF cut
  <2>10. Ready(q, Live, prio)
    BY <2>1, <2>7, ReadyPut
  <2>11. q.ready = cut.ready \cup {current}
    BY <2>1, <2>7, ReadyPut
  <2>12. Queues!putcurrent(AsQueues(cut), current, prio[current]) = AsQueues(q)
    BY <2>1, <2>7, ReadyPut
  <2> HIDE DEF q
  <2>13. \A u \in q.ready : u \in AliveIn(ths) /\ Homes(ths)[u] = prio[u]
    BY <1>1, <2>1, <2>4, <2>5, <2>6, <2>8, <2>11, ReadyLive DEF prio
  <2>14. Ready(q, AliveIn(ths), Homes(ths))
    BY <2>10, <2>13, ReadyStays
  <2>15. PcAfter(the("returned"), softvec')
    <3>1. the("returned") \in Words
      BY DEF the, Words, Tags
    <3>2. cpu["r0"] # the("setintr")
      BY <1>1, Asked DEF the
    <3> QED BY <3>1, <3>2 DEF PcAfter
  <2>16. called = SavedAt(the("returned"))
    BY DEF called, at_svc, SavedAt
  <2>17. \A u \in AliveIn(ths) : /\ u \in Live /\ ths[u].func = entered[u].func
                                 /\ ths[u].stack = entered[u].stack /\ ths[u].sp = entered[u].sp
    BY <2>2, <2>4, ReadyLive
  <2>18. Turn(q, ths, new)
    BY <1>1, <2>2, <2>3, <2>14, <2>15, <2>16, <2>17, Served
  <2> DEFINE returned == [Found EXCEPT ![current][Offset["pc"] + 1] = <<"returned", 0>>]
  <2>19. [u \in Live |-> With(the("returned"), u)] = returned
    BY Returned
  <2>20. new = [u \in Live \ {t} |-> returned[u]]
    <3> HIDE DEF returned
    <3>1. \A u \in Live : returned[u] = With(the("returned"), u)
      BY <2>19
    <3> QED BY <2>4, <3>1
  <2>21. DOMAIN Found = Live
    BY DEF Found
  <2> HIDE DEF new
  <2>22. Own!Call(Found, new)
    BY <1>1, <1>4, <2>20, <2>21, AskedFor DEF Own!Call, Own!Restrict, Restrict
  <2>23. Own!Next
    BY <2>18, <2>22, Answered
  <2>24. Queues!Kill(t)
    BY <1>1, <2>5, <2>9, <2>12, <2>18, Mine DEF Queues!Kill, Turn
  <2> QED BY <2>1, <2>18, <2>23, <2>24 DEF Queues!Next, Turn
<1> QED BY <1>3, <1>4

(* A new stack lies above all others of its area.                          *)
LEMMA LayoutGrows ==
    ASSUME NEW ths, NEW ar, Layout(ths, ar), NEW call \in Apps, NEW t \in Threads \ AliveIn(ths),
           NEW slot \in [func : Apps \cup {NULL}, priority : Priorities, stack : Nat, sp : Nat],
           slot.func = call, slot.stack = ar[call] + STACK, slot.stack <= stack_end(call)
    PROVE  /\ Layout([ths EXCEPT ![t] = slot], [ar EXCEPT ![call] = @ + STACK])
           /\ \A u \in AliveIn(ths) : \/ ths[u].stack + STACK <= slot.stack
                                      \/ slot.stack + STACK <= ths[u].stack
<1> DEFINE new == [ths EXCEPT ![t] = slot]
           ar2 == [ar EXCEPT ![call] = @ + STACK]
           first(func) == IF func = "run" THEN UserStack.first ELSE AppStack.first
<1>1. /\ ths \in [Threads -> [func : Apps \cup {NULL}, priority : Priorities,
                              stack : Nat, sp : Nat]]
      /\ ar = [c \in Apps |-> ar[c]]
      /\ \A c \in Apps : ar[c] \in Nat /\ Bottom(c) <= ar[c] /\ ar[c] <= stack_end(c)
      /\ \A u \in AliveIn(ths) : first(ths[u].func) + STACK <= ths[u].stack
                                 /\ ths[u].stack <= ar[ths[u].func]
      /\ \A u, v \in AliveIn(ths) : u # v => Apart(ths, u, v)
  BY DEF Layout
<1>2. /\ new \in [Threads -> [func : Apps \cup {NULL}, priority : Priorities,
                              stack : Nat, sp : Nat]]
      /\ new[t] = slot /\ \A u \in Threads \ {t} : new[u] = ths[u]
  BY <1>1
<1>3. /\ ar2 = [c \in Apps |-> ar2[c]]
      /\ ar2[call] = slot.stack /\ \A c \in Apps : c # call => ar2[c] = ar[c]
  BY <1>1
<1> HIDE DEF new, ar2
<1>4. NULL \notin Apps
  BY SlotAssumption DEF Apps
<1>5. AliveIn(new) = AliveIn(ths) \cup {t}
  BY <1>2, <1>4 DEF AliveIn
<1>6. /\ STACK \in Nat /\ STACK > 18
      /\ UserStack.first \in Nat /\ UserStack.end \in Nat
      /\ AppStack.first \in Nat /\ AppStack.end \in Nat
      /\ UserStack.first + STACK <= UserStack.end /\ UserStack.end <= AppStack.first
      /\ stack_end("run") = UserStack.end /\ stack_end("run_app") = AppStack.end
  BY Bounds
<1>7. /\ slot.stack \in Nat /\ ar[call] \in Nat /\ Bottom(call) <= ar[call]
      /\ ar[call] <= stack_end(call)
  BY <1>1
<1>8. \A c \in Apps : ar2[c] \in Nat /\ Bottom(c) <= ar2[c] /\ ar2[c] <= stack_end(c)
  <2> TAKE c \in Apps
  <2>1. CASE c = call
    <3>1. Bottom(call) \in Nat
      BY <1>6 DEF Bottom
    <3>2. Bottom(call) <= slot.stack
      BY <1>6, <1>7, <3>1
    <3> QED BY <1>3, <1>7, <2>1, <3>2
  <2>2. CASE c # call
    BY <1>1, <1>3, <2>2
  <2> QED BY <2>1, <2>2
<1>9. first(call) + STACK <= slot.stack
  <2>1. first(call) <= Bottom(call) /\ first(call) \in Nat /\ Bottom(call) \in Nat
    BY <1>6 DEF Bottom
  <2> HIDE DEF first
  <2> QED BY <1>6, <1>7, <2>1
<1>10. \A u \in AliveIn(ths) : ths[u].func \in Apps /\ ths[u].stack \in Nat
  BY <1>1 DEF AliveIn
<1>11. ASSUME NEW u \in AliveIn(ths)
       PROVE  ths[u].stack + STACK <= slot.stack \/ slot.stack + STACK <= ths[u].stack
  <2>1. first(ths[u].func) + STACK <= ths[u].stack /\ ths[u].stack <= ar[ths[u].func]
    BY <1>1
  <2>2. CASE ths[u].func = call
    <3>1. ths[u].stack <= ar[call]
      BY <2>1, <2>2
    <3> QED BY <1>6, <1>7, <1>10, <3>1
  <2>3. CASE ths[u].func = "run" /\ call = "run_app"
    <3>1. ths[u].stack <= UserStack.end
      <4>1. ar["run"] \in Nat /\ ar["run"] <= UserStack.end /\ ths[u].stack <= ar["run"]
        BY <1>1, <1>6, <2>1, <2>3 DEF Apps
      <4> QED BY <1>6, <1>10, <4>1
    <3>2. AppStack.first + STACK <= slot.stack
      BY <1>9, <2>3
    <3> QED BY <1>6, <1>7, <1>10, <3>1, <3>2
  <2>4. CASE ths[u].func = "run_app" /\ call = "run"
    <3>1. AppStack.first + STACK <= ths[u].stack
      BY <2>1, <2>4
    <3>2. slot.stack <= UserStack.end
      BY <1>6, <2>4
    <3> QED BY <1>6, <1>7, <1>10, <3>1, <3>2
  <2> QED BY <1>10, <2>2, <2>3, <2>4 DEF Apps
<1>12. \A u \in AliveIn(new) : first(new[u].func) + STACK <= new[u].stack
                               /\ new[u].stack <= ar2[new[u].func]
  <2> TAKE u \in AliveIn(new)
  <2>1. CASE u = t
    BY <1>2, <1>3, <1>7, <1>9, <2>1
  <2>2. CASE u # t
    <3>1. u \in AliveIn(ths) /\ new[u] = ths[u]
      BY <1>2, <1>5, <2>2 DEF AliveIn
    <3>2. ths[u].stack <= ar2[ths[u].func]
      <4>1. CASE ths[u].func = call
        <5>1. ths[u].stack <= ar[call]
          BY <1>1, <3>1, <4>1
        <5> QED BY <1>3, <1>6, <1>7, <1>10, <3>1, <4>1, <5>1
      <4>2. CASE ths[u].func # call
        BY <1>1, <1>3, <1>10, <3>1, <4>2
      <4> QED BY <4>1, <4>2
    <3> QED BY <1>1, <3>1, <3>2
  <2> QED BY <2>1, <2>2
<1>13. \A u, v \in AliveIn(new) : u # v => Apart(new, u, v)
  <2> TAKE u, v \in AliveIn(new)
  <2>1. \A x \in AliveIn(new) : x # t => x \in AliveIn(ths) /\ new[x] = ths[x]
    BY <1>2, <1>5 DEF AliveIn
  <2>2. CASE u # t /\ v # t
    BY <1>1, <2>1, <2>2 DEF Apart
  <2>3. CASE u = t /\ v # t
    BY <1>2, <1>11, <2>1, <2>3 DEF Apart
  <2>4. CASE u # t /\ v = t
    BY <1>2, <1>11, <2>1, <2>4 DEF Apart
  <2> QED BY <2>2, <2>3, <2>4
<1>14. Layout(new, ar2)
  BY <1>2, <1>3, <1>8, <1>12, <1>13 DEF Layout
<1> QED BY <1>11, <1>14 DEF new, ar2

(* A refused run.                                                          *)
LEMMA RefusedStep ==
    ASSUME Inv, current # NULL, cpu["pc"] = the("svc"), UNCHANGED <<area, softvec, enabled>>,
           syscall_type \in Apps, thread_intr(mine, entered, called)
    PROVE  Inv' /\ Queues!Next /\ Own!Next
<1>1. threads' = entered /\ syscall_type # "exit" /\ syscall_type # "setintr"
  BY DEF thread_intr, Apps
<1>2. Ready(mine, Live, Homes(entered)) /\ Homes(entered) = prio
  BY Mine, Entered
<1>3. Inv' /\ Own!Next /\ Queues!schedule(AsQueues(mine)) /\ prio' = prio
  BY <1>1, <1>2, Entered, AnsweredAlone
<1>4. Queues!Leave
  BY <1>3, Mine DEF Queues!Leave
<1> QED BY <1>3, <1>4 DEF Queues!Next

(* The first frame of a new thread, and the memory around it.              *)
LEMMA FirstFrame ==
    ASSUME NEW m \in Seq(Words), NEW call \in Apps, NEW t \in Threads, NEW a \in Nat,
           a + STACK <= Len(m)
    PROVE  /\ Overlaid(m, a + STACK - FRAME, First(call, t),
                       store(m, a + STACK - FRAME, pushed(call, t)))
           /\ SubSeq(store(m, a + STACK - FRAME, pushed(call, t)),
                     (a + STACK - FRAME) + 1, a + STACK) = First(call, t)
           /\ First(call, t) \in Seq(Words) /\ Len(First(call, t)) = 18
           /\ a + STACK - FRAME \in Nat /\ (a + STACK) - (a + STACK - FRAME) = 18
<1> DEFINE f == First(call, t)
           at == a + STACK - FRAME
           new == store(m, at, pushed(call, t))
<1>1. f = pushed(call, t) /\ f \in Seq(Words) /\ Len(f) = 18
  BY FirstContext, PushedWords
<1>2. STACK \in Nat /\ STACK > 18
  BY Bounds
<1>3. at \in Nat /\ at + 18 = a + STACK
  BY <1>2 DEF FRAME
<1> HIDE DEF f, at
<1>4. at + Len(f) <= Len(m)
  BY <1>1, <1>3
<1>5. Overlaid(m, at, f, new)
  BY <1>1, <1>3, <1>4, Stored
<1> HIDE DEF new
<1>6. new \in Seq(Words) /\ Len(new) = Len(m)
      /\ \A i \in 1 .. Len(m) :
           new[i] = IF at < i /\ i <= at + 18 THEN f[i - at] ELSE m[i]
  BY <1>1, <1>5 DEF Overlaid
<1> DEFINE w == SubSeq(new, at + 1, at + 18)
<1>7. w \in Seq(Words) /\ Len(w) = (at + 18) - at
      /\ \A i \in 1 .. (at + 18) - at : w[i] = new[at + i]
  BY <1>3, <1>4, <1>1, <1>6, PartOfMemory
<1> HIDE DEF w
<1>8. (at + 18) - at = 18
  BY <1>3
<1>9. ASSUME NEW i \in 1 .. 18 PROVE w[i] = f[i]
  <2>1. /\ at + i \in 1 .. Len(m) /\ at < at + i /\ at + i <= at + 18 /\ (at + i) - at = i
    BY <1>1, <1>3, <1>4
  <2> QED BY <1>6, <1>7, <1>8, <2>1
<1>10. w = f
  <2>1. w \in Seq(Words) /\ f \in Seq(Words) /\ Len(w) = 18 /\ Len(f) = 18
    BY <1>1, <1>7, <1>8
  <2>2. Len(w) = Len(f) /\ \A i \in 1 .. Len(f) : w[i] = f[i]
    BY <1>9, <2>1
  <2> QED BY <2>1, <2>2, SameWords
<1> QED BY <1>1, <1>3, <1>5, <1>8, <1>10 DEF w, f, at, new

(* thread_run and thread_run_app: a new slot, stack and frame.             *)
LEMMA RunStep ==
    ASSUME Inv, current # NULL, cpu["pc"] = the("svc"), UNCHANGED enabled, thread_run
    PROVE  Inv' /\ Queues!Next /\ Own!Next
<1> DEFINE call == syscall_type
           p == syscall_param
           t == Min(FreeSlots)
           q == putcurrent(requeued, t, p)
           ths == [entered EXCEPT ![t] = started(call, p)]
           at == area[call] + STACK - FRAME
           m == store(called, at, pushed(call, t))
           first == First(call, t)
           returned == [Found EXCEPT ![current][Offset["pc"] + 1] = <<"returned", 0>>]
<1>1. /\ call \in Apps /\ softvec' = softvec
      /\ \/ /\ FreeSlots # {} /\ area[call] + STACK <= stack_end(call)
            /\ thread_intr(q, ths, m) /\ area' = [area EXCEPT ![call] = @ + STACK]
         \/ thread_intr(mine, entered, called) /\ UNCHANGED area
  BY DEF thread_run, Apps
<1>2. CASE thread_intr(mine, entered, called) /\ UNCHANGED area
  BY <1>1, <1>2, RefusedStep
<1>3. CASE /\ FreeSlots # {} /\ area[call] + STACK <= stack_end(call)
           /\ thread_intr(q, ths, m) /\ area' = [area EXCEPT ![call] = @ + STACK]
  <2>1. t \in Threads \ Live
    <3>1. FreeSlots \in SUBSET Nat /\ FreeSlots # {} /\ FreeSlots \subseteq Threads \ Live
      BY <1>3, SlotAssumption DEF FreeSlots
    <3>2. \E x \in FreeSlots : \A y \in FreeSlots : x <= y
      BY <3>1, LeastElement
    <3> QED BY <3>1, <3>2 DEF Min
  <2> HIDE DEF t
  <2>2. /\ p \in Priorities /\ p \in Nat /\ cpu["r0"] = the(call)
    BY <1>1, Asked DEF Apps
  <2> HIDE DEF p
  <2>3. /\ area[call] \in Nat /\ STACK \in Nat /\ STACK > 18
        /\ stack_end(call) <= AppStack.end /\ stack_end(call) \in Nat /\ AppStack.end \in Nat
    <3>1. area[call] \in Nat
      BY <1>1 DEF Inv, Layout
    <3>2. stack_end(call) <= AppStack.end /\ stack_end(call) \in Nat
      BY <1>1, Bounds DEF Apps
    <3> QED BY <3>1, <3>2, Bounds
  <2>4. /\ called \in Seq(Words) /\ Len(called) = Len(memory) /\ Len(memory) = AppStack.end
        /\ PcAfter(the("returned"), softvec') /\ called = SavedAt(the("returned"))
    <3>1. the("returned") \in Words
      BY DEF the, Words, Tags
    <3>2. cpu["r0"] # the("setintr")
      BY <1>1, <2>2 DEF the, Apps
    <3>3. called = SavedAt(the("returned"))
      BY DEF called, at_svc, SavedAt
    <3>4. called \in Seq(Words) /\ Len(called) = Len(memory)
      BY <3>1, <3>3, SavedWords DEF SavedAt
    <3> QED BY <3>1, <3>2, <3>3, <3>4 DEF PcAfter, Inv
  <2>5. area[call] + STACK <= Len(called)
    BY <1>3, <2>3, <2>4
  <2> HIDE DEF call
  <2>31. /\ call \in Apps /\ t \in Threads /\ area[call] \in Nat /\ called \in Seq(Words)
         /\ area[call] + STACK <= Len(called)
    BY <1>1, <2>1, <2>3, <2>4, <2>5
  <2>6. Overlaid(called, at, first, m)
    BY <2>31, FirstFrame
  <2>7. SubSeq(m, at + 1, area[call] + STACK) = first
    BY <2>31, FirstFrame
  <2>8. /\ first \in Seq(Words) /\ Len(first) = 18
        /\ at \in Nat /\ (area[call] + STACK) - at = 18
    BY <2>31, FirstFrame
  <2>9. Sound(first, call, softvec') /\ first = pushed(call, t)
    BY <1>1, <2>1, FirstSound, FirstContext
  <2> HIDE DEF at, m, first
  <2> DEFINE slot == started(call, p)
  <2>10. /\ slot \in [func : Apps \cup {NULL}, priority : Priorities, stack : Nat, sp : Nat]
         /\ slot.func = call /\ slot.stack = area[call] + STACK /\ slot.sp = at
         /\ slot.priority = p
    BY <1>1, <2>2, <2>3, <2>8 DEF started, at
  <2> HIDE DEF slot
  <2>11. /\ current \in Live
         /\ entered \in [Threads -> [func : Apps \cup {NULL}, priority : Priorities,
                                     stack : Nat, sp : Nat]]
         /\ AliveIn(entered) = Live /\ Homes(entered) = prio
         /\ \A u \in Live : /\ entered[u].func = threads[u].func
                            /\ entered[u].stack = threads[u].stack
    BY Entered
  <2>12. Layout(entered, area)
    <3>1. Layout(threads, area) /\ Live = AliveIn(threads)
      BY DEF Inv, Live, AliveIn
    <3> QED BY <2>11, <3>1, LayoutStays
  <2>13. ths = [entered EXCEPT ![t] = slot]
    BY DEF slot
  <2> HIDE DEF ths
  <2>14. Layout(ths, area')
    <3>1. t \in Threads \ AliveIn(entered) /\ slot.stack <= stack_end(call) /\ call \in Apps
      BY <1>1, <1>3, <2>1, <2>10, <2>11
    <3>2. slot.func = call /\ slot.stack = area[call] + STACK
      BY <2>10
    <3>3. slot \in [func : Apps \cup {NULL}, priority : Priorities, stack : Nat, sp : Nat]
      BY <2>10
    <3>4. Layout([entered EXCEPT ![t] = slot], [area EXCEPT ![call] = @ + STACK])
      BY <2>12, <3>1, <3>2, <3>3, LayoutGrows
    <3>5. area' = [area EXCEPT ![call] = @ + STACK]
      BY <1>3
    <3> QED BY <2>13, <3>4, <3>5
  <2>15. \A u \in Live : \/ threads[u].stack + STACK <= slot.stack
                         \/ slot.stack + STACK <= threads[u].stack
    <3>1. t \in Threads \ AliveIn(entered) /\ slot.stack <= stack_end(call) /\ call \in Apps
      BY <1>1, <1>3, <2>1, <2>10, <2>11
    <3>2. \A u \in AliveIn(entered) : \/ entered[u].stack + STACK <= slot.stack
                                      \/ slot.stack + STACK <= entered[u].stack
      BY <2>10, <2>12, <3>1, LayoutGrows
    <3> QED BY <2>11, <3>2
  <2>16. /\ ths[t] = slot /\ \A u \in Threads \ {t} : ths[u] = entered[u]
         /\ ths = [u \in Threads |-> ths[u]]
    BY <2>1, <2>11, <2>13
  <2>17. AliveIn(ths) = Live \cup {t} /\ Live \subseteq Threads
    <3>1. call # NULL
      BY <1>1, SlotAssumption DEF Apps
    <3> QED BY <2>1, <2>10, <2>11, <2>16, <3>1, ReadyLive DEF AliveIn
  <2>18. Homes(ths) = [prio EXCEPT ![t] = p] /\ Homes(ths)[t] = p
    <3>1. prio = [u \in Threads |-> entered[u].priority]
      BY <2>11 DEF Homes
    <3> QED BY <2>1, <2>10, <2>16, <3>1 DEF Homes
  <2>19. Ready(requeued, AliveIn(ths), Homes(ths))
    <3>1. Ready(requeued, Live, prio) /\ requeued.ready = lists.ready
      BY Requeued
    <3>2. \A u \in requeued.ready : u \in AliveIn(ths) /\ Homes(ths)[u] = prio[u]
      BY <2>1, <2>17, <2>18, <3>1, ReadyLive DEF prio
    <3> QED BY <3>1, <3>2, ReadyStays
  <2> DEFINE home == Homes(ths)
             alive == AliveIn(ths)
  <2> HIDE DEF home, alive
  <2>20. /\ Ready(requeued, alive, home) /\ t \in alive /\ t \in Threads /\ p \in Priorities
         /\ home[t] = p
    BY <2>1, <2>2, <2>17, <2>18, <2>19 DEF home, alive
  <2>21. Ready(q, alive, home)
    BY <2>20, ReadyPut
  <2>22. Queues!putcurrent(AsQueues(requeued), t, p) = AsQueues(q)
    BY <2>20, ReadyPut
  <2> HIDE DEF q
  <2>23. Keeps(ths, m, the("returned"))
    <3>1. ASSUME NEW u \in Live, NEW i \in 1 .. Len(memory),
                 threads[u].stack - STACK < i, i <= threads[u].stack
          PROVE  m[i] = called[i]
      <4>1. threads[u].stack \in Nat
        BY SeenNow
      <4>2. PICK x \in Nat, y \in Nat : x = threads[u].stack /\ y = slot.stack /\ at + 18 = y
        <5>1. PICK b \in Nat : b = area[call] + STACK
          BY <2>3
        <5>2. at + 18 = b
          BY <2>8, <5>1
        <5> QED BY <2>10, <4>1, <5>1, <5>2
      <4>3. x + STACK <= y \/ y + STACK <= x
        BY <2>15, <4>2
      <4>4. i \in Int /\ x - STACK < i /\ i <= x
        BY <2>4, <2>3, <3>1, <4>2
      <4>5. ~(at < i /\ i <= at + 18)
        <5>1. /\ STACK \in Int /\ STACK > 18 /\ at \in Int /\ x \in Int /\ y \in Int
              /\ at + 18 = y /\ i \in Int /\ x - STACK < i /\ i <= x
          BY <2>3, <2>8, <4>2, <4>4
        <5>2. x + STACK <= y => ~(at < i)
          BY ONLY <5>1
        <5>3. y + STACK <= x => ~(i <= at + 18)
          BY ONLY <5>1
        <5> QED BY <4>3, <5>2, <5>3
      <4> QED BY <2>4, <2>6, <2>8, <4>5 DEF Overlaid
    <3>2. \A u \in Live : ths[u] = entered[u]
      BY <2>1, <2>16, <2>17
    <3> QED BY <2>4, <3>1, <3>2 DEF Keeps
  <2>24. Parked(m, ths, t) = first
    BY <2>7, <2>10, <2>16 DEF Parked
  <2>25. Starts(ths, m, softvec')
    BY <2>8, <2>9, <2>10, <2>16, <2>17, <2>24 DEF Starts
  <2>26. m \in Seq(Words) /\ Len(m) = Len(memory)
    BY <2>4, <2>6 DEF Overlaid
  <2> DEFINE new == [u \in AliveIn(ths) |->
                       IF u \in Live THEN With(the("returned"), u) ELSE Parked(m, ths, u)]
  <2>27. Turn(q, ths, new)
    <3>1. Ready(q, AliveIn(ths), Homes(ths))
      BY <2>21 DEF home, alive
    <3>2. thread_intr(q, ths, m) /\ enabled' = enabled /\ softvec \subseteq softvec'
      BY <1>1, <1>3
    <3>3. PcAfter(the("returned"), softvec')
      BY <2>4
    <3> QED BY <2>14, <2>23, <2>25, <2>26, <3>1, <3>2, <3>3, Handled
  <2>28. Own!Call(Found, new)
    <3>1. new = [u \in Live \cup {t} |-> IF u \in Live THEN With(the("returned"), u) ELSE first]
      BY <2>1, <2>17, <2>24
    <3>2. DOMAIN new = Live \cup {t} /\ DOMAIN Found = Live
      BY <3>1 DEF Found
    <3> HIDE DEF new
    <3>3. new[t] = first /\ t \in DOMAIN new \ DOMAIN Found
          /\ DOMAIN new = DOMAIN Found \cup {t}
      BY <2>1, <3>1, <3>2
    <3>4. [u \in Live |-> new[u]] = [u \in Live |-> With(the("returned"), u)]
      BY <3>1
    <3>5. [u \in Live |-> new[u]] = returned
      BY <3>4, Returned
    <3>6. DOMAIN Firsts = Apps /\ first \in Firsts[call]
      BY <1>1, <2>1 DEF Firsts, Apps, first
    <3>7. Found[current][Offset["r0"] + 1][1] = call /\ Found[current][Offset["pc"] + 1] = <<"svc", 0>>
      BY AskedFor DEF call
    <3> HIDE DEF returned
    <3>8. Own!Restrict(new, DOMAIN Found) = returned
      BY <3>2, <3>5 DEF Own!Restrict, Restrict
    <3>9. \E u \in DOMAIN new \ DOMAIN Found :
            DOMAIN new = DOMAIN Found \cup {u} /\ new[u] \in Firsts[call]
      BY <3>3, <3>6
    <3> QED BY <1>1, <3>6, <3>7, <3>8, <3>9 DEF Own!Call, returned
  <2>29. Own!Next
    BY <2>27, <2>28, Answered
  <2>30. Queues!Bring(t, p)
    BY <2>18, <2>22, <2>27, Requeued DEF Queues!Bring, Turn
  <2> QED BY <2>1, <2>2, <2>27, <2>29, <2>30 DEF Queues!Next, Turn
<1> QED BY <1>1, <1>2, <1>3

(* SysTick_Handler: the running thread goes behind its queue.              *)
LEMMA TimerStep ==
    ASSUME Inv, current # NULL, SysTick_Handler
    PROVE  Inv' /\ Queues!Next /\ Own!Next
<1>1. thread_intr(requeued, entered, saved) /\ UNCHANGED <<area, softvec, enabled>>
  BY DEF SysTick_Handler
<1>2. Ready(requeued, Live, prio)
  BY Requeued
<1>3. Inv' /\ Own!Next /\ Queues!schedule(AsQueues(requeued)) /\ prio' = prio
  BY <1>1, <1>2, Interrupted
<1>4. Queues!Rotate
  BY <1>3, Requeued DEF Queues!Rotate
<1> QED BY <1>3, <1>4 DEF Queues!Next

(* The interrupt is not enabled before it has its handler.                 *)
LEMMA UartStep ==
    ASSUME Inv, current # NULL, UART0_IRQ_Handler
    PROVE  Inv' /\ Queues!Next /\ Own!Next
<1>1. "serintr" \in softvec
  BY DEF Inv, UART0_IRQ_Handler
<1>2. PICK t \in Live :
        /\ lists' = putcurrent(lists, t, prio[t]) /\ memory' = saved /\ threads' = entered
        /\ current' = first_ready(putcurrent(lists, t, prio[t]))
        /\ cpu' = dispatch(saved, entered[first_ready(putcurrent(lists, t, prio[t]))].sp)
  BY <1>1 DEF UART0_IRQ_Handler
<1> DEFINE q == putcurrent(lists, t, prio[t])
<1>3. t \in Threads /\ prio[t] \in Priorities /\ Ready(lists, Live, prio)
  BY ReadyLive DEF Inv
<1>4. Ready(q, Live, prio)
  BY <1>3, ReadyPut
<1>5. q.ready = lists.ready \cup {t}
  BY <1>3, ReadyPut
<1>6. Queues!putcurrent(AsQueues(lists), t, prio[t]) = AsQueues(q)
  BY <1>3, ReadyPut
<1>7. /\ lists' = q /\ memory' = saved /\ threads' = entered /\ current' = first_ready(q)
      /\ cpu' = dispatch(saved, entered[first_ready(q)].sp)
  BY <1>2
<1> HIDE DEF q
<1>8. ~none_ready(q)
  <2>1. q.ready # {}
    BY <1>5
  <2> QED BY <1>4, <2>1, Scheduled
<1>9. thread_intr(q, entered, saved)
  BY <1>7, <1>8 DEF thread_intr
<1>10. UNCHANGED <<area, softvec, enabled>>
  BY DEF UART0_IRQ_Handler
<1>11. Inv' /\ Own!Next /\ Queues!schedule(AsQueues(q)) /\ prio' = prio
  BY <1>4, <1>9, <1>10, Interrupted
<1>12. Queues!BringFromInterrupt(t)
  BY <1>6, <1>11 DEF Queues!BringFromInterrupt
<1> QED BY <1>3, <1>11, <1>12 DEF Queues!Next

(* A thread's own instructions, and what they may not touch.               *)
LEMMA OwnCode ==
    ASSUME Inv, current # NULL, UNCHANGED <<unchanged_by_threads, enabled>>,
           Cpu(cpu'), memory' \in Seq(Words), Len(memory') = Len(memory),
           Pushed(cpu', current, threads, current),
           cpu'["pc"] \notin {the("thread_init"), the("app_thread_init"), the("returned")},
           cpu'["pc"] = the("svc") =>
             \E call \in Calls : cpu'["r0"] = the(call.type) /\ cpu'["r1"] = number(call.param),
           \A r \in {"exc_return", "control", "xpsr"} : cpu'[r] = cpu[r],
           \A i \in 1 .. Len(memory) :
             ~(threads[current].stack - STACK < i /\ i <= threads[current].stack)
               => memory'[i] = memory[i]
    PROVE  Inv' /\ lists' = lists /\ prio' = prio /\ current' = current /\ Own!Next
<1> DEFINE mine2 == registers_and_stack(current)'
<1>1. /\ lists' = lists /\ current' = current /\ threads' = threads /\ area' = area
      /\ softvec' = softvec /\ enabled' = enabled
  BY DEF unchanged_by_threads
<1>2. Live' = Live /\ prio' = prio /\ current \in Live /\ Live = AliveIn(threads)
  BY <1>1 DEF Live, prio, Inv, AliveIn
<1>3. Layout(threads, area) /\ Len(memory) = AppStack.end /\ memory \in Seq(Words)
  BY DEF Inv
<1>4. \A t \in Live : /\ threads[t].stack \in Nat /\ threads[t].stack <= Len(memory)
                      /\ STACK <= threads[t].stack /\ threads[t].sp \in Nat
  BY <1>2, <1>3, StackInMemory
<1>5. STACK \in Nat /\ STACK > 18
  BY Bounds
<1>6. ASSUME NEW t \in Live, t # current
      PROVE  /\ registers_and_stack(t)' = registers_and_stack(t)
             /\ Pushed(cpu', current, threads, t)
  <2> DEFINE at == threads[t].sp
             top == threads[t].stack
  <2>1. Pushed(cpu, current, threads, t)
    BY DEF Inv
  <2>2. Pushed(cpu', current, threads, t)
    BY <1>6, <2>1 DEF Pushed, Base
  <2>3. top - at \in {18, 19} /\ at \in Nat /\ top \in Nat /\ STACK <= top /\ top <= Len(memory)
    BY <1>4, <1>6, <2>1 DEF Pushed, Base
  <2>4. /\ registers_and_stack(t)' = SubSeq(memory', at + 1, top)
        /\ registers_and_stack(t) = SubSeq(memory, at + 1, top)
    BY <1>1, <1>6 DEF registers_and_stack
  <2>5. PICK x \in Nat : x = threads[current].stack
    BY <1>2, <1>4
  <2>6. top + STACK <= x \/ x + STACK <= top
    BY <1>2, <1>3, <1>6, <2>5 DEF Layout, Apart
  <2> HIDE DEF at, top
  <2> DEFINE a == SubSeq(memory', at + 1, top)
             b == SubSeq(memory, at + 1, top)
  <2>7. at <= top
    BY <2>3
  <2>8. a \in Seq(Words) /\ Len(a) = top - at /\ \A i \in 1 .. top - at : a[i] = memory'[at + i]
    BY <2>3, <2>7, PartOfMemory
  <2>9. b \in Seq(Words) /\ Len(b) = top - at /\ \A i \in 1 .. top - at : b[i] = memory[at + i]
    BY <1>3, <2>3, <2>7, PartOfMemory
  <2> HIDE DEF a, b
  <2>10. ASSUME NEW i \in 1 .. top - at PROVE a[i] = b[i]
    <3>1. i \in Int /\ 1 <= i /\ i <= top - at
      BY <2>3
    <3>2. Len(memory) \in Nat
      BY <1>3
    <3>3. at + i \in 1 .. Len(memory)
      BY ONLY <2>3, <3>1, <3>2
    <3>4. ~(x - STACK < at + i /\ at + i <= x)
      BY ONLY <1>5, <2>3, <2>5, <2>6, <3>1
    <3>5. memory'[at + i] = memory[at + i]
      BY <2>5, <3>3, <3>4
    <3> QED BY <2>8, <2>9, <3>5
  <2>11. a = b
    BY <2>8, <2>9, <2>10, SameWords
  <2> QED BY <2>2, <2>4, <2>11 DEF a, b
<1>7. /\ mine2 \in Seq(Words) /\ \A i \in 1 .. 18 : mine2[i] = cpu'[Popped[i]]
  <2>1. mine2 = View(memory', cpu', current, threads, current)
    BY <1>1 DEF registers_and_stack, View
  <2>2. Sees(memory', cpu', current, threads, current, mine2)
    BY <1>2, <1>4, <2>1, ViewOf
  <2> HIDE DEF mine2
  <2>3. PICK n \in {18, 19} : n = Len(mine2)
    BY <2>2 DEF Sees, Pushed
  <2>4. mine2 \in Seq(Words) /\ \A i \in 1 .. n : mine2[i] =
          IF i <= 18 THEN cpu'[Popped[i]] ELSE memory'[Base(cpu', current, threads, current) + i]
    BY <2>2, <2>3 DEF Sees
  <2>5. \A i \in 1 .. 18 : i \in 1 .. n /\ i <= 18
    <3>1. n \in {18, 19}
      OBVIOUS
    <3> QED BY ONLY <3>1
  <2> QED BY <2>4, <2>5
<1> DEFINE v == registers_and_stack(current)
<1>8. \A i \in 1 .. 18 : v[i] = cpu[Popped[i]]
  <2>1. /\ Sees(memory, cpu, current, threads, current, v)
        /\ threads[current].stack - Base(cpu, current, threads, current) \in {18, 19}
    BY <1>2, SeenNow
  <2> HIDE DEF v
  <2>2. PICK n \in {18, 19} : n = Len(v)
    BY <2>1 DEF Sees
  <2>3. \A i \in 1 .. n : v[i] = IF i <= 18 THEN cpu[Popped[i]]
                                 ELSE memory[Base(cpu, current, threads, current) + i]
    BY <2>1, <2>2 DEF Sees
  <2>4. \A i \in 1 .. 18 : i \in 1 .. n /\ i <= 18
    <3>1. n \in {18, 19}
      OBVIOUS
    <3> QED BY ONLY <3>1
  <2> QED BY <2>3, <2>4
<1>9. Sound(v, threads[current].func, softvec)
  BY <1>2 DEF Inv
<1> HIDE DEF mine2, v
<1>10. /\ mine2[9] = cpu'["exc_return"] /\ mine2[10] = cpu'["control"] /\ mine2[18] = cpu'["xpsr"]
       /\ mine2[11] = cpu'["r0"] /\ mine2[12] = cpu'["r1"] /\ mine2[17] = cpu'["pc"]
  <2>1. /\ mine2[9] = cpu'[Popped[9]] /\ mine2[10] = cpu'[Popped[10]]
        /\ mine2[18] = cpu'[Popped[18]] /\ mine2[11] = cpu'[Popped[11]]
        /\ mine2[12] = cpu'[Popped[12]] /\ mine2[17] = cpu'[Popped[17]]
    BY <1>7
  <2> QED BY <2>1, RegisterNames
<1>11. v[9] = cpu["exc_return"] /\ v[10] = cpu["control"] /\ v[18] = cpu["xpsr"]
  <2>1. v[9] = cpu[Popped[9]] /\ v[10] = cpu[Popped[10]] /\ v[18] = cpu[Popped[18]]
    BY <1>8
  <2> QED BY <2>1, RegisterNames
<1>12. Sound(mine2, threads[current].func, softvec)
  BY <1>7, <1>9, <1>10, <1>11 DEF Sound
<1>13. Inv'
  <2>1. /\ Layout(threads', area') /\ memory' \in Seq(Words) /\ Len(memory') = AppStack.end
        /\ Cpu(cpu')
    BY <1>1, <1>3
  <2>2. \A t \in Live' : /\ Pushed(cpu', current', threads', t)
                         /\ Sound(registers_and_stack(t)', threads'[t].func, softvec')
    <3> TAKE t \in Live'
    <3>1. CASE t = current
      BY <1>1, <1>12, <3>1 DEF mine2
    <3>2. CASE t # current
      BY <1>1, <1>2, <1>6, <3>2 DEF Inv
    <3> QED BY <3>1, <3>2
  <2>3. ("serintr" \in enabled' => "serintr" \in softvec')
    BY <1>1 DEF Inv
  <2>4. Ready(lists', Live', prio')
    BY <1>1, <1>2 DEF Inv
  <2>5. current' = NULL \/ (current' \in Live' /\ AtFront(lists', current', prio'))
    BY <1>1, <1>2 DEF Inv
  <2> QED BY <2>1, <2>2, <2>3, <2>4, <2>5 DEF Inv
<1>14. Own!Work(Found, Found')
  <2>1. DOMAIN Found' = DOMAIN Found
    BY <1>2 DEF Found
  <2>2. Found'[current] = mine2 /\ Found[current] = v
    <3>1. Live' = Live /\ current \in Live /\ current' = current
      BY <1>1, <1>2
    <3>2. Found[current] = v
      BY <3>1 DEF Found, v
    <3>3. \A t \in Live' : Found'[t] = registers_and_stack(t)'
      BY DEF Found
    <3>4. Found'[current'] = mine2
      BY <3>1, <3>3 DEF mine2
    <3> QED BY <3>1, <3>2, <3>4
  <2>3. \A t \in DOMAIN Found \ {current} : Found'[t] = Found[t]
    BY <1>2, <1>6 DEF Found
  <2>4. \A i \in {Offset[r] + 1 : r \in {"control", "exc_return", "xpsr"}} :
           mine2[i] = v[i]
    BY <1>10, <1>11, Places
  <2> QED BY <2>1, <2>2, <2>3, <2>4 DEF Own!Work
<1>15. Own!Next
  BY <1>1, <1>14 DEF Own!Next, Found
<1> QED BY <1>1, <1>2, <1>13, <1>15

(* compute: a thread pushes a word and fills its registers.                *)
LEMMA ComputeStep ==
    ASSUME Inv, current # NULL, compute
    PROVE  Inv' /\ lists' = lists /\ prio' = prio /\ current' = current /\ Own!Next
<1> DEFINE top == threads[current].stack
           ws == <<own(current, "pushed")>>
<1>1. /\ cpu["pc"] \in {the("thread_init"), the("app_thread_init")}
      /\ UNCHANGED <<unchanged_by_threads, enabled>>
      /\ memory' = store(memory, cpu["sp"] - 1, ws)
      /\ cpu' = [r \in DOMAIN cpu |->
           IF r = "sp" THEN cpu["sp"] - 1
           ELSE IF r = "pc" THEN the("code")
           ELSE IF r \in {"exc_return", "control", "xpsr"} THEN cpu[r]
           ELSE own(current, r)]
  BY DEF compute
<1>2. /\ current \in Live /\ current \in Nat /\ memory \in Seq(Words)
      /\ Len(memory) = AppStack.end /\ Len(memory) \in Nat
  <2>1. current \in Live /\ memory \in Seq(Words) /\ Len(memory) = AppStack.end
    BY DEF Inv
  <2>2. current \in Nat
    BY <2>1, ReadyLive, SlotAssumption
  <2> QED BY <2>1, <2>2, Bounds
<1>3. Cpu(cpu)
  BY DEF Inv
<1>4. /\ top - Base(cpu, current, threads, current) = 18 /\ top \in Nat /\ top <= Len(memory)
      /\ STACK <= top
  <2> DEFINE v == registers_and_stack(current)
  <2>1. /\ Sees(memory, cpu, current, threads, current, v)
        /\ top - Base(cpu, current, threads, current) \in {18, 19}
        /\ top \in Nat /\ top <= Len(memory) /\ STACK <= top
    BY <1>2, SeenNow
  <2>2. Sound(v, threads[current].func, softvec)
    BY <1>2 DEF Inv
  <2> HIDE DEF v
  <2>3. PICK n \in {18, 19} : n = Len(v)
    BY <2>1 DEF Sees
  <2>4. \A i \in 1 .. n : v[i] = IF i <= 18 THEN cpu[Popped[i]]
                                 ELSE memory[Base(cpu, current, threads, current) + i]
    BY <2>1, <2>3 DEF Sees
  <2>5. 17 \in 1 .. n
    BY <2>3
  <2>6. v[17] = cpu["pc"]
    BY <2>4, <2>5, RegisterNames
  <2>7. Len(v) = 18
    BY <1>1, <2>2, <2>6 DEF Sound
  <2> QED BY <2>1, <2>7 DEF Sees
<1>5. PICK sp \in Nat : sp = cpu["sp"]
  BY <1>3 DEF Cpu
<1> HIDE DEF top
<1>6. sp = top
  <2>1. Base(cpu, current, threads, current) = sp - 18
    BY <1>5 DEF Base
  <2> QED BY <1>4, <1>5, <2>1
<1>7. STACK \in Nat /\ STACK > 18
  BY Bounds
<1>8. sp - 1 \in Nat /\ (sp - 1) - 18 \in Nat /\ top - ((sp - 1) - 18) = 19
  BY <1>4, <1>5, <1>6, <1>7
<1>9. DOMAIN cpu = Registers \cup {"sp"}
  BY <1>3 DEF Cpu
<1>10. /\ cpu'["sp"] = sp - 1 /\ cpu'["pc"] = the("code")
       /\ \A r \in {"exc_return", "control", "xpsr"} : cpu'[r] = cpu[r]
       /\ \A r \in Registers \ {"pc", "exc_return", "control", "xpsr"} : cpu'[r] = own(current, r)
       /\ cpu' = [r \in Registers \cup {"sp"} |-> cpu'[r]]
  BY <1>1, <1>5, <1>9 DEF Registers
<1>11. Cpu(cpu')
  <2>1. the("code") \in Words /\ \A r \in Registers : own(current, r) \in Words
    BY <1>2 DEF the, own, Words, Tags
  <2>2. \A r \in {"exc_return", "control", "xpsr"} : cpu[r] \in Words
    BY <1>3 DEF Cpu, Registers
  <2>3. \A r \in Registers : cpu'[r] \in Words
    BY <1>10, <2>1, <2>2
  <2> QED BY <1>8, <1>10, <2>3 DEF Cpu
<1>12. ws \in Seq(Words) /\ Len(ws) = 1
  <2>1. own(current, "pushed") \in Words
    BY <1>2 DEF own, Words, Tags
  <2> QED BY <2>1
<1> HIDE DEF ws
<1>13. Overlaid(memory, sp - 1, ws, memory')
  <2>1. (sp - 1) + Len(ws) <= Len(memory)
    BY <1>4, <1>6, <1>12, <1>5
  <2> QED BY <1>1, <1>2, <1>5, <1>8, <1>12, <2>1, Stored
<1>14. /\ memory' \in Seq(Words) /\ Len(memory') = Len(memory)
       /\ \A i \in 1 .. Len(memory) : ~(top - STACK < i /\ i <= top) => memory'[i] = memory[i]
  <2>1. ASSUME NEW i \in 1 .. Len(memory), ~(top - STACK < i /\ i <= top)
        PROVE  ~(sp - 1 < i /\ i <= (sp - 1) + Len(ws))
    BY <1>2, <1>4, <1>5, <1>6, <1>7, <1>12, <2>1
  <2> QED BY <1>13, <2>1 DEF Overlaid
<1>15. Pushed(cpu', current, threads, current)
  <2>1. Base(cpu', current, threads, current) = (sp - 1) - 18
    BY <1>10 DEF Base
  <2> QED BY <1>8, <2>1 DEF Pushed, top
<1>16. /\ cpu'["pc"] \notin {the("thread_init"), the("app_thread_init"), the("returned")}
       /\ cpu'["pc"] # the("svc")
  BY <1>10 DEF the
<1> QED BY <1>1, <1>10, <1>11, <1>14, <1>15, <1>16, OwnCode DEF top

(* picox_syscall: a thread asks for a call and stops at svc.               *)
LEMMA SvcStep ==
    ASSUME Inv, current # NULL, NEW call \in Calls, picox_syscall(call.type, call.param)
    PROVE  Inv' /\ lists' = lists /\ prio' = prio /\ current' = current /\ Own!Next
<1>1. /\ cpu' = [cpu EXCEPT !["r0"] = the(call.type), !["r1"] = number(call.param),
                            !["pc"] = the("svc")]
      /\ UNCHANGED <<unchanged_by_threads, enabled, memory>>
  BY DEF picox_syscall
<1>2. Cpu(cpu) /\ memory \in Seq(Words) /\ current \in Live /\ Pushed(cpu, current, threads, current)
  BY DEF Inv
<1>3. call.param \in Nat
  BY CallAssumption
<1>4. the(call.type) \in Words /\ number(call.param) \in Words /\ the("svc") \in Words
  BY <1>3 DEF the, number, Words, Tags
<1>5. /\ cpu'["r0"] = the(call.type) /\ cpu'["r1"] = number(call.param)
      /\ cpu'["pc"] = the("svc") /\ cpu'["sp"] = cpu["sp"]
      /\ \A r \in {"exc_return", "control", "xpsr"} : cpu'[r] = cpu[r]
      /\ cpu' = [r \in Registers \cup {"sp"} |-> cpu'[r]]
      /\ \A r \in Registers \ {"r0", "r1", "pc"} : cpu'[r] = cpu[r]
  BY <1>1, <1>2 DEF Cpu, Registers
<1>6. Cpu(cpu')
  <2>1. \A r \in Registers : cpu'[r] \in Words
    BY <1>2, <1>4, <1>5 DEF Cpu
  <2>2. cpu'["sp"] \in Nat
    BY <1>2, <1>5 DEF Cpu
  <2> QED BY <1>5, <2>1, <2>2 DEF Cpu
<1>7. Pushed(cpu', current, threads, current)
  BY <1>2, <1>5 DEF Pushed, Base
<1>8. cpu'["pc"] \notin {the("thread_init"), the("app_thread_init"), the("returned")}
  BY <1>5 DEF the
<1> QED BY <1>1, <1>2, <1>5, <1>6, <1>7, <1>8, OwnCode

(* An interrupt is enabled.                                                *)
LEMMA EnableStep ==
    ASSUME Inv, UNCHANGED <<unchanged_by_threads, memory, cpu>>,
           "serintr" \in enabled' => "serintr" \in softvec
    PROVE  Inv' /\ lists' = lists /\ prio' = prio /\ current' = current /\ Found' = Found
<1>1. /\ lists' = lists /\ current' = current /\ threads' = threads /\ area' = area
      /\ softvec' = softvec /\ memory' = memory /\ cpu' = cpu
  BY DEF unchanged_by_threads
<1>2. Live' = Live /\ prio' = prio
  BY <1>1 DEF Live, prio
<1>3. \A t : registers_and_stack(t)' = registers_and_stack(t)
  BY <1>1 DEF registers_and_stack
<1>4. Found' = Found
  BY <1>2, <1>3 DEF Found
<1>5. Inv'
  <2>1. /\ Layout(threads', area') /\ memory' \in Seq(Words) /\ Len(memory') = AppStack.end
        /\ Cpu(cpu')
    BY <1>1 DEF Inv
  <2>2. \A t \in Live' : /\ Pushed(cpu', current', threads', t)
                         /\ Sound(registers_and_stack(t)', threads'[t].func, softvec')
    BY <1>1, <1>2, <1>3 DEF Inv
  <2>3. ("serintr" \in enabled' => "serintr" \in softvec')
    BY <1>1
  <2>4. Ready(lists', Live', prio')
    BY <1>1, <1>2 DEF Inv
  <2>5. current' = NULL \/ (current' \in Live' /\ AtFront(lists', current', prio'))
    BY <1>1, <1>2 DEF Inv
  <2> QED BY <2>1, <2>2, <2>3, <2>4, <2>5 DEF Inv
<1> QED BY <1>1, <1>2, <1>4, <1>5

(* The console's driver enables its interrupt behind picox_setintr.        *)
LEMMA EnabledWithHandler ==
    ASSUME Inv, current # NULL, serial_interrupt_enable
    PROVE  "serintr" \in softvec
<1> DEFINE v == registers_and_stack(current)
<1>1. cpu["r0"] = the("setintr") /\ cpu["pc"] = the("returned")
  BY DEF serial_interrupt_enable
<1>2. current \in Live /\ Sound(v, threads[current].func, softvec)
  BY DEF Inv
<1>3. /\ Sees(memory, cpu, current, threads, current, v)
      /\ threads[current].stack - Base(cpu, current, threads, current) \in {18, 19}
  BY <1>2, SeenNow
<1> HIDE DEF v
<1>4. PICK n \in {18, 19} : n = Len(v)
  BY <1>3 DEF Sees
<1>5. \A i \in 1 .. n : v[i] = IF i <= 18 THEN cpu[Popped[i]]
                               ELSE memory[Base(cpu, current, threads, current) + i]
  BY <1>3, <1>4 DEF Sees
<1>6. 17 \in 1 .. n /\ 11 \in 1 .. n
  BY <1>4
<1>7. v[17] = cpu["pc"] /\ v[11] = cpu["r0"]
  BY <1>5, <1>6, RegisterNames
<1> QED BY <1>1, <1>2, <1>7 DEF Sound

(* Every step keeps the invariant, and is a step of both specifications.   *)
LEMMA AnyStep ==
    ASSUME Inv, [Next]_svars
    PROVE  /\ Inv' /\ [Queues!Next]_(Queues!dvars) /\ [Own!Next]_(Own!pvars)
<1> DEFINE Fine == Inv' /\ [Queues!Next]_(Queues!dvars) /\ [Own!Next]_(Own!pvars)
<1> SUFFICES Fine
  OBVIOUS
<1>1. ASSUME Inv', Queues!Next, Own!Next PROVE Fine
  BY <1>1
<1>2. ASSUME Inv', lists' = lists, prio' = prio, current' = current, Own!Next PROVE Fine
  BY <1>2 DEF Queues!dvars
<1>3. ASSUME Inv', lists' = lists, prio' = prio, current' = current, Found' = Found PROVE Fine
  BY <1>3 DEF Queues!dvars, Own!pvars, Found
<1> HIDE DEF Fine
<1>4. CASE UNCHANGED svars
  <2>1. /\ UNCHANGED <<unchanged_by_threads, memory, cpu>> /\ enabled' = enabled
    BY <1>4 DEF svars, unchanged_by_threads
  <2>2. "serintr" \in enabled' => "serintr" \in softvec
    BY <2>1 DEF Inv
  <2> QED BY <1>3, <2>1, <2>2, EnableStep
<1>5. CASE Next
  <2>1. current # NULL
    BY <1>5 DEF Next
  <2>2. CASE SVC_Handler
    <3>1. cpu["pc"] = the("svc") /\ UNCHANGED enabled
      BY <2>2 DEF SVC_Handler
    <3>2. CASE thread_run
      BY <1>1, <2>1, <3>1, <3>2, RunStep
    <3>3. CASE thread_exit
      BY <1>1, <2>1, <3>1, <3>3, ExitStep
    <3>4. CASE thread_sleep
      BY <1>1, <2>1, <3>1, <3>4, SleepStep
    <3>5. CASE thread_wakeup
      BY <1>1, <2>1, <3>1, <3>5, WakeupStep
    <3>6. CASE thread_chpri
      BY <1>1, <2>1, <3>1, <3>6, ChpriStep
    <3>7. CASE thread_kill
      BY <1>1, <2>1, <3>1, <3>7, KillStep
    <3>8. CASE thread_setintr
      BY <1>1, <2>1, <3>1, <3>8, SetintrStep
    <3> QED BY <2>2, <3>2, <3>3, <3>4, <3>5, <3>6, <3>7, <3>8 DEF SVC_Handler
  <2>3. CASE SysTick_Handler
    BY <1>1, <2>1, <2>3, TimerStep
  <2>4. CASE UART0_IRQ_Handler
    BY <1>1, <2>1, <2>4, UartStep
  <2>5. CASE compute
    <3>1. Inv' /\ lists' = lists /\ prio' = prio /\ current' = current /\ Own!Next
      BY <2>1, <2>5, ComputeStep
    <3> QED BY <1>2, <3>1
  <2>6. CASE \E call \in Calls : call.by = caller /\ picox_syscall(call.type, call.param)
    BY <1>2, <2>1, <2>6, SvcStep
  <2>7. CASE systick_init
    <3>1. /\ UNCHANGED <<unchanged_by_threads, memory, cpu>> /\ enabled' = enabled \cup {"timer"}
      BY <2>7 DEF systick_init
    <3>2. "serintr" \in enabled' => "serintr" \in softvec
      BY <3>1 DEF Inv
    <3> QED BY <1>3, <3>1, <3>2, EnableStep
  <2>8. CASE serial_interrupt_enable
    <3>1. UNCHANGED <<unchanged_by_threads, memory, cpu>>
      BY <2>8 DEF serial_interrupt_enable
    <3> QED BY <1>3, <2>1, <2>8, <3>1, EnabledWithHandler, EnableStep
  <2> QED BY <1>5, <2>2, <2>3, <2>4, <2>5, <2>6, <2>7, <2>8 DEF Next
<1> QED BY <1>4, <1>5

(***************************************************************************)
(* From the first state on.                                                *)
(***************************************************************************)
(* The queues before anything is ready.                                    *)
LEMMA EmptyReady ==
    ASSUME NEW alive, NEW home
    PROVE  /\ Ready(Empty, alive, home) /\ Empty.ready = {}
           /\ AsQueues(Empty) = [q |-> [p \in Priorities |-> <<>>], ready |-> {}]
<1> DEFINE q == [p \in Priorities |-> <<>>]
<1>1. /\ Empty \in Pointers /\ Empty.ready = {}
      /\ \A p \in Priorities : Empty.head[p] = NULL /\ Empty.tail[p] = NULL
      /\ \A t \in Threads : Empty.next[t] = NULL
  BY DEF Empty, Pointers
<1>2. /\ <<>> \in Seq(Threads) /\ ToSet(<<>>) = {} /\ IsInjective(<<>>)
  BY DEF ToSet, IsInjective
<1>3. q \in [Priorities -> Seq(Threads)] /\ \A p \in Priorities : q[p] = <<>>
  BY <1>2
<1> HIDE DEF q
<1>4. Holds(Empty, q)
  <2>1. \A p \in Priorities : /\ IsInjective(q[p])
                              /\ Lists(Empty.head[p], Empty.next, q[p])
                              /\ Empty.tail[p] = LastOf(q[p])
    BY <1>1, <1>2, <1>3 DEF LastOf, Lists
  <2>2. \A p \in Priorities : ToSet(q[p]) = {}
    BY <1>2, <1>3
  <2> QED BY <1>1, <1>3, <2>1, <2>2 DEF Holds
<1>5. \A p \in Priorities : \A t \in ToSet(q[p]) : t \in alive /\ home[t] = p
  BY <1>2, <1>3
<1>6. Ready(Empty, alive, home)
  BY <1>4, <1>5, ReadyAs
<1>7. AsQueues(Empty) = [q |-> q, ready |-> Empty.ready]
  BY <1>4, HoldsQueues
<1> QED BY <1>1, <1>6, <1>7 DEF q

(* The first thread, as the start-up code has put it in place.             *)
LEMMA InitHolds ==
    ASSUME Init
    PROVE  Inv /\ Queues!Init /\ Own!Init
<1> DEFINE a == UserStack.first
           at == a + STACK - FRAME
           m0 == [i \in 1 .. AppStack.end |-> number(0)]
           s == putcurrent(Empty, 0, 0)
<1>1. /\ lists = s /\ current = 0
      /\ threads = [t \in Threads |->
           IF t = 0 THEN [func |-> "run", priority |-> 0, stack |-> a + STACK, sp |-> at]
           ELSE Cleared]
      /\ area = [run |-> a + STACK, run_app |-> AppStack.first]
      /\ softvec = {"syscall", "timer"} /\ enabled = {"syscall"}
      /\ memory = store(m0, at, pushed("run", 0)) /\ cpu = dispatch(memory, at)
  BY DEF Init
<1>2. /\ STACK \in Nat /\ STACK > 18
      /\ a \in Nat /\ UserStack.end \in Nat
      /\ AppStack.first \in Nat /\ AppStack.end \in Nat
      /\ a + STACK <= UserStack.end /\ UserStack.end <= AppStack.first
      /\ AppStack.first <= AppStack.end
      /\ stack_end("run") = UserStack.end /\ stack_end("run_app") = AppStack.end
  BY Bounds
<1>3. /\ Threads \subseteq Nat /\ 0 \in Threads /\ 0 \in Priorities
      /\ NULL \notin Threads /\ NULL \notin Apps /\ "run" \in Apps
  BY SlotAssumption DEF Apps
<1>4. /\ m0 \in Seq(Words) /\ Len(m0) = AppStack.end /\ a + STACK <= Len(m0)
  <2>1. number(0) \in Words
    BY DEF number, Words, Tags
  <2>2. a + STACK <= AppStack.end
    BY <1>2
  <2> QED BY <1>2, <2>1, <2>2
<1> HIDE DEF a, at, m0
<1>5. /\ Overlaid(m0, at, First("run", 0), store(m0, at, pushed("run", 0)))
  BY <1>2, <1>3, <1>4, FirstFrame DEF at
<1>6. SubSeq(store(m0, at, pushed("run", 0)), at + 1, a + STACK) = First("run", 0)
  BY <1>2, <1>3, <1>4, FirstFrame DEF at
<1>7. /\ at \in Nat /\ (a + STACK) - at = 18
      /\ First("run", 0) \in Seq(Words) /\ Len(First("run", 0)) = 18
  BY <1>2, <1>3, <1>4, FirstFrame DEF at
<1>8. memory \in Seq(Words) /\ Len(memory) = AppStack.end
  BY <1>1, <1>4, <1>5 DEF Overlaid
<1>9. /\ threads[0] = [func |-> "run", priority |-> 0, stack |-> a + STACK, sp |-> at]
      /\ \A t \in Threads \ {0} : threads[t] = Cleared
      /\ threads = [t \in Threads |-> threads[t]]
  BY <1>1, <1>3
<1>10. /\ threads[0].func = "run" /\ threads[0].priority = 0
       /\ threads[0].stack = a + STACK /\ threads[0].sp = at
       /\ \A t \in Threads \ {0} : threads[t].func = NULL /\ threads[t].priority = 0
  BY <1>9 DEF Cleared
<1>11. /\ AliveIn(threads) = {0} /\ Live = {0}
       /\ prio = [t \in Threads |-> 0] /\ prio[0] = 0
  <2>1. AliveIn(threads) = {0}
    BY <1>3, <1>10 DEF AliveIn, Apps
  <2>2. Live = {0}
    BY <2>1 DEF AliveIn, Live
  <2>3. prio = [t \in Threads |-> 0]
    BY <1>10 DEF prio
  <2> QED BY <1>3, <2>1, <2>2, <2>3
<1>12. Layout(threads, area)
  <2>1. threads \in [Threads -> [func : Apps \cup {NULL}, priority : Priorities,
                                 stack : Nat, sp : Nat]]
    <3>1. a + STACK \in Nat
      BY <1>2
    <3>2. threads[0] \in [func : Apps \cup {NULL}, priority : Priorities, stack : Nat, sp : Nat]
      BY <1>3, <1>7, <1>9, <3>1
    <3>3. Cleared \in [func : Apps \cup {NULL}, priority : Priorities, stack : Nat, sp : Nat]
      BY <1>3 DEF Cleared
    <3> QED BY <1>9, <3>2, <3>3
  <2>2. /\ area["run"] = a + STACK /\ area["run_app"] = AppStack.first
        /\ area = [call \in Apps |-> area[call]]
    BY <1>1 DEF Apps
  <2>3. Bottom("run") = a + STACK /\ Bottom("run_app") = AppStack.first
    BY DEF Bottom, a
  <2>4. \A call \in Apps :
          area[call] \in Nat /\ Bottom(call) <= area[call] /\ area[call] <= stack_end(call)
    BY <1>2, <2>2, <2>3 DEF Apps
  <2>5. \A t \in AliveIn(threads) :
          /\ (IF threads[t].func = "run" THEN UserStack.first ELSE AppStack.first) + STACK
               <= threads[t].stack
          /\ threads[t].stack <= area[threads[t].func]
    BY <1>2, <1>10, <1>11, <2>2 DEF a
  <2> QED BY <1>11, <2>1, <2>2, <2>4, <2>5 DEF Layout
<1>13. /\ View(memory, cpu, 0, threads, 0) = SubSeq(memory, at + 1, a + STACK)
       /\ Pushed(cpu, 0, threads, 0) /\ Cpu(cpu)
  <2>1. NULL # 0
    BY <1>3
  <2>2. /\ threads[0].stack \in Nat /\ threads[0].stack <= Len(memory)
        /\ Pushed(cpu, NULL, threads, 0)
    BY <1>2, <1>4, <1>7, <1>8, <1>10, <2>1 DEF Pushed, Base
  <2>3. cpu = dispatch(memory, threads[0].sp)
    BY <1>1, <1>10
  <2>4. View(memory, cpu, 0, threads, 0) = SubSeq(memory, threads[0].sp + 1, threads[0].stack)
    BY <1>8, <2>1, <2>2, <2>3, LoadedView
  <2>5. Pushed(cpu, 0, threads, 0)
    BY <1>8, <2>1, <2>2, <2>3, LoadedView
  <2>6. Cpu(cpu)
    BY <1>8, <2>1, <2>2, <2>3, LoadedView
  <2> QED BY <1>10, <2>4, <2>5, <2>6
<1>14. registers_and_stack(0) = First("run", 0)
  <2>1. registers_and_stack(0) = View(memory, cpu, 0, threads, 0)
    BY <1>1 DEF registers_and_stack, View
  <2> QED BY <1>1, <1>6, <1>13, <2>1
<1>15. Sound(registers_and_stack(0), "run", softvec)
  BY <1>3, <1>14, FirstSound, FirstContext
<1>16. /\ Ready(lists, Live, prio) /\ lists.ready = {0}
       /\ Queues!putcurrent([q |-> [p \in Priorities |-> <<>>], ready |-> {}], 0, 0)
            = AsQueues(lists)
  <2>1. Ready(Empty, Live, prio) /\ Empty.ready = {}
    BY EmptyReady
  <2>6. AsQueues(Empty) = [q |-> [p \in Priorities |-> <<>>], ready |-> {}]
    BY EmptyReady
  <2>2. 0 \in Threads /\ 0 \in Live /\ 0 \in Priorities /\ (0 \notin Empty.ready => prio[0] = 0)
    BY <1>3, <1>11
  <2>3. Ready(s, Live, prio)
    BY <2>1, <2>2, ReadyPut
  <2>4. s.ready = Empty.ready \cup {0}
    BY <2>1, <2>2, ReadyPut
  <2>5. Queues!putcurrent(AsQueues(Empty), 0, 0) = AsQueues(s)
    BY <2>1, <2>2, ReadyPut
  <2> QED BY <1>1, <2>1, <2>3, <2>4, <2>5, <2>6
<1>17. AtFront(lists, current, prio)
  <2>1. ~none_ready(lists)
    BY <1>16, Scheduled
  <2>2. AtFront(lists, first_ready(lists), prio)
    BY <1>16, <2>1, Scheduled
  <2>3. first_ready(lists) = 0
    BY <1>16, <2>2 DEF AtFront
  <2> QED BY <1>1, <2>2, <2>3
<1>18. Inv
  <2>1. \A t \in Live : /\ Pushed(cpu, current, threads, t)
                        /\ Sound(registers_and_stack(t), threads[t].func, softvec)
    BY <1>1, <1>10, <1>11, <1>13, <1>15
  <2>2. ("serintr" \in enabled => "serintr" \in softvec)
    BY <1>1
  <2> QED BY <1>1, <1>8, <1>11, <1>12, <1>13, <1>16, <1>17, <2>1, <2>2 DEF Inv
<1>19. Queues!Init
  BY <1>1, <1>3, <1>11, <1>16 DEF Queues!Init
<1>20. Own!Init
  <2>1. First("run", 0) \in Firsts["run"]
    BY <1>3 DEF Firsts
  <2>2. [t \in Live |-> registers_and_stack(t)] = [t \in {0} |-> First("run", 0)]
    BY <1>11, <1>14
  <2> QED BY <1>1, <2>1, <2>2 DEF Own!Init
<1> QED BY <1>18, <1>19, <1>20

(* No app reaches the stack of a system thread, and every app its own.     *)
LEMMA InvConfines ==
    ASSUME Inv
    PROVE  Confined
<1> SUFFICES ASSUME NEW t \in Live
             PROVE  LET stack == threads[t].stack - STACK .. threads[t].stack - 1 IN
                    IF registers_and_stack(t)[Offset["control"] + 1] = the("unprivileged")
                    THEN stack \subseteq AppRegion
                    ELSE stack \cap AppRegion = {}
  BY DEF Confined
<1>1. Layout(threads, area) /\ t \in AliveIn(threads)
  BY DEF Inv, Live, AliveIn
<1>2. /\ threads[t].func \in Apps /\ threads[t].stack \in Nat
      /\ STACK <= threads[t].stack /\ threads[t].stack <= AppStack.end
  BY <1>1, StackInMemory
<1>3. /\ (IF threads[t].func = "run" THEN UserStack.first ELSE AppStack.first) + STACK
           <= threads[t].stack
      /\ threads[t].stack <= area[threads[t].func]
      /\ area[threads[t].func] \in Nat /\ area[threads[t].func] <= stack_end(threads[t].func)
  BY <1>1, <1>2 DEF Layout
<1>4. /\ STACK \in Nat /\ STACK > 18
      /\ UserStack.first \in Nat /\ UserStack.end \in Nat
      /\ AppStack.first \in Nat /\ AppStack.end \in Nat
      /\ UserStack.end <= AppStack.first
      /\ stack_end("run") = UserStack.end /\ stack_end("run_app") = AppStack.end
  BY Bounds
<1>5. AppRegion = AppStack.first .. AppStack.end - 1
  BY RegionIsArea DEF AppRegion
<1>6. registers_and_stack(t)[Offset["control"] + 1]
        = IF threads[t].func = "run" THEN the("privileged") ELSE the("unprivileged")
  BY Places DEF Inv, Sound
<1>7. CASE threads[t].func = "run"
  <2>1. registers_and_stack(t)[Offset["control"] + 1] # the("unprivileged")
    BY <1>6, <1>7 DEF the
  <2>2. threads[t].stack <= AppStack.first
    BY <1>2, <1>3, <1>4, <1>7
  <2>3. (threads[t].stack - STACK .. threads[t].stack - 1) \cap AppRegion = {}
    BY <1>2, <1>4, <1>5, <2>2
  <2> QED BY <2>1, <2>3
<1>8. CASE threads[t].func # "run"
  <2>1. registers_and_stack(t)[Offset["control"] + 1] = the("unprivileged")
    BY <1>6, <1>8
  <2>2. AppStack.first + STACK <= threads[t].stack
    BY <1>3, <1>8
  <2>3. (threads[t].stack - STACK .. threads[t].stack - 1) \subseteq AppRegion
    BY <1>2, <1>4, <1>5, <2>2
  <2> QED BY <2>1, <2>3
<1> QED BY <1>7, <1>8

(* In every state: stacks apart and in place, contexts of 18 words, every  *)
(* ready thread once in the queue of its priority, the running one first.  *)
THEOREM StateSound == Spec => []Inv
<1>1. Init => Inv
  BY InitHolds
<1>2. Inv /\ [Next]_svars => Inv'
  BY AnyStep
<1> QED BY <1>1, <1>2, PTL DEF Spec

(* Read along the links, the ready queues are the sequences of Sched at    *)
(* every step: no pointer of getcurrent, putcurrent and readyque_remove is *)
(* stale, not cleared or not moved (kernel.c).                             *)
THEOREM QueuesKept == Spec => KeepsQueues
<1>1. Init => Queues!Init
  BY InitHolds
<1>2. Inv /\ [Next]_svars => [Queues!Next]_(Queues!dvars)
  BY AnyStep
<1> QED BY <1>1, <1>2, StateSound, PTL DEF Spec, KeepsQueues, Queues!Spec

(* Whatever interrupts it, a thread finds its registers, its privilege and *)
(* its stack as it left them, and the kernel does what its r0 asked for    *)
(* (handler.c, syscall_intr, dispatch, the first frames).                  *)
THEOREM ProcessorKept == Spec => OwnProcessor
<1>1. Init => Own!Init
  BY InitHolds
<1>2. Inv /\ [Next]_svars => [Own!Next]_(Own!pvars)
  BY AnyStep
<1> QED BY <1>1, <1>2, StateSound, PTL DEF Spec, OwnProcessor, Own!Spec

(* A thread that runs unprivileged can reach all of its stack, and no word *)
(* of the stack of a thread that does not (mpu_init, the stack areas,      *)
(* CONTROL as it is saved and loaded).                                     *)
THEOREM AppsConfined == Spec => []Confined
<1>1. Inv => Confined
  BY InvConfines
<1> QED BY <1>1, StateSound, PTL
=============================================================================
