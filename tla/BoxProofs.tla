------------------------------ MODULE BoxProofs ------------------------------
(***************************************************************************)
(* The message boxes in the pools, for any numbers of boxes, threads and   *)
(* blocks: no buffer is lost, and what callers see are queues of messages  *)
(* and counters of blocks.  Two parts: the pools for any table of pools,   *)
(* and the boxes on top of them.                                           *)
(***************************************************************************)
EXTENDS MessageBoxes, LinkProofs

(***************************************************************************)
(* The pools for any table of pools: where the blocks lie, what taking and *)
(* giving back a block does to the free lists, and from that that no block *)
(* is lost, shared or overlapped.                                          *)
(***************************************************************************)
(* Where the blocks lie.                                                   *)
LEMMA TableFacts ==
    /\ Len(Pools) \in Nat /\ Index = 1 .. Len(Pools)
    /\ \A i \in Index : /\ Pools[i].size \in Nat /\ Pools[i].num \in Nat
                        /\ Pools[i].size > HEADER /\ Pools[i].num > 0
    /\ \A i, j \in Index : i < j => Pools[i].size < Pools[j].size
<1>1. Len(Pools) \in Nat /\ Index = 1 .. Len(Pools)
  BY PoolAssumption DEF PoolAssumption, Index
<1>2. \A i \in Index : Pools[i] \in [size : Nat, num : Nat]
  <2> DEFINE S == [size : Nat, num : Nat]
  <2>1. Pools \in Seq(S)
    BY PoolAssumption DEF PoolAssumption
  <2> HIDE DEF S
  <2>2. \A i \in Index : Pools[i] \in S
    BY <1>1, <2>1
  <2> QED BY <2>2 DEF S
<1> QED BY <1>1, <1>2, PoolAssumption DEF PoolAssumption

room(i) == Pools[i].size * Pools[i].num

(* The function that area is read from, up to pool m.                      *)
Ends(m) == {g \in [0 .. m -> Nat] : g[0] = 0 /\ \A n \in 1 .. m : g[n] = g[n - 1] + room(n)}

LEMMA RoomType == \A i \in Index : room(i) \in Nat
<1> SUFFICES ASSUME NEW i \in Index PROVE room(i) \in Nat
  OBVIOUS
<1>1. \A s, n \in Nat : s * n \in Nat
  OBVIOUS
<1> QED BY <1>1, TableFacts DEF room

LEMMA EndsExist == Ends(Len(Pools)) # {}
<1> DEFINE N == Len(Pools)
           some == {m \in 0 .. N : Ends(m) # {}}
<1>0. N \in Nat /\ Index = 1 .. N
  BY TableFacts
<1> HIDE DEF N
<1>1. 0 \in some
  <2>1. [n \in 0 .. 0 |-> 0] \in Ends(0)
    BY DEF Ends
  <2> QED BY <1>0, <2>1
<1>2. ASSUME NEW n \in 1 .. N, n - 1 \in some
      PROVE  n \in some
  <2>1. PICK g \in [0 .. n - 1 -> Nat] : g[0] = 0 /\ \A k \in 1 .. n - 1 : g[k] = g[k - 1] + room(k)
    BY <1>2 DEF Ends
  <2>2. room(n) \in Nat
    BY <1>0, RoomType
  <2> DEFINE h == [k \in 0 .. n |-> IF k = n THEN g[n - 1] + room(n) ELSE g[k]]
  <2>3. g[n - 1] \in Nat /\ n \in Nat /\ 0 \in 0 .. n /\ n # 0
    BY <1>0
  <2>4. \A k \in 0 .. n : k = n \/ k \in 0 .. n - 1
    BY <1>0
  <2>5. h \in [0 .. n -> Nat] /\ h[0] = 0
    BY <2>1, <2>2, <2>3, <2>4
  <2>6. ASSUME NEW k \in 1 .. n PROVE h[k] = h[k - 1] + room(k)
    <3>1. k - 1 \in 0 .. n /\ k - 1 # n /\ k \in 0 .. n /\ (k # n => k \in 1 .. n - 1)
      BY <1>0
    <3>2. h[k - 1] = g[k - 1]
      BY <3>1
    <3>3. CASE k = n
      BY <3>1, <3>2, <3>3
    <3>4. CASE k # n
      BY <2>1, <3>1, <3>2, <3>4
    <3> QED BY <3>3, <3>4
  <2> HIDE DEF h
  <2>7. h \in Ends(n)
    BY <2>5, <2>6 DEF Ends
  <2> QED BY <2>7, <1>0
<1>3. 0 .. N \subseteq some
  <2> HIDE DEF some
  <2> QED BY <1>0, <1>1, <1>2, InductionOnSet
<1>4. N \in some
  BY <1>0, <1>3
<1> QED BY <1>4 DEF N

LEMMA Areas ==
    \E g \in Ends(Len(Pools)) : \A i \in Index : area(i) = g[i - 1]
<1> DEFINE N == Len(Pools)
           Def(g) == [n \in 0 .. N |-> IF n = 0 THEN 0 ELSE g[n - 1] + Pools[n].size * Pools[n].num]
           end == CHOOSE g : g = Def(g)
<1>0. N \in Nat /\ Index = 1 .. N
  BY TableFacts
<1>1. PICK e \in Ends(N) : TRUE
  BY EndsExist
<1>2. e = Def(e)
  <2>1. e \in [0 .. N -> Nat] /\ e[0] = 0 /\ \A n \in 1 .. N : e[n] = e[n - 1] + Pools[n].size * Pools[n].num
    BY DEF Ends, room
  <2> HIDE DEF N
  <2>2. \A n \in 0 .. N : n # 0 => n \in 1 .. N
    BY <1>0
  <2>3. \A n \in 0 .. N : e[n] = Def(e)[n]
    BY <2>1, <2>2
  <2> QED BY <2>1, <2>3
<1>3. end = Def(end)
  <2> HIDE DEF Def
  <2> QED BY <1>2
<1> HIDE DEF end
<1>4. end = e
  <2> DEFINE same == {n \in 0 .. N : end[n] = e[n]}
  <2> HIDE DEF N
  <2>1. 0 \in same
    BY <1>0, <1>2, <1>3
  <2>2. ASSUME NEW n \in 1 .. N, n - 1 \in same
        PROVE  n \in same
    <3>1. n # 0 /\ n \in 0 .. N /\ end[n - 1] = e[n - 1]
      BY <1>0, <2>2
    <3>2. end[n] = Def(end)[n] /\ e[n] = Def(e)[n]
      BY <1>2, <1>3
    <3>3. Def(end)[n] = Def(e)[n]
      BY <3>1
    <3> HIDE DEF Def
    <3> QED BY <3>1, <3>2, <3>3
  <2>3. 0 .. N \subseteq same
    <3> HIDE DEF same
    <3> QED BY <1>0, <2>1, <2>2, InductionOnSet
  <2>4. \A n \in 0 .. N : end[n] = e[n]
    BY <2>3
  <2>5. end = [n \in 0 .. N |-> end[n]] /\ e = [n \in 0 .. N |-> e[n]]
    BY <1>2, <1>3
  <2> QED BY <2>4, <2>5
<1>5. \A i \in Index : area(i) = end[i - 1]
  BY DEF area, end
<1> QED BY <1>1, <1>4, <1>5

LEMMA AreaFacts ==
    /\ \A i \in Index : area(i) \in Nat
    /\ \A i, j \in Index : i < j => area(i) + room(i) <= area(j)
<1> DEFINE N == Len(Pools)
<1>0. N \in Nat /\ Index = 1 .. N
  BY TableFacts
<1>1. PICK g \in Ends(N) : \A i \in Index : area(i) = g[i - 1]
  BY Areas
<1> HIDE DEF N
<1>2. /\ \A n \in 0 .. N : g[n] \in Nat
      /\ \A n \in 1 .. N : g[n] = g[n - 1] + room(n)
  BY DEF Ends
<1>3. \A i \in Index : i - 1 \in 0 .. N /\ i \in 0 .. N
  BY <1>0
<1>4. \A i \in Index : area(i) \in Nat
  BY <1>1, <1>2, <1>3
<1>5. ASSUME NEW i \in Index, NEW j \in Index, i < j
      PROVE  area(i) + room(i) <= area(j)
  <2> DEFINE past == {n \in 0 .. N : i <= n => g[i] <= g[n]}
  <2>1. 0 \in past
    BY <1>0
  <2>2. ASSUME NEW n \in 1 .. N, n - 1 \in past
        PROVE  n \in past
    <3>1. g[n] = g[n - 1] + room(n) /\ room(n) \in Nat /\ n - 1 \in 0 .. N /\ n \in 0 .. N
      BY <1>0, <1>2, RoomType
    <3>2. g[n - 1] \in Nat /\ g[i] \in Nat /\ g[n - 1] <= g[n]
      BY <1>2, <1>3, <3>1
    <3>3. CASE i = n
      BY <3>1, <3>2, <3>3
    <3>4. CASE i # n
      <4>1. i <= n => i <= n - 1
        BY <1>0, <3>4
      <4>2. i <= n => g[i] <= g[n - 1]
        BY <2>2, <4>1
      <4> QED BY <1>2, <3>1, <3>2, <4>2
    <3> QED BY <3>3, <3>4
  <2>3. 0 .. N \subseteq past
    <3> HIDE DEF past
    <3> QED BY <1>0, <2>1, <2>2, InductionOnSet
  <2>4. j - 1 \in 0 .. N /\ i <= j - 1
    BY <1>0, <1>5
  <2>5. g[i] <= g[j - 1]
    BY <2>3, <2>4
  <2>6. g[i] = g[i - 1] + room(i)
    BY <1>0, <1>2
  <2> QED BY <1>1, <2>5, <2>6
<1> QED BY <1>4, <1>5

(* Multiples.                                                              *)
LEMMA Multiples ==
    ASSUME NEW s \in Nat, NEW k \in Nat, NEW l \in Nat, k < l
    PROVE  k * s \in Nat /\ k * s + s <= l * s
<1>1. PICK d \in Nat : l = k + 1 + d
  <2>1. l - k - 1 \in Nat /\ l = k + 1 + (l - k - 1)
    OBVIOUS
  <2> QED BY <2>1
<1>2. d * s \in Nat /\ k * s \in Nat
  OBVIOUS
<1>3. (k + 1 + d) * s = k * s + s + d * s
  OBVIOUS
<1> QED BY <1>1, <1>2, <1>3

(* Blocks lie in their pool's room, one behind the other.                  *)
LEMMA BlocksOfPool ==
    ASSUME NEW i \in Index
    PROVE  /\ \A k \in 1 .. Pools[i].num :
                 /\ block(i, k) \in Nat /\ area(i) <= block(i, k)
                 /\ block(i, k) + Pools[i].size <= area(i) + room(i)
           /\ \A k, l \in 1 .. Pools[i].num : k < l => block(i, k) + Pools[i].size <= block(i, l)
           /\ \A k \in 1 .. Pools[i].num : k # Pools[i].num =>
                 k + 1 \in 1 .. Pools[i].num /\ block(i, k) + Pools[i].size = block(i, k + 1)
<1> DEFINE s == Pools[i].size  n == Pools[i].num
<1>0. s \in Nat /\ n \in Nat /\ area(i) \in Nat
  BY TableFacts, AreaFacts
<1>1. \A k \in 1 .. n : block(i, k) = area(i) + (k - 1) * s
  BY DEF block
<1>2. room(i) = n * s
  BY <1>0 DEF room
<1> HIDE DEF s, n
<1>3. ASSUME NEW k \in 1 .. n
      PROVE  /\ block(i, k) \in Nat /\ area(i) <= block(i, k)
             /\ block(i, k) + s <= area(i) + room(i)
  <2>1. k - 1 \in Nat /\ k - 1 < n
    BY <1>0
  <2>2. (k - 1) * s \in Nat /\ (k - 1) * s + s <= n * s
    BY <1>0, <2>1, Multiples
  <2>3. n * s \in Nat
    BY <1>0
  <2> QED BY <1>0, <1>1, <1>2, <2>2, <2>3
<1>4. ASSUME NEW k \in 1 .. n, NEW l \in 1 .. n, k < l
      PROVE  block(i, k) + s <= block(i, l)
  <2>1. k - 1 \in Nat /\ l - 1 \in Nat /\ k - 1 < l - 1
    BY <1>0, <1>4
  <2>2. (k - 1) * s \in Nat /\ (k - 1) * s + s <= (l - 1) * s
    BY <1>0, <2>1, Multiples
  <2>3. (l - 1) * s \in Nat
    BY <1>0, <2>1
  <2> QED BY <1>0, <1>1, <2>2, <2>3
<1>5. ASSUME NEW k \in 1 .. n, k # n
      PROVE  k + 1 \in 1 .. n /\ block(i, k) + s = block(i, k + 1)
  <2>1. k + 1 \in 1 .. n
    BY <1>0, <1>5
  <2>2. (k - 1) * s \in Nat /\ ((k + 1) - 1) * s = (k - 1) * s + s
    BY <1>0
  <2> QED BY <1>0, <1>1, <2>1, <2>2
<1> QED BY <1>3, <1>4, <1>5 DEF s, n

(* Two blocks, of one pool or of two, do not overlap.                      *)
LEMMA BlocksApart ==
    ASSUME NEW i \in Index, NEW j \in Index, NEW a \in Blocks(i), NEW c \in Blocks(j)
    PROVE  /\ a \in Nat /\ c \in Nat
           /\ a < c => a + Pools[i].size <= c
           /\ a = c => i = j
<1>1. PICK k \in 1 .. Pools[i].num : a = block(i, k)
  BY DEF Blocks
<1>2. PICK l \in 1 .. Pools[j].num : c = block(j, l)
  BY DEF Blocks
<1>3. /\ a \in Nat /\ area(i) <= a /\ a + Pools[i].size <= area(i) + room(i)
      /\ c \in Nat /\ area(j) <= c /\ c + Pools[j].size <= area(j) + room(j)
  BY <1>1, <1>2, BlocksOfPool
<1>4. /\ i \in Int /\ j \in Int /\ area(i) \in Nat /\ area(j) \in Nat
      /\ room(i) \in Nat /\ room(j) \in Nat
      /\ Pools[i].size \in Nat /\ Pools[i].size > 0 /\ Pools[j].size \in Nat /\ Pools[j].size > 0
      /\ Pools[i].num \in Nat
  <2>1. i \in Int /\ j \in Int
    BY TableFacts
  <2>2. \A o \in Index : Pools[o].size \in Nat /\ Pools[o].size > 0 /\ Pools[o].num \in Nat
    BY TableFacts DEF HEADER
  <2>3. \A o \in Index : area(o) \in Nat /\ room(o) \in Nat
    BY AreaFacts, RoomType
  <2> QED BY <2>1, <2>2, <2>3
<1>5. CASE i < j
  <2>1. area(i) + room(i) <= area(j)
    BY <1>5, AreaFacts
  <2>2. i # j
    BY <1>4, <1>5
  <2>3. a + Pools[i].size <= c
    <3>1. PICK A, B, S, T, D : /\ A = area(i) /\ B = room(i) /\ S = Pools[i].size
                               /\ T = area(j) /\ D = c
      OBVIOUS
    <3>2. A \in Int /\ B \in Int /\ S \in Int /\ T \in Int /\ D \in Int /\ a \in Int
      BY <1>3, <1>4, <3>1
    <3>3. a + S <= A + B /\ A + B <= T /\ T <= D
      BY <1>3, <2>1, <3>1
    <3>4. a + S <= D
      BY ONLY <3>2, <3>3
    <3> QED BY <3>1, <3>4
  <2>4. a # c
    <3>1. PICK S : S = Pools[i].size
      OBVIOUS
    <3>2. a \in Int /\ c \in Int /\ S \in Int /\ S > 0 /\ a + S <= c
      BY <1>3, <1>4, <2>3, <3>1
    <3> QED BY ONLY <3>2
  <2> QED BY <1>3, <2>3, <2>4
<1>6. CASE j < i
  <2>1. area(j) + room(j) <= area(i)
    BY <1>6, AreaFacts
  <2> QED BY <1>3, <1>4, <1>6, <2>1
<1>7. CASE i = j
  <2>1. k < l => a + Pools[i].size <= c
    BY <1>1, <1>2, <1>7, BlocksOfPool
  <2>2. l < k => c + Pools[i].size <= a
    BY <1>1, <1>2, <1>7, BlocksOfPool
  <2>3. k = l => a = c
    BY <1>1, <1>2, <1>7
  <2>4. k < l \/ l < k \/ k = l
    BY <1>4, <1>7
  <2> QED BY <1>3, <1>4, <1>7, <2>1, <2>2, <2>3, <2>4
<1> QED BY <1>3, <1>4, <1>5, <1>6, <1>7

LEMMA BlocksOf ==
    /\ \A i \in Index : Blocks(i) \subseteq AllBlocks /\ Blocks(i) \subseteq Nat
    /\ \A a \in AllBlocks : \E i \in Index : a \in Blocks(i)
    /\ AllBlocks \subseteq Nat /\ NULL \notin AllBlocks
<1>1. \A i \in Index : Blocks(i) \subseteq Nat
  BY BlocksApart
<1>2. /\ \A i \in Index : Blocks(i) \subseteq AllBlocks
      /\ \A a \in AllBlocks : \E i \in Index : a \in Blocks(i)
  BY DEF AllBlocks
<1>3. AllBlocks \subseteq Nat
  BY <1>1, <1>2
<1>4. NULL \notin Nat
  BY PoolAssumption DEF PoolAssumption
<1> QED BY <1>1, <1>2, <1>3, <1>4

LEMMA FinitelyMany ==
    /\ \A i \in Index : IsFiniteSet(Blocks(i)) /\ Cardinality(Blocks(i)) = Pools[i].num
    /\ IsFiniteSet(AllBlocks) /\ Cardinality(AllBlocks) \in Nat
<1>1. ASSUME NEW i \in Index
      PROVE  IsFiniteSet(Blocks(i)) /\ Cardinality(Blocks(i)) = Pools[i].num
  <2> DEFINE n == Pools[i].num
             f == [k \in 1 .. n |-> block(i, k)]
  <2>0. n \in Nat
    BY TableFacts
  <2>1. IsFiniteSet(1 .. n) /\ Cardinality(1 .. n) = n
    <3>1. IsFiniteSet(1 .. n) /\ Cardinality(1 .. n) = IF 1 > n THEN 0 ELSE n - 1 + 1
      <4> HIDE DEF n
      <4>1. 1 \in Int /\ n \in Int
        BY <2>0
      <4> QED BY <4>1, FS_Interval, Zenon
    <3> QED BY <2>0, <3>1
  <2>2. f \in [1 .. n -> Blocks(i)] /\ \A a \in Blocks(i) : \E k \in 1 .. n : f[k] = a
    BY DEF Blocks
  <2>3. \A k, l \in 1 .. n : f[k] = f[l] => k = l
    <3> SUFFICES ASSUME NEW k \in 1 .. n, NEW l \in 1 .. n, k < l PROVE block(i, k) # block(i, l)
      BY <2>0
    <3>1. block(i, k) + Pools[i].size <= block(i, l) /\ block(i, k) \in Nat
      BY BlocksOfPool
    <3>2. Pools[i].size \in Nat /\ Pools[i].size > 0
      BY TableFacts DEF HEADER
    <3> QED BY <3>1, <3>2
  <2> HIDE DEF n, f
  <2>4. ExistsBijection(1 .. n, Blocks(i))
    BY <2>2, <2>3 DEF ExistsBijection, Bijection, Injection, Surjection, IsInjective
  <2>5. IsFiniteSet(Blocks(i)) /\ Cardinality(Blocks(i)) = n
    BY <2>1, <2>4, FS_Bijection
  <2> QED BY <2>5 DEF n
<1>2. IsFiniteSet(AllBlocks)
  <2> DEFINE f == [i \in Index |-> Blocks(i)]
             T == {Blocks(i) : i \in Index}
  <2>1. f \in [Index -> T] /\ \A t \in T : \E i \in Index : f[i] = t
    OBVIOUS
  <2>2. \A t \in T : IsFiniteSet(t)
    BY <1>1
  <2>3. UNION T = AllBlocks
    BY DEF AllBlocks
  <2>4. IsFiniteSet(Index)
    <3>1. 1 \in Int /\ Len(Pools) \in Int
      BY TableFacts
    <3> QED BY <3>1, TableFacts, FS_Interval, Zenon
  <2> HIDE DEF f, T
  <2>5. f \in Surjection(Index, T)
    BY <2>1 DEF Surjection
  <2>6. IsFiniteSet(T)
    BY <2>4, <2>5, FS_Surjection
  <2> QED BY <2>2, <2>3, <2>6, FS_UNION
<1> QED BY <1>1, <1>2, FS_CardinalityType

(***************************************************************************)
(* What is true of the pools whatever they are used for: a list of free    *)
(* blocks per pool, and the blocks that are out, each of the pool that is  *)
(* best for the size asked for.                                            *)
(***************************************************************************)
Ref == AllBlocks \cup {NULL}

Given == UNION {[D -> Int] : D \in SUBSET AllBlocks}

Heaps == [header : [AllBlocks -> [next : Ref, size : Nat]],
          first  : [Index -> Ref],
          given  : Given]

(* The pool that best chooses.                                             *)
Best(size, i) == i \in Index /\ fits(size, i) /\ \A j \in Index : fits(size, j) => i <= j

NextOf(h) == [a \in AllBlocks |-> h.header[a].next]

Free(h, i, q) ==
    /\ q \in Seq(AllBlocks) /\ IsInjective(q)
    /\ Lists(h.first[i], NextOf(h), q)
    /\ ToSet(q) = Blocks(i) \ DOMAIN h.given

HeapInv(h) ==
    /\ h \in Heaps
    /\ \A i \in Index : \A a \in Blocks(i) : h.header[a].size = Pools[i].size
    /\ \A i \in Index : \E q : Free(h, i, q)
    /\ \A a \in DOMAIN h.given : \E i \in Index : Best(h.given[a], i) /\ a \in Blocks(i)

LEMMA BestUnique ==
    ASSUME NEW size \in Int, NEW i, Best(size, i)
    PROVE  best(size) = i
<1>1. \A j, k \in Index : j <= k /\ k <= j => j = k
  BY TableFacts
<1>2. \A j : Best(size, j) => j = i
  BY <1>1 DEF Best
<1>3. best(size) = CHOOSE j \in Index : fits(size, j) /\ \A k \in Index : fits(size, k) => j <= k
  BY DEF best
<1>4. Best(size, best(size))
  BY <1>3 DEF Best
<1> QED BY <1>2, <1>4

LEMMA BestExists ==
    ASSUME NEW size \in Int, NEW i \in Index, fits(size, i)
    PROVE  Best(size, best(size))
<1> DEFINE D == {j \in Index : fits(size, j)}
<1>1. D \in SUBSET Nat /\ D # {}
  BY TableFacts
<1>2. PICK j \in D : \A k \in D : j <= k
  <2> HIDE DEF D
  <2> QED BY <1>1, LeastElement
<1>3. Best(size, j)
  BY <1>2 DEF Best
<1> QED BY <1>3, BestUnique

(* A block of the best pool's list is taken.                               *)
LEMMA Allocates ==
    ASSUME NEW h, HeapInv(h), NEW size \in Int, available(h, size),
           NEW a, a = allocated(h, size), NEW g, g = picoxmem_alloc(h, size)
    PROVE  /\ HeapInv(g)
           /\ \E i \in Index : Best(size, i) /\ a \in Blocks(i)
           /\ a \in AllBlocks /\ a \notin DOMAIN h.given
           /\ DOMAIN g.given = DOMAIN h.given \cup {a}
           /\ g.given[a] = size /\ \A c \in DOMAIN h.given : g.given[c] = h.given[c]
<1>1. PICK i \in Index : fits(size, i) /\ i = best(size) /\ h.first[i] # NULL
  BY DEF available
<1>2. Best(size, i)
  BY <1>1, BestExists
<1>3. PICK q : Free(h, i, q)
  BY DEF HeapInv
<1>4. NULL \notin AllBlocks
  BY BlocksOf
<1>5. h \in Heaps
  BY DEF HeapInv
<1>6. a = h.first[i]
  BY <1>1 DEF allocated
<1>7. /\ q # <<>> /\ a \in ToSet(q) /\ a \in AllBlocks
      /\ Lists(NextOf(h)[a], NextOf(h), Tail(q))
      /\ Tail(q) \in Seq(AllBlocks) /\ IsInjective(Tail(q))
      /\ ToSet(Tail(q)) = ToSet(q) \ {a}
  BY <1>1, <1>3, <1>4, <1>6, FirstTaken DEF Free
<1>8. a \in Blocks(i) /\ a \notin DOMAIN h.given
  BY <1>3, <1>7 DEF Free
<1>9. /\ g.header = [h.header EXCEPT ![a].next = NULL]
      /\ g.first = [h.first EXCEPT ![i] = h.header[a].next]
      /\ g.given = [c \in DOMAIN h.given \cup {a} |-> IF c = a THEN size ELSE h.given[c]]
      /\ g = [header |-> g.header, first |-> g.first, given |-> g.given]
  BY <1>1, <1>5, <1>6 DEF picoxmem_alloc, Heaps
<1>10. /\ h.header \in [AllBlocks -> [next : Ref, size : Nat]] /\ h.first \in [Index -> Ref]
       /\ h.given \in Given
  BY <1>5 DEF Heaps
<1>11. g.header \in [AllBlocks -> [next : Ref, size : Nat]] /\ g.first \in [Index -> Ref]
  BY <1>7, <1>9, <1>10 DEF Ref
<1>12. g.given \in Given
  <2>1. PICK D \in SUBSET AllBlocks : h.given \in [D -> Int]
    BY <1>10 DEF Given
  <2>2. g.given \in [D \cup {a} -> Int] /\ D \cup {a} \in SUBSET AllBlocks
    BY <1>7, <1>9, <2>1
  <2> QED BY <2>2 DEF Given
<1>13. /\ DOMAIN g.given = DOMAIN h.given \cup {a}
       /\ g.given[a] = size /\ \A c \in DOMAIN h.given : g.given[c] = h.given[c]
  BY <1>8, <1>9
<1>14. /\ g \in Heaps
       /\ \A j \in Index : \A c \in Blocks(j) : g.header[c].size = Pools[j].size
       /\ \A c \in DOMAIN g.given : \E j \in Index : Best(g.given[c], j) /\ c \in Blocks(j)
  <2>1. g \in Heaps
    BY <1>9, <1>11, <1>12 DEF Heaps
  <2>2. ASSUME NEW j \in Index, NEW c \in Blocks(j) PROVE g.header[c].size = Pools[j].size
    BY <1>9, <1>10, BlocksOf DEF HeapInv
  <2>3. ASSUME NEW c \in DOMAIN g.given PROVE \E j \in Index : Best(g.given[c], j) /\ c \in Blocks(j)
    BY <1>2, <1>8, <1>13 DEF HeapInv
  <2> QED BY <2>1, <2>2, <2>3
<1>15. \A c \in AllBlocks : c # a => NextOf(g)[c] = NextOf(h)[c]
  BY <1>9, <1>10 DEF NextOf
<1>16. \A j \in Index : \E r : Free(g, j, r)
  <2>1. Free(g, i, Tail(q))
    <3>1. \A c \in ToSet(Tail(q)) : NextOf(g)[c] = NextOf(h)[c]
      BY <1>3, <1>7, <1>15, BlocksOf DEF Free
    <3>2. g.first[i] = NextOf(h)[a]
      BY <1>7, <1>9, <1>10 DEF NextOf
    <3>3. Lists(g.first[i], NextOf(g), Tail(q))
      BY <1>7, <3>1, <3>2, OtherLinks
    <3>4. ToSet(Tail(q)) = Blocks(i) \ DOMAIN g.given
      BY <1>3, <1>7, <1>13 DEF Free
    <3> QED BY <1>7, <3>3, <3>4 DEF Free
  <2>2. ASSUME NEW j \in Index, j # i PROVE \E r : Free(g, j, r)
    <3>1. PICK r : Free(h, j, r)
      BY DEF HeapInv
    <3>2. a \notin Blocks(j)
      BY <1>8, <2>2, BlocksApart
    <3>3. \A c \in ToSet(r) : NextOf(g)[c] = NextOf(h)[c]
      BY <1>15, <3>1, <3>2, BlocksOf DEF Free
    <3>4. g.first[j] = h.first[j]
      BY <1>9, <1>10, <2>2
    <3>5. Lists(g.first[j], NextOf(g), r)
      BY <3>1, <3>3, <3>4, OtherLinks DEF Free
    <3>6. ToSet(r) = Blocks(j) \ DOMAIN g.given
      BY <1>13, <3>1, <3>2 DEF Free
    <3> QED BY <3>1, <3>5, <3>6 DEF Free
  <2> QED BY <2>1, <2>2
<1> QED BY <1>2, <1>7, <1>8, <1>13, <1>14, <1>16 DEF HeapInv

(* A block that is out goes to the front of its own pool's list.           *)
LEMMA TakesBack ==
    ASSUME NEW h, HeapInv(h), NEW a \in DOMAIN h.given, NEW g, g = picoxmem_free(h, a)
    PROVE  /\ HeapInv(g)
           /\ DOMAIN g.given = DOMAIN h.given \ {a}
           /\ \A c \in DOMAIN g.given : g.given[c] = h.given[c]
<1>1. h \in Heaps
  BY DEF HeapInv
<1>2. PICK D \in SUBSET AllBlocks : h.given \in [D -> Int]
  BY <1>1 DEF Heaps, Given
<1>3. a \in AllBlocks /\ DOMAIN h.given = D
  BY <1>2
<1>4. PICK i \in Index : a \in Blocks(i)
  BY <1>3, BlocksOf
<1>5. h.header[a].size = Pools[i].size
  BY <1>4 DEF HeapInv
<1>6. (CHOOSE j \in Index : h.header[a].size = Pools[j].size) = i
  <2>1. ASSUME NEW j \in Index, Pools[j].size = Pools[i].size PROVE j = i
    BY <2>1, TableFacts
  <2> QED BY <1>5, <2>1
<1>7. /\ h.header \in [AllBlocks -> [next : Ref, size : Nat]] /\ h.first \in [Index -> Ref]
  BY <1>1 DEF Heaps
<1>8. /\ g.header = [h.header EXCEPT ![a].next = h.first[i]]
      /\ g.first = [h.first EXCEPT ![i] = a]
      /\ g.given = [c \in D \ {a} |-> h.given[c]]
      /\ g = [header |-> g.header, first |-> g.first, given |-> g.given]
  BY <1>1, <1>3, <1>6 DEF picoxmem_free, Heaps, Restrict
<1>9. /\ DOMAIN g.given = D \ {a} /\ \A c \in D \ {a} : g.given[c] = h.given[c]
  BY <1>8
<1>10. g \in Heaps
  <2>1. g.header \in [AllBlocks -> [next : Ref, size : Nat]]
    BY <1>3, <1>7, <1>8
  <2>2. g.first \in [Index -> Ref]
    BY <1>3, <1>7, <1>8 DEF Ref
  <2>3. g.given \in [D \ {a} -> Int] /\ D \ {a} \in SUBSET AllBlocks
    BY <1>2, <1>8
  <2>4. g.given \in Given
    BY <2>3 DEF Given
  <2> QED BY <1>8, <2>1, <2>2, <2>4 DEF Heaps
<1>11. \A j \in Index : \A c \in Blocks(j) : g.header[c].size = Pools[j].size
  <2> SUFFICES ASSUME NEW j \in Index, NEW c \in Blocks(j) PROVE g.header[c].size = Pools[j].size
    OBVIOUS
  <2> QED BY <1>7, <1>8, BlocksOf DEF HeapInv
<1>12. \A c \in DOMAIN g.given : \E j \in Index : Best(g.given[c], j) /\ c \in Blocks(j)
  BY <1>3, <1>9 DEF HeapInv
<1>13. /\ \A c \in AllBlocks : c # a => NextOf(g)[c] = NextOf(h)[c]
       /\ NextOf(g)[a] = h.first[i]
  BY <1>3, <1>7, <1>8 DEF NextOf
<1>14. \A j \in Index : \E r : Free(g, j, r)
  <2>1. \E r : Free(g, i, r)
    <3>1. PICK q : Free(h, i, q)
      BY DEF HeapInv
    <3>2. a \notin ToSet(q)
      BY <3>1 DEF Free
    <3>3. \A c \in ToSet(q) : NextOf(g)[c] = NextOf(h)[c]
      BY <1>4, <1>13, <3>1, <3>2, BlocksOf DEF Free
    <3> DEFINE r == <<a>> \o q
    <3>4. /\ r \in Seq(AllBlocks) /\ IsInjective(r) /\ Lists(a, NextOf(g), r)
          /\ ToSet(r) = ToSet(q) \cup {a}
      BY <1>3, <1>13, <3>1, <3>2, <3>3, PutFirst DEF Free
    <3>5. g.first[i] = a
      BY <1>7, <1>8
    <3>6. ToSet(r) = Blocks(i) \ DOMAIN g.given
      BY <1>3, <1>4, <1>9, <3>1, <3>4 DEF Free
    <3> HIDE DEF r
    <3> QED BY <3>4, <3>5, <3>6 DEF Free
  <2>2. ASSUME NEW j \in Index, j # i PROVE \E r : Free(g, j, r)
    <3>1. PICK r : Free(h, j, r)
      BY DEF HeapInv
    <3>2. a \notin Blocks(j)
      BY <1>4, <2>2, BlocksApart
    <3>3. \A c \in ToSet(r) : NextOf(g)[c] = NextOf(h)[c]
      BY <1>13, <3>1, <3>2, BlocksOf DEF Free
    <3>4. g.first[j] = h.first[j]
      BY <1>7, <1>8, <2>2
    <3>5. Lists(g.first[j], NextOf(g), r)
      BY <3>1, <3>3, <3>4, OtherLinks DEF Free
    <3>6. ToSet(r) = Blocks(j) \ DOMAIN g.given
      BY <1>3, <1>9, <3>1, <3>2 DEF Free
    <3> QED BY <3>1, <3>5, <3>6 DEF Free
  <2> QED BY <2>1, <2>2
<1> QED BY <1>3, <1>9, <1>10, <1>11, <1>12, <1>14 DEF HeapInv

(* The lists that picoxmem_init_pool makes.                                *)
LEMMA StartsFree == HeapInv(picoxmem_init)
<1> DEFINE h == picoxmem_init
           last(i) == block(i, Pools[i].num)
<1>1. ASSUME NEW i \in Index, NEW a \in Blocks(i)
      PROVE  (CHOOSE j \in Index : a \in Blocks(j)) = i
  <2>1. \A j \in Index : a \in Blocks(j) => j = i
    BY BlocksApart
  <2> QED BY <2>1
<1>2. /\ \A i \in Index : h.first[i] = block(i, 1)
      /\ h.given = <<>> /\ DOMAIN h.given = {}
      /\ h = [header |-> h.header, first |-> [i \in Index |-> block(i, 1)], given |-> <<>>]
  BY DEF picoxmem_init
<1>3. ASSUME NEW i \in Index, NEW a \in Blocks(i)
      PROVE  /\ h.header[a].next = IF a = last(i) THEN NULL ELSE a + Pools[i].size
             /\ h.header[a].size = Pools[i].size
             /\ h.header[a] = [next |-> h.header[a].next, size |-> h.header[a].size]
  <2>1. a \in AllBlocks
    BY BlocksOf
  <2>2. h.header[a] = [next |-> IF a = last(i) THEN NULL ELSE a + Pools[i].size,
                       size |-> Pools[i].size]
    BY <1>1, <2>1 DEF picoxmem_init
  <2> HIDE DEF h, last
  <2> QED BY <2>2
<1>4. DOMAIN h.header = AllBlocks /\ h.header = [a \in AllBlocks |-> h.header[a]]
  BY DEF picoxmem_init
<1> HIDE DEF h, last
<1>5. ASSUME NEW i \in Index
      PROVE  /\ Pools[i].num \in Nat /\ 1 \in 1 .. Pools[i].num
             /\ Pools[i].num \in 1 .. Pools[i].num
             /\ \A k \in 1 .. Pools[i].num : block(i, k) \in Blocks(i)
             /\ \A k, l \in 1 .. Pools[i].num : block(i, k) = block(i, l) => k = l
  <2>1. Pools[i].num \in Nat /\ Pools[i].num > 0 /\ Pools[i].size \in Nat /\ Pools[i].size > 0
    BY TableFacts DEF HEADER
  <2>2. ASSUME NEW k \in 1 .. Pools[i].num, NEW l \in 1 .. Pools[i].num, k < l
        PROVE  block(i, k) # block(i, l)
    <3>1. block(i, k) + Pools[i].size <= block(i, l) /\ block(i, k) \in Nat
      BY <2>2, BlocksOfPool
    <3> QED BY <2>1, <3>1
  <2>3. \A k, l \in 1 .. Pools[i].num : k < l \/ l < k \/ k = l
    BY <2>1
  <2> QED BY <2>1, <2>2, <2>3 DEF Blocks
<1>6. ASSUME NEW i \in Index
      PROVE  \E q : Free(h, i, q)
  <2> DEFINE q == [k \in 1 .. Pools[i].num |-> block(i, k)]
  <2>1. PICK n \in Nat : n = Pools[i].num /\ n # 0
    BY <1>5
  <2>2. q \in [1 .. n -> Blocks(i)] /\ DOMAIN q = 1 .. n /\ \A k \in 1 .. n : q[k] = block(i, k)
    BY <1>5, <2>1
  <2>3. q \in Seq(Blocks(i)) /\ Len(q) = n
    <3> HIDE DEF q
    <3> QED BY <2>2
  <2>4. IsInjective(q)
    BY <1>5, <2>1, <2>2 DEF IsInjective
  <2>5. ToSet(q) = Blocks(i)
    BY <2>1, <2>2 DEF ToSet, Blocks
  <2> HIDE DEF q
  <2>6. ASSUME NEW k \in 1 .. n
        PROVE  NextOf(h)[q[k]] = IF k = n THEN NULL ELSE q[k + 1]
    <3>1. q[k] \in Blocks(i) /\ q[k] = block(i, k) /\ q[k] \in AllBlocks
      BY <2>2, BlocksOf
    <3>2. NextOf(h)[q[k]] = IF q[k] = last(i) THEN NULL ELSE q[k] + Pools[i].size
      BY <1>3, <3>1 DEF NextOf
    <3>3. q[k] = last(i) <=> k = n
      BY <1>5, <2>1, <3>1 DEF last
    <3>4. k # n => k + 1 \in 1 .. n /\ q[k] + Pools[i].size = block(i, k + 1)
      BY <2>1, <3>1, BlocksOfPool
    <3> QED BY <2>2, <3>2, <3>3, <3>4
  <2>7. h.first[i] = q[1] /\ q # <<>>
    BY <1>2, <1>5, <2>1, <2>2, <2>3
  <2>8. Lists(h.first[i], NextOf(h), q)
    BY <2>3, <2>6, <2>7 DEF Lists
  <2>9. q \in Seq(AllBlocks)
    <3>1. q \in [1 .. n -> AllBlocks]
      BY <2>2, BlocksOf
    <3> QED BY <3>1
  <2> QED BY <1>2, <2>4, <2>5, <2>8, <2>9 DEF Free
<1>7. h \in Heaps
  <2>1. ASSUME NEW a \in AllBlocks PROVE h.header[a] \in [next : Ref, size : Nat]
    <3>1. PICK i \in Index : a \in Blocks(i)
      BY BlocksOf
    <3>2. PICK k \in 1 .. Pools[i].num : a = block(i, k)
      BY <3>1 DEF Blocks
    <3>3. a # last(i) => a + Pools[i].size = block(i, k + 1) /\ k + 1 \in 1 .. Pools[i].num
      BY <3>2, BlocksOfPool DEF last
    <3>4. a # last(i) => a + Pools[i].size \in AllBlocks
      BY <1>5, <3>3, BlocksOf
    <3>5. Pools[i].size \in Nat
      BY TableFacts
    <3>6. h.header[a].next \in Ref /\ h.header[a].size \in Nat
      BY <1>3, <3>1, <3>4, <3>5 DEF Ref
    <3>7. PICK r : r = h.header[a]
      OBVIOUS
    <3>8. r = [next |-> r.next, size |-> r.size]
      BY <1>3, <3>1, <3>7
    <3> QED BY <3>6, <3>7, <3>8
  <2>2. h.header \in [AllBlocks -> [next : Ref, size : Nat]]
    BY <1>4, <2>1
  <2>3. [i \in Index |-> block(i, 1)] \in [Index -> Ref]
    BY <1>5, BlocksOf DEF Ref
  <2>4. <<>> \in Given
    <3>1. <<>> \in [{} -> Int]
      OBVIOUS
    <3> QED BY <3>1 DEF Given
  <2> QED BY <1>2, <2>2, <2>3, <2>4 DEF Heaps
<1>8. \A i \in Index : \A a \in Blocks(i) : h.header[a].size = Pools[i].size
  BY <1>3
<1> QED BY <1>2, <1>6, <1>7, <1>8 DEF HeapInv, h

(* What the invariant of the pools says of FreeOrGiven and Apart.          *)
LEMMA InvImpliesFreeOrGiven == HeapInv(heap) => FreeOrGiven
<1> SUFFICES ASSUME HeapInv(heap), NEW i \in Index
             PROVE  IsInjective(FreeList(i)) /\ ToSet(FreeList(i)) = Blocks(i) \ DOMAIN heap.given
  BY DEF FreeOrGiven
<1>1. PICK q : Free(heap, i, q)
  BY DEF HeapInv
<1>2. q \in Seq(Blocks(i))
  <2>1. PICK n \in Nat : n = Len(q)
    BY <1>1 DEF Free
  <2>2. \A k \in 1 .. n : q[k] \in Blocks(i)
    BY <1>1, <2>1 DEF Free, ToSet
  <2>3. q = [k \in 1 .. n |-> q[k]]
    BY <1>1, <2>1 DEF Free
  <2> QED BY <2>2, <2>3
<1>3. Len(q) <= Pools[i].num /\ Pools[i].num \in Nat
  BY <1>1, <1>2, FinitelyMany, LengthOfInjective, TableFacts DEF Free
<1>4. Chain(heap.first[i], NextOf(heap), Pools[i].num) = q
  BY <1>1, <1>3, BlocksOf, ChainOfList DEF Free
<1>5. FreeList(i) = q
  BY <1>4 DEF FreeList, NextOf
<1> QED BY <1>1, <1>5 DEF Free

LEMMA InvImpliesApart == HeapInv(heap) => Apart
<1> SUFFICES ASSUME HeapInv(heap), NEW a \in DOMAIN heap.given
             PROVE  /\ heap.given[a] <= heap.header[a].size - HEADER
                    /\ \A c \in DOMAIN heap.given : a < c => a + HEADER + heap.given[a] <= c
  BY DEF Apart
<1>1. PICK i \in Index : fits(heap.given[a], i) /\ a \in Blocks(i)
  BY DEF HeapInv, Best
<1>2. Pools[i].size \in Nat /\ heap.header[a].size = Pools[i].size /\ a \in Nat
  BY <1>1, TableFacts, BlocksOf DEF HeapInv
<1>3. heap.given[a] \in Int
  <2>1. heap.given \in Given
    BY DEF HeapInv, Heaps
  <2> QED BY <2>1 DEF Given
<1>4. heap.given[a] <= Pools[i].size - HEADER
  BY <1>1 DEF fits
<1>5. ASSUME NEW c \in DOMAIN heap.given, a < c PROVE a + HEADER + heap.given[a] <= c
  <2>1. PICK j \in Index : c \in Blocks(j)
    BY DEF HeapInv
  <2>2. a + Pools[i].size <= c /\ c \in Nat
    BY <1>1, <1>5, <2>1, BlocksApart
  <2> QED BY <1>2, <1>3, <1>4, <2>2 DEF HEADER
<1> QED BY <1>2, <1>4, <1>5

-----------------------------------------------------------------------------
(***************************************************************************)
(* The invariant of the message boxes, for a record k of heap, buffers,    *)
(* boxes and results, a set out of blocks that threads have, and Q, each   *)
(* box's queue of blocks.                                                  *)
(***************************************************************************)
Buffers == [AllBlocks -> [next : Ref, sender : Threads \cup {NULL}, p : Contents \cup {NULL}]]

MsgBoxes == [Boxes -> [receiver : Threads \cup {NULL}, head : Ref, tail : Ref]]

Results == [Threads -> [sender : Threads \cup {NULL}, p : Contents \cup {NULL}]]

After(buf) == [a \in AllBlocks |-> buf[a].next]

(* The queue q is what the box's head, its tail and the buffers' links say. *)
Reads(k, b, q) ==
    /\ q \in Seq(AllBlocks) /\ IsInjective(q)
    /\ Lists(k.box[b].head, After(k.buffer), q)
    /\ k.box[b].tail = IF q = <<>> THEN NULL ELSE q[Len(q)]

Queues(k, Q) ==
    /\ Q \in [Boxes -> Seq(AllBlocks)]
    /\ \A b \in Boxes : Reads(k, b, Q[b])
    /\ \A b, c \in Boxes : b # c => ToSet(Q[b]) \cap ToSet(Q[c]) = {}

Owned(given, out, Q) ==
    /\ \A a \in DOMAIN given : a \in out \/ \E b \in Boxes : a \in ToSet(Q[b])
    /\ \A a \in out : a \in DOMAIN given
    /\ \A b \in Boxes : \A a \in ToSet(Q[b]) : a \in DOMAIN given /\ a \notin out /\ given[a] = MSGBUF
    /\ \A a \in DOMAIN given : given[a] \in Requests \cup {MSGBUF}

Kept(k) ==
    /\ k = [heap |-> k.heap, buffer |-> k.buffer, box |-> k.box, result |-> k.result]
    /\ HeapInv(k.heap) /\ k.buffer \in Buffers /\ k.box \in MsgBoxes /\ k.result \in Results

Linked(k, out, Q) == Kept(k) /\ Queues(k, Q) /\ Owned(k.heap.given, out, Q)

Behind(Q, b, a) == [Q EXCEPT ![b] = Append(Q[b], a)]

Served(Q, b) == [Q EXCEPT ![b] = Tail(Q[b])]

Message(k, a) == [sender |-> k.buffer[a].sender, p |-> k.buffer[a].p]

(* What a thread got last, after the message in block a.                   *)
Told(k, b, a) == [k.result EXCEPT ![k.box[b].receiver] = Message(k, a)]

LEMMA QueuesUnlinked ==
    ASSUME NEW k, NEW Q, Queues(k, Q), NEW b \in Boxes
    PROVE  /\ Q[b] \in Seq(AllBlocks) /\ IsInjective(Q[b])
           /\ Lists(k.box[b].head, After(k.buffer), Q[b])
           /\ k.box[b].tail = IF Q[b] = <<>> THEN NULL ELSE Q[b][Len(Q[b])]
           /\ (Q[b] = <<>> <=> k.box[b].head = NULL) /\ (Q[b] = <<>> <=> k.box[b].tail = NULL)
           /\ Q[b] # <<>> => Len(Q[b]) \in 1 .. Len(Q[b]) /\ k.box[b].tail \in ToSet(Q[b])
           /\ ToSet(Q[b]) \subseteq AllBlocks
<1>1. PICK q : q = Q[b] /\ Reads(k, b, q)
  BY DEF Queues
<1>2. PICK n \in Nat : n = Len(q)
  BY <1>1 DEF Reads
<1>3. \A i \in 1 .. n : q[i] \in AllBlocks /\ q[i] \in ToSet(q) /\ q[i] # NULL
  BY <1>1, <1>2, BlocksOf DEF Reads, ToSet
<1>4. q # <<>> => 1 \in 1 .. n /\ n \in 1 .. n
  BY <1>1, <1>2 DEF Reads
<1>5. ToSet(q) \subseteq AllBlocks
  BY <1>1, <1>2, <1>3 DEF ToSet, Reads
<1> QED BY <1>1, <1>2, <1>3, <1>4, <1>5 DEF Reads, Lists

(* sendmsg puts one message behind the others of its box.                  *)
LEMMA Sends ==
    ASSUME NEW k, NEW out, NEW Q, Linked(k, out, Q), out \subseteq AllBlocks,
           NEW b \in Boxes, NEW t \in Threads, NEW p \in Contents, available(k.heap, MSGBUF),
           NEW a, a = allocated(k.heap, MSGBUF), NEW n, n = sendmsg(k, b, t, p)
    PROVE  /\ a \in AllBlocks /\ a \notin DOMAIN k.heap.given
           /\ Linked(n, out, Behind(Q, b, a))
           /\ n.heap = picoxmem_alloc(k.heap, MSGBUF)
           /\ n.result = k.result
           /\ \A c \in Boxes : n.box[c].receiver = k.box[c].receiver
           /\ n.buffer[a].sender = t /\ n.buffer[a].p = p
           /\ \A c \in AllBlocks \ {a} : /\ n.buffer[c].sender = k.buffer[c].sender
                                         /\ n.buffer[c].p = k.buffer[c].p
<1> DEFINE last == k.box[b].tail
           R == Behind(Q, b, a)
<1>1. HeapInv(k.heap) /\ k.buffer \in Buffers /\ k.box \in MsgBoxes /\ k.result \in Results
  BY DEF Linked, Kept
<1>2. MSGBUF \in Int
  BY DEF MSGBUF
<1>3. PICK g : g = picoxmem_alloc(k.heap, MSGBUF)
  OBVIOUS
<1>4. /\ HeapInv(g) /\ a \in AllBlocks /\ a \notin DOMAIN k.heap.given
      /\ DOMAIN g.given = DOMAIN k.heap.given \cup {a}
      /\ g.given[a] = MSGBUF /\ \A c \in DOMAIN k.heap.given : g.given[c] = k.heap.given[c]
  BY <1>1, <1>2, <1>3, Allocates
<1>5. /\ Queues(k, Q) /\ Owned(k.heap.given, out, Q)
  BY DEF Linked
<1>6. last \in Ref /\ (last # NULL => last \in AllBlocks /\ last # a)
  <2>1. /\ last = IF Q[b] = <<>> THEN NULL ELSE Q[b][Len(Q[b])]
        /\ (Q[b] = <<>> <=> last = NULL)
        /\ Q[b] # <<>> => last \in ToSet(Q[b])
        /\ ToSet(Q[b]) \subseteq AllBlocks
    BY <1>5, QueuesUnlinked
  <2>2. a \notin ToSet(Q[b])
    BY <1>4, <1>5 DEF Owned
  <2> HIDE DEF last
  <2> QED BY <2>1, <2>2 DEF Ref
<1> DEFINE fresh == [k.buffer EXCEPT ![a] = [next |-> NULL, sender |-> t, p |-> p]]
           put == [receiver |-> k.box[b].receiver,
                   head |-> IF last = NULL THEN a ELSE k.box[b].head, tail |-> a]
<1>7. k = [heap |-> k.heap, buffer |-> k.buffer, box |-> k.box, result |-> k.result]
  BY DEF Linked, Kept
<1>8. n = [heap   |-> g,
           buffer |-> IF last = NULL THEN fresh ELSE [fresh EXCEPT ![last].next = a],
           box    |-> [k.box EXCEPT ![b] = put],
           result |-> k.result]
  <2>1. n = [heap   |-> g,
             buffer |-> IF last = NULL THEN fresh ELSE [fresh EXCEPT ![last].next = a],
             box    |-> [k.box EXCEPT ![b].head = IF last = NULL THEN a ELSE @, ![b].tail = a],
             result |-> k.result]
    BY <1>3, <1>7 DEF sendmsg
  <2>2. [k.box EXCEPT ![b].head = IF last = NULL THEN a ELSE @, ![b].tail = a]
          = [k.box EXCEPT ![b] = put]
    BY <1>1 DEF MsgBoxes
  <2> QED BY <2>1, <2>2
<1>9. fresh \in Buffers
  BY <1>1, <1>4 DEF Buffers, Ref
<1>10. n.buffer \in Buffers
  BY <1>4, <1>6, <1>8, <1>9 DEF Buffers, Ref
<1>11. n.box \in MsgBoxes
  BY <1>1, <1>4, <1>6, <1>8 DEF MsgBoxes, Ref
<1>12. /\ \A c \in AllBlocks \ {a} : /\ n.buffer[c].sender = k.buffer[c].sender
                                     /\ n.buffer[c].p = k.buffer[c].p
                                     /\ c # last => n.buffer[c].next = k.buffer[c].next
       /\ n.buffer[a].sender = t /\ n.buffer[a].p = p /\ n.buffer[a].next = NULL
       /\ last # NULL => n.buffer[last].next = a
  <2>1. /\ fresh[a] = [next |-> NULL, sender |-> t, p |-> p]
        /\ \A c \in AllBlocks \ {a} : fresh[c] = k.buffer[c]
    BY <1>1, <1>4 DEF Buffers
  <2> HIDE DEF fresh, put
  <2>2. n.buffer = IF last = NULL THEN fresh ELSE [fresh EXCEPT ![last].next = a]
    BY <1>8
  <2>3. CASE last = NULL
    BY <1>4, <2>1, <2>2, <2>3
  <2>4. CASE last # NULL
    <3>1. last \in AllBlocks /\ last # a
      BY <1>6, <2>4
    <3>2. /\ n.buffer[last] = [fresh[last] EXCEPT !.next = a]
          /\ \A c \in AllBlocks \ {last} : n.buffer[c] = fresh[c]
      BY <1>9, <2>2, <2>4, <3>1 DEF Buffers
    <3>3. /\ n.buffer[last].next = a /\ n.buffer[last].sender = fresh[last].sender
          /\ n.buffer[last].p = fresh[last].p
      BY <1>9, <3>1, <3>2 DEF Buffers
    <3>4. n.buffer[a] = fresh[a]
      BY <1>4, <3>1, <3>2
    <3>5. \A c \in AllBlocks \ {a} : /\ n.buffer[c].sender = fresh[c].sender
                                     /\ n.buffer[c].p = fresh[c].p
                                     /\ c # last => n.buffer[c].next = fresh[c].next
      <4> TAKE c \in AllBlocks \ {a}
      <4>1. CASE c = last
        BY <3>3, <4>1
      <4>2. CASE c # last
        <5>1. n.buffer[c] = fresh[c]
          BY <3>2, <4>2
        <5> QED BY <5>1
      <4> QED BY <4>1, <4>2
    <3>6. n.buffer[a].sender = t /\ n.buffer[a].p = p /\ n.buffer[a].next = NULL
      BY <2>1, <3>4
    <3>7. \A c \in AllBlocks \ {a} : /\ n.buffer[c].sender = k.buffer[c].sender
                                     /\ n.buffer[c].p = k.buffer[c].p
                                     /\ c # last => n.buffer[c].next = k.buffer[c].next
      <4> TAKE c \in AllBlocks \ {a}
      <4>1. fresh[c] = k.buffer[c]
        BY <2>1
      <4> QED BY <3>5, <4>1
    <3>8. n.buffer[last].next = a
      BY <3>3
    <3> QED BY <3>6, <3>7, <3>8
  <2> QED BY <2>3, <2>4
<1>13. \A c \in Boxes : /\ n.box[c].receiver = k.box[c].receiver
                        /\ c # b => n.box[c] = k.box[c]
  BY <1>1, <1>8 DEF MsgBoxes
<1>14. n.box[b].head = (IF last = NULL THEN a ELSE k.box[b].head) /\ n.box[b].tail = a
  BY <1>1, <1>8 DEF MsgBoxes
<1>15. Kept(n)
  <2>1. PICK u, w : n = [heap |-> g, buffer |-> u, box |-> w, result |-> k.result]
    BY <1>8
  <2>2. n = [heap |-> n.heap, buffer |-> n.buffer, box |-> n.box, result |-> n.result]
        /\ n.heap = g /\ n.result = k.result
    BY <2>1
  <2> QED BY <1>1, <1>4, <1>10, <1>11, <2>2 DEF Kept
<1>16. \A c \in Boxes : a \notin ToSet(Q[c])
  BY <1>4, <1>5 DEF Owned
<1> HIDE DEF fresh
<1>17. Reads(n, b, Append(Q[b], a)) /\ ToSet(Append(Q[b], a)) = ToSet(Q[b]) \cup {a}
  <2>1. PICK q : q = Q[b]
    OBVIOUS
  <2>2. /\ q \in Seq(AllBlocks) /\ IsInjective(q) /\ Lists(k.box[b].head, After(k.buffer), q)
        /\ last = (IF q = <<>> THEN NULL ELSE q[Len(q)]) /\ (q = <<>> <=> last = NULL)
        /\ a \notin ToSet(q) /\ ToSet(q) \subseteq AllBlocks
    BY <1>5, <1>16, <2>1, QueuesUnlinked
  <2>3. After(n.buffer)[a] = NULL /\ (q # <<>> => After(n.buffer)[q[Len(q)]] = a)
    BY <1>4, <1>6, <1>12, <2>2 DEF After
  <2>4. \A i \in 1 .. Len(q) - 1 : After(n.buffer)[q[i]] = After(k.buffer)[q[i]]
    <3> TAKE i \in 1 .. Len(q) - 1
    <3>1. i \in 1 .. Len(q) /\ Len(q) \in 1 .. Len(q) /\ i # Len(q) /\ q # <<>> /\ DOMAIN q = 1 .. Len(q)
      BY <2>2
    <3>2. q[i] \in ToSet(q) /\ q[i] # q[Len(q)]
      BY <2>2, <3>1 DEF IsInjective, ToSet
    <3>3. q[i] \in AllBlocks \ {a} /\ q[i] # last
      BY <2>2, <3>1, <3>2
    <3> QED BY <1>12, <3>3 DEF After
  <2>5. n.box[b].head = IF q = <<>> THEN a ELSE k.box[b].head
    BY <1>14, <2>2
  <2>6. /\ Append(q, a) \in Seq(AllBlocks) /\ IsInjective(Append(q, a))
        /\ Lists(n.box[b].head, After(n.buffer), Append(q, a))
        /\ ToSet(Append(q, a)) = ToSet(q) \cup {a}
    <3>1. PICK S, first, newfirst, next, new :
              /\ S = AllBlocks /\ first = k.box[b].head /\ newfirst = n.box[b].head
              /\ next = After(k.buffer) /\ new = After(n.buffer)
      OBVIOUS
    <3>2. /\ q \in Seq(S) /\ IsInjective(q) /\ Lists(first, next, q)
          /\ a \notin ToSet(q) /\ a \in S /\ NULL \notin S
          /\ newfirst = IF q = <<>> THEN a ELSE first
      BY <1>4, <2>2, <2>5, <3>1, BlocksOf
    <3>3. /\ new[a] = NULL /\ (q # <<>> => new[q[Len(q)]] = a)
          /\ \A i \in 1 .. Len(q) - 1 : new[q[i]] = next[q[i]]
      BY <2>3, <2>4, <3>1
    <3>4. /\ Append(q, a) \in Seq(S) /\ IsInjective(Append(q, a))
          /\ Lists(newfirst, new, Append(q, a))
          /\ ToSet(Append(q, a)) = ToSet(q) \cup {a}
      <4>1. AddsLast(q, a, first, next, newfirst, new)
        BY <3>2, <3>3 DEF AddsLast
      <4> QED BY <3>2, <4>1, PutLast
    <3> QED BY <3>1, <3>4
  <2>7. Append(q, a) # <<>> /\ Append(q, a)[Len(Append(q, a))] = a
    <3>1. PICK S : S = AllBlocks
      OBVIOUS
    <3>2. q \in Seq(S) /\ a \in S
      BY <1>4, <2>2, <3>1
    <3>3. /\ Append(q, a) \in Seq(S) /\ Append(q, a) # <<>> /\ Len(Append(q, a)) = Len(q) + 1
          /\ Append(q, a)[Len(q) + 1] = a
      BY <3>2, AppendProperties
    <3> QED BY <3>3
  <2> QED BY <1>14, <2>1, <2>6, <2>7 DEF Reads
<1>18. ASSUME NEW c \in Boxes, c # b PROVE Reads(n, c, Q[c])
  <2>1. Reads(k, c, Q[c]) /\ ToSet(Q[c]) \subseteq AllBlocks /\ a \notin ToSet(Q[c])
    BY <1>5, <1>16, QueuesUnlinked DEF Queues
  <2>2. last \notin ToSet(Q[c])
    <3>1. last # NULL => last \in ToSet(Q[b])
      BY <1>5, QueuesUnlinked
    <3>2. ToSet(Q[b]) \cap ToSet(Q[c]) = {}
      BY <1>5, <1>18 DEF Queues
    <3> QED BY <2>1, <3>1, <3>2, BlocksOf
  <2>3. \A x \in ToSet(Q[c]) : After(n.buffer)[x] = After(k.buffer)[x]
    BY <1>12, <2>1, <2>2 DEF After
  <2>4. Lists(k.box[c].head, After(n.buffer), Q[c])
    BY <2>1, <2>3, OtherLinks DEF Reads
  <2> QED BY <1>13, <1>18, <2>1, <2>4 DEF Reads
<1>19. /\ R \in [Boxes -> Seq(AllBlocks)]
       /\ \A c \in Boxes : c # b => R[c] = Q[c]
       /\ R[b] = Append(Q[b], a)
  BY <1>5, <1>17 DEF Queues, Reads, Behind
<1> HIDE DEF R
<1>20. Queues(n, R)
  <2>1. \A c \in Boxes : Reads(n, c, R[c])
    BY <1>17, <1>18, <1>19
  <2>2. \A c \in Boxes : ToSet(R[c]) = IF c = b THEN ToSet(Q[c]) \cup {a} ELSE ToSet(Q[c])
    BY <1>17, <1>19
  <2>3. \A c, d \in Boxes : c # d => ToSet(Q[c]) \cap ToSet(Q[d]) = {}
    BY <1>5 DEF Queues
  <2>4. \A c, d \in Boxes : c # d => ToSet(R[c]) \cap ToSet(R[d]) = {}
    <3> TAKE c, d \in Boxes
    <3> HAVE c # d
    <3>1. ToSet(Q[c]) \cap ToSet(Q[d]) = {} /\ a \notin ToSet(Q[c]) /\ a \notin ToSet(Q[d])
      BY <1>16, <2>3
    <3>2. CASE c = b
      <4>1. ToSet(R[c]) = ToSet(Q[c]) \cup {a} /\ ToSet(R[d]) = ToSet(Q[d])
        BY <2>2, <3>2
      <4> QED BY <3>1, <4>1
    <3>3. CASE c # b
      <4>1. ToSet(R[c]) = ToSet(Q[c]) /\ ToSet(R[d]) \subseteq ToSet(Q[d]) \cup {a}
        BY <2>2, <3>3
      <4> QED BY <3>1, <4>1
    <3> QED BY <3>2, <3>3
  <2> QED BY <1>19, <2>1, <2>4 DEF Queues
<1>21. Owned(g.given, out, R)
  <2>1. a \notin out
    BY <1>4, <1>5 DEF Owned
  <2>2. \A c \in Boxes : ToSet(R[c]) = IF c = b THEN ToSet(Q[c]) \cup {a} ELSE ToSet(Q[c])
    BY <1>17, <1>19
  <2>3. \A x \in DOMAIN g.given : x \in out \/ \E c \in Boxes : x \in ToSet(R[c])
    BY <1>4, <1>5, <2>2 DEF Owned
  <2>4. \A c \in Boxes : \A x \in ToSet(R[c]) : x \in DOMAIN g.given /\ x \notin out /\ g.given[x] = MSGBUF
    <3> SUFFICES ASSUME NEW c \in Boxes, NEW x \in ToSet(R[c])
                 PROVE  x \in DOMAIN g.given /\ x \notin out /\ g.given[x] = MSGBUF
      OBVIOUS
    <3>1. CASE x = a
      BY <1>4, <2>1, <3>1
    <3>2. CASE x # a
      <4>1. x \in ToSet(Q[c])
        BY <2>2, <3>2
      <4>2. x \in DOMAIN k.heap.given /\ x \notin out /\ k.heap.given[x] = MSGBUF
        BY <1>5, <4>1 DEF Owned
      <4> QED BY <1>4, <4>2
    <3> QED BY <3>1, <3>2
  <2>5. /\ \A x \in out : x \in DOMAIN g.given
        /\ \A x \in DOMAIN g.given : g.given[x] \in Requests \cup {MSGBUF}
    BY <1>4, <1>5 DEF Owned
  <2> QED BY <2>3, <2>4, <2>5 DEF Owned
<1>22. Linked(n, out, R)
  BY <1>8, <1>15, <1>20, <1>21 DEF Linked
<1>23. n.heap = picoxmem_alloc(k.heap, MSGBUF) /\ n.result = k.result
  <2> HIDE DEF put
  <2> QED BY <1>3, <1>8
<1>24. Linked(n, out, Behind(Q, b, a))
  BY <1>22 DEF R
<1> QED BY <1>4, <1>12, <1>13, <1>23, <1>24

(* recvmsg hands the first message over and gives its block back.          *)
LEMMA Receives ==
    ASSUME NEW k, NEW out, NEW Q, Linked(k, out, Q), out \subseteq AllBlocks,
           NEW b \in Boxes, k.box[b].head # NULL, k.box[b].receiver \in Threads,
           NEW a, a = k.box[b].head, NEW n, n = recvmsg(k, b)
    PROVE  /\ Q[b] # <<>> /\ a = Head(Q[b]) /\ a \in DOMAIN k.heap.given
           /\ k.heap.given[a] = MSGBUF
           /\ Linked(n, out, Served(Q, b))
           /\ n.heap = picoxmem_free(k.heap, a)
           /\ n.result = Told(k, b, a)
           /\ \A c \in Boxes : n.box[c].receiver = IF c = b THEN NULL ELSE k.box[c].receiver
           /\ \A c \in AllBlocks \ {a} : n.buffer[c] = k.buffer[c]
<1> DEFINE rest == k.buffer[a].next
           R == Served(Q, b)
           put == [receiver |-> NULL, head |-> rest,
                   tail |-> IF rest = NULL THEN NULL ELSE k.box[b].tail]
           msg == [sender |-> k.buffer[a].sender, p |-> k.buffer[a].p]
<1>1. HeapInv(k.heap) /\ k.buffer \in Buffers /\ k.box \in MsgBoxes /\ k.result \in Results
  BY DEF Linked, Kept
<1>2. /\ Queues(k, Q) /\ Owned(k.heap.given, out, Q)
  BY DEF Linked
<1>3. PICK q : q = Q[b]
  OBVIOUS
<1>4. /\ q \in Seq(AllBlocks) /\ IsInjective(q) /\ Lists(a, After(k.buffer), q)
      /\ k.box[b].tail = (IF q = <<>> THEN NULL ELSE q[Len(q)])
      /\ ToSet(q) \subseteq AllBlocks /\ q # <<>>
  BY <1>2, <1>3, QueuesUnlinked
<1>5. /\ a = Head(q) /\ a \in ToSet(q) /\ a \in AllBlocks
      /\ Lists(After(k.buffer)[a], After(k.buffer), Tail(q))
      /\ Tail(q) \in Seq(AllBlocks) /\ IsInjective(Tail(q))
      /\ ToSet(Tail(q)) = ToSet(q) \ {a}
  <2>1. PICK S, next : S = AllBlocks /\ next = After(k.buffer)
    OBVIOUS
  <2>2. NULL \notin S /\ q \in Seq(S) /\ Lists(a, next, q) /\ IsInjective(q) /\ a # NULL
    BY <1>4, <2>1, BlocksOf
  <2>3. /\ a = Head(q) /\ a \in ToSet(q) /\ a \in S /\ Lists(next[a], next, Tail(q))
        /\ Tail(q) \in Seq(S) /\ IsInjective(Tail(q)) /\ ToSet(Tail(q)) = ToSet(q) \ {a}
    BY <2>2, FirstTaken
  <2> QED BY <2>1, <2>3
<1>6. a \in DOMAIN k.heap.given /\ a \notin out /\ k.heap.given[a] = MSGBUF
  BY <1>2, <1>3, <1>5 DEF Owned
<1>7. PICK g : g = picoxmem_free(k.heap, a)
  OBVIOUS
<1>8. /\ HeapInv(g) /\ DOMAIN g.given = DOMAIN k.heap.given \ {a}
      /\ \A c \in DOMAIN g.given : g.given[c] = k.heap.given[c]
  BY <1>1, <1>6, <1>7, TakesBack
<1>9. k = [heap |-> k.heap, buffer |-> k.buffer, box |-> k.box, result |-> k.result]
  BY DEF Linked, Kept
<1>10. n = [heap   |-> g,
            buffer |-> [k.buffer EXCEPT ![a] = Unused],
            box    |-> [k.box EXCEPT ![b] = put],
            result |-> [k.result EXCEPT ![k.box[b].receiver] = msg]]
  <2>1. n = [heap   |-> g,
             buffer |-> [k.buffer EXCEPT ![a] = Unused],
             box    |-> [k.box EXCEPT ![b] = [receiver |-> NULL, head |-> rest,
                             tail |-> IF rest = NULL THEN NULL ELSE @.tail]],
             result |-> [k.result EXCEPT ![k.box[b].receiver] = msg]]
    BY <1>7, <1>9 DEF recvmsg
  <2> QED BY <1>1, <2>1 DEF MsgBoxes
<1>11. rest \in Ref /\ k.buffer[a].sender \in Threads \cup {NULL} /\ k.buffer[a].p \in Contents \cup {NULL}
  BY <1>1, <1>5 DEF Buffers
<1>12. n.buffer \in Buffers
  BY <1>1, <1>5, <1>10 DEF Buffers, Unused, Ref
<1>13. n.box \in MsgBoxes
  <2>1. put \in [receiver : Threads \cup {NULL}, head : Ref, tail : Ref]
    <3>1. k.box[b].tail \in Ref
      BY <1>1 DEF MsgBoxes
    <3> QED BY <1>11, <3>1 DEF Ref
  <2> HIDE DEF put
  <2> QED BY <1>1, <1>10, <2>1 DEF MsgBoxes
<1>14. n.result \in Results
  <2>1. msg \in [sender : Threads \cup {NULL}, p : Contents \cup {NULL}]
    BY <1>11
  <2> HIDE DEF msg
  <2> QED BY <1>1, <1>10, <2>1 DEF Results
<1>15. /\ \A c \in AllBlocks \ {a} : n.buffer[c] = k.buffer[c]
       /\ \A c \in Boxes : n.box[c] = IF c = b THEN put ELSE k.box[c]
  <2> HIDE DEF put, msg
  <2>1. n.buffer = [k.buffer EXCEPT ![a] = Unused] /\ n.box = [k.box EXCEPT ![b] = put]
    BY <1>10
  <2>2. \A c \in AllBlocks \ {a} : n.buffer[c] = k.buffer[c]
    BY <1>1, <2>1 DEF Buffers
  <2>3. \A c \in Boxes : n.box[c] = IF c = b THEN put ELSE k.box[c]
    BY <1>1, <2>1 DEF MsgBoxes
  <2> QED BY <2>2, <2>3
<1>16. Kept(n)
  <2>1. PICK u, w, r : n = [heap |-> g, buffer |-> u, box |-> w, result |-> r]
    BY <1>10
  <2>2. n = [heap |-> n.heap, buffer |-> n.buffer, box |-> n.box, result |-> n.result] /\ n.heap = g
    BY <2>1
  <2> QED BY <1>8, <1>12, <1>13, <1>14, <2>2 DEF Kept
<1>17. \A c \in Boxes : c # b => a \notin ToSet(Q[c])
  BY <1>2, <1>3, <1>5 DEF Queues
<1>18. \A c \in AllBlocks \ {a} : After(n.buffer)[c] = After(k.buffer)[c]
  BY <1>15 DEF After
<1>19. Reads(n, b, Tail(q))
  <2>1. n.box[b].head = After(k.buffer)[a] /\ After(k.buffer)[a] = rest
    BY <1>5, <1>15 DEF After
  <2>2. \A c \in ToSet(Tail(q)) : After(n.buffer)[c] = After(k.buffer)[c]
    BY <1>4, <1>5, <1>18
  <2>3. Lists(n.box[b].head, After(n.buffer), Tail(q))
    BY <1>5, <2>1, <2>2, OtherLinks
  <2>4. n.box[b].tail = IF Tail(q) = <<>> THEN NULL ELSE Tail(q)[Len(Tail(q))]
    <3>1. PICK m \in Nat : Len(q) = m + 1
      <4>1. Len(q) \in Nat /\ Len(q) # 0
        BY <1>4
      <4>2. Len(q) - 1 \in Nat /\ Len(q) = (Len(q) - 1) + 1
        BY <4>1
      <4> QED BY <4>2
    <3>2. PICK r : r = Tail(q)
      OBVIOUS
    <3>3. Len(r) = m /\ \A i \in 1 .. m : r[i] = q[i + 1] /\ r[i] # NULL
      <4>1. r \in Seq(AllBlocks) /\ Len(r) = m
        BY <1>4, <1>5, <3>1, <3>2
      <4>2. \A i \in 1 .. m : r[i] \in AllBlocks
        BY <4>1
      <4>3. \A i \in 1 .. m : r[i] = q[i + 1]
        BY <1>4, <3>1, <3>2
      <4> QED BY <4>1, <4>2, <4>3, BlocksOf
    <3>4. r = <<>> <=> m = 0
      <4>1. PICK S : S = AllBlocks /\ r \in Seq(S)
        BY <1>5, <3>2
      <4> QED BY <3>3, <4>1, EmptySeq
    <3>5. rest = IF r = <<>> THEN NULL ELSE r[1]
      BY <1>5, <2>1, <3>2 DEF Lists
    <3>6. m # 0 => 1 \in 1 .. m /\ m \in 1 .. m
      OBVIOUS
    <3>7. rest = NULL <=> r = <<>>
      BY <3>3, <3>4, <3>5, <3>6
    <3>8. m # 0 => k.box[b].tail = r[m]
      BY <1>4, <3>1, <3>3, <3>6
    <3>9. n.box[b].tail = IF rest = NULL THEN NULL ELSE k.box[b].tail
      BY <1>15
    <3> QED BY <3>2, <3>3, <3>4, <3>7, <3>8, <3>9
  <2> QED BY <1>5, <2>3, <2>4 DEF Reads
<1>20. ASSUME NEW c \in Boxes, c # b PROVE Reads(n, c, Q[c])
  <2>1. Reads(k, c, Q[c]) /\ ToSet(Q[c]) \subseteq AllBlocks /\ a \notin ToSet(Q[c])
    BY <1>2, <1>17, <1>20, QueuesUnlinked DEF Queues
  <2>2. \A x \in ToSet(Q[c]) : After(n.buffer)[x] = After(k.buffer)[x]
    BY <1>18, <2>1
  <2>3. Lists(k.box[c].head, After(n.buffer), Q[c])
    BY <2>1, <2>2, OtherLinks DEF Reads
  <2> QED BY <1>15, <1>20, <2>1, <2>3 DEF Reads
<1>21. /\ R \in [Boxes -> Seq(AllBlocks)]
       /\ \A c \in Boxes : R[c] = IF c = b THEN Tail(q) ELSE Q[c]
       /\ \A c \in Boxes : ToSet(R[c]) = ToSet(Q[c]) \ {a}
  <2>1. /\ R \in [Boxes -> Seq(AllBlocks)]
        /\ \A c \in Boxes : R[c] = IF c = b THEN Tail(q) ELSE Q[c]
    BY <1>2, <1>3, <1>5 DEF Queues, Served
  <2> HIDE DEF R
  <2> QED BY <1>3, <1>5, <1>17, <2>1
<1> HIDE DEF R, put, msg, rest
<1>22. Queues(n, R)
  <2>1. \A c \in Boxes : Reads(n, c, R[c])
    BY <1>19, <1>20, <1>21
  <2>2. \A c, d \in Boxes : c # d => ToSet(Q[c]) \cap ToSet(Q[d]) = {}
    BY <1>2 DEF Queues
  <2>3. \A c, d \in Boxes : c # d => ToSet(R[c]) \cap ToSet(R[d]) = {}
    BY <1>21, <2>2
  <2> QED BY <1>21, <2>1, <2>3 DEF Queues
<1>23. Owned(g.given, out, R)
  <2>1. \A x \in DOMAIN g.given : x \in out \/ \E c \in Boxes : x \in ToSet(R[c])
    BY <1>2, <1>8, <1>21 DEF Owned
  <2>2. \A c \in Boxes : \A x \in ToSet(R[c]) : x \in DOMAIN g.given /\ x \notin out /\ g.given[x] = MSGBUF
    BY <1>2, <1>8, <1>21 DEF Owned
  <2>3. /\ \A x \in out : x \in DOMAIN g.given
        /\ \A x \in DOMAIN g.given : g.given[x] \in Requests \cup {MSGBUF}
    BY <1>2, <1>6, <1>8 DEF Owned
  <2> QED BY <2>1, <2>2, <2>3 DEF Owned
<1>24. Linked(n, out, R)
  BY <1>10, <1>16, <1>22, <1>23 DEF Linked
<1>25. \A c \in Boxes : n.box[c].receiver = IF c = b THEN NULL ELSE k.box[c].receiver
  BY <1>15 DEF put
<1> QED BY <1>3, <1>4, <1>5, <1>6, <1>7, <1>10, <1>15, <1>24, <1>25 DEF R, msg, Told, Message
-----------------------------------------------------------------------------
(* The messages in the boxes, and that a box with a receiver has none.     *)
MailOf(k, Q) == [b \in Boxes |-> [i \in DOMAIN Q[b] |-> Message(k, Q[b][i])]]

Receivers(k) == [b \in Boxes |-> k.box[b].receiver]

BoxesInv(k, out, Q) ==
    /\ Linked(k, out, Q) /\ out \subseteq AllBlocks
    /\ \A b \in Boxes : k.box[b].receiver # NULL => Q[b] = <<>>

(* Messages that stay in their buffers stay the same.                      *)
LEMMA SameMail ==
    ASSUME NEW k, NEW n, NEW Q, Q \in [Boxes -> Seq(AllBlocks)], NEW c \in Boxes,
           \A x \in ToSet(Q[c]) : Message(n, x) = Message(k, x)
    PROVE  MailOf(n, Q)[c] = MailOf(k, Q)[c]
<1>1. \A i \in DOMAIN Q[c] : Q[c][i] \in ToSet(Q[c])
  BY DEF ToSet
<1>2. \A i \in DOMAIN Q[c] : Message(n, Q[c][i]) = Message(k, Q[c][i])
  BY <1>1
<1>3. /\ MailOf(n, Q)[c] = [i \in DOMAIN Q[c] |-> Message(n, Q[c][i])]
      /\ MailOf(k, Q)[c] = [i \in DOMAIN Q[c] |-> Message(k, Q[c][i])]
  BY DEF MailOf
<1> QED BY <1>2, <1>3

LEMMA SendsToQueue ==
    ASSUME NEW k, NEW out, NEW Q, BoxesInv(k, out, Q),
           NEW b \in Boxes, NEW t \in Threads, NEW p \in Contents, available(k.heap, MSGBUF),
           k.box[b].receiver = NULL, NEW a, a = allocated(k.heap, MSGBUF),
           NEW n, n = sendmsg(k, b, t, p), NEW R, R = Behind(Q, b, a)
    PROVE  /\ BoxesInv(n, out, R) /\ n.heap = picoxmem_alloc(k.heap, MSGBUF)
           /\ MailOf(n, R) = [MailOf(k, Q) EXCEPT ![b] = Append(@, [sender |-> t, p |-> p])]
           /\ Receivers(n) = Receivers(k) /\ n.result = k.result
<1>1. /\ a \in AllBlocks /\ a \notin DOMAIN k.heap.given
      /\ Linked(n, out, R)
      /\ n.heap = picoxmem_alloc(k.heap, MSGBUF)
      /\ n.result = k.result
      /\ \A c \in Boxes : n.box[c].receiver = k.box[c].receiver
      /\ n.buffer[a].sender = t /\ n.buffer[a].p = p
      /\ \A c \in AllBlocks \ {a} : /\ n.buffer[c].sender = k.buffer[c].sender
                                    /\ n.buffer[c].p = k.buffer[c].p
  <2>1. Linked(k, out, Q) /\ out \subseteq AllBlocks
    BY DEF BoxesInv
  <2> QED BY <2>1, Sends
<1>2. /\ Queues(k, Q) /\ Owned(k.heap.given, out, Q) /\ out \subseteq AllBlocks
      /\ \A c \in Boxes : k.box[c].receiver # NULL => Q[c] = <<>>
  BY DEF BoxesInv, Linked
<1>3. Q \in [Boxes -> Seq(AllBlocks)] /\ \A c \in Boxes : R[c] = IF c = b THEN Append(Q[b], a) ELSE Q[c]
  BY <1>2 DEF Queues, Behind
<1>4. BoxesInv(n, out, R)
  BY <1>1, <1>2, <1>3 DEF BoxesInv
<1>5. \A c \in Boxes : \A x \in ToSet(Q[c]) : Message(n, x) = Message(k, x)
  <2> TAKE c \in Boxes
  <2> TAKE x \in ToSet(Q[c])
  <2>1. x \in AllBlocks \ {a}
    BY <1>1, <1>2, QueuesUnlinked DEF Owned
  <2>2. n.buffer[x].sender = k.buffer[x].sender /\ n.buffer[x].p = k.buffer[x].p
    BY <1>1, <2>1
  <2> QED BY <2>2 DEF Message
<1>6. \A c \in Boxes : MailOf(n, Q)[c] = MailOf(k, Q)[c]
  <2> TAKE c \in Boxes
  <2>1. Q \in [Boxes -> Seq(AllBlocks)]
    BY <1>3
  <2>2. \A x \in ToSet(Q[c]) : Message(n, x) = Message(k, x)
    BY <1>5
  <2> QED BY ONLY c \in Boxes, <2>1, <2>2, SameMail
<1>7. \A c \in Boxes : c # b => MailOf(n, R)[c] = MailOf(n, Q)[c]
  BY <1>3 DEF MailOf
<1>8. MailOf(n, R)[b] = Append(MailOf(n, Q)[b], [sender |-> t, p |-> p])
  <2>1. PICK q : q = Q[b]
    OBVIOUS
  <2>2. q \in Seq(AllBlocks)
    BY <1>3, <2>1
  <2>3. PICK m \in Nat : m = Len(q) /\ DOMAIN q = 1 .. m
    BY <2>2
  <2>4. PICK msg : msg = [i \in 1 .. m |-> Message(n, q[i])]
    OBVIOUS
  <2>5. MailOf(n, Q)[b] = msg
    BY <2>1, <2>3, <2>4 DEF MailOf
  <2>6. PICK r : r = Append(q, a)
    OBVIOUS
  <2>7. DOMAIN r = 1 .. m + 1 /\ r[m + 1] = a /\ \A i \in 1 .. m : r[i] = q[i]
    BY <1>1, <2>2, <2>3, <2>6
  <2>8. MailOf(n, R)[b] = [i \in 1 .. m + 1 |-> Message(n, r[i])]
    BY <1>3, <2>1, <2>6, <2>7 DEF MailOf
  <2>9. DOMAIN msg = 1 .. m /\ Len(msg) = m
    BY <2>4
  <2>10. \A i \in 1 .. m + 1 : i # m + 1 => i \in 1 .. m
    OBVIOUS
  <2>11. Append(msg, Message(n, a)) = [i \in 1 .. m + 1 |-> IF i = m + 1 THEN Message(n, a) ELSE msg[i]]
    <3>1. PICK M, m1 : M = {msg[i] : i \in 1 .. m} \cup {m1} /\ m1 = Message(n, a)
      OBVIOUS
    <3>2. msg \in [1 .. m -> M]
      BY <2>4, <2>9, <3>1
    <3>3. msg \in Seq(M) /\ m1 \in M
      BY <3>1, <3>2
    <3>4. Append(msg, m1) = [i \in 1 .. m + 1 |-> IF i = m + 1 THEN m1 ELSE msg[i]]
      <4>1. PICK new : new = Append(msg, m1)
        OBVIOUS
      <4>2. new \in Seq(M) /\ Len(new) = m + 1 /\ DOMAIN new = 1 .. m + 1
        BY <2>9, <3>3, <4>1, AppendProperties
      <4>3. new[m + 1] = m1 /\ \A i \in 1 .. m : new[i] = msg[i]
        BY <2>9, <3>3, <4>1, AppendProperties
      <4>4. new = [i \in 1 .. m + 1 |-> new[i]]
        BY <4>2
      <4>5. \A i \in 1 .. m + 1 : new[i] = IF i = m + 1 THEN m1 ELSE msg[i]
        BY <2>10, <4>3
      <4> QED BY <4>1, <4>4, <4>5
    <3> QED BY <3>1, <3>4
  <2>12. \A i \in 1 .. m + 1 : Message(n, r[i]) = IF i = m + 1 THEN Message(n, a) ELSE msg[i]
    BY <2>4, <2>7, <2>10
  <2>13. Message(n, a) = [sender |-> t, p |-> p]
    BY <1>1 DEF Message
  <2> QED BY <2>5, <2>8, <2>11, <2>12, <2>13
<1>9. MailOf(n, R) = [MailOf(k, Q) EXCEPT ![b] = Append(@, [sender |-> t, p |-> p])]
  <2>1. PICK old, new : old = MailOf(k, Q) /\ new = MailOf(n, R)
    OBVIOUS
  <2>2. /\ old = [c \in Boxes |-> old[c]] /\ new = [c \in Boxes |-> new[c]]
    BY <2>1 DEF MailOf
  <2>3. \A c \in Boxes : new[c] = IF c = b THEN Append(old[b], [sender |-> t, p |-> p]) ELSE old[c]
    BY <1>6, <1>7, <1>8, <2>1
  <2> QED BY <2>1, <2>2, <2>3
<1>10. Receivers(n) = Receivers(k)
  BY <1>1 DEF Receivers
<1> QED BY <1>1, <1>4, <1>9, <1>10

LEMMA SameMailEverywhere ==
    ASSUME NEW k, NEW n, NEW Q, Q \in [Boxes -> Seq(AllBlocks)],
           \A c \in Boxes : \A x \in ToSet(Q[c]) : Message(n, x) = Message(k, x)
    PROVE  MailOf(n, Q) = MailOf(k, Q)
<1>1. \A c \in Boxes : MailOf(n, Q)[c] = MailOf(k, Q)[c]
  BY SameMail
<1>2. /\ MailOf(n, Q) = [c \in Boxes |-> MailOf(n, Q)[c]]
      /\ MailOf(k, Q) = [c \in Boxes |-> MailOf(k, Q)[c]]
  BY DEF MailOf
<1> QED BY <1>1, <1>2

(* A message to a box with a receiver: its block is taken and given back.  *)
LEMMA SendsToReceiver ==
    ASSUME NEW k, NEW out, NEW Q, BoxesInv(k, out, Q),
           NEW b \in Boxes, NEW t \in Threads, NEW p \in Contents, available(k.heap, MSGBUF),
           k.box[b].receiver # NULL, NEW sent, sent = sendmsg(k, b, t, p),
           NEW n, n = recvmsg(sent, b)
    PROVE  /\ BoxesInv(n, out, Q) /\ n.heap.given = k.heap.given
           /\ MailOf(n, Q) = MailOf(k, Q)
           /\ Receivers(n) = [Receivers(k) EXCEPT ![b] = NULL]
           /\ n.result = [k.result EXCEPT ![k.box[b].receiver] = [sender |-> t, p |-> p]]
<1>0. PICK a : a = allocated(k.heap, MSGBUF)
  OBVIOUS
<1> DEFINE R == Behind(Q, b, a)
<1>1. /\ Linked(k, out, Q) /\ out \subseteq AllBlocks
      /\ \A c \in Boxes : k.box[c].receiver # NULL => Q[c] = <<>>
  BY DEF BoxesInv
<1>2. /\ a \in AllBlocks /\ a \notin DOMAIN k.heap.given
      /\ Linked(sent, out, R)
      /\ sent.heap = picoxmem_alloc(k.heap, MSGBUF)
      /\ sent.result = k.result
      /\ \A c \in Boxes : sent.box[c].receiver = k.box[c].receiver
      /\ sent.buffer[a].sender = t /\ sent.buffer[a].p = p
      /\ \A c \in AllBlocks \ {a} : /\ sent.buffer[c].sender = k.buffer[c].sender
                                    /\ sent.buffer[c].p = k.buffer[c].p
  BY <1>0, <1>1, Sends
<1>3. /\ Queues(k, Q) /\ Owned(k.heap.given, out, Q) /\ Queues(sent, R)
      /\ HeapInv(k.heap) /\ HeapInv(sent.heap) /\ k.box \in MsgBoxes
  BY <1>1, <1>2 DEF Linked, Kept
<1> HIDE DEF R
<1>4. /\ Q \in [Boxes -> Seq(AllBlocks)] /\ Q[b] = <<>> /\ R[b] = <<a>>
      /\ \A c \in Boxes : c # b => R[c] = Q[c]
  <2>1. /\ Q \in [Boxes -> Seq(AllBlocks)] /\ Q[b] = <<>> /\ R[b] = Append(Q[b], a)
        /\ \A c \in Boxes : c # b => R[c] = Q[c]
    <3>1. k.box[b].receiver # NULL => Q[b] = <<>>
      BY <1>1
    <3> QED BY <1>3, <3>1 DEF R, Queues, Behind
  <2>2. Append(<<>>, a) = <<a>>
    OBVIOUS
  <2> QED BY <2>1, <2>2
<1>5. sent.box[b].head = a
  <2>1. Lists(sent.box[b].head, After(sent.buffer), R[b])
    BY <1>3, QueuesUnlinked
  <2> QED BY <1>4, <2>1 DEF Lists
<1>6. a # NULL
  BY <1>2, BlocksOf
<1>7. k.box[b].receiver \in Threads /\ sent.box[b].receiver \in Threads
  BY <1>2, <1>3 DEF MsgBoxes
<1>8. /\ a \in DOMAIN sent.heap.given
      /\ Linked(n, out, Served(R, b))
      /\ n.heap = picoxmem_free(sent.heap, a)
      /\ n.result = Told(sent, b, a)
      /\ \A c \in Boxes : n.box[c].receiver = IF c = b THEN NULL ELSE sent.box[c].receiver
      /\ \A c \in AllBlocks \ {a} : n.buffer[c] = sent.buffer[c]
  <2>1. sent.box[b].head # NULL
    BY <1>5, <1>6
  <2>2. /\ Linked(sent, out, R) /\ out \subseteq AllBlocks /\ b \in Boxes
        /\ sent.box[b].receiver \in Threads /\ a = sent.box[b].head /\ n = recvmsg(sent, b)
    BY <1>1, <1>2, <1>5, <1>7
  <2> QED BY <2>1, <2>2, Receives
<1>9. Served(R, b) = Q
  <2>1. R \in [Boxes -> Seq(AllBlocks)]
    BY <1>3 DEF Queues
  <2>2. Served(R, b) \in [Boxes -> Seq(AllBlocks)] /\ \A c \in Boxes : Served(R, b)[c] = Q[c]
    BY <1>2, <1>4, <2>1 DEF Served
  <2> QED BY <1>4, <2>2
<1>10. n.heap.given = k.heap.given
  <2>1. PICK g, h : g = sent.heap /\ h = k.heap
    OBVIOUS
  <2>2. MSGBUF \in Int
    BY DEF MSGBUF
  <2>3. /\ DOMAIN g.given = DOMAIN h.given \cup {a}
        /\ g.given[a] = MSGBUF /\ \A c \in DOMAIN h.given : g.given[c] = h.given[c]
    BY <1>0, <1>2, <1>3, <2>1, <2>2, Allocates
  <2>4. PICK f : f = n.heap
    OBVIOUS
  <2>5. /\ HeapInv(f) /\ DOMAIN f.given = DOMAIN g.given \ {a}
        /\ \A c \in DOMAIN f.given : f.given[c] = g.given[c]
    BY <1>3, <1>8, <2>1, <2>4, TakesBack
  <2>6. DOMAIN f.given = DOMAIN h.given /\ \A c \in DOMAIN h.given : f.given[c] = h.given[c]
    <3>1. a \notin DOMAIN h.given
      BY <1>2, <2>1
    <3>2. DOMAIN f.given = DOMAIN h.given
      BY <2>3, <2>5, <3>1
    <3>3. ASSUME NEW c \in DOMAIN h.given PROVE f.given[c] = h.given[c]
      <4>1. f.given[c] = g.given[c]
        BY <2>5, <3>2, <3>3
      <4>2. g.given[c] = h.given[c]
        BY <2>3, <3>3
      <4> QED BY <4>1, <4>2
    <3> QED BY <3>2, <3>3
  <2>7. f.given = [c \in DOMAIN f.given |-> f.given[c]] /\ h.given = [c \in DOMAIN h.given |-> h.given[c]]
    BY <1>3, <2>1, <2>5 DEF HeapInv, Heaps, Given
  <2> QED BY <2>1, <2>4, <2>6, <2>7
<1>11. BoxesInv(n, out, Q)
  BY <1>1, <1>2, <1>8, <1>9 DEF BoxesInv
<1>12. MailOf(n, Q) = MailOf(k, Q)
  <2>1. ASSUME NEW c \in Boxes, NEW x \in ToSet(Q[c]) PROVE Message(n, x) = Message(k, x)
    <3>1. x \in AllBlocks \ {a}
      BY <1>2, <1>3, QueuesUnlinked DEF Owned
    <3> QED BY <1>2, <1>8, <3>1 DEF Message
  <2> QED BY <1>4, <2>1, SameMailEverywhere
<1>13. Receivers(n) = [Receivers(k) EXCEPT ![b] = NULL]
  <2>1. \A c \in Boxes : n.box[c].receiver = IF c = b THEN NULL ELSE k.box[c].receiver
    BY <1>2, <1>8
  <2> QED BY <2>1 DEF Receivers
<1>14. n.result = [k.result EXCEPT ![k.box[b].receiver] = [sender |-> t, p |-> p]]
  BY <1>2, <1>8 DEF Told, Message
<1> QED BY <1>10, <1>11, <1>12, <1>13, <1>14

(* A thread waits at an empty box.                                         *)
Asks(k, b, t) == [k EXCEPT !.box[b].receiver = t]

LEMMA Waits ==
    ASSUME NEW k, NEW out, NEW Q, Linked(k, out, Q), NEW b \in Boxes, NEW t \in Threads,
           NEW n, n = Asks(k, b, t)
    PROVE  /\ Linked(n, out, Q) /\ n.heap = k.heap /\ n.buffer = k.buffer /\ n.result = k.result
           /\ n.box[b].receiver = t /\ n.box[b].head = k.box[b].head
           /\ Receivers(n) = [Receivers(k) EXCEPT ![b] = t]
           /\ MailOf(n, Q) = MailOf(k, Q)
           /\ \A c \in Boxes : c # b => n.box[c].receiver = k.box[c].receiver
<1>1. k = [heap |-> k.heap, buffer |-> k.buffer, box |-> k.box, result |-> k.result]
  BY DEF Linked, Kept
<1>2. /\ HeapInv(k.heap) /\ k.buffer \in Buffers /\ k.box \in MsgBoxes /\ k.result \in Results
      /\ Queues(k, Q) /\ Owned(k.heap.given, out, Q)
  BY DEF Linked, Kept
<1>3. n = [heap |-> k.heap, buffer |-> k.buffer, box |-> [k.box EXCEPT ![b].receiver = t],
           result |-> k.result]
  BY <1>1 DEF Asks
<1>4. n.box \in MsgBoxes
  BY <1>2, <1>3 DEF MsgBoxes
<1>5. \A c \in Boxes : /\ n.box[c].head = k.box[c].head /\ n.box[c].tail = k.box[c].tail
                       /\ n.box[c].receiver = IF c = b THEN t ELSE k.box[c].receiver
  BY <1>2, <1>3 DEF MsgBoxes
<1>6. Kept(n)
  BY <1>2, <1>3, <1>4 DEF Kept
<1>7. Queues(n, Q)
  <2>1. n.buffer = k.buffer
    BY <1>3
  <2>2. \A c \in Boxes : Reads(n, c, Q[c])
    BY <1>2, <1>5, <2>1 DEF Queues, Reads
  <2> QED BY <1>2, <2>2 DEF Queues
<1>8. Receivers(n) = [Receivers(k) EXCEPT ![b] = t]
  BY <1>5 DEF Receivers
<1>9. MailOf(n, Q) = MailOf(k, Q)
  BY <1>3 DEF MailOf, Message
<1> QED BY <1>2, <1>3, <1>5, <1>6, <1>7, <1>8, <1>9 DEF Linked

(* A thread takes the first message of a box.                              *)
LEMMA TakesMessage ==
    ASSUME NEW k, NEW out, NEW Q, BoxesInv(k, out, Q), NEW b \in Boxes, NEW t \in Threads,
           k.box[b].receiver = NULL, k.box[b].head # NULL, NEW a, a = k.box[b].head,
           NEW asked, asked = Asks(k, b, t), NEW n, n = recvmsg(asked, b)
    PROVE  /\ BoxesInv(n, out, Served(Q, b)) /\ n.heap = picoxmem_free(k.heap, a)
           /\ a \in DOMAIN k.heap.given /\ k.heap.given[a] = MSGBUF
           /\ MailOf(k, Q)[b] # <<>>
           /\ n.result = [k.result EXCEPT ![t] = Head(MailOf(k, Q)[b])]
           /\ MailOf(n, Served(Q, b)) = [MailOf(k, Q) EXCEPT ![b] = Tail(@)]
           /\ Receivers(n) = Receivers(k)
<1> DEFINE R == Served(Q, b)
<1>1. /\ Linked(k, out, Q) /\ out \subseteq AllBlocks
      /\ \A c \in Boxes : k.box[c].receiver # NULL => Q[c] = <<>>
  BY DEF BoxesInv
<1>2. /\ Linked(asked, out, Q) /\ asked.heap = k.heap /\ asked.buffer = k.buffer
      /\ asked.result = k.result /\ asked.box[b].receiver = t /\ asked.box[b].head = k.box[b].head
      /\ \A c \in Boxes : c # b => asked.box[c].receiver = k.box[c].receiver
  BY <1>1, Waits
<1>3. /\ Q[b] # <<>> /\ a = Head(Q[b]) /\ a \in DOMAIN asked.heap.given
      /\ asked.heap.given[a] = MSGBUF
      /\ Linked(n, out, R)
      /\ n.heap = picoxmem_free(asked.heap, a)
      /\ n.result = Told(asked, b, a)
      /\ \A c \in Boxes : n.box[c].receiver = IF c = b THEN NULL ELSE asked.box[c].receiver
      /\ \A c \in AllBlocks \ {a} : n.buffer[c] = asked.buffer[c]
  <2>1. /\ asked.box[b].head # NULL /\ asked.box[b].receiver \in Threads /\ a = asked.box[b].head
    BY <1>2
  <2> QED BY <1>1, <1>2, <2>1, Receives
<1>4. /\ Q \in [Boxes -> Seq(AllBlocks)] /\ Queues(k, Q)
      /\ \A c \in Boxes : R[c] = IF c = b THEN Tail(Q[b]) ELSE Q[c]
      /\ R \in [Boxes -> Seq(AllBlocks)]
  <2>1. Queues(k, Q) /\ Queues(n, R)
    BY <1>1, <1>3 DEF Linked
  <2> QED BY <2>1 DEF Queues, Served
<1> HIDE DEF R
<1>5. \A c \in Boxes : n.box[c].receiver = k.box[c].receiver
  BY <1>2, <1>3
<1>6. BoxesInv(n, out, R)
  <2>1. \A c \in Boxes : n.box[c].receiver # NULL => R[c] = <<>>
    BY <1>1, <1>4, <1>5
  <2> QED BY <1>1, <1>3, <2>1 DEF BoxesInv
<1>7. PICK q : q = Q[b]
  OBVIOUS
<1>8. PICK m \in Nat : Len(q) = m + 1
  <2>1. Len(q) \in Nat /\ Len(q) # 0
    BY <1>3, <1>4, <1>7
  <2>2. Len(q) - 1 \in Nat /\ Len(q) = (Len(q) - 1) + 1
    BY <2>1
  <2> QED BY <2>2
<1>9. PICK r : r = Tail(q)
  OBVIOUS
<1>10. /\ q \in Seq(AllBlocks) /\ IsInjective(q) /\ DOMAIN q = 1 .. m + 1 /\ q[1] = a
       /\ DOMAIN r = 1 .. m /\ \A i \in 1 .. m : i + 1 \in 1 .. m + 1 /\ r[i] = q[i + 1]
       /\ 1 \in 1 .. m + 1 /\ \A i \in 1 .. m : i + 1 # 1
  <2>1. q \in Seq(AllBlocks) /\ IsInjective(q) /\ q # <<>>
    BY <1>3, <1>4, <1>7, QueuesUnlinked
  <2>2. DOMAIN q = 1 .. m + 1 /\ q[1] = a
    BY <1>3, <1>7, <1>8, <2>1
  <2>3. r \in Seq(AllBlocks) /\ Len(r) = Len(q) - 1 /\ \A i \in 1 .. Len(r) : r[i] = q[i + 1]
    <3>1. PICK S : S = AllBlocks
      OBVIOUS
    <3> QED BY <1>9, <2>1, <3>1, HeadTailProperties
  <2>4. Len(r) = m
    BY <1>8, <2>3
  <2> QED BY <2>1, <2>2, <2>3, <2>4
<1>11. \A i \in 1 .. m : r[i] \in AllBlocks \ {a}
  <2> TAKE i \in 1 .. m
  <2>1. i + 1 \in DOMAIN q /\ 1 \in DOMAIN q /\ r[i] = q[i + 1] /\ i + 1 # 1
    BY <1>10
  <2>2. q[i + 1] # q[1]
    BY <1>10, <2>1 DEF IsInjective
  <2> QED BY <1>10, <2>1, <2>2
<1>12. PICK msg : msg = MailOf(k, Q)[b]
  OBVIOUS
<1>13. msg = [i \in 1 .. m + 1 |-> Message(k, q[i])]
  BY <1>7, <1>10, <1>12 DEF MailOf
<1>14. /\ msg # <<>> /\ Head(msg) = Message(k, a)
       /\ Tail(msg) = [i \in 1 .. m |-> msg[i + 1]]
  <2>1. PICK M : M = {msg[i] : i \in 1 .. m + 1}
    OBVIOUS
  <2>2. msg \in [1 .. m + 1 -> M]
    BY <1>13, <2>1
  <2>3. msg \in Seq(M) /\ Len(msg) = m + 1 /\ msg # <<>>
    BY <2>2
  <2>4. PICK tl : tl = Tail(msg)
    OBVIOUS
  <2>5. tl \in Seq(M) /\ Len(tl) = Len(msg) - 1 /\ \A i \in 1 .. Len(tl) : tl[i] = msg[i + 1]
    BY <2>3, <2>4, HeadTailProperties
  <2>6. Len(tl) = m /\ \A i \in 1 .. m : tl[i] = msg[i + 1]
    BY <2>3, <2>5
  <2>7. tl = [i \in 1 .. m |-> tl[i]]
    BY <2>5, <2>6
  <2>8. Head(msg) = msg[1] /\ msg[1] = Message(k, a)
    BY <1>10, <1>13, <2>3
  <2> QED BY <2>3, <2>4, <2>6, <2>7, <2>8
<1>15. n.result = [k.result EXCEPT ![t] = Head(MailOf(k, Q)[b])]
  <2>1. Message(asked, a) = Message(k, a)
    BY <1>2 DEF Message
  <2> QED BY <1>2, <1>3, <1>12, <1>14, <2>1 DEF Told
<1>16. MailOf(n, R)[b] = Tail(msg)
  <2>1. R[b] = r
    BY <1>4, <1>7, <1>9
  <2>2. MailOf(n, R)[b] = [i \in 1 .. m |-> Message(n, r[i])]
    BY <1>10, <2>1 DEF MailOf
  <2>3. \A i \in 1 .. m : Message(n, r[i]) = msg[i + 1]
    <3> TAKE i \in 1 .. m
    <3>1. Message(n, r[i]) = Message(k, r[i])
      BY <1>2, <1>3, <1>11 DEF Message
    <3>2. i + 1 \in 1 .. m + 1 /\ r[i] = q[i + 1]
      BY <1>10
    <3> QED BY <1>13, <3>1, <3>2
  <2> QED BY <1>14, <2>2, <2>3
<1>17. \A c \in Boxes : c # b => MailOf(n, R)[c] = MailOf(k, Q)[c]
  <2> SUFFICES ASSUME NEW c \in Boxes, c # b PROVE MailOf(n, R)[c] = MailOf(k, Q)[c]
    OBVIOUS
  <2>1. ASSUME NEW x \in ToSet(Q[c]) PROVE Message(n, x) = Message(k, x)
    <3>1. x # a
      <4>1. a \in ToSet(Q[b])
        BY <1>7, <1>10 DEF ToSet
      <4> QED BY <1>4, <4>1 DEF Queues
    <3>2. x \in AllBlocks \ {a}
      BY <1>4, <3>1, QueuesUnlinked
    <3> QED BY <1>2, <1>3, <3>2 DEF Message
  <2>2. \A x \in ToSet(Q[c]) : Message(n, x) = Message(k, x)
    BY <2>1
  <2>3. MailOf(n, Q)[c] = MailOf(k, Q)[c]
    <3>1. \A i \in DOMAIN Q[c] : Q[c][i] \in ToSet(Q[c])
      BY DEF ToSet
    <3>2. \A i \in DOMAIN Q[c] : Message(n, Q[c][i]) = Message(k, Q[c][i])
      BY <2>2, <3>1
    <3> QED BY <3>2 DEF MailOf
  <2> QED BY <1>4, <2>3 DEF MailOf
<1>18. MailOf(n, R) = [MailOf(k, Q) EXCEPT ![b] = Tail(@)]
  <2>1. PICK old, new : old = MailOf(k, Q) /\ new = MailOf(n, R)
    OBVIOUS
  <2>2. /\ old = [c \in Boxes |-> old[c]] /\ new = [c \in Boxes |-> new[c]]
    BY <2>1 DEF MailOf
  <2>3. \A c \in Boxes : new[c] = IF c = b THEN Tail(old[b]) ELSE old[c]
    BY <1>12, <1>16, <1>17, <2>1
  <2> QED BY <2>1, <2>2, <2>3
<1>19. Receivers(n) = Receivers(k)
  BY <1>5 DEF Receivers
<1> QED BY <1>2, <1>3, <1>6, <1>12, <1>14, <1>15, <1>18, <1>19 DEF R

(* Only the pools and what threads hold change.                            *)
LEMMA Mallocs ==
    ASSUME NEW k, NEW out, NEW Q, BoxesInv(k, out, Q), NEW size \in Requests, available(k.heap, size),
           NEW a, a = allocated(k.heap, size),
           NEW n, n = [heap |-> picoxmem_alloc(k.heap, size), buffer |-> k.buffer,
                       box |-> k.box, result |-> k.result]
    PROVE  BoxesInv(n, out \cup {a}, Q)
<1>1. Linked(k, out, Q) /\ Kept(k) /\ Queues(k, Q) /\ Owned(k.heap.given, out, Q)
  BY DEF BoxesInv, Linked
<1>2. PICK g : g = picoxmem_alloc(k.heap, size)
  OBVIOUS
<1>3. size \in Int /\ HeapInv(k.heap)
  BY <1>1, PoolAssumption DEF PoolAssumption, Kept
<1>4. /\ HeapInv(g) /\ a \in AllBlocks /\ a \notin DOMAIN k.heap.given
      /\ DOMAIN g.given = DOMAIN k.heap.given \cup {a}
      /\ g.given[a] = size /\ \A c \in DOMAIN k.heap.given : g.given[c] = k.heap.given[c]
  BY <1>2, <1>3, Allocates
<1>5. Kept(n)
  BY <1>1, <1>2, <1>4 DEF Kept
<1>6. Queues(n, Q)
  BY <1>1 DEF Queues, Reads
<1>7. Owned(g.given, out \cup {a}, Q)
  BY <1>1, <1>4 DEF Owned
<1> QED BY <1>2, <1>4, <1>5, <1>6, <1>7 DEF BoxesInv, Linked

LEMMA Frees ==
    ASSUME NEW k, NEW out, NEW Q, BoxesInv(k, out, Q), NEW a \in out,
           NEW n, n = [heap |-> picoxmem_free(k.heap, a), buffer |-> k.buffer,
                       box |-> k.box, result |-> k.result]
    PROVE  BoxesInv(n, out \ {a}, Q) /\ a \in DOMAIN k.heap.given
<1>1. Linked(k, out, Q) /\ Kept(k) /\ Queues(k, Q) /\ Owned(k.heap.given, out, Q)
  BY DEF BoxesInv, Linked
<1>2. PICK g : g = picoxmem_free(k.heap, a)
  OBVIOUS
<1>3. HeapInv(k.heap) /\ a \in DOMAIN k.heap.given
  BY <1>1 DEF Kept, Owned
<1>4. /\ HeapInv(g) /\ DOMAIN g.given = DOMAIN k.heap.given \ {a}
      /\ \A c \in DOMAIN g.given : g.given[c] = k.heap.given[c]
  BY <1>2, <1>3, TakesBack
<1>5. Kept(n)
  BY <1>1, <1>2, <1>4 DEF Kept
<1>6. Queues(n, Q)
  BY <1>1 DEF Queues, Reads
<1>7. Owned(g.given, out \ {a}, Q)
  BY <1>1, <1>4 DEF Owned
<1> QED BY <1>2, <1>3, <1>5, <1>6, <1>7 DEF BoxesInv, Linked
-----------------------------------------------------------------------------
(* The invariant of the specification.                                     *)
Sound(k, out) == \E Q : BoxesInv(k, out, Q)

BInv == Sound(now, held)

LEMMA InitBInv == Init => BInv
<1> SUFFICES ASSUME Init PROVE Sound(now, held)
  BY DEF BInv
<1> DEFINE Q == [b \in Boxes |-> <<>>]
<1>1. PICK k : k = now
  OBVIOUS
<1>2. /\ k = [heap |-> k.heap, buffer |-> k.buffer, box |-> k.box, result |-> k.result]
      /\ k.heap = picoxmem_init /\ k.buffer = [a \in AllBlocks |-> Unused]
      /\ k.box = [b \in Boxes |-> [receiver |-> NULL, head |-> NULL, tail |-> NULL]]
      /\ k.result = [t \in Threads |-> Nothing] /\ held = {}
  BY <1>1 DEF now, Init
<1>3. HeapInv(k.heap)
  BY <1>2, StartsFree
<1>4. k.heap.given = <<>> /\ DOMAIN k.heap.given = {}
  BY <1>2 DEF picoxmem_init
<1>5. k.buffer \in Buffers /\ k.box \in MsgBoxes /\ k.result \in Results
  BY <1>2 DEF Buffers, MsgBoxes, Results, Unused, Nothing, Ref
<1>6. Kept(k)
  BY <1>2, <1>3, <1>5 DEF Kept
<1>7. /\ Q \in [Boxes -> Seq(AllBlocks)] /\ \A b \in Boxes : Q[b] = <<>>
      /\ IsInjective(<<>>) /\ ToSet(<<>>) = {} /\ <<>> \in Seq(AllBlocks)
      /\ \A first, next : first = NULL => Lists(first, next, <<>>)
  BY DEF IsInjective, ToSet, Lists
<1> HIDE DEF Q
<1>8. Queues(k, Q)
  <2>1. ASSUME NEW b \in Boxes PROVE Reads(k, b, Q[b])
    BY <1>2, <1>7 DEF Reads
  <2> QED BY <1>7, <2>1 DEF Queues
<1>9. Owned(k.heap.given, held, Q)
  BY <1>2, <1>4, <1>7 DEF Owned
<1> QED BY <1>1, <1>2, <1>6, <1>7, <1>8, <1>9 DEF BoxesInv, Linked, Sound

LEMMA NextBInv == BInv /\ [Next]_bvars => BInv'
<1> SUFFICES ASSUME BInv, [Next]_bvars PROVE BInv'
  OBVIOUS
<1> DEFINE next == [heap |-> heap', buffer |-> buffer', box |-> box', result |-> result']
<1>0. SUFFICES Sound(next, held')
  BY DEF BInv, now
<1>1. PICK k : k = now
  OBVIOUS
<1>2. /\ k.heap = heap /\ k.buffer = buffer /\ k.box = box /\ k.result = result
      /\ k = [heap |-> heap, buffer |-> buffer, box |-> box, result |-> result]
  BY <1>1 DEF now
<1>3. PICK Q : BoxesInv(k, held, Q)
  BY <1>1 DEF BInv, Sound
<1>4. ASSUME UNCHANGED <<heap, buffer, box, result, held>> PROVE Sound(next, held')
  BY <1>2, <1>3, <1>4 DEF Sound
<1>5. ASSUME NEW n, becomes(n), n = [heap |-> n.heap, buffer |-> n.buffer, box |-> n.box, result |-> n.result]
      PROVE  next = n /\ held' = held
  BY <1>5 DEF becomes
<1>6. ASSUME NEW t \in Threads, NEW b \in Boxes, NEW p \in Contents, thread_send(t, b, p)
      PROVE  Sound(next, held')
  <2>1. CASE goes_down(MSGBUF)
    BY <1>4, <2>1 DEF goes_down
  <2>2. CASE /\ available(heap, MSGBUF)
             /\ becomes(IF box[b].receiver # NULL THEN recvmsg(sendmsg(now, b, t, p), b)
                                                  ELSE sendmsg(now, b, t, p))
    <3>1. PICK sent : sent = sendmsg(k, b, t, p)
      OBVIOUS
    <3>2. CASE box[b].receiver # NULL
      <4>1. PICK n : n = recvmsg(sent, b)
        OBVIOUS
      <4>2. BoxesInv(n, held, Q)
        BY <1>2, <1>3, <2>2, <3>1, <3>2, <4>1, SendsToReceiver
      <4>3. becomes(n)
        BY <1>1, <2>2, <3>1, <3>2, <4>1
      <4>4. next = n /\ held' = held
        BY <1>5, <4>2, <4>3 DEF BoxesInv, Linked, Kept
      <4> QED BY <4>2, <4>4 DEF Sound
    <3>3. CASE box[b].receiver = NULL
      <4>1. PICK R, a : a = allocated(k.heap, MSGBUF) /\ R = Behind(Q, b, a)
        OBVIOUS
      <4>2. BoxesInv(sent, held, R)
        <5>1. k.box[b].receiver = NULL /\ available(k.heap, MSGBUF)
          BY <1>2, <2>2, <3>3
        <5> QED BY <1>3, <3>1, <4>1, <5>1, SendsToQueue
      <4>3. becomes(sent)
        BY <1>1, <2>2, <3>1, <3>3
      <4>4. next = sent /\ held' = held
        BY <1>5, <4>2, <4>3 DEF BoxesInv, Linked, Kept
      <4> QED BY <4>2, <4>4 DEF Sound
    <3> QED BY <3>2, <3>3
  <2> QED BY <1>6, <2>1, <2>2 DEF thread_send
<1>7. ASSUME NEW t \in Threads, NEW b \in Boxes, thread_recv(t, b)
      PROVE  Sound(next, held')
  <2>1. /\ box[b].receiver = NULL
        /\ becomes(IF box[b].head = NULL THEN Asks(now, b, t) ELSE recvmsg(Asks(now, b, t), b))
    BY <1>7 DEF thread_recv, Asks
  <2>2. PICK asked : asked = Asks(k, b, t)
    OBVIOUS
  <2>3. /\ Linked(k, held, Q) /\ held \subseteq AllBlocks
        /\ \A c \in Boxes : k.box[c].receiver # NULL => Q[c] = <<>>
    BY <1>3 DEF BoxesInv
  <2>4. CASE box[b].head = NULL
    <3>1. /\ Linked(asked, held, Q)
          /\ \A c \in Boxes : c # b => asked.box[c].receiver = k.box[c].receiver
      BY <2>2, <2>3, Waits
    <3>2. Q[b] = <<>>
      BY <1>2, <2>3, <2>4, QueuesUnlinked DEF Linked
    <3>3. BoxesInv(asked, held, Q)
      BY <2>3, <3>1, <3>2 DEF BoxesInv
    <3>4. next = asked /\ held' = held
      BY <1>1, <1>5, <2>1, <2>2, <2>4, <3>1 DEF Linked, Kept
    <3> QED BY <3>3, <3>4 DEF Sound
  <2>5. CASE box[b].head # NULL
    <3>1. PICK n, a, R : n = recvmsg(asked, b) /\ a = k.box[b].head /\ R = Served(Q, b)
      OBVIOUS
    <3>2. BoxesInv(n, held, R)
      BY <1>2, <1>3, <2>1, <2>2, <2>5, <3>1, TakesMessage
    <3>3. next = n /\ held' = held
      BY <1>1, <1>5, <2>1, <2>2, <2>5, <3>1, <3>2 DEF BoxesInv, Linked, Kept
    <3> QED BY <3>2, <3>3 DEF Sound
  <2> QED BY <2>4, <2>5
<1>8. ASSUME NEW size \in Requests, thread_malloc(size)
      PROVE  Sound(next, held')
  <2>1. CASE goes_down(size)
    BY <1>4, <2>1 DEF goes_down
  <2>2. CASE /\ available(heap, size) /\ heap' = picoxmem_alloc(heap, size)
             /\ held' = held \cup {allocated(heap, size)}
             /\ UNCHANGED <<down, buffer, box, result>>
    <3>1. BoxesInv(next, held \cup {allocated(k.heap, size)}, Q)
      BY <1>2, <1>3, <2>2, Mallocs
    <3> HIDE DEF next
    <3> QED BY <1>2, <2>2, <3>1 DEF Sound
  <2> QED BY <1>8, <2>1, <2>2 DEF thread_malloc
<1>9. ASSUME NEW a \in held, thread_free(a)
      PROVE  Sound(next, held')
  <2>1. /\ heap' = picoxmem_free(heap, a) /\ held' = held \ {a}
        /\ UNCHANGED <<down, buffer, box, result>>
    BY <1>9 DEF thread_free
  <2>2. BoxesInv(next, held \ {a}, Q)
    BY <1>2, <1>3, <2>1, Frees
  <2> HIDE DEF next
  <2> QED BY <2>1, <2>2 DEF Sound
<1>10. CASE UNCHANGED bvars
  BY <1>4, <1>10 DEF bvars
<1> HIDE DEF next
<1> QED BY <1>6, <1>7, <1>8, <1>9, <1>10 DEF Next

LEMMA SpecImpliesBInv == Spec => []BInv
<1>1. Init => BInv
  BY InitBInv
<1>2. BInv /\ [Next]_bvars => BInv'
  BY NextBInv
<1> QED BY <1>1, <1>2, PTL DEF Spec

(* The boxes read along their links.                                       *)
Met(k, b) == Chain(k.box[b].head, After(k.buffer), Cardinality(AllBlocks))

Read(k) == [b \in Boxes |-> LET q == Met(k, b) IN [i \in DOMAIN q |-> Message(k, q[i])]]

LEMMA QueuesMet ==
    ASSUME NEW k, NEW Q, Queues(k, Q)
    PROVE  /\ \A b \in Boxes : Met(k, b) = Q[b]
           /\ Read(k) = MailOf(k, Q)
<1>1. ASSUME NEW b \in Boxes PROVE Met(k, b) = Q[b]
  <2>1. PICK q : q = Q[b]
    OBVIOUS
  <2>2. q \in Seq(AllBlocks) /\ IsInjective(q) /\ Lists(k.box[b].head, After(k.buffer), q)
    BY <2>1, QueuesUnlinked
  <2>3. PICK S, first, next, bound : /\ S = AllBlocks /\ first = k.box[b].head
                                     /\ next = After(k.buffer) /\ bound = Cardinality(AllBlocks)
    OBVIOUS
  <2>4. bound \in Nat /\ Len(q) <= bound
    BY <2>2, <2>3, FinitelyMany, LengthOfInjective
  <2>5. NULL \notin S /\ q \in Seq(S) /\ Lists(first, next, q)
    BY <2>2, <2>3, BlocksOf
  <2>6. Chain(first, next, bound) = q
    BY <2>4, <2>5, ChainOfList
  <2> QED BY <2>1, <2>3, <2>6 DEF Met
<1> QED BY <1>1 DEF Read, MailOf

(* What the invariant says of the variables.                               *)
LEMMA BInvFacts ==
    ASSUME BInv
    PROVE  /\ HeapInv(heap)
           /\ \E Q : /\ BoxesInv(now, held, Q) /\ Q \in [Boxes -> Seq(AllBlocks)]
                     /\ Owned(heap.given, held, Q)
                     /\ \A b \in Boxes : Queued(b) = Q[b] /\ IsInjective(Q[b])
                     /\ \A b, c \in Boxes : b # c => ToSet(Q[b]) \cap ToSet(Q[c]) = {}
<1>1. PICK k : k = now
  OBVIOUS
<1>2. k.heap = heap /\ k.buffer = buffer /\ k.box = box /\ k.result = result
  BY <1>1 DEF now
<1>3. PICK Q : BoxesInv(k, held, Q)
  BY <1>1 DEF BInv, Sound
<1>4. /\ HeapInv(heap) /\ Queues(k, Q) /\ Owned(heap.given, held, Q)
  BY <1>2, <1>3 DEF BoxesInv, Linked, Kept
<1>5. \A b \in Boxes : Queued(b) = Q[b]
  BY <1>2, <1>4, QueuesMet DEF Queued, Met, After
<1>6. \A b \in Boxes : IsInjective(Q[b])
  BY <1>4, QueuesUnlinked
<1> QED BY <1>1, <1>3, <1>4, <1>5, <1>6 DEF Queues

(* Every block of a pool is handed out or on that pool's free list, once,  *)
(* in every state of every system of boxes, threads and pools              *)
(* (picoxmem_init_pool, picoxmem_alloc, picoxmem_free).                    *)
THEOREM FreeOrGivenAlways == Spec => []FreeOrGiven
<1>1. BInv => FreeOrGiven
  BY BInvFacts, InvImpliesFreeOrGiven
<1> QED BY <1>1, SpecImpliesBInv, PTL

(* No two users' bytes overlap, nor a user's bytes and a header, and each  *)
(* has the bytes it asked for (the sizes of pool[], picoxmem_alloc).       *)
THEOREM ApartAlways == Spec => []Apart
<1>1. BInv => Apart
  BY BInvFacts, InvImpliesApart
<1> QED BY <1>1, SpecImpliesBInv, PTL

(* Every block that is out is a thread's or waits in one box, once, and is *)
(* met from its head (sendmsg, recvmsg).                                   *)
THEOREM NoLostBufferAlways == Spec => []NoLostBuffer
<1>1. BInv => NoLostBuffer
  <2> SUFFICES ASSUME BInv PROVE NoLostBuffer
    OBVIOUS
  <2>1. PICK Q : /\ Q \in [Boxes -> Seq(AllBlocks)]
                 /\ Owned(heap.given, held, Q)
                 /\ \A b \in Boxes : Queued(b) = Q[b] /\ IsInjective(Q[b])
                 /\ \A b, c \in Boxes : b # c => ToSet(Q[b]) \cap ToSet(Q[c]) = {}
    BY BInvFacts
  <2> DEFINE linked == [b \in Boxes |-> ToSet(Queued(b))]
  <2>2. \A b \in Boxes : linked[b] = ToSet(Q[b])
    BY <2>1
  <2>3. UNION Range(linked) = UNION {ToSet(Q[b]) : b \in Boxes}
    BY <2>2 DEF Range
  <2>4. DOMAIN heap.given = held \cup UNION {ToSet(Q[b]) : b \in Boxes}
    BY <2>1 DEF Owned
  <2>5. \A b \in Boxes : linked[b] \cap held = {}
    BY <2>1, <2>2 DEF Owned
  <2>6. \A b \in Boxes : \A c \in Boxes \ {b} : linked[b] \cap linked[c] = {}
    BY <2>1, <2>2
  <2>7. \A b \in Boxes : IsInjective(Queued(b))
    BY <2>1
  <2> HIDE DEF linked
  <2>8. linked = [b \in Boxes |-> ToSet(Queued(b))]
    BY DEF linked
  <2> QED BY <2>3, <2>4, <2>5, <2>6, <2>7, <2>8 DEF NoLostBuffer
<1> QED BY <1>1, SpecImpliesBInv, PTL
-----------------------------------------------------------------------------
(* The boxes implement queues of messages.                                 *)
LEMMA MailNow ==
    ASSUME NEW k, k = now, NEW out, NEW Q, BoxesInv(k, out, Q)
    PROVE  Mailed = MailOf(k, Q) /\ Receiver = Receivers(k) /\ result = k.result
<1>1. k.buffer = buffer /\ k.box = box /\ k.result = result
  BY DEF now
<1>2. Mailed = Read(k)
  BY <1>1 DEF Mailed, Queued, Read, Met, After, Message
<1>3. Read(k) = MailOf(k, Q)
  BY QueuesMet DEF BoxesInv, Linked
<1> QED BY <1>1, <1>2, <1>3 DEF Receiver, Receivers

LEMMA MailNext ==
    ASSUME NEW n, becomes(n), NEW out, NEW Q, BoxesInv(n, out, Q)
    PROVE  Mailed' = MailOf(n, Q) /\ Receiver' = Receivers(n) /\ result' = n.result
<1>1. n.buffer = buffer' /\ n.box = box' /\ n.result = result'
  BY DEF becomes
<1>2. Mailed' = Read(n)
  BY <1>1 DEF Mailed, Queued, Read, Met, After, Message
<1>3. Read(n) = MailOf(n, Q)
  BY QueuesMet DEF BoxesInv, Linked
<1> QED BY <1>1, <1>2, <1>3 DEF Receiver, Receivers

LEMMA MailStays ==
    ASSUME UNCHANGED <<buffer, box, result>>
    PROVE  UNCHANGED <<Mailed, Receiver, result>>
BY DEF Mailed, Receiver, Queued

LEMMA MailStarts == Init => Mail!Init
<1> SUFFICES ASSUME Init PROVE Mail!Init
  OBVIOUS
<1>1. PICK k : k = now
  OBVIOUS
<1>2. PICK Q : BoxesInv(k, held, Q)
  BY <1>1, InitBInv DEF BInv, Sound
<1>3. /\ k.box = [b \in Boxes |-> [receiver |-> NULL, head |-> NULL, tail |-> NULL]]
      /\ result = [t \in Threads |-> Nothing]
  BY <1>1 DEF now, Init
<1>4. \A b \in Boxes : Q[b] = <<>>
  <2> TAKE b \in Boxes
  <2>1. Queues(k, Q) /\ k.box[b].head = NULL
    BY <1>2, <1>3 DEF BoxesInv, Linked
  <2> QED BY <2>1, QueuesUnlinked
<1>5. Mailed = [b \in Boxes |-> <<>>]
  <2>1. Mailed = MailOf(k, Q)
    BY <1>1, <1>2, MailNow
  <2>2. MailOf(k, Q) = [b \in Boxes |-> [i \in DOMAIN <<>> |-> Message(k, <<>>[i])]]
    BY <1>4 DEF MailOf
  <2>3. [i \in DOMAIN <<>> |-> Message(k, <<>>[i])] = <<>>
    OBVIOUS
  <2> QED BY <2>1, <2>2, <2>3
<1>6. Receiver = [b \in Boxes |-> NULL]
  BY <1>1, <1>3 DEF Receiver, now
<1> QED BY <1>3, <1>5, <1>6 DEF Mail!Init, Nothing

LEMMA SendIsSend ==
    ASSUME BInv, NEW t \in Threads, NEW b \in Boxes, NEW p \in Contents, thread_send(t, b, p)
    PROVE  Mail!Send(t, b, p) \/ UNCHANGED <<Mailed, Receiver, result>>
<1>1. PICK k : k = now
  OBVIOUS
<1>2. k.heap = heap /\ k.box = box /\ k.result = result
  BY <1>1 DEF now
<1>3. PICK Q : BoxesInv(k, held, Q)
  BY <1>1 DEF BInv, Sound
<1>4. Mailed = MailOf(k, Q) /\ Receiver = Receivers(k)
  BY <1>1, <1>3, MailNow
<1>5. Receiver[b] = box[b].receiver
  BY DEF Receiver
<1>6. CASE goes_down(MSGBUF)
  BY <1>6, MailStays DEF goes_down
<1>7. CASE /\ available(heap, MSGBUF)
           /\ becomes(IF box[b].receiver # NULL THEN recvmsg(sendmsg(now, b, t, p), b)
                                                ELSE sendmsg(now, b, t, p))
  <2>1. PICK sent : sent = sendmsg(k, b, t, p)
    OBVIOUS
  <2>2. CASE box[b].receiver # NULL
    <3>1. PICK n : n = recvmsg(sent, b)
      OBVIOUS
    <3>2. becomes(n)
      BY <1>1, <1>7, <2>1, <2>2, <3>1
    <3>3. /\ BoxesInv(n, held, Q) /\ MailOf(n, Q) = MailOf(k, Q)
          /\ Receivers(n) = [Receivers(k) EXCEPT ![b] = NULL]
          /\ n.result = [k.result EXCEPT ![k.box[b].receiver] = [sender |-> t, p |-> p]]
      BY <1>2, <1>3, <1>7, <2>1, <2>2, <3>1, SendsToReceiver
    <3>4. Mailed' = MailOf(n, Q) /\ Receiver' = Receivers(n) /\ result' = n.result
      BY <3>2, <3>3, MailNext
    <3>5. /\ Mailed' = Mailed /\ Receiver' = [Receiver EXCEPT ![b] = NULL]
          /\ result' = [result EXCEPT ![Receiver[b]] = [sender |-> t, p |-> p]]
      BY <1>2, <1>4, <1>5, <3>3, <3>4
    <3> QED BY <1>5, <2>2, <3>5 DEF Mail!Send
  <2>3. CASE box[b].receiver = NULL
    <3>1. PICK R, a : a = allocated(k.heap, MSGBUF) /\ R = Behind(Q, b, a)
      OBVIOUS
    <3>2. becomes(sent)
      BY <1>1, <1>7, <2>1, <2>3
    <3>3. /\ BoxesInv(sent, held, R)
          /\ MailOf(sent, R) = [MailOf(k, Q) EXCEPT ![b] = Append(@, [sender |-> t, p |-> p])]
          /\ Receivers(sent) = Receivers(k) /\ sent.result = k.result
      <4>1. k.box[b].receiver = NULL /\ available(k.heap, MSGBUF)
        BY <1>2, <1>7, <2>3
      <4> QED BY <1>3, <2>1, <3>1, <4>1, SendsToQueue
    <3>4. Mailed' = MailOf(sent, R) /\ Receiver' = Receivers(sent) /\ result' = sent.result
      BY <3>2, <3>3, MailNext
    <3>5. /\ Mailed' = [Mailed EXCEPT ![b] = Append(@, [sender |-> t, p |-> p])]
          /\ Receiver' = Receiver /\ result' = result
      BY <1>2, <1>4, <3>3, <3>4
    <3> QED BY <1>5, <2>3, <3>5 DEF Mail!Send
  <2> QED BY <2>2, <2>3
<1> QED BY <1>6, <1>7 DEF thread_send

LEMMA RecvIsRecv ==
    ASSUME BInv, NEW t \in Threads, NEW b \in Boxes, thread_recv(t, b)
    PROVE  Mail!Recv(t, b)
<1>1. PICK k : k = now
  OBVIOUS
<1>2. k.heap = heap /\ k.box = box /\ k.result = result
  BY <1>1 DEF now
<1>3. PICK Q : BoxesInv(k, held, Q)
  BY <1>1 DEF BInv, Sound
<1>4. Mailed = MailOf(k, Q) /\ Receiver = Receivers(k)
  BY <1>1, <1>3, MailNow
<1>5. /\ box[b].receiver = NULL
      /\ becomes(IF box[b].head = NULL THEN Asks(now, b, t) ELSE recvmsg(Asks(now, b, t), b))
  BY DEF thread_recv, Asks
<1>6. Receiver[b] = NULL
  BY <1>5 DEF Receiver
<1>7. PICK asked : asked = Asks(k, b, t)
  OBVIOUS
<1>8. /\ Linked(k, held, Q) /\ held \subseteq AllBlocks
      /\ \A c \in Boxes : k.box[c].receiver # NULL => Q[c] = <<>>
  BY <1>3 DEF BoxesInv
<1>9. CASE box[b].head = NULL
  <2>1. /\ Linked(asked, held, Q)
        /\ \A c \in Boxes : c # b => asked.box[c].receiver = k.box[c].receiver
        /\ Receivers(asked) = [Receivers(k) EXCEPT ![b] = t]
        /\ MailOf(asked, Q) = MailOf(k, Q) /\ asked.result = k.result
    BY <1>7, <1>8, Waits
  <2>2. Q[b] = <<>>
    BY <1>2, <1>8, <1>9, QueuesUnlinked DEF Linked
  <2>3. BoxesInv(asked, held, Q)
    BY <1>8, <2>1, <2>2 DEF BoxesInv
  <2>4. becomes(asked)
    BY <1>1, <1>5, <1>7, <1>9
  <2>5. Mailed' = MailOf(asked, Q) /\ Receiver' = Receivers(asked) /\ result' = asked.result
    BY <2>3, <2>4, MailNext
  <2>6. Mailed' = Mailed /\ Receiver' = [Receiver EXCEPT ![b] = t] /\ result' = result
    BY <1>2, <1>4, <2>1, <2>5
  <2>7. Mailed[b] = <<>>
    BY <1>4, <2>2 DEF MailOf
  <2> QED BY <1>6, <2>6, <2>7 DEF Mail!Recv
<1>10. CASE box[b].head # NULL
  <2>1. PICK n, a, R : n = recvmsg(asked, b) /\ a = k.box[b].head /\ R = Served(Q, b)
    OBVIOUS
  <2>2. /\ BoxesInv(n, held, R) /\ MailOf(k, Q)[b] # <<>>
        /\ n.result = [k.result EXCEPT ![t] = Head(MailOf(k, Q)[b])]
        /\ MailOf(n, R) = [MailOf(k, Q) EXCEPT ![b] = Tail(@)]
        /\ Receivers(n) = Receivers(k)
    <3>1. k.box[b].receiver = NULL /\ k.box[b].head # NULL /\ asked = Asks(k, b, t)
      BY <1>2, <1>5, <1>7, <1>10
    <3> QED BY <1>3, <2>1, <3>1, TakesMessage
  <2>3. becomes(n)
    BY <1>1, <1>5, <1>7, <1>10, <2>1
  <2>4. Mailed' = MailOf(n, R) /\ Receiver' = Receivers(n) /\ result' = n.result
    BY <2>2, <2>3, MailNext
  <2>5. /\ Mailed[b] # <<>> /\ Mailed' = [Mailed EXCEPT ![b] = Tail(@)]
        /\ Receiver' = Receiver /\ result' = [result EXCEPT ![t] = Head(Mailed[b])]
    BY <1>2, <1>4, <2>2, <2>4
  <2> QED BY <1>6, <2>5 DEF Mail!Recv
<1> QED BY <1>9, <1>10

LEMMA MailSteps == BInv /\ [Next]_bvars => [Mail!Next]_<<Mailed, Receiver, result>>
<1> SUFFICES ASSUME BInv, [Next]_bvars PROVE [Mail!Next]_<<Mailed, Receiver, result>>
  OBVIOUS
<1>1. ASSUME NEW t \in Threads, NEW b \in Boxes, NEW p \in Contents, thread_send(t, b, p)
      PROVE  [Mail!Next]_<<Mailed, Receiver, result>>
  BY <1>1, SendIsSend DEF Mail!Next
<1>2. ASSUME NEW t \in Threads, NEW b \in Boxes, thread_recv(t, b)
      PROVE  [Mail!Next]_<<Mailed, Receiver, result>>
  BY <1>2, RecvIsRecv DEF Mail!Next
<1>3. ASSUME UNCHANGED <<buffer, box, result>>
      PROVE  [Mail!Next]_<<Mailed, Receiver, result>>
  BY <1>3, MailStays
<1>4. ASSUME NEW size \in Requests, thread_malloc(size)
      PROVE  UNCHANGED <<buffer, box, result>>
  BY <1>4 DEF thread_malloc, goes_down
<1>5. ASSUME NEW a \in held, thread_free(a)
      PROVE  UNCHANGED <<buffer, box, result>>
  BY <1>5 DEF thread_free
<1>6. CASE UNCHANGED bvars
  BY <1>3, <1>6 DEF bvars
<1> QED BY <1>1, <1>2, <1>3, <1>4, <1>5, <1>6 DEF Next

(* Through heads, tails and next pointers each box is a queue: a message   *)
(* goes once, in order, to the one thread that waits or to the next that   *)
(* asks (sendmsg, recvmsg, thread_send, thread_recv).                      *)
THEOREM BoxesKeepMessages == Spec => KeepsMessages
<1>1. Init => Mail!Init
  BY MailStarts
<1>2. BInv /\ [Next]_bvars => [Mail!Next]_<<Mailed, Receiver, result>>
  BY MailSteps
<1> QED BY <1>1, <1>2, SpecImpliesBInv, PTL DEF Spec, KeepsMessages, Mail!Spec
-----------------------------------------------------------------------------
(* The boxes and the threads' blocks implement counters of blocks.  What   *)
(* is counted depends only on which blocks are out and for what size.      *)
LeftOf(given) == [i \in Index |-> Cardinality(Blocks(i) \ DOMAIN given)]

AskedOf(given) ==
    [size \in Sizes |-> Cardinality({a \in DOMAIN given : given[a] = size})]

LEMMA CountsNow == Left = LeftOf(heap.given) /\ AskedFor = AskedOf(heap.given)
BY DEF Left, LeftOf, AskedFor, AskedOf

LEMMA CountsNext == Left' = LeftOf(heap'.given) /\ AskedFor' = AskedOf(heap'.given)
BY DEF Left, LeftOf, AskedFor, AskedOf

LEMMA SizesType == Sizes \subseteq Int /\ MSGBUF \in Sizes /\ Requests \subseteq Sizes
BY PoolAssumption DEF PoolAssumption, Sizes, MSGBUF

OneLess(f, x) == [f EXCEPT ![x] = @ - 1]

OnePlus(f, x) == [f EXCEPT ![x] = @ + 1]

LEMMA PlusAndLess ==
    ASSUME NEW D, NEW f, NEW g, f = [d \in D |-> f[d]], g = [d \in D |-> g[d]],
           NEW x \in D, f[x] \in Int, g[x] = f[x] + 1, \A d \in D : d # x => g[d] = f[d]
    PROVE  g = OnePlus(f, x) /\ f = OneLess(g, x)
<1>1. f[x] = g[x] - 1
  OBVIOUS
<1> QED BY <1>1 DEF OnePlus, OneLess

(* One block of pool i more is out, for the given size.                    *)
LEMMA OneMore ==
    ASSUME NEW v, NEW w, DOMAIN v \subseteq AllBlocks, NEW i \in Index, NEW a \in Blocks(i),
           a \notin DOMAIN v, DOMAIN w = DOMAIN v \cup {a}, NEW size \in Sizes, w[a] = size,
           \A c \in DOMAIN v : w[c] = v[c]
    PROVE  /\ LeftOf(v)[i] > 0 /\ AskedOf(w)[size] > 0
           /\ LeftOf(w) = OneLess(LeftOf(v), i) /\ LeftOf(v) = OnePlus(LeftOf(w), i)
           /\ AskedOf(w) = OnePlus(AskedOf(v), size) /\ AskedOf(v) = OneLess(AskedOf(w), size)
<1> DEFINE rest(u, j) == Blocks(j) \ DOMAIN u
           asked(u, s) == {c \in DOMAIN u : u[c] = s}
<1>1. \A j \in Index : rest(v, j) \subseteq Blocks(j) /\ IsFiniteSet(rest(v, j))
                       /\ Cardinality(rest(v, j)) \in Nat
  <2> TAKE j \in Index
  <2>1. rest(v, j) \in SUBSET Blocks(j) /\ IsFiniteSet(Blocks(j))
    BY FinitelyMany
  <2> HIDE DEF rest
  <2>2. IsFiniteSet(rest(v, j))
    BY <2>1, FS_Subset
  <2> QED BY <2>1, <2>2, FS_CardinalityType
<1>2. \A s \in Sizes : IsFiniteSet(asked(v, s)) /\ Cardinality(asked(v, s)) \in Nat
  <2> TAKE s \in Sizes
  <2>1. asked(v, s) \in SUBSET AllBlocks /\ IsFiniteSet(AllBlocks)
    BY FinitelyMany
  <2> HIDE DEF asked
  <2>2. IsFiniteSet(asked(v, s))
    BY <2>1, FS_Subset
  <2> QED BY <2>2, FS_CardinalityType
<1>3. rest(w, i) = rest(v, i) \ {a} /\ a \in rest(v, i)
  OBVIOUS
<1>4. \A j \in Index : j # i => rest(w, j) = rest(v, j)
  <2> TAKE j \in Index
  <2>1. j # i => a \notin Blocks(j)
    BY BlocksApart
  <2> QED BY <2>1
<1>5. asked(w, size) = asked(v, size) \cup {a} /\ a \notin asked(v, size)
  OBVIOUS
<1>6. \A s \in Sizes : s # size => asked(w, s) = asked(v, s)
  OBVIOUS
<1>7. /\ \A j \in Index : LeftOf(v)[j] = Cardinality(rest(v, j)) /\ LeftOf(w)[j] = Cardinality(rest(w, j))
      /\ \A s \in Sizes : AskedOf(v)[s] = Cardinality(asked(v, s)) /\ AskedOf(w)[s] = Cardinality(asked(w, s))
  BY DEF LeftOf, AskedOf
<1> HIDE DEF rest, asked
<1>8. LeftOf(w)[i] = LeftOf(v)[i] - 1 /\ LeftOf(v)[i] \in Nat /\ LeftOf(v)[i] > 0
  <2>1. PICK S : S = rest(v, i)
    OBVIOUS
  <2>2. IsFiniteSet(S) /\ a \in S /\ Cardinality(S) \in Nat
    BY <1>1, <1>3, <2>1
  <2>3. Cardinality(S \ {a}) = Cardinality(S) - 1
    BY <2>2, FS_RemoveElement
  <2>4. Cardinality(S) # 0
    BY <2>2, FS_EmptySet
  <2>5. LeftOf(v)[i] = Cardinality(S) /\ LeftOf(w)[i] = Cardinality(S \ {a})
    BY <1>3, <1>7, <2>1
  <2>6. PICK n : n = Cardinality(S)
    OBVIOUS
  <2>7. n \in Nat /\ n # 0 => n > 0
    OBVIOUS
  <2> QED BY <2>2, <2>3, <2>4, <2>5, <2>6, <2>7
<1>9. AskedOf(w)[size] = AskedOf(v)[size] + 1 /\ AskedOf(v)[size] \in Nat
  <2>1. PICK S : S = asked(v, size)
    OBVIOUS
  <2>2. IsFiniteSet(S) /\ a \notin S /\ Cardinality(S) \in Nat
    BY <1>2, <1>5, <2>1
  <2>3. Cardinality(S \cup {a}) = Cardinality(S) + 1
    BY <2>2, FS_AddElement
  <2> QED BY <1>5, <1>7, <2>1, <2>2, <2>3
<1>10. /\ \A j \in Index : j # i => LeftOf(w)[j] = LeftOf(v)[j]
       /\ \A s \in Sizes : s # size => AskedOf(w)[s] = AskedOf(v)[s]
  BY <1>4, <1>6, <1>7
<1>11. PICK l, m, x, y : l = LeftOf(v) /\ m = LeftOf(w) /\ x = AskedOf(v) /\ y = AskedOf(w)
  OBVIOUS
<1>12. /\ l = [j \in Index |-> l[j]] /\ m = [j \in Index |-> m[j]]
       /\ x = [s \in Sizes |-> x[s]] /\ y = [s \in Sizes |-> y[s]]
  BY <1>11 DEF LeftOf, AskedOf
<1>13. m = OneLess(l, i) /\ l = OnePlus(m, i)
  BY <1>8, <1>10, <1>11, <1>12, PlusAndLess
<1>14. y = OnePlus(x, size) /\ x = OneLess(y, size)
  BY <1>9, <1>10, <1>11, <1>12, PlusAndLess
<1>15. AskedOf(w)[size] > 0
  BY <1>9
<1> QED BY <1>8, <1>11, <1>13, <1>14, <1>15

(* The pool that best chooses is the smallest that holds the size.         *)
LEMMA BestIsSmallest ==
    ASSUME NEW size \in Int
    PROVE  /\ Counters!Holding(size) = {i \in Index : fits(size, i)}
           /\ \A i : Best(size, i) => i \in Counters!Smallest(size)
<1>1. Counters!Kinds = Index
  BY DEF Counters!Kinds
<1>2. Counters!Holding(size) = {i \in Index : fits(size, i)}
  BY <1>1 DEF Counters!Holding, fits
<1>3. ASSUME NEW i, Best(size, i) PROVE i \in Counters!Smallest(size)
  <2>1. i \in Index /\ fits(size, i) /\ \A j \in Index : fits(size, j) => i <= j
    BY <1>3 DEF Best
  <2>2. ASSUME NEW j \in Counters!Holding(size)
        PROVE  Pools[i].size - HEADER <= Pools[j].size - HEADER
    <3>1. j \in Index /\ i <= j
      BY <1>2, <2>1
    <3>2. /\ i \in Nat /\ j \in Nat /\ Pools[i].size \in Nat /\ Pools[j].size \in Nat
          /\ i < j => Pools[i].size < Pools[j].size
      BY <2>1, <3>1, TableFacts
    <3> QED BY <3>1, <3>2 DEF HEADER
  <2>4. i \in Counters!Holding(size) /\ Counters!Holding(size) \subseteq Index
    BY <1>2, <2>1
  <2> QED BY <2>1, <2>2, <2>4 DEF Counters!Smallest
<1> QED BY <1>2, <1>3

LEMMA AllocCounts ==
    ASSUME HeapInv(heap), NEW size \in Sizes, available(heap, size),
           heap' = picoxmem_alloc(heap, size), UNCHANGED down
    PROVE  Counters!Alloc(size)
<1>1. PICK h, g, a : h = heap /\ g = heap' /\ a = allocated(h, size)
  OBVIOUS
<1>2. size \in Int
  BY SizesType
<1>3. /\ \E i \in Index : Best(size, i) /\ a \in Blocks(i)
      /\ a \in AllBlocks /\ a \notin DOMAIN h.given
      /\ DOMAIN g.given = DOMAIN h.given \cup {a}
      /\ g.given[a] = size /\ \A c \in DOMAIN h.given : g.given[c] = h.given[c]
  BY <1>1, <1>2, Allocates
<1>4. PICK i \in Index : Best(size, i) /\ a \in Blocks(i)
  BY <1>3
<1>5. PICK v, w : v = h.given /\ w = g.given
  OBVIOUS
<1>6. DOMAIN v \subseteq AllBlocks
  BY <1>1, <1>5 DEF HeapInv, Heaps, Given
<1>7. /\ LeftOf(v)[i] > 0
      /\ LeftOf(w) = OneLess(LeftOf(v), i) /\ AskedOf(w) = OnePlus(AskedOf(v), size)
  <2>1. /\ i \in Index /\ a \in Blocks(i) /\ size \in Sizes
        /\ a \notin DOMAIN v /\ DOMAIN w = DOMAIN v \cup {a} /\ w[a] = size
        /\ \A c \in DOMAIN v : w[c] = v[c]
    BY <1>3, <1>4, <1>5
  <2> QED BY ONLY <1>6, <2>1, OneMore
<1>8. Left = LeftOf(v) /\ AskedFor = AskedOf(v) /\ Left' = LeftOf(w) /\ AskedFor' = AskedOf(w)
  BY <1>1, <1>5, CountsNow, CountsNext
<1>9. i \in Counters!Smallest(size)
  BY <1>2, <1>4, BestIsSmallest
<1> QED BY <1>7, <1>8, <1>9 DEF Counters!Alloc, OneLess, OnePlus

LEMMA FreeCounts ==
    ASSUME HeapInv(heap), NEW a \in DOMAIN heap.given, heap' = picoxmem_free(heap, a),
           NEW size \in Sizes, heap.given[a] = size, UNCHANGED down
    PROVE  Counters!Free(size)
<1>1. PICK h, g : h = heap /\ g = heap'
  OBVIOUS
<1>2. size \in Int
  BY SizesType
<1>3. DOMAIN g.given = DOMAIN h.given \ {a} /\ \A c \in DOMAIN g.given : g.given[c] = h.given[c]
  BY <1>1, TakesBack
<1>4. PICK i \in Index : Best(size, i) /\ a \in Blocks(i)
  BY <1>1 DEF HeapInv
<1>5. PICK v, w : v = g.given /\ w = h.given
  OBVIOUS
<1>6. DOMAIN v \subseteq AllBlocks
  BY <1>1, <1>3, <1>5 DEF HeapInv, Heaps, Given
<1>7. DOMAIN w = DOMAIN v \cup {a} /\ a \notin DOMAIN v /\ w[a] = size /\ \A c \in DOMAIN v : w[c] = v[c]
  BY <1>1, <1>3, <1>5
<1>8. /\ AskedOf(w)[size] > 0
      /\ LeftOf(v) = OnePlus(LeftOf(w), i) /\ AskedOf(v) = OneLess(AskedOf(w), size)
  BY <1>4, <1>6, <1>7, OneMore
<1>9. Left = LeftOf(w) /\ AskedFor = AskedOf(w) /\ Left' = LeftOf(v) /\ AskedFor' = AskedOf(v)
  BY <1>1, <1>5, CountsNow, CountsNext
<1>10. i \in Counters!Smallest(size)
  BY <1>2, <1>4, BestIsSmallest
<1> QED BY <1>8, <1>9, <1>10 DEF Counters!Free, OneLess, OnePlus

LEMMA DownCounts ==
    ASSUME HeapInv(heap), NEW size \in Sizes, goes_down(size)
    PROVE  Counters!Alloc(size)
<1>1. /\ ~available(heap, size) /\ heap' = heap
      /\ down' = IF \E i \in Index : fits(size, i) THEN "empty pool" ELSE "no pool"
  BY DEF goes_down, sysdown
<1>0. Left' = Left /\ AskedFor' = AskedFor
  BY <1>1, CountsNow, CountsNext
<1>2. size \in Int
  BY SizesType
<1>3. CASE \A i \in Index : ~fits(size, i)
  <2>1. Counters!Holding(size) = {} /\ down' = "no pool"
    BY <1>1, <1>2, <1>3, BestIsSmallest
  <2> QED BY <1>0, <2>1 DEF Counters!Alloc, Counters!Stop
<1>4. ASSUME NEW j \in Index, fits(size, j) PROVE Counters!Alloc(size)
  <2>1. PICK i : i = best(size)
    OBVIOUS
  <2>2. Best(size, i)
    BY <1>2, <1>4, <2>1, BestExists
  <2>3. i \in Index /\ heap.first[i] = NULL
    <3>1. i \in Index /\ fits(size, i)
      BY <2>2 DEF Best
    <3> QED BY <1>1, <2>1, <3>1 DEF available
  <2>4. PICK q : Free(heap, i, q)
    BY <2>3 DEF HeapInv
  <2>5. q = <<>>
    <3>1. q \in Seq(AllBlocks) /\ Lists(NULL, NextOf(heap), q)
      BY <2>3, <2>4 DEF Free
    <3>2. q # <<>> => q[1] \in AllBlocks
      BY <3>1
    <3> QED BY <3>1, <3>2, BlocksOf DEF Lists
  <2>6. Blocks(i) \ DOMAIN heap.given = {}
    BY <2>4, <2>5 DEF Free, ToSet
  <2>7. Left[i] = 0
    BY <2>3, <2>6, FS_EmptySet DEF Left
  <2>8. i \in Counters!Smallest(size)
    BY <1>2, <2>2, BestIsSmallest
  <2>9. down' = "empty pool"
    BY <1>1, <1>4
  <2> QED BY <1>0, <2>7, <2>8, <2>9 DEF Counters!Alloc, Counters!Stop
<1> QED BY <1>3, <1>4

LEMMA CountsStart == Init => Counters!Init
<1> SUFFICES ASSUME Init PROVE Counters!Init
  OBVIOUS
<1>1. heap.given = <<>> /\ DOMAIN heap.given = {} /\ down = "no"
  BY DEF Init, picoxmem_init
<1>2. \A i \in Index : Blocks(i) \ DOMAIN heap.given = Blocks(i)
  BY <1>1
<1>3. Left = [i \in Index |-> Pools[i].num]
  BY <1>2, FinitelyMany DEF Left
<1>4. \A size \in Sizes : {a \in DOMAIN heap.given : heap.given[a] = size} = {}
  BY <1>1
<1>5. AskedFor = [size \in Sizes |-> 0]
  BY <1>4, FS_EmptySet DEF AskedFor
<1> QED BY <1>1, <1>3, <1>5 DEF Counters!Init

(* A message that a receiver waits for takes a block and gives it back.    *)
LEMMA SendCounts ==
    ASSUME BInv, NEW t \in Threads, NEW b \in Boxes, NEW p \in Contents, thread_send(t, b, p)
    PROVE  Counters!Alloc(MSGBUF) \/ UNCHANGED <<Left, AskedFor, down>>
<1>1. PICK k : k = now
  OBVIOUS
<1>2. k.heap = heap /\ k.box = box
  BY <1>1 DEF now
<1>3. PICK Q : BoxesInv(k, held, Q)
  BY <1>1 DEF BInv, Sound
<1>4. HeapInv(heap) /\ MSGBUF \in Sizes
  BY <1>2, <1>3, SizesType DEF BoxesInv, Linked, Kept
<1>5. CASE goes_down(MSGBUF)
  BY <1>4, <1>5, DownCounts
<1>6. CASE /\ available(heap, MSGBUF)
           /\ becomes(IF box[b].receiver # NULL THEN recvmsg(sendmsg(now, b, t, p), b)
                                                ELSE sendmsg(now, b, t, p))
  <2>1. PICK sent : sent = sendmsg(k, b, t, p)
    OBVIOUS
  <2>2. CASE box[b].receiver # NULL
    <3>1. PICK n : n = recvmsg(sent, b)
      OBVIOUS
    <3>2. heap' = n.heap /\ down' = down
      BY <1>1, <1>6, <2>1, <2>2, <3>1 DEF becomes
    <3>3. /\ BoxesInv(n, held, Q) /\ n.heap.given = k.heap.given
          /\ MailOf(n, Q) = MailOf(k, Q)
          /\ Receivers(n) = [Receivers(k) EXCEPT ![b] = NULL]
          /\ n.result = [k.result EXCEPT ![k.box[b].receiver] = [sender |-> t, p |-> p]]
      BY <1>2, <1>3, <1>6, <2>1, <2>2, <3>1, SendsToReceiver
    <3>4. heap'.given = heap.given
      BY <1>2, <3>2, <3>3
    <3> QED BY <3>2, <3>4, CountsNow, CountsNext
  <2>3. CASE box[b].receiver = NULL
    <3>1. PICK a : a = allocated(k.heap, MSGBUF)
      OBVIOUS
    <3>2. heap' = sent.heap /\ down' = down
      BY <1>1, <1>6, <2>1, <2>3 DEF becomes
    <3>3. available(k.heap, MSGBUF) /\ Linked(k, held, Q) /\ held \subseteq AllBlocks
      BY <1>2, <1>3, <1>6 DEF BoxesInv
    <3>4. sent.heap = picoxmem_alloc(k.heap, MSGBUF)
      BY <2>1, <3>1, <3>3, Sends
    <3> QED BY <1>2, <1>4, <1>6, <3>2, <3>4, AllocCounts
  <2> QED BY <2>2, <2>3
<1> QED BY <1>5, <1>6 DEF thread_send

LEMMA RecvCounts ==
    ASSUME BInv, NEW t \in Threads, NEW b \in Boxes, thread_recv(t, b)
    PROVE  Counters!Free(MSGBUF) \/ UNCHANGED <<Left, AskedFor, down>>
<1>1. PICK k : k = now
  OBVIOUS
<1>2. k.heap = heap /\ k.box = box
  BY <1>1 DEF now
<1>3. PICK Q : BoxesInv(k, held, Q)
  BY <1>1 DEF BInv, Sound
<1>4. HeapInv(heap) /\ MSGBUF \in Sizes /\ Linked(k, held, Q)
  BY <1>2, <1>3, SizesType DEF BoxesInv, Linked, Kept
<1>5. PICK asked : asked = Asks(k, b, t)
  OBVIOUS
<1>6. /\ box[b].receiver = NULL
      /\ becomes(IF box[b].head = NULL THEN asked ELSE recvmsg(asked, b))
  BY <1>1, <1>5 DEF thread_recv, Asks
<1>7. CASE box[b].head = NULL
  <2>1. heap' = asked.heap /\ down' = down
    BY <1>6, <1>7 DEF becomes
  <2>2. asked.heap = heap
    BY <1>2, <1>4, <1>5, Waits
  <2>3. heap'.given = heap.given
    BY <2>1, <2>2
  <2> QED BY <2>1, <2>3, CountsNow, CountsNext
<1>8. CASE box[b].head # NULL
  <2>1. PICK n, a : n = recvmsg(asked, b) /\ a = k.box[b].head
    OBVIOUS
  <2>2. heap' = n.heap /\ down' = down
    BY <1>6, <1>8, <2>1 DEF becomes
  <2>3. /\ BoxesInv(n, held, Served(Q, b)) /\ n.heap = picoxmem_free(k.heap, a)
        /\ a \in DOMAIN k.heap.given /\ k.heap.given[a] = MSGBUF
        /\ MailOf(k, Q)[b] # <<>>
        /\ n.result = [k.result EXCEPT ![t] = Head(MailOf(k, Q)[b])]
        /\ MailOf(n, Served(Q, b)) = [MailOf(k, Q) EXCEPT ![b] = Tail(@)]
        /\ Receivers(n) = Receivers(k)
    BY <1>2, <1>3, <1>5, <1>6, <1>8, <2>1, TakesMessage
  <2> QED BY <1>2, <1>4, <2>2, <2>3, FreeCounts
<1> QED BY <1>7, <1>8

LEMMA CountsSteps == BInv /\ [Next]_bvars => [Counters!Next]_<<Left, AskedFor, down>>
<1> SUFFICES ASSUME BInv, [Next]_bvars PROVE [Counters!Next]_<<Left, AskedFor, down>>
  OBVIOUS
<1>1. /\ HeapInv(heap) /\ \A a \in held : a \in DOMAIN heap.given
      /\ \A a \in DOMAIN heap.given : heap.given[a] \in Sizes
  BY BInvFacts DEF Owned, Sizes
<1>2. ASSUME down = "no", NEW size \in Sizes, Counters!Alloc(size) \/ Counters!Free(size)
      PROVE  Counters!Next
  BY <1>2 DEF Counters!Next
<1>3. ASSUME down = "no", NEW t \in Threads, NEW b \in Boxes, NEW p \in Contents, thread_send(t, b, p)
      PROVE  [Counters!Next]_<<Left, AskedFor, down>>
  BY <1>2, <1>3, SendCounts, SizesType
<1>4. ASSUME down = "no", NEW t \in Threads, NEW b \in Boxes, thread_recv(t, b)
      PROVE  [Counters!Next]_<<Left, AskedFor, down>>
  BY <1>2, <1>4, RecvCounts, SizesType
<1>5. ASSUME down = "no", NEW size \in Requests, thread_malloc(size)
      PROVE  [Counters!Next]_<<Left, AskedFor, down>>
  <2>1. size \in Sizes
    BY SizesType
  <2>2. CASE goes_down(size)
    BY <1>1, <1>2, <1>5, <2>1, <2>2, DownCounts
  <2>3. CASE available(heap, size) /\ heap' = picoxmem_alloc(heap, size) /\ UNCHANGED down
    BY <1>1, <1>2, <1>5, <2>1, <2>3, AllocCounts
  <2> QED BY <1>5, <2>2, <2>3 DEF thread_malloc
<1>6. ASSUME down = "no", NEW a \in held, thread_free(a)
      PROVE  [Counters!Next]_<<Left, AskedFor, down>>
  <2>1. PICK size : size = heap.given[a]
    OBVIOUS
  <2>2. a \in DOMAIN heap.given /\ size \in Sizes
    BY <1>1, <2>1
  <2>3. heap' = picoxmem_free(heap, a) /\ UNCHANGED down
    BY <1>6 DEF thread_free
  <2>4. Counters!Free(size)
    BY <1>1, <2>1, <2>2, <2>3, FreeCounts
  <2> QED BY <1>2, <1>6, <2>2, <2>4
<1>7. CASE UNCHANGED bvars
  <2>1. heap'.given = heap.given /\ down' = down
    BY <1>7 DEF bvars
  <2> QED BY <2>1, CountsNow, CountsNext
<1> QED BY <1>3, <1>4, <1>5, <1>6, <1>7 DEF Next

(* To its users the allocator is a counter of blocks per pool: a request   *)
(* takes a block of the smallest size that holds it, and the system goes   *)
(* down exactly when none is left or no pool holds it, whatever the order  *)
(* of requests, frees and messages (picoxmem_alloc, picoxmem_free,         *)
(* picox_sysdown).                                                         *)
THEOREM BoxesCountBlocks == Spec => CountsBlocks
<1>1. Init => Counters!Init
  BY CountsStart
<1>2. BInv /\ [Next]_bvars => [Counters!Next]_<<Left, AskedFor, down>>
  BY CountsSteps
<1> QED BY <1>1, <1>2, SpecImpliesBInv, PTL DEF Spec, CountsBlocks, Counters!Spec
=============================================================================
