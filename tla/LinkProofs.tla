------------------------------ MODULE LinkProofs ------------------------------
(***************************************************************************)
(* Lists read along their links, and what taking, adding and removing an   *)
(* element does to them: facts about pointers alone, for any elements.     *)
(***************************************************************************)
EXTENDS Links, SequencesExt, FiniteSetTheorems, SequenceTheorems, TLAPS

(* From first along next one meets the elements of q, and then NULL.       *)
Lists(first, next, q) ==
    /\ first = IF q = <<>> THEN NULL ELSE q[1]
    /\ \A i \in 1 .. Len(q) : next[q[i]] = IF i = Len(q) THEN NULL ELSE q[i + 1]

(* The least element of a set of numbers, as induction needs it.           *)
LEMMA LeastElement ==
    ASSUME NEW D \in SUBSET Nat, D # {}
    PROVE  \E n \in D : \A m \in D : n <= m
<1> DEFINE less == {ss \in Nat \X Nat : ss[1] < ss[2]}
<1>1. IsWellFoundedOn(less, Nat)
  BY NatLessThanWellFounded DEF OpToRel
<1>2. PICK n \in D : \A m \in D : ~(<<m, n>> \in less)
  <2> HIDE DEF less
  <2> QED BY <1>1, WFMin
<1>3. \A m \in D : n <= m
  <2> TAKE m \in D
  <2>1. m \in Nat /\ n \in Nat /\ <<m, n>> \in Nat \X Nat
    OBVIOUS
  <2>2. ~(<<m, n>>[1] < <<m, n>>[2])
    BY <1>2, <2>1
  <2> QED BY <2>1, <2>2
<1> QED BY <1>3

(* Induction over a set of numbers.                                        *)
LEMMA InductionOnSet ==
    ASSUME NEW bound \in Nat, NEW S, 0 \in S,
           \A n \in 1 .. bound : n - 1 \in S => n \in S
    PROVE  0 .. bound \subseteq S
<1> DEFINE D == {n \in 0 .. bound : n \notin S}
<1>1. SUFFICES ASSUME D # {} PROVE FALSE
  OBVIOUS
<1>2. D \in SUBSET Nat
  OBVIOUS
<1>3. PICK n \in D : \A m \in D : n <= m
  <2> HIDE DEF D
  <2> QED BY <1>1, <1>2, LeastElement
<1>4. n \in 1 .. bound /\ n - 1 \in 0 .. bound /\ n - 1 \notin D
  BY <1>3
<1> QED BY <1>3, <1>4

(* A list read along its links.                                            *)
LEMMA ChainOfList ==
    ASSUME NEW S, NULL \notin S, NEW q \in Seq(S), NEW first, NEW next,
           Lists(first, next, q), NEW bound \in Nat, Len(q) <= bound
    PROVE  Chain(first, next, bound) = q
<1> DEFINE Def(g) == [n \in 0 .. bound |->
                        IF n = 0 THEN first
                        ELSE IF g[n - 1] = NULL THEN NULL ELSE next[g[n - 1]]]
           nodes == [n \in 0 .. bound |-> IF n < Len(q) THEN q[n + 1] ELSE NULL]
           node == CHOOSE g : g = Def(g)
<1>0. Len(q) \in Nat /\ \A i \in 1 .. Len(q) : q[i] \in S
  OBVIOUS
<1>1. nodes = Def(nodes)
  <2>1. ASSUME NEW n \in 0 .. bound
        PROVE  nodes[n] = Def(nodes)[n]
    <3>1. CASE n = 0
      BY <1>0, <3>1 DEF Lists
    <3>2. CASE n # 0 /\ n - 1 < Len(q)
      <4>1. nodes[n - 1] = q[n] /\ q[n] # NULL /\ n \in 1 .. Len(q)
        BY <1>0, <3>2
      <4>2. next[q[n]] = IF n = Len(q) THEN NULL ELSE q[n + 1]
        BY <4>1 DEF Lists
      <4> QED BY <1>0, <3>2, <4>1, <4>2
    <3>3. CASE n # 0 /\ ~(n - 1 < Len(q))
      BY <1>0, <3>3
    <3> QED BY <3>1, <3>2, <3>3
  <2> QED BY <2>1
<1>2. node = Def(node)
  <2> HIDE DEF nodes, Def
  <2> QED BY <1>1
<1>3. node = nodes
  <2> DEFINE same == {n \in 0 .. bound : node[n] = nodes[n]}
  <2> HIDE DEF node
  <2>1. 0 \in same
    BY <1>1, <1>2
  <2>2. ASSUME NEW n \in 1 .. bound, n - 1 \in same
        PROVE  n \in same
    <3>1. n # 0 /\ n \in 0 .. bound /\ node[n - 1] = nodes[n - 1]
      BY <2>2
    <3>2. node[n] = Def(node)[n] /\ nodes[n] = Def(nodes)[n]
      BY <1>1, <1>2
    <3>3. Def(node)[n] = Def(nodes)[n]
      <4> HIDE DEF nodes
      <4> QED BY <3>1
    <3> HIDE DEF nodes, Def
    <3> QED BY <3>1, <3>2, <3>3
  <2>3. 0 .. bound \subseteq same
    <3> HIDE DEF same
    <3> QED BY <2>1, <2>2, InductionOnSet
  <2>4. \A n \in 0 .. bound : node[n] = nodes[n]
    BY <2>3
  <2>5. node = [n \in 0 .. bound |-> node[n]]
    BY <1>2
  <2> QED BY <2>4, <2>5
<1>4. {n \in DOMAIN nodes : nodes[n] # NULL} = 0 .. Len(q) - 1
  BY <1>0
<1>5. Cardinality(0 .. Len(q) - 1) = Len(q)
  <2>1. \A m \in Int : Cardinality(0 .. m) = IF 0 > m THEN 0 ELSE m - 0 + 1
    BY FS_Interval
  <2>2. Len(q) - 1 \in Int
    BY <1>0
  <2>3. Cardinality(0 .. Len(q) - 1) = IF 0 > Len(q) - 1 THEN 0 ELSE (Len(q) - 1) - 0 + 1
    BY <2>1, <2>2, Zenon
  <2> QED BY <1>0, <2>3
<1>6. [i \in 1 .. Len(q) |-> nodes[i - 1]] = q
  BY <1>0
<1>7. Chain(first, next, bound) =
        [i \in 1 .. Cardinality({n \in DOMAIN node : node[n] # NULL}) |-> node[i - 1]]
  BY DEF Chain
<1> QED
  <2> HIDE DEF node, nodes
  <2>1. PICK c : c = Cardinality({n \in DOMAIN nodes : nodes[n] # NULL})
    OBVIOUS
  <2>2. c = Len(q)
    BY <1>4, <1>5, <2>1
  <2>3. Chain(first, next, bound) = [i \in 1 .. c |-> nodes[i - 1]]
    BY <1>3, <1>7, <2>1
  <2> QED BY <1>6, <2>2, <2>3
------------------------------------------------------------------------------
(* Links of other elements do not matter.                                  *)
LEMMA OtherLinks ==
    ASSUME NEW S, NEW q \in Seq(S), NEW first, NEW next, NEW new, Lists(first, next, q),
           \A x \in ToSet(q) : new[x] = next[x]
    PROVE  Lists(first, new, q)
<1>1. \A i \in 1 .. Len(q) : q[i] \in ToSet(q)
  BY DEF ToSet
<1> QED BY <1>1 DEF Lists

(* The first element is taken.                                             *)
LEMMA FirstTaken ==
    ASSUME NEW S, NULL \notin S, NEW q \in Seq(S), NEW first, NEW next, Lists(first, next, q),
           first # NULL, IsInjective(q)
    PROVE  /\ q # <<>> /\ first = Head(q) /\ first \in ToSet(q) /\ first \in S
           /\ Lists(next[first], next, Tail(q))
           /\ Tail(q) \in Seq(S) /\ IsInjective(Tail(q))
           /\ ToSet(Tail(q)) = ToSet(q) \ {first}
<1> DEFINE r == Tail(q)
<1>1. PICK n \in Nat : n + 1 = Len(q)
  <2>1. q # <<>>
    BY DEF Lists
  <2>2. Len(q) \in Nat /\ Len(q) # 0
    BY <2>1
  <2> QED BY <2>2
<1>2. /\ DOMAIN q = 1 .. n + 1 /\ \A i \in 1 .. n + 1 : q[i] \in ToSet(q) /\ q[i] \in S
      /\ q # <<>> /\ first = q[1] /\ first = Head(q)
      /\ \A i \in 1 .. n + 1 : next[q[i]] = IF i = n + 1 THEN NULL ELSE q[i + 1]
      /\ \A i, j \in 1 .. n + 1 : q[i] = q[j] => i = j
  BY <1>1 DEF Lists, ToSet, IsInjective
<1>3. /\ r \in Seq(S) /\ Len(r) = n /\ DOMAIN r = 1 .. n /\ (n = 0 => r = <<>>)
      /\ \A i \in 1 .. n : r[i] = q[i + 1]
  <2>1. r \in Seq(S) /\ Len(r) = Len(q) - 1 /\ \A i \in 1 .. Len(r) : r[i] = q[i + 1]
    BY <1>2, HeadTailProperties
  <2> QED BY <1>1, <2>1
<1>4. \A i \in 1 .. n : i + 1 \in 1 .. n + 1 /\ i + 1 # 1 /\ (i + 1 = n + 1 <=> i = n)
  OBVIOUS
<1>5. \A i \in 1 .. n + 1 : i # 1 => i - 1 \in 1 .. n /\ (i - 1) + 1 = i
  OBVIOUS
<1>6. 1 \in 1 .. n + 1 /\ (n # 0 => 1 \in 1 .. n)
  OBVIOUS
<1> HIDE DEF r
<1>7. Lists(next[first], next, r)
  <2>1. next[first] = IF r = <<>> THEN NULL ELSE r[1]
    <3>1. next[first] = IF n = 0 THEN NULL ELSE q[1 + 1]
      BY <1>2, <1>6
    <3>2. n # 0 => r # <<>> /\ r[1] = q[1 + 1]
      BY <1>3, <1>6
    <3> QED BY <1>3, <3>1, <3>2
  <2>2. ASSUME NEW i \in 1 .. n
        PROVE  next[r[i]] = IF i = n THEN NULL ELSE r[i + 1]
    <3>1. next[q[i + 1]] = IF i = n THEN NULL ELSE q[(i + 1) + 1]
      BY <1>2, <1>4
    <3>2. i # n => i + 1 \in 1 .. n
      OBVIOUS
    <3> QED BY <1>3, <3>1, <3>2
  <2> QED BY <1>3, <2>1, <2>2 DEF Lists
<1>8. IsInjective(r)
  <2>1. ASSUME NEW i \in 1 .. n, NEW j \in 1 .. n, r[i] = r[j] PROVE i = j
    <3>1. i + 1 = j + 1
      BY <1>2, <1>3, <1>4, <2>1
    <3> QED BY <3>1
  <2> QED BY <1>3, <2>1 DEF IsInjective
<1>9. ToSet(r) = ToSet(q) \ {first}
  <2>1. ASSUME NEW i \in 1 .. n PROVE r[i] \in ToSet(q) \ {first}
    BY <1>2, <1>3, <1>4, <1>6
  <2>2. ASSUME NEW i \in 1 .. n + 1, q[i] # first PROVE q[i] \in ToSet(r)
    <3>1. i - 1 \in DOMAIN r /\ r[i - 1] = q[i]
      BY <1>2, <1>3, <1>5, <2>2
    <3> QED BY <3>1 DEF ToSet
  <2>3. \A y \in ToSet(r) : y \in ToSet(q) \ {first}
    BY <1>3, <2>1 DEF ToSet
  <2>4. \A y \in ToSet(q) \ {first} : y \in ToSet(r)
    BY <1>2, <2>2 DEF ToSet
  <2> QED BY <2>3, <2>4
<1> QED BY <1>2, <1>3, <1>6, <1>7, <1>8, <1>9 DEF r

(* An element goes to the front.                                           *)
LEMMA PutFirst ==
    ASSUME NEW S, NEW q \in Seq(S), NEW first, NEW next, NEW new, Lists(first, next, q),
           IsInjective(q), NEW x \in S, x \notin ToSet(q), new[x] = first,
           \A y \in ToSet(q) : new[y] = next[y]
    PROVE  /\ <<x>> \o q \in Seq(S) /\ IsInjective(<<x>> \o q)
           /\ Lists(x, new, <<x>> \o q)
           /\ ToSet(<<x>> \o q) = ToSet(q) \cup {x}
<1> DEFINE r == <<x>> \o q
<1>1. PICK n \in Nat : n = Len(q)
  OBVIOUS
<1>2. /\ DOMAIN q = 1 .. n /\ \A i \in 1 .. n : q[i] \in ToSet(q)
      /\ first = IF n = 0 THEN NULL ELSE q[1]
      /\ \A i \in 1 .. n : next[q[i]] = IF i = n THEN NULL ELSE q[i + 1]
  BY <1>1 DEF Lists, ToSet
<1>3. r \in Seq(S) /\ Len(r) = n + 1 /\ DOMAIN r = 1 .. n + 1 /\ r[1] = x
  BY <1>1
<1>4. \A i \in 1 .. n : i + 1 \in 2 .. n + 1 /\ r[i + 1] = q[i]
  BY <1>1
<1>5. \A i \in 2 .. n + 1 : i - 1 \in 1 .. n /\ r[i] = q[i - 1]
  BY <1>1
<1>6. \A i \in 1 .. n + 1 : i = 1 \/ i \in 2 .. n + 1
  OBVIOUS
<1> HIDE DEF r
<1>7. IsInjective(r)
  <2>1. \A i, j \in 1 .. n : q[i] = q[j] => i = j
    BY <1>2 DEF IsInjective
  <2>2. \A i \in 2 .. n + 1 : r[i] # x
    BY <1>2, <1>5
  <2>3. \A i, j \in 1 .. n + 1 : r[i] = r[j] => i = j
    BY <1>3, <1>5, <1>6, <2>1, <2>2
  <2> QED BY <1>3, <2>3 DEF IsInjective
<1>8. Lists(x, new, r)
  <2>1. r # <<>> /\ x = r[1]
    BY <1>3
  <2>2. new[r[1]] = IF 1 = n + 1 THEN NULL ELSE r[1 + 1]
    <3>1. n # 0 => 1 \in 1 .. n
      OBVIOUS
    <3> QED BY <1>2, <1>3, <1>4, <3>1
  <2>3. ASSUME NEW i \in 2 .. n + 1
        PROVE  new[r[i]] = IF i = n + 1 THEN NULL ELSE r[i + 1]
    <3>1. i - 1 \in 1 .. n /\ r[i] = q[i - 1] /\ new[r[i]] = next[q[i - 1]]
      BY <1>2, <1>5
    <3>2. next[q[i - 1]] = IF i - 1 = n THEN NULL ELSE q[(i - 1) + 1]
      BY <1>2, <3>1
    <3>3. i # n + 1 => r[i + 1] = q[(i - 1) + 1]
      BY <1>4
    <3> QED BY <3>1, <3>2, <3>3
  <2> QED BY <1>3, <1>6, <2>1, <2>2, <2>3 DEF Lists
<1>9. ToSet(r) = ToSet(q) \cup {x}
  <2>1. \A y \in ToSet(r) : y \in ToSet(q) \cup {x}
    <3>1. \A i \in 1 .. n + 1 : r[i] \in ToSet(q) \cup {x}
      BY <1>2, <1>3, <1>5, <1>6
    <3> QED BY <1>3, <3>1 DEF ToSet
  <2>2. \A y \in ToSet(q) : y \in ToSet(r)
    <3> TAKE y \in ToSet(q)
    <3>1. PICK i \in 1 .. n : y = q[i]
      BY <1>2 DEF ToSet
    <3>2. i + 1 \in DOMAIN r /\ r[i + 1] = y
      BY <1>3, <1>4, <3>1
    <3> QED BY <3>2 DEF ToSet
  <2>3. x \in ToSet(r)
    <3>1. 1 \in DOMAIN r
      BY <1>3
    <3> QED BY <1>3, <3>1 DEF ToSet
  <2> QED BY <2>1, <2>2, <2>3
<1> QED BY <1>3, <1>7, <1>8, <1>9 DEF r

(* An element goes to the end, of an empty list or of another.             *)
AddsLast(q, x, first, next, newfirst, new) ==
    /\ newfirst = IF q = <<>> THEN x ELSE first
    /\ new[x] = NULL
    /\ q # <<>> => new[q[Len(q)]] = x
    /\ \A i \in 1 .. Len(q) - 1 : new[q[i]] = next[q[i]]

LEMMA PutLast ==
    ASSUME NEW S, NULL \notin S, NEW q \in Seq(S), NEW first, NEW next, NEW new, NEW newfirst,
           Lists(first, next, q), IsInjective(q), NEW x \in S, x \notin ToSet(q),
           AddsLast(q, x, first, next, newfirst, new)
    PROVE  /\ Append(q, x) \in Seq(S) /\ IsInjective(Append(q, x))
           /\ Lists(newfirst, new, Append(q, x))
           /\ ToSet(Append(q, x)) = ToSet(q) \cup {x}
<1> DEFINE r == Append(q, x)
<1>1. PICK n \in Nat : n = Len(q)
  OBVIOUS
<1>2. /\ DOMAIN q = 1 .. n /\ \A i \in 1 .. n : q[i] \in ToSet(q)
      /\ newfirst = IF n = 0 THEN x ELSE q[1]
      /\ \A i \in 1 .. n : next[q[i]] = IF i = n THEN NULL ELSE q[i + 1]
      /\ n # 0 => new[q[n]] = x
      /\ \A i \in 1 .. n - 1 : new[q[i]] = next[q[i]]
  BY <1>1 DEF Lists, ToSet, AddsLast
<1>3. r \in Seq(S) /\ Len(r) = n + 1 /\ DOMAIN r = 1 .. n + 1 /\ r[n + 1] = x
  BY <1>1
<1>4. \A i \in 1 .. n : r[i] = q[i]
  BY <1>1
<1>5. \A i \in 1 .. n + 1 : i = n + 1 \/ i \in 1 .. n
  OBVIOUS
<1> HIDE DEF r
<1>6. IsInjective(r)
  <2>1. \A i, j \in 1 .. n : q[i] = q[j] => i = j
    BY <1>2 DEF IsInjective
  <2>2. \A i \in 1 .. n : r[i] # x
    BY <1>2, <1>4
  <2>3. \A i, j \in 1 .. n + 1 : r[i] = r[j] => i = j
    BY <1>3, <1>4, <1>5, <2>1, <2>2
  <2> QED BY <1>3, <2>3 DEF IsInjective
<1>7. Lists(newfirst, new, r)
  <2>1. r # <<>> /\ newfirst = r[1]
    <3>1. n = 0 \/ 1 \in 1 .. n
      OBVIOUS
    <3> QED BY <1>2, <1>3, <1>4, <3>1
  <2>2. ASSUME NEW i \in 1 .. n
        PROVE  new[r[i]] = r[i + 1]
    <3>1. CASE i = n
      BY <1>2, <1>3, <1>4, <3>1
    <3>2. CASE i \in 1 .. n - 1
      <4>1. i # n /\ i + 1 \in 1 .. n
        BY <3>2
      <4>2. next[q[i]] = q[i + 1] /\ new[q[i]] = next[q[i]]
        BY <1>2, <3>2, <4>1
      <4>3. r[i] = q[i] /\ r[i + 1] = q[i + 1]
        BY <1>4, <4>1
      <4> QED BY <4>2, <4>3
    <3> QED BY <3>1, <3>2
  <2>3. \A i \in 1 .. n + 1 : new[r[i]] = IF i = n + 1 THEN NULL ELSE r[i + 1]
    BY <1>3, <1>5, <2>2 DEF AddsLast
  <2> QED BY <1>3, <2>1, <2>3 DEF Lists
<1>8. ToSet(r) = ToSet(q) \cup {x}
  <2>1. n + 1 \in 1 .. n + 1 /\ \A i \in 1 .. n : i \in 1 .. n + 1
    OBVIOUS
  <2>2. \A y \in ToSet(r) : y \in ToSet(q) \cup {x}
    <3>1. \A i \in 1 .. n + 1 : r[i] \in ToSet(q) \cup {x}
      BY <1>2, <1>3, <1>4, <1>5
    <3> QED BY <1>3, <3>1 DEF ToSet
  <2>3. \A i \in 1 .. n : q[i] \in ToSet(r)
    BY <1>3, <1>4, <2>1 DEF ToSet
  <2>4. \A y \in ToSet(q) : y \in ToSet(r)
    BY <1>2, <2>3 DEF ToSet
  <2>5. x \in ToSet(r)
    BY <1>3, <2>1 DEF ToSet
  <2> QED BY <2>2, <2>4, <2>5
<1> QED BY <1>3, <1>6, <1>7, <1>8 DEF r

(* What is left when the k-th element is taken out.                        *)
LEMMA LeftAfterRemoval ==
    ASSUME NEW S, NEW q \in Seq(S), NEW k \in 1 .. Len(q)
    PROVE  /\ RemoveAt(q, k) \in Seq(S) /\ Len(RemoveAt(q, k)) = Len(q) - 1
           /\ \A i \in 1 .. Len(q) - 1 :
                RemoveAt(q, k)[i] = q[IF i < k THEN i ELSE i + 1]
<1>1. PICK n \in Nat : n = Len(q)
  OBVIOUS
<1> DEFINE f == SubSeq(q, 1, k - 1)
           b == SubSeq(q, k + 1, n)
<1>2. f \in Seq(S) /\ Len(f) = k - 1 /\ \A i \in 1 .. k - 1 : f[i] = q[i]
  BY <1>1
<1>3. b \in Seq(S) /\ Len(b) = n - k /\ \A i \in 1 .. n - k : b[i] = q[k + i]
  BY <1>1
<1>4. RemoveAt(q, k) = f \o b
  BY <1>1 DEF RemoveAt
<1> HIDE DEF f, b
<1>5. /\ f \o b \in Seq(S) /\ Len(f \o b) = Len(f) + Len(b)
      /\ \A i \in 1 .. Len(f) + Len(b) :
           (f \o b)[i] = IF i <= Len(f) THEN f[i] ELSE b[i - Len(f)]
  BY <1>2, <1>3, ConcatProperties, Zenon
<1>6. Len(f) + Len(b) = n - 1
  BY <1>1, <1>2, <1>3
<1>7. ASSUME NEW i \in 1 .. n - 1
      PROVE  (f \o b)[i] = q[IF i < k THEN i ELSE i + 1]
  <2>1. CASE i < k
    <3>1. i <= Len(f) /\ i \in 1 .. k - 1
      BY <1>2, <2>1
    <3> QED BY <1>2, <1>5, <1>6, <2>1, <3>1
  <2>2. CASE ~(i < k)
    <3>1. ~(i <= Len(f)) /\ i - Len(f) \in 1 .. n - k /\ k + (i - Len(f)) = i + 1
      BY <1>1, <1>2, <2>2
    <3> QED BY <1>3, <1>5, <1>6, <2>2, <3>1
  <2> QED BY <2>1, <2>2
<1> QED BY <1>1, <1>4, <1>5, <1>6, <1>7

(* An element is taken out wherever it stands: the one before it, or the   *)
(* pointer to the first, gets its link.                                    *)
TakesOut(q, k, first, next, newfirst, new) ==
    /\ newfirst = IF k = 1 THEN next[q[k]] ELSE first
    /\ \A i \in 1 .. Len(q) :
         i # k => new[q[i]] = IF i = k - 1 THEN next[q[k]] ELSE next[q[i]]

LEMMA TakenOut ==
    ASSUME NEW S, NEW q \in Seq(S), NEW first, NEW next, NEW new, NEW newfirst,
           Lists(first, next, q), IsInjective(q), NEW k \in DOMAIN q,
           TakesOut(q, k, first, next, newfirst, new)
    PROVE  /\ RemoveAt(q, k) \in Seq(S) /\ IsInjective(RemoveAt(q, k))
           /\ Lists(newfirst, new, RemoveAt(q, k))
           /\ ToSet(RemoveAt(q, k)) = ToSet(q) \ {q[k]}
<1> DEFINE r == RemoveAt(q, k)
           at(i) == IF i < k THEN i ELSE i + 1
<1>1. PICK n \in Nat : n + 1 = Len(q) /\ k \in 1 .. n + 1
  <2>1. Len(q) \in Nat /\ k \in 1 .. Len(q)
    OBVIOUS
  <2>2. Len(q) - 1 \in Nat /\ (Len(q) - 1) + 1 = Len(q)
    BY <2>1
  <2> QED BY <2>1, <2>2
<1>2. /\ DOMAIN q = 1 .. n + 1 /\ \A i \in 1 .. n + 1 : q[i] \in ToSet(q)
      /\ first = q[1]
      /\ \A i \in 1 .. n + 1 : next[q[i]] = IF i = n + 1 THEN NULL ELSE q[i + 1]
      /\ \A i, j \in 1 .. n + 1 : q[i] = q[j] => i = j
      /\ newfirst = IF k = 1 THEN next[q[k]] ELSE first
      /\ \A i \in 1 .. n + 1 :
           i # k => new[q[i]] = IF i = k - 1 THEN next[q[k]] ELSE next[q[i]]
  <2>1. /\ DOMAIN q = 1 .. n + 1 /\ Len(q) = n + 1
        /\ \A i \in 1 .. n + 1 : q[i] \in ToSet(q)
    BY <1>1 DEF ToSet
  <2>2. first = q[1]
    BY <1>1 DEF Lists
  <2>3. \A i \in 1 .. n + 1 : next[q[i]] = IF i = n + 1 THEN NULL ELSE q[i + 1]
    BY <2>1 DEF Lists
  <2>4. \A i, j \in 1 .. n + 1 : q[i] = q[j] => i = j
    BY <2>1 DEF IsInjective
  <2>5. /\ newfirst = IF k = 1 THEN next[q[k]] ELSE first
        /\ \A i \in 1 .. n + 1 :
             i # k => new[q[i]] = IF i = k - 1 THEN next[q[k]] ELSE next[q[i]]
    BY <2>1 DEF TakesOut
  <2> QED BY <2>1, <2>2, <2>3, <2>4, <2>5
<1>3. /\ r \in Seq(S) /\ Len(r) = n /\ DOMAIN r = 1 .. n /\ (n = 0 => r = <<>>)
      /\ \A i \in 1 .. n : r[i] = q[at(i)]
  <2>1. Len(q) - 1 = n /\ k \in 1 .. Len(q)
    BY <1>1
  <2>2. /\ r \in Seq(S) /\ Len(r) = n
        /\ \A i \in 1 .. n : r[i] = q[IF i < k THEN i ELSE i + 1]
    BY <2>1, LeftAfterRemoval
  <2> QED BY <2>2
<1>4. \A i \in 1 .. n : at(i) \in 1 .. n + 1 /\ at(i) # k
  BY <1>1
<1>5. \A i, j \in 1 .. n : at(i) = at(j) => i = j
  BY <1>1
<1>6. \A i \in 1 .. n + 1 : i # k => \E j \in 1 .. n : at(j) = i
  <2> TAKE i \in 1 .. n + 1
  <2>1. i < k => i \in 1 .. n /\ at(i) = i
    BY <1>1
  <2>2. i > k => i - 1 \in 1 .. n /\ at(i - 1) = i
    BY <1>1
  <2>3. CASE i < k
    BY <2>1, <2>3
  <2>4. CASE i > k
    BY <2>2, <2>4
  <2>5. i \in Nat /\ k \in Nat
    BY <1>1
  <2> QED BY <2>3, <2>4, <2>5
<1>7. \A i \in 1 .. n - 1 : at(i + 1) = IF at(i) = k - 1 THEN k + 1 ELSE at(i) + 1
  BY <1>1
<1>8. n # 0 => /\ at(n) = IF k = n + 1 THEN n ELSE n + 1
               /\ at(1) = IF k = 1 THEN 2 ELSE 1
  BY <1>1
<1>9. \A i \in 1 .. n : at(i) = k - 1 /\ k = n + 1 => i = n
  BY <1>1
<1>10. \A i \in 1 .. n : at(i) = n + 1 => i = n
  BY <1>1
<1>11. Lists(newfirst, new, r)
  <2>1. newfirst = IF r = <<>> THEN NULL ELSE r[1]
    <3>1. CASE n = 0
      <4>1. k = 1 /\ 1 \in 1 .. n + 1
        BY <1>1, <3>1
      <4> QED BY <1>2, <1>3, <3>1, <4>1
    <3>2. CASE n # 0
      <4>1. 1 \in 1 .. n /\ r # <<>> /\ 1 \in 1 .. n + 1
        BY <1>3, <3>2
      <4>2. r[1] = q[at(1)]
        BY <1>3, <4>1
      <4>3. k = 1 => next[q[k]] = q[2]
        BY <1>2, <3>2, <4>1
      <4> QED BY <1>2, <1>8, <3>2, <4>1, <4>2, <4>3
    <3> QED BY <3>1, <3>2
  <2>2. ASSUME NEW i \in 1 .. n
        PROVE  new[r[i]] = IF i = n THEN NULL ELSE r[i + 1]
    <3>1. PICK j \in 1 .. n + 1 : j = at(i) /\ j # k /\ r[i] = q[j]
      BY <1>3, <1>4
    <3>2. new[r[i]] = IF j = k - 1 THEN next[q[k]] ELSE next[q[j]]
      BY <1>2, <3>1
    <3>3. CASE i = n
      <4>1. j = IF k = n + 1 THEN n ELSE n + 1
        BY <1>8, <3>1, <3>3
      <4>2. next[q[j]] = IF j = n + 1 THEN NULL ELSE q[j + 1]
        BY <1>2, <3>1
      <4>3. next[q[k]] = IF k = n + 1 THEN NULL ELSE q[k + 1]
        BY <1>1, <1>2
      <4> QED BY <1>1, <3>2, <3>3, <4>1, <4>2, <4>3
    <3>4. CASE i # n
      <4>1. i + 1 \in 1 .. n /\ i \in 1 .. n - 1
        BY <3>4
      <4>2. r[i + 1] = q[IF j = k - 1 THEN k + 1 ELSE j + 1]
        BY <1>3, <1>7, <3>1, <4>1
      <4>3. j = k - 1 => k # n + 1
        BY <1>9, <3>1, <3>4
      <4>4. j # n + 1
        BY <1>10, <3>1, <3>4
      <4>5. next[q[j]] = q[j + 1] /\ (j = k - 1 => next[q[k]] = q[k + 1])
        BY <1>1, <1>2, <3>1, <4>3, <4>4
      <4> QED BY <3>2, <3>4, <4>2, <4>5
    <3> QED BY <3>3, <3>4
  <2> HIDE DEF r
  <2> QED BY <1>3, <2>1, <2>2 DEF Lists
<1> HIDE DEF r, at
<1>12. IsInjective(r)
  <2>1. ASSUME NEW i \in 1 .. n, NEW j \in 1 .. n, r[i] = r[j] PROVE i = j
    <3>1. q[at(i)] = q[at(j)] /\ at(i) \in 1 .. n + 1 /\ at(j) \in 1 .. n + 1
      BY <1>3, <1>4, <2>1
    <3>2. at(i) = at(j)
      BY <1>2, <3>1
    <3> QED BY <1>5, <3>2
  <2> QED BY <1>3, <2>1 DEF IsInjective
<1>13. ToSet(r) = ToSet(q) \ {q[k]}
  <2>1. ASSUME NEW i \in 1 .. n PROVE r[i] \in ToSet(q) \ {q[k]}
    BY <1>1, <1>2, <1>3, <1>4
  <2>2. ASSUME NEW i \in 1 .. n + 1, q[i] # q[k] PROVE q[i] \in ToSet(r)
    <3>1. PICK j \in 1 .. n : at(j) = i
      BY <1>6, <2>2
    <3>2. j \in DOMAIN r /\ r[j] = q[i]
      BY <1>3, <3>1
    <3> QED BY <3>2 DEF ToSet
  <2>3. \A y \in ToSet(r) : y \in ToSet(q) \ {q[k]}
    BY <1>3, <2>1 DEF ToSet
  <2>4. \A y \in ToSet(q) \ {q[k]} : y \in ToSet(r)
    BY <1>2, <2>2 DEF ToSet
  <2> QED BY <2>3, <2>4
<1> QED BY <1>3, <1>11, <1>12, <1>13 DEF r

(* A list without repetitions is no longer than the set it is from.        *)
LEMMA LengthOfInjective ==
    ASSUME NEW S, IsFiniteSet(S), NEW q \in Seq(S), IsInjective(q)
    PROVE  Len(q) <= Cardinality(S)
<1>1. PICK n \in Nat : n = Len(q)
  OBVIOUS
<1>2. q \in [1 .. n -> S]
  BY <1>1
<1>3. q \in Injection(1 .. n, S)
  BY <1>2 DEF Injection, IsInjective
<1>4. Cardinality(1 .. n) <= Cardinality(S)
  BY <1>3, FS_Injection
<1>5. Cardinality(1 .. n) = IF 1 > n THEN 0 ELSE n - 1 + 1
  <2>1. 1 \in Int /\ n \in Int
    OBVIOUS
  <2> QED BY <2>1, FS_Interval, Zenon
<1> QED BY <1>1, <1>4, <1>5
=============================================================================
