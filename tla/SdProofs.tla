------------------------------- MODULE SdProofs -------------------------------
(***************************************************************************)
(* Loads from SD cards, for all cards with a volume as CardAssumption has  *)
(* it, all names, all sector and cluster sizes and all numbers of tries:   *)
(* the sector that comes is the one asked for, a file is found where the   *)
(* directory lists it, a read returns its range, and the answer of a load  *)
(* names what went wrong.                                                  *)
(*                                                                         *)
(* The invariant has a part for each function: what sd_card_init has       *)
(* learnt of the card at each command, which sector is being read, how far *)
(* the search has passed through the directory, and where the copied bytes *)
(* lie in the chain of the file.                                           *)
(***************************************************************************)
EXTENDS SdDriver, WellFoundedInduction, NaturalsInduction, TLAPS

(***************************************************************************)
(* The operators of the FAT32 reader: which cluster comes next, what the   *)
(* cells of a cluster's sectors hold, and which names fat_make_short_name  *)
(* takes and makes of them.                                                *)
(***************************************************************************)
(* The reader knows the volume of the card in the slot.                    *)
OnVolume ==
    /\ card \in Cards
    /\ fs = geometry(card.boot, card.start)
    /\ card.boot.fat_size > 0 /\ card.boot.fat_count > 0 /\ card.boot.sectors_per_cluster > 0

USE SectorAssumption
-----------------------------------------------------------------------------
LEMMA LeastElement ==
    ASSUME NEW D \in SUBSET Nat, D # {}
    PROVE  \E n \in D : \A m \in D : n <= m
<1> DEFINE less == {ss \in Nat \X Nat : ss[1] < ss[2]}
<1>1. IsWellFoundedOn(less, Nat)
  BY NatLessThanWellFounded DEF OpToRel
<1>2. PICK n \in D : \A m \in D : ~(<<m, n>> \in less)
  <2> HIDE DEF less
  <2> QED BY <1>1, WFMin
<1>3. \A m \in D : n <= m
  <2> TAKE m \in D
  <2>1. m \in Nat /\ n \in Nat /\ <<m, n>> \in Nat \X Nat
    OBVIOUS
  <2>2. ~(<<m, n>>[1] < <<m, n>>[2])
    BY <1>2, <2>1
  <2> QED BY <2>1, <2>2
<1> QED BY <1>3

LEMMA InductionOnSet ==
    ASSUME NEW bound \in Nat, NEW S, 0 \in S,
           \A n \in 1 .. bound : n - 1 \in S => n \in S
    PROVE  0 .. bound \subseteq S
<1> DEFINE D == {n \in 0 .. bound : n \notin S}
<1>1. SUFFICES ASSUME D # {} PROVE FALSE
  OBVIOUS
<1>2. D \in SUBSET Nat
  OBVIOUS
<1>3. PICK n \in D : \A m \in D : n <= m
  <2> HIDE DEF D
  <2> QED BY <1>1, <1>2, LeastElement
<1>4. n \in 1 .. bound /\ n - 1 \in 0 .. bound /\ n - 1 \notin D
  BY <1>3
<1> QED BY <1>3, <1>4

(* Division with a remainder, and its two parts found again.               *)
LEMMA Remainder ==
    ASSUME NEW w \in Nat \ {0}, NEW x \in Int
    PROVE  x \div w \in Int /\ x % w \in 0 .. w - 1 /\ x = (w * (x \div w)) + (x % w)
OBVIOUS

LEMMA OneDivision ==
    ASSUME NEW w \in Nat \ {0}, NEW k \in Int, NEW l \in Int,
           NEW r \in 0 .. w - 1, NEW q \in 0 .. w - 1, (w * k) + r = (w * l) + q
    PROVE  r = q /\ k = l
<1>1. CASE k < l
  <2>1. (w * k) + w <= w * l
    BY <1>1
  <2> QED BY <2>1
<1>2. CASE k > l
  <2>1. (w * l) + w <= w * k
    BY <1>2
  <2> QED BY <2>1
<1>3. CASE k = l
  BY <1>3
<1> QED BY <1>1, <1>2, <1>3

LEMMA Divides ==
    ASSUME NEW w \in Nat \ {0}, NEW k \in Int, NEW r \in 0 .. w - 1
    PROVE  ((w * k) + r) \div w = k /\ ((w * k) + r) % w = r
<1>1. PICK x \in Int : x = (w * k) + r
  OBVIOUS
<1>2. x \div w \in Int /\ x % w \in 0 .. w - 1 /\ x = (w * (x \div w)) + (x % w)
  BY Remainder
<1>3. PICK d \in Int, m \in 0 .. w - 1 : d = x \div w /\ m = x % w
  BY <1>2
<1>4. (w * k) + r = (w * d) + m
  BY <1>1, <1>2, <1>3
<1>5. r = m /\ k = d
  BY <1>4, OneDivision
<1> QED BY <1>1, <1>3, <1>5

LEMMA Products ==
    ASSUME NEW a \in Nat, NEW b \in Nat
    PROVE  a * b \in Nat /\ (b > 0 => a * b >= a)
<1>1. CASE b = 0
  BY <1>1
<1>2. CASE b > 0
  <2>1. a * b = a + a * (b - 1)
    BY <1>2
  <2>2. a * (b - 1) >= 0
    BY <1>2
  <2> QED BY <2>1, <2>2
<1> QED BY <1>1, <1>2
-----------------------------------------------------------------------------
(* The card, typed.                                                        *)
LEMMA CardTyped ==
    ASSUME card \in Cards
    PROVE  /\ card.start \in Nat /\ card.high \in Nat /\ card.boot \in BootRecord
           /\ card.boot.sectors_per_cluster \in Nat /\ card.boot.reserved \in Nat
           /\ card.boot.fat_count \in Nat /\ card.boot.fat_size \in Nat
           /\ card.boot.root_cluster \in Nat /\ card.boot.fat32 \in BOOLEAN
           /\ card.boot.partition \in Nat
           /\ card.root \in Seq(Clusters) /\ card.file \in Seq(Clusters)
           /\ card.directory \in Seq(Kinds) /\ card.size \in Nat
<1>1. card.boot \in BootRecord
  BY CardAssumption
<1>2. /\ card.boot.sectors_per_cluster \in Nat /\ card.boot.reserved \in Nat
      /\ card.boot.fat_count \in Nat /\ card.boot.fat_size \in Nat
      /\ card.boot.root_cluster \in Nat /\ card.boot.fat32 \in BOOLEAN
      /\ card.boot.partition \in Nat
  BY <1>1 DEF BootRecord
<1>3. card.size \in 0 .. Len(card.file) * card.boot.sectors_per_cluster * SECTOR
  BY CardAssumption
<1>4. card.size \in Nat
  BY <1>3
<1>5. /\ card.start \in Nat /\ card.high \in Nat /\ card.boot \in BootRecord
      /\ card.root \in Seq(Clusters) /\ card.file \in Seq(Clusters)
      /\ card.directory \in Seq(Kinds)
  BY CardAssumption
<1> QED BY <1>2, <1>4, <1>5

(* The same, a few facts at a time.                                        *)
LEMMA BootTyped ==
    ASSUME card \in Cards
    PROVE  /\ card.start \in Nat /\ card.boot.sectors_per_cluster \in Nat
           /\ card.boot.reserved \in Nat /\ card.boot.fat_count \in Nat
           /\ card.boot.fat_size \in Nat
BY CardTyped

LEMMA EntriesTyped ==
    ASSUME card \in Cards
    PROVE  card.directory \in Seq(Kinds)
BY CardTyped

(* The two chains have no cluster twice and none in common.                *)
LEMMA Chains ==
    ASSUME card \in Cards
    PROVE  /\ \A i, j \in DOMAIN card.root : card.root[i] = card.root[j] => i = j
           /\ \A i, j \in DOMAIN card.file : card.file[i] = card.file[j] => i = j
           /\ \A i \in DOMAIN card.root, j \in DOMAIN card.file : card.root[i] # card.file[j]
<1>1. PICK r \in Seq(Clusters), f \in Seq(Clusters) : r = card.root /\ f = card.file
  BY CardTyped
<1>2. IsInjective(r \o f)
  BY <1>1, CardAssumption
<1>3. \A i \in DOMAIN r : i \in DOMAIN (r \o f) /\ (r \o f)[i] = r[i]
  OBVIOUS
<1>4. \A j \in DOMAIN f : /\ j \in Int /\ j > 0 /\ Len(r) \in Nat
                         /\ Len(r) + j \in DOMAIN (r \o f) /\ (r \o f)[Len(r) + j] = f[j]
  OBVIOUS
<1>5. \A a, b \in DOMAIN (r \o f) : (r \o f)[a] = (r \o f)[b] => a = b
  BY <1>2 DEF IsInjective
<1>6. \A i, j \in DOMAIN r : r[i] = r[j] => i = j
  BY <1>3, <1>5
<1>7. ASSUME NEW i \in DOMAIN f, NEW j \in DOMAIN f, f[i] = f[j]
      PROVE  i = j
  <2>1. Len(r) + i = Len(r) + j
    BY <1>4, <1>5, <1>7
  <2> QED BY <1>4, <2>1
<1>8. ASSUME NEW i \in DOMAIN r, NEW j \in DOMAIN f, r[i] = f[j]
      PROVE  FALSE
  <2>1. i = Len(r) + j
    BY <1>3, <1>4, <1>5, <1>8
  <2>2. i <= Len(r) /\ i \in Int
    OBVIOUS
  <2> QED BY <1>4, <2>1, <2>2
<1> QED BY <1>1, <1>6, <1>7, <1>8

(* A chain of the card: of its directory or of its file.                   *)
LEMMA ChainTyped ==
    ASSUME card \in Cards, NEW chain \in {card.root, card.file}, NEW i \in DOMAIN chain
    PROVE  /\ chain \in Seq(Clusters) /\ chain[i] \in Clusters
           /\ i \in 1 .. Len(chain) /\ i \in Nat \ {0} /\ Len(chain) \in Nat
           /\ i # Len(chain) => i + 1 \in DOMAIN chain
           /\ Position(chain, chain[i]) = i
           /\ chain[i] \in ToSet(chain)
           /\ chain = card.file => chain[i] \notin ToSet(card.root)
<1>1. chain \in Seq(Clusters)
  BY CardTyped
<1>2. /\ chain[i] \in Clusters /\ i \in 1 .. Len(chain) /\ i \in Nat \ {0}
      /\ Len(chain) \in Nat /\ (i # Len(chain) => i + 1 \in DOMAIN chain)
  BY <1>1
<1>3. \A j \in DOMAIN chain : chain[j] = chain[i] => j = i
  BY Chains
<1>4. Position(chain, chain[i]) = i
  BY <1>3 DEF Position
<1>5. chain[i] \in ToSet(chain)
  BY DEF ToSet
<1>6. chain = card.file => chain[i] \notin ToSet(card.root)
  BY Chains DEF ToSet
<1> QED BY <1>1, <1>2, <1>4, <1>5, <1>6
-----------------------------------------------------------------------------
(* The next link of a chain of the card.                                   *)
LEMMA NextCluster ==
    ASSUME OnVolume, NEW chain \in {card.root, card.file}, NEW i \in DOMAIN chain,
           sector_buffer = fat_sector(chain[i])
    PROVE  fat_entry(chain[i]) = IF i = Len(chain) THEN EOC ELSE chain[i + 1]
<1> DEFINE after == IF i = Len(chain) THEN EOC ELSE chain[i + 1]
<1>1. PICK c \in Nat : c = chain[i]
  BY ChainTyped DEF OnVolume, Clusters
<1>2. PICK size \in Nat, count \in Nat, first \in Nat :
        /\ size = card.boot.fat_size /\ count = card.boot.fat_count /\ first = FirstFat
  <2>1. card.boot.fat_size \in Nat /\ card.boot.fat_count \in Nat
    BY CardTyped DEF OnVolume
  <2>2. FirstFat \in Nat
    <3>1. card \in Cards
      BY DEF OnVolume
    <3>2. card.start \in Nat /\ card.boot.reserved \in Nat
      BY <3>1, BootTyped
    <3> QED BY <3>2 DEF FirstFat
  <2> QED BY <2>1, <2>2
<1>3. size > 0 /\ count > 0 /\ c < size * SECTOR
  BY <1>1, <1>2, ChainTyped, CardAssumption DEF OnVolume, ToSet
<1>4. PICK d \in Int, m \in 0 .. SECTOR - 1 :
        d = c \div SECTOR /\ m = c % SECTOR /\ c = (SECTOR * d) + m
  <2>1. /\ c \div SECTOR \in Int /\ c % SECTOR \in 0 .. SECTOR - 1
        /\ c = (SECTOR * (c \div SECTOR)) + (c % SECTOR)
    BY Remainder
  <2> QED BY <2>1
<1>5. d \in 0 .. size - 1
  <2>1. d >= 0
    BY <1>4
  <2>2. SECTOR * d < size * SECTOR
    BY <1>3, <1>4
  <2>3. d < size
    BY <2>2
  <2> QED BY <2>1, <2>3
<1>6. sector_buffer = first + d
  <2>1. fs.fat_start_lba = card.start + card.boot.reserved
    BY DEF OnVolume, geometry
  <2> QED BY <1>1, <1>2, <1>4, <2>1 DEF fat_sector, FirstFat
<1>7. sector_buffer < FirstData
  <2>1. FirstData = first + count * size
    BY <1>2 DEF FirstData
  <2>2. size * count >= size
    BY <1>3, Products
  <2> QED BY <1>5, <1>6, <2>1, <2>2
<1>8. (sector_buffer - FirstFat) % card.boot.fat_size = d
  <2>1. sector_buffer - FirstFat = (size * 0) + d
    BY <1>2, <1>5, <1>6
  <2>2. size \in Nat \ {0}
    BY <1>3
  <2>3. ((size * 0) + d) % size = d
    BY <1>5, <2>2, Divides
  <2> QED BY <1>2, <2>1, <2>3
<1>9. Cells(sector_buffer)[m] = FatEntry(c)
  <2>1. Cells(sector_buffer)[m] = FatEntry(d * SECTOR + m)
    BY <1>7, <1>8 DEF Cells
  <2>2. d * SECTOR + m = c
    BY <1>4
  <2> QED BY <2>1, <2>2
<1>10. FatEntry(c) = card.high * RESERVED + after
  <2>1. /\ c \in ToSet(chain) /\ Position(chain, c) = i
        /\ chain = card.file => c \notin ToSet(card.root)
    BY <1>1, ChainTyped DEF OnVolume
  <2>2. CASE chain = card.root
    BY <2>1, <2>2 DEF FatEntry, After
  <2>3. CASE chain = card.file
    BY <2>1, <2>3 DEF FatEntry, After
  <2> QED BY <2>2, <2>3
<1>11. after \in 0 .. RESERVED - 1
  <2>1. i # Len(chain) => chain[i + 1] \in Clusters
    BY ChainTyped DEF OnVolume
  <2> QED BY <2>1 DEF Clusters
<1>12. (RESERVED * card.high + after) % RESERVED = after
  <2>1. RESERVED \in Nat \ {0} /\ card.high \in Int
    BY CardTyped DEF OnVolume
  <2> HIDE DEF after
  <2> QED BY <1>11, <2>1, Divides
<1>13. card.high * RESERVED + after = RESERVED * card.high + after
  <2>1. RESERVED \in Nat \ {0} /\ card.high \in Int
    BY CardTyped DEF OnVolume
  <2> QED BY <1>11, <2>1
<1> QED BY <1>1, <1>4, <1>9, <1>10, <1>12, <1>13 DEF fat_entry

(* Where a sector of a cluster lies.                                       *)
LEMMA DataSector ==
    ASSUME OnVolume, NEW c \in Clusters, NEW s \in 0 .. card.boot.sectors_per_cluster - 1,
           NEW x, x = cluster_lba(c) + s
    PROVE  /\ x \in Nat /\ ~(x < FirstData)
           /\ 2 + ((x - FirstData) \div card.boot.sectors_per_cluster) = c
           /\ (x - FirstData) % card.boot.sectors_per_cluster = s
<1>1. PICK spc \in Nat \ {0}, first \in Nat :
        spc = card.boot.sectors_per_cluster /\ first = FirstData
  <2>1. card.boot.fat_count * card.boot.fat_size \in Nat
    BY CardTyped, Products DEF OnVolume
  <2>2. FirstFat \in Nat /\ card.boot.sectors_per_cluster \in Nat \ {0}
    <3>1. card.start \in Nat /\ card.boot.reserved \in Nat
      BY CardTyped DEF OnVolume
    <3>2. card.boot.sectors_per_cluster \in Nat \ {0}
      BY CardTyped DEF OnVolume
    <3> QED BY <3>1, <3>2 DEF FirstFat
  <2>3. FirstData \in Nat
    BY <2>1, <2>2 DEF FirstData
  <2> QED BY <2>2, <2>3
<1>2. fs.data_start_lba = first /\ fs.sectors_per_cluster = spc
  BY <1>1 DEF OnVolume, geometry, FirstData, FirstFat
<1>3. c - 2 \in Nat /\ 2 + (c - 2) = c /\ s \in 0 .. spc - 1
  BY <1>1 DEF Clusters
<1>4. PICK y \in Nat : y = spc * (c - 2) /\ (c - 2) * spc = y
  BY <1>3, Products
<1>5. cluster_lba(c) = first + y
  BY <1>2, <1>4 DEF cluster_lba
<1>6. x \in Nat /\ x >= first /\ x - first = y + s
  BY <1>3, <1>5
<1>7. (y + s) \div spc = c - 2 /\ (y + s) % spc = s
  <2>1. PICK k \in Int : k = c - 2
    BY <1>3
  <2>2. ((spc * k) + s) \div spc = k /\ ((spc * k) + s) % spc = s
    BY <1>3, Divides
  <2>3. y = spc * k
    BY <1>4, <2>1
  <2> QED BY <2>1, <2>2, <2>3
<1>8. ~(x < first)
  BY <1>6
<1> QED BY <1>1, <1>3, <1>6, <1>7, <1>8

(* What the sectors of the root directory and of the file hold.            *)
LEMMA RootCells ==
    ASSUME OnVolume, NEW i \in DOMAIN card.root,
           NEW s \in 0 .. card.boot.sectors_per_cluster - 1,
           sector_buffer = cluster_lba(card.root[i]) + s,
           NEW k \in 0 .. SECTOR - 1
    PROVE  LET p == (i - 1) * ClusterCells + (s * SECTOR + k) IN
           Cells(sector_buffer)[k] =
             IF p < Len(card.directory) THEN card.directory[p + 1] ELSE "slack"
<1>1. PICK c \in Clusters : c = card.root[i]
  BY ChainTyped DEF OnVolume
<1>2. c \in ToSet(card.root) /\ Position(card.root, c) = i
  BY <1>1, ChainTyped DEF OnVolume
<1>3. Cells(sector_buffer)[k] = Cell(card.root, card.directory, c, s * SECTOR + k)
  <2>1. /\ ~(sector_buffer < FirstData)
        /\ 2 + ((sector_buffer - FirstData) \div card.boot.sectors_per_cluster) = c
        /\ (sector_buffer - FirstData) % card.boot.sectors_per_cluster = s
    <3>1. sector_buffer = cluster_lba(c) + s
      BY <1>1
    <3> QED BY <3>1, DataSector
  <2> QED BY <1>2, <2>1 DEF Cells
<1> QED BY <1>2, <1>3 DEF Cell

LEMMA FileCells ==
    ASSUME OnVolume, NEW i \in DOMAIN card.file,
           NEW s \in 0 .. card.boot.sectors_per_cluster - 1,
           sector_buffer = cluster_lba(card.file[i]) + s,
           NEW k \in 0 .. SECTOR - 1,
           (i - 1) * ClusterCells + (s * SECTOR + k) \in 0 .. card.size - 1
    PROVE  Cells(sector_buffer)[k] = (i - 1) * ClusterCells + (s * SECTOR + k)
<1>1. PICK c \in Clusters : c = card.file[i]
  BY ChainTyped DEF OnVolume
<1>2. /\ c \notin ToSet(card.root) /\ c \in ToSet(card.file)
      /\ Position(card.file, c) = i
  BY <1>1, ChainTyped DEF OnVolume
<1>3. Cells(sector_buffer)[k] = Cell(card.file, Contents, c, s * SECTOR + k)
  <2>1. /\ ~(sector_buffer < FirstData)
        /\ 2 + ((sector_buffer - FirstData) \div card.boot.sectors_per_cluster) = c
        /\ (sector_buffer - FirstData) % card.boot.sectors_per_cluster = s
    <3>1. sector_buffer = cluster_lba(c) + s
      BY <1>1
    <3> QED BY <3>1, DataSector
  <2> QED BY <1>2, <2>1 DEF Cells
<1>4. PICK p \in 0 .. card.size - 1 : p = (i - 1) * ClusterCells + (s * SECTOR + k)
  OBVIOUS
<1>5. card.size \in Nat
  BY CardTyped DEF OnVolume
<1>6. p < Len(Contents) /\ Contents[p + 1] = p
  <2>1. PICK n \in Nat : n = card.size
    BY <1>5
  <2>2. p \in Int /\ 0 <= p /\ p < n /\ p + 1 \in 1 .. n /\ (p + 1) - 1 = p
    BY <1>4, <2>1
  <2>3. Contents = [q \in 1 .. n |-> q - 1]
    BY <2>1 DEF Contents
  <2>4. Len(Contents) = n
    BY <2>3
  <2>5. Contents[p + 1] = p
    BY <2>2, <2>3
  <2> QED BY <2>2, <2>4, <2>5
<1> QED BY <1>2, <1>3, <1>4, <1>6 DEF Cell
-----------------------------------------------------------------------------
(* The reading of a file name after n characters: the stem so far, or dot  *)
(* is the place of its dot, or it has been refused.                        *)
Fit(c) == c # "." /\ c \notin Unfit

Stem(name, n) == n <= 8 /\ \A k \in 1 .. n : Fit(name[k])

Dotted(name, n, dot) ==
    /\ dot \in 1 .. n /\ name[dot] = "." /\ dot - 1 \in 1 .. 8 /\ n - dot <= 3
    /\ \A k \in 1 .. n : k # dot => Fit(name[k])

Upper(name, from, to) == [k \in 1 .. to - from |-> fat_upper(name[from + k])]

InStem(base) == [refused |-> FALSE, extension |-> FALSE, base |-> base, after |-> <<>>]

Behind(base, after) == [refused |-> FALSE, extension |-> TRUE, base |-> base, after |-> after]

(* The piece of a name before the dot, and the one behind it.              *)
Base(name, dot) == Upper(name, 0, dot - 1)

ReadAs(name, n, s) ==
    /\ Stem(name, n) => s = InStem(Upper(name, 0, n))
    /\ \A dot \in 1 .. n : Dotted(name, n, dot) =>
         s = Behind(Base(name, dot), Upper(name, dot, n))
    /\ ~Stem(name, n) /\ (\A dot \in 1 .. n : ~Dotted(name, n, dot)) => s = Refused

LEMMA UpperTyped ==
    ASSUME NEW c \in Characters
    PROVE  fat_upper(c) \in Characters /\ (fat_upper(c) = "." <=> c = ".")
BY NameAssumption DEF fat_upper

LEMMA LongerBy ==
    ASSUME NEW S, NEW u \in Seq(S), NEW v \in Seq(S), Len(v) = Len(u) + 1,
           \A k \in 1 .. Len(u) : v[k] = u[k], NEW c \in S, v[Len(u) + 1] = c
    PROVE  v = Append(u, c)
OBVIOUS

LEMMA UpperPiece ==
    ASSUME NEW name \in Seq(Characters), NEW from \in Nat, NEW to \in Nat,
           from <= to, to <= Len(name)
    PROVE  /\ Upper(name, from, to) \in Seq(Characters) /\ Len(Upper(name, from, to)) = to - from
           /\ from = to => Upper(name, from, to) = <<>>
           /\ from < to => Upper(name, from, to) # <<>>
           /\ to < Len(name) =>
                Upper(name, from, to + 1) = Append(Upper(name, from, to), fat_upper(name[to + 1]))
<1>1. \A k \in 1 .. to - from : fat_upper(name[from + k]) \in Characters
  <2> TAKE k \in 1 .. to - from
  <2>1. from + k \in 1 .. Len(name)
    OBVIOUS
  <2>2. name[from + k] \in Characters
    BY <2>1
  <2> QED BY <2>2, UpperTyped
<1>2. Upper(name, from, to) \in Seq(Characters) /\ Len(Upper(name, from, to)) = to - from
  BY <1>1 DEF Upper
<1>3. from = to => Upper(name, from, to) = <<>>
  BY <1>2
<1>4. from < to => Upper(name, from, to) # <<>>
  BY <1>2
<1>5. ASSUME to < Len(name)
      PROVE  Upper(name, from, to + 1) = Append(Upper(name, from, to), fat_upper(name[to + 1]))
  <2>1. PICK u \in Seq(Characters) : u = Upper(name, from, to)
    BY <1>2
  <2>2. Len(u) = to - from /\ \A k \in 1 .. to - from : u[k] = fat_upper(name[from + k])
    BY <1>2, <2>1 DEF Upper
  <2>3. PICK c \in Characters : c = fat_upper(name[to + 1])
    <3>1. name[to + 1] \in Characters
      BY <1>5
    <3> QED BY <3>1, UpperTyped
  <2>4. to + 1 - from = (to - from) + 1 /\ from + ((to - from) + 1) = to + 1
    OBVIOUS
  <2>5. PICK v : v = Upper(name, from, to + 1)
    OBVIOUS
  <2>6. v = [k \in 1 .. (to - from) + 1 |-> fat_upper(name[from + k])]
    BY <2>4, <2>5 DEF Upper
  <2>7. v[(to - from) + 1] = c /\ \A k \in 1 .. to - from : v[k] = u[k]
    BY <2>2, <2>3, <2>4, <2>6
  <2>8. \A k \in 1 .. (to - from) + 1 : fat_upper(name[from + k]) \in Characters
    <3> TAKE k \in 1 .. (to - from) + 1
    <3>1. k \in 1 .. to - from \/ from + k = to + 1
      BY <2>4
    <3> QED BY <1>1, <2>3, <3>1
  <2>9. v \in Seq(Characters) /\ Len(v) = Len(u) + 1
    BY <2>2, <2>6, <2>8
  <2>10. v = Append(u, c)
    BY <2>2, <2>7, <2>9, LongerBy
  <2> QED BY <2>1, <2>3, <2>5, <2>10
<1> QED BY <1>2, <1>3, <1>4, <1>5

LEMMA UpperPieceOne ==
    ASSUME NEW name \in Seq(Characters), NEW m \in Nat, NEW d \in Nat, d <= m, m < Len(name)
    PROVE  /\ Upper(name, d, m) \in Seq(Characters)
           /\ Len(Upper(name, d, m)) = m - d
           /\ Upper(name, d, m + 1) = Append(Upper(name, d, m), fat_upper(name[m + 1]))
<1>0. m <= Len(name)
  OBVIOUS
<1>1. Upper(name, d, m) \in Seq(Characters)
  BY <1>0, UpperPiece
<1>2. Len(Upper(name, d, m)) = m - d
  BY <1>0, UpperPiece
<1>3. Upper(name, d, m + 1) = Append(Upper(name, d, m), fat_upper(name[m + 1]))
  BY <1>0, UpperPiece
<1> QED BY <1>1, <1>2, <1>3

LEMMA NextInStem ==
    ASSUME NEW base \in Seq(Characters), NEW c
    PROVE  /\ c = "." /\ base = <<>> => next_character(InStem(base), c) = Refused
           /\ c = "." /\ base # <<>> => next_character(InStem(base), c) = Behind(base, <<>>)
           /\ c # "." /\ (c \in Unfit \/ Len(base) >= 8) =>
                next_character(InStem(base), c) = Refused
           /\ Fit(c) /\ Len(base) < 8 =>
                next_character(InStem(base), c) = InStem(Append(base, fat_upper(c)))
<1>1. PICK s, f, g, none : /\ s = InStem(base) /\ f = FALSE /\ g = TRUE /\ none = <<>>
                           /\ s = [refused |-> f, extension |-> f, base |-> base, after |-> none]
  BY Zenon DEF InStem
<1>2. s = [refused |-> f, extension |-> f, base |-> base, after |-> none]
  BY <1>1
<1>3. s.refused = f /\ s.extension = f /\ s.base = base
  BY <1>2
<1>4. ~s.refused /\ ~s.extension /\ s.base = base
  BY <1>1, <1>3, Zenon
<1>5. [s EXCEPT !.extension = g] = [refused |-> f, extension |-> g, base |-> base, after |-> none]
  BY <1>2
<1>6. [s EXCEPT !.extension = TRUE] = Behind(base, <<>>)
  BY <1>1, <1>5, Zenon DEF Behind
<1>7. PICK y : y = Append(base, fat_upper(c))
  OBVIOUS
<1>8. [s EXCEPT !.base = y] = [refused |-> f, extension |-> f, base |-> y, after |-> none]
  BY <1>2
<1>9. [s EXCEPT !.base = Append(s.base, fat_upper(c))] = InStem(y)
  BY <1>1, <1>4, <1>7, <1>8, Zenon DEF InStem
<1>10. Len(base) \in Nat
  OBVIOUS
<1> QED BY <1>1, <1>4, <1>6, <1>7, <1>9, <1>10 DEF next_character, Fit

LEMMA NextBehind ==
    ASSUME NEW base, NEW after \in Seq(Characters), NEW c
    PROVE  /\ ~Fit(c) \/ Len(after) >= 3 => next_character(Behind(base, after), c) = Refused
           /\ Fit(c) /\ Len(after) < 3 =>
                next_character(Behind(base, after), c) = Behind(base, Append(after, fat_upper(c)))
<1>1. PICK s, f, g : /\ s = Behind(base, after) /\ f = FALSE /\ g = TRUE
                     /\ s = [refused |-> f, extension |-> g, base |-> base, after |-> after]
  BY Zenon DEF Behind
<1>2. s = [refused |-> f, extension |-> g, base |-> base, after |-> after]
  BY <1>1
<1>3. s.refused = f /\ s.extension = g /\ s.after = after
  BY <1>2
<1>4. ~s.refused /\ s.extension /\ s.after = after
  BY <1>1, <1>3, Zenon
<1>5. PICK y : y = Append(after, fat_upper(c))
  OBVIOUS
<1>6. [s EXCEPT !.after = y] = [refused |-> f, extension |-> g, base |-> base, after |-> y]
  BY <1>2
<1>7. [s EXCEPT !.after = Append(s.after, fat_upper(c))] = Behind(base, y)
  BY <1>1, <1>4, <1>5, <1>6, Zenon DEF Behind
<1>8. Len(after) \in Nat
  OBVIOUS
<1>9. ~Fit(c) \/ Len(after) >= 3 => next_character(s, c) = Refused
  BY <1>4, <1>8 DEF next_character, Fit
<1>10. Fit(c) /\ Len(after) < 3 => next_character(s, c) = Behind(base, y)
  <2>1. Fit(c) /\ Len(after) < 3 =>
          next_character(s, c) = [s EXCEPT !.after = Append(s.after, fat_upper(c))]
    BY <1>4, <1>8 DEF next_character, Fit
  <2> QED BY <1>7, <2>1
<1> QED BY <1>1, <1>5, <1>9, <1>10

LEMMA NextRefused ==
    ASSUME NEW c
    PROVE  next_character(Refused, c) = Refused
BY DEF next_character, Refused

(* One character more.                                                     *)
LEMMA OneMore ==
    ASSUME NEW name \in Seq(Characters), NEW n \in 1 .. Len(name), NEW s,
           ReadAs(name, n - 1, s)
    PROVE  ReadAs(name, n, next_character(s, name[n]))
<1> PICK c \in Characters : c = name[n]
  OBVIOUS
<1> PICK t : t = next_character(s, c)
  OBVIOUS
<1>0. /\ n - 1 \in Nat /\ n \in Nat /\ (n - 1) + 1 = n /\ n <= Len(name)
      /\ \A k \in 1 .. n : k = n \/ k \in 1 .. n - 1
      /\ \A k \in 1 .. n - 1 : k \in 1 .. n /\ k # n
  OBVIOUS
<1>1. Stem(name, n) <=> Stem(name, n - 1) /\ n <= 8 /\ Fit(c)
  BY <1>0 DEF Stem
<1>2. ASSUME NEW dot \in 1 .. n - 1
      PROVE  Dotted(name, n, dot) <=> Dotted(name, n - 1, dot) /\ Fit(c) /\ n - dot <= 3
  BY <1>0 DEF Dotted
<1>3. Dotted(name, n, n) <=> c = "." /\ n > 1 /\ Stem(name, n - 1)
  BY <1>0 DEF Dotted, Stem
<1>4. \A dot \in 1 .. n : dot = n \/ dot \in 1 .. n - 1
  OBVIOUS
<1>5. CASE Stem(name, n - 1)
  <2>1. PICK base \in Seq(Characters) : base = Upper(name, 0, n - 1) /\ Len(base) = n - 1
    BY <1>0, UpperPiece
  <2>2. t = next_character(InStem(base), c)
    BY <1>5, <2>1 DEF ReadAs
  <2>4. ASSUME NEW dot \in 1 .. n - 1 PROVE ~Dotted(name, n, dot)
    BY <1>5, <1>2 DEF Stem, Dotted, Fit
  <2>5. CASE Fit(c) /\ n <= 8
    <3>1. t = InStem(Append(base, fat_upper(c)))
      BY <2>1, <2>2, <2>5, NextInStem
    <3>2. Append(base, fat_upper(c)) = Upper(name, 0, n)
      BY <1>0, <2>1, UpperPiece
    <3>3. Stem(name, n) /\ ~Dotted(name, n, n)
      BY <1>1, <1>3, <1>5, <2>5 DEF Fit
    <3> QED BY <1>4, <2>4, <3>1, <3>2, <3>3 DEF ReadAs
  <2>6. CASE c = "." /\ n > 1
    <3>1. t = Behind(base, <<>>)
      BY <2>1, <2>2, <2>6, NextInStem
    <3>2. Base(name, n) = base /\ Upper(name, n, n) = <<>>
      BY <1>0, <2>1, UpperPiece DEF Base
    <3>3. Dotted(name, n, n) /\ ~Stem(name, n)
      BY <1>1, <1>3, <1>5, <2>6 DEF Fit
    <3> QED BY <1>4, <2>4, <3>1, <3>2, <3>3 DEF ReadAs
  <2>7. CASE ~(Fit(c) /\ n <= 8) /\ ~(c = "." /\ n > 1)
    <3>1. t = Refused
      BY <2>1, <2>2, <2>7, NextInStem DEF Fit
    <3>3. ~Dotted(name, n, n) /\ ~Stem(name, n)
      BY <1>1, <1>3, <2>7
    <3> QED BY <1>4, <2>4, <3>1, <3>3 DEF ReadAs
  <2> QED BY <2>5, <2>6, <2>7
<1>6. CASE ~Stem(name, n - 1) /\ \E dot \in 1 .. n - 1 : Dotted(name, n - 1, dot)
  <2>1. PICK dot \in 1 .. n - 1 : Dotted(name, n - 1, dot)
    BY <1>6
  <2>2. dot \in 1 .. n /\ dot - 1 \in Nat /\ dot - 1 <= Len(name) /\ dot <= n - 1 /\ dot \in Nat
    OBVIOUS
  <2>3. PICK base \in Seq(Characters) : base = Base(name, dot)
    BY <2>2, UpperPiece DEF Base
  <2>12. PICK m \in Nat : /\ m = n - 1 /\ m + 1 = n /\ dot <= m
                          /\ m < Len(name) /\ m <= Len(name)
    BY <1>0, <2>2
  <2>11. /\ Upper(name, dot, m) \in Seq(Characters) /\ Len(Upper(name, dot, m)) = m - dot
         /\ Upper(name, dot, m + 1) = Append(Upper(name, dot, m), fat_upper(name[m + 1]))
    BY <2>2, <2>12, UpperPieceOne
  <2>4. PICK after \in Seq(Characters) : after = Upper(name, dot, n - 1) /\ Len(after) = n - 1 - dot
    BY <2>12, <2>11
  <2>5. t = next_character(Behind(base, after), c)
    BY <2>1, <2>3, <2>4 DEF ReadAs
  <2>7. ~Stem(name, n) /\ ~Dotted(name, n, n)
    BY <1>1, <1>3, <1>6
  <2>8. ASSUME NEW other \in 1 .. n, Dotted(name, n, other) PROVE other = dot
    <3>1. other \in 1 .. n - 1
      BY <1>4, <2>7, <2>8
    <3> QED BY <2>1, <2>8, <3>1 DEF Dotted, Fit
  <2>9. CASE Fit(c) /\ n - dot <= 3
    <3>1. t = Behind(base, Append(after, fat_upper(c)))
      BY <2>2, <2>4, <2>5, <2>9, NextBehind
    <3>2. Append(after, fat_upper(c)) = Upper(name, dot, n)
      BY <2>4, <2>12, <2>11
    <3>3. Dotted(name, n, dot)
      BY <1>2, <2>1, <2>9
    <3> QED BY <2>2, <2>3, <2>7, <2>8, <3>1, <3>2, <3>3 DEF ReadAs
  <2>10. CASE ~(Fit(c) /\ n - dot <= 3)
    <3>1. t = Refused
      BY <2>2, <2>4, <2>5, <2>10, NextBehind
    <3>2. \A other \in 1 .. n : ~Dotted(name, n, other)
      BY <1>2, <2>8, <2>10
    <3> QED BY <2>7, <3>1, <3>2 DEF ReadAs
  <2> QED BY <2>9, <2>10
<1>7. CASE ~Stem(name, n - 1) /\ \A dot \in 1 .. n - 1 : ~Dotted(name, n - 1, dot)
  <2>1. s = Refused
    BY <1>7 DEF ReadAs
  <2>2. t = Refused
    BY <2>1, NextRefused
  <2>3. ~Stem(name, n) /\ \A dot \in 1 .. n : ~Dotted(name, n, dot)
    BY <1>1, <1>2, <1>3, <1>4, <1>7
  <2> QED BY <2>2, <2>3 DEF ReadAs
<1> QED BY <1>5, <1>6, <1>7

(* What has been read of a name, in one piece; there is one answer.        *)
ReadOf(name, n) ==
    IF Stem(name, n) THEN InStem(Upper(name, 0, n))
    ELSE IF \E dot \in 1 .. n : Dotted(name, n, dot)
         THEN LET dot == CHOOSE dot \in 1 .. n : Dotted(name, n, dot)
              IN  Behind(Base(name, dot), Upper(name, dot, n))
         ELSE Refused

LEMMA OneDot ==
    ASSUME NEW name, NEW n, NEW dot, Dotted(name, n, dot)
    PROVE  /\ ~Stem(name, n)
           /\ \A other : Dotted(name, n, other) => other = dot
BY DEF Dotted, Stem, Fit

LEMMA ReadAsIs ==
    ASSUME NEW name, NEW n, NEW s
    PROVE  ReadAs(name, n, s) <=> s = ReadOf(name, n)
<1>1. CASE Stem(name, n)
  <2>1. \A dot \in 1 .. n : ~Dotted(name, n, dot)
    BY <1>1, OneDot
  <2> QED BY <1>1, <2>1 DEF ReadAs, ReadOf
<1>2. CASE ~Stem(name, n) /\ \E dot \in 1 .. n : Dotted(name, n, dot)
  <2>1. PICK dot \in 1 .. n : dot = CHOOSE k \in 1 .. n : Dotted(name, n, k)
    BY <1>2
  <2>2. Dotted(name, n, dot)
    BY <1>2, <2>1
  <2>3. ReadOf(name, n) = Behind(Base(name, dot), Upper(name, dot, n))
    BY <1>2, <2>1 DEF ReadOf
  <2> QED BY <1>2, <2>2, <2>3, OneDot DEF ReadAs
<1>3. CASE ~Stem(name, n) /\ \A dot \in 1 .. n : ~Dotted(name, n, dot)
  BY <1>3 DEF ReadAs, ReadOf
<1> QED BY <1>1, <1>2, <1>3

LEMMA ReadOfNext ==
    ASSUME NEW name \in Seq(Characters)
    PROVE  /\ ReadOf(name, 0) = InStem(<<>>)
           /\ \A n \in 1 .. Len(name) :
                ReadOf(name, n) = next_character(ReadOf(name, n - 1), name[n])
<1>1. Stem(name, 0)
  BY DEF Stem
<1>2. Upper(name, 0, 0) = <<>>
  BY UpperPiece
<1>3. ReadOf(name, 0) = InStem(<<>>)
  BY <1>1, <1>2 DEF ReadOf
<1>4. ASSUME NEW n \in 1 .. Len(name)
      PROVE  ReadOf(name, n) = next_character(ReadOf(name, n - 1), name[n])
  <2>1. PICK s : s = ReadOf(name, n - 1)
    OBVIOUS
  <2>2. ReadAs(name, n - 1, s)
    BY <2>1, ReadAsIs
  <2>3. ReadAs(name, n, next_character(s, name[n]))
    BY <2>2, OneMore
  <2>4. next_character(s, name[n]) = ReadOf(name, n)
    BY <2>3, ReadAsIs
  <2> QED BY <2>1, <2>4
<1> QED BY <1>3, <1>4

(* A whole name is a stem, a dot and one to three characters, or refused.  *)
ShortNameOf(s) ==
    IF s.refused THEN NULL
    ELSE IF s.base = <<>> \/ s.after = <<>> THEN NULL ELSE <<s.base, s.after>>

LEMMA WholeName ==
    ASSUME NEW name \in Seq(Characters)
    PROVE  fat_make_short_name(name) = ShortNameOf(ReadOf(name, Len(name)))
<1> DEFINE N == Len(name)
           Def(g) == [n \in 0 .. N |->
                        IF n = 0
                        THEN [refused |-> FALSE, extension |-> FALSE, base |-> <<>>, after |-> <<>>]
                        ELSE next_character(g[n - 1], name[n])]
           before == CHOOSE g : g = Def(g)
<1>1. N \in Nat
  OBVIOUS
<1>2. fat_make_short_name(name) = ShortNameOf(before[N])
  BY DEF fat_make_short_name, ShortNameOf
<1> HIDE DEF N
<1>3. PICK first : first = InStem(<<>>)
  OBVIOUS
<1>4. \A g : Def(g) = [n \in 0 .. N |-> IF n = 0 THEN first
                                        ELSE next_character(g[n - 1], name[n])]
  BY <1>3, Zenon DEF InStem
<1> HIDE DEF Def
<1> DEFINE read == [n \in 0 .. N |-> ReadOf(name, n)]
<1>5. read[0] = first /\ \A n \in 1 .. N : read[n] = next_character(read[n - 1], name[n])
  <2>1. \A n \in 1 .. N : n - 1 \in 0 .. N /\ n \in 0 .. N
    BY <1>1
  <2> QED BY <1>1, <1>3, <2>1, ReadOfNext DEF N
<1>6. before = Def(before)
  <2>1. \A n \in 0 .. N : n = 0 \/ n \in 1 .. N
    BY <1>1
  <2>2. read = [n \in 0 .. N |-> read[n]]
    OBVIOUS
  <2>3. read = [n \in 0 .. N |-> IF n = 0 THEN first ELSE next_character(read[n - 1], name[n])]
    <3> HIDE DEF read
    <3> QED BY <1>5, <2>1, <2>2
  <2> HIDE DEF read
  <2>4. read = Def(read)
    BY <1>4, <2>3
  <2> QED BY <2>4
<1> HIDE DEF before
<1>7. before[0] = first /\ \A n \in 1 .. N : before[n] = next_character(before[n - 1], name[n])
  <2>1. before = [n \in 0 .. N |-> IF n = 0 THEN first
                                   ELSE next_character(before[n - 1], name[n])]
    BY <1>4, <1>6
  <2>2. 0 \in 0 .. N /\ \A n \in 1 .. N : n # 0 /\ n \in 0 .. N
    BY <1>1
  <2> QED BY <2>1, <2>2
<1> DEFINE same == {n \in 0 .. N : before[n] = read[n]}
<1> HIDE DEF read
<1>8. 0 \in same
  BY <1>1, <1>5, <1>7
<1>9. \A n \in 1 .. N : n - 1 \in same => n \in same
  <2> TAKE n \in 1 .. N
  <2>1. n \in 0 .. N
    BY <1>1
  <2> QED BY <1>5, <1>7, <2>1
<1> HIDE DEF same
<1>10. 0 .. N \subseteq same
  BY <1>1, <1>8, <1>9, InductionOnSet
<1>11. before[N] = read[N]
  BY <1>1, <1>10 DEF same
<1>12. read[N] = ReadOf(name, N)
  BY <1>1 DEF read
<1> QED BY <1>2, <1>11, <1>12 DEF N

LEMMA ShortNames ==
    ASSUME NEW name \in Seq(Characters)
    PROVE  /\ \A dot \in DOMAIN name :
                Dotted(name, Len(name), dot) /\ dot < Len(name) =>
                  fat_make_short_name(name) = <<Base(name, dot), Upper(name, dot, Len(name))>>
           /\ fat_make_short_name(name) # NULL =>
                \E dot \in DOMAIN name : Dotted(name, Len(name), dot) /\ dot < Len(name)
<1>1. PICK n \in Nat : n = Len(name) /\ DOMAIN name = 1 .. n
  OBVIOUS
<1>2. PICK s : s = ReadOf(name, n)
  OBVIOUS
<1>3. ReadAs(name, n, s) /\ fat_make_short_name(name) = ShortNameOf(s)
  BY <1>1, <1>2, ReadAsIs, WholeName
<1>4. ASSUME NEW base, NEW after
      PROVE  /\ ShortNameOf(InStem(base)) = NULL
             /\ base # <<>> /\ after # <<>> => ShortNameOf(Behind(base, after)) = <<base, after>>
             /\ after = <<>> => ShortNameOf(Behind(base, after)) = NULL
  <2>1. PICK f, g, none : /\ f = FALSE /\ g = TRUE /\ none = <<>>
                          /\ InStem(base) = [refused |-> f, extension |-> f, base |-> base, after |-> none]
                          /\ Behind(base, after) =
                               [refused |-> f, extension |-> g, base |-> base, after |-> after]
    BY Zenon DEF InStem, Behind
  <2>2. /\ InStem(base).refused = f /\ InStem(base).after = none
        /\ Behind(base, after).refused = f /\ Behind(base, after).base = base
        /\ Behind(base, after).after = after
    BY <2>1
  <2>3. /\ ~InStem(base).refused /\ InStem(base).after = <<>>
        /\ ~Behind(base, after).refused
    BY <2>1, <2>2, Zenon
  <2> QED BY <2>2, <2>3 DEF ShortNameOf
<1>5. ShortNameOf(Refused) = NULL
  BY DEF ShortNameOf, Refused
<1>6. ASSUME NEW dot \in 1 .. n, Dotted(name, n, dot), dot < n
      PROVE  ShortNameOf(s) = <<Base(name, dot), Upper(name, dot, n)>>
  <2>1. s = Behind(Base(name, dot), Upper(name, dot, n))
    BY <1>3, <1>6 DEF ReadAs
  <2>2. dot \in Nat /\ dot - 1 \in Nat /\ 0 < dot - 1 /\ dot - 1 <= Len(name) /\ n <= Len(name)
    BY <1>1, <1>6 DEF Dotted
  <2>3. Base(name, dot) # <<>> /\ Upper(name, dot, n) # <<>>
    BY <1>1, <1>6, <2>2, UpperPiece DEF Base
  <2> QED BY <1>4, <2>1, <2>3
<1>7. ASSUME ShortNameOf(s) # NULL
      PROVE  \E dot \in 1 .. n : Dotted(name, n, dot) /\ dot < n
  <2>1. PICK dot \in 1 .. n : Dotted(name, n, dot)
    BY <1>3, <1>4, <1>5, <1>7 DEF ReadAs
  <2>2. CASE dot = n
    <3>1. s = Behind(Base(name, dot), Upper(name, dot, n))
      BY <1>3, <2>1 DEF ReadAs
    <3>2. Upper(name, dot, n) = <<>>
      BY <1>1, <2>2, UpperPiece
    <3> QED BY <1>4, <1>7, <3>1, <3>2
  <2> QED BY <2>1, <2>2
<1> QED BY <1>1, <1>3, <1>6, <1>7

(* A piece before a mark and one behind it, found again in the whole.      *)
LEMMA Pieces ==
    ASSUME NEW S, NEW x \in S, NEW b \in Seq(S), NEW a \in Seq(S), NEW n, n = Len(b),
           NEW w, w = b \o <<x>> \o a
    PROVE  /\ w \in Seq(S) /\ Len(w) = n + 1 + Len(a)
           /\ n \in Nat /\ Len(a) \in Nat
           /\ w[n + 1] = x
           /\ \A k \in 1 .. n : w[k] = b[k]
           /\ \A k \in 1 .. Len(a) : w[n + 1 + k] = a[k]
<1>1. n \in Nat /\ Len(a) \in Nat
  OBVIOUS
<1>2. PICK m \in Seq(S) : m = b \o <<x>>
  <2>1. <<x>> \in Seq(S)
    OBVIOUS
  <2>2. PICK y \in Seq(S) : y = <<x>>
    BY <2>1
  <2>3. b \o y \in Seq(S)
    OBVIOUS
  <2> QED BY <2>2, <2>3
<1>3. Len(m) = n + 1
  BY <1>2
<1>4. m[n + 1] = x
  BY <1>2
<1>5. \A k \in 1 .. n : m[k] = b[k]
  BY <1>2
<1>6. w = m \o a /\ w \in Seq(S)
  BY <1>2
<1>7. Len(w) = n + 1 + Len(a)
  BY <1>3, <1>6
<1>8. \A k \in 1 .. n + 1 : w[k] = m[k]
  BY <1>3, <1>6
<1>9. \A k \in 1 .. Len(a) : w[n + 1 + k] = a[k]
  BY <1>3, <1>6
<1>10. w[n + 1] = x
  BY <1>1, <1>4, <1>8
<1>11. \A k \in 1 .. n : w[k] = b[k]
  BY <1>1, <1>5, <1>8
<1> QED BY <1>1, <1>6, <1>7, <1>9, <1>10, <1>11

LEMMA SameElements ==
    ASSUME NEW S, NEW s \in Seq(S), NEW t \in Seq(S), Len(s) = Len(t),
           \A k \in 1 .. Len(s) : s[k] = t[k]
    PROVE  s = t
OBVIOUS

LEMMA SplitAtMark ==
    ASSUME NEW S, NEW x \in S, NEW b \in Seq(S), NEW a \in Seq(S),
           NEW c \in Seq(S), NEW d \in Seq(S),
           x \notin ToSet(b) /\ x \notin ToSet(c),
           b \o <<x>> \o a = c \o <<x>> \o d
    PROVE  b = c /\ a = d
<1>1. PICK n \in Nat, m \in Nat : n = Len(b) /\ m = Len(c)
  OBVIOUS
<1>2. PICK w : w = b \o <<x>> \o a /\ w = c \o <<x>> \o d
  OBVIOUS
<1>18. x \in S /\ b \in Seq(S) /\ a \in Seq(S) /\ n = Len(b) /\ w = b \o <<x>> \o a
  BY <1>1, <1>2
<1>19. x \in S /\ c \in Seq(S) /\ d \in Seq(S) /\ m = Len(c) /\ w = c \o <<x>> \o d
  BY <1>1, <1>2
<1>3. Len(w) = n + 1 + Len(a) /\ w[n + 1] = x
  BY ONLY <1>18, Pieces
<1>11. \A k \in 1 .. n : w[k] = b[k]
  BY ONLY <1>18, Pieces
<1>12. \A k \in 1 .. Len(a) : w[n + 1 + k] = a[k]
  BY ONLY <1>18, Pieces
<1>16. Len(w) = m + 1 + Len(d)
  BY ONLY <1>19, Pieces
<1>17. w[m + 1] = x
  BY ONLY <1>19, Pieces
<1>4. Len(w) = m + 1 + Len(d) /\ w[m + 1] = x
  BY <1>16, <1>17
<1>13. \A k \in 1 .. m : w[k] = c[k]
  BY ONLY <1>19, Pieces
<1>14. \A k \in 1 .. Len(d) : w[m + 1 + k] = d[k]
  BY ONLY <1>19, Pieces
<1>15. DOMAIN b = 1 .. n /\ DOMAIN c = 1 .. m
  BY <1>1
<1>5. \A k \in 1 .. n : b[k] # x
  BY <1>15 DEF ToSet
<1>6. \A k \in 1 .. m : c[k] # x
  BY <1>15 DEF ToSet
<1>7. n = m
  <2>1. CASE n < m
    <3>1. n + 1 \in 1 .. m
      BY <2>1
    <3> QED BY <1>3, <1>13, <1>6, <3>1
  <2>2. CASE m < n
    <3>1. m + 1 \in 1 .. n
      BY <2>2
    <3> QED BY <1>4, <1>11, <1>5, <3>1
  <2> QED BY <2>1, <2>2
<1>8. b = c
  <2>1. b \in Seq(S) /\ c \in Seq(S) /\ Len(b) = Len(c)
    BY <1>1, <1>7
  <2>2. \A k \in 1 .. Len(b) : b[k] = c[k]
    BY <1>1, <1>7, <1>11, <1>13
  <2> QED BY ONLY <2>1, <2>2, SameElements
<1>9. Len(a) \in Nat /\ Len(d) \in Nat /\ Len(a) = Len(d)
  BY <1>3, <1>4, <1>7
<1>10. a = d
  <2>1. a \in Seq(S) /\ d \in Seq(S) /\ Len(a) = Len(d)
    BY <1>9
  <2>2. \A k \in 1 .. Len(a) : a[k] = d[k]
    BY <1>7, <1>9, <1>12, <1>14
  <2> QED BY ONLY <2>1, <2>2, SameElements
<1> QED BY <1>8, <1>10

(* A name with one dot, in capitals, is its two pieces around the dot.     *)
LEMMA DottedPieces ==
    ASSUME NEW name \in Seq(Characters), NEW dot \in DOMAIN name,
           Dotted(name, Len(name), dot)
    PROVE  /\ Upper(name, 0, Len(name)) = Base(name, dot) \o <<".">> \o Upper(name, dot, Len(name))
           /\ Base(name, dot) \in Seq(Characters) /\ Upper(name, dot, Len(name)) \in Seq(Characters)
           /\ "." \in Characters /\ "." \notin ToSet(Base(name, dot))
<1>1. PICK n \in Nat : n = Len(name) /\ dot \in 1 .. n /\ dot - 1 \in Nat /\ dot \in Nat
                       /\ dot <= n /\ dot - 1 <= n
  OBVIOUS
<1>2. name[dot] = "." /\ \A k \in 1 .. n : name[k] \in Characters /\ (k # dot => name[k] # ".")
  BY <1>1 DEF Dotted, Fit
<1>3. PICK b \in Seq(Characters) : b = Base(name, dot) /\ Len(b) = dot - 1
  BY <1>1, UpperPiece DEF Base
<1>4. PICK a \in Seq(Characters) : a = Upper(name, dot, n) /\ Len(a) = n - dot
  BY <1>1, UpperPiece
<1>5. PICK u \in Seq(Characters) : u = Upper(name, 0, n) /\ Len(u) = n
  BY <1>1, UpperPiece
<1>6. \A k \in 1 .. n : u[k] = fat_upper(name[k])
  BY <1>5 DEF Upper
<1>7. \A k \in 1 .. dot - 1 : b[k] = fat_upper(name[k]) /\ k \in 1 .. n /\ k # dot
  BY <1>1, <1>3 DEF Base, Upper
<1>8. \A k \in 1 .. n - dot : a[k] = fat_upper(name[dot + k]) /\ dot + k \in 1 .. n
  BY <1>1, <1>4 DEF Upper
<1>9. fat_upper(name[dot]) = "." /\ "." \in Characters
  BY <1>1, <1>2, UpperTyped
<1>10. "." \notin ToSet(b)
  BY <1>2, <1>3, <1>7, UpperTyped DEF ToSet
<1>11. PICK w : w = b \o <<".">> \o a
  OBVIOUS
<1>15. PICK m \in Nat : m = dot - 1 /\ m + 1 = dot
  BY <1>1
<1>19. m = Len(b) /\ "." \in Characters /\ b \in Seq(Characters) /\ a \in Seq(Characters)
  BY <1>3, <1>9, <1>15
<1>20. w \in Seq(Characters) /\ Len(w) = m + 1 + Len(a)
  BY ONLY <1>11, <1>19, Pieces
<1>12. w[m + 1] = "."
  BY ONLY <1>11, <1>19, Pieces
<1>16. \A k \in 1 .. m : w[k] = b[k]
  BY ONLY <1>11, <1>19, Pieces
<1>17. \A k \in 1 .. Len(a) : w[m + 1 + k] = a[k]
  BY ONLY <1>11, <1>19, Pieces
<1>18. Len(w) = n /\ w[dot] = "." /\ \A k \in 1 .. n - dot : w[dot + k] = a[k]
  <2>1. Len(a) = n - dot /\ m + 1 = dot
    BY <1>4, <1>15
  <2>2. Len(w) = n
    <3>1. PICK z, y : z = Len(w) /\ y = Len(a)
      OBVIOUS
    <3>2. z = m + 1 + y /\ y = n - dot /\ m + 1 = dot
      BY <1>20, <2>1, <3>1
    <3>3. m \in Int /\ n \in Int /\ dot \in Int
      BY <1>1
    <3>4. z = n
      BY ONLY <3>2, <3>3
    <3> QED BY <3>1, <3>4
  <2>3. \A k \in 1 .. n - dot : m + 1 + k = dot + k
    BY <2>1
  <2>4. \A k \in 1 .. n - dot : w[dot + k] = a[k]
    BY <1>17, <2>1, <2>3
  <2> QED BY <1>12, <2>1, <2>2, <2>4
<1>13. ASSUME NEW k \in 1 .. n
       PROVE  u[k] = w[k]
  <2>1. CASE k = dot
    BY <1>1, <1>6, <1>9, <1>18, <2>1
  <2>2. CASE k < dot
    <3>1. k \in 1 .. dot - 1
      BY <1>1, <2>2
    <3> QED BY <1>6, <1>7, <1>15, <1>16, <3>1
  <2>3. CASE k > dot
    <3>1. PICK j \in 1 .. n - dot : k = dot + j
      <4>1. k - dot \in 1 .. n - dot /\ k = dot + (k - dot)
        BY <1>1, <2>3
      <4> QED BY <4>1
    <3> QED BY <1>6, <1>8, <1>18, <3>1
  <2> QED BY <1>1, <2>1, <2>2, <2>3
<1>14. u = w
  BY <1>5, <1>13, <1>18, <1>20
<1> QED BY <1>1, <1>3, <1>4, <1>5, <1>9, <1>10, <1>11, <1>14
-----------------------------------------------------------------------------
(***************************************************************************)
(* The invariant, and what each function and each command keeps of it.     *)
(***************************************************************************)
Searching == {"find", "next_cluster"}
Reading   == {"ask", "skip", "copy", "advance", "read"}
Opening   == {"open", "opened"} \cup Searching
Mounting  == {"mount", "boot", "partition", "mounted"}
Filing    == Mounting \cup Opening \cup Reading

Commands  == {"CMD0", "CMD8", "CMD55", "ACMD41", "CMD58", "CMD16"}

Slots == [mode : Modes, busy : Nat, app : BOOLEAN, length : Nat \ {0}]

(* The card has been met in this load.                                     *)
Met == (at = "init" /\ step # "begin") \/ at \in Filing

CardSide ==
    /\ card \in Cards /\ slot \in Slots /\ noise \in BOOLEAN
    /\ at \in {"idle", "init", "reply"} \cup Filing
    /\ step \in Commands \cup {"begin", "done", "failed"}
    /\ version2 \in BOOLEAN /\ sd_block_addressing \in BOOLEAN
    /\ tries \in 0 .. Max({CMD0_TRIES, ACMD41_TRIES}) - 1
    /\ sd_block_addressing => version2
    /\ at \in Filing => step = "done"

(* What is known of the card at each command, whatever was lost.           *)
Negotiated ==
    Met =>
    /\ step \in Commands => ~sd_block_addressing
    /\ step \in {"CMD0", "CMD8"} => ~version2
    /\ step \in {"CMD55", "ACMD41", "CMD58", "CMD16", "done"} =>
         (version2 <=> card.kind \in {"SDHC", "SDSC2"})
    /\ step = "done" => (sd_block_addressing <=> HighCapacity)

Learnt ==
    Met =>
    /\ step \in {"CMD0", "CMD8", "CMD55", "ACMD41"} => speed = "slow"
    /\ step \in {"CMD8", "CMD55", "ACMD41"} => slot.mode # "ready"
    /\ step \in {"CMD55", "ACMD41", "CMD58", "CMD16", "done"} => card.kind # "low_voltage"
    /\ step = "CMD8" => tries = 0 /\ (slot.mode = "idle" => slot.busy = card.busy)
    /\ step \in {"CMD55", "ACMD41"} =>
         tries < ACMD41_TRIES /\ (slot.mode = "idle" => card.busy <= slot.busy + tries)
    /\ step = "ACMD41" => card.kind # "MMC"
    /\ step \in {"CMD58", "CMD16", "done"} => Usable
    /\ step = "CMD16" => ~HighCapacity
    /\ step = "done" /\ slot.mode = "ready" /\ ~HighCapacity => slot.length = FAT32_SECTOR_SIZE

Disturbed == noise \/ slot.mode = "absent"

(* With nothing lost and no card moved, the card is where the driver is.   *)
InStep ==
    Met /\ ~Disturbed =>
    /\ step \in {"CMD8", "CMD55", "ACMD41"} => slot.mode = "idle"
    /\ step \in {"CMD55", "ACMD41"} =>
         slot.busy = 0 \/ slot.busy + tries = card.busy \/ card.kind = "MMC"
    /\ step = "ACMD41" => slot.app
    /\ step \in {"CMD58", "CMD16", "done"} => slot.mode = "ready"
    /\ step = "failed" => ~Usable

Asked ==
    /\ disk \in {"idle", "read", "failed"}
    /\ disk = "read" => lba # NULL /\ sector_buffer = lba
    /\ disk = "failed" => lba # NULL /\ Disturbed

(* The locals that no function has touched yet.                            *)
Untouched ==
    /\ at \in {"idle", "init", "open"} \cup Mounting =>
         sector_index = 0 /\ cluster = 0 /\ file = NULL
    /\ at \in {"idle", "init", "ask"} \cup Mounting \cup Opening =>
         skip_clusters = 0 /\ inside_cluster = 0 /\ length = 0 /\ got = <<>>
    /\ at \in {"idle", "init"} \cup Mounting => filename = NULL

Mounted ==
    /\ fs # NULL => /\ fs.sectors_per_cluster \in Nat
                    /\ sector_index \in 0 .. fs.sectors_per_cluster - 1
    /\ at \in Opening \cup Reading \/ (at = "mounted" /\ status = "ok") =>
         /\ fs = geometry(card.boot, card.start) /\ Formatted
         /\ sector_index \in 0 .. card.boot.sectors_per_cluster - 1
    /\ at = "partition" =>
         /\ boot_lba \in Nat
         /\ boot_lba = card.start \/ ~looks_like_fat32(card.boot)
    /\ at = "mounted" /\ status = "error" => Disturbed \/ ~Formatted

(* None of the first n entries of the directory decides.                   *)
Passed(n) == \A k \in DOMAIN card.directory : k <= n => ~decides(card.directory[k])

Searched ==
    /\ at \in Searching \cup Reading => filename \in Names /\ ShortName[filename] # NULL
    /\ at = "opened" => filename \in Names
    /\ at \in Searching => file = NULL
    /\ at = "find" =>
         \/ \E i \in DOMAIN card.root :
              cluster = card.root[i] /\ Passed((i - 1) * ClusterCells + sector_index * SECTOR)
         \/ cluster = EOC /\ sector_index = 0 /\ Passed(Len(card.directory))
    /\ at = "next_cluster" =>
         /\ sector_index = 0
         /\ \E i \in DOMAIN card.root : cluster = card.root[i] /\ Passed(i * ClusterCells)

TheFile == [first_cluster |-> card.file[1], size |-> card.size]

Found ==
    /\ at = "opened" => status \in {"ok", "error", "not_found", "invalid_name"}
    /\ at = "opened" /\ status # "ok" => file = NULL
    /\ at = "opened" /\ status = "invalid_name" => ~Name83(filename)
    /\ at = "opened" /\ status # "invalid_name" => ShortName[filename] # NULL
    /\ at = "opened" /\ status = "error" =>
         Disturbed \/ (CalledSo /\ Listed # {} /\ FirstListed = "empty")
    /\ at \in Reading \/ (at = "opened" /\ status = "ok") =>
         /\ file = TheFile /\ card.file # <<>>
         /\ CalledSo /\ Listed # {} /\ FirstListed = "wanted"

(* Position p of the file is byte n of the i-th cluster of the chain.      *)
Lies(p, i, n) == (i - 1) * ClusterCells + n = p

Copied ==
    /\ at \in Reading \ {"ask"} =>
         /\ ask \in [offset : Nat, length : Nat \ {0}]
         /\ inside_cluster \in 0 .. ClusterCells
         /\ length \in Nat
    /\ at \in Reading \ {"ask", "read"} => inside(ask.offset, ask.length)
    /\ at = "skip" =>
         /\ got = <<>> /\ length = ask.length /\ inside_cluster < ClusterCells
         /\ skip_clusters \in Nat
         /\ \E i \in DOMAIN card.file :
              cluster = card.file[i] /\ Lies(ask.offset, i + skip_clusters, inside_cluster)
    /\ at \in {"copy", "advance"} =>
         /\ length <= ask.length
         /\ got = [p \in 1 .. ask.length - length |-> ask.offset + p - 1]
         /\ at = "advance" => inside_cluster = ClusterCells
         /\ length > 0 /\ at = "copy" => inside_cluster < ClusterCells
         /\ at = "advance" => length > 0
         /\ \E i \in DOMAIN card.file :
              /\ cluster = card.file[i]
              /\ Lies(ask.offset + (ask.length - length), i, inside_cluster)
    /\ at = "read" => status \in {"ok", "error"}
    /\ at = "read" /\ status = "ok" =>
         /\ inside(ask.offset, ask.length)
         /\ got = [p \in 1 .. ask.length |-> ask.offset + p - 1]
    /\ at = "read" /\ status = "error" =>
         Disturbed \/ ~inside(ask.offset, ask.length)

Walked ==
    /\ length \in Nat /\ skip_clusters \in Nat
    /\ cluster \in ToSet(card.root) \cup ToSet(card.file) \cup {0, EOC}
    /\ status \in {NULL, "ok", "error", "not_found", "invalid_name"}

Session == CardSide /\ Negotiated /\ Learnt /\ InStep

Walk == Asked /\ Untouched /\ Mounted /\ Searched /\ Found /\ Copied /\ Walked /\ FindsListed

HeaderRange == [offset |-> 0, length |-> HEADER_SIZE]

(* The first read of a load is of the header, and others come only when    *)
(* the file has one.                                                       *)
Loads ==
    /\ reads \in Nat
    /\ at \notin Reading \cup {"reply"} => reads = 0
    /\ at \in Reading \ {"ask"} /\ reads = 0 => ask = HeaderRange
    /\ at \in Reading /\ reads > 0 => HEADER_SIZE <= card.size

IInv == Session /\ Walk /\ Loads /\ NamesCause
-----------------------------------------------------------------------------
USE TriesAssumption

(* The greatest and the least of two numbers.                              *)
LEMMA MaxOfTwo ==
    ASSUME NEW a \in Nat, NEW b \in Nat
    PROVE  Max({a, b}) = IF a >= b THEN a ELSE b
BY DEF Max

LEMMA MinOfTwo ==
    ASSUME NEW a \in Int, NEW b \in Int
    PROVE  Min({a, b}) = IF a <= b THEN a ELSE b
BY DEF Min

(* The least member of a set, and a set of numbers has one.                *)
LEMMA LeastIs ==
    ASSUME NEW S \in SUBSET Nat, NEW n \in S, \A m \in S : n <= m
    PROVE  Min(S) = n
<1>1. ASSUME NEW m \in S, \A k \in S : m <= k PROVE m = n
  <2>1. m <= n /\ n <= m /\ m \in Nat /\ n \in Nat
    BY <1>1
  <2> QED BY <2>1
<1>2. n \in S /\ \A k \in S : n <= k
  OBVIOUS
<1> QED BY <1>1, <1>2, Zenon DEF Min

LEMMA TriesBound ==
    /\ Max({CMD0_TRIES, ACMD41_TRIES}) \in Nat
    /\ Max({CMD0_TRIES, ACMD41_TRIES}) >= CMD0_TRIES
    /\ Max({CMD0_TRIES, ACMD41_TRIES}) >= ACMD41_TRIES
BY MaxOfTwo

-----------------------------------------------------------------------------
(* What comes back of each command, and what becomes of the card: it is    *)
(* disturbed, or it answers as a card of its kind in its mode does.        *)
OnlyDisturbed == slot' \in Slots /\ noise' \in BOOLEAN /\ (noise => noise')

Stays == slot'.mode = slot.mode /\ slot'.busy = slot.busy /\ slot'.length = slot.length

LEMMA SlotUpdates ==
    ASSUME NEW s \in Slots, NEW app
    PROVE  /\ [s EXCEPT !.app = app] =
                [mode |-> s.mode, busy |-> s.busy, app |-> app, length |-> s.length]
           /\ [[s EXCEPT !.mode = "ready"] EXCEPT !.app = app] =
                [mode |-> "ready", busy |-> s.busy, app |-> app, length |-> s.length]
           /\ \A busy : [[s EXCEPT !.busy = busy] EXCEPT !.app = app] =
                [mode |-> s.mode, busy |-> busy, app |-> app, length |-> s.length]
           /\ \A long : [[s EXCEPT !.length = long] EXCEPT !.app = app] =
                [mode |-> s.mode, busy |-> s.busy, app |-> app, length |-> long]
           /\ s.mode \in Modes /\ s.busy \in Nat /\ s.app \in BOOLEAN /\ s.length \in Nat \ {0}
<1>1. s.mode \in Modes /\ s.busy \in Nat /\ s.app \in BOOLEAN /\ s.length \in Nat \ {0}
  BY DEF Slots
<1>2. s = [mode |-> s.mode, busy |-> s.busy, app |-> s.app, length |-> s.length]
  BY DEF Slots
<1>3. PICK m, b, a, n : s = [mode |-> m, busy |-> b, app |-> a, length |-> n]
  BY <1>2
<1>4. s.mode = m /\ s.busy = b /\ s.length = n
  BY <1>3
<1>5. [s EXCEPT !.app = app] = [mode |-> m, busy |-> b, app |-> app, length |-> n]
  BY <1>3
<1>6. ASSUME NEW busy PROVE [[s EXCEPT !.busy = busy] EXCEPT !.app = app]
        = [mode |-> m, busy |-> busy, app |-> app, length |-> n]
  <2>1. PICK z : z = [s EXCEPT !.busy = busy]
    OBVIOUS
  <2>2. z = [mode |-> m, busy |-> busy, app |-> a, length |-> n]
    BY <1>3, <2>1
  <2>3. [z EXCEPT !.app = app] = [mode |-> m, busy |-> busy, app |-> app, length |-> n]
    BY <2>2
  <2> QED BY <2>1, <2>3
<1>7. [[s EXCEPT !.mode = "ready"] EXCEPT !.app = app]
        = [mode |-> "ready", busy |-> b, app |-> app, length |-> n]
  <2>1. PICK z : z = [s EXCEPT !.mode = "ready"]
    OBVIOUS
  <2>2. z = [mode |-> "ready", busy |-> b, app |-> a, length |-> n]
    BY <1>3, <2>1
  <2>3. [z EXCEPT !.app = app] = [mode |-> "ready", busy |-> b, app |-> app, length |-> n]
    BY <2>2
  <2> QED BY <2>1, <2>3
<1>8. ASSUME NEW long PROVE [[s EXCEPT !.length = long] EXCEPT !.app = app]
        = [mode |-> m, busy |-> b, app |-> app, length |-> long]
  <2>1. PICK z : z = [s EXCEPT !.length = long]
    OBVIOUS
  <2>2. z = [mode |-> m, busy |-> b, app |-> a, length |-> long]
    BY <1>3, <2>1
  <2>3. [z EXCEPT !.app = app] = [mode |-> m, busy |-> b, app |-> app, length |-> long]
    BY <2>2
  <2> QED BY <2>1, <2>3
<1> QED BY <1>1, <1>4, <1>5, <1>6, <1>7, <1>8

LEMMA Spoken ==
    ASSUME NEW c, NEW argument, NEW r, sd_command(c, argument, r)
    PROVE  \/ Hears(c) /\ r = Answer(c, argument).r1 /\ slot' = Answer(c, argument).slot
              /\ UNCHANGED noise
           \/ ~Hears(c) /\ r = Silence /\ UNCHANGED <<slot, noise>>
           \/ slot.mode # "absent" /\ r \in {Silence, R1 + 8} /\ slot' = slot /\ noise' = TRUE
<1>1. ASSUME NEW a \in Lost PROVE a.r1 \in {Silence, R1 + 8} /\ a.slot = slot
  <2>1. PICK r1 \in {Silence, R1 + 8} : a = [r1 |-> r1, slot |-> slot]
    BY DEF Lost
  <2> QED BY <2>1
<1> QED BY <1>1 DEF sd_command

LEMMA ReactsCMD0 ==
    ASSUME CardSide, NEW argument, NEW r, sd_command("CMD0", argument, r)
    PROVE  /\ OnlyDisturbed
           /\ r = 1 => slot'.mode = "idle" /\ slot'.busy = card.busy
           /\ r # 1 /\ speed = "slow" => Disturbed'
<1>1. card.busy \in Nat /\ card.block_length \in Nat \ {0}
  BY CardAssumption DEF CardSide
<1>0. /\ slot \in Slots /\ noise \in BOOLEAN
      /\ slot.mode \in Modes /\ slot.busy \in Nat /\ slot.length \in Nat \ {0}
  BY SlotUpdates DEF CardSide
<1>2. R1 \in {0, 1}
  BY DEF R1
<1>3. CASE Hears("CMD0") /\ r = Answer("CMD0", argument).r1 /\ slot' = Answer("CMD0", argument).slot
           /\ UNCHANGED noise
  <2>1. r = 1 /\ slot' = [mode |-> "idle", busy |-> card.busy, app |-> FALSE,
                         length |-> card.block_length]
    BY <1>3 DEF Answer
  <2>2. slot' \in Slots /\ slot'.mode = "idle" /\ slot'.busy = card.busy
    BY <1>1, <2>1 DEF Modes, Slots
  <2> QED BY <1>0, <1>3, <2>1, <2>2 DEF OnlyDisturbed
<1>4. CASE ~Hears("CMD0") /\ r = Silence /\ UNCHANGED <<slot, noise>>
  BY <1>0, <1>4 DEF Hears, OnlyDisturbed, Disturbed, Silence
<1>5. CASE slot.mode # "absent" /\ r \in {Silence, R1 + 8} /\ slot' = slot /\ noise' = TRUE
  BY <1>0, <1>2, <1>5 DEF OnlyDisturbed, Disturbed, Silence
<1> QED BY <1>3, <1>4, <1>5, Spoken

LEMMA ReactsCMD8 ==
    ASSUME CardSide, NEW argument, NEW r, sd_command("CMD8", argument, r), slot.mode # "ready"
    PROVE  /\ OnlyDisturbed /\ Stays
           /\ r = 1 => card.kind \notin {"SDSC1", "MMC"}
           /\ r # Silence /\ illegal_command(r) => card.kind \in {"SDSC1", "MMC"}
           /\ slot.mode = "idle" /\ speed = "slow" =>
                Disturbed' \/ r = 1 \/ (r \notin {Silence, 1} /\ illegal_command(r))
<1>0. /\ slot \in Slots /\ noise \in BOOLEAN
      /\ slot.mode \in Modes /\ slot.busy \in Nat /\ slot.length \in Nat \ {0}
  BY SlotUpdates DEF CardSide
<1>2. R1 \in {0, 1} /\ (slot.mode = "idle" => R1 = 1)
  BY DEF R1
<1>3. CASE Hears("CMD8") /\ r = Answer("CMD8", argument).r1 /\ slot' = Answer("CMD8", argument).slot
           /\ UNCHANGED noise
  <2>1. slot.mode = "idle"
    BY <1>0, <1>3 DEF Hears, Modes
  <2>2. slot' = [mode |-> slot.mode, busy |-> slot.busy, app |-> FALSE, length |-> slot.length]
    BY <1>0, <1>3, SlotUpdates DEF Answer
  <2>5. slot' \in Slots /\ Stays /\ slot'.app = FALSE
    BY <1>0, <2>2 DEF Stays, Slots
  <2>3. r = IF card.kind \in {"SDSC1", "MMC"} THEN 5 ELSE 1
    BY <1>2, <1>3, <2>1 DEF Answer
  <2> QED BY <1>0, <1>3, <2>1, <2>2, <2>3, <2>5 DEF OnlyDisturbed, illegal_command, Silence
<1>4. CASE ~Hears("CMD8") /\ r = Silence /\ UNCHANGED <<slot, noise>>
  BY <1>0, <1>4 DEF Hears, OnlyDisturbed, Stays, Disturbed, Silence
<1>5. CASE slot.mode # "absent" /\ r \in {Silence, R1 + 8} /\ slot' = slot /\ noise' = TRUE
  BY <1>0, <1>2, <1>5 DEF OnlyDisturbed, Stays, Disturbed, Silence, illegal_command
<1> QED BY <1>3, <1>4, <1>5, Spoken

LEMMA ReactsCMD55 ==
    ASSUME CardSide, NEW argument, NEW r, sd_command("CMD55", argument, r), slot.mode # "ready"
    PROVE  /\ OnlyDisturbed /\ Stays
           /\ r \in {0, 1} => card.kind # "MMC"
           /\ slot.mode = "idle" /\ speed = "slow" =>
                Disturbed' \/ (card.kind = "MMC" /\ r > 1) \/ (r = 1 /\ slot'.app)
<1>0. /\ slot \in Slots /\ noise \in BOOLEAN
      /\ slot.mode \in Modes /\ slot.busy \in Nat /\ slot.length \in Nat \ {0}
  BY SlotUpdates DEF CardSide
<1>2. R1 \in {0, 1} /\ (slot.mode = "idle" => R1 = 1)
  BY DEF R1
<1>3. CASE Hears("CMD55") /\ r = Answer("CMD55", argument).r1
           /\ slot' = Answer("CMD55", argument).slot
           /\ UNCHANGED noise
  <2>1. slot.mode = "idle"
    BY <1>0, <1>3 DEF Hears, Modes
  <2>2. slot' = [mode |-> slot.mode, busy |-> slot.busy, app |-> TRUE, length |-> slot.length]
    BY <1>0, <1>3, SlotUpdates DEF Answer
  <2>5. slot' \in Slots /\ Stays /\ slot'.app = TRUE
    BY <1>0, <2>2 DEF Stays, Slots
  <2>3. r = IF card.kind = "MMC" THEN 5 ELSE 1
    BY <1>2, <1>3, <2>1 DEF Answer
  <2> QED BY <1>0, <1>3, <2>1, <2>2, <2>3, <2>5 DEF OnlyDisturbed, Silence
<1>4. CASE ~Hears("CMD55") /\ r = Silence /\ UNCHANGED <<slot, noise>>
  BY <1>0, <1>4 DEF Hears, OnlyDisturbed, Stays, Disturbed, Silence
<1>5. CASE slot.mode # "absent" /\ r \in {Silence, R1 + 8} /\ slot' = slot /\ noise' = TRUE
  BY <1>0, <1>2, <1>5 DEF OnlyDisturbed, Stays, Disturbed, Silence
<1> QED BY <1>3, <1>4, <1>5, Spoken

LEMMA ReactsACMD41 ==
    ASSUME CardSide, NEW argument, NEW r, sd_command("ACMD41", argument, r), slot.mode # "ready"
    PROVE  /\ OnlyDisturbed
           /\ r = 0 => slot.mode = "idle" /\ slot.busy = 0 /\ slot'.mode = "ready"
           /\ r # 0 => slot'.mode = slot.mode /\ slot'.busy \in {slot.busy, slot.busy - 1}
           /\ /\ slot.mode = "idle" /\ speed = "slow" /\ slot.app
              /\ HighCapacity => argument = HCS
              => \/ Disturbed'
                 \/ r = 0 /\ slot.busy = 0
                 \/ r = 1 /\ slot.busy > 0 /\ slot'.busy = slot.busy - 1
<1>0. /\ slot \in Slots /\ noise \in BOOLEAN
      /\ slot.mode \in Modes /\ slot.busy \in Nat /\ slot.length \in Nat \ {0}
  BY SlotUpdates DEF CardSide
<1>2. R1 \in {0, 1} /\ (slot.mode = "idle" => R1 = 1) /\ slot.busy \in Nat
  BY <1>0, SlotUpdates DEF R1
<1>3. CASE Hears("ACMD41") /\ r = Answer("ACMD41", argument).r1
           /\ slot' = Answer("ACMD41", argument).slot /\ UNCHANGED noise
  <2>1. slot.mode = "idle"
    BY <1>0, <1>3 DEF Hears, Modes
  <2>2. CASE ~slot.app
    <3>1. r = R1 + 4
          /\ slot' = [mode |-> slot.mode, busy |-> slot.busy, app |-> FALSE, length |-> slot.length]
      BY <1>0, <1>3, <2>2, SlotUpdates DEF Answer
    <3>2. slot' \in Slots /\ Stays
      BY <1>0, <3>1 DEF Stays, Slots
    <3> QED BY <1>0, <1>2, <1>3, <2>2, <3>1, <3>2 DEF OnlyDisturbed, Stays
  <2>3. CASE slot.app /\ PutsOff(argument)
    <3>1. Max({slot.busy - 1, 0}) = IF slot.busy = 0 THEN 0 ELSE slot.busy - 1
      BY <1>2 DEF Max
    <3>2. r = 1 /\ slot' = [mode |-> slot.mode, busy |-> Max({slot.busy - 1, 0}), app |-> FALSE,
                         length |-> slot.length]
      <4>1. PICK left : left = Max({slot.busy - 1, 0})
        OBVIOUS
      <4>2. Answer("ACMD41", argument)
              = [r1 |-> 1, slot |-> [[slot EXCEPT !.busy = left] EXCEPT !.app = FALSE]]
        BY <2>1, <2>3, <4>1 DEF Answer
      <4>3. r = 1 /\ slot' = [[slot EXCEPT !.busy = left] EXCEPT !.app = FALSE]
        BY <1>3, <4>2
      <4>4. [[slot EXCEPT !.busy = left] EXCEPT !.app = FALSE]
              = [mode |-> slot.mode, busy |-> left, app |-> FALSE, length |-> slot.length]
        BY <1>0, SlotUpdates
      <4> QED BY <4>1, <4>3, <4>4
    <3>3. slot' \in Slots /\ slot'.mode = "idle" /\ slot'.busy = Max({slot.busy - 1, 0})
      BY <1>0, <1>2, <2>1, <3>1, <3>2 DEF Slots
    <3> QED BY <1>0, <1>2, <1>3, <2>1, <2>3, <3>1, <3>2, <3>3 DEF OnlyDisturbed, PutsOff
  <2>4. CASE slot.app /\ ~PutsOff(argument)
    <3>1. slot.busy = 0
      BY <1>2, <2>4 DEF PutsOff
    <3>2. r = 0 /\ slot' = [mode |-> "ready", busy |-> slot.busy, app |-> FALSE,
                            length |-> slot.length]
      BY <1>0, <1>3, <2>1, <2>4, SlotUpdates DEF Answer
    <3>3. slot' \in Slots /\ slot'.mode = "ready" /\ slot'.busy = slot.busy
      BY <1>0, <3>2 DEF Modes, Slots
    <3> QED BY <1>0, <1>3, <2>1, <3>1, <3>2, <3>3 DEF OnlyDisturbed
  <2> QED BY <2>2, <2>3, <2>4
<1>4. CASE ~Hears("ACMD41") /\ r = Silence /\ UNCHANGED <<slot, noise>>
  BY <1>0, <1>4 DEF Hears, OnlyDisturbed, Disturbed, Silence
<1>5. CASE slot.mode # "absent" /\ r \in {Silence, R1 + 8} /\ slot' = slot /\ noise' = TRUE
  BY <1>0, <1>2, <1>5 DEF OnlyDisturbed, Disturbed, Silence
<1> QED BY <1>3, <1>4, <1>5, Spoken

LEMMA ReactsCMD58 ==
    ASSUME CardSide, NEW argument, NEW r, sd_command("CMD58", argument, r)
    PROVE  /\ OnlyDisturbed /\ Stays
           /\ slot.mode = "ready" => Disturbed' \/ r = 0
<1>0. /\ slot \in Slots /\ noise \in BOOLEAN
      /\ slot.mode \in Modes /\ slot.busy \in Nat /\ slot.length \in Nat \ {0}
  BY SlotUpdates DEF CardSide
<1>2. R1 \in {0, 1} /\ (slot.mode = "ready" => R1 = 0)
  BY DEF R1
<1>3. CASE Hears("CMD58") /\ r = Answer("CMD58", argument).r1
           /\ slot' = Answer("CMD58", argument).slot
           /\ UNCHANGED noise
  <2>1. r = R1
        /\ slot' = [mode |-> slot.mode, busy |-> slot.busy, app |-> FALSE, length |-> slot.length]
    BY <1>0, <1>3, SlotUpdates DEF Answer
  <2>5. slot' \in Slots /\ Stays
    BY <1>0, <2>1 DEF Stays, Slots
  <2> QED BY <1>0, <1>2, <1>3, <2>1, <2>5 DEF OnlyDisturbed
<1>4. CASE ~Hears("CMD58") /\ r = Silence /\ UNCHANGED <<slot, noise>>
  BY <1>0, <1>4 DEF Hears, OnlyDisturbed, Stays, Disturbed, Silence
<1>5. CASE slot.mode # "absent" /\ r \in {Silence, R1 + 8} /\ slot' = slot /\ noise' = TRUE
  BY <1>0, <1>2, <1>5 DEF OnlyDisturbed, Stays, Disturbed, Silence
<1> QED BY <1>3, <1>4, <1>5, Spoken

LEMMA ReactsCMD16 ==
    ASSUME CardSide, NEW argument \in Nat \ {0}, NEW r, sd_command("CMD16", argument, r)
    PROVE  /\ OnlyDisturbed /\ slot'.mode = slot.mode
           /\ r = 0 => slot'.length = argument
           /\ slot.mode = "ready" => Disturbed' \/ r = 0
<1>0. /\ slot \in Slots /\ noise \in BOOLEAN
      /\ slot.mode \in Modes /\ slot.busy \in Nat /\ slot.length \in Nat \ {0}
  BY SlotUpdates DEF CardSide
<1>2. R1 \in {0, 1} /\ (slot.mode = "ready" => R1 = 0)
  BY DEF R1
<1>3. CASE Hears("CMD16") /\ r = Answer("CMD16", argument).r1
           /\ slot' = Answer("CMD16", argument).slot
           /\ UNCHANGED noise
  <2>1. CASE slot.mode = "idle"
    <3>1. r = R1 + 4
          /\ slot' = [mode |-> slot.mode, busy |-> slot.busy, app |-> FALSE, length |-> slot.length]
      BY <1>0, <1>3, <2>1, SlotUpdates DEF Answer
    <3>2. slot' \in Slots /\ slot'.mode = slot.mode
      BY <1>0, <3>1 DEF Slots
    <3> QED BY <1>0, <1>2, <1>3, <2>1, <3>1, <3>2 DEF OnlyDisturbed
  <2>2. CASE slot.mode # "idle"
    <3>3. r = 0 /\ slot' = [[slot EXCEPT !.length = argument] EXCEPT !.app = FALSE]
      BY <1>3, <2>2 DEF Answer
    <3>4. \A long : [[slot EXCEPT !.length = long] EXCEPT !.app = FALSE]
                       = [mode |-> slot.mode, busy |-> slot.busy, app |-> FALSE, length |-> long]
      BY <1>0, SlotUpdates
    <3>1. r = 0
          /\ slot' = [mode |-> slot.mode, busy |-> slot.busy, app |-> FALSE, length |-> argument]
      BY <3>3, <3>4, Zenon
    <3>2. slot' \in Slots /\ slot'.mode = slot.mode /\ slot'.length = argument
      BY <1>0, <3>1 DEF Slots
    <3> QED BY <1>0, <1>3, <3>1, <3>2 DEF OnlyDisturbed
  <2> QED BY <2>1, <2>2
<1>4. CASE ~Hears("CMD16") /\ r = Silence /\ UNCHANGED <<slot, noise>>
  BY <1>0, <1>4 DEF Hears, OnlyDisturbed, Disturbed, Silence
<1>5. CASE slot.mode # "absent" /\ r \in {Silence, R1 + 8} /\ slot' = slot /\ noise' = TRUE
  BY <1>0, <1>2, <1>5 DEF OnlyDisturbed, Disturbed, Silence
<1> QED BY <1>3, <1>4, <1>5, Spoken

LEMMA CardTakesCMD17 ==
    ASSUME CardSide, NEW argument, slot' = Answer("CMD17", argument).slot, noise' \in BOOLEAN,
           noise => noise'
    PROVE  OnlyDisturbed /\ Stays
<1>1. slot \in Slots
  BY DEF CardSide
<1>2. slot' = [mode |-> slot.mode, busy |-> slot.busy, app |-> FALSE, length |-> slot.length]
  BY <1>1, SlotUpdates DEF Answer
<1>3. slot.mode \in Modes /\ slot.busy \in Nat /\ slot.length \in Nat \ {0}
  BY <1>1, SlotUpdates
<1>5. PICK no \in BOOLEAN :
        slot' = [mode |-> slot.mode, busy |-> slot.busy, app |-> no, length |-> slot.length]
  BY <1>2
<1>4. slot' \in Slots /\ Stays
  BY <1>3, <1>5 DEF Stays, Slots
<1> QED BY <1>4 DEF OnlyDisturbed

LEMMA ReactsCMD17 ==
    ASSUME CardSide, NEW argument, NEW r, sd_command("CMD17", argument, r)
    PROVE  /\ OnlyDisturbed /\ Stays
           /\ r = 0 => slot.mode = "ready" /\ ~BadAddress(argument)
           /\ slot.mode = "ready" => Disturbed' \/ r = 0 \/ BadAddress(argument)
<1>0. /\ slot \in Slots /\ noise \in BOOLEAN
      /\ slot.mode \in Modes /\ slot.busy \in Nat /\ slot.length \in Nat \ {0}
  BY SlotUpdates DEF CardSide
<1>2. R1 \in {0, 1} /\ (slot.mode = "ready" => R1 = 0)
  BY DEF R1
<1>3. CASE Hears("CMD17") /\ r = Answer("CMD17", argument).r1
           /\ slot' = Answer("CMD17", argument).slot
           /\ UNCHANGED noise
  <2>1. OnlyDisturbed /\ Stays
    BY <1>0, <1>3, CardTakesCMD17
  <2>2. r = IF slot.mode = "idle" THEN R1 + 4 ELSE IF BadAddress(argument) THEN 32 ELSE 0
    BY <1>3 DEF Answer
  <2>3. slot.mode \in {"idle", "ready"}
    BY <1>0, <1>3 DEF Hears, Modes
  <2> QED BY <1>0, <1>2, <1>3, <2>1, <2>2, <2>3
<1>4. CASE ~Hears("CMD17") /\ r = Silence /\ UNCHANGED <<slot, noise>>
  BY <1>0, <1>4 DEF Hears, OnlyDisturbed, Stays, Disturbed, Silence
<1>5. CASE slot.mode # "absent" /\ r \in {Silence, R1 + 8} /\ slot' = slot /\ noise' = TRUE
  BY <1>0, <1>2, <1>5 DEF OnlyDisturbed, Stays, Disturbed, Silence
<1> QED BY <1>3, <1>4, <1>5, Spoken
-----------------------------------------------------------------------------
(* sd_card_init, command by command.                                       *)
SideFacts ==
    /\ tries \in Nat /\ version2 \in BOOLEAN /\ sd_block_addressing \in BOOLEAN
    /\ (sd_block_addressing => version2)
    /\ Max({CMD0_TRIES, ACMD41_TRIES}) \in Nat
    /\ tries \in 0 .. Max({CMD0_TRIES, ACMD41_TRIES}) - 1
    /\ slot.busy \in Nat /\ card.busy \in Nat /\ card.kind \in SdKinds

LEMMA SideTyped ==
    ASSUME CardSide
    PROVE  SideFacts
<1>1. /\ tries \in 0 .. Max({CMD0_TRIES, ACMD41_TRIES}) - 1
      /\ version2 \in BOOLEAN /\ sd_block_addressing \in BOOLEAN
      /\ sd_block_addressing => version2
      /\ slot \in Slots /\ card \in Cards
  BY DEF CardSide
<1>2. tries \in Nat
  BY <1>1, TriesBound
<1>3. card.busy \in Nat /\ card.kind \in SdKinds
  BY <1>1, CardAssumption
<1>4. slot.busy \in Nat
  BY <1>1, SlotUpdates
<1> QED BY <1>1, <1>2, <1>3, <1>4, TriesBound DEF SideFacts

LEMMA KeepsCardSide ==
    ASSUME CardSide, at = "init", UNCHANGED <<card, at>>, OnlyDisturbed,
           step' \in Commands \cup {"done", "failed"},
           version2' \in BOOLEAN, sd_block_addressing' \in BOOLEAN,
           sd_block_addressing' => version2',
           tries' \in 0 .. Max({CMD0_TRIES, ACMD41_TRIES}) - 1
    PROVE  CardSide'
BY DEF CardSide, OnlyDisturbed, Filing, Mounting, Opening, Searching, Reading, Modes

LEMMA StepCMD0 ==
    ASSUME CardSide, Negotiated, Learnt, InStep, at = "init", step = "CMD0", UNCHANGED <<card, at>>,
           NEW r \in Responses, sd_command("CMD0", 0, r), cmd0(r)
    PROVE  CardSide' /\ Negotiated' /\ Learnt' /\ InStep' /\ (noise => noise')
<1>0. SideFacts
  BY SideTyped
<1>1. /\ Met /\ speed = "slow" /\ ~sd_block_addressing
      /\ (Usable' <=> Usable) /\ (HighCapacity' <=> HighCapacity)
      /\ Met' <=> step' # "begin"
  BY DEF Met, Negotiated, Learnt, Commands, Usable, HighCapacity, Filing, Mounting, Opening,
     Searching, Reading
<1>2. ~version2
  BY <1>1 DEF Negotiated
<1>3. /\ OnlyDisturbed
      /\ r = 1 => slot'.mode = "idle" /\ slot'.busy = card.busy
      /\ r # 1 => Disturbed'
  BY <1>1, ReactsCMD0
<1>4. CASE r = 1 /\ tries' = 0 /\ send("CMD8")
  <2>1. CardSide'
    BY <1>0, <1>3, <1>4, TriesBound, KeepsCardSide DEF SideFacts, send, Commands
  <2>2. Learnt'
    BY <1>0, <1>1, <1>2, <1>3, <1>4 DEF SideFacts, Learnt, send, Commands
  <2>4. Negotiated'
    BY <1>0, <1>1, <1>2, <1>3, <1>4 DEF SideFacts, Negotiated, send, Commands
  <2>3. InStep'
    BY <1>0, <1>1, <1>2, <1>3, <1>4 DEF SideFacts, InStep, send
  <2> QED BY <1>3, <2>1, <2>2, <2>3, <2>4 DEF OnlyDisturbed
<1>5. CASE r # 1 /\ init_returns("failed")
  <2>1. CardSide'
    BY <1>0, <1>3, <1>5, KeepsCardSide DEF SideFacts, init_returns, Commands
  <2>2. Learnt'
    BY <1>0, <1>1, <1>2, <1>5 DEF SideFacts, Learnt, init_returns, Commands
  <2>4. Negotiated'
    BY <1>0, <1>1, <1>2, <1>5 DEF SideFacts, Negotiated, init_returns, Commands
  <2>3. InStep'
    BY <1>3, <1>5 DEF InStep, init_returns
  <2> QED BY <1>3, <2>1, <2>2, <2>3, <2>4 DEF OnlyDisturbed
<1>6. CASE r # 1 /\ tries + 1 < CMD0_TRIES /\ tries' = tries + 1 /\ send("CMD0")
  <2>1. CardSide'
    BY <1>0, <1>3, <1>6, TriesBound, KeepsCardSide DEF SideFacts, send, Commands
  <2>2. Learnt'
    BY <1>0, <1>1, <1>2, <1>6 DEF SideFacts, Learnt, send, Commands
  <2>4. Negotiated'
    BY <1>0, <1>1, <1>2, <1>6 DEF SideFacts, Negotiated, send, Commands
  <2>3. InStep'
    BY <1>3, <1>6 DEF InStep, send
  <2> QED BY <1>3, <2>1, <2>2, <2>3, <2>4 DEF OnlyDisturbed
<1> QED BY <1>4, <1>5, <1>6 DEF cmd0, retry, Silence

LEMMA StepCMD8 ==
    ASSUME CardSide, Negotiated, Learnt, InStep, at = "init", step = "CMD8", UNCHANGED <<card, at>>,
           NEW r \in Responses, sd_command("CMD8", 0, r), cmd8(r)
    PROVE  CardSide' /\ Negotiated' /\ Learnt' /\ InStep' /\ (noise => noise')
<1>0. SideFacts /\ r \in Int /\ ACMD41_TRIES \in Nat \ {0}
  BY SideTyped, TriesAssumption DEF Responses, Silence
<1>1. /\ Met /\ ~sd_block_addressing
      /\ (Usable' <=> Usable) /\ (HighCapacity' <=> HighCapacity)
      /\ Met' <=> step' # "begin"
  BY DEF Met, Negotiated, Learnt, Commands, Usable, HighCapacity, Filing, Mounting, Opening,
     Searching, Reading
<1>2. /\ speed = "slow" /\ ~version2 /\ slot.mode # "ready" /\ tries = 0
      /\ slot.mode = "idle" => slot.busy = card.busy
      /\ ~Disturbed => slot.mode = "idle"
  BY <1>1 DEF Negotiated, Learnt, InStep
<1>3. OnlyDisturbed
  BY <1>2, ReactsCMD8
<1>4. /\ Stays
      /\ r = 1 => card.kind \notin {"SDSC1", "MMC"}
      /\ r # Silence /\ illegal_command(r) => card.kind \in {"SDSC1", "MMC"}
      /\ slot.mode = "idle" => Disturbed' \/ r = 1 \/ (r \notin {Silence, 1} /\ illegal_command(r))
  BY <1>2, ReactsCMD8
<1>5. ~Disturbed' => ~Disturbed
  BY <1>3, <1>4 DEF Disturbed, OnlyDisturbed, Stays
<1>6. CASE r = 1 /\ card.kind # "low_voltage" /\ version2' = TRUE /\ step' = "CMD55"
           /\ UNCHANGED <<tries, sd_block_addressing, speed>>
  <2>1. CardSide'
    BY <1>0, <1>1, <1>3, <1>6, TriesBound, KeepsCardSide DEF SideFacts, Stays, Commands
  <2>2. Learnt'
    BY <1>0, <1>1, <1>2, <1>4, <1>6 DEF SideFacts, Learnt, Stays, Commands, SdKinds
  <2>4. Negotiated'
    BY <1>0, <1>1, <1>2, <1>4, <1>6 DEF SideFacts, Negotiated, Stays, Commands, SdKinds
  <2>3. InStep'
    BY <1>0, <1>1, <1>2, <1>4, <1>5, <1>6 DEF SideFacts, InStep, Stays, SdKinds
  <2> QED BY <1>3, <2>1, <2>2, <2>3, <2>4 DEF OnlyDisturbed
<1>7. CASE r = 1 /\ card.kind = "low_voltage" /\ init_returns("failed")
  <2>1. CardSide'
    BY <1>0, <1>1, <1>3, <1>7, TriesBound, KeepsCardSide DEF SideFacts, init_returns, Commands
  <2>2. Learnt'
    BY <1>0, <1>1, <1>2, <1>4, <1>7 DEF SideFacts, Learnt, init_returns, Commands, Usable
  <2>4. Negotiated'
    BY <1>0, <1>1, <1>2, <1>4, <1>7 DEF SideFacts, Negotiated, init_returns, Commands, Usable
  <2>3. InStep'
    BY <1>0, <1>1, <1>2, <1>4, <1>5, <1>7 DEF SideFacts, InStep, init_returns, Usable
  <2> QED BY <1>3, <2>1, <2>2, <2>3, <2>4 DEF OnlyDisturbed
<1>8. CASE r \notin {Silence, 1} /\ illegal_command(r) /\ UNCHANGED tries /\ send("CMD55")
  <2>1. CardSide'
    BY <1>0, <1>1, <1>3, <1>8, TriesBound, KeepsCardSide DEF SideFacts, send, Stays, Commands
  <2>2. Learnt'
    BY <1>0, <1>1, <1>2, <1>4, <1>8 DEF SideFacts, Learnt, send, Stays, Commands, SdKinds
  <2>4. Negotiated'
    BY <1>0, <1>1, <1>2, <1>4, <1>8 DEF SideFacts, Negotiated, send, Stays, Commands, SdKinds
  <2>3. InStep'
    BY <1>0, <1>1, <1>2, <1>4, <1>5, <1>8 DEF SideFacts, InStep, send, Stays, SdKinds
  <2> QED BY <1>3, <2>1, <2>2, <2>3, <2>4 DEF OnlyDisturbed
<1>9. CASE r # 1 /\ (r = Silence \/ ~illegal_command(r)) /\ init_returns("failed")
  <2>1. CardSide'
    BY <1>0, <1>1, <1>3, <1>9, TriesBound, KeepsCardSide DEF SideFacts, init_returns, Commands
  <2>2. Learnt'
    BY <1>0, <1>1, <1>2, <1>4, <1>9 DEF SideFacts, Learnt, init_returns, Commands
  <2>4. Negotiated'
    BY <1>0, <1>1, <1>2, <1>4, <1>9 DEF SideFacts, Negotiated, init_returns, Commands
  <2>3. InStep'
    BY <1>0, <1>1, <1>2, <1>4, <1>5, <1>9 DEF SideFacts, InStep, init_returns
  <2> QED BY <1>3, <2>1, <2>2, <2>3, <2>4 DEF OnlyDisturbed
<1> QED BY <1>6, <1>7, <1>8, <1>9 DEF cmd8

LEMMA StepCMD55 ==
    ASSUME CardSide, Negotiated, Learnt, InStep, at = "init", step = "CMD55", UNCHANGED <<card,
           at>>,
           NEW r \in Responses, sd_command("CMD55", 0, r), cmd55(r)
    PROVE  CardSide' /\ Negotiated' /\ Learnt' /\ InStep' /\ (noise => noise')
<1>0. SideFacts /\ r \in Int /\ ACMD41_TRIES \in Nat \ {0}
  BY SideTyped, TriesAssumption DEF Responses, Silence
<1>1. /\ Met /\ ~sd_block_addressing
      /\ (Usable' <=> Usable) /\ (HighCapacity' <=> HighCapacity)
      /\ Met' <=> step' # "begin"
  BY DEF Met, Negotiated, Learnt, Commands, Usable, HighCapacity, Filing, Mounting, Opening,
     Searching, Reading
<1>2. /\ speed = "slow" /\ slot.mode # "ready" /\ tries < ACMD41_TRIES
      /\ slot.mode = "idle" => card.busy <= slot.busy + tries
      /\ card.kind # "low_voltage" /\ (version2 <=> card.kind \in {"SDHC", "SDSC2"})
      /\ ~Disturbed => /\ slot.mode = "idle"
                       /\ slot.busy = 0 \/ slot.busy + tries = card.busy \/ card.kind = "MMC"
  BY <1>1 DEF Negotiated, Learnt, InStep
<1>3. OnlyDisturbed
  BY <1>2, ReactsCMD55
<1>4. /\ Stays
      /\ r \in {0, 1} => card.kind # "MMC"
      /\ slot.mode = "idle" => Disturbed' \/ (card.kind = "MMC" /\ r > 1) \/ (r = 1 /\ slot'.app)
  BY <1>2, ReactsCMD55
<1>5. ~Disturbed' => ~Disturbed
  BY <1>3, <1>4 DEF Disturbed, OnlyDisturbed, Stays
<1>6. CASE r = Silence /\ init_returns("failed")
  <2>1. CardSide'
    BY <1>0, <1>1, <1>3, <1>6, TriesBound, KeepsCardSide DEF SideFacts, init_returns, Commands
  <2>2. Learnt'
    BY <1>0, <1>1, <1>2, <1>4, <1>6 DEF SideFacts, Learnt, init_returns, Commands, Silence
  <2>4. Negotiated'
    BY <1>0, <1>1, <1>2, <1>4, <1>6 DEF SideFacts, Negotiated, init_returns, Commands, Silence
  <2>3. InStep'
    BY <1>0, <1>1, <1>2, <1>4, <1>5, <1>6 DEF SideFacts, InStep, init_returns, Silence
  <2> QED BY <1>3, <2>1, <2>2, <2>3, <2>4 DEF OnlyDisturbed
<1>7. CASE r > 1 /\ tries + 1 < ACMD41_TRIES /\ tries' = tries + 1 /\ send("CMD55")
  <2>1. CardSide'
    BY <1>0, <1>1, <1>3, <1>7, TriesBound, KeepsCardSide DEF SideFacts, send, Stays, Commands
  <2>2. Learnt'
    BY <1>0, <1>1, <1>2, <1>4, <1>7 DEF SideFacts, Learnt, send, Stays, Commands
  <2>4. Negotiated'
    BY <1>0, <1>1, <1>2, <1>4, <1>7 DEF SideFacts, Negotiated, send, Stays, Commands
  <2>3. InStep'
    BY <1>0, <1>1, <1>2, <1>4, <1>5, <1>7 DEF SideFacts, InStep, send, Stays
  <2> QED BY <1>3, <2>1, <2>2, <2>3, <2>4 DEF OnlyDisturbed
<1>8. CASE r > 1 /\ init_returns("failed")
  <2>1. CardSide'
    BY <1>0, <1>1, <1>3, <1>8, TriesBound, KeepsCardSide DEF SideFacts, init_returns, Commands
  <2>2. Learnt'
    BY <1>0, <1>1, <1>2, <1>4, <1>8 DEF SideFacts, Learnt, init_returns, Commands, Usable
  <2>4. Negotiated'
    BY <1>0, <1>1, <1>2, <1>4, <1>8 DEF SideFacts, Negotiated, init_returns, Commands, Usable
  <2>3. InStep'
    BY <1>0, <1>1, <1>2, <1>4, <1>5, <1>8 DEF SideFacts, InStep, init_returns, Usable
  <2> QED BY <1>3, <2>1, <2>2, <2>3, <2>4 DEF OnlyDisturbed
<1>9. CASE r \in {0, 1} /\ UNCHANGED tries /\ send("ACMD41")
  <2>1. CardSide'
    BY <1>0, <1>1, <1>3, <1>9, TriesBound, KeepsCardSide DEF SideFacts, send, Stays, Commands
  <2>2. Learnt'
    BY <1>0, <1>1, <1>2, <1>4, <1>9 DEF SideFacts, Learnt, send, Stays, Commands
  <2>4. Negotiated'
    BY <1>0, <1>1, <1>2, <1>4, <1>9 DEF SideFacts, Negotiated, send, Stays, Commands
  <2>3. InStep'
    BY <1>0, <1>1, <1>2, <1>4, <1>5, <1>9 DEF SideFacts, InStep, send, Stays
  <2> QED BY <1>3, <2>1, <2>2, <2>3, <2>4 DEF OnlyDisturbed
<1> QED BY <1>6, <1>7, <1>8, <1>9 DEF cmd55, retry

LEMMA StepACMD41 ==
    ASSUME CardSide, Negotiated, Learnt, InStep, at = "init", step = "ACMD41", UNCHANGED <<card,
           at>>,
           NEW r \in Responses, sd_command("ACMD41", acmd41_argument, r), acmd41(r)
    PROVE  CardSide' /\ Negotiated' /\ Learnt' /\ InStep' /\ (noise => noise')
<1>0. SideFacts /\ r \in Int /\ ACMD41_TRIES \in Nat \ {0}
  BY SideTyped, TriesAssumption DEF Responses, Silence
<1>1. /\ Met /\ ~sd_block_addressing
      /\ (Usable' <=> Usable) /\ (HighCapacity' <=> HighCapacity)
      /\ Met' <=> step' # "begin"
  BY DEF Met, Negotiated, Learnt, Commands, Usable, HighCapacity, Filing, Mounting, Opening,
     Searching, Reading
<1>2. /\ speed = "slow" /\ slot.mode # "ready" /\ tries < ACMD41_TRIES
      /\ slot.mode = "idle" => card.busy <= slot.busy + tries
      /\ card.kind # "low_voltage" /\ (version2 <=> card.kind \in {"SDHC", "SDSC2"})
      /\ ~Disturbed => /\ slot.mode = "idle"
                       /\ slot.busy = 0 \/ slot.busy + tries = card.busy \/ card.kind = "MMC"
      /\ card.kind # "MMC" /\ (~Disturbed => slot.app)
      /\ HighCapacity => acmd41_argument = HCS
  BY <1>1 DEF Negotiated, Learnt, InStep, acmd41_argument, HighCapacity
<1>3. OnlyDisturbed
  BY <1>2, ReactsACMD41
<1>4. /\ r = 0 => slot.mode = "idle" /\ slot.busy = 0 /\ slot'.mode = "ready"
      /\ r # 0 => slot'.mode = slot.mode /\ slot'.busy \in {slot.busy, slot.busy - 1}
      /\ slot.mode = "idle" /\ slot.app =>
           \/ Disturbed' 
           \/ r = 0 /\ slot.busy = 0
           \/ r = 1 /\ slot.busy > 0 /\ slot'.busy = slot.busy - 1
  BY <1>2, ReactsACMD41
<1>5. ~Disturbed' => ~Disturbed
  BY <1>3, <1>4 DEF Disturbed, OnlyDisturbed
<1>6. CASE r = Silence /\ init_returns("failed")
  <2>1. CardSide'
    BY <1>0, <1>1, <1>3, <1>6, TriesBound, KeepsCardSide DEF SideFacts, init_returns, Commands
  <2>2. Learnt'
    BY <1>0, <1>1, <1>2, <1>4, <1>6 DEF SideFacts, Learnt, init_returns, Commands, Silence
  <2>4. Negotiated'
    BY <1>0, <1>1, <1>2, <1>4, <1>6 DEF SideFacts, Negotiated, init_returns, Commands, Silence
  <2>3. InStep'
    BY <1>0, <1>1, <1>2, <1>4, <1>5, <1>6 DEF SideFacts, InStep, init_returns, Silence
  <2> QED BY <1>3, <2>1, <2>2, <2>3, <2>4 DEF OnlyDisturbed
<1>7. CASE r = 0 /\ tries' = 0 /\ send("CMD58")
  <2>1. CardSide'
    BY <1>0, <1>1, <1>3, <1>7, TriesBound, KeepsCardSide DEF SideFacts, send, Commands
  <2>2. Learnt'
    BY <1>0, <1>1, <1>2, <1>4, <1>7 DEF SideFacts, Learnt, send, Commands, Usable, SdKinds
  <2>4. Negotiated'
    BY <1>0, <1>1, <1>2, <1>4, <1>7 DEF SideFacts, Negotiated, send, Commands, Usable, SdKinds
  <2>3. InStep'
    BY <1>0, <1>1, <1>2, <1>4, <1>5, <1>7 DEF SideFacts, InStep, send, Usable, SdKinds
  <2> QED BY <1>3, <2>1, <2>2, <2>3, <2>4 DEF OnlyDisturbed
<1>8. CASE r # 0 /\ tries + 1 < ACMD41_TRIES /\ tries' = tries + 1 /\ send("CMD55")
  <2>1. CardSide'
    BY <1>0, <1>1, <1>3, <1>8, TriesBound, KeepsCardSide DEF SideFacts, send, Commands
  <2>2. Learnt'
    BY <1>0, <1>1, <1>2, <1>4, <1>8 DEF SideFacts, Learnt, send, Commands
  <2>4. Negotiated'
    BY <1>0, <1>1, <1>2, <1>4, <1>8 DEF SideFacts, Negotiated, send, Commands
  <2>3. InStep'
    BY <1>0, <1>1, <1>2, <1>4, <1>5, <1>8 DEF SideFacts, InStep, send
  <2> QED BY <1>3, <2>1, <2>2, <2>3, <2>4 DEF OnlyDisturbed
<1>9. CASE r \notin {Silence, 0} /\ tries + 1 >= ACMD41_TRIES /\ init_returns("failed")
  <2>1. CardSide'
    BY <1>0, <1>1, <1>3, <1>9, TriesBound, KeepsCardSide DEF SideFacts, init_returns, Commands
  <2>2. Learnt'
    BY <1>0, <1>1, <1>2, <1>4, <1>9 DEF SideFacts, Learnt, init_returns, Commands, Usable
  <2>4. Negotiated'
    BY <1>0, <1>1, <1>2, <1>4, <1>9 DEF SideFacts, Negotiated, init_returns, Commands, Usable
  <2>3. InStep'
    BY <1>0, <1>1, <1>2, <1>4, <1>5, <1>9 DEF SideFacts, InStep, init_returns, Usable
  <2> QED BY <1>3, <2>1, <2>2, <2>3, <2>4 DEF OnlyDisturbed
<1> QED BY <1>6, <1>7, <1>8, <1>9 DEF acmd41, retry

LEMMA StepCMD58 ==
    ASSUME CardSide, Negotiated, Learnt, InStep, at = "init", step = "CMD58", UNCHANGED <<card,
           at>>,
           NEW r \in Responses, sd_command("CMD58", 0, r), cmd58(r)
    PROVE  CardSide' /\ Negotiated' /\ Learnt' /\ InStep' /\ (noise => noise')
<1>0. SideFacts /\ r \in Int /\ ACMD41_TRIES \in Nat \ {0}
  BY SideTyped, TriesAssumption DEF Responses, Silence
<1>1. /\ Met /\ ~sd_block_addressing
      /\ (Usable' <=> Usable) /\ (HighCapacity' <=> HighCapacity)
      /\ Met' <=> step' # "begin"
  BY DEF Met, Negotiated, Learnt, Commands, Usable, HighCapacity, Filing, Mounting, Opening,
     Searching, Reading
<1>2. /\ card.kind # "low_voltage" /\ (version2 <=> card.kind \in {"SDHC", "SDSC2"})
      /\ Usable /\ (~Disturbed => slot.mode = "ready")
  BY <1>1 DEF Negotiated, Learnt, InStep
<1>3. OnlyDisturbed
  BY ReactsCMD58
<1>4. /\ Stays
      /\ slot.mode = "ready" => Disturbed' \/ r = 0
  BY ReactsCMD58
<1>5. ~Disturbed' => ~Disturbed
  BY <1>3, <1>4 DEF Disturbed, OnlyDisturbed, Stays
<1>6. CASE r # 0 /\ init_returns("failed")
  <2>1. CardSide'
    BY <1>0, <1>1, <1>3, <1>6, TriesBound, KeepsCardSide DEF SideFacts, init_returns, Commands
  <2>2. Learnt'
    BY <1>0, <1>1, <1>2, <1>4, <1>6 DEF SideFacts, Learnt, init_returns, Commands
  <2>4. Negotiated'
    BY <1>0, <1>1, <1>2, <1>4, <1>6 DEF SideFacts, Negotiated, init_returns, Commands
  <2>3. InStep'
    BY <1>0, <1>1, <1>2, <1>4, <1>5, <1>6 DEF SideFacts, InStep, init_returns
  <2> QED BY <1>3, <2>1, <2>2, <2>3, <2>4 DEF OnlyDisturbed
<1>7. CASE r = 0 /\ version2 /\ HighCapacity /\ sd_block_addressing' = TRUE
           /\ step' = "done" /\ UNCHANGED <<tries, version2>>
  <2>1. CardSide'
    BY <1>0, <1>1, <1>3, <1>7, TriesBound, KeepsCardSide DEF SideFacts, Stays, Commands
  <2>2. Learnt'
    BY <1>0, <1>1, <1>2, <1>4, <1>7 DEF SideFacts, Learnt, Stays, Commands
  <2>4. Negotiated'
    BY <1>0, <1>1, <1>2, <1>4, <1>7 DEF SideFacts, Negotiated, Stays, Commands
  <2>3. InStep'
    BY <1>0, <1>1, <1>2, <1>4, <1>5, <1>7 DEF SideFacts, InStep, Stays
  <2> QED BY <1>3, <2>1, <2>2, <2>3, <2>4 DEF OnlyDisturbed
<1>8. CASE r = 0 /\ ~(version2 /\ HighCapacity) /\ UNCHANGED tries /\ send("CMD16")
  <2>1. CardSide'
    BY <1>0, <1>1, <1>3, <1>8, TriesBound, KeepsCardSide DEF SideFacts, send, Stays, Commands
  <2>2. Learnt'
    BY <1>0, <1>1, <1>2, <1>4, <1>8 DEF SideFacts, Learnt, send, Stays, Commands, HighCapacity
  <2>4. Negotiated'
    BY <1>0, <1>1, <1>2, <1>4, <1>8 DEF SideFacts, Negotiated, send, Stays, Commands, HighCapacity
  <2>3. InStep'
    BY <1>0, <1>1, <1>2, <1>4, <1>5, <1>8 DEF SideFacts, InStep, send, Stays, HighCapacity
  <2> QED BY <1>3, <2>1, <2>2, <2>3, <2>4 DEF OnlyDisturbed
<1> QED BY <1>6, <1>7, <1>8 DEF cmd58

LEMMA StepCMD16 ==
    ASSUME CardSide, Negotiated, Learnt, InStep, at = "init", step = "CMD16", UNCHANGED <<card,
           at>>,
           NEW r \in Responses, sd_command("CMD16", FAT32_SECTOR_SIZE, r), cmd16(r)
    PROVE  CardSide' /\ Negotiated' /\ Learnt' /\ InStep' /\ (noise => noise')
<1>0. SideFacts /\ r \in Int /\ ACMD41_TRIES \in Nat \ {0}
  BY SideTyped, TriesAssumption DEF Responses, Silence
<1>1. /\ Met /\ ~sd_block_addressing
      /\ (Usable' <=> Usable) /\ (HighCapacity' <=> HighCapacity)
      /\ Met' <=> step' # "begin"
  BY DEF Met, Negotiated, Learnt, Commands, Usable, HighCapacity, Filing, Mounting, Opening,
     Searching, Reading
<1>2. /\ card.kind # "low_voltage" /\ (version2 <=> card.kind \in {"SDHC", "SDSC2"})
      /\ Usable /\ (~Disturbed => slot.mode = "ready")
      /\ ~HighCapacity
  BY <1>1 DEF Negotiated, Learnt, InStep
<1>3. OnlyDisturbed
  BY ReactsCMD16
<1>4. /\ slot'.mode = slot.mode
      /\ r = 0 => slot'.length = FAT32_SECTOR_SIZE
      /\ slot.mode = "ready" => Disturbed' \/ r = 0
  BY ReactsCMD16
<1>5. ~Disturbed' => ~Disturbed
  BY <1>3, <1>4 DEF Disturbed, OnlyDisturbed
<1>6. CASE r # 0 /\ init_returns("failed")
  <2>1. CardSide'
    BY <1>0, <1>1, <1>3, <1>6, TriesBound, KeepsCardSide DEF SideFacts, init_returns, Commands
  <2>2. Learnt'
    BY <1>0, <1>1, <1>2, <1>4, <1>6 DEF SideFacts, Learnt, init_returns, Commands
  <2>4. Negotiated'
    BY <1>0, <1>1, <1>2, <1>4, <1>6 DEF SideFacts, Negotiated, init_returns, Commands
  <2>3. InStep'
    BY <1>0, <1>1, <1>2, <1>4, <1>5, <1>6 DEF SideFacts, InStep, init_returns
  <2> QED BY <1>3, <2>1, <2>2, <2>3, <2>4 DEF OnlyDisturbed
<1>7. CASE r = 0 /\ step' = "done" /\ UNCHANGED <<tries, version2, sd_block_addressing>>
  <2>1. CardSide'
    BY <1>0, <1>1, <1>3, <1>7, TriesBound, KeepsCardSide DEF SideFacts, Met, Commands
  <2>2. Learnt'
    BY <1>0, <1>1, <1>2, <1>4, <1>7 DEF SideFacts, Learnt, Met, Commands
  <2>4. Negotiated'
    BY <1>0, <1>1, <1>2, <1>4, <1>7 DEF SideFacts, Negotiated, Met, Commands
  <2>3. InStep'
    BY <1>0, <1>1, <1>2, <1>4, <1>5, <1>7 DEF SideFacts, InStep, Met
  <2> QED BY <1>3, <2>1, <2>2, <2>3, <2>4 DEF OnlyDisturbed
<1> QED BY <1>6, <1>7 DEF cmd16

(* A step of sd_card_init, and what sd_read_sector and the other steps of  *)
(* a load leave of what is known of the card.                              *)
LEMMA Initialising ==
    ASSUME Session, initialise
    PROVE  Session'
<1>1. at = "init" /\ sd_card_init /\ UNCHANGED <<card, at>>
  BY DEF initialise
<1>2. CardSide /\ Negotiated /\ Learnt /\ InStep
  BY DEF Session
<1>3. CASE begin_init
  <2>1. /\ step' = "CMD0" /\ tries' = 0 /\ speed' = "slow" /\ UNCHANGED <<slot, noise>>
        /\ ~sd_block_addressing' /\ ~version2'
        /\ sd_block_addressing' \in BOOLEAN /\ version2' \in BOOLEAN
    BY <1>3 DEF begin_init, spi_set_speed
  <2>2. OnlyDisturbed
    BY <1>2, <2>1 DEF OnlyDisturbed, CardSide
  <2>3. CardSide'
    BY <1>1, <1>2, <2>1, <2>2, TriesBound, KeepsCardSide DEF Commands
  <2>4. Negotiated'
    BY <2>1 DEF Negotiated, Commands
  <2>5. Learnt'
    BY <2>1 DEF Learnt
  <2>6. InStep'
    BY <2>1 DEF InStep
  <2> QED BY <2>3, <2>4, <2>5, <2>6 DEF Session
<1>4. ASSUME NEW r \in Responses, step = "CMD0", sd_command("CMD0", 0, r), cmd0(r)
      PROVE  Session'
  BY <1>1, <1>2, <1>4, StepCMD0 DEF Session
<1>5. ASSUME NEW r \in Responses, step = "CMD8", sd_command("CMD8", 0, r), cmd8(r)
      PROVE  Session'
  BY <1>1, <1>2, <1>5, StepCMD8 DEF Session
<1>6. ASSUME NEW r \in Responses, step = "CMD55", sd_command("CMD55", 0, r), cmd55(r)
      PROVE  Session'
  BY <1>1, <1>2, <1>6, StepCMD55 DEF Session
<1>7. ASSUME NEW r \in Responses, step = "ACMD41", sd_command("ACMD41", acmd41_argument, r),
             acmd41(r)
      PROVE  Session'
  BY <1>1, <1>2, <1>7, StepACMD41 DEF Session
<1>8. ASSUME NEW r \in Responses, step = "CMD58", sd_command("CMD58", 0, r), cmd58(r)
      PROVE  Session'
  BY <1>1, <1>2, <1>8, StepCMD58 DEF Session
<1>9. ASSUME NEW r \in Responses, step = "CMD16", sd_command("CMD16", FAT32_SECTOR_SIZE, r),
             cmd16(r)
      PROVE  Session'
  BY <1>1, <1>2, <1>9, StepCMD16 DEF Session
<1> QED BY <1>1, <1>3, <1>4, <1>5, <1>6, <1>7, <1>8, <1>9 DEF sd_card_init

LEMMA SessionGoesOn ==
    ASSUME Session, at \in Filing, at' \in Filing, OnlyDisturbed, Stays,
           UNCHANGED <<card, step, tries, version2, sd_block_addressing, speed>>
    PROVE  Session'
<1>1. CardSide /\ Negotiated /\ Learnt /\ InStep /\ step = "done"
  BY DEF Session, CardSide
<1>2. Met /\ Met'
  BY DEF Met
<1>3. (Usable' <=> Usable) /\ (HighCapacity' <=> HighCapacity)
  BY DEF Usable, HighCapacity
<1>4. CardSide'
  BY <1>1 DEF CardSide, OnlyDisturbed
<1>5. Negotiated'
  BY <1>1, <1>2, <1>3 DEF Negotiated, Commands
<1>6. Learnt'
  BY <1>1, <1>2, <1>3 DEF Learnt, Stays
<1>7. InStep'
  BY <1>1, <1>2, <1>3 DEF InStep, Stays, Disturbed, OnlyDisturbed
<1> QED BY <1>4, <1>5, <1>6, <1>7 DEF Session

(* An address that the card takes and turns back into the sector.          *)
LEMMA AddressOfSector ==
    ASSUME Session, at \in Filing, NEW n \in Nat
    PROVE  /\ Addressed(address(n)) = n
           /\ slot.mode = "ready" => ~BadAddress(address(n))
<1>1. /\ sd_block_addressing <=> HighCapacity
      /\ slot.mode = "ready" /\ ~HighCapacity => slot.length = FAT32_SECTOR_SIZE
  BY DEF Session, CardSide, Negotiated, Learnt, Met
<1>2. FAT32_SECTOR_SIZE \in Nat \ {0}
  BY TriesAssumption
<1>3. PICK a \in Int : a = n * FAT32_SECTOR_SIZE /\ a = (FAT32_SECTOR_SIZE * n) + 0
  BY <1>2
<1>4. a \div FAT32_SECTOR_SIZE = n /\ a % FAT32_SECTOR_SIZE = 0
  <2>1. 0 \in 0 .. FAT32_SECTOR_SIZE - 1
    BY <1>2
  <2>2. ((FAT32_SECTOR_SIZE * n) + 0) \div FAT32_SECTOR_SIZE = n
        /\ ((FAT32_SECTOR_SIZE * n) + 0) % FAT32_SECTOR_SIZE = 0
    BY <1>2, <2>1, Divides
  <2> QED BY <1>3, <2>2
<1>5. CASE HighCapacity
  BY <1>1, <1>5 DEF address, Addressed, BadAddress
<1>6. CASE ~HighCapacity
  BY <1>1, <1>3, <1>4, <1>6 DEF address, Addressed, BadAddress
<1> QED BY <1>5, <1>6

LEMMA ReadsSector ==
    ASSUME Session, at \in Filing, NEW n \in Nat, sd_read_sector(n), UNCHANGED <<card, at>>
    PROVE  /\ Session' /\ disk = "idle" /\ (Disturbed => Disturbed')
           /\ \/ disk' = "read" /\ sector_buffer' = n
              \/ disk' = "failed" /\ Disturbed'
<1>1. /\ CardSide /\ slot \in Slots /\ noise \in BOOLEAN /\ disk = "idle"
      /\ UNCHANGED <<step, tries, version2, sd_block_addressing, speed>>
      /\ ~Disturbed => slot.mode = "ready"
  BY DEF sd_read_sector, Session, CardSide, InStep, Met
<1>2. /\ Addressed(address(n)) = n
      /\ slot.mode = "ready" => ~BadAddress(address(n))
  BY AddressOfSector
<1>3. ASSUME OnlyDisturbed, Stays
      PROVE  Session' /\ (Disturbed => Disturbed')
  BY <1>1, <1>3, SessionGoesOn DEF Disturbed, OnlyDisturbed, Stays
<1>4. ASSUME NEW r, sd_command("CMD17", address(n), r),
             \/ r # 0 /\ disk' = "failed"
             \/ r = 0 /\ disk' = "read" /\ sector_buffer' = Addressed(address(n))
      PROVE  /\ Session' /\ (Disturbed => Disturbed')
             /\ \/ disk' = "read" /\ sector_buffer' = n
                \/ disk' = "failed" /\ Disturbed'
  <2>1. /\ OnlyDisturbed /\ Stays
        /\ slot.mode = "ready" => Disturbed' \/ r = 0 \/ BadAddress(address(n))
    BY <1>1, <1>4, ReactsCMD17
  <2>2. Session' /\ (Disturbed => Disturbed')
    BY <1>3, <2>1
  <2> QED BY <1>1, <1>2, <1>4, <2>1, <2>2
<1>5. ASSUME slot' = Answer("CMD17", address(n)).slot, noise' = TRUE, disk' = "failed"
      PROVE  Session' /\ (Disturbed => Disturbed') /\ disk' = "failed" /\ Disturbed'
  <2>1. OnlyDisturbed /\ Stays
    BY <1>1, <1>5, CardTakesCMD17
  <2>2. Disturbed'
    BY <1>5 DEF Disturbed
  <2> QED BY <1>3, <1>5, <2>1, <2>2
<1> QED BY <1>1, <1>4, <1>5 DEF sd_read_sector
-----------------------------------------------------------------------------
(* Names: fat_make_short_name takes those of the 8.3 form, and two names   *)
(* agree with the card's in the same case.                                 *)
LEMMA Named83 ==
    ASSUME NEW name \in Names
    PROVE  ShortName[name] # NULL <=> Name83(name)
<1>1. name \in Seq(Characters) /\ ShortName[name] = fat_make_short_name(name)
  BY NameAssumption DEF ShortName
<1>2. PICK n \in Nat : n = Len(name) /\ DOMAIN name = 1 .. n
  BY <1>1
<1>3. ASSUME NEW dot \in 1 .. n
      PROVE  Dotted(name, n, dot) /\ dot < n <=>
               /\ name[dot] = "."
               /\ dot - 1 \in 1 .. 8 /\ n - dot \in 1 .. 3
               /\ \A k \in (1 .. n) \ {dot} : name[k] \notin Unfit \cup {"."}
  BY DEF Dotted, Fit
<1>4. Name83(name) <=> \E dot \in 1 .. n : Dotted(name, n, dot) /\ dot < n
  BY <1>2, <1>3 DEF Name83
<1>5. ASSUME NEW dot \in 1 .. n, Dotted(name, n, dot), dot < n
      PROVE  ShortName[name] # NULL
  <2>1. ShortName[name] = <<Base(name, dot), Upper(name, dot, n)>>
    BY <1>1, <1>2, <1>5, ShortNames
  <2>2. Base(name, dot) \in Seq(Characters) /\ Upper(name, dot, n) \in Seq(Characters)
    BY <1>1, <1>2, <1>5, DottedPieces
  <2>3. <<Base(name, dot), Upper(name, dot, n)>> \in Seq(Seq(Characters))
    BY <2>2
  <2> QED BY <2>1, <2>3, NameAssumption
<1>6. ShortName[name] # NULL => \E dot \in 1 .. n : Dotted(name, n, dot) /\ dot < n
  BY <1>1, <1>2, ShortNames
<1> QED BY <1>4, <1>5, <1>6

LEMMA Called ==
    ASSUME card \in Cards, filename \in Names, ShortName[filename] # NULL
    PROVE  ShortName[filename] = card.name <=> CalledSo
<1>1. filename \in Seq(Characters) /\ ShortName[filename] = fat_make_short_name(filename)
  BY NameAssumption DEF ShortName
<1>2. PICK n \in Nat : n = Len(filename) /\ DOMAIN filename = 1 .. n
  BY <1>1
<1>3. PICK dot \in 1 .. n : Dotted(filename, n, dot) /\ dot < n
  BY <1>1, <1>2, ShortNames
<1>4. PICK b \in Seq(Characters), a \in Seq(Characters) :
        b = Base(filename, dot) /\ a = Upper(filename, dot, n)
  BY <1>1, <1>2, <1>3, DottedPieces
<1>5. "." \in Characters /\ "." \notin ToSet(b)
  BY <1>1, <1>2, <1>3, <1>4, DottedPieces
<1>6. Upper(filename, 0, n) = b \o <<".">> \o a
  BY <1>1, <1>2, <1>3, <1>4, DottedPieces
<1>7. [k \in DOMAIN filename |-> fat_upper(filename[k])] = Upper(filename, 0, n)
  <2>1. n - 0 = n /\ \A k \in 1 .. n : 0 + k = k
    OBVIOUS
  <2> QED BY <1>2, <2>1 DEF Upper
<1>8. ShortName[filename] = <<b, a>>
  BY <1>1, <1>2, <1>3, <1>4, ShortNames
<1>9. PICK c \in Seq(Characters), d \in Seq(Characters) :
        card.name = <<c, d>> /\ c = card.name[1] /\ d = card.name[2]
  BY NameAssumption
<1>10. "." \notin ToSet(c)
  <2>1. ToSet(card.name[1]) \cap (Unfit \cup {"."}) = {}
    BY NameAssumption
  <2> QED BY <1>9, <2>1
<1>11. CalledSo <=> b \o <<".">> \o a = c \o <<".">> \o d
  BY <1>6, <1>7, <1>9 DEF CalledSo
<1>12. b \o <<".">> \o a = c \o <<".">> \o d => b = c /\ a = d
  BY <1>5, <1>10, SplitAtMark
<1>13. <<b, a>> = <<c, d>> <=> b = c /\ a = d
  OBVIOUS
<1> QED BY <1>8, <1>9, <1>11, <1>12, <1>13
-----------------------------------------------------------------------------
(* The reader between open and the last read is on the card's volume.      *)
LEMMA VolumeKnown ==
    ASSUME Session, Walk, at \in Opening \cup Reading \/ (at = "mounted" /\ status = "ok")
    PROVE  /\ OnVolume /\ Formatted /\ cluster_size = ClusterCells
           /\ fs.sectors_per_cluster = card.boot.sectors_per_cluster
           /\ ClusterCells \in Nat \ {0}
           /\ ClusterCells = SECTOR * card.boot.sectors_per_cluster
           /\ card.boot.sectors_per_cluster \in Nat \ {0}
           /\ sector_index \in 0 .. card.boot.sectors_per_cluster - 1
<1>1. fs = geometry(card.boot, card.start) /\ Formatted /\ card \in Cards
  BY DEF Session, CardSide, Walk, Mounted
<1>2. card.boot.sectors_per_cluster \in Nat \ {0}
  BY <1>1 DEF Formatted
<1>3. OnVolume
  BY <1>1, <1>2 DEF OnVolume, Formatted
<1>4. fs.sectors_per_cluster = card.boot.sectors_per_cluster
  BY <1>1 DEF geometry
<1>7. sector_index \in 0 .. card.boot.sectors_per_cluster - 1
  BY DEF Walk, Mounted
<1>5. cluster_size = ClusterCells
  BY <1>4 DEF cluster_size, ClusterCells
<1>6. ClusterCells \in Nat \ {0} /\ ClusterCells = SECTOR * card.boot.sectors_per_cluster
  <2>1. PICK x \in Nat \ {0} : x = card.boot.sectors_per_cluster
    BY <1>2
  <2>2. x * SECTOR \in Nat /\ x * SECTOR >= x /\ x * SECTOR = SECTOR * x
    BY Products
  <2> QED BY <2>1, <2>2 DEF ClusterCells
<1> QED BY <1>1, <1>2, <1>3, <1>4, <1>5, <1>6, <1>7

(* The sector of a cluster that a byte lies in, and where it lies there.   *)
LEMMA SectorOfByte ==
    ASSUME NEW spc \in Nat \ {0}, NEW n \in 0 .. (SECTOR * spc) - 1
    PROVE  /\ n \div SECTOR \in 0 .. spc - 1 /\ n % SECTOR \in 0 .. SECTOR - 1
           /\ n = (n \div SECTOR) * SECTOR + (n % SECTOR)
           /\ n + (SECTOR - (n % SECTOR)) <= SECTOR * spc
<1>1. PICK d \in Int, m \in 0 .. SECTOR - 1 :
        d = n \div SECTOR /\ m = n % SECTOR /\ n = (SECTOR * d) + m
  <2>1. /\ n \div SECTOR \in Int /\ n % SECTOR \in 0 .. SECTOR - 1
        /\ n = (SECTOR * (n \div SECTOR)) + (n % SECTOR)
    BY Remainder
  <2> QED BY <2>1
<1>2. d >= 0
  <2>1. CASE d < 0
    <3>1. SECTOR * d <= SECTOR * (-1)
      BY <2>1
    <3> QED BY <1>1, <3>1
  <2> QED BY <2>1
<1>3. d <= spc - 1
  <2>1. CASE d >= spc
    <3>1. SECTOR * d >= SECTOR * spc
      BY <2>1
    <3> QED BY <1>1, <3>1
  <2> QED BY <2>1
<1>4. SECTOR * d + SECTOR <= SECTOR * spc
  <2>1. SECTOR * (d + 1) <= SECTOR * spc
    BY <1>3
  <2> QED BY <2>1
<1>5. n + (SECTOR - m) <= SECTOR * spc
  BY <1>1, <1>4
<1>6. SECTOR * d = d * SECTOR
  OBVIOUS
<1> QED BY <1>1, <1>2, <1>3, <1>5, <1>6

(* Only a loop that reads has a sector to ask for, on the volume.          *)
LEMMA SectorAsked ==
    ASSUME Session, Walk, lba # NULL
    PROVE  /\ lba \in Nat /\ at \in Filing
           /\ at \in {"boot", "partition", "find", "next_cluster", "skip", "copy", "advance"}
<1>1. /\ at = "find" => in_chain(cluster)
      /\ at = "skip" => skip_clusters > 0
      /\ at = "copy" => length > 0
      /\ at \in {"boot", "partition", "find", "next_cluster", "skip", "copy", "advance"}
      /\ at = "boot" => lba = 0
      /\ at = "partition" => lba = boot_lba
      /\ at = "find" => lba = cluster_lba(cluster) + sector_index
      /\ at \in {"next_cluster", "skip", "advance"} => lba = fat_sector(cluster)
      /\ at = "copy" => lba = cluster_lba(cluster) + (inside_cluster \div SECTOR)
  BY DEF lba
<1>2. at \in Filing
  BY <1>1 DEF Filing, Mounting, Opening, Searching, Reading
<1>3. CASE at \in {"boot", "partition"}
  <2>1. at = "partition" => boot_lba \in Nat
    BY DEF Walk, Mounted
  <2> QED BY <1>1, <1>2, <1>3, <2>1
<1>4. CASE at \in {"find", "next_cluster", "skip", "copy", "advance"}
  <2>1. /\ OnVolume /\ cluster_size = ClusterCells
        /\ fs.sectors_per_cluster = card.boot.sectors_per_cluster
        /\ ClusterCells = SECTOR * card.boot.sectors_per_cluster
        /\ card.boot.sectors_per_cluster \in Nat \ {0}
        /\ sector_index \in 0 .. card.boot.sectors_per_cluster - 1
    BY <1>4, VolumeKnown DEF Opening, Reading, Searching
  <2>2. cluster \in Clusters
    <3>1. \/ \E i \in DOMAIN card.root : cluster = card.root[i]
          \/ \E i \in DOMAIN card.file : cluster = card.file[i]
          \/ at = "find" /\ cluster = EOC
      BY <1>4 DEF Walk, Searched, Copied
    <3>2. ~(at = "find" /\ cluster = EOC)
      BY <1>1 DEF in_chain
    <3> QED BY <2>1, <3>1, <3>2, ChainTyped DEF OnVolume
  <2>3. CASE at \in {"next_cluster", "skip", "advance"}
    <3>1. fs.fat_start_lba \in Nat
      <4>1. fs.fat_start_lba = card.start + card.boot.reserved /\ card \in Cards
        BY <2>1 DEF OnVolume, geometry
      <4>2. card.start \in Nat /\ card.boot.reserved \in Nat
        BY <4>1, CardTyped
      <4> QED BY <4>1, <4>2
    <3>2. cluster \div SECTOR \in Nat
      BY <2>2 DEF Clusters
    <3> QED BY <1>1, <1>2, <2>3, <3>1, <3>2 DEF fat_sector
  <2>4. CASE at = "find"
    <3>1. PICK s \in 0 .. card.boot.sectors_per_cluster - 1 : s = sector_index
      BY <2>1
    <3>2. lba = cluster_lba(cluster) + s
      BY <1>1, <2>4, <3>1
    <3>3. lba \in Nat
      BY <2>1, <2>2, <3>2, DataSector
    <3> QED BY <1>1, <1>2, <3>3
  <2>5. CASE at = "copy"
    <3>1. PICK s \in 0 .. card.boot.sectors_per_cluster - 1 : s = inside_cluster \div SECTOR
      <4>1. inside_cluster \in 0 .. ClusterCells - 1
        BY <1>1, <2>1, <2>5 DEF Walk, Copied, Reading
      <4> QED BY <2>1, <4>1, SectorOfByte
    <3>2. lba = cluster_lba(cluster) + s
      BY <1>1, <2>5, <3>1
    <3>3. lba \in Nat
      BY <2>1, <2>2, <3>2, DataSector
    <3> QED BY <1>1, <1>2, <3>3
  <2> QED BY <1>4, <2>3, <2>4, <2>5
<1> QED BY <1>1, <1>2, <1>3, <1>4
(* What depends on the card, and on the name, stays with them.             *)
LEMMA CardStays ==
    ASSUME UNCHANGED card
    PROVE  /\ Formatted' <=> Formatted
           /\ ClusterCells' = ClusterCells
           /\ TheFile' = TheFile /\ Listed' = Listed /\ FirstListed' = FirstListed
<1>1. Formatted' <=> Formatted
  BY DEF Formatted
<1>2. ClusterCells' = ClusterCells
  BY DEF ClusterCells
<1>3. TheFile' = TheFile
  BY DEF TheFile
<1>4. Listed' = Listed
  BY DEF Listed
<1>5. FirstListed' = FirstListed
  BY <1>4 DEF FirstListed
<1> QED BY <1>1, <1>2, <1>3, <1>4, <1>5

LEMMA NameStays ==
    ASSUME UNCHANGED <<card, filename>>
    PROVE  CalledSo' <=> CalledSo
BY DEF CalledSo

LEMMA WalkStands ==
    ASSUME Walk, UNCHANGED <<at, card, reader>>, Disturbed => Disturbed', Asked'
    PROVE  Walk'
<1>1. /\ UNCHANGED <<at, card, fs, status, boot_lba, filename, file, ask, cluster, sector_index>>
      /\ UNCHANGED <<skip_clusters, inside_cluster, length, got>>
  BY DEF reader
<1>2. /\ Untouched /\ Mounted /\ Searched /\ Found /\ Copied /\ Walked /\ FindsListed
  BY DEF Walk
<1>3. Untouched'
  BY <1>1, <1>2 DEF Untouched
<1>4. Mounted'
  BY <1>1, <1>2, CardStays DEF Mounted, looks_like_fat32, geometry
<1>5. Searched'
  BY <1>1, <1>2, CardStays DEF Searched, Passed, decides
<1>6. Found'
  BY <1>1, <1>2, CardStays, NameStays DEF Found, Name83
<1>7. Copied'
  BY <1>1, <1>2, CardStays DEF Copied, inside, Lies
<1>8. Walked'
  BY <1>1, <1>2 DEF Walked
<1>9. FindsListed'
  BY <1>1, <1>2, CardStays, NameStays DEF FindsListed
<1> QED BY <1>3, <1>4, <1>5, <1>6, <1>7, <1>8, <1>9 DEF Walk


(* Sector 0 of a card, and the sector of its volume.                       *)
LEMMA BootSectors ==
    ASSUME NEW n
    PROVE  /\ n = card.start => BootSector(n) = card.boot
           /\ n # card.start => /\ ~looks_like_fat32(BootSector(n))
                                /\ BootSector(n).partition = IF n = 0 THEN card.start ELSE 0
<1>1. n = card.start => BootSector(n) = card.boot
  BY DEF BootSector
<1>2. ASSUME n # card.start
      PROVE  /\ ~looks_like_fat32(BootSector(n))
             /\ BootSector(n).partition = IF n = 0 THEN card.start ELSE 0
  <2>1. PICK no, p : /\ no = FALSE /\ p = IF n = 0 THEN card.start ELSE 0
                     /\ BootSector(n) = [fat32 |-> no, partition |-> p]
    BY <1>2, Zenon DEF BootSector
  <2>2. BootSector(n).fat32 = no /\ BootSector(n).partition = p
    BY <2>1
  <2> QED BY <2>1, <2>2, Zenon DEF looks_like_fat32
<1> QED BY <1>1, <1>2

LEMMA FormattedLooks ==
    ASSUME card \in Cards
    PROVE  Formatted <=> /\ looks_like_fat32(card.boot)
                         /\ power_of_two(card.boot.sectors_per_cluster)
                         /\ card.boot.reserved # 0 /\ card.boot.fat_count # 0
                         /\ card.boot.root_cluster >= 2
<1>1. /\ card.boot.fat_size > 0 <=> card.boot.fat_size # 0
      /\ card.boot.reserved > 0 <=> card.boot.reserved # 0
      /\ card.boot.fat_count > 0 <=> card.boot.fat_count # 0
  <2>1. \A n \in Nat : n > 0 <=> n # 0
    OBVIOUS
  <2>2. card.boot.fat_size \in Nat /\ card.boot.reserved \in Nat /\ card.boot.fat_count \in Nat
    BY BootTyped
  <2> QED BY <2>1, <2>2, Zenon
<1>2. power_of_two(card.boot.sectors_per_cluster) => card.boot.sectors_per_cluster # 0
  BY DEF power_of_two
<1> QED BY <1>1, <1>2, Zenon DEF Formatted, looks_like_fat32, power_of_two

(* fat32_mount: the volume it takes is the one on the card.                *)
LEMMA TakesVolume ==
    ASSUME Session, Walk, at \in {"boot", "partition"}, card' = card,
           take_volume(card.boot, card.start), looks_like_fat32(card.boot),
           UNCHANGED sector_index
    PROVE  Mounted'
<1>1. card \in Cards /\ sector_index = 0
  BY DEF Session, CardSide, Walk, Untouched, Mounting
<1>2. CASE Formatted
  <2>1. /\ fs' = geometry(card.boot, card.start) /\ at' = "mounted" /\ status' = "ok"
    BY <1>1, <1>2, FormattedLooks DEF take_volume, return
  <2>2. fs'.sectors_per_cluster = card.boot.sectors_per_cluster
    BY <2>1 DEF geometry
  <2>3. card.boot.sectors_per_cluster \in Nat /\ card.boot.sectors_per_cluster > 0
    BY <1>2 DEF Formatted
  <2>4. sector_index' \in 0 .. card.boot.sectors_per_cluster - 1
    BY <1>1, <2>3
  <2>5. fs' = geometry(card.boot, card.start)'
    BY <2>1 DEF geometry
  <2> QED BY <1>2, <2>1, <2>2, <2>3, <2>4, <2>5, CardStays DEF Mounted
<1>3. CASE ~Formatted
  <2>1. /\ UNCHANGED fs /\ at' = "mounted" /\ status' = "error"
    BY <1>1, <1>3, FormattedLooks DEF take_volume, return
  <2>2. /\ fs # NULL => /\ fs.sectors_per_cluster \in Nat
                        /\ sector_index \in 0 .. fs.sectors_per_cluster - 1
    BY DEF Walk, Mounted
  <2> QED BY <1>3, <2>1, <2>2, CardStays
      DEF Mounted, Opening, Reading, Searching
<1> QED BY <1>2, <1>3

LEMMA MountsRight ==
    ASSUME Session, Walk, (at = "boot" /\ boot) \/ (at = "partition" /\ partition),
           UNCHANGED <<card, slot, noise, sector_index>>
    PROVE  Mounted'
<1>1. /\ card \in Cards /\ card.start \in Nat /\ card.boot.partition \in Nat
  BY CardTyped DEF Session, CardSide
<1>2. /\ disk = "read" => sector_buffer = IF at = "boot" THEN 0 ELSE boot_lba
      /\ disk = "failed" => Disturbed
  BY DEF Walk, Asked, lba
<1>3. /\ fs # NULL => /\ fs.sectors_per_cluster \in Nat
                      /\ sector_index \in 0 .. fs.sectors_per_cluster - 1
      /\ at = "partition" =>
           boot_lba \in Nat /\ (boot_lba = card.start \/ ~looks_like_fat32(card.boot))
  BY DEF Walk, Mounted
<1>4. Disturbed' <=> Disturbed
  BY DEF Disturbed
<1>5. ASSUME UNCHANGED fs, at' = "mounted", status' = "error", Disturbed \/ ~Formatted
      PROVE  Mounted'
  BY <1>3, <1>4, <1>5, CardStays DEF Mounted, Opening, Reading, Searching
<1> DEFINE s == BootSector(sector_buffer)
<1>6. CASE at = "boot"
  <2>1. CASE disk = "read" /\ looks_like_fat32(s)
    <3>1. take_volume(s, 0)
      BY <1>6, <2>1 DEF boot, sector_read, read_fails
    <3>2. s = card.boot /\ card.start = 0
      BY <1>2, <1>6, <2>1, BootSectors
    <3> QED BY <1>6, <2>1, <3>1, <3>2, TakesVolume
  <2>2. CASE disk = "read" /\ ~looks_like_fat32(s)
    <3>1. /\ boot_lba' = s.partition /\ UNCHANGED fs
          /\ IF s.partition = 0 THEN return("mounted", "error") ELSE go("partition")
      BY <1>6, <2>2 DEF boot, sector_read, read_fails
    <3>2. /\ s.partition \in Nat
          /\ card.start # 0 => s.partition = card.start
          /\ card.start = 0 => ~looks_like_fat32(card.boot)
      BY <1>1, <1>2, <1>6, <2>2, BootSectors
    <3>3. CASE s.partition = 0
      <4>1. ~Formatted
        BY <1>1, <3>2, <3>3, FormattedLooks
      <4> QED BY <1>5, <3>1, <3>3, <4>1 DEF return
    <3>4. CASE s.partition # 0
      <4>1. at' = "partition" /\ boot_lba' \in Nat /\ UNCHANGED fs
            /\ (boot_lba' = card.start \/ ~looks_like_fat32(card.boot))
        BY <3>1, <3>2, <3>4 DEF go
      <4>2. looks_like_fat32(card.boot)' <=> looks_like_fat32(card.boot)
        BY DEF looks_like_fat32
      <4> QED BY <1>3, <4>1, <4>2 DEF Mounted, Opening, Reading, Searching
    <3> QED BY <3>3, <3>4
  <2>3. CASE disk = "failed"
    <3>1. UNCHANGED fs /\ at' = "mounted" /\ status' = "error"
      BY <1>6, <2>3 DEF boot, sector_read, read_fails, return
    <3> QED BY <1>2, <1>5, <2>3, <3>1
  <2> QED BY <1>6, <2>1, <2>2, <2>3 DEF boot, sector_read, read_fails
<1>7. CASE at = "partition"
  <2>1. CASE disk = "read" /\ looks_like_fat32(s)
    <3>1. take_volume(s, boot_lba)
      BY <1>7, <2>1 DEF partition, sector_read, read_fails
    <3>2. s = card.boot /\ card.start = boot_lba
      BY <1>2, <1>7, <2>1, BootSectors
    <3> QED BY <1>7, <2>1, <3>1, <3>2, TakesVolume
  <2>2. CASE disk = "read" /\ ~looks_like_fat32(s)
    <3>1. UNCHANGED fs /\ at' = "mounted" /\ status' = "error"
      BY <1>7, <2>2 DEF partition, sector_read, read_fails, return
    <3>2. ~looks_like_fat32(card.boot)
      BY <1>2, <1>3, <1>7, <2>2, BootSectors
    <3>3. ~Formatted
      BY <1>1, <3>2, FormattedLooks
    <3> QED BY <1>5, <3>1, <3>3
  <2>3. CASE disk = "failed"
    <3>1. UNCHANGED fs /\ at' = "mounted" /\ status' = "error"
      BY <1>7, <2>3 DEF partition, sector_read, read_fails, return
    <3> QED BY <1>2, <1>5, <2>3, <3>1
  <2> QED BY <1>7, <2>1, <2>2, <2>3 DEF partition, sector_read, read_fails
<1> QED BY <1>6, <1>7

LEMMA Mounts ==
    ASSUME Session, Walk, fat32_mount, UNCHANGED <<card, slot, noise>>
    PROVE  Walk' /\ at \in Filing /\ at' \in Filing
<1>1. /\ UNCHANGED <<filename, file, ask, cluster, sector_index, skip_clusters>>
      /\ UNCHANGED <<inside_cluster, length, got>>
      /\ begin_mount \/ boot \/ partition
  BY DEF fat32_mount
<1>2. /\ Asked /\ Untouched /\ Mounted /\ Walked /\ card \in Cards
  BY DEF Walk, Session, CardSide
<1>3. /\ at \in Mounting /\ at' \in Mounting
      /\ at' # "mounted" => UNCHANGED status
      /\ status' \in {status, "ok", "error"}
      /\ disk' = "idle" \/ (UNCHANGED disk /\ at = "mount")
  <2>1. ASSUME NEW s, NEW first, take_volume(s, first)
        PROVE  at' = "mounted" /\ status' \in {"ok", "error"}
    BY <2>1 DEF take_volume, return
  <2>2. CASE begin_mount
    BY <2>2 DEF begin_mount, Mounting, go
  <2>3. CASE boot
    <3>1. /\ at = "boot" /\ disk' = "idle"
          /\ \/ \E s : take_volume(s, 0)
             \/ return("mounted", "error") \/ go("partition")
      BY <2>3 DEF boot, sector_read, read_fails
    <3> QED BY <2>1, <3>1 DEF Mounting, return, go
  <2>4. CASE partition
    <3>1. /\ at = "partition" /\ disk' = "idle"
          /\ \/ \E s : take_volume(s, boot_lba)
             \/ return("mounted", "error")
      BY <2>4 DEF partition, sector_read, read_fails
    <3> QED BY <2>1, <3>1 DEF Mounting, return
  <2> QED BY <1>1, <2>2, <2>3, <2>4
<1>4. disk' = "idle"
  BY <1>2, <1>3 DEF Asked, lba
<1>5. Asked'
  BY <1>4 DEF Asked
<1>6. Untouched'
  BY <1>1, <1>2, <1>3 DEF Untouched, Opening, Searching, Mounting
<1>7. Mounted'
  <2>1. CASE begin_mount
    <3>1. fs' = NULL /\ at' = "boot"
      BY <2>1 DEF begin_mount, go
    <3> QED BY <3>1 DEF Mounted, Opening, Reading, Searching
  <2>2. CASE boot
    <3>1. at = "boot"
      BY <2>2 DEF boot
    <3>2. (at = "boot" /\ boot) \/ (at = "partition" /\ partition)
      BY <2>2, <3>1
    <3> QED BY <1>1, <3>2, MountsRight
  <2>3. CASE partition
    <3>1. at = "partition"
      BY <2>3 DEF partition
    <3> QED BY <1>1, <2>3, <3>1, MountsRight
  <2> QED BY <1>1, <2>1, <2>2, <2>3
<1>8. Searched' /\ Found' /\ Copied'
  BY <1>3 DEF Searched, Found, Copied, Mounting, Searching, Reading
<1>9. Walked'
  BY <1>1, <1>2, <1>3 DEF Walked
<1>10. FindsListed'
  <2>1. file' = NULL /\ at' # "opened"
    BY <1>1, <1>2, <1>3 DEF Untouched, Mounting
  <2> QED BY <2>1 DEF FindsListed
<1> QED BY <1>3, <1>5, <1>6, <1>7, <1>8, <1>9, <1>10 DEF Walk, Filing

-----------------------------------------------------------------------------
(* The search: what stands in the directory before and at an entry.        *)
Decided(q) == q \in DOMAIN card.directory /\ decides(card.directory[q]) /\ Passed(q - 1)

LEMMA DirectoryTyped ==
    ASSUME card \in Cards
    PROVE  /\ \A k \in DOMAIN card.directory : k \in Nat \ {0} /\ card.directory[k] \in Kinds
           /\ DOMAIN card.directory = 1 .. Len(card.directory) /\ Len(card.directory) \in Nat
           /\ Listed \in SUBSET (Nat \ {0}) /\ Listed \subseteq DOMAIN card.directory
<1>1. PICK d \in Seq(Kinds) : d = card.directory
  BY EntriesTyped
<1>2. /\ \A k \in DOMAIN d : k \in Nat \ {0} /\ d[k] \in Kinds
      /\ DOMAIN d = 1 .. Len(d) /\ Len(d) \in Nat
  OBVIOUS
<1>3. Listed \subseteq DOMAIN d
  BY <1>1 DEF Listed
<1> QED BY <1>1, <1>2, <1>3

(* The end mark decides, or the first entry that counts does.              *)
LEMMA EndDecides ==
    ASSUME card \in Cards, filename \in Names, ShortName[filename] # NULL,
           \/ Passed(Len(card.directory))
           \/ \E q : Decided(q) /\ card.directory[q] = "end"
    PROVE  ~CalledSo \/ Listed = {}
<1>1. SUFFICES ASSUME CalledSo, NEW k \in Listed
               PROVE  FALSE
  OBVIOUS
<1>2. ShortName[filename] = card.name
  BY <1>1, Called
<1>3. k \in DOMAIN card.directory /\ decides(card.directory[k])
  BY <1>2 DEF Listed, decides
<1>4. k \in Nat /\ k <= Len(card.directory)
  BY <1>3, DirectoryTyped
<1>5. ~Passed(Len(card.directory))
  BY <1>3, <1>4 DEF Passed
<1>6. PICK q : Decided(q) /\ card.directory[q] = "end"
  BY <1>5
<1>7. q \in Nat \ {0} /\ q \in DOMAIN card.directory
  BY <1>6, DirectoryTyped DEF Decided
<1>8. ~(k <= q - 1)
  BY <1>3, <1>6 DEF Decided, Passed
<1>9. q \in 1 .. k
  BY <1>4, <1>7, <1>8
<1> QED BY <1>6, <1>9 DEF Listed

LEMMA FileDecides ==
    ASSUME card \in Cards, filename \in Names, ShortName[filename] # NULL,
           NEW q, Decided(q), card.directory[q] \in {"wanted", "empty"}
    PROVE  CalledSo /\ Listed # {} /\ FirstListed = card.directory[q]
<1>1. q \in DOMAIN card.directory /\ ShortName[filename] = card.name /\ q \in Nat \ {0}
  BY DirectoryTyped DEF Decided, decides
<1>2. CalledSo
  BY <1>1, Called
<1>3. ASSUME NEW k \in DOMAIN card.directory, k < q
      PROVE  card.directory[k] \notin {"end", "wanted", "empty"}
  <2>1. k <= q - 1
    BY <1>1, <1>3, DirectoryTyped
  <2>2. ~decides(card.directory[k])
    BY <2>1 DEF Decided, Passed
  <2> QED BY <1>1, <2>2 DEF decides
<1>4. \A j \in 1 .. q : j \in DOMAIN card.directory /\ (j < q \/ j = q)
  BY <1>1, DirectoryTyped
<1>5. q \in Listed
  BY <1>1, <1>3, <1>4 DEF Listed
<1>6. \A k \in Listed : q <= k
  <2> TAKE k \in Listed
  <2>1. k \in Nat /\ k \in DOMAIN card.directory /\ card.directory[k] \in {"wanted", "empty"}
    BY DirectoryTyped DEF Listed
  <2> QED BY <1>1, <1>3, <2>1
<1>7. Min(Listed) = q
  BY <1>1, <1>5, <1>6, LeastIs, DirectoryTyped
<1> QED BY <1>2, <1>5, <1>7 DEF FirstListed

(* The entries of a sector of the directory, and the first that decides.   *)
LEMMA SectorOfDirectory ==
    ASSUME OnVolume, NEW i \in DOMAIN card.root,
           NEW s \in 0 .. card.boot.sectors_per_cluster - 1,
           sector_buffer = cluster_lba(card.root[i]) + s,
           NEW p, p = (i - 1) * ClusterCells + s * SECTOR
    PROVE  /\ p \in Nat
           /\ \A k \in 0 .. SECTOR - 1 : p + k + 1 \in DOMAIN card.directory
                 /\ Cells(sector_buffer)[k] = card.directory[p + k + 1]
           /\ DOMAIN Cells(sector_buffer) = 0 .. SECTOR - 1
           /\ s + 1 = card.boot.sectors_per_cluster => p + SECTOR = i * ClusterCells
           /\ Len(card.directory) = Len(card.root) * ClusterCells
<1>1. PICK spc \in Nat \ {0}, n \in Nat : spc = card.boot.sectors_per_cluster /\ n = Len(card.root)
  <2>1. card.boot.sectors_per_cluster \in Nat \ {0}
    <3>1. card \in Cards /\ card.boot.sectors_per_cluster > 0
      BY DEF OnVolume
    <3>2. card.boot.sectors_per_cluster \in Nat
      BY <3>1, BootTyped
    <3> QED BY <3>1, <3>2
  <2>2. Len(card.root) \in Nat
    BY ChainTyped DEF OnVolume
  <2> QED BY <2>1, <2>2
<1>2. i \in 1 .. n /\ i - 1 \in Nat /\ n - i \in Nat
  <2>1. i \in 1 .. Len(card.root)
    BY ChainTyped DEF OnVolume
  <2>2. i \in 1 .. n
    BY <1>1, <2>1
  <2> QED BY <2>2
<1>3. PICK cc \in Nat \ {0} : cc = spc * SECTOR /\ cc = ClusterCells
  <2>1. spc * SECTOR \in Nat /\ spc * SECTOR >= spc
    BY Products
  <2> QED BY <1>1, <2>1 DEF ClusterCells
<1>4. PICK x \in Nat, y \in Nat, z \in Nat :
        x = (i - 1) * cc /\ y = s * SECTOR /\ z = (n - i) * cc
  <2>1. s \in Nat
    BY <1>1
  <2>2. (i - 1) * cc \in Nat
    BY <1>2, Products
  <2>3. s * SECTOR \in Nat
    BY <2>1, Products
  <2>4. (n - i) * cc \in Nat
    BY <1>2, Products
  <2> QED BY <2>2, <2>3, <2>4
<1>5. p = x + y /\ p \in Nat
  BY <1>3, <1>4
<1>6. y + SECTOR <= cc /\ (s + 1 = spc => y + SECTOR = cc)
  <2>1. PICK r \in Nat : r = spc - 1 - s
    BY <1>1
  <2>2. r * SECTOR \in Nat /\ cc = y + SECTOR + r * SECTOR
    <3>1. r * SECTOR \in Nat
      BY Products
    <3>2. spc = s + 1 + r
      BY <2>1
    <3>3. (s + 1 + r) * SECTOR = s * SECTOR + SECTOR + r * SECTOR
      OBVIOUS
    <3> QED BY <1>3, <1>4, <3>1, <3>2, <3>3
  <2>3. s + 1 = spc => r * SECTOR = 0
    BY <2>1
  <2> QED BY <2>2, <2>3
<1>7. x + cc = i * cc /\ n * cc = x + cc + z
  <2>1. i * cc = (i - 1) * cc + cc
    BY <1>2
  <2>2. n * cc = i * cc + (n - i) * cc
    BY <1>2
  <2> QED BY <1>4, <2>1, <2>2
<1>8. Len(card.directory) = n * cc
  <2>1. Len(card.directory) = Len(card.root) * card.boot.sectors_per_cluster * SECTOR
    BY CardAssumption DEF OnVolume
  <2>2. n * spc * SECTOR = n * (spc * SECTOR)
    OBVIOUS
  <2> QED BY <1>1, <1>3, <2>1, <2>2
<1>9. ASSUME NEW k \in 0 .. SECTOR - 1
      PROVE  /\ p + k + 1 \in DOMAIN card.directory
             /\ Cells(sector_buffer)[k] = card.directory[p + k + 1]
  <2>1. p + k < Len(card.directory) /\ p + k \in Nat
    BY <1>5, <1>6, <1>7, <1>8
  <2>2. (i - 1) * ClusterCells + (s * SECTOR + k) = p + k
    BY <1>3, <1>4, <1>5
  <2>3. Cells(sector_buffer)[k] = card.directory[p + k + 1]
    BY <2>1, <2>2, RootCells
  <2>4. p + k + 1 \in DOMAIN card.directory
    BY <1>5, <2>1, DirectoryTyped DEF OnVolume
  <2> QED BY <2>3, <2>4
<1>10. DOMAIN Cells(sector_buffer) = 0 .. SECTOR - 1
  BY DEF Cells
<1>11. s + 1 = spc => p + SECTOR = i * cc
  <2>1. PICK w : w = i * cc
    OBVIOUS
  <2>2. w = x + cc
    BY <1>7, <2>1
  <2>3. s + 1 = spc => y + SECTOR = cc
    BY <1>6
  <2>4. s + 1 = spc => p + SECTOR = w
    BY <1>5, <2>2, <2>3
  <2> QED BY <2>1, <2>4
<1> QED BY <1>1, <1>3, <1>5, <1>8, <1>9, <1>10, <1>11

(* How fat32_open goes on, and how it ends.                                *)
LEMMA OpenFrame ==
    ASSUME Session, Walk, at \in Opening, at' \in {"opened"} \cup Searching, disk' = "idle",
           UNCHANGED <<card, fs, skip_clusters, inside_cluster, length, got>>,
           sector_index' \in 0 .. card.boot.sectors_per_cluster - 1,
           cluster' \in {cluster, EOC} \cup ToSet(card.root),
           status' \in {status, "ok", "error", "not_found", "invalid_name"},
           Searched', Found', FindsListed'
    PROVE  Walk'
<1>1. /\ Untouched /\ Mounted /\ Walked
      /\ fs = geometry(card.boot, card.start) /\ Formatted
      /\ fs.sectors_per_cluster = card.boot.sectors_per_cluster
  BY VolumeKnown DEF Walk, Mounted
<1>2. Asked'
  BY DEF Asked
<1>3. Untouched'
  BY <1>1 DEF Untouched, Opening, Searching, Mounting
<1>4. Mounted'
  <2>1. geometry(card.boot, card.start)' = geometry(card.boot, card.start)
    BY DEF geometry
  <2>2. fs # NULL => fs.sectors_per_cluster \in Nat
    BY <1>1 DEF Mounted
  <2> QED BY <1>1, <2>1, <2>2, CardStays DEF Mounted, Opening, Searching, Reading
<1>5. Copied'
  BY DEF Copied, Searching, Reading
<1>6. Walked'
  BY <1>1 DEF Walked
<1> QED BY <1>2, <1>3, <1>4, <1>5, <1>6 DEF Walk

LEMMA OpenEnds ==
    ASSUME Session, Walk, at \in Searching, at' = "opened",
           disk' = "idle", UNCHANGED <<card, slot, noise, filename, fs, cluster>>,
           UNCHANGED <<sector_index, skip_clusters, inside_cluster, length, got>>,
           \/ /\ status' = "ok" /\ file' = TheFile /\ card.file # <<>>
              /\ CalledSo /\ Listed # {} /\ FirstListed = "wanted"
           \/ status' = "not_found" /\ file' = NULL /\ (~CalledSo \/ Listed = {})
           \/ /\ status' = "error" /\ file' = NULL
              /\ Disturbed \/ (CalledSo /\ Listed # {} /\ FirstListed = "empty")
    PROVE  Walk'
<1>1. filename \in Names /\ ShortName[filename] # NULL /\ file = NULL
  BY DEF Walk, Searched
<1>2. Searched'
  BY <1>1 DEF Searched, Searching, Reading
<1>3. Found'
  <2>1. Disturbed' <=> Disturbed
    BY DEF Disturbed
  <2> QED BY <1>1, <2>1, CardStays, NameStays DEF Found, Reading
<1>4. FindsListed'
  BY CardStays, NameStays DEF FindsListed
<1>5. sector_index \in 0 .. card.boot.sectors_per_cluster - 1
  BY VolumeKnown DEF Opening
<1> QED BY <1>2, <1>3, <1>4, <1>5, OpenFrame DEF Opening, Searching

LEMMA SearchGoesOn ==
    ASSUME Session, Walk, at \in Searching, at' \in Searching,
           disk' = "idle", UNCHANGED <<card, status, filename, file, fs>>,
           UNCHANGED <<skip_clusters, inside_cluster, length, got>>,
           cluster' \in {cluster, EOC} \cup ToSet(card.root),
           sector_index' \in 0 .. card.boot.sectors_per_cluster - 1, Searched'
    PROVE  Walk'
<1>1. file = NULL
  BY DEF Walk, Searched
<1>2. Found'
  BY DEF Found, Searching, Reading
<1>3. FindsListed'
  BY <1>1 DEF FindsListed, Searching
<1> QED BY <1>2, <1>3, OpenFrame DEF Opening, Searching

LEMMA BeginsOpen ==
    ASSUME Session, Walk, begin_open, UNCHANGED <<card, slot, noise, fs>>,
           UNCHANGED <<skip_clusters, inside_cluster, length, got>>
    PROVE  Walk' /\ at \in Opening /\ at' \in Opening
<1>1. PICK name \in Names :
        /\ filename' = name
        /\ IF ShortName[name] = NULL
           THEN return("opened", "invalid_name") /\ UNCHANGED cluster
           ELSE cluster' = fs.root_cluster /\ go("find")
  BY DEF begin_open
<1>2. /\ at = "open" /\ file = NULL /\ sector_index = 0
      /\ UNCHANGED <<file, sector_index, disk>>
  BY DEF begin_open, Walk, Untouched
<1>3. disk' = "idle"
  BY <1>2 DEF Walk, Asked, lba
<1>4. /\ card \in Cards /\ Formatted /\ fs.root_cluster = card.boot.root_cluster
      /\ sector_index \in 0 .. card.boot.sectors_per_cluster - 1
  <2>1. fs = geometry(card.boot, card.start)
    BY <1>2, VolumeKnown DEF Opening, OnVolume
  <2> QED BY <1>2, <2>1, VolumeKnown DEF Session, CardSide, Opening, geometry
<1>5. 1 \in DOMAIN card.root /\ fs.root_cluster = card.root[1]
  <2>1. card.root \in Seq(Clusters) /\ card.root # <<>>
    BY <1>4, CardAssumption
  <2>2. card.boot.root_cluster \in {card.root[1], 0} /\ card.boot.root_cluster >= 2
    BY <1>4, CardAssumption DEF Formatted
  <2> QED BY <1>4, <2>1, <2>2
<1>6. card.root[1] \in ToSet(card.root)
  BY <1>5 DEF ToSet
<1>7. FindsListed'
  BY <1>1, <1>2 DEF FindsListed, return, go
<1>8. CASE ShortName[name] = NULL
  <2>1. at' = "opened" /\ status' = "invalid_name" /\ UNCHANGED cluster
    BY <1>1, <1>8 DEF return
  <2>2. ~Name83(name)
    BY <1>8, Named83
  <2>3. Searched'
    BY <1>1, <2>1 DEF Searched, Searching, Reading
  <2>4. Found'
    <3>1. ~Name83(filename)'
      BY <1>1, <2>2 DEF Name83
    <3> QED BY <1>1, <1>2, <2>1, <3>1 DEF Found, Reading
  <2> QED BY <1>2, <1>3, <1>4, <1>7, <2>1, <2>3, <2>4, OpenFrame DEF Opening
<1>9. CASE ShortName[name] # NULL
  <2>1. at' = "find" /\ UNCHANGED status /\ cluster' = card.root[1]
    BY <1>1, <1>5, <1>9 DEF go
  <2>2. Searched'
    <3>1. \A k \in DOMAIN card.directory : ~(k <= (1 - 1) * ClusterCells + 0 * SECTOR)
      <4>1. (1 - 1) * ClusterCells + 0 * SECTOR = 0
        <5>1. ClusterCells \in Nat
          BY <1>2, VolumeKnown DEF Opening
        <5> QED BY <5>1
      <4>2. \A k \in DOMAIN card.directory : k \in Nat \ {0}
        BY <1>4, DirectoryTyped
      <4> QED BY <4>1, <4>2
    <3> QED BY <1>1, <1>2, <1>5, <1>9, <2>1, <3>1, CardStays
        DEF Searched, Searching, Reading, Passed
  <2>3. Found'
    BY <1>2, <2>1 DEF Found, Reading
  <2> QED BY <1>2, <1>3, <1>4, <1>6, <1>7, <2>1, <2>2, <2>3, OpenFrame DEF Opening, Searching
<1> QED BY <1>1, <1>2, <1>8, <1>9 DEF Opening, Searching, return, go

(* fat_find_file looks at a sector of the directory.                       *)
LEMMA LooksAtSector ==
    ASSUME Session, Walk, at = "find", in_chain(cluster), sector_read, fat_find_file,
           UNCHANGED <<card, slot, noise, fs>>,
           UNCHANGED <<skip_clusters, inside_cluster, length, got>>
    PROVE  Walk'
<1> DEFINE entries == Cells(sector_buffer)
           telling == {k \in DOMAIN entries : decides(entries[k])}
<1>1. /\ disk' = "idle" /\ UNCHANGED <<cluster, filename>>
      /\ \/ telling # {} /\ entry_found(entries[Min(telling)]) /\ UNCHANGED sector_index
         \/ /\ telling = {}
            /\ sector_index' = IF last_sector THEN 0 ELSE sector_index + 1
            /\ go(IF last_sector THEN "next_cluster" ELSE "find")
            /\ UNCHANGED file
  BY DEF fat_find_file, sector_read, read_fails
<1>2. /\ OnVolume /\ fs.sectors_per_cluster = card.boot.sectors_per_cluster
      /\ card.boot.sectors_per_cluster \in Nat \ {0} /\ ClusterCells \in Nat \ {0}
      /\ sector_index \in 0 .. card.boot.sectors_per_cluster - 1 /\ card \in Cards
  BY VolumeKnown DEF Opening, Searching, OnVolume
<1>3. /\ filename \in Names /\ ShortName[filename] # NULL /\ file = NULL
      /\ sector_buffer = cluster_lba(cluster) + sector_index
  BY DEF Walk, Searched, Searching, Asked, sector_read, lba
<1>4. PICK i \in DOMAIN card.root :
        cluster = card.root[i] /\ Passed((i - 1) * ClusterCells + sector_index * SECTOR)
  BY DEF Walk, Searched, in_chain
<1>5. PICK p \in Nat : p = (i - 1) * ClusterCells + sector_index * SECTOR
  BY <1>2, <1>3, <1>4, SectorOfDirectory
<1>6. /\ \A k \in 0 .. SECTOR - 1 : /\ p + k + 1 \in DOMAIN card.directory
                                    /\ entries[k] = card.directory[p + k + 1]
      /\ DOMAIN entries = 0 .. SECTOR - 1
      /\ sector_index + 1 = card.boot.sectors_per_cluster => p + SECTOR = i * ClusterCells
  <2>1. sector_buffer = cluster_lba(card.root[i]) + sector_index
    BY <1>3, <1>4
  <2>2. /\ \A k \in 0 .. SECTOR - 1 : p + k + 1 \in DOMAIN card.directory
           /\ Cells(sector_buffer)[k] = card.directory[p + k + 1]
        /\ DOMAIN Cells(sector_buffer) = 0 .. SECTOR - 1
        /\ sector_index + 1 = card.boot.sectors_per_cluster => p + SECTOR = i * ClusterCells
    <3>1. OnVolume /\ sector_index \in 0 .. card.boot.sectors_per_cluster - 1
      BY <1>2
    <3> HIDE DEF entries, telling
    <3> QED BY <1>5, <2>1, <3>1, SectorOfDirectory
  <2> QED BY <2>2
<1>7. Passed(p)
  BY <1>4, <1>5
<1> HIDE DEF entries
<1>8. CASE telling # {}
  <2>1. telling \in SUBSET Nat
    BY <1>6
  <2>2. PICK k \in telling : \A j \in telling : k <= j
    <3> HIDE DEF telling
    <3> QED BY <1>8, <2>1, LeastElement
  <2>3. Min(telling) = k
    <3> HIDE DEF telling
    <3> QED BY <2>1, <2>2, LeastIs
  <2>4. PICK q \in Nat : q = p + k + 1 /\ entries[k] = card.directory[q] /\ k \in 0 .. SECTOR - 1
                         /\ q \in DOMAIN card.directory
    BY <1>6, <2>1, <2>2
  <2>5. Decided(q)
    <3>1. decides(card.directory[q])
      BY <2>2, <2>4
    <3>2. ASSUME NEW j \in DOMAIN card.directory, j <= q - 1
          PROVE  ~decides(card.directory[j])
      <4>0. j \in Nat
        BY <1>2, DirectoryTyped
      <4>1. CASE j <= p
        BY <1>7, <4>1 DEF Passed
      <4>2. CASE j > p
        <5>1. PICK l \in 0 .. SECTOR - 1 : j = p + l + 1 /\ l < k
          <6>1. j - p - 1 \in 0 .. SECTOR - 1 /\ j = p + (j - p - 1) + 1 /\ j - p - 1 < k
            BY <2>4, <3>2, <4>0, <4>2
          <6> QED BY <6>1
        <5>2. l \notin telling
          BY <2>2, <2>4, <5>1
        <5> QED BY <1>6, <5>1, <5>2
      <4> QED BY <4>0, <4>1, <4>2
    <3> QED BY <2>4, <3>1, <3>2 DEF Decided, Passed
  <2>6. entry_found(card.directory[q]) /\ UNCHANGED sector_index
    BY <1>1, <1>8, <2>3, <2>4
  <2>7. CASE card.directory[q] = "end"
    <3>1. ~CalledSo \/ Listed = {}
      BY <1>2, <1>3, <2>5, <2>7, EndDecides
    <3>2. at' = "opened" /\ status' = "not_found" /\ UNCHANGED file
      BY <2>6, <2>7 DEF entry_found, return
    <3> QED BY <1>1, <1>3, <2>6, <3>1, <3>2, OpenEnds DEF Searching
  <2>8. CASE card.directory[q] = "empty"
    <3>1. CalledSo /\ Listed # {} /\ FirstListed = "empty"
      BY <1>2, <1>3, <2>5, <2>8, FileDecides
    <3>2. at' = "opened" /\ status' = "error" /\ UNCHANGED file
      BY <2>6, <2>8 DEF entry_found, return
    <3> QED BY <1>1, <1>3, <2>6, <3>1, <3>2, OpenEnds DEF Searching
  <2>9. CASE card.directory[q] = "wanted"
    <3>1. CalledSo /\ Listed # {} /\ FirstListed = "wanted"
      BY <1>2, <1>3, <2>5, <2>9, FileDecides
    <3>2. at' = "opened" /\ status' = "ok" /\ file' = TheFile
      BY <2>6, <2>9 DEF entry_found, return, TheFile
    <3>3. card.file # <<>>
      <4>1. "wanted" \in ToSet(card.directory)
        BY <2>4, <2>9 DEF ToSet
      <4> QED BY <1>2, <4>1, CardAssumption
    <3> QED BY <1>1, <2>6, <3>1, <3>2, <3>3, OpenEnds DEF Searching
  <2> QED BY <2>6, <2>7, <2>8, <2>9 DEF entry_found
<1>9. CASE telling = {}
  <2>1. ASSUME NEW j \in DOMAIN card.directory, j <= p + SECTOR
        PROVE  ~decides(card.directory[j])
    <3>0. j \in Nat
      BY <1>2, DirectoryTyped
    <3>1. CASE j <= p
      BY <1>7, <3>1 DEF Passed
    <3>2. CASE j > p
      <4>1. PICK l \in 0 .. SECTOR - 1 : j = p + l + 1
        <5>1. j - p - 1 \in 0 .. SECTOR - 1 /\ j = p + (j - p - 1) + 1
          BY <2>1, <3>0, <3>2
        <5> QED BY <5>1
      <4>2. l \notin telling
        BY <1>9
      <4> QED BY <1>6, <4>1, <4>2
    <3> QED BY <3>0, <3>1, <3>2
  <2>2. CASE last_sector
    <3>1. /\ sector_index' = 0 /\ at' = "next_cluster" /\ UNCHANGED <<status, file>>
          /\ p + SECTOR = i * ClusterCells
      BY <1>1, <1>2, <1>6, <1>9, <2>2 DEF last_sector, go
    <3>2. Searched'
      BY <1>1, <1>3, <1>4, <2>1, <3>1, CardStays
      DEF Searched, Searching, Reading, Passed, decides
    <3>3. 0 \in 0 .. card.boot.sectors_per_cluster - 1
      BY <1>2
    <3> QED BY <1>1, <3>1, <3>2, <3>3, SearchGoesOn DEF Searching
  <2>3. CASE ~last_sector
    <3>1. /\ sector_index' = sector_index + 1 /\ at' = "find" /\ UNCHANGED <<status, file>>
          /\ sector_index + 1 \in 0 .. card.boot.sectors_per_cluster - 1
      BY <1>1, <1>2, <1>9, <2>3 DEF last_sector, go
    <3>2. p + SECTOR = (i - 1) * ClusterCells + (sector_index + 1) * SECTOR
      <4>1. PICK s \in Nat : s = sector_index
        BY <1>2
      <4>2. (s + 1) * SECTOR = s * SECTOR + SECTOR /\ s * SECTOR \in Int
        BY Products
      <4>3. (i - 1) * ClusterCells \in Int
        BY <1>2, <1>4, ChainTyped
      <4> QED BY <1>5, <4>1, <4>2, <4>3
    <3>3. Searched'
      BY <1>1, <1>3, <1>4, <2>1, <3>1, <3>2, CardStays
      DEF Searched, Searching, Reading, Passed, decides
    <3> QED BY <1>1, <3>1, <3>3, SearchGoesOn DEF Searching
  <2> QED BY <2>2, <2>3
<1> QED BY <1>8, <1>9

LEMMA AllOfDirectory ==
    ASSUME card \in Cards
    PROVE  Len(card.directory) = Len(card.root) * ClusterCells
<1>1. Len(card.directory) = Len(card.root) * card.boot.sectors_per_cluster * SECTOR
  BY CardAssumption
<1>2. PICK n \in Nat, spc \in Nat : n = Len(card.root) /\ spc = card.boot.sectors_per_cluster
  <2>1. card.root \in Seq(Clusters)
    BY CardTyped
  <2>2. Len(card.root) \in Nat
    BY <2>1
  <2>3. card.boot.sectors_per_cluster \in Nat
    BY BootTyped
  <2> QED BY <2>2, <2>3
<1>3. n * spc * SECTOR = n * (spc * SECTOR)
  OBVIOUS
<1> QED BY <1>1, <1>2, <1>3 DEF ClusterCells

(* The end of the directory, and the step from one cluster to the next.    *)
LEMMA LeavesCluster ==
    ASSUME Session, Walk, at = "next_cluster", sector_read, cluster' = fat_entry(cluster),
           go("find"), UNCHANGED <<card, slot, noise, fs, filename, file, sector_index>>,
           UNCHANGED <<skip_clusters, inside_cluster, length, got>>
    PROVE  Walk'
<1>1. /\ OnVolume /\ card.boot.sectors_per_cluster \in Nat \ {0} /\ ClusterCells \in Nat \ {0}
      /\ sector_index \in 0 .. card.boot.sectors_per_cluster - 1 /\ card \in Cards
  BY VolumeKnown DEF Opening, Searching, OnVolume
<1>2. /\ filename \in Names /\ ShortName[filename] # NULL /\ sector_index = 0 /\ file = NULL
      /\ sector_buffer = fat_sector(cluster)
      /\ disk' = "idle" /\ at' = "find" /\ UNCHANGED status
  BY DEF Walk, Searched, Searching, Asked, sector_read, lba, go
<1>3. PICK i \in DOMAIN card.root : cluster = card.root[i] /\ Passed(i * ClusterCells)
  BY DEF Walk, Searched
<1>4. /\ i \in 1 .. Len(card.root) /\ Len(card.root) \in Nat
      /\ i # Len(card.root) => i + 1 \in DOMAIN card.root
  BY <1>1, ChainTyped
<1>5. cluster' = IF i = Len(card.root) THEN EOC ELSE card.root[i + 1]
  BY <1>1, <1>2, <1>3, NextCluster
<1>6. \A k \in DOMAIN card.directory : k <= i * ClusterCells => ~decides(card.directory[k])
  BY <1>3 DEF Passed
<1>7. CASE i = Len(card.root)
  <2>1. Len(card.directory) = i * ClusterCells
    BY <1>1, <1>7, AllOfDirectory
  <2>2. cluster' = EOC
    BY <1>5, <1>7
  <2>3. Searched'
    BY <1>2, <1>6, <2>1, <2>2, CardStays DEF Searched, Searching, Reading, Passed, decides
  <2> QED BY <1>1, <1>2, <2>2, <2>3, SearchGoesOn DEF Searching
<1>8. CASE i # Len(card.root)
  <2>1. PICK j \in DOMAIN card.root : j = i + 1 /\ cluster' = card.root[j]
    BY <1>4, <1>5, <1>8
  <2>2. (j - 1) * ClusterCells + 0 * SECTOR = i * ClusterCells
    BY <1>1, <1>4, <2>1
  <2>3. Searched'
    BY <1>2, <1>6, <2>1, <2>2, CardStays DEF Searched, Searching, Reading, Passed, decides
  <2>4. cluster' \in ToSet(card.root)
    BY <2>1 DEF ToSet
  <2> QED BY <1>1, <1>2, <2>3, <2>4, SearchGoesOn DEF Searching
<1> QED BY <1>7, <1>8

LEMMA Finds ==
    ASSUME Session, Walk, fat_find_file, UNCHANGED <<card, slot, noise, fs>>,
           UNCHANGED <<skip_clusters, inside_cluster, length, got>>
    PROVE  Walk' /\ at \in Opening /\ at' \in Opening
<1>1. /\ at \in Searching => filename \in Names /\ ShortName[filename] # NULL /\ file = NULL
      /\ disk = "failed" => Disturbed
  BY DEF Walk, Searched, Asked
<1>2. CASE at = "find" /\ in_chain(cluster)
  <2>1. CASE sector_read
    <3>1. at' \in Opening
      <4>1. \/ \E kind : entry_found(kind)
            \/ at' \in Searching
        BY <1>2, <2>1 DEF fat_find_file, sector_read, read_fails, go, Searching
      <4> QED BY <4>1 DEF entry_found, return, Opening
    <3> QED BY <1>2, <2>1, <3>1, LooksAtSector DEF Opening, Searching
  <2>2. CASE ~sector_read
    <3>1. /\ disk = "failed" /\ disk' = "idle" /\ at' = "opened" /\ status' = "error"
          /\ UNCHANGED <<file, sector_index, cluster, filename>>
      BY <1>2, <2>2 DEF fat_find_file, read_fails, return
    <3> QED BY <1>1, <1>2, <3>1, OpenEnds DEF Searching, Opening
  <2> QED BY <2>1, <2>2
<1>3. CASE at = "find" /\ ~in_chain(cluster)
  <2>1. /\ at' = "opened" /\ status' = "not_found" /\ UNCHANGED disk
        /\ UNCHANGED <<file, sector_index, cluster, filename>>
    BY <1>3 DEF fat_find_file, return
  <2>2. disk' = "idle"
    BY <1>3, <2>1 DEF Walk, Asked, lba
  <2>3. Passed(Len(card.directory))
    <3>1. ASSUME NEW i \in DOMAIN card.root, cluster = card.root[i]
          PROVE  FALSE
      <4>1. card.root[i] \in Clusters
        BY ChainTyped DEF Session, CardSide
      <4> QED BY <1>3, <3>1, <4>1 DEF Clusters, in_chain
    <3> QED BY <1>3, <3>1 DEF Walk, Searched
  <2>4. ~CalledSo \/ Listed = {}
    BY <1>1, <1>3, <2>3, EndDecides DEF Session, CardSide, Searching
  <2> QED BY <1>1, <1>3, <2>1, <2>2, <2>4, OpenEnds DEF Searching, Opening
<1>4. CASE at = "next_cluster"
  <2>1. UNCHANGED <<file, filename, sector_index>>
    BY <1>4 DEF fat_find_file
  <2>2. CASE sector_read
    <3>1. cluster' = fat_entry(cluster) /\ go("find")
      BY <1>4, <2>2 DEF fat_find_file, sector_read, read_fails
    <3> QED BY <1>4, <2>1, <2>2, <3>1, LeavesCluster DEF go, Opening, Searching
  <2>3. CASE ~sector_read
    <3>1. /\ disk = "failed" /\ disk' = "idle" /\ at' = "opened" /\ status' = "error"
          /\ UNCHANGED cluster
      BY <1>4, <2>3 DEF fat_find_file, read_fails, return
    <3> QED BY <1>1, <1>4, <2>1, <3>1, OpenEnds DEF Searching, Opening
  <2> QED BY <2>2, <2>3
<1> QED BY <1>2, <1>3, <1>4 DEF fat_find_file

LEMMA Opens ==
    ASSUME Session, Walk, fat32_open, UNCHANGED <<card, slot, noise>>
    PROVE  Walk' /\ at \in Filing /\ at' \in Filing
<1>1. UNCHANGED <<fs, skip_clusters, inside_cluster, length, got>>
  BY DEF fat32_open
<1> QED BY <1>1, BeginsOpen, Finds DEF fat32_open, Filing

-----------------------------------------------------------------------------
(* fat32_read: on the file that was found, wherever it goes on.            *)
LEMMA ReadFrame ==
    ASSUME Session, Walk, at \in Reading, at' \in Reading \ {"ask"}, disk' = "idle",
           UNCHANGED <<card, fs, filename, file, sector_index>>,
           cluster' \in {cluster, EOC} \cup ToSet(card.file),
           status' \in {status, "ok", "error"}, length' \in Nat, skip_clusters' \in Nat, Copied'
    PROVE  Walk'
<1>1. /\ Mounted /\ Searched /\ Found /\ Walked /\ FindsListed
      /\ fs = geometry(card.boot, card.start) /\ Formatted
      /\ fs.sectors_per_cluster = card.boot.sectors_per_cluster
      /\ sector_index \in 0 .. card.boot.sectors_per_cluster - 1
  BY VolumeKnown DEF Walk, OnVolume
<1>2. Asked'
  BY DEF Asked
<1>3. Untouched'
  BY DEF Untouched, Opening, Searching, Mounting, Reading
<1>4. Mounted'
  <2>1. geometry(card.boot, card.start)' = geometry(card.boot, card.start)
    BY DEF geometry
  <2>2. fs # NULL => fs.sectors_per_cluster \in Nat
    BY <1>1 DEF Mounted
  <2> QED BY <1>1, <2>1, <2>2, CardStays DEF Mounted, Opening, Searching, Reading
<1>5. Searched'
  BY <1>1 DEF Searched, Searching, Reading
<1>6. Found'
  BY <1>1, CardStays, NameStays DEF Found, Reading
<1>7. Walked'
  BY <1>1 DEF Walked
<1>8. FindsListed'
  BY <1>1, CardStays, NameStays DEF FindsListed, Reading
<1> QED BY <1>2, <1>3, <1>4, <1>5, <1>6, <1>7, <1>8 DEF Walk

(* The file fills the clusters of its chain at most.                       *)
LEMMA FileEnds ==
    ASSUME card \in Cards
    PROVE  card.size \in Nat /\ card.size <= Len(card.file) * ClusterCells
           /\ Len(card.file) \in Nat
<1>1. card.size \in 0 .. Len(card.file) * card.boot.sectors_per_cluster * SECTOR
  BY CardAssumption
<1>2. PICK n \in Nat, spc \in Nat : n = Len(card.file) /\ spc = card.boot.sectors_per_cluster
  BY CardTyped
<1>3. n * spc * SECTOR = n * (spc * SECTOR) /\ n * spc * SECTOR \in Int
  OBVIOUS
<1> QED BY <1>1, <1>2, <1>3 DEF ClusterCells

LEMMA ReadKnows ==
    ASSUME Session, Walk, at \in Reading
    PROVE  /\ OnVolume /\ card \in Cards /\ ClusterCells \in Nat \ {0}
           /\ cluster_size = ClusterCells
           /\ ClusterCells = SECTOR * card.boot.sectors_per_cluster
           /\ card.boot.sectors_per_cluster \in Nat \ {0}
           /\ file = TheFile /\ file.size = card.size /\ file.first_cluster = card.file[1]
           /\ 1 \in DOMAIN card.file /\ card.size \in Nat
           /\ disk = "failed" => Disturbed
           /\ disk = "read" => sector_buffer = lba
           /\ disk = "idle" \/ lba # NULL
<1>1. /\ file = TheFile /\ card.file # <<>> /\ card \in Cards
      /\ disk \in {"idle", "read", "failed"}
      /\ disk = "failed" => Disturbed /\ lba # NULL
      /\ disk = "read" => sector_buffer = lba /\ lba # NULL
  BY DEF Walk, Found, Session, CardSide, Asked
<1>2. file.size = card.size /\ file.first_cluster = card.file[1]
  BY <1>1 DEF TheFile
<1>3. 1 \in DOMAIN card.file /\ card.size \in Nat
  <2>1. card.file \in Seq(Clusters) /\ card.size \in Nat
    BY <1>1, CardTyped
  <2> QED BY <1>1, <2>1
<1>4. /\ OnVolume /\ ClusterCells \in Nat \ {0} /\ cluster_size = ClusterCells
      /\ ClusterCells = SECTOR * card.boot.sectors_per_cluster
      /\ card.boot.sectors_per_cluster \in Nat \ {0}
  BY VolumeKnown
<1> QED BY <1>1, <1>2, <1>3, <1>4

LEMMA InsideIs ==
    ASSUME Session, Walk, at \in Reading, NEW offset, NEW n
    PROVE  inside(offset, n) <=> offset <= card.size /\ n <= card.size - offset
BY ReadKnows DEF inside

LEMMA InsideStays ==
    ASSUME UNCHANGED file, NEW a, ask' = a
    PROVE  inside(ask.offset, ask.length)' <=> inside(a.offset, a.length)
BY DEF inside

(* A read that ends, and why.                                              *)
LEMMA ReadEnds ==
    ASSUME Session, Walk, at \in Reading, at' = "read", disk' = "idle",
           UNCHANGED <<card, slot, noise, fs, filename, file, sector_index>>,
           cluster' \in {cluster, EOC} \cup ToSet(card.file),
           length' \in Nat, skip_clusters' \in Nat, inside_cluster' \in 0 .. ClusterCells,
           NEW a \in [offset : Nat, length : Nat \ {0}], ask' = a,
           \/ /\ status' = "ok" /\ inside(a.offset, a.length)
              /\ got' = [p \in 1 .. a.length |-> a.offset + p - 1]
           \/ /\ status' = "error"
              /\ Disturbed \/ ~inside(a.offset, a.length)
    PROVE  Walk'
<1>1. Disturbed' <=> Disturbed
  BY DEF Disturbed
<1>2. inside(ask.offset, ask.length)' <=> inside(a.offset, a.length)
  BY InsideStays
<1>3. Copied'
  BY <1>1, <1>2, CardStays DEF Copied, Reading
<1> QED BY <1>3, ReadFrame DEF Reading

LEMMA BeginsRead ==
    ASSUME Session, Walk, NEW offset \in Nat, NEW n \in Nat \ {0}, begin_read(offset, n),
           UNCHANGED <<card, slot, noise, fs, filename, file, sector_index>>
    PROVE  Walk' /\ at \in Reading /\ at' \in Reading
<1>1. /\ at = "ask" /\ ask' = [offset |-> offset, length |-> n]
      /\ UNCHANGED <<got, disk, sector_buffer>>
  BY DEF begin_read
<1>2. /\ skip_clusters = 0 /\ inside_cluster = 0 /\ length = 0 /\ got = <<>>
  BY <1>1 DEF Walk, Untouched
<1>3. /\ at \in Reading /\ ClusterCells \in Nat \ {0} /\ cluster_size = ClusterCells
      /\ file.first_cluster = card.file[1] /\ 1 \in DOMAIN card.file
  BY <1>1, ReadKnows DEF Reading
<1>4. disk' = "idle"
  <2>1. lba = NULL
    BY <1>1 DEF lba
  <2> QED BY <1>1, <1>3, <2>1, ReadKnows
<1>5. PICK a \in [offset : Nat, length : Nat \ {0}] : a = ask' /\ a.offset = offset /\ a.length = n
  BY <1>1
<1>6. CASE ~inside(offset, n)
  <2>1. /\ at' = "read" /\ status' = "error"
        /\ UNCHANGED <<cluster, skip_clusters, inside_cluster, length>>
    BY <1>6 DEF begin_read, return
  <2> QED BY <1>2, <1>3, <1>4, <1>5, <1>6, <2>1, ReadEnds DEF Reading
<1>7. CASE inside(offset, n)
  <2>1. /\ cluster' = card.file[1] /\ skip_clusters' = offset \div ClusterCells
        /\ inside_cluster' = offset % ClusterCells
        /\ length' = n /\ at' = "skip" /\ UNCHANGED status
    BY <1>3, <1>7 DEF begin_read, go
  <2>2. PICK cc \in Nat \ {0} : cc = ClusterCells
    BY <1>3
  <2>3. /\ offset \div cc \in Int /\ offset % cc \in 0 .. cc - 1
        /\ offset = (cc * (offset \div cc)) + (offset % cc)
    BY Remainder
  <2>4. PICK d \in Int, m \in 0 .. cc - 1 :
          d = skip_clusters' /\ m = inside_cluster' /\ offset = (cc * d) + m
    BY <2>1, <2>2, <2>3
  <2>5. d \in Nat
    <3>1. CASE d < 0
      <4>1. PICK e \in Nat : e = -d /\ e > 0
        BY <3>1
      <4>2. cc * e \in Nat /\ cc * e >= cc
        BY <2>2, <4>1, Products
      <4>3. cc * d = -(cc * e)
        BY <2>2, <2>4, <4>1
      <4>4. PICK y \in Nat : y = cc * e
        BY <4>2
      <4>5. y >= cc /\ offset = -y + m
        BY <2>4, <4>2, <4>3, <4>4
      <4>6. m < cc /\ m \in Int
        BY <2>2, <2>4
      <4> QED BY <4>5, <4>6
    <3> QED BY <3>1
  <2>6. Copied'
    <3>1. (1 + d - 1) * cc + m = offset
      <4>1. (1 + d - 1) * cc = cc * d
        BY <2>5
      <4> QED BY <2>4, <4>1
    <3>2. (\E i \in DOMAIN card.file :
             cluster = card.file[i] /\ Lies(ask.offset, i + skip_clusters, inside_cluster))'
      <4>1. /\ ClusterCells' = cc /\ card' = card /\ ask'.offset = offset
            /\ cluster' = card.file[1] /\ skip_clusters' = d /\ inside_cluster' = m
        BY <1>5, <2>1, <2>2, <2>4, CardStays
      <4>2. (cluster = card.file[1] /\ Lies(ask.offset, 1 + skip_clusters, inside_cluster))'
        BY <3>1, <4>1 DEF Lies
      <4> QED BY <1>3, <4>1, <4>2
    <3>3. inside(ask.offset, ask.length)'
      BY <1>5, <1>7, InsideStays
    <3>4. /\ (ask \in [offset : Nat, length : Nat \ {0}])' /\ length' \in Nat /\ skip_clusters' \in Nat
          /\ (inside_cluster \in 0 .. ClusterCells /\ inside_cluster < ClusterCells)'
          /\ got' = <<>> /\ length' = ask'.length
      <4>1. ClusterCells' = cc /\ m \in 0 .. cc /\ m < cc
        BY <2>2, <2>4, CardStays
      <4>2. /\ (inside_cluster \in 0 .. ClusterCells /\ inside_cluster < ClusterCells)'
            /\ skip_clusters' \in Nat
        BY <2>4, <2>5, <4>1
      <4>3. /\ (ask \in [offset : Nat, length : Nat \ {0}])' /\ length' \in Nat
            /\ got' = <<>> /\ length' = ask'.length
        BY <1>1, <1>2, <1>5, <2>1
      <4> QED BY <4>2, <4>3
    <3> QED BY <2>1, <3>2, <3>3, <3>4 DEF Copied, Reading
  <2>7. card.file[1] \in ToSet(card.file)
    BY <1>3 DEF ToSet
  <2> QED BY <1>3, <1>4, <2>1, <2>4, <2>5, <2>6, <2>7, ReadFrame DEF Reading
<1> QED BY <1>6, <1>7

(* A link of the chain of the file.                                        *)
LEMMA NextOfFile ==
    ASSUME Session, Walk, at \in {"skip", "advance"}, NEW i \in DOMAIN card.file,
           cluster = card.file[i], lba = fat_sector(cluster), sector_read,
           cluster' = fat_entry(cluster)
    PROVE  /\ i \in 1 .. Len(card.file) /\ Len(card.file) \in Nat
           /\ i = Len(card.file) => ~in_chain(cluster') /\ cluster' = EOC
           /\ i # Len(card.file) => /\ i + 1 \in DOMAIN card.file
                                    /\ cluster' = card.file[i + 1]
                                    /\ in_chain(cluster') /\ cluster' \in ToSet(card.file)
<1>1. /\ OnVolume /\ card \in Cards /\ sector_buffer = fat_sector(cluster)
  BY ReadKnows DEF Reading, sector_read
<1>2. /\ i \in 1 .. Len(card.file) /\ Len(card.file) \in Nat
      /\ i # Len(card.file) => i + 1 \in DOMAIN card.file
  BY <1>1, ChainTyped
<1>3. cluster' = IF i = Len(card.file) THEN EOC ELSE card.file[i + 1]
  BY <1>1, NextCluster
<1>4. EOC \in Nat
  OBVIOUS
<1>5. CASE i # Len(card.file)
  <2>1. PICK j \in DOMAIN card.file : j = i + 1 /\ cluster' = card.file[j]
    BY <1>2, <1>3, <1>5
  <2>2. card.file[j] \in Clusters /\ card.file[j] \in ToSet(card.file)
    BY <1>1, ChainTyped
  <2> QED BY <1>2, <1>5, <2>1, <2>2 DEF Clusters, in_chain
<1>6. CASE i = Len(card.file)
  BY <1>2, <1>3, <1>4, <1>6 DEF in_chain
<1> QED BY <1>2, <1>5, <1>6

(* Nothing is skipped past the end of the chain, except to read nothing.   *)
LEMMA PastChain ==
    ASSUME NEW n \in Nat, NEW x \in Nat, NEW w \in Nat
    PROVE  (n + x) * w >= n * w
<1>1. PICK y \in Nat : y = x * w
  BY Products
<1>2. PICK z \in Nat : z = n * w
  BY Products
<1>3. (n + x) * w = z + y
  BY <1>1, <1>2
<1> QED BY <1>2, <1>3

LEMMA Skips ==
    ASSUME Session, Walk, skip, UNCHANGED <<card, slot, noise, fs, filename, file, sector_index>>
    PROVE  Walk' /\ at \in Reading /\ at' \in Reading
<1>1. /\ at = "skip" /\ UNCHANGED <<ask, inside_cluster, length, got>>
  BY DEF skip
<1>2. /\ at \in Reading /\ ClusterCells \in Nat \ {0} /\ card \in Cards
      /\ disk = "failed" => Disturbed
  BY <1>1, ReadKnows DEF Reading
<1>3. /\ ask \in [offset : Nat, length : Nat \ {0}] /\ inside(ask.offset, ask.length)
      /\ inside_cluster \in 0 .. ClusterCells /\ inside_cluster < ClusterCells
      /\ got = <<>> /\ length = ask.length /\ length \in Nat /\ skip_clusters \in Nat
  BY <1>1 DEF Walk, Copied, Reading
<1>a. PICK i \in DOMAIN card.file :
        cluster = card.file[i] /\ Lies(ask.offset, i + skip_clusters, inside_cluster)
  BY <1>1 DEF Walk, Copied
<1>4. /\ i \in DOMAIN card.file /\ cluster = card.file[i]
      /\ ((i + skip_clusters) - 1) * ClusterCells + inside_cluster = ask.offset
  BY <1>a DEF Lies
<1>5. i \in 1 .. Len(card.file) /\ Len(card.file) \in Nat /\ cluster \in ToSet(card.file)
  BY <1>2, <1>4, ChainTyped
<1>6. inside(ask.offset, ask.length)'
  BY <1>1, <1>3, InsideStays
<1>7. CASE skip_clusters > 0 /\ sector_read
  <2>1. /\ cluster' = fat_entry(cluster) /\ skip_clusters' = skip_clusters - 1 /\ disk' = "idle"
        /\ in_chain(cluster') => at' = "skip" /\ UNCHANGED status
        /\ ~in_chain(cluster') => at' = "read" /\ status' = "error"
    BY <1>7 DEF skip, follow, go, return, sector_read, read_fails
  <2>2. lba = fat_sector(cluster)
    BY <1>1, <1>7 DEF lba
  <2>3. skip_clusters' \in Nat
    BY <1>3, <1>7, <2>1
  <2>4. CASE i = Len(card.file)
    <3>1. at' = "read" /\ status' = "error" /\ cluster' = EOC
      BY <1>1, <1>4, <1>7, <2>1, <2>2, <2>4, NextOfFile
    <3>a. i \in Nat /\ skip_clusters - 1 \in Nat /\ ClusterCells \in Nat /\ ask.offset \in Nat
      BY <1>2, <1>3, <1>5, <1>7
    <3>2. PICK n \in Nat, x \in Nat, cc \in Nat, o \in Nat :
            n = i /\ x = skip_clusters - 1 /\ cc = ClusterCells /\ o = ask.offset
      BY <3>a
    <3>3. (n + x) * cc + inside_cluster = o
      <4>1. n + x = (i + skip_clusters) - 1
        BY <1>3, <1>5, <3>2
      <4> QED BY <1>4, <3>2, <4>1
    <3>4. PICK y \in Nat, z \in Nat : y = (n + x) * cc /\ z = n * cc /\ y >= z
      BY <3>2, PastChain, Products
    <3>5. o >= z
      BY <1>3, <3>3, <3>4
    <3>6. card.size \in Nat /\ card.size <= z
      BY <1>2, <2>4, <3>2, <3>4, FileEnds
    <3>7. o <= card.size /\ ask.length <= card.size - o
      BY <1>2, <1>3, <3>2, InsideIs
    <3> QED BY <1>3, <3>5, <3>6, <3>7
  <2>5. CASE i # Len(card.file)
    <3>1. /\ i + 1 \in DOMAIN card.file /\ cluster' = card.file[i + 1]
          /\ at' = "skip" /\ UNCHANGED status /\ cluster' \in ToSet(card.file)
      BY <1>1, <1>4, <1>7, <2>1, <2>2, <2>5, NextOfFile
    <3>2. PICK j \in DOMAIN card.file : j = i + 1 /\ cluster' = card.file[j]
      BY <3>1
    <3>3. (j + skip_clusters') - 1 = (i + skip_clusters) - 1
      BY <1>3, <1>5, <2>1, <3>2
    <3>4. (\E k \in DOMAIN card.file :
             cluster = card.file[k] /\ Lies(ask.offset, k + skip_clusters, inside_cluster))'
      <4>1. (cluster = card.file[j] /\ Lies(ask.offset, j + skip_clusters, inside_cluster))'
        <5>1. ((j + skip_clusters) - 1)' = (i + skip_clusters) - 1
          BY <3>2, <3>3
        <5>2. ClusterCells' = ClusterCells /\ UNCHANGED <<ask, inside_cluster>>
          BY <1>1, CardStays
        <5> QED BY <1>4, <3>2, <5>1, <5>2 DEF Lies
      <4> QED BY <3>2, <4>1
    <3>5. Copied'
      BY <1>1, <1>3, <1>6, <2>3, <3>1, <3>4, CardStays DEF Copied, Reading
    <3> QED BY <1>1, <1>2, <1>3, <2>1, <2>3, <3>1, <3>5, ReadFrame DEF Reading
  <2> QED BY <2>4, <2>5
<1>8. CASE skip_clusters > 0 /\ ~sector_read
  <2>1. /\ disk = "failed" /\ disk' = "idle" /\ at' = "read" /\ status' = "error"
        /\ UNCHANGED cluster /\ skip_clusters' = skip_clusters - 1
    BY <1>8 DEF skip, follow, read_fails, return
  <2>2. skip_clusters' \in Nat
    BY <1>3, <1>8, <2>1
  <2> QED BY <1>1, <1>2, <1>3, <2>1, <2>2, ReadEnds DEF Reading
<1>9. CASE ~(skip_clusters > 0)
  <2>1. /\ skip_clusters = 0 /\ at' = "copy" /\ UNCHANGED <<cluster, status, skip_clusters, disk>>
    BY <1>3, <1>9 DEF skip, go
  <2>2. disk' = "idle"
    <3>1. lba = NULL
      BY <1>1, <2>1 DEF lba
    <3> QED BY <1>2, <2>1, <3>1, ReadKnows
  <2>3. (got = [p \in 1 .. ask.length - length |-> ask.offset + p - 1])'
    <3>1. (1 .. ask.length - length)' = {}
      BY <1>1, <1>3
    <3> QED BY <1>1, <1>3, <3>1
  <2>4. (\E k \in DOMAIN card.file :
           /\ cluster = card.file[k]
           /\ Lies(ask.offset + (ask.length - length), k, inside_cluster))'
    <3>1. ask.offset + (ask.length - length) = ask.offset /\ (i + skip_clusters) - 1 = i - 1
      BY <1>3, <1>5, <2>1
    <3>2. (cluster = card.file[i] /\ Lies(ask.offset + (ask.length - length), i, inside_cluster))'
      BY <1>1, <1>4, <2>1, <3>1, CardStays DEF Lies
    <3> QED BY <1>4, <3>2
  <2>5. Copied'
    <3>1. /\ (ask \in [offset : Nat, length : Nat \ {0}])' /\ length' \in Nat /\ length' <= ask'.length
          /\ (inside_cluster \in 0 .. ClusterCells /\ inside_cluster < ClusterCells)'
      BY <1>1, <1>3, CardStays
    <3> QED BY <1>6, <2>1, <2>3, <2>4, <3>1 DEF Copied, Reading
  <2> QED BY <1>1, <1>2, <1>3, <2>1, <2>2, <2>5, ReadFrame DEF Reading
<1> QED BY <1>7, <1>8, <1>9

(* A sector's worth of bytes goes to where the last one ended.             *)
LEMMA JoinRanges ==
    ASSUME NEW a \in Nat, NEW b \in Nat, NEW o \in Nat, NEW u, NEW v,
           u = [p \in 1 .. a |-> o + p - 1], v = [p \in 1 .. b |-> (o + a) + p - 1]
    PROVE  u \o v = [p \in 1 .. a + b |-> o + p - 1]
<1>1. u \in Seq(Int) /\ v \in Seq(Int) /\ Len(u) = a /\ Len(v) = b
  OBVIOUS
<1>2. PICK w : w = u \o v
  OBVIOUS
<1>3. w \in Seq(Int) /\ Len(w) = a + b
  BY <1>1, <1>2
<1>4. ASSUME NEW p \in 1 .. a + b PROVE w[p] = o + p - 1
  <2>1. CASE p <= a
    <3>1. p \in 1 .. a
      BY <2>1
    <3>2. w[p] = u[p]
      BY <1>1, <1>2, <3>1
    <3> QED BY <3>1, <3>2
  <2>2. CASE p > a
    <3>1. PICK q \in 1 .. b : p = a + q
      <4>1. p - a \in 1 .. b /\ p = a + (p - a)
        BY <2>2
      <4> QED BY <4>1
    <3>2. w[p] = v[q]
      BY <1>1, <1>2, <3>1
    <3>3. (o + a) + q - 1 = o + p - 1
      BY <3>1
    <3> QED BY <3>1, <3>2, <3>3
  <2> QED BY <2>1, <2>2
<1>5. w = [p \in 1 .. a + b |-> w[p]]
  BY <1>3
<1> QED BY <1>2, <1>4, <1>5

(* What one sector adds: the next bytes of the file, within the cluster.   *)
LEMMA CopySize ==
    ASSUME inside_cluster \in Nat, length \in Nat \ {0}
    PROVE  /\ copy_size \in 1 .. length
           /\ (inside_cluster % SECTOR) + copy_size <= SECTOR
<1>1. inside_cluster % SECTOR \in 0 .. SECTOR - 1
  BY Remainder
<1>2. PICK m \in 0 .. SECTOR - 1 : m = inside_cluster % SECTOR
  BY <1>1
<1>3. copy_size = IF SECTOR - m <= length THEN SECTOR - m ELSE length
  BY <1>2, MinOfTwo DEF copy_size
<1> QED BY <1>2, <1>3

LEMMA BytesOfSector ==
    ASSUME Session, Walk, at = "copy", NEW i \in DOMAIN card.file, cluster = card.file[i],
           inside_cluster \in 0 .. ClusterCells - 1, length \in Nat \ {0},
           NEW p \in Nat, (i - 1) * ClusterCells + inside_cluster = p,
           p + length <= card.size,
           sector_buffer = cluster_lba(cluster) + (inside_cluster \div SECTOR),
           NEW j \in 1 .. copy_size
    PROVE  Cells(sector_buffer)[(inside_cluster + j - 1) % SECTOR] = p + j - 1
<1>1. /\ OnVolume /\ card.boot.sectors_per_cluster \in Nat \ {0}
      /\ ClusterCells = SECTOR * card.boot.sectors_per_cluster
      /\ card.size \in Nat /\ card \in Cards
  BY ReadKnows DEF Reading
<1>2. inside_cluster \in 0 .. (SECTOR * card.boot.sectors_per_cluster) - 1
  BY <1>1
<1>3. PICK s \in 0 .. card.boot.sectors_per_cluster - 1, m \in 0 .. SECTOR - 1 :
        /\ s = inside_cluster \div SECTOR /\ m = inside_cluster % SECTOR
        /\ inside_cluster = s * SECTOR + m
  BY <1>1, <1>2, SectorOfByte
<1>4. copy_size \in 1 .. length /\ m + copy_size <= SECTOR
  BY <1>3, CopySize
<1>5. PICK k \in 0 .. SECTOR - 1 : k = m + (j - 1)
  <2>1. m + (j - 1) \in 0 .. SECTOR - 1
    BY <1>4
  <2> QED BY <2>1
<1>6. s \in Nat
  BY <1>3, <1>1
<1>7. PICK y \in Nat : y = s * SECTOR
  BY <1>6, Products
<1>8. (inside_cluster + j - 1) % SECTOR = k
  <2>1. inside_cluster + j - 1 = (SECTOR * s) + k
    <3>1. s * SECTOR = SECTOR * s
      BY <1>6
    <3>2. inside_cluster + j - 1 = y + k
      BY <1>3, <1>4, <1>5, <1>7
    <3> QED BY <1>7, <3>1, <3>2
  <2>2. PICK w \in Nat \ {0} : w = SECTOR
    OBVIOUS
  <2>3. s \in Int /\ k \in 0 .. w - 1
    BY <1>6, <2>2
  <2>4. ((w * s) + k) % w = k
    BY <2>3, Divides
  <2> QED BY <2>1, <2>2, <2>4
<1>9. PICK x \in Int : x = (i - 1) * ClusterCells
  <2>1. i \in Nat \ {0}
    BY <1>1, ChainTyped
  <2>2. ClusterCells \in Nat
    BY ReadKnows DEF Reading
  <2> QED BY <2>1, <2>2, Products
<1>10. (i - 1) * ClusterCells + (s * SECTOR + k) = p + j - 1
  <2>1. x + inside_cluster = p /\ inside_cluster = y + m
    BY <1>3, <1>7, <1>9
  <2>2. x + (y + k) = p + j - 1
    BY <1>4, <1>5, <2>1
  <2> QED BY <1>7, <1>9, <2>2
<1>11. p + j - 1 \in 0 .. card.size - 1
  BY <1>1, <1>4
<1>12. Cells(sector_buffer)[k] = p + j - 1
  <2>1. sector_buffer = cluster_lba(card.file[i]) + s
    BY <1>3
  <2>2. (i - 1) * ClusterCells + (s * SECTOR + k) \in 0 .. card.size - 1
    BY <1>10, <1>11
  <2> QED BY <1>1, <1>10, <2>1, <2>2, FileCells
<1> QED BY <1>8, <1>12

(* The step that copies, and what it leaves.                               *)
LEMMA Copies ==
    ASSUME Session, Walk, copy, UNCHANGED <<card, slot, noise, fs, filename, file, sector_index>>
    PROVE  Walk' /\ at \in Reading /\ at' \in Reading
<1>1. /\ at = "copy" /\ length > 0 /\ UNCHANGED <<ask, cluster, skip_clusters>>
  BY DEF copy
<1>2. /\ at \in Reading /\ ClusterCells \in Nat \ {0} /\ card \in Cards
      /\ disk = "failed" => Disturbed
      /\ cluster_size = ClusterCells
  BY <1>1, ReadKnows DEF Reading
<1>3. /\ ask \in [offset : Nat, length : Nat \ {0}] /\ inside(ask.offset, ask.length)
      /\ inside_cluster \in 0 .. ClusterCells - 1
      /\ length \in Nat \ {0} /\ length <= ask.length
      /\ got = [p \in 1 .. ask.length - length |-> ask.offset + p - 1]
      /\ skip_clusters \in Nat
  <2>1. /\ ask \in [offset : Nat, length : Nat \ {0}] /\ inside(ask.offset, ask.length)
        /\ inside_cluster \in 0 .. ClusterCells /\ inside_cluster < ClusterCells
        /\ length \in Nat /\ length <= ask.length
        /\ got = [p \in 1 .. ask.length - length |-> ask.offset + p - 1]
        /\ skip_clusters \in Nat
    BY <1>1 DEF Walk, Copied, Walked, Reading
  <2> QED BY <1>1, <1>2, <2>1
<1>4. PICK i \in DOMAIN card.file :
        /\ cluster = card.file[i]
        /\ Lies(ask.offset + (ask.length - length), i, inside_cluster)
  BY <1>1 DEF Walk, Copied
<1>5. cluster \in ToSet(card.file)
  BY <1>2, <1>4, ChainTyped
<1>6. inside(ask.offset, ask.length)'
  BY <1>1, <1>3, InsideStays
<1>7. CASE ~sector_read
  <2>1. /\ disk = "failed" /\ disk' = "idle" /\ at' = "read" /\ status' = "error"
        /\ UNCHANGED <<got, length, inside_cluster>>
    BY <1>7 DEF copy, read_fails, return
  <2> QED BY <1>1, <1>2, <1>3, <2>1, ReadEnds DEF Reading
<1>8. CASE sector_read
  <2>1. PICK c \in 1 .. length : c = copy_size
    <3>1. inside_cluster \in Nat
      BY <1>2, <1>3
    <3> QED BY <1>3, <3>1, CopySize
  <2>2. /\ length' = length - c /\ inside_cluster' = inside_cluster + c /\ disk' = "idle"
        /\ UNCHANGED status
        /\ got' = got \o [j \in 1 .. c |-> Cells(sector_buffer)[(inside_cluster + j - 1) % SECTOR]]
        /\ inside_cluster' = ClusterCells /\ length' # 0 => at' = "advance"
        /\ ~(inside_cluster' = ClusterCells /\ length' # 0) => at' = "copy"
    BY <1>2, <1>8, <2>1 DEF copy, sector_read, read_fails, go, end_of_cluster
  <2>3. PICK a \in Nat, o \in Nat : a = ask.length - length /\ o = ask.offset
    <3>1. ask.length - length \in Nat /\ ask.offset \in Nat
      BY <1>3
    <3> QED BY <3>1
  <2>4. (i - 1) * ClusterCells + inside_cluster = o + a
    BY <1>4, <2>3 DEF Lies
  <2>5. o + a + length <= card.size /\ card.size \in Nat
    <3>1. ask.offset <= card.size /\ ask.length <= card.size - ask.offset /\ card.size \in Nat
      BY <1>2, <1>3, InsideIs, ReadKnows
    <3>2. PICK l, size, n : l = ask.length /\ size = card.size /\ n = length
      OBVIOUS
    <3>3. /\ a \in Int /\ o \in Int /\ l \in Int /\ size \in Int /\ n \in Int
          /\ l <= size - o /\ a = l - n
      BY <1>3, <2>3, <3>1, <3>2
    <3>4. o + a + n <= size
      BY ONLY <3>3
    <3> QED BY <3>1, <3>2, <3>4
  <2>6. sector_buffer = cluster_lba(cluster) + (inside_cluster \div SECTOR)
    <3>1. disk = "read" /\ lba = cluster_lba(cluster) + (inside_cluster \div SECTOR)
      BY <1>1, <1>8 DEF sector_read, lba
    <3> QED BY <1>2, <3>1, ReadKnows
  <2>7. \A j \in 1 .. c :
          Cells(sector_buffer)[(inside_cluster + j - 1) % SECTOR] = (o + a) + j - 1
    <3>1. PICK p \in Nat : p = o + a
      BY <2>3
    <3>2. (i - 1) * ClusterCells + inside_cluster = p /\ p + length <= card.size
      BY <2>4, <2>5, <3>1
    <3>3. ASSUME NEW j \in 1 .. c
          PROVE  Cells(sector_buffer)[(inside_cluster + j - 1) % SECTOR] = p + j - 1
      BY <1>1, <1>3, <1>4, <2>1, <2>6, <3>2, BytesOfSector
    <3> QED BY <3>1, <3>3
  <2>8. PICK v : /\ v = [j \in 1 .. c |->
                          Cells(sector_buffer)[(inside_cluster + j - 1) % SECTOR]]
                 /\ v = [j \in 1 .. c |-> (o + a) + j - 1]
    BY <2>7
  <2>9. got = [p \in 1 .. a |-> o + p - 1]
    BY <1>3, <2>3
  <2>10. got' = [p \in 1 .. a + c |-> o + p - 1]
    <3>1. got \o v = [p \in 1 .. a + c |-> o + p - 1]
      <4>1. c \in Nat
        BY <1>3
      <4>2. v = [j \in 1 .. c |-> (o + a) + j - 1]
        BY <2>8
      <4>3. \A u, w : /\ u = [p \in 1 .. a |-> o + p - 1]
                      /\ w = [p \in 1 .. c |-> (o + a) + p - 1]
                      => u \o w = [p \in 1 .. a + c |-> o + p - 1]
        BY <4>1, JoinRanges
      <4> QED BY <2>9, <4>2, <4>3
    <3> QED BY <2>2, <2>8, <3>1
  <2>11. a + c = ask'.length - length' /\ o = ask'.offset
    BY <1>1, <1>3, <2>1, <2>2, <2>3
  <2>12. (got = [p \in 1 .. ask.length - length |-> ask.offset + p - 1])'
    BY <2>10, <2>11
  <2>13. inside_cluster + c <= ClusterCells
    <3>1. PICK spc \in Nat \ {0} : ClusterCells = SECTOR * spc
      BY <1>2, ReadKnows
    <3>2. inside_cluster \in 0 .. (SECTOR * spc) - 1
      BY <1>3, <3>1
    <3>3. PICK m \in 0 .. SECTOR - 1 :
            m = inside_cluster % SECTOR /\ inside_cluster + (SECTOR - m) <= ClusterCells
      BY <3>1, <3>2, SectorOfByte
    <3>4. m + c <= SECTOR
      <4>1. inside_cluster \in Nat
        BY <1>2, <1>3
      <4> QED BY <1>3, <2>1, <3>3, <4>1, CopySize
    <3> QED BY <1>2, <1>3, <2>1, <3>3, <3>4
  <2>14. (\E k \in DOMAIN card.file :
            /\ cluster = card.file[k]
            /\ Lies(ask.offset + (ask.length - length), k, inside_cluster))'
    <3>1. PICK x \in Int : x = (i - 1) * ClusterCells
      <4>1. i \in Nat \ {0}
        BY <1>2, ChainTyped
      <4> QED BY <1>2, <4>1, Products
    <3>2. x + inside_cluster' = (ask.offset + (ask.length - length))'
      <4>1. x + inside_cluster = o + a
        BY <2>4, <3>1
      <4>2. inside_cluster' = inside_cluster + c /\ inside_cluster \in Int /\ c \in Int
        BY <1>2, <1>3, <2>2
      <4>3. (ask.offset + (ask.length - length))' = o + (a + c)
        BY <2>11
      <4> QED BY <4>1, <4>2, <4>3
    <3>3. (cluster = card.file[i] /\ Lies(ask.offset + (ask.length - length), i, inside_cluster))'
      <4>1. x = (i - 1) * ClusterCells'
        BY <3>1, CardStays
      <4> QED BY <1>1, <1>4, <3>2, <4>1 DEF Lies
    <3> QED BY <1>4, <3>3
  <2>15. /\ (ask \in [offset : Nat, length : Nat \ {0}])' /\ length' \in Nat /\ length' <= ask'.length
         /\ (inside_cluster \in 0 .. ClusterCells)'
         /\ skip_clusters' \in Nat
    BY <1>1, <1>2, <1>3, <2>1, <2>2, <2>13, CardStays
  <2>16. /\ at' \in {"copy", "advance"}
         /\ at' = "advance" => (inside_cluster = ClusterCells)' /\ length' > 0
         /\ length' > 0 /\ at' = "copy" => (inside_cluster < ClusterCells)'
    BY <1>2, <1>3, <2>1, <2>2, <2>13, <2>15, CardStays
  <2>17. Copied'
    BY <1>6, <2>12, <2>14, <2>15, <2>16 DEF Copied, Reading
  <2> QED BY <1>1, <1>2, <2>2, <2>15, <2>16, <2>17, ReadFrame DEF Reading
<1> QED BY <1>7, <1>8

LEMMA Advances ==
    ASSUME Session, Walk, advance, UNCHANGED <<card, slot, noise, fs, filename, file, sector_index>>
    PROVE  Walk' /\ at \in Reading /\ at' \in Reading
<1>1. at = "advance" /\ inside_cluster' = 0 /\ UNCHANGED <<ask, skip_clusters, length, got>>
  BY DEF advance
<1>2. /\ at \in Reading /\ ClusterCells \in Nat \ {0} /\ card \in Cards
      /\ disk = "failed" => Disturbed
  BY <1>1, ReadKnows DEF Reading
<1>3. /\ ask \in [offset : Nat, length : Nat \ {0}] /\ inside(ask.offset, ask.length)
      /\ inside_cluster = ClusterCells
      /\ length \in Nat /\ length > 0 /\ length <= ask.length
      /\ got = [p \in 1 .. ask.length - length |-> ask.offset + p - 1]
      /\ skip_clusters \in Nat
  BY <1>1 DEF Walk, Copied, Walked, Reading
<1>4. PICK i \in DOMAIN card.file :
        /\ cluster = card.file[i]
        /\ Lies(ask.offset + (ask.length - length), i, inside_cluster)
  BY <1>1 DEF Walk, Copied
<1>5. i \in 1 .. Len(card.file) /\ Len(card.file) \in Nat /\ cluster \in ToSet(card.file)
  BY <1>2, <1>4, ChainTyped
<1>6. inside(ask.offset, ask.length)'
  BY <1>1, <1>3, InsideStays
<1>7. CASE ~sector_read
  <2>1. /\ disk = "failed" /\ disk' = "idle" /\ at' = "read" /\ status' = "error"
        /\ UNCHANGED cluster
    BY <1>7 DEF advance, follow, read_fails, return
  <2> QED BY <1>1, <1>2, <1>3, <2>1, ReadEnds DEF Reading
<1>8. CASE sector_read
  <2>1. /\ cluster' = fat_entry(cluster) /\ disk' = "idle"
        /\ in_chain(cluster') => at' = "copy" /\ UNCHANGED status
    BY <1>8 DEF advance, follow, go, return, sector_read, read_fails
  <2>2. lba = fat_sector(cluster)
    BY <1>1 DEF lba
  <2>3. PICK x \in Int : x = (i - 1) * ClusterCells
    <3>1. i \in Nat \ {0}
      BY <1>5
    <3> QED BY <1>2, <3>1, Products
  <2>4. i * ClusterCells = x + ClusterCells
    <3>1. PICK cc \in Nat : cc = ClusterCells
      BY <1>2
    <3>2. i * cc = (i - 1) * cc + cc
      BY <1>5
    <3> QED BY <2>3, <3>1, <3>2
  <2>5. i * ClusterCells = ask.offset + (ask.length - length)
    <3>1. x + ClusterCells = ask.offset + (ask.length - length)
      BY <1>3, <1>4, <2>3 DEF Lies
    <3> QED BY <2>4, <3>1
  <2>6. i # Len(card.file)
    <3>1. SUFFICES ASSUME i = Len(card.file) PROVE FALSE
      OBVIOUS
    <3>2. card.size \in Nat /\ card.size <= ask.offset + (ask.length - length)
      BY <1>2, <2>5, <3>1, FileEnds
    <3>3. ask.offset <= card.size /\ ask.length <= card.size - ask.offset
      BY <1>2, <1>3, InsideIs
    <3> QED BY <1>3, <3>2, <3>3
  <2>7. /\ i + 1 \in DOMAIN card.file /\ cluster' = card.file[i + 1]
        /\ at' = "copy" /\ UNCHANGED status /\ cluster' \in ToSet(card.file)
    BY <1>1, <1>4, <1>8, <2>1, <2>2, <2>6, NextOfFile
  <2>8. PICK j \in DOMAIN card.file : j = i + 1 /\ cluster' = card.file[j]
    BY <2>7
  <2>9. (\E k \in DOMAIN card.file :
           /\ cluster = card.file[k]
           /\ Lies(ask.offset + (ask.length - length), k, inside_cluster))'
    <3>1. (j - 1) * ClusterCells' + 0 = i * ClusterCells
      <4>1. PICK y \in Int : y = i * ClusterCells
        BY <2>4, <1>2, <2>3
      <4>2. j - 1 = i /\ ClusterCells' = ClusterCells
        BY <1>5, <2>8, CardStays
      <4> QED BY <4>1, <4>2
    <3>2. (cluster = card.file[j] /\ Lies(ask.offset + (ask.length - length), j, inside_cluster))'
      BY <1>1, <2>5, <2>8, <3>1 DEF Lies
    <3> QED BY <2>8, <3>2
  <2>10. /\ (ask \in [offset : Nat, length : Nat \ {0}])' /\ length' \in Nat /\ length' <= ask'.length
         /\ (inside_cluster \in 0 .. ClusterCells /\ inside_cluster < ClusterCells)'
         /\ (got = [p \in 1 .. ask.length - length |-> ask.offset + p - 1])'
         /\ skip_clusters' \in Nat
    BY <1>1, <1>2, <1>3, CardStays
  <2>11. Copied'
    BY <1>6, <2>7, <2>9, <2>10 DEF Copied, Reading
  <2> QED BY <1>1, <1>2, <2>1, <2>7, <2>10, <2>11, ReadFrame DEF Reading
<1> QED BY <1>7, <1>8

LEMMA Finishes ==
    ASSUME Session, Walk, finish, UNCHANGED <<card, slot, noise, fs, filename, file, sector_index>>
    PROVE  Walk' /\ at \in Reading /\ at' \in Reading
<1>1. /\ at = "copy" /\ length = 0 /\ at' = "read" /\ status' = "ok"
      /\ UNCHANGED <<ask, cluster, skip_clusters, inside_cluster, length, got, disk, sector_buffer>>
  BY DEF finish, return
<1>2. at \in Reading /\ disk' = "idle"
  <2>1. lba = NULL
    BY <1>1 DEF lba
  <2> QED BY <1>1, <2>1, ReadKnows DEF Reading
<1>3. PICK a \in [offset : Nat, length : Nat \ {0}] :
        /\ a = ask /\ inside(a.offset, a.length)
        /\ got = [p \in 1 .. a.length |-> a.offset + p - 1]
  <2>1. /\ ask \in [offset : Nat, length : Nat \ {0}] /\ inside(ask.offset, ask.length)
        /\ got = [p \in 1 .. ask.length - length |-> ask.offset + p - 1]
    BY <1>1 DEF Walk, Copied, Reading
  <2>2. ask.length - length = ask.length
    BY <1>1, <2>1
  <2> QED BY <2>1, <2>2
<1>4. inside_cluster \in 0 .. ClusterCells /\ length \in Nat /\ skip_clusters \in Nat
  BY <1>1 DEF Walk, Copied, Walked, Reading
<1> QED BY <1>1, <1>2, <1>3, <1>4, ReadEnds DEF Reading

LEMMA Reads ==
    ASSUME Session, Walk, NEW ranges \in SUBSET (Nat \X (Nat \ {0})), fat32_read(ranges),
           UNCHANGED <<card, slot, noise>>
    PROVE  Walk' /\ at \in Filing /\ at' \in Filing
<1>1. UNCHANGED <<fs, filename, file, sector_index>>
  BY DEF fat32_read
<1>2. CASE \E range \in ranges : begin_read(range[1], range[2])
  <2>1. PICK range \in ranges : begin_read(range[1], range[2])
    BY <1>2
  <2>2. range[1] \in Nat /\ range[2] \in Nat \ {0}
    OBVIOUS
  <2> QED BY <1>1, <2>1, <2>2, BeginsRead DEF Filing
<1> QED BY <1>1, <1>2, Skips, Copies, Advances, Finishes DEF fat32_read, Filing

-----------------------------------------------------------------------------
(* What the driver does between the calls, and what the user does.         *)
Between == {"idle", "init", "reply", "mount", "mounted", "open", "opened", "ask", "read"}

LEMMA NothingAsked ==
    ASSUME Walk, at \in Between
    PROVE  lba = NULL /\ disk = "idle"
BY DEF Walk, Asked, lba, Between

(* Before anything is mounted nothing is known, whatever card there is.    *)
LEMMA Rests ==
    ASSUME Walk, at \in {"idle", "init"}, at' \in {"idle", "init", "reply", "mount"},
           UNCHANGED <<disk, reader>>
    PROVE  Walk'
<1>1. disk' = "idle"
  BY NothingAsked DEF Between
<1>2. /\ sector_index = 0 /\ cluster = 0 /\ file = NULL /\ filename = NULL
      /\ skip_clusters = 0 /\ inside_cluster = 0 /\ length = 0 /\ got = <<>>
  BY DEF Walk, Untouched
<1>3. UNCHANGED <<fs, status, boot_lba, filename, file, ask, cluster, sector_index>>
      /\ UNCHANGED <<skip_clusters, inside_cluster, length, got>>
  BY DEF reader
<1>4. Asked'
  BY <1>1 DEF Asked
<1>5. Untouched'
  BY <1>2, <1>3 DEF Untouched
<1>6. Mounted'
  BY <1>3 DEF Walk, Mounted, Opening, Searching, Reading
<1>7. Searched' /\ Copied'
  BY DEF Searched, Copied, Searching, Reading
<1>8. Found'
  BY DEF Found, Reading
<1>9. Walked'
  BY <1>2, <1>3 DEF Walk, Walked
<1>10. FindsListed'
  BY <1>2, <1>3 DEF FindsListed
<1> QED BY <1>4, <1>5, <1>6, <1>7, <1>8, <1>9, <1>10 DEF Walk

LEMMA SendsResult ==
    ASSUME Session, Walk, send_result
    PROVE  Session' /\ Walk'
<1>1. /\ at = "reply" /\ at' = "idle" /\ UNCHANGED <<disk, sector_buffer, fs, status>>
      /\ UNCHANGED <<card, slot, noise, step, tries, version2, sd_block_addressing, speed>>
      /\ filename' = NULL /\ file' = NULL
      /\ cluster' = 0 /\ sector_index' = 0 /\ skip_clusters' = 0
      /\ inside_cluster' = 0 /\ length' = 0 /\ got' = <<>>
  BY DEF send_result, card_side, protocol
<1>2. Session'
  BY <1>1 DEF Session, CardSide, Negotiated, Learnt, InStep, Met, Filing, Mounting, Opening,
     Searching, Reading
<1>3. Asked'
  BY <1>1, NothingAsked DEF Asked, Between
<1>4. Untouched'
  BY <1>1 DEF Untouched
<1>5. Mounted'
  BY <1>1 DEF Walk, Mounted, Opening, Searching, Reading
<1>6. Searched' /\ Copied'
  BY <1>1 DEF Searched, Copied, Searching, Reading
<1>7. Found'
  BY <1>1 DEF Found, Reading
<1>8. Walked'
  BY <1>1 DEF Walk, Walked
<1>9. FindsListed'
  BY <1>1 DEF FindsListed
<1> QED BY <1>2, <1>3, <1>4, <1>5, <1>6, <1>7, <1>8, <1>9 DEF Walk

LEMMA Receives ==
    ASSUME Session, Walk, receive
    PROVE  Session' /\ Walk'
<1>1. /\ at = "idle" /\ at' = "init" /\ step' = "begin" /\ noise' = FALSE
      /\ UNCHANGED <<disk, card, slot, tries, version2, sd_block_addressing, reader>>
  BY DEF receive
<1>2. noise' \in BOOLEAN
  BY <1>1
<1>3. Session'
  BY <1>1, <1>2 DEF Session, CardSide, Negotiated, Learnt, InStep, Met, Filing, Mounting, Opening,
     Searching, Reading
<1> QED BY <1>1, <1>3, Rests

LEMMA InitReturns ==
    ASSUME Session, Walk, init_returned
    PROVE  Session' /\ Walk'
<1>1. /\ at = "init" /\ at' \in {"reply", "mount"} /\ (at' = "mount" => step = "done")
      /\ UNCHANGED <<disk, reader>>
      /\ UNCHANGED <<card, slot, noise, step, tries, version2, sd_block_addressing, speed>>
  BY DEF init_returned, reply, card_side, protocol
<1>2. CardSide'
  BY <1>1 DEF Session, CardSide, Filing, Mounting, Opening, Searching, Reading
<1>3. /\ Met' => Met
      /\ (Disturbed <=> Disturbed') /\ (HighCapacity <=> HighCapacity') /\ (Usable <=> Usable')
  BY <1>1 DEF Met, Disturbed, HighCapacity, Usable, Filing, Mounting, Opening, Searching, Reading
<1>4. Negotiated' /\ Learnt' /\ InStep'
  BY <1>1, <1>3 DEF Session, Negotiated, Learnt, InStep
<1> QED BY <1>1, <1>2, <1>4, Rests DEF Session

LEMMA Initialises ==
    ASSUME Session, Walk, initialise
    PROVE  Session' /\ Walk'
<1>1. at = "init" /\ at' = "init" /\ UNCHANGED <<disk, reader>>
  BY DEF initialise, sd_card_init
<1> QED BY <1>1, Initialising, Rests

LEMMA ReadSector ==
    ASSUME Session, Walk, read_sector
    PROVE  Session' /\ Walk' /\ at \in Filing /\ disk = "idle"
           /\ (disk' = "read" => sector_buffer' = lba)
<1>1. UNCHANGED <<card, at, reader>> /\ sd_read_sector(lba) /\ lba # NULL
  BY DEF read_sector, sd_read_sector
<1>2. lba \in Nat /\ at \in Filing
  BY <1>1, SectorAsked
<1>3. PICK n \in Nat : n = lba
  BY <1>2
<1>4. /\ Session' /\ disk = "idle" /\ (Disturbed => Disturbed')
      /\ \/ disk' = "read" /\ sector_buffer' = n
         \/ disk' = "failed" /\ Disturbed'
  BY <1>1, <1>2, <1>3, ReadsSector
<1>5. lba' = lba
  <2>1. UNCHANGED <<at, fs, boot_lba, cluster, sector_index, skip_clusters, inside_cluster, length>>
    BY <1>1 DEF reader
  <2> QED BY <2>1 DEF lba, cluster_lba, fat_sector, in_chain
<1>6. Asked'
  BY <1>1, <1>3, <1>4, <1>5 DEF Asked
<1> QED BY <1>1, <1>2, <1>3, <1>4, <1>6, WalkStands

(* The loader asks for ranges of a byte or more.                           *)
LEMMA RangesTyped ==
    ASSUME card.size \in Nat
    PROVE  next_ranges \in SUBSET (Nat \X (Nat \ {0}))
<1>1. (0 .. card.size + 1) \X (1 .. card.size + 1) \in SUBSET (Nat \X (Nat \ {0}))
  OBVIOUS
<1>2. {<<0, HEADER_SIZE>>} \in SUBSET (Nat \X (Nat \ {0}))
  BY HeaderAssumption
<1> QED BY <1>1, <1>2 DEF next_ranges

LEMMA FileSystem ==
    ASSUME Session, Walk, file_system
    PROVE  Session' /\ Walk' /\ at \in Filing /\ at' \in Filing
<1>1. /\ UNCHANGED <<card, slot, noise>>
      /\ UNCHANGED <<step, tries, version2, sd_block_addressing, speed>>
  BY DEF file_system, card_side, protocol
<1>2. Walk' /\ at \in Filing /\ at' \in Filing
  <2>1. fat32_mount \/ fat32_open \/ fat32_read(next_ranges)
    BY DEF file_system
  <2>2. next_ranges \in SUBSET (Nat \X (Nat \ {0}))
    BY RangesTyped, CardTyped DEF Session, CardSide
  <2> QED BY <1>1, <2>1, <2>2, Mounts, Opens, Reads
<1>3. OnlyDisturbed /\ Stays
  BY <1>1 DEF Session, CardSide, OnlyDisturbed, Stays
<1> QED BY <1>1, <1>2, <1>3, SessionGoesOn

(* A card without power is met as one that was just put in, or as none.    *)
LEMMA UnpoweredSlots ==
    ASSUME NEW mode \in {"absent", "native"}
    PROVE  Unpowered(mode) \in Slots /\ Unpowered(mode).mode = mode
<1>1. PICK no : no = FALSE
  OBVIOUS
<1>2. no \in BOOLEAN
  BY <1>1
<1>3. Unpowered(mode) = [mode |-> mode, busy |-> 0, app |-> no, length |-> 1]
  BY <1>1, Zenon DEF Unpowered
<1> QED BY <1>2, <1>3 DEF Slots, Modes

LEMMA Users ==
    ASSUME Session, Walk, user
    PROVE  Session' /\ Walk'
<1>1. /\ slot' \in {Unpowered("absent"), Unpowered("native")}
      /\ UNCHANGED <<at, disk, sector_buffer, reader>>
      /\ UNCHANGED <<step, tries, version2, sd_block_addressing, speed>>
      /\ card' = card \/ (at = "idle" /\ card' \in Swapped)
  BY DEF user, pull, insert, protocol
<1>2. slot' \in Slots /\ slot'.mode \in {"absent", "native"}
  BY <1>1, UnpoweredSlots
<1>3. noise' \in BOOLEAN /\ (at # "idle" => noise')
  BY DEF user
<1>4. card' \in Cards
  BY <1>1, SwapAssumption DEF Session, CardSide
<1>5. CardSide'
  BY <1>1, <1>2, <1>3, <1>4 DEF Session, CardSide
<1>6. CASE at = "idle"
  <2>1. Negotiated' /\ Learnt' /\ InStep'
    BY <1>1, <1>6 DEF Negotiated, Learnt, InStep, Met, Filing, Mounting, Opening, Searching, Reading
  <2> QED BY <1>1, <1>5, <1>6, <2>1, Rests DEF Session
<1>7. CASE at # "idle"
  <2>1. card' = card /\ Disturbed'
    BY <1>1, <1>3, <1>7 DEF Disturbed
  <2>2. (Met <=> Met') /\ (HighCapacity <=> HighCapacity') /\ (Usable <=> Usable')
    BY <1>1, <2>1 DEF Met, HighCapacity, Usable
  <2>3. Negotiated' /\ InStep'
    BY <1>1, <2>1, <2>2 DEF Session, Negotiated, InStep
  <2>4. Learnt'
    BY <1>1, <1>2, <2>1, <2>2 DEF Session, Learnt
  <2>5. lba' = lba
    <3>1. UNCHANGED <<at, fs, boot_lba, cluster, sector_index, skip_clusters, inside_cluster,
                      length>>
      BY <1>1 DEF reader
    <3> QED BY <3>1 DEF lba, cluster_lba, fat_sector, in_chain
  <2>6. Asked'
    BY <1>1, <2>1, <2>5 DEF Walk, Asked
  <2> QED BY <1>1, <1>5, <2>1, <2>3, <2>4, <2>6, WalkStands DEF Session
<1> QED BY <1>6, <1>7

LEMMA Replies ==
    ASSUME Session, Walk, at \in Between, at' = "reply", status' = NULL,
           UNCHANGED <<disk, card, slot, noise, fs, filename, file, sector_index>>,
           UNCHANGED <<step, tries, version2, sd_block_addressing, speed>>,
           cluster' \in {cluster, 0}, length' \in Nat, skip_clusters' \in Nat
    PROVE  Session' /\ Walk'
<1>1. CardSide'
  BY DEF Session, CardSide, Filing, Mounting, Opening, Searching, Reading
<1>2. Negotiated' /\ Learnt' /\ InStep'
  BY DEF Negotiated, Learnt, InStep, Met, Filing, Mounting, Opening, Searching, Reading
<1>3. Asked'
  BY NothingAsked DEF Asked
<1>4. Untouched'
  BY DEF Untouched, Mounting, Opening, Searching
<1>5. Mounted'
  BY DEF Walk, Mounted, Opening, Searching, Reading
<1>6. Searched' /\ Copied'
  BY DEF Searched, Copied, Searching, Reading
<1>7. Found'
  BY DEF Found, Reading
<1>8. Walked'
  BY DEF Walk, Walked
<1>9. FindsListed'
  BY CardStays, NameStays DEF Walk, FindsListed
<1> QED BY <1>1, <1>2, <1>3, <1>4, <1>5, <1>6, <1>7, <1>8, <1>9 DEF Walk, Session

(* A caller that goes on finds the locals as its next call expects them.   *)
LEMMA GoesOnTo ==
    ASSUME Session, Walk, go_on,
           \/ at = "mounted" /\ at' = "open" /\ status = "ok"
           \/ at = "opened" /\ at' = "ask" /\ status = "ok"
           \/ at = "read" /\ at' = "ask"
    PROVE  Session' /\ Walk'
<1>1. /\ UNCHANGED <<disk, card, slot, noise, fs, filename, file, sector_index>>
      /\ UNCHANGED <<step, tries, version2, sd_block_addressing, speed>>
      /\ status' = NULL
  BY DEF go_on, card_side, protocol
<1>2. /\ at = "read" => cluster' = 0 /\ skip_clusters' = 0 /\ inside_cluster' = 0
                         /\ length' = 0 /\ got' = <<>>
      /\ at # "read" => UNCHANGED <<cluster, skip_clusters, inside_cluster, length, got>>
  BY DEF go_on
<1>3. /\ at \in Filing /\ at' \in Filing /\ OnlyDisturbed /\ Stays
      /\ at \in Between /\ at' \in {"open", "ask"}
  BY <1>1 DEF Session, CardSide, OnlyDisturbed, Stays, Filing, Mounting, Opening, Reading, Between
<1>4. Session'
  BY <1>1, <1>3, SessionGoesOn
<1>5. Asked'
  BY <1>1, <1>3, NothingAsked DEF Asked
<1>6. Untouched'
  <2>1. Untouched
    BY DEF Walk
  <2>2. CASE at = "mounted"
    BY <1>1, <1>2, <1>3, <2>1, <2>2 DEF Untouched, Mounting, Opening, Searching
  <2>3. CASE at # "mounted"
    BY <1>1, <1>2, <1>3, <2>1, <2>3 DEF Untouched, Mounting, Opening, Searching
  <2> QED BY <2>2, <2>3
<1>7. Mounted'
  <2>1. geometry(card.boot, card.start)' = geometry(card.boot, card.start)
    BY <1>1 DEF geometry
  <2>2. /\ fs = geometry(card.boot, card.start) /\ Formatted
        /\ sector_index \in 0 .. card.boot.sectors_per_cluster - 1
    BY <1>3 DEF Walk, Mounted, Opening, Reading
  <2>3. fs # NULL => /\ fs.sectors_per_cluster \in Nat
                     /\ sector_index \in 0 .. fs.sectors_per_cluster - 1
    BY DEF Walk, Mounted
  <2> QED BY <1>1, <1>3, <2>1, <2>2, <2>3, CardStays DEF Mounted
<1>8. Searched'
  <2>1. at' = "ask" => filename \in Names /\ ShortName[filename] # NULL
    BY <1>3 DEF Walk, Searched, Found, Reading
  <2> QED BY <1>1, <1>3, <2>1 DEF Searched, Searching, Reading
<1>9. Found'
  <2>1. at' = "ask" => /\ file = TheFile /\ card.file # <<>>
                       /\ CalledSo /\ Listed # {} /\ FirstListed = "wanted"
    BY <1>3 DEF Walk, Found, Reading
  <2> QED BY <1>1, <1>3, <2>1, CardStays, NameStays DEF Found, Reading
<1>10. Copied'
  BY <1>3 DEF Copied, Reading
<1>11. Walked'
  BY <1>1, <1>2 DEF Walk, Walked
<1>12. FindsListed'
  BY <1>1, <1>3, CardStays, NameStays DEF Walk, FindsListed
<1> QED BY <1>4, <1>5, <1>6, <1>7, <1>8, <1>9, <1>10, <1>11, <1>12 DEF Walk

LEMMA GoesOn ==
    ASSUME Session, Walk, go_on
    PROVE  Session' /\ Walk'
<1>1. /\ UNCHANGED <<disk, card, slot, noise, fs, filename, file, sector_index>>
      /\ UNCHANGED <<step, tries, version2, sd_block_addressing, speed>>
      /\ status' = NULL
      /\ cluster' \in {cluster, 0}
      /\ length' \in {length, 0} /\ skip_clusters' \in {skip_clusters, 0}
  BY DEF go_on, card_side, protocol
<1>2. /\ at \in Between
      /\ \/ at' = "reply"
         \/ at = "mounted" /\ at' = "open" /\ status = "ok"
         \/ at = "opened" /\ at' = "ask" /\ status = "ok"
         \/ at = "read" /\ at' = "ask"
  BY DEF go_on, mounted, opened, loader_reads_on, loader_returns, judged, reply, Between
<1>3. length \in Nat /\ skip_clusters \in Nat
  BY DEF Walk, Walked
<1>4. CASE at' = "reply"
  <2>1. length' \in Nat /\ skip_clusters' \in Nat
    BY <1>1, <1>3
  <2> QED BY <1>1, <1>2, <1>4, <2>1, Replies
<1> QED BY <1>2, <1>4, GoesOnTo

-----------------------------------------------------------------------------
(* How many reads have been made, and of what.                             *)
LEMMA LoadsStand ==
    ASSUME Loads, UNCHANGED <<at, ask, reads>>, UNCHANGED card \/ at = "idle"
    PROVE  Loads'
BY DEF Loads, Reading

LEMMA FileSystemLoads ==
    ASSUME Session, Walk, Loads, file_system
    PROVE  Loads'
<1>1. UNCHANGED <<card, reads>>
  BY DEF file_system, card_side, driver
<1>2. CASE fat32_mount
  <2>1. at \in Mounting /\ at' \in Mounting
    BY <1>2 DEF fat32_mount, begin_mount, boot, partition, take_volume, read_fails, return, go,
                Mounting
  <2> QED BY <1>1, <2>1 DEF Loads, Mounting, Reading
<1>3. CASE fat32_open
  <2>1. at \in Opening /\ at' \in Opening
    BY <1>3 DEF fat32_open, begin_open, fat_find_file, entry_found, read_fails, return, go,
                Opening, Searching
  <2> QED BY <1>1, <2>1 DEF Loads, Opening, Searching, Reading
<1>4. CASE fat32_read(next_ranges)
  <2>1. at \in Reading /\ at' \in Reading
    BY <1>4 DEF fat32_read, begin_read, skip, copy, advance, finish, follow, read_fails, return,
                go, Reading
  <2>2. CASE at = "ask"
    <3>1. PICK range \in next_ranges : begin_read(range[1], range[2])
      BY <1>4, <2>2 DEF fat32_read, skip, copy, advance, finish
    <3>2. reads = 0 => ask' = HeaderRange
      BY <3>1 DEF begin_read, next_ranges, HeaderRange
    <3> QED BY <1>1, <2>1, <2>2, <3>2 DEF Loads, Reading
  <2>3. CASE at # "ask"
    <3>1. UNCHANGED ask
      BY <1>4, <2>3 DEF fat32_read, begin_read, skip, copy, advance, finish
    <3> QED BY <1>1, <2>1, <2>3, <3>1 DEF Loads, Reading
  <2> QED BY <2>2, <2>3
<1> QED BY <1>2, <1>3, <1>4 DEF file_system

(* A file whose header was asked for and lies inside has one.              *)
LEMMA HeaderInside ==
    ASSUME Session, Walk, at \in Reading, ask = HeaderRange
    PROVE  inside(ask.offset, ask.length) <=> HEADER_SIZE <= card.size
<1>1. ask.offset = 0 /\ ask.length = HEADER_SIZE
  BY DEF HeaderRange
<1>2. card.size \in Nat
  BY ReadKnows
<1>3. 0 <= card.size /\ card.size - 0 = card.size
  BY <1>2
<1> QED BY <1>1, <1>3, InsideIs

LEMMA GoesOnLoads ==
    ASSUME Session, Walk, Loads, go_on
    PROVE  Loads'
<1>1. UNCHANGED <<card, ask>> /\ reads' = IF at = "read" THEN reads + 1 ELSE reads
  BY DEF go_on, card_side
<1>2. \/ at \in {"mounted", "opened", "ask", "read"} /\ at' = "reply"
      \/ at = "mounted" /\ at' = "open"
      \/ at = "opened" /\ at' = "ask"
      \/ at = "read" /\ status = "ok" /\ at' = "ask"
  BY DEF go_on, mounted, opened, loader_reads_on, loader_returns, judged, reply
<1>3. CASE at' = "reply"
  BY <1>1, <1>3 DEF Loads, Reading
<1>4. CASE at \in {"mounted", "opened"} /\ at' \in {"open", "ask"}
  BY <1>1, <1>4 DEF Loads, Reading
<1>5. CASE at = "read" /\ status = "ok" /\ at' = "ask"
  <2>1. inside(ask.offset, ask.length)
    BY <1>5 DEF Walk, Copied
  <2>2. HEADER_SIZE <= card.size
    BY <1>5, <2>1, HeaderInside DEF Loads, Reading
  <2> QED BY <1>1, <1>5, <2>2 DEF Loads, Reading
<1> QED BY <1>2, <1>3, <1>4, <1>5

-----------------------------------------------------------------------------
(* Each answer, and what is wrong then.                                    *)
LEMMA UsableWhenRead ==
    ASSUME Session, at \in Filing
    PROVE  Usable
BY DEF Session, CardSide, Learnt, Met

LEMMA CauseStays ==
    ASSUME UNCHANGED <<card, filename, file, ask>>
    PROVE  /\ Usable' <=> Usable
           /\ Formatted' <=> Formatted
           /\ Name83(filename)' <=> Name83(filename)
           /\ CalledSo' <=> CalledSo
           /\ Listed' = Listed /\ FirstListed' = FirstListed
           /\ inside(ask.offset, ask.length)' <=> inside(ask.offset, ask.length)
<1>1. Usable' <=> Usable
  BY DEF Usable
<1>2. Name83(filename)' <=> Name83(filename)
  BY DEF Name83
<1>3. inside(ask.offset, ask.length)' <=> inside(ask.offset, ask.length)
  BY DEF inside
<1> QED BY <1>1, <1>2, <1>3, CardStays, NameStays

LEMMA DiagnosisStays ==
    ASSUME UNCHANGED <<card, filename, file, ask, verdict, reads>>
    PROVE  Diagnosis' = Diagnosis
<1>1. LoaderEnds' = LoaderEnds
  BY CauseStays DEF LoaderEnds
<1> QED BY <1>1, CauseStays DEF Diagnosis

LEMMA InitFails ==
    ASSUME Session, Walk, Loads, init_returned
    PROVE  NamesCause'
<1>1. /\ at = "init" /\ UNCHANGED <<card, slot, noise, reader, reads, verdict>>
      /\ at' = "reply" => step = "failed" /\ result' = "SD_INIT"
  BY DEF init_returned, reply, card_side
<1>2. SUFFICES ASSUME at' = "reply" PROVE NamesCause'
  BY DEF NamesCause
<1>3. step = "failed" /\ result' = "SD_INIT"
  BY <1>1, <1>2
<1>4. CASE Disturbed
  <2>1. reads' = 0
    BY <1>1 DEF Loads, Reading
  <2>2. result' \in LostTo'
    BY <1>3, <2>1 DEF LostTo
  <2> QED BY <1>1, <1>4, <2>2 DEF NamesCause, Disturbed
<1>5. CASE ~Disturbed
  <2>1. ~Usable
    BY <1>1, <1>3, <1>5 DEF Session, InStep, Met
  <2>2. ~Usable'
    BY <1>1, <2>1 DEF Usable
  <2>3. result' \in Diagnosis'
    BY <1>3, <2>2 DEF Diagnosis
  <2> QED BY <2>3 DEF NamesCause
<1> QED BY <1>4, <1>5

LEMMA MountFails ==
    ASSUME Session, Walk, Loads, at = "mounted", status = "error", result' = "FAT32",
           UNCHANGED <<card, slot, noise, filename, file, ask, reads>>
    PROVE  NamesCause'
<1>1. Disturbed \/ ~Formatted
  BY DEF Walk, Mounted
<1>2. Usable
  BY UsableWhenRead DEF Filing, Mounting
<1>3. CASE Disturbed
  <2>1. reads' = 0
    BY DEF Loads, Reading
  <2>2. result' \in LostTo'
    BY <2>1 DEF LostTo
  <2> QED BY <1>3, <2>2 DEF NamesCause, Disturbed
<1>4. CASE ~Formatted
  <2>1. result' \in Diagnosis'
    BY <1>2, <1>4, CauseStays DEF Diagnosis
  <2> QED BY <2>1 DEF NamesCause
<1> QED BY <1>1, <1>3, <1>4

LEMMA OpenFails ==
    ASSUME Session, Walk, Loads, at = "opened",
           UNCHANGED <<card, slot, noise, filename, file, ask, reads>>,
           \/ status = "invalid_name" /\ result' = "FILENAME"
           \/ status = "not_found" /\ result' = "NOT_FOUND"
           \/ status = "error" /\ result' = "SD_READ"
    PROVE  NamesCause'
<1>1. Usable /\ Formatted
  <2>1. at \in Filing /\ at \in Opening
    BY DEF Filing, Opening
  <2> QED BY <2>1, UsableWhenRead, VolumeKnown
<1>2. filename \in Names /\ filename # NULL
  BY NameAssumption DEF Walk, Searched
<1>3. /\ status = "invalid_name" => ~Name83(filename)
      /\ status # "invalid_name" => Name83(filename)
      /\ status = "not_found" => ~CalledSo \/ Listed = {}
      /\ status = "error" => Disturbed \/ (CalledSo /\ Listed # {} /\ FirstListed = "empty")
  BY <1>2, Named83 DEF Walk, Found, FindsListed
<1>4. CASE status = "invalid_name"
  <2>1. result' \in Diagnosis'
    BY <1>1, <1>2, <1>3, <1>4, CauseStays DEF Diagnosis
  <2> QED BY <2>1 DEF NamesCause
<1>5. CASE status = "not_found"
  <2>1. result' \in Diagnosis'
    BY <1>1, <1>2, <1>3, <1>5, CauseStays DEF Diagnosis
  <2> QED BY <2>1 DEF NamesCause
<1>6. CASE status = "error" /\ Disturbed
  <2>1. reads' = 0
    BY DEF Loads, Reading
  <2>2. result' \in LostTo'
    BY <1>6, <2>1 DEF LostTo
  <2> QED BY <1>6, <2>2 DEF NamesCause, Disturbed
<1>7. CASE status = "error" /\ ~Disturbed
  <2>1. result' \in Diagnosis'
    BY <1>1, <1>2, <1>3, <1>7, CauseStays DEF Diagnosis
  <2> QED BY <2>1 DEF NamesCause
<1> QED BY <1>4, <1>5, <1>6, <1>7

LEMMA LoaderFails ==
    ASSUME Session, Walk, Loads, loader_returns,
           reads' = IF at = "read" THEN reads + 1 ELSE reads,
           UNCHANGED <<card, slot, noise, filename, file, ask>>
    PROVE  NamesCause'
<1>1. at \in Reading /\ at \in Filing
  BY DEF loader_returns, Reading, Filing
<1>2. Usable /\ Formatted
  BY <1>1, UsableWhenRead, VolumeKnown
<1>3. filename \in Names /\ filename # NULL /\ Name83(filename)
  BY <1>1, NameAssumption, Named83 DEF Walk, Searched
<1>4. CalledSo /\ Listed # {} /\ FirstListed # "empty"
  BY <1>1 DEF Walk, Found
<1>5. Diagnosis' = LoaderEnds'
  BY <1>2, <1>3, <1>4, CauseStays DEF Diagnosis
<1>6. reads \in Nat /\ (reads > 0 => HEADER_SIZE <= card.size)
  BY <1>1 DEF Loads
<1>7. HEADER_SIZE \in Nat /\ card.size \in Nat
  BY <1>1, HeaderAssumption, ReadKnows
<1>8. CASE at = "read" /\ status = "error" /\ judged(read_verdict)
  <2>1. /\ reads = 0 => reads' = 1 /\ result' = "ELF_HEADER"
        /\ reads # 0 => reads' > 1 /\ result' = "ELF_READ"
    BY <1>6, <1>8 DEF judged, reply, sddrv_result, read_verdict
  <2>2. CASE Disturbed
    <3>1. result' \in LostTo'
      BY <1>6, <2>1 DEF LostTo
    <3> QED BY <2>2, <3>1 DEF NamesCause, Disturbed
  <2>3. CASE ~Disturbed
    <3>1. ~inside(ask.offset, ask.length)
      BY <1>8, <2>3 DEF Walk, Copied
    <3>2. CASE reads = 0
      <4>1. ask = HeaderRange
        BY <1>8, <3>2 DEF Loads, Reading
      <4>2. card.size < HEADER_SIZE
        BY <1>1, <1>7, <3>1, <4>1, HeaderInside
      <4>3. result' \in LoaderEnds'
        BY <2>1, <3>2, <4>2 DEF LoaderEnds
      <4> QED BY <1>5, <4>3 DEF NamesCause
    <3>3. CASE reads # 0
      <4>1. ~(card.size < HEADER_SIZE)
        BY <1>6, <1>7, <3>3
      <4>2. result' \in LoaderEnds'
        BY <2>1, <3>1, <3>3, <4>1, CauseStays DEF LoaderEnds
      <4> QED BY <1>5, <4>2 DEF NamesCause
    <3> QED BY <3>2, <3>3
  <2> QED BY <2>2, <2>3
<1>9. ASSUME at = "ask", reads > 0, NEW v \in content_verdicts, judged(v) PROVE NamesCause'
  <2>1. verdict' = v /\ result' = sddrv_result(v) /\ reads' = reads
    BY <1>9 DEF judged, reply
  <2>2. ~(card.size < HEADER_SIZE)
    BY <1>6, <1>7, <1>9
  <2>3. /\ v \in {"OK", "HEADER", "FORMAT", "RANGE", "NO_SEGMENT", "NO_MEMORY"}
        /\ v = "HEADER" => reads = 1
    BY <1>9 DEF content_verdicts
  <2>4. result' \in LoaderEnds'
    BY <2>1, <2>2, <2>3 DEF LoaderEnds, sddrv_result
  <2> QED BY <1>5, <2>4 DEF NamesCause
<1> QED BY <1>8, <1>9 DEF loader_returns

LEMMA Answers ==
    ASSUME Session, Walk, Loads, go_on
    PROVE  NamesCause'
<1>1. /\ UNCHANGED <<card, slot, noise, filename, file, ask>>
      /\ reads' = IF at = "read" THEN reads + 1 ELSE reads
  BY DEF go_on, card_side
<1>2. CASE mounted
  <2>1. at' = "reply" => at = "mounted" /\ status = "error" /\ result' = "FAT32"
    BY <1>2 DEF mounted, reply
  <2>2. at' = "reply" => UNCHANGED reads
    BY <1>1, <2>1
  <2> QED BY <1>1, <2>1, <2>2, MountFails DEF NamesCause
<1>3. CASE opened
  <2>1. at' = "reply" =>
          /\ at = "opened"
          /\ \/ status = "invalid_name" /\ result' = "FILENAME"
             \/ status = "not_found" /\ result' = "NOT_FOUND"
             \/ status = "error" /\ result' = "SD_READ"
    BY <1>3 DEF opened, reply
  <2>2. at' = "reply" => UNCHANGED reads
    BY <1>1, <2>1
  <2> QED BY <1>1, <2>1, <2>2, OpenFails DEF NamesCause
<1>4. CASE loader_reads_on
  BY <1>4 DEF loader_reads_on, NamesCause
<1>5. CASE loader_returns
  BY <1>1, <1>5, LoaderFails
<1> QED BY <1>2, <1>3, <1>4, <1>5 DEF go_on

LEMMA UserAnswers ==
    ASSUME Session, Walk, NamesCause, user
    PROVE  NamesCause'
<1>1. /\ UNCHANGED <<at, filename, file, ask, reads, verdict, result>>
      /\ at # "idle" => card' = card /\ noise'
  BY DEF user, insert, reader, driver
<1>2. SUFFICES ASSUME at = "reply" PROVE NamesCause'
  BY <1>1 DEF NamesCause
<1>3. card' = card /\ noise' /\ Diagnosis' = Diagnosis /\ LostTo' = LostTo
  BY <1>1, <1>2, DiagnosisStays DEF LostTo
<1>4. result \in LostTo \/ result \in Diagnosis
  BY <1>2 DEF NamesCause
<1> QED BY <1>1, <1>3, <1>4 DEF NamesCause

LEMMA Starts ==
    ASSUME Init
    PROVE  IInv
<1>1. CardSide
  <2>2. slot \in Slots
    BY UnpoweredSlots DEF Init
  <2>3. noise \in BOOLEAN /\ version2 \in BOOLEAN /\ sd_block_addressing \in BOOLEAN
        /\ ~sd_block_addressing
    BY DEF Init
  <2>4. 0 \in 0 .. Max({CMD0_TRIES, ACMD41_TRIES}) - 1
    BY TriesBound
  <2> QED BY <2>2, <2>3, <2>4 DEF Init, CardSide
<1>2. Negotiated /\ Learnt /\ InStep
  BY DEF Init, Negotiated, Learnt, InStep, Met, Filing, Mounting, Opening, Searching, Reading
<1>3. lba = NULL
  BY DEF Init, lba
<1>4. Asked
  BY <1>3 DEF Init, Asked
<1>5. Untouched /\ Walked
  BY DEF Init, Untouched, Walked
<1>6. Mounted
  BY DEF Init, Mounted, Opening, Searching, Reading
<1>7. Searched /\ Found /\ Copied
  BY DEF Init, Searched, Found, Copied, Searching, Reading
<1>8. FindsListed /\ NamesCause /\ Loads
  BY DEF Init, FindsListed, NamesCause, Loads, Reading
<1> QED BY <1>1, <1>2, <1>4, <1>5, <1>6, <1>7, <1>8 DEF IInv, Session, Walk

LEMMA GoesOnAnyway ==
    ASSUME IInv, [Next]_dvars
    PROVE  IInv'
<1>1. Session /\ Walk /\ Loads /\ NamesCause
  BY DEF IInv
<1>2. at \in Filing => at # "reply"
  BY DEF Filing, Mounting, Opening, Searching, Reading
<1>3. CASE receive
  <2>1. at = "idle" /\ at' = "init" /\ reads' = reads
    BY <1>3 DEF receive, driver
  <2>2. Loads'
    BY <1>1, <2>1 DEF Loads, Reading
  <2> QED BY <1>1, <1>3, <2>1, <2>2, Receives DEF IInv, NamesCause
<1>4. CASE initialise
  <2>1. at' = "init" /\ UNCHANGED <<at, card, ask, reads>>
    BY <1>4 DEF initialise, reader, driver
  <2> QED BY <1>1, <1>4, <2>1, Initialises, LoadsStand DEF IInv, NamesCause
<1>5. CASE init_returned
  <2>1. at = "init" /\ at' \in {"reply", "mount"} /\ reads' = reads
    BY <1>5 DEF init_returned, reply
  <2>2. Loads'
    BY <1>1, <2>1 DEF Loads, Reading
  <2> QED BY <1>1, <1>5, <2>2, InitReturns, InitFails DEF IInv
<1>6. CASE read_sector
  <2>1. UNCHANGED <<at, card, ask, reads>>
    BY <1>6 DEF read_sector, reader, driver
  <2> QED BY <1>1, <1>2, <1>6, <2>1, ReadSector, LoadsStand DEF IInv, NamesCause
<1>7. CASE file_system
  <2>1. at' # "reply"
    BY <1>1, <1>7, FileSystem DEF Filing, Mounting, Opening, Searching, Reading
  <2> QED BY <1>1, <1>7, <2>1, FileSystem, FileSystemLoads DEF IInv, NamesCause
<1>8. CASE go_on
  BY <1>1, <1>8, GoesOn, GoesOnLoads, Answers DEF IInv
<1>9. CASE send_result
  <2>1. at' = "idle" /\ reads' = 0
    BY <1>9 DEF send_result
  <2>2. Loads'
    BY <2>1 DEF Loads, Reading
  <2> QED BY <1>1, <1>9, <2>1, <2>2, SendsResult DEF IInv, NamesCause
<1>10. CASE user
  <2>1. UNCHANGED <<at, ask, reads>> /\ (UNCHANGED card \/ at = "idle")
    BY <1>10 DEF user, insert, reader, driver
  <2> QED BY <1>1, <1>10, <2>1, Users, UserAnswers, LoadsStand DEF IInv
<1>11. CASE UNCHANGED dvars
  <2>1. /\ UNCHANGED <<at, disk, sector_buffer, card, slot, noise, reader, reads, verdict, result>>
        /\ UNCHANGED <<step, tries, version2, sd_block_addressing, speed>>
    BY <1>11 DEF dvars, card_side, protocol, driver
  <2>2. UNCHANGED <<fs, boot_lba, cluster, sector_index, skip_clusters, inside_cluster, length>>
        /\ UNCHANGED <<filename, file, ask>>
    BY <2>1 DEF reader
  <2>3. (Met <=> Met') /\ (Disturbed <=> Disturbed') /\ (HighCapacity <=> HighCapacity')
        /\ (Usable <=> Usable')
    BY <2>1 DEF Met, Disturbed, HighCapacity, Usable
  <2>4. Session'
    BY <1>1, <2>1, <2>3 DEF Session, CardSide, Negotiated, Learnt, InStep
  <2>5. lba' = lba
    BY <2>1, <2>2 DEF lba, cluster_lba, fat_sector, in_chain
  <2>6. Asked'
    BY <1>1, <2>1, <2>3, <2>5 DEF Walk, Asked
  <2>7. Walk'
    BY <1>1, <2>1, <2>3, <2>6, WalkStands
  <2>8. NamesCause'
    BY <1>1, <2>1, <2>2, DiagnosisStays DEF NamesCause, LostTo
  <2>9. Loads'
    BY <1>1, <2>1, <2>2, LoadsStand
  <2> QED BY <2>4, <2>7, <2>8, <2>9 DEF IInv
<1> QED BY <1>3, <1>4, <1>5, <1>6, <1>7, <1>8, <1>9, <1>10, <1>11 DEF Next, Load

LEMMA InvariantHolds == Spec => []IInv
<1>1. Init => IInv
  BY Starts
<1>2. IInv /\ [Next]_dvars => IInv'
  BY GoesOnAnyway
<1> QED BY <1>1, <1>2, PTL DEF Spec

(* Each part of the driver's state stays in its range: what a function     *)
(* returned, the tries, the sector within the cluster, and a cluster       *)
(* number that is one of the card's chains or their end.                   *)
THEOREM DriverTyped == Spec => []TypeOK
<1>1. ASSUME IInv PROVE TypeOK
  <2>1. Session /\ Walk
    BY <1>1 DEF IInv
  <2>2. at \in {"skip", "copy", "advance", "read"} => inside_cluster \in 0 .. cluster_size
    BY <2>1, ReadKnows DEF Walk, Copied, Reading
  <2> QED BY <2>1, <2>2 DEF TypeOK, Session, CardSide, Walk, Asked, Walked, Mounted
<1> QED BY <1>1, InvariantHolds, PTL

(* open finds the file exactly when the directory lists it under the name  *)
(* asked for (fat_find_file, fat_make_short_name).                         *)
THEOREM ListedIsFound == Spec => []FindsListed
<1>1. IInv => FindsListed
  BY DEF IInv, Walk
<1> QED BY <1>1, InvariantHolds, PTL

(* A successful read returns the bytes of the range asked for, across any  *)
(* sector and cluster boundary; one inside the file fails only with the    *)
(* card (fat32_read).                                                      *)
THEOREM RangeIsRead == Spec => []ReadsRange
<1>1. ASSUME IInv PROVE ReadsRange
  <2>1. Session /\ Walk
    BY <1>1 DEF IInv
  <2>2. ASSUME at = "read", status = "ok"
        PROVE  got = SubSeq(Contents, ask.offset + 1, ask.offset + ask.length)
    <3>1. /\ ask \in [offset : Nat, length : Nat \ {0}] /\ inside(ask.offset, ask.length)
          /\ got = [p \in 1 .. ask.length |-> ask.offset + p - 1]
      BY <2>1, <2>2 DEF Walk, Copied, Reading
    <3>2. PICK o \in Nat, n \in Nat : o = ask.offset /\ n = ask.length
      BY <3>1
    <3>3. PICK size \in Nat : size = card.size /\ o + n <= size
      <4>1. ask.offset <= card.size /\ ask.length <= card.size - ask.offset /\ card.size \in Nat
        BY <2>1, <2>2, <3>1, InsideIs, ReadKnows DEF Reading
      <4> QED BY <3>2, <4>1
    <3>4. PICK c : c = [p \in 1 .. size |-> p - 1]
      OBVIOUS
    <3>5. SubSeq(c, o + 1, o + n) = [p \in 1 .. n |-> o + p - 1]
      <4>1. c \in Seq(Int) /\ Len(c) = size
        BY <3>4
      <4>2. PICK w : w = SubSeq(c, o + 1, o + n)
        OBVIOUS
      <4>3. w = [p \in 1 .. n |-> w[p]]
        <5>1. w \in Seq(Int)
          BY <3>3, <4>1, <4>2
        <5>2. Len(w) = n
          BY <3>3, <4>1, <4>2
        <5> QED BY <5>1, <5>2
      <4>4. ASSUME NEW p \in 1 .. n PROVE w[p] = o + p - 1
        <5>1. o + p \in 1 .. size /\ (o + 1) + p - 1 = o + p /\ p \in 1 .. (o + n) - (o + 1) + 1
          BY <3>3
        <5>2. w[p] = c[(o + 1) + p - 1]
          BY <4>1, <4>2, <5>1
        <5> QED BY <3>4, <5>1, <5>2
      <4> QED BY <4>2, <4>3, <4>4
    <3> QED BY <3>1, <3>2, <3>3, <3>4, <3>5 DEF Contents
  <2>3. ASSUME at = "read", status = "error", ~noise, slot.mode = "ready"
        PROVE  ~inside(ask.offset, ask.length)
    BY <2>1, <2>3 DEF Walk, Copied, Disturbed
  <2> QED BY <2>2, <2>3 DEF ReadsRange
<1> QED BY <1>1, InvariantHolds, PTL

(* The answer of a load names the first thing that is wrong; one that is   *)
(* due to a lost transfer names the place that was reading, which for the  *)
(* ELF header is told as an invalid one (sddrv_load_elf_execute,           *)
(* sd_card_init, elf_loader_load).                                         *)
THEOREM CauseIsNamed == Spec => []NamesCause
<1>1. IInv => NamesCause
  BY DEF IInv
<1> QED BY <1>1, InvariantHolds, PTL

(* The file system only takes what was read.                               *)
LEMMA FileSystemTakes ==
    ASSUME file_system, disk = "idle"
    PROVE  disk' = "idle"
<1>1. CASE fat32_mount
  BY <1>1 DEF fat32_mount, begin_mount, boot, partition, sector_read, read_fails
<1>2. CASE fat32_open
  BY <1>2 DEF fat32_open, begin_open, fat_find_file, sector_read, read_fails
<1>3. CASE fat32_read(next_ranges)
  BY <1>3 DEF fat32_read, begin_read, skip, copy, advance, finish, follow, sector_read, read_fails
<1> QED BY <1>1, <1>2, <1>3 DEF file_system

(* The sector that arrives is the one the reader asked for, whatever cards *)
(* were in the slot before (sd_read_sector, sd_block_addressing).          *)
THEOREM SectorIsRight == Spec => RightSector
<1>1. ASSUME IInv, [Next]_dvars, disk = "idle", disk' = "read" PROVE sector_buffer' = lba
  <2>1. read_sector \/ disk' = disk
    BY <1>1, FileSystemTakes
       DEF Next, Load, receive, initialise, sd_card_init, init_returned, go_on, send_result,
           user, dvars
  <2> QED BY <1>1, <2>1, ReadSector DEF IInv
<1>2. IInv /\ [Next]_dvars => [disk = "idle" /\ disk' = "read" => sector_buffer' = lba]_dvars
  BY <1>1
<1> QED BY <1>2, InvariantHolds, PTL DEF Spec, RightSector
=============================================================================
