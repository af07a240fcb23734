----------------------------- MODULE SdDriverMC -----------------------------
(* Clusters of two sectors of two cells; a root directory of one or two    *)
(* clusters, a file of up to two, in and out of order, of every size; FAT  *)
(* entries in three sectors, in two copies.                                *)
EXTENDS SdDriver, Bitwise

(* The bytes with one bit set, as fat32.c finds them.                      *)
ASSUME PowersOfTwo == \A n \in 0 .. 255 : power_of_two(n) <=> n # 0 /\ (n & (n - 1)) = 0

Boot == [fat32 |-> TRUE, partition |-> 3, sectors_per_cluster |-> 2, reserved |-> 1,
         fat_count |-> 2, fat_size |-> 4, root_cluster |-> 2]

AName == <<<<"A">>, <<"B">>>>

Plain ==
    [kind |-> "SDHC", busy |-> 0, block_length |-> 4, start |-> 0, high |-> 0, boot |-> Boot,
     root |-> <<2>>, directory |-> <<"other", "skipped", "wanted", "end">>,
     file |-> <<6, 3>>, size |-> 3, name |-> AName]

(* Every directory of one cluster, and those of two with one entry of the  *)
(* name and one end mark at any two places.                                *)
OneCluster  == [1 .. 4 -> {"end", "skipped", "other", "wanted"}]
                 \cup {<<"other", "empty", "wanted", "end">>}
TwoClusters == {[k \in 1 .. 8 |-> IF k = w THEN "wanted" ELSE IF k = e THEN "end" ELSE "other"] :
                  w, e \in 1 .. 9}

Directories ==
    {[Plain EXCEPT !.directory = d] : d \in OneCluster}
      \cup {[Plain EXCEPT !.root = <<5, 2>>, !.directory = d, !.boot.root_cluster = 5] : d \in TwoClusters}

Ranges ==
    {[Plain EXCEPT !.file = chain, !.size = size, !.high = high] :
        chain \in {<<3, 4>>, <<6, 3>>}, size \in 1 .. 8, high \in {0, 1}}

(* Boot sectors that are odd in one field; clusters of every number of     *)
(* sectors below five.                                                     *)
OddBoots ==
    {[Boot EXCEPT !.fat32 = FALSE, !.partition = p] : p \in {0, 3}}
      \cup {[Boot EXCEPT !.reserved = n] : n \in {0, 2}}
      \cup {[Boot EXCEPT !.fat_count = n] : n \in {0, 1}}
      \cup {[Boot EXCEPT !.fat_size = n] : n \in {0, 5}}
      \cup {[Boot EXCEPT !.root_cluster = 0]}

Volumes ==
    {[Plain EXCEPT !.boot = b, !.start = s] : b \in OddBoots, s \in {0, 3}}
      \cup {[Plain EXCEPT !.boot.sectors_per_cluster = 0, !.directory = <<>>, !.size = 0]}
      \cup {[Plain EXCEPT !.boot.sectors_per_cluster = n,
                          !.directory = [k \in 1 .. 2 * n |-> IF k = n THEN "wanted" ELSE "other"]] :
               n \in {1, 3, 4}}

Protocols == {[Plain EXCEPT !.kind = kind, !.start = start, !.busy = busy, !.block_length = n] :
             kind \in SdKinds, start \in {0, 3}, busy \in 0 .. 2, n \in {4, 8}}

Pulled == {c \in Protocols : c.busy = 1 /\ c.block_length = 8}

Small == Directories \cup Ranges \cup Volumes \cup Protocols

Eight == [k \in 1 .. 8 |-> "b"]

SomeCharacters == {"a", "b", "A", "B", ".", " ", "/", "\\"}

TwoCapitals == ("a" :> "A") @@ ("b" :> "B")

SomeNames ==
    {<<>>, <<"a", ".", "b">>, <<"A", ".", "b">>, <<"b", ".", "b">>, <<"a", ".", "b", "b">>,
     <<"a", "b">>, <<"a", ".">>, <<".", "b">>, <<"a", ".", "b", ".">>, <<"a", ".", ".", "b">>,
     <<"a", " ", ".", "b">>, <<"/", "a", ".", "b">>, <<"a", "\\", ".", "b">>, <<"a", ".", "b", "b", "b">>,
     <<"a", ".", "b", "b", "b", "b">>, Eight \o <<".", "b">>, Eight \o <<"b", ".", "b">>}
=============================================================================
