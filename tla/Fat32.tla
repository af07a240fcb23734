-------------------------------- MODULE Fat32 --------------------------------
(***************************************************************************)
(* The FAT32 reader (fat32.c): mounting a volume, finding a file in its    *)
(* root directory and reading a range of it, sector by sector along the    *)
(* cluster chains.  Which sector a loop reads is lba; reading it is left   *)
(* to the function the reader was given, which ends with disk = "read" or  *)
(* disk = "failed".                                                        *)
(*                                                                         *)
(* Definitions named <function>_<fault> are wrong versions of a function,  *)
(* kept to show which property notices the fault.                          *)
(***************************************************************************)
EXTENDS Volume

CONSTANTS
    Characters,
    Capitals,   \* the capital of each small letter
    Names       \* the file names asked for, as sequences of characters

(* What no file name may hold, beside a second dot.                        *)
Unfit == {" ", "/", "\\"}

ASSUME NameAssumption ==
    /\ DOMAIN Capitals \subseteq Characters \ {"."}
    /\ Capitals \in [DOMAIN Capitals -> Characters \ {"."}]
    /\ Names \subseteq Seq(Characters)
    /\ NULL \notin Names /\ NULL \notin Seq(Seq(Characters))
    /\ \A c \in Cards :
        /\ c.name \in Seq(Characters) \X Seq(Characters)
        /\ Len(c.name[1]) \in 1 .. 8 /\ Len(c.name[2]) \in 1 .. 3
        /\ \A k \in {1, 2} : ToSet(c.name[k]) \cap (Unfit \cup {"."}) = {}

VARIABLES
    at,             \* which loop of which function runs, or which has returned
    status,         \* what it returned
    boot_lba, fs,   \* fs is NULL from its memset to the end of fat32_mount
    filename, file, \* file is NULL until it has been found
    ask,            \* the range asked for
    cluster, sector_index, skip_clusters, inside_cluster, length,
    got             \* what has been copied to the caller's buffer

return(from, s) == at' = from /\ status' = s

go(loop) == at' = loop /\ UNCHANGED status

(* The buffer is looked at.                                                *)
sector_read == disk = "read" /\ disk' = "idle" /\ UNCHANGED sector_buffer

read_fails(from) ==
    /\ disk = "failed" /\ disk' = "idle" /\ UNCHANGED sector_buffer
    /\ return(from, "error")

cluster_size == fs.sectors_per_cluster * SECTOR

cluster_lba(c) == fs.data_start_lba + (c - 2) * fs.sectors_per_cluster

in_chain(c) == 2 <= c /\ c < EOC

fat_sector(c) == fs.fat_start_lba + (c \div SECTOR)

(* The sector the loop at hand calls read_sector for; NULL if it calls it  *)
(* for none.                                                               *)
lba ==
    CASE at = "boot"                                -> 0
      [] at = "partition"                           -> boot_lba
      [] at = "find" /\ in_chain(cluster)           -> cluster_lba(cluster) + sector_index
      [] at \in {"next_cluster", "advance"} -> fat_sector(cluster)
      [] at = "skip" /\ skip_clusters > 0           -> fat_sector(cluster)
      [] at = "copy" /\ length > 0                  -> cluster_lba(cluster) + (inside_cluster \div SECTOR)
      [] OTHER                                      -> NULL
-----------------------------------------------------------------------------
(* fat32_mount.                                                            *)
begin_mount ==
    /\ at = "mount"
    /\ fs' = NULL /\ sector_buffer' = NULL
    /\ go("boot")
    /\ UNCHANGED <<boot_lba, disk>>

looks_like_fat32(s) == s.fat32 /\ s.sectors_per_cluster # 0 /\ s.fat_size # 0

(* A byte with one bit set.                                                *)
power_of_two(n) == n \in {1, 2, 4, 8, 16, 32, 64, 128}

geometry(s, first) ==
    [fat_start_lba  |-> first + s.reserved,
     data_start_lba |-> first + s.reserved + s.fat_count * s.fat_size,
     root_cluster   |-> s.root_cluster,
     sectors_per_cluster |-> s.sectors_per_cluster]

take_volume(s, first) ==
    IF power_of_two(s.sectors_per_cluster) /\ s.reserved # 0 /\ s.fat_count # 0
         /\ s.root_cluster >= 2
    THEN fs' = geometry(s, first) /\ return("mounted", "ok")
    ELSE UNCHANGED fs /\ return("mounted", "error")

(* Sector 0 is the volume's boot sector or names the first partition.      *)
boot ==
    /\ at = "boot"
    /\ LET s == BootSector(sector_buffer) IN
       \/ /\ sector_read /\ looks_like_fat32(s)
          /\ UNCHANGED boot_lba
          /\ take_volume(s, 0)
       \/ /\ sector_read /\ ~looks_like_fat32(s)
          /\ boot_lba' = s.partition
          /\ IF s.partition = 0 THEN return("mounted", "error") ELSE go("partition")
          /\ UNCHANGED fs
       \/ read_fails("mounted") /\ UNCHANGED <<boot_lba, fs>>

partition ==
    /\ at = "partition"
    /\ LET s == BootSector(sector_buffer) IN
       \/ sector_read /\ looks_like_fat32(s) /\ take_volume(s, boot_lba)
       \/ sector_read /\ ~looks_like_fat32(s) /\ return("mounted", "error") /\ UNCHANGED fs
       \/ read_fails("mounted") /\ UNCHANGED fs
    /\ UNCHANGED boot_lba

fat32_mount ==
    /\ begin_mount \/ boot \/ partition
    /\ UNCHANGED <<filename, file, ask, cluster, sector_index, skip_clusters,
                   inside_cluster, length, got>>
-----------------------------------------------------------------------------
(* fat32_open.                                                             *)
fat_upper(c) == IF c \in DOMAIN Capitals THEN Capitals[c] ELSE c

Refused == [refused |-> TRUE]

next_character(s, c) ==
    IF s.refused THEN s
    ELSE IF c = "." THEN IF s.extension \/ s.base = <<>> THEN Refused
                         ELSE [s EXCEPT !.extension = TRUE]
    ELSE IF c \in Unfit THEN Refused
    ELSE IF s.extension
         THEN IF Len(s.after) >= 3 THEN Refused ELSE [s EXCEPT !.after = Append(@, fat_upper(c))]
         ELSE IF Len(s.base) >= 8 THEN Refused ELSE [s EXCEPT !.base = Append(@, fat_upper(c))]

(* The two fields of the 8.3 name, without their padding; NULL if refused. *)
fat_make_short_name(name) ==
    LET before[n \in 0 .. Len(name)] ==
            IF n = 0 THEN [refused |-> FALSE, extension |-> FALSE, base |-> <<>>, after |-> <<>>]
            ELSE next_character(before[n - 1], name[n])
        s == before[Len(name)]
    IN  IF s.refused THEN NULL
        ELSE IF s.base = <<>> \/ s.after = <<>> THEN NULL
        ELSE <<s.base, s.after>>

ShortName == [name \in Names |-> fat_make_short_name(name)]

(* The caller's name shows from here on only, so it is picked here.        *)
begin_open ==
    /\ at = "open"
    /\ \E name \in Names :
        /\ filename' = name
        /\ IF ShortName[name] = NULL
           THEN return("opened", "invalid_name") /\ UNCHANGED cluster
           ELSE cluster' = fs.root_cluster /\ go("find")
    /\ UNCHANGED <<file, sector_index, disk, sector_buffer>>

fat_entry_stays(c) == c

fat_entry(c) == Cells(sector_buffer)[c % SECTOR] % RESERVED

(* The first entry of a sector that decides.                               *)
decides(kind) ==
    kind = "end" \/ (kind \in {"wanted", "empty"} /\ ShortName[filename] = card.name)

entry_found(kind) ==
    \/ kind = "end" /\ return("opened", "not_found") /\ UNCHANGED file
    \/ kind = "empty" /\ return("opened", "error") /\ UNCHANGED file
    \/ /\ kind = "wanted"
       /\ file' = [first_cluster |-> card.file[1], size |-> card.size]
       /\ return("opened", "ok")

last_sector_early == sector_index + 2 >= fs.sectors_per_cluster

last_sector == sector_index + 1 = fs.sectors_per_cluster

fat_find_file ==
    \/ /\ at = "find" /\ in_chain(cluster)
       /\ \/ /\ sector_read
             /\ LET entries == Cells(sector_buffer)
                    telling == {k \in DOMAIN entries : decides(entries[k])}
                IN  \/ /\ telling # {}
                       /\ entry_found(entries[Min(telling)])
                       /\ UNCHANGED sector_index
                    \/ /\ telling = {}
                       /\ sector_index' = IF last_sector THEN 0 ELSE sector_index + 1
                       /\ go(IF last_sector THEN "next_cluster" ELSE "find")
                       /\ UNCHANGED file
          \/ read_fails("opened") /\ UNCHANGED <<file, sector_index>>
       /\ UNCHANGED <<cluster, filename>>
    \/ /\ at = "find" /\ ~in_chain(cluster)
       /\ return("opened", "not_found")
       /\ UNCHANGED <<file, filename, cluster, sector_index, disk, sector_buffer>>
    \/ /\ at = "next_cluster"
       /\ \/ sector_read /\ cluster' = fat_entry(cluster) /\ go("find")
          \/ read_fails("opened") /\ UNCHANGED cluster
       /\ UNCHANGED <<file, filename, sector_index>>

fat32_open ==
    /\ begin_open \/ fat_find_file
    /\ UNCHANGED <<boot_lba, fs, ask, skip_clusters, inside_cluster, length, got>>
-----------------------------------------------------------------------------
(* fat32_read.                                                             *)
inside(offset, n) == offset <= file.size /\ n <= file.size - offset

begin_read(offset, n) ==
    /\ at = "ask"
    /\ ask' = [offset |-> offset, length |-> n]
    /\ \/ /\ ~inside(offset, n)
          /\ return("read", "error")
          /\ UNCHANGED <<cluster, skip_clusters, inside_cluster, length>>
       \/ /\ inside(offset, n)
          /\ cluster' = file.first_cluster
          /\ skip_clusters' = offset \div cluster_size
          /\ inside_cluster' = offset % cluster_size
          /\ length' = n
          /\ go("skip")
    /\ UNCHANGED <<got, disk, sector_buffer>>

(* One link of the chain, which must not end here.                         *)
follow(to) ==
    \/ sector_read /\ cluster' = fat_entry(cluster) /\ in_chain(cluster') /\ go(to)
    \/ /\ sector_read /\ cluster' = fat_entry(cluster) /\ ~in_chain(cluster')
       /\ return("read", "error")
    \/ read_fails("read") /\ UNCHANGED cluster

skip ==
    /\ at = "skip"
    /\ \/ /\ skip_clusters > 0
          /\ follow("skip")
          /\ skip_clusters' = skip_clusters - 1
       \/ /\ skip_clusters = 0
          /\ go("copy")
          /\ UNCHANGED <<cluster, skip_clusters, disk, sector_buffer>>
    /\ UNCHANGED <<ask, inside_cluster, length, got>>

copy_size == Min({SECTOR - (inside_cluster % SECTOR), length})

end_of_cluster_late(n) == n > cluster_size

end_of_cluster(n) == n = cluster_size

copy ==
    /\ at = "copy" /\ length > 0
    /\ \/ /\ sector_read
          /\ LET cells == Cells(sector_buffer) IN
             got' = got \o [i \in 1 .. copy_size |-> cells[(inside_cluster + i - 1) % SECTOR]]
          /\ length' = length - copy_size
          /\ inside_cluster' = inside_cluster + copy_size
          /\ go(IF end_of_cluster(inside_cluster') /\ length' # 0 THEN "advance" ELSE "copy")
       \/ read_fails("read") /\ UNCHANGED <<got, length, inside_cluster>>
    /\ UNCHANGED <<ask, cluster, skip_clusters>>

advance_rereads ==
    /\ at = "advance"
    /\ (sector_read /\ go("copy")) \/ read_fails("read")
    /\ inside_cluster' = 0
    /\ UNCHANGED <<ask, cluster, skip_clusters, length, got>>

advance ==
    /\ at = "advance"
    /\ follow("copy")
    /\ inside_cluster' = 0
    /\ UNCHANGED <<ask, skip_clusters, length, got>>

finish ==
    /\ at = "copy" /\ length = 0
    /\ return("read", "ok")
    /\ UNCHANGED <<ask, cluster, skip_clusters, inside_cluster, length, got, disk, sector_buffer>>

(* Whatever range its caller asks for.                                     *)
fat32_read(ranges) ==
    /\ \/ \E range \in ranges : begin_read(range[1], range[2])
       \/ skip
       \/ copy
       \/ advance
       \/ finish
    /\ UNCHANGED <<boot_lba, fs, filename, file, sector_index>>
=============================================================================
