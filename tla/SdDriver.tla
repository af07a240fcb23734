------------------------------ MODULE SdDriver ------------------------------
(***************************************************************************)
(* The SD driver's thread (sddrv.c): request after request it brings the   *)
(* card up, mounts it, opens the file and lets the ELF loader read it,     *)
(* while the user may pull and insert cards.  Fat32 asks for sectors and   *)
(* SdCard reads them.  What the loader makes of the bytes is in Loader;    *)
(* here it reads its header and READS ranges in all at most, and returns   *)
(* any verdict that it may after so many.                                  *)
(*                                                                         *)
(* Definitions named <function>_<fault> are wrong versions of a function,  *)
(* kept to show which property notices the fault.                          *)
(***************************************************************************)
EXTENDS Fat32, SdCard

CONSTANTS READS,
          HEADER_SIZE,  \* sizeof(elf32_header)
          Swapped       \* the cards that are pulled and inserted

ASSUME SwapAssumption == Swapped \subseteq Cards

ASSUME HeaderAssumption == HEADER_SIZE \in Nat \ {0}

VARIABLES reads,        \* how many fat32_read the loader has made
          verdict,      \* what elf_loader_load returned
          result        \* request->result once it is known

card_side  == <<card, slot, noise>>
protocol   == <<step, tries, version2, sd_block_addressing, speed>>
reader     == <<fs, status, boot_lba, filename, file, ask, cluster, sector_index,
                skip_clusters, inside_cluster, length, got>>
driver     == <<reads, verdict, result>>
dvars      == <<at, disk, sector_buffer, card_side, protocol, reader, driver>>

Init ==
    /\ card \in Cards
    /\ slot = Unpowered("native")
    /\ noise = FALSE
    /\ step = "done" /\ tries = 0 /\ version2 = FALSE
    /\ sd_block_addressing = FALSE /\ speed = "slow"
    /\ at = "idle" /\ status = NULL /\ fs = NULL
    /\ disk = "idle" /\ sector_buffer = NULL
    /\ boot_lba = 0 /\ filename = NULL /\ file = NULL /\ ask = NULL
    /\ cluster = 0 /\ sector_index = 0 /\ skip_clusters = 0
    /\ inside_cluster = 0 /\ length = 0 /\ got = <<>>
    /\ reads = 0 /\ verdict = NULL /\ result = NULL
-----------------------------------------------------------------------------
receive ==
    /\ at = "idle"
    /\ at' = "init" /\ step' = "begin" /\ noise' = FALSE
    /\ UNCHANGED <<disk, sector_buffer, card, slot, tries, version2, sd_block_addressing,
                   speed, reader, driver>>

reply(r) == at' = "reply" /\ result' = r

initialise ==
    /\ at = "init" /\ sd_card_init
    /\ UNCHANGED <<card, at, reader, driver>>

init_returned ==
    /\ at = "init"
    /\ \/ step = "failed" /\ reply("SD_INIT")
       \/ step = "done" /\ at' = "mount" /\ UNCHANGED result
    /\ UNCHANGED <<disk, sector_buffer, card_side, protocol, reader, reads, verdict>>

read_sector ==
    /\ sd_read_sector(lba)
    /\ UNCHANGED <<card, at, reader, driver>>

(* The loader reads the ELF header first, then what the headers name: any  *)
(* range of a byte or more, those that leave the file included.            *)
next_ranges ==
    IF reads = 0 THEN {<<0, HEADER_SIZE>>}
    ELSE (0 .. card.size + 1) \X (1 .. card.size + 1)

file_system ==
    /\ \/ fat32_mount
       \/ fat32_open
       \/ (at = "ask" => reads < READS) /\ fat32_read(next_ranges)
    /\ UNCHANGED <<card_side, protocol, driver>>

mounted ==
    /\ at = "mounted"
    /\ \/ status = "error" /\ reply("FAT32")
       \/ status = "ok" /\ at' = "open" /\ UNCHANGED result
    /\ UNCHANGED verdict

opened ==
    /\ at = "opened"
    /\ \/ status = "invalid_name" /\ reply("FILENAME")
       \/ status = "not_found" /\ reply("NOT_FOUND")
       \/ status = "error" /\ reply("SD_READ")
       \/ status = "ok" /\ at' = "ask" /\ UNCHANGED result
    /\ UNCHANGED verdict

Verdicts == {"OK", "HEADER", "FORMAT", "RANGE", "READ", "NO_SEGMENT", "NO_MEMORY"}

(* The switch over elf_loader_load's result; NO_MEMORY is not in it.       *)
sddrv_result(v) ==
    CASE v = "OK"         -> "OK"
      [] v = "HEADER"     -> "ELF_HEADER"
      [] v = "FORMAT"     -> "ELF_FORMAT"
      [] v = "RANGE"      -> "ELF_RANGE"
      [] v = "READ"       -> "ELF_READ"
      [] v = "NO_SEGMENT" -> "NO_SEGMENT"
      [] OTHER            -> "ELF_READ"

judged(v) == verdict' = v /\ reply(sddrv_result(v))

loader_reads_on ==
    /\ at = "read" /\ status = "ok"
    /\ at' = "ask" /\ UNCHANGED <<verdict, result>>

read_verdict_always_header == "HEADER"

(* A failed read of the header has no verdict of its own.                  *)
read_verdict == IF reads = 0 THEN "HEADER" ELSE "READ"

(* What may be found wrong with the header once it is read, what with the  *)
(* rest; the program headers are read twice before all is well.            *)
content_verdicts ==
    IF reads = 1 THEN {"HEADER", "FORMAT", "RANGE"}
    ELSE {"FORMAT", "RANGE", "NO_SEGMENT", "NO_MEMORY"} \cup {v \in {"OK"} : reads > 2}

loader_returns ==
    \/ at = "read" /\ status = "error" /\ judged(read_verdict)
    \/ at = "ask" /\ reads > 0 /\ \E v \in content_verdicts : judged(v)

(* A caller takes what a function returned.                                *)
go_on ==
    /\ mounted \/ opened \/ loader_reads_on \/ loader_returns
    /\ status' = NULL
    /\ IF at = "read"
       THEN /\ reads' = reads + 1
            /\ cluster' = 0 /\ skip_clusters' = 0 /\ inside_cluster' = 0
            /\ length' = 0 /\ got' = <<>>
       ELSE UNCHANGED <<reads, cluster, skip_clusters, inside_cluster, length, got>>
    /\ UNCHANGED <<disk, sector_buffer, card_side, protocol, fs, boot_lba, filename, file,
                   ask, sector_index>>

(* The answer goes out, and the locals of the calls are gone.              *)
send_result ==
    /\ at = "reply"
    /\ at' = "idle"
    /\ boot_lba' = 0 /\ filename' = NULL /\ file' = NULL
    /\ ask' = NULL /\ cluster' = 0 /\ sector_index' = 0 /\ skip_clusters' = 0
    /\ inside_cluster' = 0 /\ length' = 0 /\ got' = <<>>
    /\ reads' = 0 /\ verdict' = NULL /\ result' = NULL
    /\ UNCHANGED <<disk, sector_buffer, card_side, protocol, fs, status>>

(* Only an idle driver sees another card; a card that comes back during a  *)
(* load has lost its power meanwhile.                                      *)
user ==
    /\ card \in Swapped
    /\ \/ pull /\ UNCHANGED card
       \/ insert /\ at = "idle" /\ card' \in Swapped
       \/ insert /\ at # "idle" /\ UNCHANGED card
    /\ noise' = (noise \/ at # "idle")
    /\ UNCHANGED <<at, disk, sector_buffer, protocol, reader, driver>>

Load == initialise \/ init_returned \/ read_sector \/ file_system \/ go_on \/ send_result

Next == receive \/ Load \/ user

(* The driver's thread is the only one at its priority and never blocks    *)
(* during a load; nobody has to move a card or ask for a file.             *)
Spec == Init /\ [][Next]_dvars /\ WF_dvars(Load)
-----------------------------------------------------------------------------
(* The ranges of the variables; no step leaves the chains of the card.     *)
TypeOK ==
    /\ disk \in {"idle", "read", "failed"}
    /\ status \in {NULL, "ok", "error", "not_found", "invalid_name"}
    /\ tries \in 0 .. Max({CMD0_TRIES, ACMD41_TRIES}) - 1
    /\ sd_block_addressing => version2
    /\ fs # NULL => sector_index \in 0 .. fs.sectors_per_cluster - 1
    /\ at \in {"skip", "copy", "advance", "read"} => inside_cluster \in 0 .. cluster_size
    /\ length \in Nat /\ skip_clusters \in Nat
    /\ cluster \in ToSet(card.root) \cup ToSet(card.file) \cup {0, EOC}

(* The entries of the directory that count, read in one piece: those with  *)
(* the name, before any end mark; and what the first of them is.           *)
Listed ==
    {k \in DOMAIN card.directory :
        /\ card.directory[k] \in {"wanted", "empty"}
        /\ \A j \in 1 .. k : card.directory[j] # "end"}

FirstListed == card.directory[Min(Listed)]

(* A name of the form the driver's error text asks for, and the card's     *)
(* file called so, small letters or capital.                               *)
Name83(name) ==
    \E dot \in DOMAIN name :
        /\ name[dot] = "."
        /\ dot - 1 \in 1 .. 8 /\ Len(name) - dot \in 1 .. 3
        /\ \A k \in DOMAIN name \ {dot} : name[k] \notin Unfit \cup {"."}

CalledSo ==
    [k \in DOMAIN filename |-> fat_upper(filename[k])] = card.name[1] \o <<".">> \o card.name[2]

(* open finds the file exactly when the directory lists it under the name  *)
(* asked for, however the entries fall into sectors and clusters           *)
(* (fat_find_file, fat_make_short_name).                                   *)
FindsListed ==
    /\ file # NULL => CalledSo /\ Listed # {} /\ FirstListed = "wanted"
    /\ at = "opened" /\ status = "not_found" => ~CalledSo \/ Listed = {}

(* A read that succeeds returns the range asked for, byte by byte, across  *)
(* any sector and cluster boundary; one inside the file fails only when a  *)
(* sector cannot be read (fat32_read).                                     *)
ReadsRange ==
    /\ at = "read" /\ status = "ok" =>
         got = SubSeq(Contents, ask.offset + 1, ask.offset + ask.length)
    /\ at = "read" /\ status = "error" /\ ~noise /\ slot.mode = "ready" =>
         ~inside(ask.offset, ask.length)

(* The sector that arrives is the one the reader asked for, whatever cards *)
(* were in the slot before and however they count their addresses          *)
(* (sd_read_sector, sd_block_addressing).                                  *)
RightSector == [][disk = "idle" /\ disk' = "read" => sector_buffer' = lba]_dvars

(* What a load can end with when nothing disturbs it.                      *)
Usable == card.kind \in {"SDHC", "SDSC2", "SDSC1"} /\ card.busy < ACMD41_TRIES

Formatted ==
    LET b == card.boot IN
    /\ b.fat32 /\ b.fat_size > 0 /\ b.reserved > 0 /\ b.fat_count > 0
    /\ b.sectors_per_cluster \in {1, 2, 4, 8, 16, 32, 64, 128}
    /\ b.root_cluster >= 2

(* A read inside the file cannot fail undisturbed.  So ELF_HEADER means    *)
(* that the header, the only thing read, is no ELF header, or that the     *)
(* file is too short to have one; ELF_READ means that what the headers     *)
(* name lies outside the file, or no room in app RAM, which has an error   *)
(* code and a text of its own that are never used.                         *)
LoaderEnds ==
    IF card.size < HEADER_SIZE THEN {"ELF_HEADER"}
    ELSE {"OK", "ELF_FORMAT", "ELF_RANGE", "NO_SEGMENT"}
           \cup {r \in {"ELF_HEADER"} : reads = 1}
           \cup {r \in {"ELF_READ"} : verdict = "NO_MEMORY" \/ ~inside(ask.offset, ask.length)}

(* What a lost transfer is answered with: the error of the function that   *)
(* was reading, but ELF_HEADER ("invalid ELF header") for the first read   *)
(* of the loader, whose error nothing tells from a bad header.             *)
LostTo ==
    CASE reads = 0 -> {"SD_INIT", "FAT32", "SD_READ"}
      [] reads = 1 -> {"ELF_HEADER"}
      [] OTHER     -> {"ELF_READ"}

Diagnosis ==
    IF ~Usable THEN {"SD_INIT"}
    ELSE IF ~Formatted THEN {"FAT32"}
    ELSE IF filename = NULL THEN {}
    ELSE IF ~Name83(filename) THEN {"FILENAME"}
    ELSE IF ~CalledSo \/ Listed = {} THEN {"NOT_FOUND"}
    ELSE IF FirstListed = "empty" THEN {"SD_READ"}
    ELSE LoaderEnds

(* The answer of a load names the first thing that is wrong: a good card   *)
(* is never refused, and a failed transfer never passes for a missing      *)
(* file, for success or for a verdict on what was read: it is answered     *)
(* with the error of the place that was reading, which for the ELF header  *)
(* is that of an invalid one (sddrv_load_elf_execute, sd_card_init,        *)
(* elf_loader_load).                                                       *)
NamesCause ==
    at = "reply" =>
        \/ (noise \/ slot.mode = "absent") /\ result \in LostTo
        \/ result \in Diagnosis

(* On a card whose chains end, every load ends with an answer.             *)
Ends == []<>(at = "idle")
=============================================================================
