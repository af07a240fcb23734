------------------------------- MODULE Volume -------------------------------
(***************************************************************************)
(* What an SD card with a FAT32 volume holds, sector by sector, as fat32.c *)
(* expects to find it.  A sector holds SECTOR cells: entries of the FAT or *)
(* of a directory, or bytes of a file.  The byte at position p of the file *)
(* is p, so that what is read shows where it came from.                    *)
(***************************************************************************)
EXTENDS Integers, SequencesExt

CONSTANTS
    SECTOR,     \* cells of a sector
    EOC,        \* 0x0ffffff8: this and what is above it ends a chain
    RESERVED,   \* 2^28: the bits from here up of a FAT entry mean nothing
    Cards,      \* see CardAssumption
    NULL

VARIABLES
    card,           \* the card in the slot, or the last that was
    disk,           \* "idle", or how the last read_sector ended: "read", "failed"
    sector_buffer   \* the number of the sector that fs->sector_buffer holds

Clusters == 2 .. EOC - 1

(* A directory entry is of one of these kinds; "wanted" and "empty" are    *)
(* files called card.name, the second without a cluster; "skipped" is      *)
(* deleted, part of a long name, a label or a directory, whatever its name. *)
Kinds == {"end", "skipped", "other", "wanted", "empty"}

(* How a card takes part in the SD protocol; the first three are those     *)
(* the driver is written for.                                              *)
SdKinds == {"SDHC", "SDSC2", "SDSC1", "MMC", "low_voltage"}

(* The first sector of a volume, as far as it is looked at.                *)
BootRecord == [fat32 : BOOLEAN, partition : Nat, sectors_per_cluster : Nat, reserved : Nat,
               fat_count : Nat, fat_size : Nat, root_cluster : Nat]

ASSUME SectorAssumption ==
    /\ SECTOR \in Nat \ {0}
    /\ EOC \in Nat /\ RESERVED \in Nat /\ EOC < RESERVED

ASSUME CardAssumption == \A c \in Cards :
    /\ c.kind \in SdKinds /\ c.busy \in Nat /\ c.block_length \in Nat \ {0}
    /\ c.start \in Nat      \* where the volume starts; 0: no partition table
    /\ c.high \in Nat       \* what the reserved bits of the FAT hold
    /\ c.boot \in BootRecord
    /\ c.root \in Seq(Clusters) /\ c.root # <<>>
    /\ c.file \in Seq(Clusters)
    /\ IsInjective(c.root \o c.file)
    /\ c.boot.fat_size > 0 =>
         \A k \in ToSet(c.root) \cup ToSet(c.file) : k < c.boot.fat_size * SECTOR
    /\ c.boot.fat32 => c.boot.root_cluster \in {c.root[1], 0}
    /\ c.directory \in Seq(Kinds)
    /\ "wanted" \in ToSet(c.directory) => c.file # <<>>
    /\ Len(c.directory) = Len(c.root) * c.boot.sectors_per_cluster * SECTOR
    /\ c.size \in 0 .. Len(c.file) * c.boot.sectors_per_cluster * SECTOR

(* A sector as a boot sector: the volume's own, a master boot record that  *)
(* names the first partition, or neither.                                  *)
BootSector(lba) ==
    IF lba = card.start THEN card.boot
    ELSE [fat32 |-> FALSE, partition |-> IF lba = 0 THEN card.start ELSE 0]

FirstFat  == card.start + card.boot.reserved
FirstData == FirstFat + card.boot.fat_count * card.boot.fat_size

ClusterCells == card.boot.sectors_per_cluster * SECTOR

Position(chain, c) == CHOOSE i \in DOMAIN chain : chain[i] = c

After(chain, c) ==
    IF Position(chain, c) = Len(chain) THEN EOC ELSE chain[Position(chain, c) + 1]

FatEntry(c) ==
    card.high * RESERVED +
        IF c \in ToSet(card.root) THEN After(card.root, c)
        ELSE IF c \in ToSet(card.file) THEN After(card.file, c)
        ELSE 0

Contents == [p \in 1 .. card.size |-> p - 1]

Cell(chain, contents, c, n) ==
    LET p == (Position(chain, c) - 1) * ClusterCells + n IN
    IF p < Len(contents) THEN contents[p + 1] ELSE "slack"

(* Both copies of the FAT are the same.                                    *)
Cells(lba) ==
    [k \in 0 .. SECTOR - 1 |->
        IF lba < FirstData
        THEN FatEntry(((lba - FirstFat) % card.boot.fat_size) * SECTOR + k)
        ELSE LET c == 2 + ((lba - FirstData) \div card.boot.sectors_per_cluster)
                 n == ((lba - FirstData) % card.boot.sectors_per_cluster) * SECTOR + k
             IN  IF c \in ToSet(card.root) THEN Cell(card.root, card.directory, c, n)
                 ELSE IF c \in ToSet(card.file) THEN Cell(card.file, Contents, c, n)
                 ELSE "slack"]
=============================================================================
