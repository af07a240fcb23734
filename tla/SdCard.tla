------------------------------- MODULE SdCard -------------------------------
(***************************************************************************)
(* The SD card protocol of sddrv.c over SPI: bringing a card up and        *)
(* reading a sector, one step per command.  A step holds what sd_command   *)
(* does for it: select, the six bytes, the wait for the answer, and the    *)
(* deselect on each way out.  The card's side is external.                 *)
(*                                                                         *)
(* Definitions named <function>_<fault> are wrong versions of a function,  *)
(* kept to show which property notices the fault.                          *)
(***************************************************************************)
EXTENDS Volume

CONSTANTS
    CMD0_TRIES,         \* 10
    ACMD41_TRIES,       \* 5000
    FAT32_SECTOR_SIZE   \* the bytes of a sector, 512

ASSUME TriesAssumption ==
    /\ CMD0_TRIES \in Nat \ {0} /\ ACMD41_TRIES \in Nat \ {0}
    /\ FAT32_SECTOR_SIZE \in Nat \ {0}

VARIABLES
    step,       \* the command sd_card_init sends next; or how it returned
    tries, version2,
    sd_block_addressing,
    speed,      \* of SPI: "slow" (SD_INITIAL_DIVIDER) or "fast"
    slot,       \* the card's side: see Modes
    noise       \* history: a command was lost or the card moved during the load

(* A card starts in "native" mode and is "idle" after CMD0 until it is     *)
(* "ready".  slot.busy counts the ACMD41 it will still put off, slot.app   *)
(* says that CMD55 came last, slot.length is the block length of CMD17.    *)
Modes == {"absent", "native", "idle", "ready"}

Silence == -1   \* no answer within SD_COMMAND_WAIT_COUNT bytes
-----------------------------------------------------------------------------
(* The card's side.  R1 is 1 for idle, 4 for an illegal command, 8 for a   *)
(* damaged one, 32 for a bad address, or a sum of these.                   *)
HCS == 2 ^ 30

R1 == IF slot.mode = "idle" THEN 1 ELSE 0

Hears(c) ==
    /\ slot.mode # "absent"
    /\ slot.mode = "native" => c = "CMD0"
    /\ slot.mode # "ready" => speed = "slow"

HighCapacity == card.kind = "SDHC"

PutsOff(argument) == slot.busy > 0 \/ (HighCapacity /\ argument # HCS)

BadAddress(argument) == ~HighCapacity /\ argument % slot.length # 0

Answer(c, argument) ==
    LET answer(r1, s) == [r1 |-> r1, slot |-> [s EXCEPT !.app = (c = "CMD55")]]
        illegal       == answer(R1 + 4, slot)
    IN  CASE c = "CMD0" ->
               answer(1, [mode |-> "idle", busy |-> card.busy, app |-> FALSE,
                          length |-> card.block_length])
          [] c = "CMD8" ->
               IF card.kind \in {"SDSC1", "MMC"} THEN illegal ELSE answer(R1, slot)
          [] c = "CMD55" ->
               IF card.kind = "MMC" THEN illegal ELSE answer(R1, slot)
          [] c = "ACMD41" ->
               IF ~slot.app THEN illegal
               ELSE IF slot.mode = "idle" /\ PutsOff(argument)
                    THEN answer(1, [slot EXCEPT !.busy = Max({@ - 1, 0})])
                    ELSE answer(0, [slot EXCEPT !.mode = "ready"])
          [] c = "CMD58" -> answer(R1, slot)
          [] c = "CMD16" ->
               IF slot.mode = "idle" THEN illegal
               ELSE answer(0, [slot EXCEPT !.length = argument])
          [] c = "CMD17" ->
               IF slot.mode = "idle" THEN illegal
               ELSE answer(IF BadAddress(argument) THEN 32 ELSE 0, slot)

(* A command that is damaged or lost on the wire leaves the card as it is. *)
Lost == {[r1 |-> r1, slot |-> slot] : r1 \in {Silence, R1 + 8}}

(* The bytes go out, and R1 or silence comes back.                         *)
sd_command(c, argument, response) ==
    \/ /\ Hears(c)
       /\ LET a == Answer(c, argument) IN response = a.r1 /\ slot' = a.slot
       /\ UNCHANGED noise
    \/ ~Hears(c) /\ response = Silence /\ UNCHANGED <<slot, noise>>
    \/ /\ slot.mode # "absent"
       /\ \E a \in Lost : response = a.r1 /\ slot' = a.slot
       /\ noise' = TRUE

Responses == {Silence, 0, 1, 4, 5, 8, 9, 32}
-----------------------------------------------------------------------------
(* sd_card_init.                                                           *)
spi_set_speed(s) == speed' = s

init_returns(how) == step' = how /\ UNCHANGED <<tries, version2, sd_block_addressing, speed>>

send(c) == step' = c /\ UNCHANGED <<version2, sd_block_addressing, speed>>

begin_init_keeps_mode ==
    /\ step = "begin"
    /\ spi_set_speed("slow")
    /\ step' = "CMD0" /\ tries' = 0 /\ version2' = FALSE
    /\ UNCHANGED <<sd_block_addressing, slot, noise>>

(* The slow clock, and 80 clocks with the chip deselected.                 *)
begin_init ==
    /\ step = "begin"
    /\ sd_block_addressing' = FALSE
    /\ spi_set_speed("slow")
    /\ step' = "CMD0" /\ tries' = 0 /\ version2' = FALSE
    /\ UNCHANGED <<slot, noise>>

(* The loops around CMD0 and around CMD55 with ACMD41: once more with c,   *)
(* unless that was the last of its tries.                                  *)
retry(c, limit) ==
    \/ tries + 1 < limit /\ tries' = tries + 1 /\ send(c)
    \/ tries + 1 >= limit /\ init_returns("failed")

cmd0(response) ==
    \/ response = Silence /\ init_returns("failed")
    \/ response = 1 /\ tries' = 0 /\ send("CMD8")
    \/ response \notin {Silence, 1} /\ retry("CMD0", CMD0_TRIES)

illegal_command(response) == (response \div 4) % 2 = 1

(* The four bytes of R7 echo the voltage, unless the card cannot take it.  *)
cmd8(response) ==
    \/ /\ response = 1 /\ card.kind # "low_voltage"
       /\ version2' = TRUE /\ step' = "CMD55"
       /\ UNCHANGED <<tries, sd_block_addressing, speed>>
    \/ response = 1 /\ card.kind = "low_voltage" /\ init_returns("failed")
    \/ response \notin {Silence, 1} /\ illegal_command(response) /\ UNCHANGED tries /\ send("CMD55")
    \/ /\ response # 1 /\ (response = Silence \/ ~illegal_command(response))
       /\ init_returns("failed")

cmd55(response) ==
    \/ response = Silence /\ init_returns("failed")
    \/ response > 1 /\ retry("CMD55", ACMD41_TRIES)
    \/ response \in {0, 1} /\ UNCHANGED tries /\ send("ACMD41")

acmd41_argument == IF version2 THEN HCS ELSE 0

acmd41(response) ==
    \/ response = Silence /\ init_returns("failed")
    \/ response = 0 /\ tries' = 0 /\ send("CMD58")
    \/ response \notin {Silence, 0} /\ retry("CMD55", ACMD41_TRIES)

cmd58(response) ==
    \/ response # 0 /\ init_returns("failed")
    \/ /\ response = 0 /\ version2 /\ HighCapacity      \* the OCR's bit 30
       /\ sd_block_addressing' = TRUE
       /\ spi_set_speed("fast") /\ step' = "done"
       /\ UNCHANGED <<tries, version2>>
    \/ response = 0 /\ ~(version2 /\ HighCapacity) /\ UNCHANGED tries /\ send("CMD16")

cmd16(response) ==
    \/ response # 0 /\ init_returns("failed")
    \/ /\ response = 0
       /\ spi_set_speed("fast") /\ step' = "done"
       /\ UNCHANGED <<tries, version2, sd_block_addressing>>

sd_card_init ==
    /\ \/ begin_init
       \/ \E r \in Responses : step = "CMD0"   /\ sd_command("CMD0", 0, r) /\ cmd0(r)
       \/ \E r \in Responses : step = "CMD8"   /\ sd_command("CMD8", 0, r) /\ cmd8(r)
       \/ \E r \in Responses : step = "CMD55"  /\ sd_command("CMD55", 0, r) /\ cmd55(r)
       \/ \E r \in Responses : step = "ACMD41" /\ sd_command("ACMD41", acmd41_argument, r) /\ acmd41(r)
       \/ \E r \in Responses : step = "CMD58"  /\ sd_command("CMD58", 0, r) /\ cmd58(r)
       \/ \E r \in Responses : step = "CMD16"  /\ sd_command("CMD16", FAT32_SECTOR_SIZE, r) /\ cmd16(r)
    /\ UNCHANGED <<disk, sector_buffer>>
-----------------------------------------------------------------------------
(* sd_read_sector.                                                         *)
address_always_bytes(lba) == lba * FAT32_SECTOR_SIZE

address(lba) == IF sd_block_addressing THEN lba ELSE lba * FAT32_SECTOR_SIZE

(* The sector a card sends for an argument it accepts.                     *)
Addressed(argument) ==
    IF HighCapacity THEN argument ELSE argument \div FAT32_SECTOR_SIZE

(* CMD17 is answered with silence, an error or 0; after 0 the card sends   *)
(* the block, or an error token, or nothing within SD_TOKEN_WAIT_COUNT     *)
(* bytes.                                                                  *)
sd_read_sector(lba) ==
    /\ disk = "idle" /\ lba # NULL
    /\ \/ \E r \in Responses :
            /\ sd_command("CMD17", address(lba), r)
            /\ \/ r # 0 /\ disk' = "failed" /\ UNCHANGED sector_buffer
               \/ r = 0 /\ disk' = "read" /\ sector_buffer' = Addressed(address(lba))
       \/ /\ Hears("CMD17") /\ slot' = Answer("CMD17", address(lba)).slot
          /\ noise' = TRUE
          /\ disk' = "failed" /\ UNCHANGED sector_buffer
    /\ UNCHANGED <<step, tries, version2, sd_block_addressing, speed>>
-----------------------------------------------------------------------------
(* The user's hand.                                                        *)
Unpowered(mode) == [mode |-> mode, busy |-> 0, app |-> FALSE, length |-> 1]

pull == slot.mode # "absent" /\ slot' = Unpowered("absent")

insert == slot.mode = "absent" /\ slot' = Unpowered("native")
=============================================================================
