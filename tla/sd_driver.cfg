\* Loads in sequence, with cards that are moved and commands that get lost.
SPECIFICATION Spec
CONSTANTS
    NULL = NULL
    SECTOR = 2
    EOC = 8
    RESERVED = 16
    CMD0_TRIES = 2
    ACMD41_TRIES = 2
    FAT32_SECTOR_SIZE = 4
    READS = 3
    HEADER_SIZE = 2
    Cards <- Small
    Swapped <- Pulled
    Characters <- SomeCharacters
    Capitals <- TwoCapitals
    Names <- SomeNames
INVARIANTS TypeOK FindsListed ReadsRange NamesCause
PROPERTIES RightSector Ends
