SPECIFICATION FairSpec
CONSTANTS
    Messages <- MCMessages
    BufLen = 132
    CharSigned = TRUE
INVARIANTS PacketsTrue
PROPERTIES GoodPacketRead ReaderFinishes
