SPECIFICATION Spec
CONSTANTS
    Byte <- MCByte
    SYNC = 1
    MaxLen = 2
    Crc <- MCCrc
    Uint8 = 4
    Packets <- MCPackets
    BufSizes <- MCBufSizes
INVARIANTS TypeOK ForwardsWhatParses Delivered NoOverflow Recovers
