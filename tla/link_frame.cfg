SPECIFICATION Spec
CONSTANTS
    Radix = 3
    SYNC = 2
    VERSION = 1
    MaxPayload = 3
    CrcInit = 8
    CrcUpdate <- MCCrcUpdate
    Frames <- MCFrames
INVARIANTS TypeOK Delivered Recovers ConsistentCrc
