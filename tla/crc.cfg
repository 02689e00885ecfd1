SPECIFICATION TableSpec
CONSTANTS
    Algs <- MCAlgs
    Messages <- MCMessages
    ByteErrors <- MCByteErrors
    CheckErrors <- MCCheckErrors
INVARIANTS TypeOK DetectsBursts TableIsLoop
CHECK_DEADLOCK FALSE
