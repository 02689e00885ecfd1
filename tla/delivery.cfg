\* Two links, frames of up to three chunks.
SPECIFICATION Spec
CONSTANTS
    Conn = {c1, c2}
    NoConn = NoConn
    MaxConn = 2
    MaxLen = 3
    MaxChunk = 2
INVARIANTS TypeOK Delivered
PROPERTY ReceiverReturns
