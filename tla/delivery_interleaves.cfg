\* One link is enough.
SPECIFICATION Spec
CONSTANTS
    Conn = {c1}
    NoConn = NoConn
    MaxConn = 1
    MaxLen = 2
    MaxChunk = 1
INVARIANT Contiguous
