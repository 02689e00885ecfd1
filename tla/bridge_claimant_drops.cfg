\* Clients take turns, but a link may drop while its CLAIM is under way.
SPECIFICATION FairSpec
CONSTANTS
    Conn = {c1, c2}
    NoConn = NoConn
    MaxConn = 2
    TxQueueLen = 2
    MaxDown = 2
    Env = {"impatient"}
PROPERTY SessionEndsWithLinks
