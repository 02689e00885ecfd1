\* Clients take turns.
SPECIFICATION FairSpec
CONSTANTS
    Conn = {c1, c2}
    NoConn = NoConn
    MaxConn = 2
    TxQueueLen = 2
    MaxDown = 2
    Env = {"contend"}

INVARIANTS Agreement SetsComeFromHolder SessionNeverLeaks
PROPERTY DroppedHolderIsReleased
