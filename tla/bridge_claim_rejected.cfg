\* The STM32 may answer a CLAIM with ERROR.
SPECIFICATION Spec
CONSTANTS
    Conn = {c1, c2}
    NoConn = NoConn
    MaxConn = 2
    TxQueueLen = 2
    MaxDown = 2
    Env = {"contend", "reject"}
INVARIANT SetsComeFromHolder
