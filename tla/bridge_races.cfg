\* Every freedom of the environment at once.
SPECIFICATION Spec
CONSTANTS
    Conn = {c1, c2}
    NoConn = NoConn
    MaxConn = 2
    TxQueueLen = 1
    MaxDown = 2
    Env = {"pipeline", "impatient", "contend", "reject", "loss"}
SYMMETRY ConnSymmetry
INVARIANTS TypeOK TablesAgree PendingIsLive ControlWasClaimed
PROPERTY SessionSpec
