\* One handle, one peer and one bond more than there can be.  The device really
\* stops when al1_ble_start fails.
SPECIFICATION DeviceSpec
CONSTANTS
    Conn = {c1, c2, c3}
    NoConn = NoConn
    MaxConn = 2
    Peer = {p1, p2, p3}
    NoPeer = NoPeer
    MaxBonds = 2
    Fails = {"delete", "evict", "clear"}
INVARIANTS DeviceTypeOK KeepsAdvertising LinksAreServed
PROPERTIES ClaimsSurviveInit PairingSaves BondsEndure RetriesEnd
CHECK_DEADLOCK FALSE
