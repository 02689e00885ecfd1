\* The link is started, fails to start, is stopped and started again.
\* A tick is 50 ms.
SPECIFICATION FairSpec
CONSTANTS
    TxQueueLen = 2
    Timeout = 2
    Busy = 1
    StopDelay = 4
    SeqMod = 3
    MaxStarts = 2
    Fails = {"create_rx", "alloc"}
INVARIANTS TypeOK NoUseAfterFree OneReader NoLeak GapsAreDrops
PROPERTY ShutsDown
