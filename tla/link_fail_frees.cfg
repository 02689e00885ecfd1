\* tx_task cannot be created.
\* A tick is 50 ms.
SPECIFICATION Spec
CONSTANTS
    TxQueueLen = 2
    Timeout = 2
    Busy = 1
    StopDelay = 4
    SeqMod = 3
    MaxStarts = 2
    Fails = {"create_tx"}
INVARIANT NoUseAfterFree
