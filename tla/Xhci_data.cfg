CONSTANTS
    RingSize = 3
    NDevices = 1
    Batches <- MCBatches
    Requests <- MCRequests
SPECIFICATION MCSpec
INVARIANTS
    DoorbellReturns
CHECK_DEADLOCK FALSE
