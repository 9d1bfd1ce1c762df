CONSTANTS
    RingSize = 3
    NDevices = 2
    Batches <- MCBatches
    Requests <- MCRequests
SPECIFICATION MCSpec
INVARIANTS
    EventsSeen
    SlotAgrees
PROPERTIES
    Answered
CHECK_DEADLOCK FALSE
