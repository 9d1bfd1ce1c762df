CONSTANTS
    t1 = t1  t2 = t2  e1 = e1  e2 = e2  e3 = e3  e4 = e4  r1 = r1  r2 = r2  r3 = r3
    Threads <- MCThreads
    Elems <- MCElems
    Requests <- MCRequests
    Offsets = {0, 1}
    Lengths = {1}
    FlushBlock = 128
    Caller = Caller
    Submitters <- WithCallbacks
    Nobody = Nobody  NoReq = NoReq  NoElem = NoElem
SPECIFICATION Spec
SYMMETRY MCSymmetry
INVARIANTS
    BlockedBehind
    WorkerAwake
    OneCallback
    CloseDrains
    RoomWithinRing
PROPERTY
    ImplementsService
