CONSTANTS
    Events = {e1, e2}
    Pipe = Pipe
    MEVENT_MAX = 2
    MaxPipe = 3
    MaxDescs = 2
    MaxBoots = 2
    MaxOffer = 2
    QSize = 2
    IndexModulo = 4
    TableSize = 2
    VQ_MAX_DESCRIPTORS = 3
    NIov = 2
SPECIFICATION MCSpec
CHECK_DEADLOCK FALSE
INVARIANTS
    EventsLive
    NetSafe
    VbskServed
    ChainWalked
PROPERTIES
    LoopAnswers
    NetAnswers
