SPECIFICATION Spec
CONSTANTS
    QSZ = 2
    IDXMOD = 4
    MaxResets = 1
INVARIANTS
    ChainOnce
    InterruptSeen
PROPERTY ChainReturned
