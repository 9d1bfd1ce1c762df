CONSTANTS
    NSlots = 2
    Reqs = 3
    DiskCmds <- MCDiskCmds
    CdCmds <- MCCdCmds
    AfterOverlap <- MCAfterOverlap
    NPorts = 3
    NMsgs = {0, 1, 2, 4}
    Causes = {c1}
    IovMax = 3
    Sect = 3
    MaxPrdt = 5
    MaxEntry = 3
    MaxLen = 4
SPECIFICATION MCSpec
INVARIANTS
    OneRequestPerSlot
    DoneMeansQuiet
    CauseAnnounced
    TransferExact
PROPERTY CommandsEnd
CHECK_DEADLOCK FALSE
