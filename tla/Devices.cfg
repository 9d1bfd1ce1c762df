CONSTANTS
    N = 2
    MemSize <- MCMemSize
    PortSize <- MCPortSize
    Mem64 = {2}
    HALF = 6
    EcfgBase = 4
    EcfgSize = 2
    PORTS = 2
    MaxVms = 2
    UartFifo = 2
    MaxTyped = 2
    ModemBits = {"loop", "out1"}
    KbdcFifo = 2
    PS2KBD_FIFOSZ = 2
    PS2MOUSE_FIFOSZ = 4
    CommandBytes <- MCCommandBytes
    MaxRx = 2
    MaxInput = 1
    MaxCtl = 3
    MaxNow = 3
    MaxTime = 5
    Dates = {2}
    Minute = 2
    Century = 2
    Rates = {0, 1, 2}
SPECIFICATION MCSpec
CHECK_DEADLOCK FALSE
INVARIANTS
    AccessRouted
    UartSound
    ConsoleSound
    RtcSound
PROPERTIES
    KbdServed
    AlarmNotSkipped
