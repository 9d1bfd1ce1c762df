CONSTANTS
    d1 = d1  d2 = d2  p1 = p1
    Devs = {d1, d2}
    Pins = {p1}
    Irqs = {2, 5, 6}
    Permitted = {5, 6}
    PirqPin <- MCShared
    Threads = {t1, t2}
    Vcpu = Vcpu  DIS = DIS  Nobody = Nobody  NoDev = NoDev
    NDevs = 10
    Slots = {1, 2, 3}
    MaxBoots = 3
    Count = 2
    Msgs = {0, 1}
    PageUnits = 2
    BarPages = 4
SPECIFICATION MCSpec
INVARIANTS
    ControllersFollow
    RouteSound
    PtSound
PROPERTIES
    LinesArrive
