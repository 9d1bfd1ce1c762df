------------------------------ MODULE BusProofs ------------------------------
(***************************************************************************)
(* The decoding of MMIO and port accesses for any number of devices and    *)
(* VMs: an invariant of the tree, the cache and the port table, kept by    *)
(* every move and switch of a BAR, from which an address has one owner.    *)
(***************************************************************************)
EXTENDS MCBus, TLAPS

-----------------------------------------------------------------------------
(* The invariant, and the state a VM starts in. *)

\* The range of the extended configuration window.
Window == Node(ECFG, EcfgBase, EcfgSize)

\* Types; the cache holds no range of a VM that is still to come.
BusTypes ==
    /\ vm \in Nat \ {0} /\ bar \in [Devices -> Int] /\ iobar \in [Devices -> Ports]
    /\ memen \in [Devices -> BOOLEAN] /\ porten \in [Devices -> BOOLEAN]
    /\ hint.vm \in Int /\ hint.vm <= vm /\ (hint.vm = 0 => hint = NoHint)
    /\ ports \in [Ports -> 0 .. N]
    /\ \A n \in tree : n.base \in Int /\ n.end \in Int

\* What is in the tree: the window, and ranges that are decoded; all of these,
\* unless two of them overlapped.
TreeOwned ==
    /\ Window \in tree
    /\ pc = "idle" => \A n \in tree : n = Window \/ \E d \in Devices : memen[d] /\ n = MemRange(d)
    /\ pc = "idle" /\ ~clash => \A d \in Devices : memen[d] => MemRange(d) \in tree

\* The inductive invariant.
BusInv == BusTypes /\ TreeDisjoint /\ TreeOwned /\ HintCurrent /\ PortsRouted /\ AssertionsHold

\* What init_mem, init_inout and init_pci leave.
Booted ==
    /\ vm \in Nat \ {0} /\ bar = AllocAddr(MemSize) /\ iobar = AllocAddr(PortSize)
    /\ memen = AllOn /\ porten = AllOn /\ tree = BootTree(vm) /\ ports = BootPorts /\ ~clash /\ pc = "idle"

\* The invariant but for the cache, which a reset leaves alone.
BootGood ==
    /\ bar \in [Devices -> Int] /\ iobar \in [Devices -> Ports]
    /\ memen \in [Devices -> BOOLEAN] /\ porten \in [Devices -> BOOLEAN]
    /\ ports \in [Ports -> 0 .. N]
    /\ \A n \in tree : n.base \in Int /\ n.end \in Int
    /\ TreeDisjoint /\ TreeOwned /\ PortsRouted /\ AssertionsHold

\* The ranges the allocator hands out are apart, so each is in the tree and each
\* port has one handler (pci_emul_alloc_resource, register_bar).
LEMMA BootState == Booted => BootGood
<1> SUFFICES ASSUME Booted PROVE BootGood
    OBVIOUS
<1> USE DEF Booted
<1> DEFINE mem == AllocAddr(MemSize)
           io == AllocAddr(PortSize)
<1>1. /\ mem \in [Devices -> Nat] /\ io \in [Devices -> Ports]
      /\ \A d \in Devices : Apart(mem[d], MemSize[d], EcfgBase, EcfgSize)
      /\ \A d, e \in Devices : d # e => /\ Apart(mem[d], MemSize[d], mem[e], MemSize[e])
                                        /\ Apart(io[d], PortSize[d], io[e], PortSize[e])
      BY BootAssumption
<1>2. tree = {NodeOf(d, mem[d], MemSize[d], vm) : d \in Devices} \union {NodeOf(ECFG, EcfgBase, EcfgSize, vm)}
      BY DEF BootTree
<1>3. bar = mem /\ iobar = io
      OBVIOUS
<1>4. ports = [q \in Ports |-> IF \E d \in Devices : q \in PortRange(d, io[d])
                               THEN CHOOSE d \in Devices : q \in PortRange(d, io[d]) ELSE NOBODY]
      BY DEF BootPorts
<1> HIDE DEF mem, io
<1>5. memen \in [Devices -> BOOLEAN] /\ porten \in [Devices -> BOOLEAN]
      BY DEF AllOn
<1>6. TreeDisjoint
  <2> SUFFICES ASSUME NEW m \in tree, NEW n \in tree
               PROVE  n.vm = vm /\ (m # n => ~Overlap(m, n))
      BY DEF TreeDisjoint
  <2>1. \A x \in tree : \/ x = NodeOf(ECFG, EcfgBase, EcfgSize, vm)
                         \/ \E d \in Devices : x = NodeOf(d, mem[d], MemSize[d], vm)
        BY <1>2
  <2>2. n.vm = vm
        BY <2>1 DEF NodeOf
  <2>3. CASE m = NodeOf(ECFG, EcfgBase, EcfgSize, vm)
        BY <1>1, <2>1, <2>3, BusAssumption DEF NodeOf, Overlap, Apart
  <2>4. ASSUME NEW d \in Devices, m = NodeOf(d, mem[d], MemSize[d], vm) PROVE m # n => ~Overlap(m, n)
        BY <1>1, <2>1, <2>4, BusAssumption DEF NodeOf, Overlap, Apart
  <2> QED
      BY <2>1, <2>2, <2>3, <2>4
<1>7. TreeOwned
      BY <1>2, <1>3 DEF TreeOwned, Window, Node, MemRange, AllOn
<1>8. ASSUME NEW q \in Ports, NEW d \in Devices
      PROVE  ports[q] = d <=> q \in PortRange(d, io[d])
  <2>1. d # NOBODY
        BY DEF Devices, NOBODY
  <2>2. \A e, f \in Devices : q \in PortRange(e, io[e]) /\ q \in PortRange(f, io[f]) => e = f
        BY <1>1, BusAssumption DEF PortRange, Apart, Ports
  <2> QED
      BY <1>4, <2>1, <2>2
<1>9. ports \in [Ports -> 0 .. N]
      BY <1>4, BusAssumption DEF Devices, NOBODY
<1>10. PortsRouted
       BY <1>3, <1>8 DEF PortsRouted, AllOn
<1>11. \A n \in tree : n.base \in Int /\ n.end \in Int
       BY <1>1, <1>2, BusAssumption DEF NodeOf
<1> QED
    BY <1>1, <1>3, <1>5, <1>6, <1>7, <1>9, <1>10, <1>11 DEF AssertionsHold, BootGood

\* The first VM starts with an empty cache.
LEMMA BusInit == Init => BusInv
<1> SUFFICES ASSUME Init PROVE BusInv
    OBVIOUS
<1>1. BootGood
      BY BootState DEF Init, Booted
<1>2. HintCurrent /\ hint.vm = 0 /\ hint = NoHint /\ vm = 1
      BY DEF Init, HintCurrent, NoHint
<1>3. BusTypes
      BY <1>1, <1>2 DEF BootGood, BusTypes
<1> QED
    BY <1>1, <1>2, <1>3 DEF BusInv, BootGood

\* Another VM starts with the cache of the one before, which is not its own.
LEMMA ResetStep == BusInv /\ VmReset => BusInv'
<1> SUFFICES ASSUME BusInv, VmReset PROVE BusInv'
    OBVIOUS
<1>1. Booted'
      BY DEF VmReset, Booted, BusInv, BusTypes
<1>2. BootGood'
      BY <1>1, BootState, PTL
<1>3. vm' = vm + 1 /\ hint' = hint /\ vm \in Nat \ {0} /\ hint.vm <= vm /\ hint.vm \in Int
      BY DEF VmReset, BusInv, BusTypes
<1>4. HintCurrent'
      BY <1>3 DEF HintCurrent
<1>5. BusTypes'
      BY <1>2, <1>3 DEF BootGood, BusTypes, BusInv
<1> QED
    BY <1>2, <1>4, <1>5 DEF BusInv, BootGood

-----------------------------------------------------------------------------
(* What registering and unregistering a BAR does. *)

\* register_mem inserts a range only where nothing overlaps it, and always there.
LEMMA Registered ==
    ASSUME NEW t, NEW n, n.base \in Int, n.end \in Int, n.base <= n.end,
           \A m \in t : m.base \in Int /\ m.end \in Int,
           \A m, k1 \in t : m # k1 => ~Overlap(m, k1),
           NEW x, x = register_mem(t, n)
    PROVE  /\ t \subseteq x.tree /\ x.tree \subseteq t \union {n}
           /\ \A m, k1 \in x.tree : m # k1 => ~Overlap(m, k1)
           /\ (~\E m \in t : Overlap(m, n)) => x.ok /\ n \in x.tree
<1>1. \A m \in t : Covers(m, n.base) => Overlap(m, n)
      BY DEF Covers, Overlap
<1>2. CASE \E m \in t : Overlap(m, n)
      BY <1>2 DEF register_mem
<1>3. CASE ~\E m \in t : Overlap(m, n)
  <2>1. x.ok /\ x.tree = t \union {n}
        BY <1>1, <1>3 DEF register_mem, mmio_rb_lookup
  <2>2. \A m \in t : ~Overlap(m, n) /\ ~Overlap(n, m)
        BY <1>3 DEF Overlap
  <2> QED
      BY <2>1, <2>2
<1> QED
    BY <1>2, <1>3

\* A memory BAR leaves the tree or enters it, or both (modify_bar_registration).
LEMMA Moved ==
    ASSUME BusInv, pc = "idle", NEW d \in Devices, NEW a \in Int,
           NEW old, NEW new, old = NoHint \/ (memen[d] /\ old = MemRange(d)),
           new = NoHint \/ new = Node(d, a, MemSize[d]),
           NEW x, x = MemMoved(d, old, new)
    PROVE  /\ \A n \in tree : n # old => n \in x.tree
           /\ \A n \in x.tree : (n \in tree /\ (old # NoHint => n # old)) \/ (n = new /\ new # NoHint)
           /\ \A n \in x.tree : n.base \in Int /\ n.end \in Int /\ n.vm = vm
           /\ \A m, n \in x.tree : m # n => ~Overlap(m, n)
           /\ ~clash /\ ~x.clash => x.ok /\ (new # NoHint => new \in x.tree)
<1> DEFINE o == IF old = NoHint THEN [ok |-> TRUE, tree |-> tree] ELSE unregister_mem(tree, old)
           y == IF new = NoHint THEN o ELSE register_mem(o.tree, new)
<1>1. /\ x.tree = y.tree
      /\ x.ok <=> o.ok /\ y.ok
      /\ x.clash <=> new # NoHint /\ \E m \in o.tree : Overlap(m, new)
      BY Zenon DEF MemMoved
<1>2. /\ o.tree \subseteq tree
      /\ \A n \in tree : n # old => n \in o.tree
      /\ \A n \in o.tree : old # NoHint => n # old
      BY DEF unregister_mem
<1>3. ~clash => o.ok
      BY Zenon DEF unregister_mem, BusInv, TreeOwned
<1>4. /\ \A m \in o.tree : m.base \in Int /\ m.end \in Int /\ m.vm = vm
      /\ \A m, n \in o.tree : m # n => ~Overlap(m, n)
      BY <1>2 DEF BusInv, BusTypes, TreeDisjoint
<1> HIDE DEF o
<1>5. CASE new = NoHint
      BY <1>1, <1>2, <1>3, <1>4, <1>5
<1>6. CASE new # NoHint
  <2>1. new.base \in Int /\ new.end \in Int /\ new.base <= new.end /\ new.vm = vm
        BY <1>6, BusAssumption DEF Node, NodeOf
  <2>2. y = register_mem(o.tree, new)
        BY <1>6
  <2> HIDE DEF y
  <2>3. /\ o.tree \subseteq y.tree /\ y.tree \subseteq o.tree \union {new}
        /\ \A m, n \in y.tree : m # n => ~Overlap(m, n)
        /\ (~\E m \in o.tree : Overlap(m, new)) => y.ok /\ new \in y.tree
        BY <1>4, <2>1, <2>2, Registered
  <2> QED
      BY <1>1, <1>2, <1>3, <1>4, <1>6, <2>1, <2>3
<1> QED
    BY <1>5, <1>6

\* Where an access through the window leaves the cache, and a port access does.
LEMMA Cached ==
    ASSUME BusInv, pc = "idle", NEW how, NEW h, h = CachedVia(how)
    PROVE  /\ h = hint \/ h = Window
           /\ h.vm \in Int /\ h.vm <= vm /\ (h.vm = 0 => h = NoHint)
           /\ h.vm = vm => /\ h \in tree
                           /\ h.owner \in Devices => memen[h.owner] /\ h = MemRange(h.owner)
<1>1. h = hint \/ h = Window
      BY DEF CachedVia, Window
<1>2. Window.vm = vm /\ Window.owner \notin Devices /\ Window \in tree
      BY BusAssumption DEF Window, Node, NodeOf, Devices, ECFG, BusInv, TreeOwned
<1> QED
    BY <1>1, <1>2 DEF BusInv, BusTypes, HintCurrent

\* The I/O BAR leaves its ports and takes others; the old ones were its own.
LEMMA PortsMovedGood ==
    ASSUME BusInv, pc = "idle", NEW d \in Devices, NEW old \in Ports \union {-1}, NEW new \in Ports \union {-1},
           old = IF porten[d] THEN iobar[d] ELSE -1,
           NEW x, x = PortsMoved(d, old, new)
    PROVE  /\ x.ports \in [Ports -> 0 .. N]
           /\ ~x.clash => x.ok
           /\ x.ok => \A q \in Ports, e \in Devices :
                         x.ports[q] = e <=> IF e = d THEN new >= 0 /\ q \in PortRange(d, new)
                                            ELSE porten[e] /\ q \in PortRange(e, iobar[e])
<1> DEFINE o == IF old < 0 THEN [ok |-> TRUE, ports |-> ports] ELSE unregister_inout(ports, d, old)
           y == IF new < 0 THEN o ELSE register_inout(o.ports, d, new)
<1>1. /\ x.ports = y.ports /\ (x.ok <=> o.ok /\ y.ok)
      /\ x.clash <=> new >= 0 /\ \E q \in PortRange(d, new) : o.ports[q] # NOBODY
      BY Zenon DEF PortsMoved
<1>2. /\ \A q \in Ports, e \in Devices : ports[q] = e <=> porten[e] /\ q \in PortRange(e, iobar[e])
      /\ ports \in [Ports -> 0 .. N] /\ porten \in [Devices -> BOOLEAN] /\ iobar \in [Devices -> Ports]
      /\ d \in 0 .. N /\ NOBODY \in 0 .. N /\ \A e \in Devices : e # NOBODY
      BY BusAssumption DEF BusInv, BusTypes, PortsRouted, Devices, NOBODY
<1>3. porten[d] => iobar[d] \in PortRange(d, iobar[d]) /\ iobar[d] >= 0
      BY <1>2, BusAssumption DEF PortRange, Ports
<1>4. /\ o.ok /\ o.ports \in [Ports -> 0 .. N]
      /\ \A q \in Ports : o.ports[q] = IF porten[d] /\ q \in PortRange(d, iobar[d]) THEN NOBODY ELSE ports[q]
  <2>1. CASE porten[d]
    <3>1. old = iobar[d] /\ o = unregister_inout(ports, d, old) /\ ports[old] = d
          BY <1>2, <1>3, <2>1, BusAssumption DEF Ports
    <3>2. o.ok /\ o.ports = [q \in Ports |-> IF q \in PortRange(d, old) THEN NOBODY ELSE ports[q]]
          BY <3>1, Zenon DEF unregister_inout
    <3> HIDE DEF o
    <3> QED
        BY <1>2, <2>1, <3>1, <3>2
  <2>2. CASE ~porten[d]
        BY <1>2, <2>2
  <2> QED
      BY <2>1, <2>2
<1>5. \A q \in Ports, e \in Devices :
          o.ports[q] = e <=> e # d /\ porten[e] /\ q \in PortRange(e, iobar[e])
      BY <1>2, <1>4
<1> HIDE DEF o
<1>6. new \in Int
      BY BusAssumption DEF Ports
<1>7. CASE new < 0
      BY <1>1, <1>4, <1>5, <1>7, <1>6
<1>8. CASE new >= 0
  <2>1. /\ y.ok <=> \A q \in PortRange(d, new) : o.ports[q] = NOBODY
        /\ y.ports = [q \in Ports |-> IF q \in PortRange(d, new) THEN d ELSE o.ports[q]]
        BY <1>8, <1>6 DEF register_inout
  <2> HIDE DEF y
  <2>2. y.ports \in [Ports -> 0 .. N]
        BY <1>2, <1>4, <2>1
  <2>3. ASSUME y.ok, NEW q \in Ports, NEW e \in Devices
        PROVE  y.ports[q] = e <=> IF e = d THEN q \in PortRange(d, new)
                                  ELSE porten[e] /\ q \in PortRange(e, iobar[e])
    <3>1. CASE q \in PortRange(d, new)
          BY <1>2, <1>5, <2>1, <2>3, <3>1
    <3>2. CASE q \notin PortRange(d, new)
          BY <1>5, <2>1, <3>2
    <3> QED
        BY <3>1, <3>2
  <2> QED
      BY <1>1, <1>4, <1>8, <1>6, <2>1, <2>2, <2>3
<1>9. new < 0 \/ new >= 0
      BY <1>6
<1> HIDE DEF y
<1> QED
    BY <1>7, <1>8, <1>9

\* A step that moves a node, or lets one in or out, and keeps the others and the
\* cache's, keeps what the tree and the cache are.
LEMMA TreeStep ==
    ASSUME BusInv, pc = "idle", NEW d \in Devices, NEW a \in Int, NEW old, NEW new,
           IF memen[d] THEN old = MemRange(d) ELSE old = NoHint,
           new = NoHint \/ new = Node(d, a, MemSize[d]),
           NEW x, x = MemMoved(d, old, new), tree' = x.tree, clash \/ x.clash => clash',
           vm' = vm, bar' \in [Devices -> Int],
           \A e \in Devices : e # d => bar'[e] = bar[e] /\ memen'[e] = memen[e],
           IF new = NoHint THEN ~memen'[d] ELSE memen'[d] /\ bar'[d] = a,
           hint' = NoHint \/ (hint' # old /\ (hint' = hint \/ hint' = Window))
    PROVE  /\ TreeDisjoint' /\ TreeOwned' /\ HintCurrent'
           /\ \A n \in tree' : n.base \in Int /\ n.end \in Int
           /\ hint'.vm \in Int /\ hint'.vm <= vm' /\ (hint'.vm = 0 => hint' = NoHint)
           /\ ~clash' => x.ok
<1> USE DEF BusInv
<1>1. /\ \A n \in tree : n # old => n \in x.tree
      /\ \A n \in x.tree : (n \in tree /\ (old # NoHint => n # old)) \/ (n = new /\ new # NoHint)
      /\ \A n \in x.tree : n.base \in Int /\ n.end \in Int /\ n.vm = vm
      /\ \A m, n \in x.tree : m # n => ~Overlap(m, n)
      /\ ~clash /\ ~x.clash => x.ok /\ (new # NoHint => new \in x.tree)
      BY Moved
<1>2. /\ Window' = Window /\ d # NOBODY /\ d # ECFG /\ ECFG \notin Devices /\ ECFG # NOBODY
      /\ NoHint.owner = NOBODY /\ NoHint.vm = 0 /\ Window.owner = ECFG /\ Window.vm = vm /\ vm \in Nat \ {0}
      /\ \A e \in Devices : MemRange(e).owner = e
      BY BusAssumption DEF Window, Node, NodeOf, NoHint, MemRange, Devices, ECFG, NOBODY, BusTypes
<1>3. \A e \in Devices : e # d => MemRange(e)' = MemRange(e)
      BY DEF MemRange, Node
<1>4. new # NoHint => new = MemRange(d)'
      BY DEF MemRange, Node
<1>5. Window \in tree'
      BY <1>1, <1>2 DEF TreeOwned
<1>6. hint'.vm \in Int /\ hint'.vm <= vm' /\ (hint'.vm = 0 => hint' = NoHint)
      BY <1>2 DEF BusTypes
<1>7. HintCurrent'
  <2> SUFFICES ASSUME hint'.vm = vm'
               PROVE  (hint \in tree /\ (hint.owner \in Devices => memen[hint.owner] /\ hint = MemRange(hint.owner)))'
      BY DEF HintCurrent
  <2>1. CASE hint' = Window
        BY <1>2, <1>5, <2>1
  <2>2. CASE hint' # Window
    <3>1. hint' = hint /\ hint # old /\ hint.vm = vm
          BY <1>2, <2>2
    <3>2. hint \in tree /\ (hint.owner \in Devices => memen[hint.owner] /\ hint = MemRange(hint.owner))
          BY <3>1 DEF HintCurrent
    <3>3. hint.owner # d
          BY <3>1, <3>2
    <3>4. hint.owner \in Devices => MemRange(hint.owner)' = MemRange(hint.owner)
          BY <3>1, <3>3 DEF MemRange, Node
    <3> QED
        BY <1>1, <3>1, <3>2, <3>3, <3>4
  <2> QED
      BY <2>1, <2>2
<1>8. TreeOwned'
  <2>1. ASSUME NEW n \in tree' PROVE n = Window' \/ \E e \in Devices : memen'[e] /\ n = MemRange(e)'
    <3>1. CASE n = new /\ new # NoHint
          BY <1>4, <3>1
    <3>2. CASE ~(n = new /\ new # NoHint)
      <4>1. n \in tree /\ (old # NoHint => n # old)
            BY <1>1, <2>1, <3>2
      <4>2. n = Window \/ \E e \in Devices : e # d /\ memen[e] /\ n = MemRange(e)
            BY <1>2, <4>1 DEF TreeOwned
      <4> QED
          BY <1>2, <1>3, <4>2
    <3> QED
        BY <3>1, <3>2
  <2>2. ASSUME ~clash', NEW e \in Devices, memen'[e] PROVE MemRange(e)' \in tree'
    <3>1. CASE e = d
          BY <1>1, <1>4, <2>2, <3>1
    <3>2. CASE e # d
      <4>1. MemRange(e) \in tree
            BY <2>2, <3>2 DEF TreeOwned
      <4>2. old.owner = d \/ old.owner = NOBODY
            BY <1>2
      <4>3. MemRange(e) # old
            BY <1>2, <3>2, <4>2 DEF Devices, NOBODY
      <4> QED
          BY <1>1, <1>3, <3>2, <4>1, <4>3
    <3> QED
        BY <3>1, <3>2
  <2> QED
      BY <1>2, <1>5, <2>1, <2>2 DEF TreeOwned
<1>9. TreeDisjoint'
      BY <1>1 DEF TreeDisjoint
<1> QED
    BY <1>1, <1>6, <1>7, <1>8, <1>9

-----------------------------------------------------------------------------
(* The steps. *)

\* A write of a memory BAR: while it decodes, its node leaves and comes back.
LEMMA MemBarStep ==
    ASSUME BusInv, NEW d \in Devices, NEW a \in Int, NEW how, WriteMemBar(d, a, how)
    PROVE  BusInv'
<1> USE DEF BusInv
<1>1. /\ pc = "idle" /\ vm' = vm /\ iobar' = iobar /\ memen' = memen /\ porten' = porten /\ ports' = ports
      /\ Window' = Window
      BY DEF WriteMemBar, Hang, Window, Node
<1>2. /\ bar' \in [Devices -> Int]
      /\ \A e \in Devices : e # d => MemRange(e)' = MemRange(e) /\ bar'[e] = bar[e]
      BY <1>1 DEF WriteMemBar, BusTypes, MemRange, Node
<1>3. PortsRouted'
      BY <1>1 DEF PortsRouted
<1>4. CASE ~memen[d]
  <2>1. hint' = CachedVia(how) /\ tree' = tree /\ pc' = pc /\ clash' = clash
        BY <1>4 DEF WriteMemBar
  <2>2. /\ hint'.vm \in Int /\ hint'.vm <= vm /\ (hint'.vm = 0 => hint' = NoHint)
        /\ hint'.vm = vm => /\ hint' \in tree
                            /\ hint'.owner \in Devices => memen[hint'.owner] /\ hint' = MemRange(hint'.owner)
        BY <1>1, <2>1, Cached
  <2>3. BusTypes'
        BY <1>1, <1>2, <2>1, <2>2 DEF BusTypes
  <2>4. HintCurrent'
        BY <1>1, <1>2, <1>4, <2>1, <2>2 DEF HintCurrent
  <2>5. TreeOwned'
        BY <1>1, <1>2, <1>4, <2>1 DEF TreeOwned
  <2> QED
      BY <1>1, <1>3, <2>1, <2>3, <2>4, <2>5 DEF TreeDisjoint, AssertionsHold
<1>5. CASE memen[d] /\ how = "ecfg"
  <2>1. pc' = "hung" /\ hint' = CachedVia(how) /\ tree' = tree /\ clash' = clash
        BY <1>5 DEF WriteMemBar, Hang
  <2>2. hint'.vm \in Int /\ hint'.vm <= vm /\ (hint'.vm = 0 => hint' = NoHint)
        BY <1>1, <2>1, Cached
  <2> QED
      BY <1>1, <1>2, <1>3, <2>1, <2>2 DEF BusTypes, HintCurrent, TreeOwned, TreeDisjoint, AssertionsHold
<1>6. CASE memen[d] /\ how = "port"
  <2> DEFINE old == MemRange(d)
             new == Node(d, a, MemSize[d])
             x == MemMoved(d, old, new)
  <2>1. /\ tree' = x.tree /\ (clash' <=> clash \/ x.clash) /\ Asserted(x.ok) /\ hint' = Flushed(old)
        /\ bar'[d] = a
        BY <1>6, Zenon DEF WriteMemBar, BusTypes
  <2>2. new # NoHint
        BY DEF Node, NodeOf, NoHint, Devices, NOBODY
  <2>3. hint' = NoHint \/ (hint' # old /\ hint' = hint)
        BY <2>1 DEF Flushed
  <2>4. /\ TreeDisjoint' /\ TreeOwned' /\ HintCurrent'
        /\ \A n \in tree' : n.base \in Int /\ n.end \in Int
        /\ hint'.vm \in Int /\ hint'.vm <= vm' /\ (hint'.vm = 0 => hint' = NoHint)
        /\ ~clash' => x.ok
    <3> HIDE DEF x, old, new, BusInv
    <3>1. (IF memen[d] THEN old = MemRange(d) ELSE old = NoHint) /\ new = Node(d, a, MemSize[d])
          BY <1>6 DEF old, new
    <3>2. x = MemMoved(d, old, new)
          BY DEF x
    <3> QED
        BY <1>1, <1>2, <1>6, <2>1, <2>2, <2>3, <3>1, <3>2, TreeStep
  <2>5. AssertionsHold'
        BY <2>1, <2>4 DEF AssertionsHold, Asserted
  <2>6. BusTypes'
        BY <1>1, <1>2, <2>4 DEF BusTypes
  <2> QED
      BY <1>3, <2>4, <2>5, <2>6
<1> QED
    BY <1>4, <1>5, <1>6 DEF WriteMemBar

\* A write of an I/O BAR changes the ports, and the cache if it came through the
\* window.
LEMMA IoBarStep ==
    ASSUME BusInv, NEW d \in Devices, NEW p \in Ports, NEW how, WriteIoBar(d, p, how)
    PROVE  BusInv'
<1> USE DEF BusInv
<1>1. /\ pc = "idle" /\ vm' = vm /\ bar' = bar /\ memen' = memen /\ porten' = porten /\ tree' = tree
      /\ Window' = Window /\ hint' = CachedVia(how) /\ iobar' = [iobar EXCEPT ![d] = p]
      /\ \A e \in Devices : MemRange(e)' = MemRange(e)
      BY DEF WriteIoBar, Window, Node, MemRange
<1>2. iobar' \in [Devices -> Ports]
      BY <1>1 DEF BusTypes
<1>3. /\ hint'.vm \in Int /\ hint'.vm <= vm /\ (hint'.vm = 0 => hint' = NoHint)
      /\ hint'.vm = vm => /\ hint' \in tree
                          /\ hint'.owner \in Devices => memen[hint'.owner] /\ hint' = MemRange(hint'.owner)
      BY <1>1, Cached
<1>4. HintCurrent' /\ TreeDisjoint'
      BY <1>1, <1>3 DEF HintCurrent, TreeDisjoint
<1>5. CASE ~porten[d]
  <2>1. pc' = pc /\ ports' = ports /\ clash' = clash
        BY <1>5 DEF WriteIoBar
  <2>2. PortsRouted'
        BY <1>1, <1>5, <2>1 DEF PortsRouted, BusTypes
  <2> QED
      BY <1>1, <1>2, <1>3, <1>4, <2>1, <2>2 DEF BusTypes, TreeOwned, AssertionsHold
<1>6. CASE porten[d]
  <2> DEFINE x == PortsMoved(d, iobar[d], p)
  <2>1. ports' = x.ports /\ (clash' <=> clash \/ x.clash) /\ Asserted(x.ok)
        BY <1>6, Zenon DEF WriteIoBar
  <2>2. /\ x.ports \in [Ports -> 0 .. N]
        /\ ~x.clash => x.ok
        /\ x.ok => \A q \in Ports, e \in Devices :
                      x.ports[q] = e <=> IF e = d THEN p >= 0 /\ q \in PortRange(d, p)
                                         ELSE porten[e] /\ q \in PortRange(e, iobar[e])
    <3> DEFINE old == iobar[d]
    <3>1. old \in Ports \union {-1} /\ p \in Ports \union {-1} /\ (old = IF porten[d] THEN iobar[d] ELSE -1)
          BY <1>6 DEF BusTypes
    <3>2. x = PortsMoved(d, old, p)
          OBVIOUS
    <3> HIDE DEF x, old, BusInv
    <3> QED
        BY <1>1, <3>1, <3>2, PortsMovedGood
  <2> HIDE DEF x
  <2>3. (pc' = "idle" => x.ok) /\ (~clash' => pc' = "idle" /\ ~clash)
        BY <2>1, <2>2 DEF Asserted
  <2>4. PortsRouted'
    <3> SUFFICES ASSUME pc' = "idle", NEW q \in Ports, NEW e \in Devices
                 PROVE  ports'[q] = e <=> porten'[e] /\ q \in PortRange(e, iobar'[e])
        BY DEF PortsRouted
    <3>1. ports'[q] = e <=> IF e = d THEN p >= 0 /\ q \in PortRange(d, p)
                            ELSE porten[e] /\ q \in PortRange(e, iobar[e])
          BY <2>1, <2>2, <2>3
    <3>2. p >= 0 /\ iobar'[e] = IF e = d THEN p ELSE iobar[e]
          BY <1>1, BusAssumption DEF BusTypes, Ports
    <3> QED
        BY <1>1, <1>6, <3>1, <3>2
  <2>5. BusTypes'
        BY <1>1, <1>2, <1>3, <2>1, <2>2 DEF BusTypes
  <2>6. TreeOwned' /\ AssertionsHold'
        BY <1>1, <2>3 DEF TreeOwned, AssertionsHold
  <2> QED
      BY <1>4, <2>4, <2>5, <2>6
<1> QED
    BY <1>5, <1>6 DEF BusTypes

\* A write of the command register: either kind of decoding, or both, goes on or off.
LEMMA CommandStep ==
    ASSUME BusInv, NEW d \in Devices, NEW m \in BOOLEAN, NEW p \in BOOLEAN, NEW how, WriteCommand(d, m, p, how)
    PROVE  BusInv'
<1> USE DEF BusInv
<1> DEFINE mr == IF m THEN MemMoved(d, NoHint, MemRange(d)) ELSE MemMoved(d, MemRange(d), NoHint)
           pr == IF p THEN PortsMoved(d, -1, iobar[d]) ELSE PortsMoved(d, iobar[d], -1)
           cm == m # memen[d]
           cp == p # porten[d]
<1>1. /\ pc = "idle" /\ vm' = vm /\ bar' = bar /\ iobar' = iobar
      /\ memen' = [memen EXCEPT ![d] = m] /\ porten' = [porten EXCEPT ![d] = p]
      /\ Window' = Window /\ (\A e \in Devices : MemRange(e)' = MemRange(e))
      BY Zenon DEF WriteCommand, Window, Node, MemRange
<1>2. /\ memen' \in [Devices -> BOOLEAN] /\ porten' \in [Devices -> BOOLEAN]
      /\ memen'[d] = m /\ porten'[d] = p
      /\ \A e \in Devices : e # d => memen'[e] = memen[e] /\ porten'[e] = porten[e]
      /\ memen[d] \in BOOLEAN /\ porten[d] \in BOOLEAN
      BY <1>1 DEF BusTypes
<1>3. /\ CachedVia(how) = hint \/ CachedVia(how) = Window
      /\ CachedVia(how).vm \in Int /\ CachedVia(how).vm <= vm /\ (CachedVia(how).vm = 0 => CachedVia(how) = NoHint)
      /\ CachedVia(how).vm = vm =>
            /\ CachedVia(how) \in tree
            /\ CachedVia(how).owner \in Devices =>
                 memen[CachedVia(how).owner] /\ CachedVia(how) = MemRange(CachedVia(how).owner)
      BY <1>1, Cached
<1>4. CASE cm /\ how = "ecfg"
  <2>1. pc' = "hung" /\ hint' = CachedVia(how) /\ tree' = tree /\ ports' = ports /\ clash' = clash
        BY <1>4, Zenon DEF WriteCommand, Changed, Hang
  <2> QED
      BY <1>1, <1>2, <1>3, <2>1 DEF BusTypes, HintCurrent, TreeOwned, TreeDisjoint, AssertionsHold, PortsRouted
<1>5. CASE ~(cm /\ how = "ecfg")
  <2>1. /\ tree' = IF cm THEN mr.tree ELSE tree
        /\ hint' = IF cm /\ ~m THEN Flushed(MemRange(d)) ELSE CachedVia(how)
        /\ ports' = IF cp THEN pr.ports ELSE ports
        /\ clash' <=> clash \/ (cm /\ mr.clash) \/ (cp /\ pr.clash)
        /\ Asserted((cm => mr.ok) /\ (cp => pr.ok))
        BY <1>5, Zenon DEF WriteCommand, Changed
  <2>2. pc' = "idle" \/ pc' = "aborted"
        BY <2>1, Zenon DEF Asserted
  <2>3. (pc' = "idle") <=> (cm => mr.ok) /\ (cp => pr.ok)
        BY <2>1 DEF Asserted
  <2>4. /\ ports' \in [Ports -> 0 .. N]
        /\ cp /\ ~pr.clash => pr.ok
        /\ pc' = "idle" => \A q \in Ports, e \in Devices :
                            ports'[q] = e <=> porten'[e] /\ q \in PortRange(e, iobar[e])
    <3>1. CASE ~cp
          BY <1>1, <1>2, <2>1, <3>1 DEF BusTypes, PortsRouted
    <3>2. CASE cp
      <4> DEFINE old == IF porten[d] THEN iobar[d] ELSE -1
                 new == IF p THEN iobar[d] ELSE -1
      <4>1. pr = PortsMoved(d, old, new)
            BY <1>2, <3>2
      <4>2. /\ old \in Ports \union {-1} /\ new \in Ports \union {-1}
            /\ old = IF porten[d] THEN iobar[d] ELSE -1
            /\ new >= 0 <=> p
            /\ p => new = iobar[d]
            BY <1>2, BusAssumption DEF BusTypes, Ports
      <4> HIDE DEF old, new, pr, cm, cp, mr, BusInv
      <4>3. /\ pr.ports \in [Ports -> 0 .. N]
            /\ ~pr.clash => pr.ok
            /\ pr.ok => \A q \in Ports, e \in Devices :
                          pr.ports[q] = e <=> IF e = d THEN new >= 0 /\ q \in PortRange(d, new)
                                              ELSE porten[e] /\ q \in PortRange(e, iobar[e])
            BY <1>1, <4>1, <4>2, PortsMovedGood
      <4> QED
          BY <1>2, <2>1, <2>3, <3>2, <4>2, <4>3
    <3> QED
        BY <3>1, <3>2
  <2> HIDE DEF pr, cp
  <2>5. PortsRouted'
        BY <1>1, <2>4 DEF PortsRouted
  <2>6. /\ TreeDisjoint' /\ TreeOwned' /\ HintCurrent'
        /\ \A n \in tree' : n.base \in Int /\ n.end \in Int
        /\ hint'.vm \in Int /\ hint'.vm <= vm' /\ (hint'.vm = 0 => hint' = NoHint)
        /\ cm /\ ~clash' => mr.ok
    <3>1. CASE ~cm
      <4>1. tree' = tree /\ hint' = CachedVia(how) /\ (clash => clash')
            BY <2>1, <3>1
      <4>2. \A e \in Devices : memen'[e] = memen[e]
            BY <1>2, <3>1
      <4>3. HintCurrent'
            BY <1>1, <1>3, <4>1, <4>2 DEF HintCurrent
      <4>4. TreeOwned'
            BY <1>1, <4>1, <4>2 DEF TreeOwned
      <4> QED
          BY <1>1, <1>3, <3>1, <4>1, <4>3, <4>4 DEF TreeDisjoint, BusTypes
    <3>2. CASE cm
      <4> DEFINE old == IF memen[d] THEN MemRange(d) ELSE NoHint
                 new == IF m THEN Node(d, bar[d], MemSize[d]) ELSE NoHint
      <4>1. mr = MemMoved(d, old, new)
            BY <1>2, <3>2 DEF MemRange
      <4>2. /\ IF memen[d] THEN old = MemRange(d) ELSE old = NoHint
            /\ new = NoHint \/ new = Node(d, bar[d], MemSize[d])
            OBVIOUS
      <4>3. m <=> new # NoHint
            BY DEF Node, NodeOf, NoHint, Devices, NOBODY
      <4>4. hint' = NoHint \/ (hint' # old /\ (hint' = hint \/ hint' = Window))
        <5>1. CASE m
              BY <1>2, <1>3, <2>1, <3>2, <5>1, Zenon
        <5>2. CASE ~m
              BY <1>2, <2>1, <3>2, <5>2 DEF Flushed
        <5> QED
            BY <5>1, <5>2
      <4>5. bar[d] \in Int /\ bar' \in [Devices -> Int] /\ bar'[d] = bar[d]
            /\ (\A e \in Devices : e # d => bar'[e] = bar[e] /\ memen'[e] = memen[e])
            BY <1>1, <1>2 DEF BusTypes
      <4>6. IF new = NoHint THEN ~memen'[d] ELSE memen'[d] /\ bar'[d] = bar[d]
            BY <1>1, <1>2, <4>3
      <4>7. tree' = mr.tree /\ (clash \/ mr.clash => clash')
            BY <2>1, <3>2
      <4> HIDE DEF old, new, mr, cm, BusInv
      <4>8. /\ TreeDisjoint' /\ TreeOwned' /\ HintCurrent'
            /\ \A n \in tree' : n.base \in Int /\ n.end \in Int
            /\ hint'.vm \in Int /\ hint'.vm <= vm' /\ (hint'.vm = 0 => hint' = NoHint)
            /\ ~clash' => mr.ok
            BY <1>1, <4>1, <4>2, <4>4, <4>5, <4>6, <4>7, TreeStep
      <4> QED
          BY <4>8
    <3> QED
        BY <3>1, <3>2
  <2> HIDE DEF mr, cm
  <2>7. AssertionsHold'
        BY <2>1, <2>2, <2>3, <2>4, <2>6, Zenon DEF AssertionsHold
  <2>8. BusTypes'
        BY <1>1, <1>2, <2>4, <2>6 DEF BusTypes
  <2> QED
      BY <2>5, <2>6, <2>7, <2>8
<1> QED
    BY <1>4, <1>5

\* An access caches a node of the tree.
LEMMA AccessStep == BusInv /\ (\E a \in Addresses : Access(a)) => BusInv'
<1> SUFFICES ASSUME BusInv, NEW a \in Addresses, Access(a) PROVE BusInv'
    OBVIOUS
<1> USE DEF BusInv
<1>1. /\ pc = "idle" /\ vm' = vm /\ pc' = pc /\ bar' = bar /\ iobar' = iobar /\ memen' = memen /\ porten' = porten
      /\ tree' = tree /\ ports' = ports /\ clash' = clash /\ Window' = Window
      /\ \A e \in Devices : MemRange(e)' = MemRange(e)
      BY DEF Access, Window, Node, MemRange
<1>2. hint' = hint \/ hint' \in tree
      BY DEF Access, mmio_rb_lookup
<1>3. /\ \A n \in tree : n.vm = vm /\ vm \in Nat \ {0}
      /\ \A n \in tree : n.owner \in Devices => memen[n.owner] /\ n = MemRange(n.owner)
  <2>1. ECFG \notin Devices /\ Window.owner = ECFG /\ \A e \in Devices : MemRange(e).owner = e
        BY BusAssumption DEF Devices, ECFG, Window, Node, NodeOf, MemRange
  <2>2. \A n \in tree : n = Window \/ \E d \in Devices : memen[d] /\ n = MemRange(d)
        BY <1>1 DEF TreeOwned
  <2>3. \A n \in tree : n.owner \in Devices => memen[n.owner] /\ n = MemRange(n.owner)
        BY <2>1, <2>2
  <2>4. \A n \in tree : n.vm = vm /\ vm \in Nat \ {0}
        BY DEF TreeDisjoint, BusTypes
  <2> QED
      BY <2>3, <2>4
<1>4. HintCurrent'
      BY <1>1, <1>2, <1>3 DEF HintCurrent
<1>5. BusTypes'
      BY <1>1, <1>2, <1>3 DEF BusTypes
<1>6. TreeDisjoint' /\ TreeOwned'
      BY <1>1 DEF TreeDisjoint, TreeOwned
<1>7. PortsRouted' /\ AssertionsHold'
      BY <1>1 DEF PortsRouted, AssertionsHold
<1> QED
    BY <1>4, <1>5, <1>6, <1>7

\* The invariant is about the bus alone.
LEMMA BusStutter == BusInv /\ UNCHANGED vars => BusInv'
<1> SUFFICES ASSUME BusInv, UNCHANGED vars PROVE BusInv'
    OBVIOUS
<1>1. Window' = Window /\ \A e \in Devices : MemRange(e)' = MemRange(e)
      BY DEF vars, Window, Node, MemRange
<1>2. BusTypes' /\ TreeDisjoint' /\ PortsRouted' /\ AssertionsHold'
      BY DEF vars, BusInv, BusTypes, TreeDisjoint, PortsRouted, AssertionsHold
<1>3. TreeOwned'
      BY <1>1 DEF vars, BusInv, TreeOwned
<1>4. HintCurrent'
      BY <1>1 DEF vars, BusInv, HintCurrent
<1> QED
    BY <1>2, <1>3, <1>4 DEF BusInv

\* One case per step of the bus.
LEMMA BusNext == BusInv /\ Next => BusInv'
<1> SUFFICES ASSUME BusInv, Next PROVE BusInv'
    OBVIOUS
<1>1. CASE VmReset
      BY <1>1, ResetStep
<1>2. ASSUME NEW d \in Devices, NEW how, NEW a \in BarValues(d), WriteMemBar(d, a, how) PROVE BusInv'
  <2>1. bar[d] \in Int /\ HALF \in Nat \ {0}
        BY BusAssumption DEF BusInv, BusTypes
  <2>2. a \in Int
        BY <2>1, <1>2 DEF BarValues
  <2> QED
      BY <1>2, <2>2, MemBarStep
<1>3. CASE Stopped
      BY <1>3, BusStutter DEF Stopped
<1> QED
    BY <1>1, <1>2, <1>3, IoBarStep, CommandStep, AccessStep DEF Next

-----------------------------------------------------------------------------
(* The theorem. *)

\* Every address with the device that decodes it: a range of the tree that
\* covers it is the only one.
LEMMA BusImplies == BusInv => HintCurrent /\ BusRouted
<1> SUFFICES ASSUME BusInv PROVE MmioRouted
    BY DEF BusInv, BusRouted
<1> SUFFICES ASSUME pc = "idle", ~clash, hint.vm \in {0, vm}, NEW a \in Addresses
             PROVE  Served(a) = IF \E d \in Devices : Decoded(d, a)
                                THEN CHOOSE d \in Devices : Decoded(d, a)
                                ELSE IF EcfgBase <= a /\ a < EcfgBase + EcfgSize THEN ECFG
                                ELSE IF a < HALF THEN HOLE ELSE NOBODY
    BY DEF MmioRouted
<1> USE DEF BusInv
<1>1. a \in Int
      BY BusAssumption DEF Addresses
<1>2. \A m, n \in tree : Covers(m, a) /\ Covers(n, a) => m = n
      BY <1>1 DEF TreeDisjoint, Covers, Overlap, BusTypes
<1>3. Covers(Window, a) <=> EcfgBase <= a /\ a < EcfgBase + EcfgSize
      BY <1>1, BusAssumption DEF Covers, Window, Node, NodeOf
<1>4. /\ Window \in tree
      /\ \A n \in tree : n = Window \/ \E d \in Devices : memen[d] /\ n = MemRange(d)
      /\ \A d \in Devices : memen[d] => MemRange(d) \in tree
      BY DEF TreeOwned
<1>5. /\ ECFG \notin Devices /\ Window.owner = ECFG
      /\ \A d \in Devices : MemRange(d).owner = d
      BY BusAssumption DEF ECFG, Devices, Window, Node, NodeOf, MemRange
<1>6. \A d \in Devices : Decoded(d, a) <=> memen[d] /\ Covers(MemRange(d), a)
      BY DEF Decoded
<1>7. ASSUME NEW n \in tree, Covers(n, a)
      PROVE  n.owner = IF \E d \in Devices : Decoded(d, a)
                       THEN CHOOSE d \in Devices : Decoded(d, a)
                       ELSE IF EcfgBase <= a /\ a < EcfgBase + EcfgSize THEN ECFG
                       ELSE IF a < HALF THEN HOLE ELSE NOBODY
  <2>1. CASE n = Window
    <3>1. ~\E d \in Devices : Decoded(d, a)
          BY <1>2, <1>4, <1>5, <1>6, <1>7, <2>1
    <3> QED
        BY <1>3, <1>5, <1>7, <2>1, <3>1
  <2>2. ASSUME NEW d \in Devices, memen[d], n = MemRange(d) PROVE n.owner = CHOOSE e \in Devices : Decoded(e, a)
    <3>1. Decoded(d, a) /\ \A e \in Devices : Decoded(e, a) => e = d
          BY <1>2, <1>4, <1>5, <1>6, <1>7, <2>2
    <3> QED
        BY <1>5, <2>2, <3>1
  <2> QED
      BY <1>4, <1>6, <1>7, <2>1, <2>2, Zenon
<1>8. CASE Hit(a)
  <2>1. hint.vm = vm /\ Covers(hint, a)
        BY <1>8 DEF Hit, BusTypes
  <2>2. hint \in tree
        BY <2>1 DEF HintCurrent
  <2> QED
      BY <1>7, <1>8, <2>1, <2>2 DEF Served
<1>9. CASE ~Hit(a) /\ mmio_rb_lookup(tree, a) # {}
  <2>1. (CHOOSE n \in mmio_rb_lookup(tree, a) : TRUE) \in mmio_rb_lookup(tree, a)
        BY <1>9
  <2> QED
      BY <1>7, <1>9, <2>1 DEF Served, mmio_rb_lookup
<1>10. CASE ~Hit(a) /\ mmio_rb_lookup(tree, a) = {}
  <2>1. \A n \in tree : ~Covers(n, a)
        BY <1>10 DEF mmio_rb_lookup
  <2>2. ~\E d \in Devices : Decoded(d, a)
        BY <1>4, <1>6, <2>1
  <2> QED
      BY <1>3, <1>4, <1>10, <2>1, <2>2 DEF Served
<1> QED
    BY <1>8, <1>9, <1>10

\* The bus, for any number of devices, any sizes and any number of VMs: see
\* AccessRouted.
THEOREM AccessAlways == Spec => []AccessRouted
<1>1. BusInv /\ [Next]_vars => BusInv'
      BY BusNext, BusStutter
<1>2. BusInv => AccessRouted
      BY BusImplies DEF AccessRouted
<1> QED
    BY <1>1, <1>2, BusInit, PTL DEF Spec
==============================================================================
