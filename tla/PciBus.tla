------------------------------ MODULE PciBus ------------------------------
(***************************************************************************)
(* How an access of the guest finds its device: the base address registers *)
(* and the command register of hw/pci/core.c, the tree of MMIO ranges with *)
(* its one-entry cache (core/mem.c) and the table of I/O port handlers     *)
(* (core/inout.c), through resets of the VM (the loop of core/main.c).     *)
(*                                                                         *)
(* All of it runs on the thread that serves the I/O requests; what makes   *)
(* it hard is the guest's freedom to move, overlap and switch off the      *)
(* ranges in any order, the assertions on the way, and the state that is   *)
(* kept from one VM to the next.  Addresses and ports count in units, the  *)
(* size of a range is a power of 2 and a range is aligned to its size.     *)
(***************************************************************************)
EXTENDS Integers, FiniteSets

CONSTANTS N,            \* devices 1..N, in the order of their slots
          MemSize, PortSize,  \* size of the memory BAR and of the I/O BAR
          Mem64,        \* devices whose memory BAR has type PCIBAR_MEM64
          HALF,         \* 2^32: what the low half of an address holds
          EcfgBase, EcfgSize,   \* the extended configuration window
          PORTS,        \* MAX_IOPORTS
          MaxVms        \* bound on the VM generations

Devices == 1 .. N
ECFG == N + 1           \* owner of the range named "PCI ECFG"
HOLE == N + 2           \* owner of the fallback range "PCI hole"
NOBODY == 0
Addresses == 0 .. 2 * HALF - 1
Ports == 0 .. PORTS - 1

RoundUp(x, size) == ((x + size - 1) \div size) * size

\* pci_emul_alloc_resource: the first fit above what has been handed out.
AllocAddr(size) ==
    LET top[d \in 0 .. N] == IF d = 0 THEN 0
                             ELSE RoundUp(top[d - 1], size[d]) + size[d]
    IN [d \in Devices |-> top[d] - size[d]]

\* Sizes are positive, and the window is there.
ASSUME BusAssumption ==
    /\ N \in Nat /\ HALF \in Nat \ {0} /\ PORTS \in Nat
    /\ EcfgBase \in Nat /\ EcfgSize \in Nat \ {0}
    /\ \A d \in Devices : MemSize[d] \in Nat \ {0} /\ PortSize[d] \in Nat \ {0}

\* m units at a and n units at b have none in common.
Apart(a, m, b, n) == a + m <= b \/ b + n <= a

\* What the first fit hands out at the start: ranges and ports apart from each
\* other, and ranges apart from the window, which lies outside the allocator's
\* limits (PCI_EMUL_MEMLIMIT32 ends where PCI_EMUL_ECFG_BASE begins).
ASSUME BootAssumption ==
    LET mem == AllocAddr(MemSize)
        io == AllocAddr(PortSize)
    IN  /\ mem \in [Devices -> Nat] /\ io \in [Devices -> Ports]
        /\ \A d \in Devices : Apart(mem[d], MemSize[d], EcfgBase, EcfgSize)
        /\ \A d, e \in Devices : d # e => /\ Apart(mem[d], MemSize[d], mem[e], MemSize[e])
                                          /\ Apart(io[d], PortSize[d], io[e], PortSize[e])

VARIABLES vm,           \* generation of the VM
          pc,           \* "idle", "hung" or "aborted": the thread
          bar, iobar,   \* dev->bar[].addr
          memen, porten,\* the decode bits of the command register
          tree,         \* mmio_rb_root
          hint,         \* mmio_hint: a range, or NoHint
          ports,        \* inout_handlers[].arg
          clash         \* history: two decoded ranges of this VM overlapped

vars == <<vm, pc, bar, iobar, memen, porten, tree, hint, ports, clash>>

\* A node of the tree; its VM tells it from a node left over from an earlier one.
NodeOf(d, base, size, v) == [owner |-> d, base |-> base, end |-> base + size - 1, vm |-> v]
Node(d, base, size) == NodeOf(d, base, size, vm)
NoHint == [owner |-> NOBODY, base |-> 1, end |-> 0, vm |-> 0]

Covers(n, a) == n.base <= a /\ a <= n.end
Overlap(m, n) == ~(m.end < n.base \/ m.base > n.end)     \* mmio_rb_range_compare

-----------------------------------------------------------------------------
(* core/mem.c.  The result of an operation is the new tree, or an error. *)

mmio_rb_lookup(t, a) == {n \in t : Covers(n, a)}

\* A base that is already covered is not inserted and not reported; any other
\* overlap is an error.
register_mem(t, n) ==
    IF mmio_rb_lookup(t, n.base) # {} THEN [ok |-> TRUE, tree |-> t]
    ELSE IF \E m \in t : Overlap(m, n) THEN [ok |-> FALSE, tree |-> t]
    ELSE [ok |-> TRUE, tree |-> t \union {n}]

\* The assertions want the node found at the base to be the caller's own.
unregister_mem(t, n) == [ok |-> n \in t, tree |-> t \ {n}]

\* Mutant: the cache keeps the node.
FlushedNot(n) == hint

\* The cache is flushed when the node it points to is freed.
Flushed(n) == IF hint = n THEN NoHint ELSE hint

(* core/inout.c *)

PortRange(d, p) == p .. p + PortSize[d] - 1

register_inout(t, d, p) ==
    [ok |-> \A q \in PortRange(d, p) : t[q] = NOBODY,
     ports |-> [q \in Ports |-> IF q \in PortRange(d, p) THEN d ELSE t[q]]]

unregister_inout(t, d, p) ==
    [ok |-> t[p] = d,
     ports |-> [q \in Ports |-> IF q \in PortRange(d, p) THEN NOBODY ELSE t[q]]]

-----------------------------------------------------------------------------
(* The start of a VM: init_mem, init_inout and init_pci. *)

MemRange(d) == Node(d, bar[d], MemSize[d])
Decoded(d, a) == memen[d] /\ Covers(MemRange(d), a)

BootTree(v) ==
    {NodeOf(d, AllocAddr(MemSize)[d], MemSize[d], v) : d \in Devices}
    \union {NodeOf(ECFG, EcfgBase, EcfgSize, v)}

BootPorts ==
    [q \in Ports |->
        IF \E d \in Devices : q \in PortRange(d, AllocAddr(PortSize)[d])
        THEN CHOOSE d \in Devices : q \in PortRange(d, AllocAddr(PortSize)[d])
        ELSE NOBODY]

AllOn == [d \in Devices |-> TRUE]

Init ==
    /\ vm = 1 /\ pc = "idle" /\ hint = NoHint
    /\ bar = AllocAddr(MemSize) /\ iobar = AllocAddr(PortSize)
    /\ memen = AllOn /\ porten = AllOn
    /\ tree = BootTree(1) /\ ports = BootPorts /\ clash = FALSE

\* The guest resets: main tears the VM down and goes round its loop.  The roots
\* are initialised again; mmio_hint is not.
VmReset ==
    /\ pc = "idle" /\ vm < MaxVms
    /\ vm' = vm + 1
    /\ bar' = AllocAddr(MemSize) /\ iobar' = AllocAddr(PortSize)
    /\ memen' = AllOn /\ porten' = AllOn
    /\ tree' = BootTree(vm') /\ ports' = BootPorts /\ clash' = FALSE
    /\ UNCHANGED <<pc, hint>>

-----------------------------------------------------------------------------
(* Registering and unregistering a BAR (modify_bar_registration). *)

\* The memory BAR of d leaves the node old and takes the node new; NoHint stands
\* for no node.
MemMoved(d, old, new) ==
    LET u == IF old = NoHint THEN [ok |-> TRUE, tree |-> tree] ELSE unregister_mem(tree, old)
        r == IF new = NoHint THEN u ELSE register_mem(u.tree, new)
    IN [ok |-> u.ok /\ r.ok, tree |-> r.tree,
        clash |-> new # NoHint /\ \E m \in u.tree : Overlap(m, new)]

\* The I/O BAR of d leaves the ports at old and takes those at new (-1: none).
PortsMoved(d, old, new) ==
    LET u == IF old < 0 THEN [ok |-> TRUE, ports |-> ports] ELSE unregister_inout(ports, d, old)
        r == IF new < 0 THEN u ELSE register_inout(u.ports, d, new)
    IN [ok |-> u.ok /\ r.ok, ports |-> r.ports,
        clash |-> new >= 0 /\ \E q \in PortRange(d, new) : u.ports[q] # NOBODY]

\* assert(error == 0): a failure ends the program.
Asserted(ok) == pc' = IF ok THEN "idle" ELSE "aborted"

\* The two configuration mechanisms: the address and data ports ("port", both
\* writes taken as one) and the window ("ecfg").  A write through the window is
\* itself an access that emulate_mem routes and caches, and it runs under its
\* read lock.
CachedVia(how) ==
    IF how = "port" \/ Covers(hint, EcfgBase) THEN hint
    ELSE Node(ECFG, EcfgBase, EcfgSize)

\* Taking the write lock under the read lock never returns.
Hang(how) == pc' = "hung" /\ hint' = CachedVia(how) /\ UNCHANGED <<tree, ports, clash>>

\* Values a 32-bit write leaves in the memory BAR of d: the low half, or for a
\* 64-bit BAR also the high half; the size masks the low bits.
BarValues(d) ==
    LET lo == {a \in 0 .. HALF - 1 : a % MemSize[d] = 0}
    IN IF d \in Mem64
       THEN {(bar[d] \div HALF) * HALF + a : a \in lo}
            \union {(bar[d] % HALF) + a * HALF : a \in {0, 1}}
       ELSE lo

\* pci_cfgrw on a memory BAR.
WriteMemBar(d, a, how) ==
    /\ pc = "idle" /\ a # bar[d]
    /\ \/ /\ ~memen[d]
          /\ bar' = [bar EXCEPT ![d] = a]
          /\ hint' = CachedVia(how)
          /\ UNCHANGED <<pc, tree, ports, clash>>
       \/ /\ memen[d] /\ how = "ecfg"
          /\ Hang(how) /\ UNCHANGED bar
       \/ /\ memen[d] /\ how = "port"
          /\ LET r == MemMoved(d, MemRange(d), Node(d, a, MemSize[d]))
             IN /\ tree' = r.tree /\ clash' = (clash \/ r.clash) /\ Asserted(r.ok)
          /\ bar' = [bar EXCEPT ![d] = a]
          /\ hint' = Flushed(MemRange(d))
          /\ UNCHANGED ports
    /\ UNCHANGED <<vm, iobar, memen, porten>>

\* pci_cfgrw on an I/O BAR.
WriteIoBar(d, p, how) ==
    /\ pc = "idle" /\ p # iobar[d] /\ p % PortSize[d] = 0
    /\ iobar' = [iobar EXCEPT ![d] = p]
    /\ IF porten[d]
       THEN LET r == PortsMoved(d, iobar[d], p)
            IN /\ ports' = r.ports /\ clash' = (clash \/ r.clash) /\ Asserted(r.ok)
       ELSE UNCHANGED <<pc, ports, clash>>
    /\ hint' = CachedVia(how)
    /\ UNCHANGED <<vm, bar, memen, porten, tree>>

\* The kinds of decoding that the new command word m, p changes.
Changed(d, m, p) == [mem |-> m # memen[d], port |-> p # porten[d]]

\* pci_emul_cmdsts_write: a kind of decoding that changed registers or
\* unregisters its BAR.  A write that changes neither has no effect.
WriteCommand(d, m, p, how) ==
    LET c == Changed(d, m, p)
        mr == IF m THEN MemMoved(d, NoHint, MemRange(d)) ELSE MemMoved(d, MemRange(d), NoHint)
        pr == IF p THEN PortsMoved(d, -1, iobar[d]) ELSE PortsMoved(d, iobar[d], -1)
    IN /\ pc = "idle" /\ <<m, p>> # <<memen[d], porten[d]>>
       /\ memen' = [memen EXCEPT ![d] = m] /\ porten' = [porten EXCEPT ![d] = p]
       /\ IF c.mem /\ how = "ecfg" THEN Hang(how)
          ELSE /\ tree' = IF c.mem THEN mr.tree ELSE tree
               /\ hint' = IF c.mem /\ ~m THEN Flushed(MemRange(d)) ELSE CachedVia(how)
               /\ ports' = IF c.port THEN pr.ports ELSE ports
               /\ clash' = (clash \/ (c.mem /\ mr.clash) \/ (c.port /\ pr.clash))
               /\ Asserted((c.mem => mr.ok) /\ (c.port => pr.ok))
       /\ UNCHANGED <<vm, bar, iobar>>

-----------------------------------------------------------------------------
(* emulate_mem: the cache, the tree, then the fallback range. *)

Hit(a) == hint # NoHint /\ Covers(hint, a)

\* Owner of the handler that serves address a; NOBODY is -ESRCH.
Served(a) ==
    IF Hit(a) THEN hint.owner
    ELSE IF mmio_rb_lookup(tree, a) # {}
    THEN (CHOOSE n \in mmio_rb_lookup(tree, a) : TRUE).owner
    ELSE IF a < HALF THEN HOLE ELSE NOBODY

Access(a) ==
    /\ pc = "idle" /\ ~Hit(a)
    /\ hint' = IF mmio_rb_lookup(tree, a) = {} THEN hint
               ELSE CHOOSE n \in mmio_rb_lookup(tree, a) : TRUE
    /\ UNCHANGED <<vm, pc, bar, iobar, memen, porten, tree, ports, clash>>

Stopped == pc # "idle" /\ UNCHANGED vars

Next ==
    \/ VmReset
    \/ \E d \in Devices, how \in {"port", "ecfg"} :
          \/ \E a \in BarValues(d) : WriteMemBar(d, a, how)
          \/ \E p \in Ports : WriteIoBar(d, p, how)
          \/ \E m, p \in BOOLEAN : WriteCommand(d, m, p, how)
    \/ \E a \in Addresses : Access(a)
    \/ Stopped

Spec == Init /\ [][Next]_vars

-----------------------------------------------------------------------------
(* Properties. *)

\* The ranges of the tree never overlap, whatever addresses the guest programs:
\* a lookup has at most one answer (mmio_rb_add, register_mem_int).
TreeDisjoint == \A m, n \in tree : n.vm = vm /\ (m # n => ~Overlap(m, n))

\* The cached range, while it is one of the present VM's, is a node of the tree
\* and the decoded range of its owner: no access follows a pointer to a freed
\* node or reaches a device that has moved its BAR away (emulate_mem,
\* unregister_mem; the assertions of pci_emul_mem_handler).
HintCurrent ==
    (pc = "idle" /\ hint.vm = vm) =>
        /\ hint \in tree
        /\ hint.owner \in Devices => memen[hint.owner] /\ hint = MemRange(hint.owner)

\* As long as the guest has not overlapped two decoded ranges, and the cache
\* holds nothing from an earlier VM, every address is served by exactly the
\* device that decodes it, else by the configuration window or the hole.
MmioRouted ==
    (pc = "idle" /\ ~clash /\ hint.vm \in {0, vm}) =>
        \A a \in Addresses :
            Served(a) = IF \E d \in Devices : Decoded(d, a)
                        THEN CHOOSE d \in Devices : Decoded(d, a)
                        ELSE IF EcfgBase <= a /\ a < EcfgBase + EcfgSize THEN ECFG
                        ELSE IF a < HALF THEN HOLE ELSE NOBODY

\* A port has the handler of the device whose enabled I/O BAR contains it, and
\* the default handler otherwise, through every move and switch of the BARs.
PortsRouted ==
    pc = "idle" =>
        \A q \in Ports, d \in Devices :
            ports[q] = d <=> porten[d] /\ q \in PortRange(d, iobar[d])

\* The assertions on the way (unregister_mem, unregister_inout,
\* modify_bar_registration) never fail for a guest that keeps its decoded ranges
\* apart.
AssertionsHold == ~clash => pc # "aborted"

\* The way to every device: no overlap in the tree, no assertion that fails, and
\* each address and port with the device that decodes it.
BusRouted == TreeDisjoint /\ MmioRouted /\ PortsRouted /\ AssertionsHold
=============================================================================
