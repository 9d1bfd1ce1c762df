----------------------------- MODULE IntxRoute -----------------------------
(***************************************************************************)
(* Boot-time routing of PCI interrupts: which INTx pin a device gets       *)
(* (hw/pci/core.c), which I/O APIC pin (hw/platform/ioapic.c) and which    *)
(* PIRQ and ISA IRQ (hw/pci/irq.c) the pin is wired to, and what of it     *)
(* survives a reset of the virtual machine, which repeats the sequence in  *)
(* the same process (core/main.c).                                         *)
(***************************************************************************)
EXTENDS Integers, FiniteSets, FiniteSetsExt

CONSTANTS
    NDevs,      \* devices that request an INTx pin, in the order of init_pci
    Slots,      \* slots of the bus
    MaxBoots    \* bound: times the virtual machine is started

Functions == 1 .. NDevs
IntPins   == 1 .. 4
Pirqs     == 1 .. 8
IsaIrqs   == 0 .. 15

PERMITTED_IRQS == (3 .. 7) \cup (9 .. 12) \cup {14, 15}
PIRQ_DIS       == 128
IRQ_DISABLED   == 255
KbdIrqs        == {1, 12}
SCI_INT        == 9
UartIrqs       == {3, 4}
PciPins        == 8     \* vm_ioapic_pincount is 24, the first 16 are ignored

VARIABLES
    slot,       \* slot of each device: the command line
    lpcAt,      \* devices initialised before the LPC bridge
    intpin,     \* si_intpins[] of each slot: ii_count, ii_ioapic_irq, ii_pirq_pin
    pin,        \* dev->lintr.pin
    intline,    \* PCIR_INTLINE
    reg,        \* pirqs[].reg
    use,        \* pirqs[].use_count
    irqCounts,  \* irq_counts[]
    cold,       \* pirq_cold
    lastPin,    \* last_pin
    phase, next, boots

conf == <<slot, lpcAt>>
vars == <<slot, lpcAt, intpin, pin, intline, reg, use, irqCounts, cold, lastPin,
          phase, next, boots>>

\* A new process, its command line parsed into slots.
Init ==
    /\ slot \in {f \in [Functions -> Slots] : \A d, e \in Functions : d < e => f[d] <= f[e]}
    /\ lpcAt \in 0 .. NDevs
    /\ intpin = [s \in Slots |-> [p \in IntPins |-> [count |-> 0, ioapic |-> 0, pirq |-> 0]]]
    /\ pin = [d \in Functions |-> 0]
    /\ intline = [d \in Functions |-> 0]
    /\ reg = [p \in Pirqs |-> 0]
    /\ use = [p \in Pirqs |-> 0]
    /\ irqCounts = [i \in IsaIrqs |-> 0]
    /\ cold = TRUE
    /\ lastPin = 0
    /\ phase = "start" /\ next = 1 /\ boots = 1

\* Mutant: the first index, whatever its value.
FirstOfAll(f, S) == CHOOSE x \in S : \A y \in S : x <= y

\* The first index of least value: the loops keep the first of equals.
FirstLeast(f, S) == CHOOSE x \in S : \A y \in S : f[x] < f[y] \/ (f[x] = f[y] /\ x <= y)

Reserve(counts, irqs) == [i \in IsaIrqs |-> IF i \in irqs THEN IRQ_DISABLED ELSE counts[i]]

----------------------------------------------------------------------------
PciIrqInit ==
    /\ phase = "start"
    /\ reg' = [p \in Pirqs |-> PIRQ_DIS]
    /\ use' = [p \in Pirqs |-> 0]
    /\ irqCounts' = [i \in IsaIrqs |-> IF i \in PERMITTED_IRQS THEN 0 ELSE IRQ_DISABLED]
    /\ phase' = "platform"
    /\ UNCHANGED <<conf, intpin, pin, intline, cold, lastPin, next, boots>>

\* atkbdc_init reserves its IRQs, sci_init uses its own.
PlatformInit ==
    /\ phase = "platform"
    /\ irqCounts' = [Reserve(irqCounts, KbdIrqs) EXCEPT ![SCI_INT] = @ + 1]
    /\ phase' = IF lpcAt = 0 THEN "lpc" ELSE "devices"
    /\ next' = 1
    /\ UNCHANGED <<conf, intpin, pin, intline, reg, use, cold, lastPin, boots>>

\* lpc_init, from the vdev_init of the bridge.
LpcInit ==
    /\ phase = "lpc"
    /\ irqCounts' = Reserve(irqCounts, UartIrqs)
    /\ phase' = IF next > NDevs THEN "route" ELSE "devices"
    /\ next' = IF next > NDevs THEN 1 ELSE next
    /\ UNCHANGED <<conf, intpin, pin, intline, reg, use, cold, lastPin, boots>>

\* pci_emul_init of the next device, whose vdev_init calls pci_lintr_request.
PciLintrRequest ==
    LET pins == intpin[slot[next]]
        best == FirstLeast([p \in IntPins |-> pins[p].count], IntPins)
    IN  /\ phase = "devices"
        /\ intpin' = [intpin EXCEPT ![slot[next]][best].count = @ + 1]
        /\ pin' = [pin EXCEPT ![next] = best]
        /\ intline' = [intline EXCEPT ![next] = 255]
        /\ phase' = IF next = lpcAt THEN "lpc"
                    ELSE IF next = NDevs THEN "route" ELSE "devices"
        /\ next' = IF next = NDevs /\ next # lpcAt THEN 1 ELSE next + 1
        /\ UNCHANGED <<conf, reg, use, irqCounts, cold, lastPin, boots>>

\* pirq_alloc_pin: the pin, with the registers and counts it leaves.
PirqAllocPin ==
    LET best == FirstLeast(use, Pirqs)
        free == {i \in IsaIrqs : irqCounts[i] # IRQ_DISABLED}
        irq  == FirstLeast(irqCounts, free)
    IN  IF reg[best] = PIRQ_DIS
        THEN [pin |-> best, use |-> [use EXCEPT ![best] = @ + 1],
              counts |-> [irqCounts EXCEPT ![irq] = @ + 1],
              reg |-> [reg EXCEPT ![best] = irq]]
        ELSE [pin |-> best, use |-> [use EXCEPT ![best] = @ + 1],
              counts |-> irqCounts, reg |-> reg]

\* pci_lintr_route of the next device; the last one is followed by
\* lpc_pirq_routed, which copies the registers to the bridge.
PciLintrRoute ==
    LET ii == intpin[slot[next]][pin[next]]
        a  == IF ii.pirq = 0 THEN PirqAllocPin
              ELSE [pin |-> ii.pirq, use |-> use, counts |-> irqCounts, reg |-> reg]
    IN  /\ phase = "route"
        /\ intpin' = [intpin EXCEPT ![slot[next]][pin[next]] =
                        [@ EXCEPT !.pirq = a.pin,
                                  !.ioapic = IF @ = 0 THEN 16 + (lastPin % PciPins) ELSE @]]
        /\ lastPin' = IF ii.ioapic = 0 THEN lastPin + 1 ELSE lastPin
        /\ use' = a.use /\ irqCounts' = a.counts /\ reg' = a.reg
        /\ cold' = (cold /\ ii.pirq # 0)
        /\ intline' = [intline EXCEPT ![next] = a.reg[a.pin] % 16]
        /\ phase' = IF next = NDevs THEN "up" ELSE "route"
        /\ next' = IF next = NDevs THEN 1 ELSE next + 1
        /\ UNCHANGED <<conf, pin, boots>>

\* The guest resets: do_close_post frees the devices, and the loop of main
\* starts again.  pci_businfo, with si_intpins, stays.
Reset ==
    /\ phase = "up"
    /\ boots < MaxBoots
    /\ boots' = boots + 1
    /\ cold' = TRUE
    /\ pin' = [d \in Functions |-> 0]
    /\ intline' = [d \in Functions |-> 0]
    /\ phase' = "start"
    /\ UNCHANGED <<conf, intpin, reg, use, irqCounts, lastPin, next>>

Next == PciIrqInit \/ PlatformInit \/ LpcInit \/ PciLintrRequest \/ PciLintrRoute \/ Reset

Spec == Init /\ [][Next]_vars

----------------------------------------------------------------------------
\* The assertions of pci_irq_reserve and pci_irq_use hold when they are called,
\* on every boot: no pin has been routed, and nobody has taken the IRQ.
BootAsserts ==
    /\ phase = "platform" =>
         /\ cold
         /\ \A i \in KbdIrqs : irqCounts[i] \in {0, IRQ_DISABLED}
         /\ irqCounts[SCI_INT] # IRQ_DISABLED
    /\ phase = "lpc" => cold /\ \A i \in UartIrqs : irqCounts[i] \in {0, IRQ_DISABLED}

Spread(f, S) == \A x, y \in S : f[x] <= f[y] + 1

\* INTx pins of a slot, PIRQs and ISA IRQs, and I/O APIC pins are each handed
\* out evenly: none is shared more while another is shared less.  For the
\* INTx pins and the I/O APIC this is so across resets.
Balanced ==
    /\ \A s \in Slots : Spread([p \in IntPins |-> intpin[s][p].count], IntPins)
    /\ Spread(use, Pirqs)
    /\ phase \in {"route", "up"} =>
         LET free == {i \in IsaIrqs : irqCounts[i] # IRQ_DISABLED} IN Spread(irqCounts, free)
    /\ Spread([g \in 16 .. 15 + PciPins |->
                 Cardinality({sp \in Slots \X IntPins : intpin[sp[1]][sp[2]].ioapic = g})],
              16 .. 15 + PciPins)

\* "The pin will be assigned IRQs later when interrupts are routed.": when the
\* guest starts, the PIRQ of every device is enabled with a permitted IRQ that
\* neither the keyboard nor a UART has reserved, and the interrupt line register
\* of the device names that IRQ.
Routed ==
    phase = "up" => \A d \in Functions :
        LET ii == intpin[slot[d]][pin[d]]
        IN  /\ ii.count > 0 /\ ii.ioapic # 0
            /\ reg[ii.pirq] \in PERMITTED_IRQS \ (KbdIrqs \cup UartIrqs)
            /\ intline[d] = reg[ii.pirq]

\* The promise of pci_lintr_request is kept the first time the virtual machine
\* is started, whatever the order of the devices and of the LPC bridge.
RoutedOnFirstBoot == boots = 1 => Routed
============================================================================
