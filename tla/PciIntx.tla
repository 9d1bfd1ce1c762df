------------------------------ MODULE PciIntx ------------------------------
(***************************************************************************)
(* Legacy PCI interrupts at run time: the INTx state of each device        *)
(* (hw/pci/core.c), the PIRQ router shared by the devices (hw/pci/irq.c),  *)
(* and the interrupt controllers of the hypervisor, of which only the      *)
(* number of asserts not yet undone by a deassert matters.                 *)
(*                                                                         *)
(* The threads of the device emulations raise and lower interrupts; the    *)
(* thread that serves the guest's accesses (vm_loop) does so too, and      *)
(* writes configuration space: MSI and MSI-X enable, the INTx disable bit, *)
(* and the PIRQ registers of the LPC bridge.                               *)
(***************************************************************************)
EXTENDS Integers, FiniteSets

CONSTANTS
    Devs,       \* PCI functions with an INTx pin
    Pins,       \* pirqs[]
    Irqs,       \* values of PIRQ_IRQ
    Permitted,  \* PERMITTED_IRQS
    PirqPin,    \* dev->lintr.pirq_pin
    Threads,    \* threads of the device emulations
    Vcpu,       \* the thread of vm_loop
    DIS,        \* a register value with PIRQ_DIS set
    Nobody, NoDev

Masks == {"msi", "msix", "intxdis"}
Procs == Threads \cup {Vcpu}
Regs  == Irqs \cup {DIS}

ASSUME PciIntxAssumption ==
    /\ IsFiniteSet(Devs)
    /\ PirqPin \in [Devs -> Pins]
    /\ Permitted \subseteq Irqs
    /\ DIS \notin Irqs
    /\ Vcpu \notin Threads
    /\ Nobody \notin Procs
    /\ NoDev \notin Devs

VARIABLES
    state,    \* dev->lintr.state
    mask,     \* why INTx is not permitted: what configuration space says
    lock,     \* holder of dev->lintr.lock
    active,   \* pirq->active_count
    reg,      \* pirq->reg
    isa,      \* asserts minus deasserts of an ISA IRQ on behalf of a pin
    ioapic,   \* asserts minus deasserts of the I/O APIC pin by a device
    pc,       \* control state of each thread
    dev       \* the device the thread works on

vars == <<state, mask, lock, active, reg, isa, ioapic, pc, dev>>

\* pci_lintr_permitted
PciLintrPermitted(d) == mask[d] = {}

\* pirq_valid_irq
PirqValidIrq(r) == r \in Permitted

\* pci_irq_init, and devices that have raised nothing.  pirq_alloc_pin has
\* routed some of the pins to an IRQ, the others are disabled.
Init ==
    /\ state = [d \in Devs |-> "IDLE"]
    /\ mask = [d \in Devs |-> {}]
    /\ lock = [d \in Devs |-> Nobody]
    /\ active = [p \in Pins |-> 0]
    /\ reg \in [Pins -> Permitted \cup {DIS}]
    /\ isa = [p \in Pins |-> [i \in Irqs |-> 0]]
    /\ ioapic = [d \in Devs |-> 0]
    /\ pc = [t \in Procs |-> "idle"]
    /\ dev = [t \in Procs |-> NoDev]

----------------------------------------------------------------------------
(* pci_lintr_assert, pci_lintr_deassert, pci_lintr_update: the decision,   *)
(* under dev->lintr.lock, which is held until the controllers know.        *)

\* Take the lock, change the state, and go on to pci_irq_assert ("up") or
\* pci_irq_deassert ("down"), or return at once.
Decide(t, d, st, next) ==
    /\ lock[d] = Nobody
    /\ state' = [state EXCEPT ![d] = st]
    /\ IF next = "idle" THEN UNCHANGED lock ELSE lock' = [lock EXCEPT ![d] = t]
    /\ pc' = [pc EXCEPT ![t] = next]
    /\ dev' = [dev EXCEPT ![t] = IF next = "idle" THEN NoDev ELSE d]
    /\ UNCHANGED <<mask, active, reg, isa, ioapic>>

PciLintrAssert(t, d) ==
    /\ pc[t] = "idle"
    /\ state[d] = "IDLE"
    /\ IF PciLintrPermitted(d) THEN Decide(t, d, "ASSERTED", "up")
                               ELSE Decide(t, d, "PENDING", "idle")

PciLintrDeassert(t, d) ==
    /\ pc[t] = "idle"
    /\ \/ state[d] = "ASSERTED" /\ Decide(t, d, "IDLE", "down")
       \/ state[d] = "PENDING" /\ Decide(t, d, "IDLE", "idle")

\* Mutant: a pending interrupt that INTx may deliver again stays pending.
PciLintrUpdateMaskOnly(d) ==
    /\ pc[Vcpu] = "update" /\ dev[Vcpu] = d
    /\ IF state[d] = "ASSERTED" /\ ~PciLintrPermitted(d)
       THEN Decide(Vcpu, d, "PENDING", "down")
       ELSE Decide(Vcpu, d, state[d], "idle")

PciLintrUpdate(d) ==
    /\ pc[Vcpu] = "update" /\ dev[Vcpu] = d
    /\ IF state[d] = "ASSERTED" /\ ~PciLintrPermitted(d)
       THEN Decide(Vcpu, d, "PENDING", "down")
       ELSE IF state[d] = "PENDING" /\ PciLintrPermitted(d)
       THEN Decide(Vcpu, d, "ASSERTED", "up")
       ELSE Decide(Vcpu, d, state[d], "idle")

----------------------------------------------------------------------------
(* pci_irq_assert and pci_irq_deassert: the PIRQ under its lock, then the  *)
(* I/O APIC.  vm_isa_assert_irq reaches both controllers.                  *)

Return(t) ==
    /\ pc' = [pc EXCEPT ![t] = "idle"]
    /\ dev' = [dev EXCEPT ![t] = NoDev]
    /\ lock' = [lock EXCEPT ![dev[t]] = Nobody]

PciIrqAssert(t) ==
    LET d == dev[t]
        p == PirqPin[d]
    IN  /\ pc[t] = "up"
        /\ active' = [active EXCEPT ![p] = @ + 1]
        /\ IF active[p] + 1 = 1 /\ PirqValidIrq(reg[p])
           THEN /\ isa' = [isa EXCEPT ![p][reg[p]] = @ + 1]
                /\ ioapic' = [ioapic EXCEPT ![d] = @ + 1]
                /\ Return(t)
           ELSE /\ pc' = [pc EXCEPT ![t] = "ioapicUp"]
                /\ UNCHANGED <<isa, ioapic, dev, lock>>
        /\ UNCHANGED <<state, mask, reg>>

PciIrqDeassert(t) ==
    LET d == dev[t]
        p == PirqPin[d]
    IN  /\ pc[t] = "down"
        /\ active' = [active EXCEPT ![p] = @ - 1]
        /\ IF active[p] - 1 = 0 /\ PirqValidIrq(reg[p])
           THEN /\ isa' = [isa EXCEPT ![p][reg[p]] = @ - 1]
                /\ ioapic' = [ioapic EXCEPT ![d] = @ - 1]
                /\ Return(t)
           ELSE /\ pc' = [pc EXCEPT ![t] = "ioapicDown"]
                /\ UNCHANGED <<isa, ioapic, dev, lock>>
        /\ UNCHANGED <<state, mask, reg>>

\* vm_ioapic_assert_irq, vm_ioapic_deassert_irq after the PIRQ is unlocked.
IoapicAssert(t) ==
    /\ pc[t] = "ioapicUp"
    /\ ioapic' = [ioapic EXCEPT ![dev[t]] = @ + 1]
    /\ Return(t)
    /\ UNCHANGED <<state, mask, active, reg, isa>>

IoapicDeassert(t) ==
    /\ pc[t] = "ioapicDown"
    /\ ioapic' = [ioapic EXCEPT ![dev[t]] = @ - 1]
    /\ Return(t)
    /\ UNCHANGED <<state, mask, active, reg, isa>>

----------------------------------------------------------------------------
(* Writes of the guest to configuration space.                             *)

\* msicap_cfgwrite, msixcap_cfgwrite, pci_emul_cmdsts_write up to their call
\* of pci_lintr_update: the new value is visible before the lock is taken.
CfgWrite(d, m) ==
    /\ pc[Vcpu] = "idle"
    /\ mask' = [mask EXCEPT ![d] = IF m \in @ THEN @ \ {m} ELSE @ \cup {m}]
    /\ pc' = [pc EXCEPT ![Vcpu] = "update"]
    /\ dev' = [dev EXCEPT ![Vcpu] = d]
    /\ UNCHANGED <<state, lock, active, reg, isa, ioapic>>

\* What the ISA side of pin p counts when its register holds r.
Drives(p, r) == active[p] # 0 /\ PirqValidIrq(r)

\* Mutant: the IRQ of the old register value stays raised.
PirqWriteNoDeassert(p, val) ==
    /\ pc[Vcpu] = "idle"
    /\ reg[p] # val
    /\ reg' = [reg EXCEPT ![p] = val]
    /\ isa' = [isa EXCEPT ![p] = [i \in Irqs |->
                 @[i] + (IF Drives(p, val) /\ i = val THEN 1 ELSE 0)]]
    /\ UNCHANGED <<state, mask, lock, active, ioapic, pc, dev>>

\* pirq_write, by way of pci_lpc_cfgwrite.
PirqWrite(p, val) ==
    /\ pc[Vcpu] = "idle"
    /\ reg[p] # val
    /\ reg' = [reg EXCEPT ![p] = val]
    /\ isa' = [isa EXCEPT ![p] = [i \in Irqs |->
                 @[i] - (IF Drives(p, reg[p]) /\ i = reg[p] THEN 1 ELSE 0)
                      + (IF Drives(p, val) /\ i = val THEN 1 ELSE 0)]]
    /\ UNCHANGED <<state, mask, lock, active, ioapic, pc, dev>>

----------------------------------------------------------------------------
Step(t) ==
    \/ \E d \in Devs : PciLintrAssert(t, d) \/ PciLintrDeassert(t, d)
    \/ PciIrqAssert(t) \/ PciIrqDeassert(t) \/ IoapicAssert(t) \/ IoapicDeassert(t)

Guest ==
    \/ \E d \in Devs, m \in Masks : CfgWrite(d, m)
    \/ \E d \in Devs : PciLintrUpdate(d)
    \/ \E p \in Pins, val \in Regs : PirqWrite(p, val)

Next == Guest \/ \E t \in Procs : Step(t)

Spec == Init /\ [][Next]_vars

\* A thread that has begun an operation finishes it; a lock that is free again
\* and again is obtained.
Fairness ==
    /\ \A t \in Procs : WF_vars(PciIrqAssert(t) \/ PciIrqDeassert(t)
                                \/ IoapicAssert(t) \/ IoapicDeassert(t))
    /\ SF_vars(\E d \in Devs : PciLintrUpdate(d))

FairSpec == Spec /\ Fairness

----------------------------------------------------------------------------
(* Properties.                                                             *)

\* Every variable has its type; in particular no count is negative.
TypeOK ==
    /\ state \in [Devs -> {"IDLE", "ASSERTED", "PENDING"}]
    /\ mask \in [Devs -> SUBSET Masks]
    /\ lock \in [Devs -> Procs \cup {Nobody}]
    /\ active \in [Pins -> Nat]
    /\ reg \in [Pins -> Regs]
    /\ isa \in [Pins -> [Irqs -> Nat]]
    /\ ioapic \in [Devs -> Nat]
    /\ pc \in [Procs -> {"idle", "update", "up", "down", "ioapicUp", "ioapicDown"}]
    /\ dev \in [Procs -> Devs \cup {NoDev}]

Working(t) == pc[t] \in {"up", "down", "ioapicUp", "ioapicDown"}

\* dev->lintr.lock is held exactly by the thread that works on the device, the
\* state it chose stays until the controllers know, and only the vcpu thread
\* updates.
LockOwner ==
    /\ \A t \in Procs : Working(t) =>
          /\ dev[t] \in Devs /\ lock[dev[t]] = t
          /\ state[dev[t]] = "ASSERTED" <=> pc[t] \in {"up", "ioapicUp"}
    /\ \A d \in Devs : lock[d] # Nobody => Working(lock[d]) /\ dev[lock[d]] = d
    /\ \A t \in Procs : pc[t] = "update" => t = Vcpu /\ dev[t] \in Devs

\* What is being done about device d.
At(d) == IF lock[d] = Nobody THEN "idle" ELSE pc[lock[d]]

\* The device has been counted in pirq->active_count and not yet uncounted.
Counted(d) == At(d) = "down" \/ (state[d] = "ASSERTED" /\ At(d) # "up")

\* The I/O APIC pin has been raised for the device and not yet lowered.
Raised(d) ==
    \/ At(d) \in {"down", "ioapicDown"}
    \/ state[d] = "ASSERTED" /\ At(d) \notin {"up", "ioapicUp"}

\* The devices counted on pin p.
Holders(p) == {d \in Devs : PirqPin[d] = p /\ Counted(d)}

\* active_count is the number of devices that hold the pin, so the tests for
\* its first and last holder are right whatever threads interleave.
ActiveCount ==
    \A p \in Pins : active[p] = Cardinality(Holders(p))

\* An ISA IRQ is held once for a pin exactly while the pin is active and routed
\* to it by a valid register, across pirq_write of an active pin.
IsaLevel ==
    \A p \in Pins, i \in Irqs :
        isa[p][i] = IF Drives(p, reg[p]) /\ reg[p] = i THEN 1 ELSE 0

\* Asserts and deasserts of the I/O APIC pin pair up, although one is made
\* through vm_isa_assert_irq and the other may be made directly.
IoapicLevel ==
    \A d \in Devs : ioapic[d] = IF Raised(d) THEN 1 ELSE 0

\* Outside a configuration write an interrupt that INTx may not deliver is
\* PENDING and one that it may deliver is ASSERTED.
StateMatchesMask ==
    \A d \in Devs : ~(pc[Vcpu] = "update" /\ dev[Vcpu] = d) =>
        /\ state[d] = "ASSERTED" => PciLintrPermitted(d)
        /\ state[d] = "PENDING" => ~PciLintrPermitted(d)

\* Whatever a device has raised reaches the I/O APIC while INTx is permitted:
\* "If INTx has been unmasked and is pending, assert the interrupt."
Delivered ==
    \A d \in Devs :
        (state[d] # "IDLE" /\ PciLintrPermitted(d))
            ~> (ioapic[d] = 1 \/ state[d] = "IDLE" \/ ~PciLintrPermitted(d))

\* An interrupt that was lowered, or masked, is taken from the I/O APIC.
Withdrawn ==
    \A d \in Devs :
        (state[d] = "IDLE" \/ ~PciLintrPermitted(d))
            ~> (ioapic[d] = 0 \/ (state[d] # "IDLE" /\ PciLintrPermitted(d)))

\* Both interrupt controllers have been told what the devices and the PIRQ
\* registers say, whatever threads interleave.
ControllersFollow == IsaLevel /\ IoapicLevel

\* A device's line arrives at the I/O APIC, up or down, and stays as long as the
\* device and the guest's mask leave it alone.
LinesArrive == Delivered /\ Withdrawn
============================================================================
