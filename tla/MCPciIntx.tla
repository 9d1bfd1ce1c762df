----------------------------- MODULE MCPciIntx -----------------------------
(***************************************************************************)
(* PCI interrupts at run time, their routing at the start of a VM, and     *)
(* those of a passed-through device, model-checked side by side: a         *)
(* behaviour is one of PciIntx, of IntxRoute or of Passthru, as which      *)
(* says.  They share no variable; the PIRQ registers of IntxRoute are rreg *)
(* here, and the pin of Passthru is ppin.                                  *)
(***************************************************************************)
EXTENDS PciIntx

CONSTANTS d1, d2, p1, NDevs, Slots, MaxBoots, Count, Msgs, PageUnits, BarPages

\* Two devices share a pin.
MCShared == [d \in {d1, d2} |-> p1]

VARIABLES which,
          slot, lpcAt, intpin, pin, intline, rreg, use, irqCounts, cold, lastPin, phase,
          next, boots,
          caps, layout, cfg, msi, table, hv, phys, lost, exited, byGuest,
          prefer_msi, pciaccess_ref_cnt, life, ppin, held, inherited

R == INSTANCE IntxRoute WITH reg <- rreg
P == INSTANCE Passthru WITH pin <- ppin

rvars == <<slot, lpcAt, intpin, pin, intline, rreg, use, irqCounts, cold, lastPin, phase,
           next, boots>>
pvars == <<caps, layout, cfg, msi, table, hv, phys, lost, exited, byGuest,
           prefer_msi, pciaccess_ref_cnt, life, ppin, held, inherited>>
allvars == <<which, vars, rvars, pvars>>

InIntx(A) == which = "intx" /\ A /\ UNCHANGED <<which, rvars, pvars>>
InRoute(A) == which = "route" /\ A /\ UNCHANGED <<which, vars, pvars>>
InPassthru(A) == which = "passthru" /\ A /\ UNCHANGED <<which, vars, rvars>>

\* A component that does not move has one initial state.
MCInit ==
    /\ which \in {"intx", "route", "passthru"}
    /\ Init /\ R!Init /\ P!Init
    /\ which # "route" => lpcAt = 0 /\ slot = [d \in R!Functions |-> CHOOSE s \in Slots : TRUE]
    /\ which # "intx" => reg = [p \in Pins |-> DIS]
    /\ which # "passthru" => caps = {} /\ prefer_msi

\* The bound on the boots is reached.
RouteEnds == phase = "up" /\ boots = MaxBoots /\ UNCHANGED rvars

\* The process has ended.
PassthruEnds == exited /\ UNCHANGED pvars

MCNext == InIntx(Next) \/ InRoute(R!Next \/ RouteEnds) \/ InPassthru(P!Next \/ PassthruEnds)

\* Fairness as in PciIntx; the others need none.
MCSpec ==
    /\ MCInit /\ [][MCNext]_allvars
    /\ \A t \in Procs : WF_allvars(InIntx(PciIrqAssert(t) \/ PciIrqDeassert(t)
                                          \/ IoapicAssert(t) \/ IoapicDeassert(t)))
    /\ SF_allvars(InIntx(\E d \in Devs : PciLintrUpdate(d)))

\* On every boot the assertions of pci_irq_reserve and pci_irq_use hold, INTx
\* pins, PIRQs, ISA IRQs and I/O APIC pins are handed out evenly, and on the first
\* one every device that asked for a pin gets an enabled PIRQ whose IRQ its line
\* register names (pci_lintr_request, pirq_alloc_pin, pci_lintr_route).
RouteSound == which = "route" => R!BootAsserts /\ R!Balanced /\ R!RoutedOnFirstBoot

\* A passed-through device sends the messages the guest programmed, its BAR is
\* mapped but for the pages with the MSI-X table, and it is given back when the VM
\* ends (ptdev_msix_remap, init_msix_table, passthru_deinit).
PtSound == which = "passthru" => P!PtSound
============================================================================
