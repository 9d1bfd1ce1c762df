------------------------------ MODULE Passthru ------------------------------
(***************************************************************************)
(* Interrupts of a passed-through PCI device (passthrough.c, with the      *)
(* capability handlers of core.c).  The guest programs a virtual MSI       *)
(* capability and a virtual MSI-X table; the device model translates each  *)
(* change into a mapping in the hypervisor (hv, external) and into the     *)
(* enable bits of the physical device (phys, external).  The set-up may be *)
(* refused by the hypervisor at any time.  The device is assigned to each  *)
(* VM and given back at its end.                                           *)
(*                                                                         *)
(* Addresses and data of a message are one value, 0 is the message that is *)
(* all zero.  The layout of the MSI-X table in its BAR is in Units, of     *)
(* which PageUnits make a page.                                            *)
(***************************************************************************)
EXTENDS Naturals, FiniteSets

CONSTANTS Count,      \* entries of the MSI-X table
          Msgs,       \* messages, with 0
          PageUnits,  \* table entries in a page
          BarPages    \* pages of the BAR with the table

VARIABLES caps,    \* capabilities of the physical device
          layout,  \* [off, count]: the table in its BAR, until it is mapped
          cfg,     \* the virtual capabilities: msg, msi, msix
          msi,     \* dev->msi: the message latched when MSI was enabled
          table,   \* dev->msix.table
          hv, phys,
          lost,    \* entries whose set-up the hypervisor refused
          exited,  \* err(1, ...)
          byGuest, \* the guest has written the command register itself
          prefer_msi, pciaccess_ref_cnt,
          life,    \* "off", "init", "run"
          pin,     \* dev->lintr.pin is not 0
          held,    \* what the hypervisor has recorded: "assigned", "vectors", "intx"
          inherited  \* an earlier VM left the device with MSI or without its pin

vars == <<caps, layout, cfg, msi, table, hv, phys, lost, exited, byGuest,
          prefer_msi, pciaccess_ref_cnt, life, pin, held, inherited>>
device == <<prefer_msi, pciaccess_ref_cnt, life, pin, held>>

Index == 0..(Count - 1)
Done == [off |-> 0, count |-> 0]

-----------------------------------------------------------------------------
(* Mapping the BAR: init_msix_table *)

rounddown2(x) == x - (x % PageUnits)
roundup2(x) == rounddown2(x + PageUnits - 1)

table_size(l) == roundup2((l.off - rounddown2(l.off)) + l.count)

\* The units of the BAR that are mapped into the guest: what comes before the
\* table, and what comes after it.
Mapped(l) ==
    LET first == rounddown2(l.off)
        rest  == first + table_size(l)
    IN  {u \in 0..(BarPages * PageUnits - 1) : u < first \/ u >= rest}

-----------------------------------------------------------------------------
(* The two set-ups *)

\* Mutant: the message of an entry that was masked before is left for later.
SetsUpUnmasked(old, new) == ~old

\* An entry is set up if it is unmasked now or was before.
SetsUp(old, new) == ~new \/ ~old

\* ptdev_msix_remap: off while it is done, and on again.
MsixDone == [phys EXCEPT !.msix = TRUE, !.mask = FALSE, !.intx = FALSE]
MsixRefused == [phys EXCEPT !.msix = FALSE, !.mask = TRUE]

\* ptdev_msi_remap: an all-zero message switches to INTx.
MsiDone(msg) == [phys EXCEPT !.msi = msg # 0, !.intx = msg = 0]

\* vm_setup_ptdev_msi
MsiMapped(msg) == [hv EXCEPT !.msi = msg]

\* msix_table_write ignores the error.
SetEntry(i, e) ==
    /\ table' = [table EXCEPT ![i] = e]
    /\ IF cfg.msix /\ SetsUp(table[i].masked, e.masked)
       THEN \/ /\ hv' = [hv EXCEPT !.msix[i] = e.msg] /\ phys' = MsixDone
               /\ lost' = lost \ {i}
            \/ UNCHANGED hv /\ phys' = MsixRefused /\ lost' = lost \cup {i}
       ELSE UNCHANGED <<hv, phys, lost>>
    /\ UNCHANGED <<caps, layout, cfg, msi, exited, byGuest, device, inherited>>

-----------------------------------------------------------------------------
(* The guest's writes *)

WriteEntry ==
    /\ "msix" \in caps
    /\ \E i \in Index :
         \/ \E m \in Msgs : SetEntry(i, [table[i] EXCEPT !.msg = m])
         \/ \E b \in BOOLEAN : SetEntry(i, [table[i] EXCEPT !.masked = b])

\* msixcap_cfgwrite, then every entry is set up, the masked ones too; nothing is
\* done when MSI-X is switched off.
WriteMsixControl ==
    /\ "msix" \in caps
    /\ \E on \in BOOLEAN :
         /\ cfg' = [cfg EXCEPT !.msix = on]
         /\ \/ ~on /\ UNCHANGED <<hv, phys, lost, exited>>
            \/ /\ on /\ phys' = MsixDone /\ lost' = {}
               /\ hv' = [hv EXCEPT !.msix = [i \in Index |-> table[i].msg]]
               /\ UNCHANGED exited
            \/ on /\ exited' = TRUE /\ phys' = MsixRefused /\ UNCHANGED <<hv, lost>>
    /\ UNCHANGED <<caps, layout, msi, table, byGuest, device, inherited>>

\* The address and data registers of the MSI capability.
WriteMsiMessage ==
    /\ "msi" \in caps
    /\ \E m \in Msgs : cfg' = [cfg EXCEPT !.msg = m]
    /\ UNCHANGED <<caps, layout, msi, table, hv, phys, lost, exited, byGuest, device, inherited>>

\* msicap_cfgwrite latches the message, ptdev_msi_remap passes it on.
WriteMsiControl ==
    /\ "msi" \in caps
    /\ \E on \in BOOLEAN :
         /\ cfg' = [cfg EXCEPT !.msi = on]
         /\ msi' = IF on THEN cfg.msg ELSE msi
         /\ LET msg == IF on THEN msi' ELSE 0
            IN  \/ hv' = MsiMapped(msg) /\ phys' = MsiDone(msg) /\ UNCHANGED exited
                \/ exited' = TRUE /\ phys' = [phys EXCEPT !.msi = FALSE] /\ UNCHANGED hv
    /\ byGuest' = FALSE /\ inherited' = FALSE
    /\ UNCHANGED <<caps, layout, table, lost, device>>

\* The command register goes to the device.
WriteCommand ==
    /\ \E b \in BOOLEAN : phys' = [phys EXCEPT !.intx = b]
    /\ byGuest' = TRUE
    /\ UNCHANGED <<caps, layout, cfg, msi, table, hv, lost, exited, device, inherited>>

-----------------------------------------------------------------------------
(* The device over the life of a VM.  Allocations succeed. *)

NotSet == [msg |-> 0, msi |-> FALSE, msix |-> FALSE]
Entries == [i \in Index |-> [msg |-> 0, masked |-> TRUE]]
Unmapped == [msi |-> 0, msix |-> [i \in Index |-> 0]]

\* A device as the host leaves it; caps, layout and prefer_msi do not change.
Init ==
    /\ caps \in SUBSET {"msi", "msix"} /\ prefer_msi \in BOOLEAN
    /\ layout \in [off : 0..(BarPages * PageUnits - 1), count : 1..(2 * PageUnits)]
    /\ layout.off + layout.count <= BarPages * PageUnits
    /\ "msix" \notin caps => layout = [off |-> 0, count |-> 1]
    /\ cfg = NotSet /\ msi = 0
    /\ table = Entries /\ hv = Unmapped
    /\ phys = [msi |-> FALSE, msix |-> FALSE, mask |-> FALSE, intx |-> TRUE]
    /\ lost = {} /\ exited = FALSE /\ byGuest = FALSE
    /\ life = "off" /\ pin = FALSE
    /\ held = {} /\ pciaccess_ref_cnt = 0 /\ inherited = FALSE

\* Nothing is enabled on the virtual side, the message is copied from the device,
\* where it may be any, entries are masked, and the hypervisor is told of the
\* vectors (for MSI-X by init_msix_table).
cfginitmsi ==
    /\ cfg' \in {[NotSet EXCEPT !.msg = m] : m \in IF "msi" \in caps THEN Msgs ELSE {0}}
    /\ msi' = 0 /\ table' = Entries
    /\ held' = {"assigned"} \cup (IF caps = {} THEN {} ELSE {"vectors"})

\* IRQ_MSI
HasMessages == caps # {}

\* The pin is hidden from a guest that can use messages.
passthru_init ==
    /\ life = "off" /\ ~exited
    /\ life' = "init"
    /\ pciaccess_ref_cnt' = pciaccess_ref_cnt + 1
    /\ cfginitmsi
    /\ layout' = Done
    /\ pin' = ~(HasMessages /\ prefer_msi)
    /\ lost' = {} /\ byGuest' = FALSE /\ inherited' = (phys.msi \/ ~phys.intx)
    /\ UNCHANGED <<caps, prefer_msi, hv, phys, exited>>

\* The hypervisor does not give the device to the VM.
AssignFails == held' = {} /\ UNCHANGED pciaccess_ref_cnt

\* pciaccess_init, or the device is not found on the bus: it stays assigned.
AccessFails ==
    /\ held' = {"assigned"}
    /\ pciaccess_ref_cnt' \in {pciaccess_ref_cnt, pciaccess_ref_cnt + 1}

\* A BAR is not page aligned, has no room or is not mapped, before or after the
\* vectors of the MSI-X table are recorded; the device is given back.
cfginitbar_fails ==
    /\ held' \in IF "msix" \in caps THEN {{}, {"vectors"}} ELSE {IF HasMessages THEN {"vectors"} ELSE {}}
    /\ pciaccess_ref_cnt' = pciaccess_ref_cnt + 1

\* What fails ends the process.
InitFails ==
    /\ life = "off" /\ ~exited
    /\ exited' = TRUE
    /\ AssignFails \/ AccessFails \/ cfginitbar_fails
    /\ UNCHANGED <<caps, prefer_msi, layout, cfg, msi, table, hv, phys, lost, byGuest, life, pin, inherited>>

\* After all devices are initialised and INTx is routed.
passthru_bind_irq ==
    /\ life = "init"
    /\ life' = "run"
    /\ held' = IF pin THEN held \cup {"intx"} ELSE held
    /\ UNCHANGED <<caps, prefer_msi, layout, cfg, msi, table, hv, phys, lost, exited, byGuest, pin,
                   pciaccess_ref_cnt, inherited>>

vector_cnt == IF "msix" \in caps THEN Count ELSE IF "msi" \in caps THEN 1 ELSE 0

\* The hypervisor forgets pin, vectors and device; the physical device keeps what
\* it was told last; the virtual one is freed.
passthru_deinit ==
    /\ life = "run" /\ ~exited
    /\ life' = "off"
    /\ pciaccess_ref_cnt' = pciaccess_ref_cnt - 1
    /\ held' = held \ ({"intx", "assigned"} \cup (IF vector_cnt > 0 THEN {"vectors"} ELSE {}))
    /\ hv' = IF vector_cnt > 0 THEN Unmapped ELSE hv
    /\ cfg' = NotSet /\ msi' = 0 /\ table' = Entries /\ lost' = {}
    /\ UNCHANGED <<caps, prefer_msi, layout, phys, exited, byGuest, pin, inherited>>

Guest ==
    /\ life = "run" /\ ~exited
    /\ WriteEntry \/ WriteMsixControl \/ WriteMsiMessage \/ WriteMsiControl \/ WriteCommand

Next == passthru_init \/ InitFails \/ passthru_bind_irq \/ Guest \/ passthru_deinit

Spec == Init /\ [][Next]_vars

-----------------------------------------------------------------------------
(* Properties *)

\* Whatever order the guest programs, masks and enables in, an unmasked entry of
\* an enabled MSI-X table is mapped in the hypervisor as the guest wrote it and
\* the physical device sends it (msix_table_write, ptdev_msix_remap), unless the
\* hypervisor refused it.  A device that has MSI only sends the message latched
\* last while the guest has MSI on, and has its pin back otherwise
\* (ptdev_msi_remap), once the guest has written the control register if an
\* earlier VM left it changed: the device is not reset (passthru_deinit).
PtMessages ==
    life = "run" /\ ~exited =>
        /\ cfg.msix => \A i \in Index \ lost : table[i].masked \/ hv.msix[i] = table[i].msg
        /\ cfg.msix /\ lost = {} => phys.msix /\ ~phys.mask
        /\ caps = {"msi"} /\ ~inherited =>
             /\ hv.msi = IF cfg.msi THEN msi ELSE 0
             /\ phys.msi = (hv.msi # 0)
             /\ byGuest \/ phys.intx = ~phys.msi

\* The guest reaches every page of the BAR directly but the ones that hold a part
\* of the MSI-X table, wherever the table lies (init_msix_table).
PtMapsAllButTable ==
    layout # Done =>
    LET pages == {u \div PageUnits : u \in layout.off..(layout.off + layout.count - 1)}
    IN  Mapped(layout) = {u \in 0..(BarPages * PageUnits - 1) : u \div PageUnits \notin pages}

\* Between two VMs nothing of the device is left with the hypervisor or the PCI
\* library, whatever interrupts it has and the guest used (passthru_deinit); and
\* a guest always has one kind of interrupt to use (passthru_init).
PtReleased ==
    /\ life = "off" /\ ~exited => held = {} /\ pciaccess_ref_cnt = 0 /\ hv = Unmapped
    /\ life = "run" /\ ~exited => held \cap {"vectors", "intx"} # {}

\* Messages and memory of the device arrive where the guest has put them, and the
\* device is given back.
PtSound == PtMessages /\ PtMapsAllButTable /\ PtReleased
=============================================================================
