--------------------------------- MODULE Pm ---------------------------------
(***************************************************************************)
(* ACPI power management, hw/platform/pm.c: the reset port, the PM1 event, *)
(* enable and control registers, the SMI command port, the level of the    *)
(* SCI and the power button, over several VMs of the same process.  All    *)
(* the state of pm.c is static and outlives the VM; the line of the SCI,   *)
(* the event loop's entries and the context do not.                        *)
(*                                                                         *)
(* A handler that takes pm_lock holds it throughout, so it is one step; so *)
(* are the others, which only the request thread runs.  Of the PM1 status  *)
(* bits only the power button's is ever set.                               *)
(***************************************************************************)
EXTENDS Naturals

CONSTANT MaxVms          \* bound on the VMs that main starts

VARIABLES
    vm,              \* which VM main is at
    phase,           \* "run"; "destroyed": the event loop is gone; "exited"
    suspend,         \* suspend_mode
    reset_control,   \* bit 2 of the reset control register
    pm1_enable,      \* bits that can be set: "PWRBTN", "GBL"
    pm1_status,      \* PM1_PWRBTN_STS
    sci_en,          \* PM1_SCI_EN in pm1_control
    sci_active,
    line,            \* level of SCI_INT in the current VM
    power_button,    \* 0: NULL, otherwise the VM whose context it was given
    entry,           \* the event loop's entry: 0, or the VM of its context
    ignored,         \* SIGTERM is ignored
    old_ignored,     \* old_power_handler is SIG_IGN
    sigterm,         \* history: "none", "discarded", "killed"
    pressed,         \* history: power_button_handler has run
    stale            \* history: the level was cached across a change of VM

regs == <<reset_control, pm1_enable, pm1_status, sci_en>>
button == <<power_button, entry, ignored, old_ignored>>
history == <<sigterm, pressed>>
vars == <<vm, phase, suspend, regs, sci_active, line, button, history, stale>>

Init ==
    /\ vm = 1 /\ phase = "run" /\ suspend = "none"
    /\ reset_control = FALSE /\ pm1_enable = {} /\ pm1_status = FALSE /\ sci_en = FALSE
    /\ sci_active = FALSE /\ line = FALSE
    /\ power_button = 0 /\ entry = 0 /\ ignored = FALSE /\ old_ignored = FALSE
    /\ sigterm = "none" /\ pressed = FALSE /\ stale = FALSE

\* The request thread still runs, and nobody has killed the process.
Guest == phase # "exited" /\ sigterm # "killed"

----------------------------------------------------------------------------
(* The SCI. *)

\* sci_update with the context of VM v: sci_assert or sci_deassert, which send
\* nothing when sci_active already has the value.
sci_update(v, enable, status) ==
    LET need == "PWRBTN" \in enable /\ status IN
    /\ sci_active' = need
    /\ line' = IF need # sci_active /\ v = vm THEN need ELSE line
    /\ stale' = (stale \/ (need # sci_active /\ v # vm))

\* Mutant: clearing the status leaves the level alone.
pm1_status_handlerNoUpdate(clear) ==
    /\ Guest
    /\ pm1_status' = (pm1_status /\ ~clear)
    /\ UNCHANGED <<vm, phase, suspend, reset_control, pm1_enable, sci_en, sci_active,
                   line, stale, button, history>>

\* A write of 1 clears the power button's status.
pm1_status_handler(clear) ==
    /\ Guest
    /\ pm1_status' = (pm1_status /\ ~clear)
    /\ sci_update(vm, pm1_enable, pm1_status')
    /\ UNCHANGED <<vm, phase, suspend, reset_control, pm1_enable, sci_en, button, history>>

pm1_enable_handler(bits) ==
    /\ Guest
    /\ pm1_enable' = bits
    /\ sci_update(vm, bits, pm1_status)
    /\ UNCHANGED <<vm, phase, suspend, reset_control, pm1_status, sci_en, button, history>>

\* The entry is for descriptor number SIGTERM, with no events asked for: it
\* fires when whatever has that number reports an error or a hang-up.
power_button_handler ==
    /\ phase = "run" /\ sigterm # "killed" /\ entry # 0
    /\ pressed' = TRUE
    /\ IF pm1_status
       THEN UNCHANGED <<pm1_status, sci_active, line, stale>>
       ELSE /\ pm1_status' = TRUE
            /\ sci_update(entry, pm1_enable, TRUE)
    /\ UNCHANGED <<vm, phase, suspend, reset_control, pm1_enable, sci_en, button, sigterm>>

----------------------------------------------------------------------------
(* The control registers. *)

\* The reset port: soft and hard resets are the same.
reset_handler(bit2) ==
    /\ Guest
    /\ reset_control' = bit2
    /\ suspend' = IF bit2 THEN "reset" ELSE suspend
    /\ UNCHANGED <<vm, phase, pm1_enable, pm1_status, sci_en, sci_active, line, button,
                   history, stale>>

\* SLP_EN with the type of S5 powers off; SCI_EN is preserved.
pm1_control_handler(slp_en, s5) ==
    /\ Guest
    /\ suspend' = IF slp_en /\ s5 THEN "poweroff" ELSE suspend
    /\ UNCHANGED <<vm, phase, regs, sci_active, line, button, history, stale>>

\* ACPI_ENABLE.  mevent_add refuses a second entry for the same descriptor, be it
\* one that waits for its deletion.
AcpiEnable ==
    /\ Guest
    /\ sci_en' = TRUE
    /\ IF power_button = 0
       THEN /\ entry' = IF entry = 0 THEN vm ELSE entry
            /\ power_button' = IF entry = 0 THEN vm ELSE 0
            /\ ignored' = TRUE /\ old_ignored' = ignored
       ELSE UNCHANGED button
    /\ UNCHANGED <<vm, phase, suspend, reset_control, pm1_enable, pm1_status, sci_active,
                   line, history, stale>>

\* ACPI_DISABLE: mevent_delete of what power_button points to, which stays in the
\* event loop's list until mevent_build, and the old disposition of SIGTERM.  If
\* mevent_destroy has freed the entry the delete works on freed memory, and the
\* process may crash.
AcpiDisable ==
    /\ Guest
    /\ sci_en' = FALSE
    /\ IF power_button # 0
       THEN power_button' = 0 /\ ignored' = old_ignored /\ UNCHANGED <<entry, old_ignored>>
       ELSE UNCHANGED button
    /\ \/ UNCHANGED phase
       \/ power_button # 0 /\ entry # power_button /\ phase' = "exited"
    /\ UNCHANGED <<vm, suspend, reset_control, pm1_enable, pm1_status, sci_active, line,
                   history, stale>>

----------------------------------------------------------------------------
(* The process around it. *)

\* The event loop drops the entry that power_button has given up.
mevent_build ==
    /\ phase = "run" /\ sigterm # "killed" /\ entry # 0 /\ power_button = 0
    /\ entry' = 0
    /\ UNCHANGED <<vm, phase, suspend, regs, sci_active, line, power_button, ignored, old_ignored,
                   history, stale>>

\* SIGTERM: the default action ends the process.
Sigterm ==
    /\ Guest /\ sigterm = "none"
    /\ sigterm' = IF ignored THEN "discarded" ELSE "killed"
    /\ UNCHANGED <<vm, phase, suspend, regs, sci_active, line, button, pressed, stale>>

\* The dispatch loop ends: mevent_destroy frees its entries.
mevent_destroy ==
    /\ phase = "run" /\ suspend # "none" /\ sigterm # "killed"
    /\ phase' = "destroyed" /\ entry' = 0
    /\ UNCHANGED <<vm, suspend, regs, sci_active, line, power_button, ignored, old_ignored,
                   history, stale>>

\* The VM is destroyed; main stops, or builds the next one, whose lines are low.
EndVm ==
    /\ phase = "destroyed" /\ sigterm # "killed"
    /\ \/ suspend = "poweroff" /\ phase' = "exited" /\ UNCHANGED <<vm, suspend, line, stale>>
       \/ /\ suspend = "reset" /\ vm < MaxVms
          /\ vm' = vm + 1 /\ phase' = "run" /\ suspend' = "none" /\ line' = FALSE
          /\ stale' = (stale \/ sci_active)
    /\ UNCHANGED <<regs, sci_active, button, history>>

Idle == UNCHANGED vars

Next ==
    \/ \E b \in BOOLEAN : pm1_status_handler(b) \/ reset_handler(b)
    \/ \E bits \in SUBSET {"PWRBTN", "GBL"} : pm1_enable_handler(bits)
    \/ \E a, b \in BOOLEAN : pm1_control_handler(a, b)
    \/ AcpiEnable \/ AcpiDisable
    \/ power_button_handler \/ Sigterm
    \/ mevent_build \/ mevent_destroy \/ EndVm \/ Idle

Spec == Init /\ [][Next]_vars
=============================================================================
