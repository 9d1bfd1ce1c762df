----------------------------- MODULE PmState ------------------------------
(***************************************************************************)
(* The state of power management (module Pm), under the names it has       *)
(* beside the life cycle and the watchdog, and what is asked of it.        *)
(***************************************************************************)
EXTENDS PlatformBounds

VARIABLES pvm, phase, psuspend, reset_control, pm1_enable, pm1_status, sci_en, sci_active, line,
          power_button, entry, ignored, old_ignored, sigterm, pressed, stale

pvars == <<pvm, phase, psuspend, reset_control, pm1_enable, pm1_status, sci_en, sci_active, line,
           power_button, entry, ignored, old_ignored, sigterm, pressed, stale>>

\* Type invariant of power management.
PmTypeOK ==
    /\ pvm \in 1 .. MaxVms /\ phase \in {"run", "destroyed", "exited"}
    /\ psuspend \in {"none", "reset", "poweroff"}
    /\ reset_control \in BOOLEAN /\ pm1_enable \subseteq {"PWRBTN", "GBL"}
    /\ pm1_status \in BOOLEAN /\ sci_en \in BOOLEAN /\ sci_active \in BOOLEAN
    /\ line \in BOOLEAN /\ power_button \in 0 .. MaxVms /\ entry \in 0 .. MaxVms
    /\ ignored \in BOOLEAN /\ old_ignored \in BOOLEAN
    /\ sigterm \in {"none", "discarded", "killed"}
    /\ pressed \in BOOLEAN /\ stale \in BOOLEAN

\* "ACPI's SCI is a level-triggered interrupt" (pm.c:80): through presses of the
\* power button on main's thread and writes of the guest on another, the line is
\* high exactly while an enabled status bit is set, and ACPI mode, the event and
\* the disposition of SIGTERM go together (sci_update, smi_cmd_handler); with the type
\* invariant.  (Unless a VM ended with the SCI high, or the button acted on the
\* context of an earlier VM: sci_active is static.)
SciLevel ==
    /\ PmTypeOK
    /\ ~stale => (line <=> "PWRBTN" \in pm1_enable /\ pm1_status)
    /\ power_button # 0 => sci_en /\ ignored
============================================================================
