---------------------------- MODULE LifeState -----------------------------
(***************************************************************************)
(* The state of the life cycle of the VM (module Lifecycle), under the     *)
(* names it has beside power management and the watchdog, and what is      *)
(* asked of it.                                                            *)
(***************************************************************************)
EXTENDS PlatformBounds

CONSTANTS Vcpus

VARIABLES lvm, mpc, lsuspend, lpipe, quit, lpc, client, req, paused, mem, devs, tpc, int, killed, early

lvars == <<lvm, mpc, lsuspend, lpipe, quit, lpc, client, req, paused, mem, devs, tpc, int, killed, early>>

\* Type invariant of the life cycle.
LifeTypeOK ==
    /\ lvm \in 1 .. MaxVms /\ lsuspend \in {"none", "reset", "poweroff"}
    /\ lpipe \in {"none", "empty", "byte", "broken"}
    /\ lpc \in {"none", "create", "attach", "serve", "notify", "leave"}
    /\ client \in {"none", "live", "destroyed"} /\ tpc \in {"idle", "notify", "done"}
    /\ req \in [Vcpus -> {"none", "io", "reset", "poweroff"}]
    /\ mem \in BOOLEAN /\ devs \in BOOLEAN /\ quit \in BOOLEAN /\ paused \in BOOLEAN

\* While the request thread may be in a handler, guest memory is mapped and the
\* devices exist: main unmaps and frees only after the handshake on quit_vm_loop
\* (fbsdrun_deletecpu, vm_loop); with the type invariant.
ServedAlive ==
    /\ LifeTypeOK
    /\ (lpc \in {"create", "attach", "serve", "notify"}) => mem /\ devs
============================================================================
