--------------------------- MODULE PlatformBounds ---------------------------
(***************************************************************************)
(* What the parts of the platform have in common: how many VMs follow each *)
(* other in one process, and the timeouts the guest asks the watchdog for. *)
(***************************************************************************)
EXTENDS Integers

CONSTANTS MaxVms, Timeouts

\* There is a VM; timeouts are none or some seconds.
ASSUME PlatformAssumption == MaxVms \in Nat \ {0} /\ Timeouts \subseteq {0, 1}
=============================================================================
