---------------------------- MODULE MCPlatform ----------------------------
(***************************************************************************)
(* The life cycle of the VM and the platform devices that take part in it, *)
(* model-checked side by side: a behaviour is one of Lifecycle, Wdt        *)
(* (watchdog), Pm (power management) or RtcTime (dates), as part says;     *)
(* the others stand still in one initial state.  They share no variable; a *)
(* name that two have differs by a prefix here.                            *)
(***************************************************************************)
EXTENDS LifeState, PmState, RtcTime

CONSTANTS Expiries

\* 1970 to 1972, around the end of 1999, and 2099 to 2101.
MCPeriods == {<<0, 1100>>, <<10900, 11400>>, <<47400, 47900>>}

VARIABLES part,
          wvm, reboot_enabled, locked, wdt_enabled, timer, stray, created, seconds, stage, unlock_state,
          gpc, gsec, xpc, xsec, wsuspend, failed, calm

L == INSTANCE Lifecycle WITH vm <- lvm, suspend <- lsuspend, pipe <- lpipe
P == INSTANCE Pm WITH vm <- pvm, suspend <- psuspend
W == INSTANCE Wdt WITH vm <- wvm, suspend <- wsuspend

wvars == <<wvm, reboot_enabled, locked, wdt_enabled, timer, stray, created, seconds, stage, unlock_state,
           gpc, gsec, xpc, xsec, wsuspend, failed, calm>>
allvars == <<part, vars, lvars, wvars, pvars>>

InLife(A) == part = "life" /\ A /\ UNCHANGED <<part, vars, wvars, pvars>>
InWdt(A) == part = "wdt" /\ A /\ UNCHANGED <<part, vars, lvars, pvars>>
InPm(A) == part = "pm" /\ A /\ UNCHANGED <<part, vars, lvars, wvars>>
InDates(A) == part = "dates" /\ A /\ UNCHANGED <<part, lvars, wvars, pvars>>

MCInit ==
    /\ part \in {"life", "wdt", "pm", "dates"}
    /\ Init /\ L!Init /\ W!Init /\ P!Init
    /\ part # "dates" => day = 0

\* The last day of a period.
DatesEnd == day = last /\ UNCHANGED vars

MCNext == InLife(L!Next) \/ InWdt(W!Next) \/ InPm(P!Next) \/ InDates(Next \/ DatesEnd)

\* The threads of Lifecycle and Wdt run, and an armed timer fires.
MCSpec ==
    /\ MCInit /\ [][MCNext]_allvars
    /\ WF_allvars(InLife(L!MainStep)) /\ WF_allvars(InLife(L!LoopStep))
    /\ WF_allvars(InLife(L!WdtNotify))
    /\ WF_allvars(InWdt(W!GuestStep)) /\ WF_allvars(InWdt(\E x \in Expiries : W!Fire(x)))
    /\ \A x \in Expiries : WF_allvars(InWdt(W!Expiry(x)))

\* A suspend request notified while the loop has its pipe ends the VM, and a
\* teardown that has begun comes to its end (main, vm_loop, mevent_dispatch).
SuspendEndsVm == L!SuspendEndsVm

\* No interleaving of kicks, switching and expiries loses the restart of an
\* enabled watchdog's timer (start_wdt_timer, reset_wdt_timer), the lock protects
\* the enable bit until the VM ends (pci_wdt_cfg_write), and a watchdog that stays
\* enabled and is not kicked any more resets the VM (wdt_expired_thread).
WdtWorks == [](W!TypeOK /\ W!NeverAsleep) /\ W!LockHolds /\ W!Barks

\* The bytes of the clock show the Gregorian date of a moment and are read back
\* as the same moment, in every format (secs_to_rtc, rtc_to_secs).
DateShown == part = "dates" => DateKept
===========================================================================
