-------------------------------- MODULE Wdt --------------------------------
(***************************************************************************)
(* The watchdog device (hw/pci/wdt_i6300esb.c): the guest's writes, on the *)
(* request thread, and the expiry of its timer, for which the C library    *)
(* starts a thread each time.  They share wdt_state without a lock.  A     *)
(* timeout is abstracted to the whole seconds it is rounded to: none, or   *)
(* some.  timer_settime with no seconds disarms the timer.  A timer is     *)
(* never deleted: one whose identifier is overwritten fires on its own.    *)
(***************************************************************************)
EXTENDS Naturals

CONSTANTS Expiries,     \* expiry threads that may exist at a time
          Timeouts,     \* seconds the guest's timeouts are rounded to: of {0, 1}
          MaxVms        \* bound on the VMs

VARIABLES
    vm,
    reboot_enabled, locked, wdt_enabled,
    timer,        \* the timer of wdt_timerid: "none", "idle" or "armed"
    stray,        \* armed timers whose identifier is lost
    created,      \* timer_created
    seconds,      \* TIMER_TO_SECONDS of timer1_val and timer2_val: 0, or 1 for more
    stage, unlock_state,
    gpc,          \* request thread, and "down" between two VMs
    gsec,         \* the seconds it is about to arm the timer with
    xpc, xsec,    \* the same for each expiry thread
    suspend,      \* a reset of this VM has been requested
    failed,       \* exit(-1)
    calm          \* history: no timeout below a second was ever programmed, and no
                  \* expiry thread outlived its VM

vars == <<vm, reboot_enabled, locked, wdt_enabled, timer, stray, created, seconds,
          stage, unlock_state, gpc, gsec, xpc, xsec, suspend, failed, calm>>

regs == <<reboot_enabled, locked, wdt_enabled, seconds, stage, unlock_state, calm>>
timers == <<timer, stray, created>>

Init ==
    /\ vm = 1 /\ reboot_enabled = TRUE /\ locked = FALSE /\ wdt_enabled = FALSE
    /\ timer = "none" /\ stray = 0 /\ created = FALSE
    /\ seconds = <<1, 1>> /\ stage = 1 /\ unlock_state = 0 /\ gpc = "idle" /\ gsec = 0
    /\ xpc = [x \in Expiries |-> "idle"] /\ xsec = [x \in Expiries |-> 0]
    /\ suspend = FALSE /\ failed = FALSE /\ calm = TRUE

Armed(sec) == IF sec = 0 THEN "idle" ELSE "armed"

\* The seconds start_wdt_timer reads.
StageSeconds == seconds[IF stage = 1 THEN 1 ELSE 2]

\* reset_wdt_timer; with the identifier gone it ends the program.
settime(sec) ==
    /\ timer' = IF timer = "none" THEN "none" ELSE Armed(sec)
    /\ failed' = (timer = "none")
    /\ UNCHANGED <<stray, created>>

\* timer_create, timer_settime; the identifier of another creator is lost.
create(sec) ==
    /\ timer' = Armed(sec) /\ created' = TRUE
    /\ stray' = IF timer = "armed" THEN stray + 1 ELSE stray
    /\ UNCHANGED failed

-----------------------------------------------------------------------------
(* The request thread. *)

Guest == ~failed /\ gpc = "idle"

\* pci_wdt_cfg_write of ESB_CONFIG_REG.
WriteConfig(reboot) ==
    /\ Guest
    /\ reboot_enabled' = reboot
    /\ UNCHANGED <<vm, locked, wdt_enabled, timers, seconds, stage, unlock_state, gpc, gsec,
                   xpc, xsec, suspend, failed, calm>>

\* pci_wdt_cfg_write of ESB_LOCK_REG.
WriteLock(lock, enable) ==
    /\ Guest /\ ~locked
    /\ locked' = lock /\ wdt_enabled' = enable
    /\ stage' = IF ~wdt_enabled /\ enable THEN 1 ELSE stage
    /\ gpc' = IF ~wdt_enabled /\ enable THEN "start" ELSE IF ~enable THEN "stop" ELSE "idle"
    /\ UNCHANGED <<vm, reboot_enabled, timers, seconds, unlock_state, gsec, xpc, xsec,
                   suspend, failed, calm>>

\* pci_wdt_bar_write of ESB_RELOAD_REG: the two unlocking values and the kick.
WriteReload(value) ==
    LET kick == value = "reload" /\ unlock_state = 2
    IN /\ Guest
       /\ unlock_state' = IF value = "unlock1" THEN 1
                          ELSE IF value = "unlock2" /\ unlock_state = 1 THEN 2
                          ELSE IF kick THEN 0 ELSE unlock_state
       /\ stage' = IF kick THEN 1 ELSE stage
       /\ gpc' = IF kick THEN "start" ELSE "idle"
       /\ UNCHANGED <<vm, reboot_enabled, locked, wdt_enabled, timers, seconds, gsec, xpc,
                      xsec, suspend, failed, calm>>

\* pci_wdt_bar_write of ESB_TIMER1_REG, ESB_TIMER2_REG or, with i = 0, another
\* offset.
WriteTimer(i, sec) ==
    /\ Guest /\ unlock_state = 2
    /\ seconds' = [k \in {1, 2} |-> IF k = i THEN sec ELSE seconds[k]]
    /\ calm' = (calm /\ (i = 0 \/ sec > 0))
    /\ unlock_state' = 0
    /\ UNCHANGED <<vm, reboot_enabled, locked, wdt_enabled, timers, stage, gpc, gsec, xpc,
                   xsec, suspend, failed>>

\* start_wdt_timer: the look at wdt_enabled, the stage and timer_created, ...
GuestStart ==
    /\ ~failed /\ gpc = "start"
    /\ gpc' = IF ~wdt_enabled THEN "idle" ELSE IF created THEN "arm" ELSE "create"
    /\ gsec' = IF wdt_enabled THEN StageSeconds ELSE 0
    /\ UNCHANGED <<vm, regs, timers, xpc, xsec, suspend, failed>>

\* ... then the timer itself.
GuestArm ==
    /\ ~failed
    /\ \/ gpc = "arm" /\ settime(gsec)
       \/ gpc = "create" /\ create(gsec)
    /\ gpc' = "idle" /\ gsec' = 0
    /\ UNCHANGED <<vm, regs, xpc, xsec, suspend>>

stop_wdt_timer ==
    /\ ~failed /\ gpc = "stop"
    /\ timer' = IF created THEN "idle" ELSE timer
    /\ gpc' = "idle"
    /\ UNCHANGED <<vm, regs, stray, created, gsec, xpc, xsec, suspend, failed>>

-----------------------------------------------------------------------------
(* wdt_expired_thread. *)

\* A timer fires once.
Fire(x) ==
    /\ ~failed /\ xpc[x] = "idle"
    /\ \/ timer = "armed" /\ timer' = "idle" /\ UNCHANGED stray
       \/ stray > 0 /\ stray' = stray - 1 /\ UNCHANGED timer
    /\ xpc' = [xpc EXCEPT ![x] = "check"]
    /\ UNCHANGED <<vm, regs, created, gpc, gsec, xsec, suspend, failed>>

ExpCheck(x) ==
    /\ ~failed /\ xpc[x] = "check"
    /\ \/ /\ stage = 1
          /\ xpc' = [xpc EXCEPT ![x] = "set2"] /\ UNCHANGED suspend
       \/ /\ stage # 1 /\ reboot_enabled
          /\ suspend' = TRUE
          /\ xpc' = [xpc EXCEPT ![x] = "idle"]
       \/ /\ stage # 1 /\ ~reboot_enabled
          /\ xpc' = [xpc EXCEPT ![x] = "set1"] /\ UNCHANGED suspend
    /\ UNCHANGED <<vm, regs, timers, gpc, gsec, xsec, failed>>

\* Mutant: the timer is not started for the second stage.
ExpStageNoStart(x) ==
    /\ ~failed /\ xpc[x] \in {"set1", "set2"}
    /\ stage' = IF xpc[x] = "set2" THEN 2 ELSE 1
    /\ xpc' = [xpc EXCEPT ![x] = "idle"]
    /\ UNCHANGED <<vm, reboot_enabled, locked, wdt_enabled, timers, seconds, unlock_state,
                   gpc, gsec, xsec, suspend, failed, calm>>

ExpStage(x) ==
    /\ ~failed /\ xpc[x] \in {"set1", "set2"}
    /\ stage' = IF xpc[x] = "set2" THEN 2 ELSE 1
    /\ xpc' = [xpc EXCEPT ![x] = "start"]
    /\ UNCHANGED <<vm, reboot_enabled, locked, wdt_enabled, timers, seconds, unlock_state,
                   gpc, gsec, xsec, suspend, failed, calm>>

\* start_wdt_timer again; here the VM may end between its reads.
ExpStart(x) ==
    /\ ~failed /\ xpc[x] = "start"
    /\ xpc' = [xpc EXCEPT ![x] = IF wdt_enabled THEN "read" ELSE "idle"]
    /\ UNCHANGED <<vm, regs, timers, gpc, gsec, xsec, suspend, failed>>

ExpRead(x) ==
    /\ ~failed /\ xpc[x] = "read"
    /\ xpc' = [xpc EXCEPT ![x] = IF created THEN "arm" ELSE "create"]
    /\ xsec' = [xsec EXCEPT ![x] = StageSeconds]
    /\ UNCHANGED <<vm, regs, timers, gpc, gsec, suspend, failed>>

ExpArm(x) ==
    /\ ~failed
    /\ \/ xpc[x] = "arm" /\ settime(xsec[x])
       \/ xpc[x] = "create" /\ create(xsec[x])
    /\ xpc' = [xpc EXCEPT ![x] = "idle"] /\ xsec' = [xsec EXCEPT ![x] = 0]
    /\ UNCHANGED <<vm, regs, gpc, gsec, suspend>>

-----------------------------------------------------------------------------
(* The VM ends, once the request thread has left, and the next one begins. *)
(* Expiry threads go on meanwhile.                                         *)

\* The timer is stopped and forgotten, everything is zero.
pci_wdt_deinit ==
    /\ Guest /\ vm < MaxVms
    /\ gpc' = "down"
    /\ reboot_enabled' = FALSE /\ locked' = FALSE /\ wdt_enabled' = FALSE
    /\ stray' = IF timer = "armed" /\ ~created THEN stray + 1 ELSE stray
    /\ timer' = "none" /\ created' = FALSE
    /\ seconds' = <<0, 0>> /\ stage' = 0 /\ unlock_state' = 0
    /\ calm' = (calm /\ \A x \in Expiries : xpc[x] = "idle")
    /\ UNCHANGED <<vm, gsec, xpc, xsec, suspend, failed>>

pci_wdt_init ==
    /\ ~failed /\ gpc = "down"
    /\ gpc' = "idle" /\ vm' = vm + 1 /\ suspend' = FALSE
    /\ reboot_enabled' = TRUE /\ locked' = FALSE /\ wdt_enabled' = FALSE
    /\ created' = FALSE
    /\ seconds' = <<1, 1>> /\ stage' = 1 /\ unlock_state' = 0
    /\ UNCHANGED <<timer, stray, gsec, xpc, xsec, failed, calm>>

Exited == failed /\ UNCHANGED vars

GuestStep == GuestStart \/ GuestArm \/ stop_wdt_timer
Expiry(x) == ExpCheck(x) \/ ExpStage(x) \/ ExpStart(x) \/ ExpRead(x) \/ ExpArm(x)

Next ==
    \/ \E b \in BOOLEAN : WriteConfig(b)
    \/ \E l, e \in BOOLEAN : WriteLock(l, e)
    \/ \E v \in {"unlock1", "unlock2", "reload"} : WriteReload(v)
    \/ \E i \in 0 .. 2, s \in Timeouts : WriteTimer(i, s)
    \/ GuestStep
    \/ \E x \in Expiries : Fire(x) \/ Expiry(x)
    \/ pci_wdt_deinit \/ pci_wdt_init \/ Exited

Spec == Init /\ [][Next]_vars

-----------------------------------------------------------------------------
(* Properties. *)

\* Type invariant of the watchdog.
TypeOK ==
    /\ vm \in 1 .. MaxVms /\ timer \in {"none", "idle", "armed"} /\ stray \in Nat
    /\ reboot_enabled \in BOOLEAN /\ locked \in BOOLEAN /\ wdt_enabled \in BOOLEAN
    /\ created \in BOOLEAN /\ suspend \in BOOLEAN /\ failed \in BOOLEAN /\ calm \in BOOLEAN
    /\ seconds \in [1 .. 2 -> {0, 1}] /\ stage \in 0 .. 2 /\ unlock_state \in 0 .. 2
    /\ gpc \in {"idle", "start", "arm", "create", "stop", "down"} /\ gsec \in {0, 1}
    /\ xpc \in [Expiries -> {"idle", "check", "set1", "set2", "start", "read", "arm", "create"}]
    /\ xsec \in [Expiries -> {0, 1}]

\* An enabled watchdog with timeouts of whole seconds is never left without a
\* timer that runs, a thread about to look at it, or a thread about to start it,
\* until it has asked for the reset (and as long as no expiry thread of an earlier
\* VM has interfered, which may disarm the timer for good): no interleaving of
\* kicks, switching and expiries loses the restart of the timer (start_wdt_timer, reset_wdt_timer).
NeverAsleep ==
    (wdt_enabled /\ calm /\ ~suspend /\ ~failed)
      => \/ timer = "armed" \/ stray > 0 \/ gpc \in {"start", "arm", "create"}
         \/ \E x \in Expiries : xpc[x] # "idle"

\* "if time out, it will trigger reboot": a watchdog that stays enabled, with
\* timeouts of whole seconds, and is not kicked any more resets the VM.
Barks ==
    <>[](wdt_enabled /\ reboot_enabled /\ calm /\ gpc = "idle" /\ ~failed)
        => <>[]suspend

\* "If true, enabled field cannot be changed.": while the watchdog is locked only
\* the end of the VM switches it off.
LockHolds == [][locked /\ gpc' # "down" => locked' /\ wdt_enabled' = wdt_enabled]_vars

=============================================================================
