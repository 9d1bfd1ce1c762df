----------------------------- MODULE Lifecycle -----------------------------
(***************************************************************************)
(* The life of a VM: the loop of main (core/main.c), which builds the VM,  *)
(* dispatches events until a suspend mode is set, tears the VM down and    *)
(* starts the next one; the thread that serves the guest's I/O requests    *)
(* (vm_loop); the expiry thread of the watchdog; SIGINT; and the suspend   *)
(* mode and the notification pipe by which they tell main to stop          *)
(* (core/vmmapi.c, core/mevent.c).  Events and their lists are the subject *)
(* of module Mevent, the watchdog's own state that of module Wdt.          *)
(***************************************************************************)
EXTENDS Naturals

CONSTANTS Vcpus,        \* slots of vhm_req_buf
          MaxVms        \* bound on the VMs that main starts

Modes == {"none", "reset", "poweroff"}

VARIABLES
    vm,          \* which VM main is at
    mpc,         \* where main is
    suspend,     \* suspend_mode
    pipe,        \* "none", "empty", "byte", or "broken" (read end closed)
    quit,        \* quit_vm_loop
    lpc,         \* where vm_loop is
    client,      \* ioreq client: "none", "live" or "destroyed"
    req,         \* request of each vCPU: "none", "io", "reset", "poweroff"
    paused,      \* vm_pause
    mem, devs,   \* guest memory is mapped; the devices are initialised
    tpc,         \* expiry thread: "idle", "notify", "done"
    int,         \* SIGINT: "none", or "taken"
    killed,      \* SIGPIPE or abort has ended the process
    early        \* history: the ioreq client was destroyed before it existed

vars == <<vm, mpc, suspend, pipe, quit, lpc, client, req, paused, mem, devs, tpc, int,
          killed, early>>

\* A notification from a thread other than main's.  A write to a pipe nobody
\* can read raises SIGPIPE, which nothing handles.
mevent_notify ==
    /\ pipe' = IF pipe = "empty" THEN "byte" ELSE pipe
    /\ killed' = (pipe = "broken")

NoReq == [v \in Vcpus |-> "none"]

Init ==
    /\ vm = 1 /\ mpc = "setup" /\ suspend = "none" /\ pipe = "none" /\ quit = FALSE
    /\ lpc = "none" /\ client = "none" /\ req = NoReq /\ paused = FALSE
    /\ mem = FALSE /\ devs = FALSE /\ tpc = "idle" /\ int = "none"
    /\ killed = FALSE /\ early = FALSE

-----------------------------------------------------------------------------
(* main. *)

Main(from, to) == ~killed /\ mpc = from /\ mpc' = to

\* do_open up to acrn_sw_load: memory, ranges, devices, tables.
Setup ==
    /\ Main("setup", "addcpu")
    /\ mem' = TRUE /\ devs' = TRUE /\ paused' = FALSE
    /\ client' = "none" /\ req' = NoReq
    /\ UNCHANGED <<vm, suspend, pipe, quit, lpc, tpc, int, killed, early>>

\* A step of the set-up fails: main says so and exits.
SetupFails ==
    /\ Main("setup", "exited")
    /\ UNCHANGED <<vm, suspend, pipe, quit, lpc, client, req, paused, mem, devs, tpc, int,
                   killed, early>>

fbsdrun_addcpu ==
    /\ Main("addcpu", "pipe")
    /\ lpc' = "create"
    /\ UNCHANGED <<vm, suspend, pipe, quit, client, req, paused, mem, devs, tpc, int,
                   killed, early>>

\* The start of mevent_dispatch.
OpenPipe ==
    /\ Main("pipe", "epoll")
    /\ pipe' = "empty"
    /\ UNCHANGED <<vm, suspend, quit, lpc, client, req, paused, mem, devs, tpc, int,
                   killed, early>>

\* epoll_wait returns, for the pipe or for another event; the pipe is drained.
EpollReturns ==
    /\ Main("epoll", "check")
    /\ pipe' = "empty"
    /\ UNCHANGED <<vm, suspend, quit, lpc, client, req, paused, mem, devs, tpc, int,
                   killed, early>>

\* Mutant: the dispatch loop ends for a reset only.
CheckSuspendReset ==
    /\ Main("check", IF suspend # "reset" THEN "epoll" ELSE "destroy")
    /\ UNCHANGED <<vm, suspend, pipe, quit, lpc, client, req, paused, mem, devs, tpc, int,
                   killed, early>>

CheckSuspend ==
    /\ Main("check", IF suspend = "none" THEN "epoll" ELSE "destroy")
    /\ UNCHANGED <<vm, suspend, pipe, quit, lpc, client, req, paused, mem, devs, tpc, int,
                   killed, early>>

\* mevent_destroy closes the read end along with the other descriptors.
mevent_destroy ==
    /\ Main("destroy", "pause")
    /\ pipe' = "broken"
    /\ UNCHANGED <<vm, suspend, quit, lpc, client, req, paused, mem, devs, tpc, int,
                   killed, early>>

vm_pause ==
    /\ Main("pause", "quit")
    /\ paused' = TRUE
    /\ UNCHANGED <<vm, suspend, pipe, quit, lpc, client, req, mem, devs, tpc, int,
                   killed, early>>

\* fbsdrun_deletecpu: raise the flag, destroy the client, wait for the flag.
RaiseQuit ==
    /\ Main("quit", "client")
    /\ quit' = TRUE
    /\ UNCHANGED <<vm, suspend, pipe, lpc, client, req, paused, mem, devs, tpc, int,
                   killed, early>>

DestroyClient ==
    /\ Main("client", "spin")
    /\ client' = IF client = "live" THEN "destroyed" ELSE client
    /\ early' = (client = "none")
    /\ UNCHANGED <<vm, suspend, pipe, quit, lpc, req, paused, mem, devs, tpc, int, killed>>

\* Mutant: main does not wait for the request thread.
AwaitQuitNot ==
    /\ Main("spin", "unmap")
    /\ UNCHANGED <<vm, suspend, pipe, quit, lpc, client, req, paused, mem, devs, tpc, int,
                   killed, early>>

AwaitQuit ==
    /\ Main("spin", "unmap")
    /\ ~quit
    /\ UNCHANGED <<vm, suspend, pipe, quit, lpc, client, req, paused, mem, devs, tpc, int,
                   killed, early>>

vm_unsetup_memory ==
    /\ Main("unmap", "close")
    /\ mem' = FALSE
    /\ UNCHANGED <<vm, suspend, pipe, quit, lpc, client, req, paused, devs, tpc, int,
                   killed, early>>

do_close_post ==
    /\ Main("close", "decide")
    /\ devs' = FALSE
    /\ UNCHANGED <<vm, suspend, pipe, quit, lpc, client, req, paused, mem, tpc, int,
                   killed, early>>

Decide ==
    /\ Main("decide", IF suspend = "reset" THEN "again" ELSE "exited")
    /\ UNCHANGED <<vm, suspend, pipe, quit, lpc, client, req, paused, mem, devs, tpc, int,
                   killed, early>>

Again ==
    /\ Main("again", "setup") /\ vm < MaxVms
    /\ suspend' = "none" /\ vm' = vm + 1
    /\ tpc' = IF tpc = "done" THEN "idle" ELSE tpc
    /\ UNCHANGED <<pipe, quit, lpc, client, req, paused, mem, devs, int, killed, early>>

-----------------------------------------------------------------------------
(* vm_loop, and the guest that keeps it busy. *)

Loop(from, to) == ~killed /\ mpc # "exited" /\ lpc = from /\ lpc' = to

CreateClient ==
    /\ Loop("create", "attach")
    /\ client' = "live"
    /\ UNCHANGED <<vm, mpc, suspend, pipe, quit, req, paused, mem, devs, tpc, int,
                   killed, early>>

\* A vCPU of the running VM exits.
GuestRequest(v, k) ==
    /\ ~killed /\ client = "live" /\ ~paused /\ req[v] = "none"
    /\ req' = [req EXCEPT ![v] = k]
    /\ UNCHANGED <<vm, mpc, suspend, pipe, quit, lpc, client, paused, mem, devs, tpc, int,
                   killed, early>>

\* vm_attach_ioreq_client returns 0: a request is there.
AttachReturns ==
    /\ Loop("attach", "serve")
    /\ client = "live" /\ \E v \in Vcpus : req[v] # "none"
    /\ UNCHANGED <<vm, mpc, suspend, pipe, quit, client, req, paused, mem, devs, tpc, int,
                   killed, early>>

\* It returns an error: the client is gone.
AttachFails ==
    /\ Loop("attach", "leave")
    /\ client = "destroyed"
    /\ UNCHANGED <<vm, mpc, suspend, pipe, quit, client, req, paused, mem, devs, tpc, int,
                   killed, early>>

\* handle_vmexit.  A reset or power-off request is vm_suspend: the mode first,
\* then the notification.
Serve(v) ==
    /\ req[v] # "none"
    /\ Loop("serve", IF req[v] = "io" THEN "serve" ELSE "notify")
    /\ suspend' = IF req[v] = "io" THEN suspend ELSE req[v]
    /\ req' = [req EXCEPT ![v] = "none"]
    /\ UNCHANGED <<vm, mpc, pipe, quit, client, paused, mem, devs, tpc, int, killed, early>>

\* The handler of an access fails, and the process aborts.
ServeAborts(v) ==
    /\ req[v] = "io" /\ Loop("serve", "serve")
    /\ killed' = TRUE
    /\ UNCHANGED <<vm, mpc, suspend, pipe, quit, client, req, paused, mem, devs, tpc, int, early>>

LoopNotify ==
    /\ Loop("notify", "serve")
    /\ mevent_notify
    /\ UNCHANGED <<vm, mpc, suspend, quit, client, req, paused, mem, devs, tpc, int, early>>

\* The end of the scan of the slots.
ScanEnds ==
    /\ Loop("serve", "attach")
    /\ UNCHANGED <<vm, mpc, suspend, pipe, quit, client, req, paused, mem, devs, tpc, int,
                   killed, early>>

LoopLeaves ==
    /\ Loop("leave", "none")
    /\ quit' = FALSE
    /\ UNCHANGED <<vm, mpc, suspend, pipe, client, req, paused, mem, devs, tpc, int,
                   killed, early>>

-----------------------------------------------------------------------------
(* The watchdog's second expiry (once in a VM) and SIGINT (once). *)

WdtExpires ==
    /\ ~killed /\ mpc # "exited" /\ devs /\ client # "none" /\ tpc = "idle"
    /\ tpc' = "notify" /\ suspend' = "reset"
    /\ UNCHANGED <<vm, mpc, pipe, quit, lpc, client, req, paused, mem, devs, int,
                   killed, early>>

WdtNotify ==
    /\ ~killed /\ mpc # "exited" /\ tpc = "notify"
    /\ tpc' = "done"
    /\ mevent_notify
    /\ UNCHANGED <<vm, mpc, suspend, quit, lpc, client, req, paused, mem, devs, int, early>>

\* sig_handler_term runs on main's thread, where mevent_notify writes nothing;
\* epoll_wait returns EINTR, unless main was yet to call it.
Sigint ==
    /\ ~killed /\ mpc # "exited" /\ int = "none"
    /\ int' = "taken" /\ suspend' = "poweroff"
    /\ mpc' \in IF mpc = "epoll" THEN {"epoll", "check"} ELSE {mpc}
    /\ UNCHANGED <<vm, pipe, quit, lpc, client, req, paused, mem, devs, tpc, killed, early>>

\* The program has ended, the bound on the VMs is reached, or main waits for a
\* request thread whose client came to life after main had destroyed it.
Ended ==
    /\ \/ killed \/ mpc = "exited" \/ (mpc = "again" /\ vm = MaxVms)
       \/ mpc = "spin" /\ early
    /\ UNCHANGED vars

MainStep ==
    \/ Setup \/ fbsdrun_addcpu \/ OpenPipe \/ (pipe = "byte" /\ EpollReturns)
    \/ CheckSuspend \/ mevent_destroy \/ vm_pause \/ RaiseQuit \/ DestroyClient
    \/ AwaitQuit \/ vm_unsetup_memory \/ do_close_post \/ Decide \/ Again

LoopStep ==
    \/ CreateClient \/ AttachReturns \/ AttachFails \/ LoopNotify \/ ScanEnds \/ LoopLeaves
    \/ \E v \in Vcpus : Serve(v)

Next ==
    \/ MainStep \/ SetupFails \/ EpollReturns
    \/ LoopStep
    \/ \E v \in Vcpus, k \in {"io", "reset", "poweroff"} : GuestRequest(v, k)
    \/ \E v \in Vcpus : ServeAborts(v)
    \/ WdtExpires \/ WdtNotify \/ Sigint
    \/ Ended

Spec == Init /\ [][Next]_vars

\* The threads run; nothing is assumed of the guest, of device events, of the
\* timer or of signals.
Fairness ==
    /\ WF_vars(MainStep) /\ WF_vars(LoopStep) /\ WF_vars(WdtNotify)

FairSpec == Spec /\ Fairness

-----------------------------------------------------------------------------
(* Properties. *)

\* A suspend request of the guest that is notified while the dispatch loop has its
\* pipe ends that VM: the mode is set before the notification, so that main
\* finds it.  And once main has left the dispatch loop, for whatever reason, the
\* teardown comes to its end: everyone that main waits for answers.  (Unless
\* SIGPIPE or abort ends the process, or the client was destroyed before it existed and main
\* waits for a thread that will not leave.)
SuspendEndsVm ==
    ((lpc = "notify" /\ pipe \in {"empty", "byte"}) \/ mpc = "destroy")
        ~> (mpc \in {"exited", "again"} \/ killed \/ early)
=============================================================================
