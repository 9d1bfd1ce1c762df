------------------------------- MODULE Mevent -------------------------------
(***************************************************************************)
(* The event loop of the device model (core/mevent.c): a table of events   *)
(* shared by all threads, and the thread of main, which alone talks to     *)
(* epoll and runs the callbacks.  Other threads hand it their changes in a *)
(* list and wake it by a byte on a pipe; a shutdown or reset is announced  *)
(* in the same way (core/vmmapi.c, core/main.c).                           *)
(*                                                                         *)
(* Every critical section of mevent_lmutex is one step.                    *)
(***************************************************************************)
EXTENDS Integers, FiniteSets

CONSTANTS
    Events,     \* events of the devices, one for each descriptor
    Pipe,       \* the event of the pipe
    MEVENT_MAX, \* size of the buffer of mevent_pipe_read
    MaxPipe     \* bound: bytes on the pipe

ASSUME MeventAssumption ==
    Pipe \notin Events /\ MEVENT_MAX \in Nat \ {0} /\ MaxPipe \in Nat

All == Events \cup {Pipe}

VARIABLES
    alloc,      \* entries that are allocated
    change,     \* change_head: exactly the entries with me_cq = 1
    global,     \* global_head
    delPending, \* entries in state MEV_DEL_PENDING
    closefd,    \* entries with me_closefd = 1
    epoll,      \* what the epoll instance watches
    handle,     \* entries a device still points to
    pipe,       \* bytes on the pipe
    pipeOpen,   \* mevent_pipefd[1] # 0
    suspend,    \* vm_get_suspend_mode() # VM_SUSPEND_NONE
    asked,      \* "no", "set": mode set, byte to be written, "told": written
    batch,      \* events reported by epoll_wait and not handled yet
    pc

lists == <<alloc, change, global, delPending, closefd>>
vars  == <<lists, epoll, handle, pipe, pipeOpen, suspend, asked, batch, pc>>

Init ==
    /\ alloc = {} /\ change = {} /\ global = {} /\ delPending = {} /\ closefd = {}
    /\ epoll = {} /\ handle = {}
    /\ pipe = 0 /\ pipeOpen = FALSE
    /\ suspend = FALSE /\ asked = "no"
    /\ batch = {}
    /\ pc = "init"

\* Mutant: no byte is written.
NotifyNot(inside) == UNCHANGED pipe

\* mevent_notify, from the thread of main or from another one.
Notify(inside) ==
    IF pipeOpen /\ ~inside THEN pipe < MaxPipe /\ pipe' = pipe + 1
                           ELSE UNCHANGED pipe

\* mevent_add of an event that is in neither list.
MeventAdd(e, inside) ==
    /\ e \notin alloc
    /\ alloc' = alloc \cup {e}
    /\ change' = change \cup {e}
    /\ handle' = handle \cup {e}
    /\ Notify(inside)
    /\ UNCHANGED <<global, delPending, closefd>>

\* Mutant: the entry is freed at once.
MeventDeleteFree(e, close, inside) ==
    /\ e \in handle
    /\ handle' = handle \ {e}
    /\ alloc' = alloc \ {e}
    /\ change' = change \ {e}
    /\ global' = global \ {e}
    /\ UNCHANGED <<delPending, closefd, pipe>>

\* mevent_delete_event by the device that holds the entry, which then forgets
\* it.  An entry that mevent_destroy has freed is none that the lists know of.
MeventDelete(e, close, inside) ==
    /\ e \in handle
    /\ handle' = handle \ {e}
    /\ IF e \in alloc
       THEN /\ change' = change \cup {e}
            /\ global' = global \ {e}
            /\ delPending' = delPending \cup {e}
            /\ closefd' = IF close THEN closefd \cup {e} ELSE closefd
            /\ IF e \in change THEN UNCHANGED pipe ELSE Notify(inside)
            /\ UNCHANGED alloc
       ELSE UNCHANGED <<lists, pipe>>

----------------------------------------------------------------------------
(* Other threads: vm_loop, from fbsdrun_addcpu until fbsdrun_deletecpu has *)
(* returned, and the threads of the devices.                               *)

OthersRun == pc \notin {"init", "stopped", "crashed"}

OtherAdd(e) ==
    /\ OthersRun
    /\ MeventAdd(e, FALSE)
    /\ UNCHANGED <<epoll, pipeOpen, suspend, asked, batch, pc>>

\* The delete of an entry that has been freed may crash the process.
OtherDelete(e, close) ==
    /\ OthersRun
    /\ MeventDelete(e, close, FALSE)
    /\ pc' \in IF e \in alloc THEN {pc} ELSE {pc, "crashed"}
    /\ UNCHANGED <<epoll, pipeOpen, suspend, asked, batch>>

\* vm_suspend: the mode is set, then the event loop is told.
VmSuspend ==
    /\ OthersRun /\ asked = "no"
    /\ suspend' = TRUE /\ asked' = "set"
    /\ UNCHANGED <<lists, epoll, handle, pipe, pipeOpen, batch, pc>>

VmSuspendNotify ==
    /\ asked = "set"
    /\ Notify(FALSE)
    /\ asked' = IF pipeOpen THEN "told" ELSE "untold"
    /\ UNCHANGED <<lists, epoll, handle, pipeOpen, suspend, batch, pc>>

\* sig_handler_term in the thread of main: mevent_notify writes nothing, and
\* the signal interrupts epoll_wait.
Signal ==
    /\ OthersRun /\ ~suspend
    /\ suspend' = TRUE
    /\ pc' = IF pc = "wait" THEN "handle" ELSE pc
    /\ UNCHANGED <<lists, epoll, handle, pipe, pipeOpen, asked, batch>>

----------------------------------------------------------------------------
(* The thread of main.                                                     *)

\* Devices register events while init_pci runs.
InitAdd(e) ==
    /\ pc = "init"
    /\ MeventAdd(e, TRUE)
    /\ UNCHANGED <<epoll, pipeOpen, suspend, asked, batch, pc>>

\* fbsdrun_addcpu starts the guest.
AddCpu ==
    /\ pc = "init"
    /\ pc' = "open"
    /\ UNCHANGED <<lists, epoll, handle, pipe, pipeOpen, suspend, asked, batch>>

\* mevent_dispatch up to its loop.
Open ==
    /\ pc = "open"
    /\ pipeOpen' = TRUE
    /\ alloc' = alloc \cup {Pipe}
    /\ change' = change \cup {Pipe}
    /\ pc' = "build"
    /\ UNCHANGED <<global, delPending, closefd, epoll, handle, pipe, suspend, asked, batch>>

\* mevent_build.
Build ==
    /\ alloc' = alloc \ delPending
    /\ global' = global \cup (change \ delPending)
    /\ change' = {} /\ delPending' = {} /\ closefd' = {}

\* mevent_build and the calls of epoll_ctl it asks for.
MeventBuild ==
    /\ pc = "build"
    /\ Build
    /\ epoll' = (epoll \cup change) \ delPending
    /\ pc' = "wait"
    /\ UNCHANGED <<handle, pipe, pipeOpen, suspend, asked, batch>>

\* epoll_wait: descriptors of devices are ready when they like.
EpollWait(ready) ==
    /\ pc = "wait"
    /\ batch' = (ready \cap epoll) \cup (IF pipe > 0 THEN {Pipe} \cap epoll ELSE {})
    /\ batch' # {}
    /\ pc' = "handle"
    /\ UNCHANGED <<lists, epoll, handle, pipe, pipeOpen, suspend, asked>>

\* mevent_handle: the callback of one event of the batch.  A device may delete
\* its event there (the console does when its peer is gone).
Callback(e) ==
    /\ pc = "handle" /\ e \in batch \ {Pipe}
    /\ batch' = batch \ {e}
    /\ \/ UNCHANGED <<lists, handle, pipe>>
       \/ MeventDelete(e, TRUE, TRUE)
    /\ UNCHANGED <<epoll, pipeOpen, suspend, asked, pc>>

PipeCallback ==
    /\ pc = "handle" /\ Pipe \in batch
    /\ batch' = batch \ {Pipe}
    /\ pc' = "piperead"
    /\ UNCHANGED <<lists, epoll, handle, pipe, pipeOpen, suspend, asked>>

\* A read of mevent_pipe_read.  The descriptor is a blocking one: an empty pipe
\* makes the thread wait for the next byte.
PipeRead ==
    /\ pc = "piperead" /\ pipe > 0
    /\ pipe' = IF pipe > MEVENT_MAX THEN pipe - MEVENT_MAX ELSE 0
    /\ pc' = IF pipe >= MEVENT_MAX THEN "piperead" ELSE "handle"
    /\ UNCHANGED <<lists, epoll, handle, pipeOpen, suspend, asked, batch>>

\* The end of an iteration of mevent_dispatch.
Check ==
    /\ pc = "handle" /\ batch = {}
    /\ pc' = IF suspend THEN "destroy" ELSE "build"
    /\ UNCHANGED <<lists, epoll, handle, pipe, pipeOpen, suspend, asked, batch>>

\* The last mevent_build: epoll only hears of the descriptors that are closed.
\* Then mevent_destroy frees what is in the global list.  The pipe is closed for
\* reading, mevent_pipefd keeps its values.
LastBuild ==
    /\ pc = "destroy"
    /\ Build
    /\ epoll' = epoll \ closefd
    /\ pc' = "destroy2"
    /\ UNCHANGED <<handle, pipe, pipeOpen, suspend, asked, batch>>

MeventDestroy ==
    /\ pc = "destroy2"
    /\ alloc' = alloc \ global
    /\ global' = {} /\ epoll' = {}
    /\ pc' = "done"
    /\ UNCHANGED <<change, delPending, closefd, handle, pipe, pipeOpen, suspend, asked, batch>>

\* vm_pause and fbsdrun_deletecpu: vm_loop has ended.
DeleteCpu ==
    /\ pc = "done"
    /\ pc' = "stopped"
    /\ UNCHANGED <<lists, epoll, handle, pipe, pipeOpen, suspend, asked, batch>>

----------------------------------------------------------------------------
IoStep == \/ AddCpu \/ Open \/ MeventBuild \/ EpollWait({}) \/ PipeCallback \/ PipeRead
          \/ \E e \in Events : Callback(e)
          \/ Check \/ LastBuild \/ MeventDestroy \/ DeleteCpu

Next ==
    \/ \E e \in Events : InitAdd(e) \/ OtherAdd(e)
    \/ \E e \in Events, close \in BOOLEAN : OtherDelete(e, close)
    \/ VmSuspend \/ VmSuspendNotify \/ Signal
    \/ \E ready \in SUBSET Events : EpollWait(ready)
    \/ IoStep

Spec == Init /\ [][Next]_vars

\* The thread of main goes on whenever it can, and a thread that has set the
\* mode tells so.  Descriptors of devices need never become ready.
Fairness == WF_vars(IoStep) /\ WF_vars(VmSuspendNotify)

FairSpec == Spec /\ Fairness

----------------------------------------------------------------------------
TypeOK ==
    /\ alloc \subseteq All /\ change \subseteq All /\ global \subseteq All
    /\ delPending \subseteq All /\ closefd \subseteq All
    /\ epoll \subseteq All /\ handle \subseteq Events /\ batch \subseteq All
    /\ pipe \in 0 .. MaxPipe
    /\ pipeOpen \in BOOLEAN /\ suspend \in BOOLEAN
    /\ asked \in {"no", "set", "told", "untold"}
    /\ pc \in {"init", "open", "build", "wait", "handle", "piperead", "destroy",
               "destroy2", "done", "stopped", "crashed"}

\* An entry is on exactly one list from mevent_add until it is freed, and one
\* that is to be deleted is on the change list: LIST_REMOVE and free always
\* find it.
OneList ==
    /\ change \cap global = {}
    /\ change \cup global = alloc
    /\ delPending \subseteq change /\ closefd \subseteq delPending

\* Between the last mevent_build and the end of mevent_destroy nobody asks epoll.
Unasked == pc = "destroy2"

\* The callback of an entry that was freed is never called: what epoll may
\* report, and what it has reported, is allocated, although other threads
\* delete entries at any time.
NoDeadCallback == batch \subseteq alloc /\ (~Unasked => epoll \subseteq alloc)

\* What epoll watches is what the table says, but for the changes not yet made.
EpollMatches == ~Unasked => global \subseteq epoll /\ epoll \subseteq global \cup delPending

\* mevent_pipe_read has read MEVENT_MAX bytes and blocks: the descriptor is
\* not the non-blocking one its comment speaks of.
DrainBlocked == pc = "piperead" /\ pipe = 0

\* A change is made although the event loop may be blocked when it is queued:
\* no wakeup is lost between the insertion, the byte and the drain of the pipe.
ChangesApplied ==
    \A e \in Events :
        e \in change ~> (e \notin change \/ pc \in {"done", "stopped", "crashed"} \/ DrainBlocked)

\* A shutdown that was announced on the pipe ends mevent_dispatch.  (The process
\* may crash only after that, in the delete of an entry that was freed.)
TellsStop == asked = "told" ~> (pc \in {"stopped", "crashed"} \/ DrainBlocked)

\* The table, the lists and epoll agree: nothing is watched or called back that
\* has been freed, and what is in the table is watched.
EventsLive == NoDeadCallback /\ EpollMatches

\* The loop answers: changes are applied and a told stop is obeyed.
LoopAnswers == ChangesApplied /\ TellsStop
=============================================================================
