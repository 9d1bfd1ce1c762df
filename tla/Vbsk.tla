-------------------------------- MODULE Vbsk --------------------------------
(***************************************************************************)
(* Virtio devices served by a back end in the kernel of the service OS:    *)
(* the entropy device (virtio_rnd.c), with a loop of its own to fall back  *)
(* to, and hyper_dmabuf (virtio_hyper_dmabuf.c), whose status and          *)
(* descriptor are static and outlive the VM, through virtio_kernel.c.  The *)
(* device model tells the kernel once where the rings are and how to       *)
(* interrupt; from then on the kernel answers the notify register.         *)
(*                                                                         *)
(* kern is what the kernel was told through the descriptor that is open    *)
(* (external: it serves those rings until the descriptor is closed).  A    *)
(* vector is 0 for VIRTIO_MSI_NO_VECTOR; a queue q uses vector q + 1 or    *)
(* none, and address and data of a message are one value.                  *)
(***************************************************************************)
EXTENDS Naturals

CONSTANTS MaxVms,   \* VMs that run after each other (a bound)
          MaxOffer  \* chains in the entropy queue (a bound)

VARIABLES kind,     \* "rnd" or "dmabuf"
          kstatus, fd, ops,
          drv,      \* the device's registers: status, ring and vector of each queue
          msgs,     \* dev->msix.table
          kern,
          vm,       \* the number of the VM, 0 between two
          vms,
          moved,    \* the MSI-X table has changed since the start
          again,    \* the device was reset after it had been started
          unclean,  \* a VM ended with the descriptor open and the back end not started
          refused,  \* why k_init failed: "no", "open" or "reenter"
          offered,  \* chains the driver has added and not got back
          kick,     \* the driver's notification is on its way
          npc       \* virtio_rnd_notify: "idle", "loop"; "abort" is the failed assertion

vars == <<kind, kstatus, fd, ops, drv, msgs, kern, vm, vms, moved, again, unclean, refused, offered, kick, npc>>

Queues == 0..1
Nothing == [q \in Queues |-> [pfn |-> 0, vec |-> 0, msg |-> 0]]
Cleared == [status |-> "reset", vq |-> [q \in Queues |-> [pfn |-> 0, vec |-> 0]]]
Used == IF kind = "rnd" THEN {0} ELSE Queues

Init ==
    /\ kind \in {"rnd", "dmabuf"}
    /\ kstatus = "INITIAL" /\ fd = FALSE /\ ops = "kernel"
    /\ drv = Cleared /\ msgs = [v \in 1..2 |-> 1] /\ kern = Nothing /\ vm = 0 /\ vms = 0
    /\ moved = FALSE /\ again = FALSE /\ unclean = FALSE /\ refused = "no"
    /\ offered = 0 /\ kick = FALSE /\ npc = "idle"

-----------------------------------------------------------------------------
(* A VM starts *)

\* opens says whether the kernel has the back end.
virtio_rnd_kernel_init(opens) ==
    /\ refused' = IF opens THEN "no" ELSE "open"
    /\ fd' = opens /\ kern' = Nothing

virtio_hyper_dmabuf_k_init(opens) ==
    /\ refused' = IF fd THEN "reenter" ELSE IF opens THEN "no" ELSE "open"
    /\ fd' = (fd \/ opens)
    /\ kern' = IF fd THEN kern ELSE Nothing

NewVm ==
    /\ vm = 0 /\ vms < MaxVms
    /\ vm' = vms + 1 /\ vms' = vms + 1
    /\ drv' = Cleared /\ msgs' = [v \in 1..2 |-> 1] /\ moved' = FALSE /\ again' = FALSE
    /\ offered' = 0 /\ kick' = FALSE
    /\ UNCHANGED <<kind, unclean, npc>>

\* With kernel=on or without.  The device is calloc'ed, the descriptor of the last
\* one forgotten; without the kernel the loop below serves it.
virtio_rnd_init ==
    /\ kind = "rnd" /\ NewVm
    /\ \/ /\ \E opens \in BOOLEAN : virtio_rnd_kernel_init(opens)
          /\ kstatus' = IF refused' = "no" THEN "INIT_SUCCESS" ELSE "INIT_FAILED"
       \/ kstatus' = "INITIAL" /\ refused' = "no" /\ fd' = FALSE /\ UNCHANGED kern
    /\ ops' = IF kstatus' = "INIT_SUCCESS" THEN "kernel" ELSE "user"

virtio_hyper_dmabuf_init ==
    /\ kind = "dmabuf" /\ NewVm
    /\ \E opens \in BOOLEAN : virtio_hyper_dmabuf_k_init(opens)
    /\ kstatus' = IF refused' = "no" THEN "INIT_SUCCESS" ELSE "INIT_FAILED"
    /\ UNCHANGED ops

-----------------------------------------------------------------------------
(* The driver, its rings and interrupts *)

WriteRing ==
    /\ vm # 0 /\ drv.status = "driver"
    /\ \E q \in Used, p \in 1..2 : \E v \in {0, q + 1} :
         drv' = [drv EXCEPT !.vq[q] = [pfn |-> p, vec |-> v]]
    /\ UNCHANGED <<kind, kstatus, fd, ops, msgs, kern, vm, vms, moved, again, unclean, refused, offered, kick, npc>>

\* The guest rewrites the entry of the MSI-X table, which the device model keeps.
MoveInterrupt ==
    /\ vm # 0
    /\ \E v \in {q + 1 : q \in Used} : msgs' = [msgs EXCEPT ![v] = 3 - @]
    /\ moved' = (moved \/ drv.status = "ok")
    /\ UNCHANGED <<kind, kstatus, fd, ops, drv, kern, vm, vms, again, unclean, refused, offered, kick, npc>>

\* virtio_rnd_kernel_vq_set for the one queue.
RndRings == [Nothing EXCEPT ![0] =
    [pfn |-> drv.vq[0].pfn, vec |-> drv.vq[0].vec,
     msg |-> IF drv.vq[0].vec = 0 THEN 0 ELSE msgs[drv.vq[0].vec]]]

\* Mutant: the message is read once, for the first queue.
DmabufRingsOnce ==
    [q \in Queues |-> [pfn |-> drv.vq[q].pfn, vec |-> drv.vq[q].vec,
                       msg |-> IF drv.vq[0].vec = 0 THEN 0 ELSE msgs[drv.vq[0].vec]]]

\* virtio_hyper_dmabuf_k_vq_set for each queue; a queue without a vector is given
\* the message of the one before.
DmabufRings ==
    LET Msg(q) == IF drv.vq[q].vec = 0 THEN 0 ELSE msgs[drv.vq[q].vec]
    IN  [q \in Queues |-> [pfn |-> drv.vq[q].pfn, vec |-> drv.vq[q].vec,
                           msg |-> IF drv.vq[q].vec = 0 THEN Msg(0) ELSE Msg(q)]]

\* Tells the device, then the rings; either may fail.
vbs_kernel_start(rings) ==
    \/ kstatus' = "STARTED" /\ kern' = rings
    \/ kstatus' = "START_FAILED" /\ UNCHANGED kern

\* The status register: a driver is found, then it has set up its rings.
WriteStatus(s) ==
    /\ vm # 0
    /\ \/ s = "driver" /\ drv.status = "reset"
       \/ s = "ok" /\ drv.status = "driver" /\ \A q \in Used : drv.vq[q].pfn # 0
    /\ drv' = [drv EXCEPT !.status = s]
    /\ UNCHANGED <<kind, fd, ops, msgs, vm, vms, moved, again, unclean, refused, offered, kick, npc>>

\* Called in kernel mode only.
virtio_rnd_k_set_status(s) ==
    /\ kind = "rnd" /\ WriteStatus(s)
    /\ IF ops = "kernel" /\ kstatus = "INIT_SUCCESS" /\ s = "ok" THEN vbs_kernel_start(RndRings)
       ELSE UNCHANGED <<kstatus, kern>>

virtio_hyper_dmabuf_set_status(s) ==
    /\ kind = "dmabuf" /\ WriteStatus(s)
    /\ IF kstatus = "INIT_SUCCESS" /\ s = "ok" THEN vbs_kernel_start(DmabufRings)
       ELSE UNCHANGED <<kstatus, kern>>

\* vbs_kernel_stop and vbs_kernel_reset tell the kernel nothing.
Stopped ==
    /\ vm # 0 /\ drv.status # "reset" /\ npc = "idle"
    /\ drv' = Cleared /\ offered' = 0 /\ kick' = FALSE
    /\ kstatus' = IF kstatus = "STARTED" THEN "INITIAL" ELSE kstatus
    /\ again' = (again \/ kstatus = "STARTED")
    /\ UNCHANGED <<kind, fd, ops, msgs, kern, vm, vms, moved, unclean, refused, npc>>

virtio_rnd_reset == kind = "rnd" /\ Stopped
virtio_hyper_dmabuf_reset == kind = "dmabuf" /\ Stopped

-----------------------------------------------------------------------------
(* Entropy without the kernel: virtio_rnd_notify, under base->mtx *)

\* The driver adds a chain and notifies.
Offer ==
    /\ vm # 0 /\ drv.status = "ok" /\ ops = "user" /\ offered < MaxOffer
    /\ offered' = offered + 1 /\ kick' = TRUE
    /\ UNCHANGED <<kind, kstatus, fd, ops, drv, msgs, kern, vm, vms, moved, again, unclean, refused, npc>>

NotifyBegin ==
    /\ kick /\ npc = "idle"
    /\ kick' = FALSE /\ npc' = "loop"
    /\ UNCHANGED <<kind, kstatus, fd, ops, drv, msgs, kern, vm, vms, moved, again, unclean, refused, offered>>

\* A chain is filled from /dev/random and released; a read of nothing is the end
\* of the process.
NotifyChain ==
    /\ npc = "loop" /\ offered > 0
    /\ \/ offered' = offered - 1 /\ UNCHANGED npc
       \/ npc' = "abort" /\ UNCHANGED offered
    /\ UNCHANGED <<kind, kstatus, fd, ops, drv, msgs, kern, vm, vms, moved, again, unclean, refused, kick>>

NotifyEnd ==
    /\ npc = "loop" /\ offered = 0
    /\ npc' = "idle"
    /\ UNCHANGED <<kind, kstatus, fd, ops, drv, msgs, kern, vm, vms, moved, again, unclean, refused, offered, kick>>

-----------------------------------------------------------------------------
(* The VM ends *)

EndVm ==
    /\ vm # 0 /\ npc = "idle"
    /\ vm' = 0
    /\ UNCHANGED <<kind, ops, drv, msgs, vms, moved, again, refused, offered, kick, npc>>

\* Only a started back end has its descriptor closed.
CloseStarted ==
    IF kstatus = "STARTED"
    THEN kstatus' = "INITIAL" /\ fd' = FALSE /\ kern' = Nothing /\ UNCHANGED unclean
    ELSE unclean' = (unclean \/ fd) /\ UNCHANGED <<kstatus, fd, kern>>

virtio_rnd_deinit == kind = "rnd" /\ EndVm /\ CloseStarted
virtio_hyper_dmabuf_deinit == kind = "dmabuf" /\ EndVm /\ CloseStarted

Next ==
    \/ virtio_rnd_init \/ virtio_hyper_dmabuf_init \/ WriteRing \/ MoveInterrupt
    \/ virtio_rnd_reset \/ virtio_hyper_dmabuf_reset \/ virtio_rnd_deinit \/ virtio_hyper_dmabuf_deinit
    \/ Offer \/ NotifyBegin \/ NotifyChain \/ NotifyEnd
    \/ \E s \in {"driver", "ok"} : virtio_rnd_k_set_status(s) \/ virtio_hyper_dmabuf_set_status(s)

Spec == Init /\ [][Next]_vars
=============================================================================
