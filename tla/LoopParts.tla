----------------------------- MODULE LoopParts -----------------------------
(***************************************************************************)
(* The state of the network device (module VirtioNet) and of the devices   *)
(* with a back end in the kernel (module Vbsk) beside the event loop, and  *)
(* what is asked of it.                                                    *)
(***************************************************************************)
EXTENDS Mevent

CONSTANTS MaxDescs, MaxBoots, MaxOffer

\* The bounds are numbers.
ASSUME LoopsAssumption == MaxDescs \in Nat /\ MaxBoots \in Nat /\ MaxOffer \in Nat

VARIABLES msix, lock, ready, avail, noNotify, resetting, closing, rxReady, txInProgress, rxInProgress,
          rxMerge, rxVhdrlen, vcpu, tx, main,
          kind, kstatus, fd, ops, drv, msgs, kern, kvm, vms, moved, again, unclean, refused, offered, kick, npc

nvars == <<msix, lock, ready, avail, noNotify, resetting, closing, rxReady, txInProgress, rxInProgress,
           rxMerge, rxVhdrlen, vcpu, tx, main>>
vvars == <<kind, kstatus, fd, ops, drv, msgs, kern, kvm, vms, moved, again, unclean, refused, offered, kick, npc>>

\* Type invariant of the network device, its mutexes and its threads.
NetTypeOK ==
    /\ lock \in [{"base", "tx", "rx"} -> {"none", "vcpu", "tx", "main"}]
    /\ ready \in [{"tx", "rx"} -> BOOLEAN]
    /\ avail \in [{"tx", "rx"} -> 0 .. MaxDescs]
    /\ noNotify \in BOOLEAN /\ resetting \in BOOLEAN /\ closing \in BOOLEAN
    /\ rxReady \in BOOLEAN /\ txInProgress \in BOOLEAN /\ rxInProgress \in BOOLEAN
    /\ rxMerge \in BOOLEAN
    /\ rxVhdrlen \in 0 .. 12
    /\ vcpu \in {"idle", "kick", "ping", "txwait", "rxwait", "rings", "resetend"}
    /\ tx \in {"start", "first", "firstWoken", "wait", "woken", "loop", "clear", "recheck",
               "proc", "send", "end", "intr", "relock", "exited"}
    /\ main \in {"idle", "rx", "rxchain", "rxread", "rxend", "rxintr", "rxdone",
                 "broadcast", "join", "stopped"}

ChainIn(q) == ready[q] /\ avail[q] > 0

\* assert(n >= 1 && n <= VIRTIO_NET_MAXSEGS) after vq_getchain, in both
\* directions: the chain that vq_has_descs saw is there when it is taken, and
\* until it is released, although the checks and the reset of the device
\* happen in different threads.
ChainAvailable ==
    /\ tx \in {"proc", "send"} => ChainIn("tx")
    /\ main \in {"rxchain", "rxread"} => ChainIn("rx")

\* "Wait for the transmit and receive threads to finish their processing.":
\* when the rings are reset no thread is between its check of resetting and
\* the end of its processing.
ResetExclusive ==
    vcpu \in {"rings", "resetend"} =>
        /\ tx \notin {"proc", "send", "end", "intr", "relock"}
        /\ main \notin {"rxchain", "rxread", "rxend", "rxintr"}

\* The queues of the network device are left alone while they are reset, and no
\* thread takes a chain that is not there (virtio_net_reset, virtio_net_proctx);
\* with the type invariant.
NetSafe == NetTypeOK /\ ChainAvailable /\ ResetExclusive

DriverRuns == kvm # 0 /\ drv.status = "ok"

\* The kernel knows the ring of every queue in use and, if it has a vector, its message.
KernelServes ==
    \A q \in IF kind = "rnd" THEN {0} ELSE 0 .. 1 :
        /\ kern[q].pfn = drv.vq[q].pfn /\ kern[q].vec = drv.vq[q].vec
        /\ moved \/ kern[q].vec = 0 \/ kern[q].msg = msgs[kern[q].vec]

\* A driver that has finished its set-up is served: by the device model, which
\* leaves no chain behind a notification it has handled (virtio_rnd_notify), or by
\* the kernel with the rings and the messages the driver chose
\* (virtio_rnd_k_set_status, virtio_hyper_dmabuf_set_status).  Excepted are a
\* back end the kernel refuses, a device that was reset after its start, and,
\* for hyper_dmabuf, a VM after one that ended with the back end not started: a VM
\* that ended with it started leaves no descriptor behind (virtio_hyper_dmabuf_deinit).
VbskServed ==
    /\ DriverRuns => ops = "user" \/ KernelServes \/ kstatus = "START_FAILED" \/ refused # "no" \/ again
    /\ refused = "reenter" => unclean
    /\ offered > 0 => kick \/ npc # "idle"
============================================================================
