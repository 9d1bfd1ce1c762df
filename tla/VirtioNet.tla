----------------------------- MODULE VirtioNet -----------------------------
(***************************************************************************)
(* The threads of the virtio network device (hw/pci/virtio/virtio_net.c):  *)
(* the transmit thread, the receive callback of the event loop, and the    *)
(* thread of vm_loop that serves the driver's register writes (queue       *)
(* setup, notifications, feature negotiation, device reset) through        *)
(* virtio_pci_write (hw/pci/virtio/virtio.c) with base->mtx held.  The     *)
(* event loop's thread also tears the device down.                         *)
(*                                                                         *)
(* Packets and descriptors are counted, not looked at.  Whether the driver *)
(* wants an interrupt is a free choice.                                    *)
(***************************************************************************)
EXTENDS Integers

CONSTANT MaxDescs   \* bound: descriptor chains a queue offers at a time

Queues == {"tx", "rx"}
Locks  == {"base", "tx", "rx"}   \* base->mtx, tx_mtx, rx_mtx

VARIABLES
    msix,       \* pci_msix_enabled: the driver uses MSI-X
    lock,       \* holder of each mutex
    ready,      \* VQ_ALLOC of each queue
    avail,      \* chains available: avail->idx - last_avail, one in work included
    noNotify,   \* VRING_USED_F_NO_NOTIFY of the transmit queue
    resetting, closing, rxReady, txInProgress, rxInProgress,
    rxMerge, rxVhdrlen,
    vcpu,       \* control state of the driver and of vm_loop serving it
    tx,         \* control state of the transmit thread
    main        \* control state of the event loop's thread

dev  == <<msix, rxReady, rxMerge, rxVhdrlen>>
vars == <<msix, lock, ready, avail, noNotify, resetting, closing, rxReady,
          txInProgress, rxInProgress, rxMerge, rxVhdrlen, vcpu, tx, main>>

HasDescs(q) == ready[q] /\ avail[q] > 0

Free(m)       == lock[m] = "none"
Take(m, t)    == Free(m) /\ lock' = [lock EXCEPT ![m] = t]
Drop(m)       == lock' = [lock EXCEPT ![m] = "none"]

\* The transmit thread after a signal or a broadcast of tx_cond.
Woken == IF tx = "first" THEN "firstWoken" ELSE IF tx = "wait" THEN "woken" ELSE tx

HdrLen == 12    \* sizeof(struct virtio_net_rxhdr)

\* virtio_net_init.
Init ==
    /\ msix \in BOOLEAN
    /\ lock = [m \in Locks |-> "none"]
    /\ ready = [q \in Queues |-> FALSE]
    /\ avail = [q \in Queues |-> 0]
    /\ noNotify = FALSE
    /\ resetting = FALSE /\ closing = FALSE
    /\ rxReady = FALSE /\ txInProgress = FALSE /\ rxInProgress = FALSE
    /\ rxMerge = TRUE /\ rxVhdrlen = HdrLen
    /\ vcpu = "idle" /\ main = "idle"
    /\ tx = "start"

----------------------------------------------------------------------------
(* The driver, and vm_loop on its behalf.  Once the device is being torn   *)
(* down the virtual machine is paused and vm_loop has ended.               *)

Running == main \notin {"broadcast", "join", "stopped"}

\* virtio_vq_init for queue q.
VqInit(q) ==
    /\ vcpu = "idle" /\ Running /\ Free("base") /\ ~ready[q]
    /\ ready' = [ready EXCEPT ![q] = TRUE]
    /\ noNotify' = (q # "tx" /\ noNotify)
    /\ UNCHANGED <<lock, avail, resetting, closing, dev, txInProgress, rxInProgress,
                   vcpu, tx, main>>

\* The driver offers a chain (external: the guest), and will notify the device
\* unless the transmit queue tells it not to.
Offer(q) ==
    /\ vcpu = "idle" /\ Running /\ ready[q] /\ avail[q] < MaxDescs
    /\ avail' = [avail EXCEPT ![q] = @ + 1]
    /\ vcpu' = IF q = "tx" THEN "kick" ELSE "idle"
    /\ UNCHANGED <<lock, ready, noNotify, resetting, closing, dev,
                   txInProgress, rxInProgress, tx, main>>

\* virtio_pci_write of QNOTIFY takes base->mtx, virtio_net_ping_txq then looks
\* for descriptors.
Kick ==
    /\ vcpu = "kick"
    /\ \/ noNotify /\ vcpu' = "idle" /\ UNCHANGED lock
       \/ ~noNotify /\ Free("base") /\ ~HasDescs("tx") /\ vcpu' = "idle" /\ UNCHANGED lock
       \/ ~noNotify /\ HasDescs("tx") /\ Take("base", "vcpu") /\ vcpu' = "ping"
    /\ UNCHANGED <<ready, avail, noNotify, resetting, closing, dev,
                   txInProgress, rxInProgress, tx, main>>

\* The critical section of virtio_net_ping_txq.
PingTxq ==
    /\ vcpu = "ping" /\ Free("tx")
    /\ noNotify' = TRUE
    /\ tx' = IF txInProgress THEN tx ELSE Woken
    /\ vcpu' = "idle"
    /\ Drop("base")
    /\ UNCHANGED <<ready, avail, resetting, closing, dev, txInProgress,
                   rxInProgress, main>>

\* virtio_net_ping_rxq.
PingRxq ==
    /\ vcpu = "idle" /\ Running /\ Free("base") /\ ready["rx"] /\ ~rxReady
    /\ rxReady' = TRUE
    /\ UNCHANGED <<msix, lock, ready, avail, noNotify, resetting, closing,
                   txInProgress, rxInProgress, rxMerge, rxVhdrlen, vcpu, tx, main>>

\* virtio_net_neg_features, on a write of GUESTCAP.  The guard on the length
\* bounds the number of such writes.
NegFeatures(mrg) ==
    /\ vcpu = "idle" /\ Running /\ Free("base")
    /\ rxVhdrlen >= HdrLen - 2
    /\ rxMerge' = (rxMerge /\ mrg)
    /\ rxVhdrlen' = IF mrg THEN rxVhdrlen ELSE rxVhdrlen - 2
    /\ UNCHANGED <<msix, lock, ready, avail, noNotify, resetting, closing, rxReady,
                   txInProgress, rxInProgress, vcpu, tx, main>>

\* virtio_net_reset, on a write of 0 to STATUS: resetting is set first, ...
ResetBegin ==
    /\ vcpu = "idle" /\ Running
    /\ Take("base", "vcpu")
    /\ resetting' = TRUE
    /\ vcpu' = "txwait"
    /\ UNCHANGED <<ready, avail, noNotify, closing, dev, txInProgress,
                   rxInProgress, tx, main>>

\* Mutant: the reset does not wait for tx_in_progress.
TxWaitNot ==
    /\ vcpu = "txwait"
    /\ vcpu' = "rxwait"
    /\ UNCHANGED <<lock, ready, avail, noNotify, resetting, closing, dev,
                   txInProgress, rxInProgress, tx, main>>

\* ... then virtio_net_txwait and virtio_net_rxwait poll under the mutexes, ...
TxWait ==
    /\ vcpu = "txwait" /\ Free("tx") /\ ~txInProgress
    /\ vcpu' = "rxwait"
    /\ UNCHANGED <<lock, ready, avail, noNotify, resetting, closing, dev,
                   txInProgress, rxInProgress, tx, main>>

RxWait ==
    /\ vcpu = "rxwait" /\ Free("rx") /\ ~rxInProgress
    /\ vcpu' = "rings"
    /\ UNCHANGED <<lock, ready, avail, noNotify, resetting, closing, dev,
                   txInProgress, rxInProgress, tx, main>>

\* ... then virtio_reset_dev clears the queues, ...
ResetRings ==
    /\ vcpu = "rings"
    /\ rxReady' = FALSE /\ rxMerge' = TRUE /\ rxVhdrlen' = HdrLen
    /\ ready' = [q \in Queues |-> FALSE]
    /\ avail' = [q \in Queues |-> 0]
    /\ vcpu' = "resetend"
    /\ UNCHANGED <<msix, lock, noNotify, resetting, closing, txInProgress,
                   rxInProgress, tx, main>>

\* ... and the device accepts work again.
ResetEnd ==
    /\ vcpu = "resetend"
    /\ resetting' = FALSE /\ closing' = FALSE
    /\ vcpu' = "idle"
    /\ Drop("base")
    /\ UNCHANGED <<ready, avail, noNotify, dev, txInProgress, rxInProgress,
                   tx, main>>

VcpuStep == Kick \/ PingTxq \/ TxWait \/ RxWait \/ ResetRings \/ ResetEnd

----------------------------------------------------------------------------
(* virtio_net_tx_thread.                                                   *)

\* The first pthread_cond_wait.
TxFirstWait ==
    /\ tx = "start" /\ Free("tx")
    /\ tx' = "first"
    /\ UNCHANGED <<lock, ready, avail, noNotify, resetting, closing, dev,
                   txInProgress, rxInProgress, vcpu, main>>

\* A pthread_cond_wait returns with the mutex; only the second one is followed
\* by a look at closing, and the thread returns with the mutex.
TxWoken ==
    /\ tx \in {"firstWoken", "woken"}
    /\ Take("tx", "tx")
    /\ tx' = IF tx = "woken" /\ closing THEN "exited" ELSE "loop"
    /\ UNCHANGED <<ready, avail, noNotify, resetting, closing, dev,
                   txInProgress, rxInProgress, vcpu, main>>

\* Leave the inner loop with work to do.
TxBegin ==
    /\ noNotify' = TRUE
    /\ txInProgress' = TRUE
    /\ Drop("tx")
    /\ tx' = "proc"

TxLoop ==
    /\ tx = "loop"
    /\ IF resetting \/ ~HasDescs("tx")
       THEN tx' = "clear" /\ UNCHANGED <<lock, noNotify, txInProgress>>
       ELSE TxBegin
    /\ UNCHANGED <<ready, avail, resetting, closing, dev, rxInProgress, vcpu, main>>

\* The driver is told to notify again; it may have offered a chain in between.
TxClear ==
    /\ tx = "clear"
    /\ noNotify' = FALSE
    /\ tx' = "recheck"
    /\ UNCHANGED <<lock, ready, avail, resetting, closing, dev, txInProgress,
                   rxInProgress, vcpu, main>>

\* Mutant: no second look after notifications are enabled.
TxRecheckNot ==
    /\ tx = "recheck"
    /\ txInProgress' = FALSE /\ Drop("tx") /\ tx' = "wait"
    /\ UNCHANGED <<ready, avail, noNotify, resetting, closing, dev, rxInProgress,
                   vcpu, main>>

TxRecheck ==
    /\ tx = "recheck"
    /\ IF ~resetting /\ HasDescs("tx")
       THEN TxBegin
       ELSE /\ txInProgress' = FALSE
            /\ Drop("tx")
            /\ tx' = "wait"
            /\ UNCHANGED noNotify
    /\ UNCHANGED <<ready, avail, resetting, closing, dev, rxInProgress, vcpu, main>>

\* virtio_net_proctx: a chain is taken, sent, and released.
TxGetChain ==
    /\ tx = "proc"
    /\ tx' = "send"
    /\ UNCHANGED <<lock, ready, avail, noNotify, resetting, closing, dev,
                   txInProgress, rxInProgress, vcpu, main>>

TxRelChain ==
    /\ tx = "send"
    /\ avail' = [avail EXCEPT !["tx"] = @ - 1]
    /\ tx' = IF ready["tx"] /\ avail["tx"] > 1 THEN "proc" ELSE "end"
    /\ UNCHANGED <<lock, ready, noNotify, resetting, closing, dev,
                   txInProgress, rxInProgress, vcpu, main>>

\* vq_endchains: no interrupt, one by MSI-X, or one that needs base->mtx.
TxEndChains ==
    /\ tx = "end"
    /\ tx' \in {"relock"} \cup (IF msix THEN {} ELSE {"intr"})
    /\ UNCHANGED <<lock, ready, avail, noNotify, resetting, closing, dev,
                   txInProgress, rxInProgress, vcpu, main>>

\* vq_interrupt without MSI-X.
TxInterrupt ==
    /\ tx = "intr" /\ Free("base")
    /\ tx' = "relock"
    /\ UNCHANGED <<lock, ready, avail, noNotify, resetting, closing, dev,
                   txInProgress, rxInProgress, vcpu, main>>

TxRelock ==
    /\ tx = "relock"
    /\ Take("tx", "tx")
    /\ tx' = "loop"
    /\ UNCHANGED <<ready, avail, noNotify, resetting, closing, dev,
                   txInProgress, rxInProgress, vcpu, main>>

TxStep == TxFirstWait \/ TxWoken \/ TxLoop \/ TxClear \/ TxRecheck \/ TxGetChain \/ TxRelChain
            \/ TxEndChains \/ TxInterrupt \/ TxRelock

----------------------------------------------------------------------------
(* virtio_net_rx_callback and virtio_net_tap_rx; the event loop calls it   *)
(* whenever the tap device has a packet.                                   *)

RxCallback ==
    /\ main = "idle"
    /\ Take("rx", "main")
    /\ rxInProgress' = TRUE
    /\ main' = "rx"
    /\ UNCHANGED <<ready, avail, noNotify, resetting, closing, dev,
                   txInProgress, vcpu, tx>>

\* Drop the packet while the ring is not set up, the device is being reset or
\* the driver offers no buffer (then vq_endchains may interrupt).
RxCheck ==
    /\ main = "rx"
    /\ main' = IF ~rxReady \/ resetting THEN "rxdone"
               ELSE IF ~HasDescs("rx") THEN "rxend" ELSE "rxchain"
    /\ UNCHANGED <<lock, ready, avail, noNotify, resetting, closing, dev,
                   txInProgress, rxInProgress, vcpu, tx>>

\* Take a chain; read a packet into it and release it, or return it when there
\* is none (EWOULDBLOCK).
RxGetChain ==
    /\ main = "rxchain"
    /\ main' = "rxread"
    /\ UNCHANGED <<lock, ready, avail, noNotify, resetting, closing, dev,
                   txInProgress, rxInProgress, vcpu, tx>>

RxRead ==
    /\ main = "rxread"
    /\ \/ /\ avail' = [avail EXCEPT !["rx"] = @ - 1]
          /\ main' = IF ready["rx"] /\ avail["rx"] > 1 THEN "rxchain" ELSE "rxend"
       \/ main' = "rxend" /\ UNCHANGED avail
    /\ UNCHANGED <<lock, ready, noNotify, resetting, closing, dev,
                   txInProgress, rxInProgress, vcpu, tx>>

RxEndChains ==
    /\ main = "rxend"
    /\ main' \in {"rxdone"} \cup (IF msix THEN {} ELSE {"rxintr"})
    /\ UNCHANGED <<lock, ready, avail, noNotify, resetting, closing, dev,
                   txInProgress, rxInProgress, vcpu, tx>>

RxInterrupt ==
    /\ main = "rxintr" /\ Free("base")
    /\ main' = "rxdone"
    /\ UNCHANGED <<lock, ready, avail, noNotify, resetting, closing, dev,
                   txInProgress, rxInProgress, vcpu, tx>>

RxDone ==
    /\ main = "rxdone"
    /\ rxInProgress' = FALSE
    /\ Drop("rx")
    /\ main' = "idle"
    /\ UNCHANGED <<ready, avail, noNotify, resetting, closing, dev,
                   txInProgress, vcpu, tx>>

----------------------------------------------------------------------------
(* virtio_net_tx_stop, from virtio_net_deinit.                             *)

StopBegin ==
    /\ main = "idle" /\ vcpu = "idle"
    /\ closing' = TRUE
    /\ main' = "broadcast"
    /\ UNCHANGED <<lock, ready, avail, noNotify, resetting, dev, txInProgress,
                   rxInProgress, vcpu, tx>>

\* pthread_cond_broadcast, without tx_mtx.
StopBroadcast ==
    /\ main = "broadcast"
    /\ tx' = Woken
    /\ main' = "join"
    /\ UNCHANGED <<lock, ready, avail, noNotify, resetting, closing, dev,
                   txInProgress, rxInProgress, vcpu>>

StopJoin ==
    /\ main = "join" /\ tx = "exited"
    /\ main' = "stopped"
    /\ UNCHANGED <<lock, ready, avail, noNotify, resetting, closing, dev,
                   txInProgress, rxInProgress, vcpu, tx>>

MainStep == RxCheck \/ RxGetChain \/ RxRead \/ RxEndChains \/ RxInterrupt \/ RxDone
              \/ StopBroadcast \/ StopJoin

Driver == \/ \E q \in Queues : VqInit(q) \/ Offer(q)
          \/ \E mrg \in BOOLEAN : NegFeatures(mrg)
          \/ PingRxq \/ ResetBegin

Next == Driver \/ VcpuStep \/ TxStep \/ RxCallback \/ MainStep \/ StopBegin

Spec == Init /\ [][Next]_vars

\* Every thread that can go on does, and gets a mutex that is free again and
\* again.  The driver need not do anything, and packets need not arrive.
Fairness == SF_vars(VcpuStep) /\ SF_vars(TxStep) /\ SF_vars(MainStep)

FairSpec == Spec /\ Fairness

----------------------------------------------------------------------------
\* Once the transmit thread is past its first wait it sends while the driver
\* offers chains, although the driver stays silent while
\* VRING_USED_F_NO_NOTIFY is set: no wakeup is lost.
TxServed ==
    (HasDescs("tx") /\ tx \notin {"start", "first"})
        ~> (tx = "send" \/ resetting \/ ~Running)

\* "If the transmit thread is active then stall until it is done.": a reset of
\* the device ends.
ResetReturns == resetting ~> ~resetting

\* With MSI-X, where interrupts do not need base->mtx, it does.
ResetReturnsMsix == (msix /\ resetting) ~> ~resetting
============================================================================
