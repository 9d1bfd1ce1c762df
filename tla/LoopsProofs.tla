----------------------------- MODULE LoopsProofs -----------------------------
(***************************************************************************)
(* Proofs about the event loop, the network device (N), the devices with a *)
(* back end in the kernel (V) and the life cycle of the VM (L), for any    *)
(* events, any size of the pipe and of its buffer, any number of chains,   *)
(* vCPUs and VMs.  Each part has its inductive invariant, which its own    *)
(* steps preserve.                                                         *)
(***************************************************************************)
EXTENDS LoopParts, LifeState, TLAPS

----------------------------------------------------------------------------
(* The event loop.  The inductive invariant adds to the invariants of      *)
(* Mevent where the batch of reported events may be non-empty (entries are *)
(* freed only where it is empty), that the pipe is not in the table before *)
(* mevent_dispatch puts it there, and that a device holds no freed entry   *)
(* before mevent_destroy.                                                  *)

\* The batch lives only while mevent_handle works on it.
BatchPlace == pc \notin {"handle", "piperead"} => batch = {}

\* mevent_dispatch adds the event of the pipe once.
PipeLater == pc \in {"init", "open"} => Pipe \notin alloc

\* Until mevent_destroy a device holds only entries that are not freed.
HeldAlive == pc \notin {"done", "stopped", "crashed"} => handle \subseteq alloc \ delPending

LoopInv == TypeOK /\ OneList /\ NoDeadCallback /\ EpollMatches /\ BatchPlace /\ PipeLater /\ HeldAlive

\* The tables are empty when the process starts.
LEMMA LoopInit == Init => LoopInv
<1> SUFFICES ASSUME Init PROVE LoopInv
    OBVIOUS
<1>1. 0 \in 0..MaxPipe
      BY MeventAssumption
<1>2. TypeOK
      BY <1>1, Zenon DEF Init, TypeOK
<1>3. OneList /\ NoDeadCallback /\ EpollMatches /\ BatchPlace /\ PipeLater /\ HeldAlive
      BY DEF Init, OneList, NoDeadCallback, EpollMatches, Unasked, BatchPlace, PipeLater, HeldAlive
<1> QED
    BY <1>2, <1>3 DEF LoopInv

\* mevent_add and mevent_delete, by whichever thread.
LEMMA TableStep ==
    ASSUME LoopInv, NEW e \in Events, NEW inside \in BOOLEAN, NEW close \in BOOLEAN,
           MeventAdd(e, inside) \/ MeventDelete(e, close, inside),
           batch' \subseteq batch, BatchPlace',
           UNCHANGED <<epoll, pipeOpen, suspend, asked>>,
           pc' = pc \/ (pc = "done" /\ pc' = "crashed")
    PROVE  LoopInv'
<1> USE MeventAssumption DEF LoopInv
<1>1. CASE MeventAdd(e, inside)
  <2> USE <1>1 DEF MeventAdd, Notify
  <2>1. TypeOK'
        BY DEF TypeOK, All
  <2>2. OneList' /\ NoDeadCallback' /\ EpollMatches' /\ PipeLater' /\ HeldAlive'
        BY DEF OneList, NoDeadCallback, EpollMatches, Unasked, PipeLater, HeldAlive
  <2> QED
      BY <2>1, <2>2
<1>2. CASE MeventDelete(e, close, inside) /\ e \in alloc
  <2> USE <1>2 DEF MeventDelete, Notify
  <2>1. TypeOK'
        BY DEF TypeOK, All
  <2>2. OneList'
        BY DEF OneList
  <2>3. NoDeadCallback' /\ EpollMatches' /\ PipeLater' /\ HeldAlive'
        BY DEF NoDeadCallback, EpollMatches, Unasked, OneList, PipeLater, HeldAlive
  <2> QED
      BY <2>1, <2>2, <2>3
<1>3. CASE MeventDelete(e, close, inside) /\ e \notin alloc
      BY <1>3 DEF MeventDelete, lists, TypeOK, OneList, NoDeadCallback, EpollMatches, Unasked, PipeLater, HeldAlive
<1> QED
    BY <1>1, <1>2, <1>3

\* mevent_build, which alone frees entries while the event loop runs.
LEMMA BuildStep ==
    ASSUME LoopInv, MeventBuild \/ LastBuild
    PROVE  LoopInv'
<1> USE DEF LoopInv, MeventBuild, LastBuild, Build
<1>1. batch = {} /\ batch' = {}
      BY DEF BatchPlace
<1>2. TypeOK'
      BY DEF TypeOK
<1>3. OneList'
      BY DEF OneList
<1>4. NoDeadCallback'
      BY <1>1 DEF NoDeadCallback, Unasked, OneList
<1>5. EpollMatches'
      BY DEF EpollMatches, Unasked, OneList
<1>6. BatchPlace' /\ PipeLater' /\ HeldAlive'
      BY <1>1 DEF BatchPlace, PipeLater, HeldAlive
<1> QED
    BY <1>2, <1>3, <1>4, <1>5, <1>6

\* The other steps of the thread of main.
LEMMA LoopStep ==
    ASSUME LoopInv,
           \/ AddCpu \/ PipeCallback \/ PipeRead \/ Check \/ DeleteCpu
           \/ \E R \in SUBSET Events : EpollWait(R)
    PROVE  LoopInv'
<1> USE MeventAssumption DEF LoopInv
<1>1. UNCHANGED <<alloc, change, global, delPending, closefd, epoll, handle>>
      BY DEF AddCpu, PipeCallback, PipeRead, Check, DeleteCpu, EpollWait, lists
<1>2. batch' \subseteq batch \cup epoll
      BY DEF AddCpu, PipeCallback, PipeRead, Check, DeleteCpu, EpollWait
<1>3. TypeOK'
      BY <1>1, <1>2 DEF TypeOK, AddCpu, PipeCallback, PipeRead, Check, DeleteCpu, EpollWait
<1>4. OneList' /\ NoDeadCallback' /\ EpollMatches'
  <2>1. ~Unasked
        BY DEF Unasked, AddCpu, PipeCallback, PipeRead, Check, DeleteCpu, EpollWait
  <2> QED
      BY <1>1, <1>2, <2>1 DEF OneList, NoDeadCallback, EpollMatches
<1>5. BatchPlace' /\ PipeLater' /\ HeldAlive'
      BY <1>1 DEF BatchPlace, PipeLater, HeldAlive, AddCpu, PipeCallback, PipeRead, Check, DeleteCpu, EpollWait
<1> QED
    BY <1>3, <1>4, <1>5

\* Every step preserves the inductive invariant.
LEMMA LoopNext == LoopInv /\ [Next]_vars => LoopInv'
<1> SUFFICES ASSUME LoopInv, [Next]_vars PROVE LoopInv'
    OBVIOUS
<1> USE MeventAssumption
<1>1. ASSUME NEW e \in Events, InitAdd(e) \/ OtherAdd(e) PROVE LoopInv'
  <2>1. BatchPlace' /\ UNCHANGED <<epoll, pipeOpen, suspend, asked, pc, batch>>
        BY <1>1, Zenon DEF InitAdd, OtherAdd, LoopInv, BatchPlace
  <2> QED
      BY <1>1, <2>1, TableStep, Zenon DEF InitAdd, OtherAdd
<1>2. ASSUME NEW e \in Events, NEW close \in BOOLEAN, OtherDelete(e, close) PROVE LoopInv'
  <2>1. UNCHANGED <<epoll, pipeOpen, suspend, asked, batch>> /\ (pc' = pc \/ (pc = "done" /\ pc' = "crashed"))
        BY <1>2 DEF OtherDelete, OthersRun, MeventDelete, LoopInv, HeldAlive
  <2>2. BatchPlace'
        BY <2>1 DEF LoopInv, BatchPlace
  <2> QED
      BY <1>2, <2>1, <2>2, TableStep, Zenon DEF OtherDelete
<1>3. ASSUME NEW e \in Events, Callback(e) PROVE LoopInv'
  <2>1. BatchPlace' /\ batch' \subseteq batch /\ UNCHANGED <<epoll, pipeOpen, suspend, asked, pc>>
        BY <1>3 DEF Callback, LoopInv, BatchPlace
  <2>2. CASE MeventDelete(e, TRUE, TRUE)
        BY <2>1, <2>2, TableStep, Zenon
  <2>3. CASE UNCHANGED <<lists, handle, pipe>>
        BY <2>1, <2>3 DEF lists, LoopInv, TypeOK, OneList, NoDeadCallback, EpollMatches, Unasked, PipeLater, HeldAlive
  <2> QED
      BY <1>3, <2>2, <2>3, Zenon DEF Callback
<1>4. CASE VmSuspend \/ VmSuspendNotify \/ Signal
  <2>1. UNCHANGED <<alloc, change, global, delPending, closefd, epoll, handle, batch>>
        BY <1>4, Zenon DEF VmSuspend, VmSuspendNotify, Signal, lists
  <2>2. TypeOK'
    <3> USE <2>1 DEF LoopInv, TypeOK
    <3>1. CASE VmSuspend
          BY <3>1 DEF VmSuspend
    <3>2. CASE VmSuspendNotify
      <4>1. pipe' \in 0..MaxPipe
            BY <3>2 DEF VmSuspendNotify, Notify
      <4> QED
          BY <3>2, <4>1 DEF VmSuspendNotify
    <3>3. CASE Signal
          BY <3>3 DEF Signal
    <3> QED
        BY <1>4, <3>1, <3>2, <3>3
  <2>3. OneList' /\ NoDeadCallback' /\ EpollMatches'
    <3>1. Unasked' <=> Unasked
          BY <1>4 DEF Unasked, VmSuspend, VmSuspendNotify, Signal
    <3> QED
        BY <2>1, <3>1 DEF LoopInv, OneList, NoDeadCallback, EpollMatches
  <2>4. BatchPlace' /\ PipeLater' /\ HeldAlive'
        BY <1>4, <2>1, Zenon DEF LoopInv, BatchPlace, PipeLater, HeldAlive, VmSuspend, VmSuspendNotify, Signal
  <2> QED
      BY <2>2, <2>3, <2>4 DEF LoopInv
<1>5. CASE Open
  <2>1. TypeOK'
        BY <1>5 DEF LoopInv, TypeOK, Open, All
  <2>2. Pipe \notin global
        BY <1>5 DEF LoopInv, Open, PipeLater, HeldAlive, OneList
  <2> QED
      BY <1>5, <2>1, <2>2 DEF LoopInv, Open, OneList, NoDeadCallback, EpollMatches, Unasked, BatchPlace, PipeLater, HeldAlive
<1>6. CASE MeventBuild \/ LastBuild
      BY <1>6, BuildStep
<1>7. CASE MeventDestroy
      BY <1>7 DEF MeventDestroy, LoopInv, TypeOK, OneList, NoDeadCallback, EpollMatches, Unasked, BatchPlace, PipeLater, HeldAlive
<1>8. CASE AddCpu \/ PipeCallback \/ PipeRead \/ Check \/ DeleteCpu
      BY <1>8, LoopStep
<1>9. ASSUME NEW R \in SUBSET Events, EpollWait(R) PROVE LoopInv'
      BY <1>9, LoopStep
<1>10. CASE UNCHANGED vars
      BY <1>10 DEF vars, lists, LoopInv, TypeOK, OneList, NoDeadCallback, EpollMatches, Unasked, BatchPlace, PipeLater, HeldAlive
<1> QED
    BY <1>1, <1>2, <1>3, <1>4, <1>5, <1>6, <1>7, <1>8, <1>9, <1>10 DEF Next, IoStep

\* Every reachable state satisfies the inductive invariant.
THEOREM Invariance == Spec => []LoopInv
<1> QED
    BY LoopInit, LoopNext, PTL DEF Spec

\* An entry is on exactly one list until it is freed.
THEOREM EntryOnOneList == Spec => []OneList
<1>1. LoopInv => OneList
      BY DEF LoopInv
<1> QED
    BY <1>1, Invariance, PTL

\* mevent_handle never calls through an entry that mevent_build has freed.
THEOREM CallbacksAreLive == Spec => []NoDeadCallback
<1>1. LoopInv => NoDeadCallback
      BY DEF LoopInv
<1> QED
    BY <1>1, Invariance, PTL

\* epoll watches the global list, but for deletions not yet made.
THEOREM EpollFollowsTable == Spec => []EpollMatches
<1>1. LoopInv => EpollMatches
      BY DEF LoopInv
<1> QED
    BY <1>1, Invariance, PTL

\* The callbacks of mevent_handle are made for live entries, and epoll watches what
\* the global list says: what mevent_build, the pipe and the handlers rely on.
THEOREM EventsAreLive == Spec => []EventsLive
<1>1. LoopInv => EventsLive
      BY DEF LoopInv, EventsLive
<1> QED
    BY <1>1, Invariance, PTL

----------------------------------------------------------------------------
(* The network device.  The inductive invariant adds to NetSafe that       *)
(* resetting is raised while the reset lasts, that a thread at work on a   *)
(* ring shows it in its flag, and that what the reset has waited for stays *)
(* away: the handshake of the two flags, of which NetSafe is the outcome.  *)

N == INSTANCE VirtioNet

\* Where the transmit thread works on the ring without tx_mtx, where main does.
Sending   == {"proc", "send", "end", "intr", "relock"}
Receiving == {"rxchain", "rxread", "rxend", "rxintr"}
InReset   == {"txwait", "rxwait", "rings", "resetend"}

\* resetting is raised as long as the reset lasts.
ResetShown == resetting <=> vcpu \in InReset

\* A thread that works on a ring shows it.
Announced ==
    /\ tx \in Sending => txInProgress
    /\ main \in Receiving \cup {"rx", "rxdone"} => rxInProgress

\* What the reset has waited for stays away.
Excluded ==
    /\ vcpu \in {"rxwait", "rings", "resetend"} => tx \notin Sending
    /\ vcpu \in {"rings", "resetend"} => main \notin Receiving

\* The device's flags, and the types of the rest.
NetFlags ==
    /\ noNotify \in BOOLEAN /\ resetting \in BOOLEAN /\ closing \in BOOLEAN
    /\ rxReady \in BOOLEAN /\ txInProgress \in BOOLEAN /\ rxInProgress \in BOOLEAN
    /\ rxMerge \in BOOLEAN

NetTypes ==
    /\ lock \in [N!Locks -> {"none", "vcpu", "tx", "main"}]
    /\ ready \in [N!Queues -> BOOLEAN]
    /\ avail \in [N!Queues -> 0 .. MaxDescs]
    /\ rxVhdrlen \in 0 .. N!HdrLen
    /\ vcpu \in {"idle", "kick", "ping", "txwait", "rxwait", "rings", "resetend"}
    /\ tx \in {"start", "first", "firstWoken", "wait", "woken", "loop", "clear", "recheck",
               "proc", "send", "end", "intr", "relock", "exited"}
    /\ main \in {"idle", "rx", "rxchain", "rxread", "rxend", "rxintr", "rxdone",
                 "broadcast", "join", "stopped"}

\* The inductive invariant.
NetWork == NetTypes /\ ResetShown /\ Announced /\ Excluded /\ ChainAvailable
NetInv == NetFlags /\ NetWork

\* No thread works when the device is initialised.
LEMMA NetInit == N!Init => NetInv
<1> SUFFICES ASSUME N!Init PROVE NetInv
    OBVIOUS
<1>1. NetFlags
      BY Zenon DEF N!Init, NetFlags
<1>2. NetTypes
  <2>1. ready \in [N!Queues -> BOOLEAN]
        BY Zenon DEF N!Init
  <2> QED
      BY <2>1, LoopsAssumption DEF NetTypes, N!Init, N!HdrLen
<1>3. ResetShown
      BY DEF N!Init, ResetShown, InReset
<1>4. Announced /\ Excluded /\ ChainAvailable
      BY DEF N!Init, Announced, Excluded, ChainAvailable, Sending, Receiving
<1> QED
    BY <1>1, <1>2, <1>3, <1>4 DEF NetInv, NetWork

\* Every assignment to a flag is one of a truth value.
LEMMA NetFlagsKept ==
    ASSUME NetFlags, N!Next
    PROVE  NetFlags'
<1> USE DEF NetFlags, N!dev
<1>1. CASE N!Driver
  <2>1. ASSUME NEW q \in N!Queues, N!VqInit(q) PROVE NetFlags'
    <3>1. noNotify' \in BOOLEAN
          BY <2>1, Zenon DEF N!VqInit
    <3> QED
        BY <2>1, <3>1, Zenon DEF N!VqInit
  <2>2. ASSUME NEW mrg \in BOOLEAN, N!NegFeatures(mrg) PROVE NetFlags'
    <3>1. rxMerge' \in BOOLEAN
          BY <2>2, Zenon DEF N!NegFeatures
    <3> QED
        BY <2>2, <3>1, Zenon DEF N!NegFeatures
  <2>3. ASSUME NEW q \in N!Queues, N!Offer(q) PROVE NetFlags'
        BY <2>3, Zenon DEF N!Offer
  <2>4. CASE N!PingRxq \/ N!ResetBegin
        BY <2>4, Zenon DEF N!PingRxq, N!ResetBegin
  <2> QED
      BY <1>1, <2>1, <2>2, <2>3, <2>4 DEF N!Driver
<1>2. CASE N!VcpuStep
      BY <1>2, Zenon DEF N!VcpuStep, N!Kick, N!PingTxq, N!TxWait, N!RxWait, N!ResetRings, N!ResetEnd
<1>3. CASE N!TxStep
  <2>1. CASE N!TxLoop
        BY <2>1, Zenon DEF N!TxLoop, N!TxBegin
  <2>2. CASE N!TxRecheck
        BY <2>2, Zenon DEF N!TxRecheck, N!TxBegin
  <2> QED
      BY <1>3, <2>1, <2>2, Zenon DEF N!TxStep, N!TxFirstWait, N!TxWoken, N!TxClear, N!TxGetChain,
                                     N!TxRelChain, N!TxEndChains, N!TxInterrupt, N!TxRelock
<1>4. CASE N!RxCallback \/ N!StopBegin
      BY <1>4, Zenon DEF N!RxCallback, N!StopBegin
<1>5. CASE N!MainStep
      BY <1>5, Zenon DEF N!MainStep, N!RxCheck, N!RxGetChain, N!RxRead, N!RxEndChains, N!RxInterrupt,
                         N!RxDone, N!StopBroadcast, N!StopJoin
<1> QED
    BY <1>1, <1>2, <1>3, <1>4, <1>5 DEF N!Next

\* The driver's register writes, the first step of a reset included.
LEMMA NetDriver ==
    ASSUME NetInv, N!Driver
    PROVE  NetWork'
<1> USE DEF NetInv, NetFlags, NetWork, NetTypes, ResetShown, Announced, Excluded, ChainAvailable, ChainIn, N!HasDescs,
            Sending, Receiving, InReset, N!Queues, N!HdrLen, N!dev
<1> USE LoopsAssumption
<1>1. ASSUME NEW q \in N!Queues, N!VqInit(q) PROVE NetWork'
      BY <1>1 DEF N!VqInit
<1>2. ASSUME NEW q \in N!Queues, N!Offer(q) PROVE NetWork'
      BY <1>2 DEF N!Offer
<1>3. ASSUME NEW mrg \in BOOLEAN, N!NegFeatures(mrg) PROVE NetWork'
      BY <1>3 DEF N!NegFeatures
<1>4. CASE N!PingRxq
      BY <1>4 DEF N!PingRxq
<1>5. CASE N!ResetBegin
      BY <1>5 DEF N!ResetBegin, N!Take, N!Free, N!Locks
<1> QED
    BY <1>1, <1>2, <1>3, <1>4, <1>5, Zenon DEF N!Driver

\* The rest of a notification and of a reset.
LEMMA NetVcpu ==
    ASSUME NetInv, N!VcpuStep
    PROVE  NetWork'
<1> USE DEF NetInv, NetFlags, NetWork, NetTypes, ResetShown, Announced, Excluded, ChainAvailable, ChainIn, N!HasDescs,
            Sending, Receiving, InReset, N!Queues, N!HdrLen, N!dev
<1> USE LoopsAssumption
<1>1. CASE N!Kick
      BY <1>1 DEF N!Kick, N!Take, N!Free, N!Locks
<1>2. CASE N!PingTxq
      BY <1>2 DEF N!PingTxq, N!Woken, N!Drop, N!Locks
<1>3. CASE N!TxWait \/ N!RxWait
      BY <1>3 DEF N!TxWait, N!RxWait
<1>4. CASE N!ResetRings
      BY <1>4 DEF N!ResetRings
<1>5. CASE N!ResetEnd
      BY <1>5 DEF N!ResetEnd, N!Drop, N!Locks
<1> QED
    BY <1>1, <1>2, <1>3, <1>4, <1>5, Zenon DEF N!VcpuStep

\* The transmit thread: it begins its processing only if it sees no reset.
LEMMA NetTx ==
    ASSUME NetInv, N!TxStep
    PROVE  NetWork'
<1> USE DEF NetInv, NetFlags, NetWork, NetTypes, ResetShown, Announced, Excluded, ChainAvailable, ChainIn, N!HasDescs,
            Sending, Receiving, InReset, N!Queues, N!HdrLen, N!dev
<1> USE LoopsAssumption
<1>1. CASE N!TxFirstWait \/ N!TxClear \/ N!TxGetChain \/ N!TxEndChains \/ N!TxInterrupt
      BY <1>1 DEF N!TxFirstWait, N!TxClear, N!TxGetChain, N!TxEndChains, N!TxInterrupt
<1>2. CASE N!TxWoken \/ N!TxRelock
  <2>1. tx' \in {"exited", "loop"} /\ lock' = [lock EXCEPT !["tx"] = "tx"]
        BY <1>2 DEF N!TxWoken, N!TxRelock, N!Take
  <2>2. UNCHANGED <<ready, avail, resetting, txInProgress, rxInProgress, rxVhdrlen, vcpu, main>>
        BY <1>2 DEF N!TxWoken, N!TxRelock
  <2> QED
      BY <2>1, <2>2 DEF N!Locks
<1>3. CASE N!TxLoop
      BY <1>3 DEF N!TxLoop, N!TxBegin, N!Drop, N!Locks
<1>4. CASE N!TxRecheck
      BY <1>4 DEF N!TxRecheck, N!TxBegin, N!Drop, N!Locks
<1>5. CASE N!TxRelChain
      BY <1>5 DEF N!TxRelChain
<1> QED
    BY <1>1, <1>2, <1>3, <1>4, <1>5, Zenon DEF N!TxStep

\* Main: the receive callback looks at resetting before it takes a chain.
LEMMA NetMain ==
    ASSUME NetInv, N!RxCallback \/ N!MainStep \/ N!StopBegin
    PROVE  NetWork'
<1> USE DEF NetInv, NetFlags, NetWork, NetTypes, ResetShown, Announced, Excluded, ChainAvailable, ChainIn, N!HasDescs,
            Sending, Receiving, InReset, N!Queues, N!HdrLen, N!dev
<1> USE LoopsAssumption
<1>1. CASE N!RxCallback
      BY <1>1 DEF N!RxCallback, N!Take, N!Free, N!Locks
<1>2. CASE N!RxCheck \/ N!RxGetChain \/ N!RxEndChains \/ N!RxInterrupt
      BY <1>2 DEF N!RxCheck, N!RxGetChain, N!RxEndChains, N!RxInterrupt
<1>3. CASE N!RxRead
      BY <1>3 DEF N!RxRead
<1>4. CASE N!RxDone
      BY <1>4 DEF N!RxDone, N!Drop, N!Locks
<1>5. CASE N!StopBegin \/ N!StopBroadcast \/ N!StopJoin
      BY <1>5 DEF N!StopBegin, N!StopBroadcast, N!Woken, N!StopJoin
<1> QED
    BY <1>1, <1>2, <1>3, <1>4, <1>5, Zenon DEF N!MainStep

\* Every step preserves the invariant.
LEMMA NetNext ==
    ASSUME NetInv, N!Next
    PROVE  NetInv'
<1> QED
    BY NetFlagsKept, NetDriver, NetVcpu, NetTx, NetMain DEF N!Next, NetInv

\* So does a step that changes nothing of it.
LEMMA NetStutter ==
    ASSUME NetInv, UNCHANGED nvars
    PROVE  NetInv'
<1> QED
    BY DEF nvars, NetInv, NetFlags, NetWork, NetTypes, ResetShown, Announced, Excluded, ChainAvailable, ChainIn, N!HasDescs

\* The invariant is what is promised, and more.
LEMMA NetImplies == NetInv => NetSafe
<1> QED
    BY DEF NetInv, NetFlags, NetWork, NetTypes, NetTypeOK, Excluded, NetSafe, ResetExclusive, Sending, Receiving,
           N!Locks, N!Queues, N!HdrLen

\* When virtio_net_reset clears the rings no thread works on them, and the chain
\* that vq_has_descs saw is there when vq_getchain takes it and until it is
\* released, in both directions.
THEOREM NetAlways == N!Spec => []NetSafe
<1>1. NetInv /\ [N!Next]_(N!vars) => NetInv'
      BY NetNext, NetStutter DEF N!vars, nvars
<1> QED
    BY NetInit, <1>1, NetImplies, PTL DEF N!Spec

----------------------------------------------------------------------------
(* Devices with a back end in the kernel.  The inductive invariant ties    *)
(* the status to the life of the device, and the descriptor to the VMs     *)
(* before.                                                                 *)

V == INSTANCE Vbsk WITH vm <- kvm, MaxVms <- MaxBoots


\* Types of the back end's state, its flags apart.
VbskTypes ==
    /\ kind \in {"rnd", "dmabuf"} /\ ops \in {"kernel", "user"}
    /\ kstatus \in {"INITIAL", "INIT_SUCCESS", "INIT_FAILED", "START_FAILED", "STARTED"}
    /\ drv \in [status : {"reset", "driver", "ok"}, vq : [V!Queues -> [pfn : 0 .. 2, vec : 0 .. 2]]]
    /\ msgs \in [1 .. 2 -> 1 .. 2]
    /\ kern \in [V!Queues -> [pfn : 0 .. 2, vec : 0 .. 2, msg : 0 .. 2]]
    /\ vms \in Nat /\ offered \in Nat

VbskFlags ==
    /\ fd \in BOOLEAN /\ moved \in BOOLEAN /\ again \in BOOLEAN
    /\ unclean \in BOOLEAN /\ kick \in BOOLEAN

\* What the status says of a VM that runs: the kernel serves a started device and
\* no other one; INITIAL is the status after a reset of a started one.
StatusTold ==
    /\ kstatus = "STARTED" => kvm # 0 /\ drv.status = "ok" /\ KernelServes
    /\ kvm # 0 /\ ops = "kernel" /\ kstatus = "INITIAL" => again
    /\ kvm # 0 /\ ops = "kernel" /\ drv.status = "ok" => kstatus # "INIT_SUCCESS"
    /\ kstatus = "INIT_FAILED" => refused # "no"

\* A descriptor that is open between two VMs was left by one that did not start.
LeftOpen ==
    /\ kind = "dmabuf" /\ kvm = 0 /\ fd => unclean
    /\ refused = "reenter" => unclean

\* A chain the driver added is announced or in the hands of virtio_rnd_notify.
Heard == offered > 0 => kick \/ npc # "idle"

VbskWork == VbskTypes /\ StatusTold /\ LeftOpen /\ Heard

\* The inductive invariant.
VbskInv == VbskFlags /\ VbskWork

\* No VM runs at first.
LEMMA VbskInit == V!Init => VbskInv
<1> SUFFICES ASSUME V!Init PROVE VbskInv
    OBVIOUS
<1>1. VbskFlags
      BY Zenon DEF V!Init, VbskFlags
<1>2. VbskTypes
      BY DEF V!Init, VbskTypes, V!Cleared, V!Nothing, V!Queues
<1>3. StatusTold /\ LeftOpen /\ Heard
      BY DEF V!Init, StatusTold, LeftOpen, Heard
<1> QED
    BY <1>1, <1>2, <1>3 DEF VbskInv, VbskWork

\* Every assignment to a flag is one of a truth value.
LEMMA VbskFlagsKept ==
    ASSUME VbskFlags, V!Next
    PROVE  VbskFlags'
<1> USE DEF VbskFlags
<1>1. CASE V!virtio_rnd_init
      BY <1>1, Zenon DEF V!virtio_rnd_init, V!NewVm, V!virtio_rnd_kernel_init
<1>2. CASE V!virtio_hyper_dmabuf_init
      BY <1>2, Zenon DEF V!virtio_hyper_dmabuf_init, V!NewVm, V!virtio_hyper_dmabuf_k_init
<1>3. CASE V!WriteRing \/ V!MoveInterrupt
      BY <1>3, Zenon DEF V!WriteRing, V!MoveInterrupt
<1>4. CASE V!virtio_rnd_reset \/ V!virtio_hyper_dmabuf_reset
      BY <1>4, Zenon DEF V!virtio_rnd_reset, V!virtio_hyper_dmabuf_reset, V!Stopped
<1>5. CASE V!virtio_rnd_deinit \/ V!virtio_hyper_dmabuf_deinit
      BY <1>5, Zenon DEF V!virtio_rnd_deinit, V!virtio_hyper_dmabuf_deinit, V!EndVm, V!CloseStarted
<1>6. CASE V!Offer \/ V!NotifyBegin \/ V!NotifyChain \/ V!NotifyEnd
      BY <1>6, Zenon DEF V!Offer, V!NotifyBegin, V!NotifyChain, V!NotifyEnd
<1>7. ASSUME NEW s \in {"driver", "ok"},
             V!virtio_rnd_k_set_status(s) \/ V!virtio_hyper_dmabuf_set_status(s)
      PROVE VbskFlags'
      BY <1>7, Zenon DEF V!virtio_rnd_k_set_status, V!virtio_hyper_dmabuf_set_status, V!WriteStatus
<1> QED
    BY <1>1, <1>2, <1>3, <1>4, <1>5, <1>6, <1>7 DEF V!Next

\* A VM starts with the device reset and its status decided by k_init.
LEMMA VbskNewVm ==
    ASSUME VbskInv, V!virtio_rnd_init \/ V!virtio_hyper_dmabuf_init
    PROVE  VbskWork'
<1> USE DEF VbskInv, VbskFlags, VbskWork, V!NewVm
<1>1. VbskTypes'
      BY DEF VbskTypes, V!virtio_rnd_init, V!virtio_hyper_dmabuf_init, V!virtio_rnd_kernel_init,
             V!virtio_hyper_dmabuf_k_init, V!Cleared, V!Nothing, V!Queues
<1>2. StatusTold' /\ LeftOpen' /\ Heard'
      BY DEF VbskTypes, StatusTold, LeftOpen, Heard, V!virtio_rnd_init, V!virtio_hyper_dmabuf_init,
             V!virtio_rnd_kernel_init, V!virtio_hyper_dmabuf_k_init, V!Cleared
<1> QED
    BY <1>1, <1>2

\* The driver sets its rings and vectors up, and moves an interrupt.
LEMMA VbskRings ==
    ASSUME VbskInv, V!WriteRing \/ V!MoveInterrupt
    PROVE  VbskWork'
<1> USE DEF VbskInv, VbskFlags, VbskWork, VbskTypes, StatusTold, LeftOpen, Heard, V!Used, V!Queues
<1>1. CASE V!WriteRing
      BY <1>1 DEF V!WriteRing
<1>2. CASE V!MoveInterrupt
  <2>1. PICK v \in {q + 1 : q \in V!Used} : msgs' = [msgs EXCEPT ![v] = 3 - @]
        BY <1>2, Zenon DEF V!MoveInterrupt
  <2>2. UNCHANGED <<kind, kstatus, fd, ops, drv, kern, kvm, vms, again, unclean, refused, offered, kick, npc>>
        BY <1>2 DEF V!MoveInterrupt
  <2>3. v \in 1 .. 2
        BY <2>1
  <2>4. VbskTypes'
        BY <2>1, <2>2, <2>3
  <2>5. drv.status = "ok" => moved'
        BY <1>2, Zenon DEF V!MoveInterrupt
  <2>6. StatusTold'
        BY <2>2, <2>5 DEF KernelServes
  <2> QED
      BY <2>2, <2>4, <2>6
<1> QED
    BY <1>1, <1>2

\* The driver writes the status register; a back end that starts is told the rings.
LEMMA VbskStatus ==
    ASSUME VbskInv, NEW s \in {"driver", "ok"},
           V!virtio_rnd_k_set_status(s) \/ V!virtio_hyper_dmabuf_set_status(s)
    PROVE  VbskWork'
<1> USE DEF VbskInv, VbskFlags, VbskWork, VbskTypes, StatusTold, LeftOpen, Heard, V!Used, V!Queues,
            V!WriteStatus, V!vbs_kernel_start
<1>1. CASE V!virtio_rnd_k_set_status(s)
      BY <1>1 DEF V!virtio_rnd_k_set_status, V!RndRings, V!Nothing, KernelServes
<1>2. CASE V!virtio_hyper_dmabuf_set_status(s)
      BY <1>2 DEF V!virtio_hyper_dmabuf_set_status, V!DmabufRings, KernelServes
<1> QED
    BY <1>1, <1>2

\* The device is reset, the driver's chains served, or the VM ends.
LEMMA VbskRest ==
    ASSUME VbskInv,
           \/ V!virtio_rnd_reset \/ V!virtio_hyper_dmabuf_reset
           \/ V!virtio_rnd_deinit \/ V!virtio_hyper_dmabuf_deinit
           \/ V!Offer \/ V!NotifyBegin \/ V!NotifyChain \/ V!NotifyEnd
    PROVE  VbskWork'
<1> USE DEF VbskInv, VbskFlags, VbskWork, VbskTypes, StatusTold, LeftOpen, Heard, V!Used, V!Queues
<1>1. CASE V!virtio_rnd_reset \/ V!virtio_hyper_dmabuf_reset
  <2>1. /\ drv' = V!Cleared /\ offered' = 0 /\ kstatus' = IF kstatus = "STARTED" THEN "INITIAL" ELSE kstatus
        /\ UNCHANGED <<kind, fd, ops, msgs, kern, kvm, vms, moved, unclean, refused, npc>>
        BY <1>1 DEF V!virtio_rnd_reset, V!virtio_hyper_dmabuf_reset, V!Stopped
  <2>2. again \/ kstatus = "STARTED" => again'
        BY <1>1, Zenon DEF V!virtio_rnd_reset, V!virtio_hyper_dmabuf_reset, V!Stopped
  <2>3. VbskTypes'
        BY <2>1 DEF V!Cleared
  <2> QED
      BY <2>1, <2>2, <2>3 DEF V!Cleared
<1>2. CASE V!virtio_rnd_deinit
      BY <1>2, SMTT(30) DEF V!virtio_rnd_deinit, V!EndVm, V!CloseStarted, V!Nothing
<1>3. CASE V!Offer
      BY <1>3 DEF V!Offer, KernelServes
<1>4. CASE V!NotifyBegin
      BY <1>4 DEF V!NotifyBegin, KernelServes
<1>5. CASE V!NotifyChain
      BY <1>5 DEF V!NotifyChain, KernelServes
<1>6. CASE V!NotifyEnd
      BY <1>6 DEF V!NotifyEnd, KernelServes
<1>7. CASE V!virtio_hyper_dmabuf_deinit
      BY <1>7, SMTT(30) DEF V!virtio_hyper_dmabuf_deinit, V!EndVm, V!CloseStarted, V!Nothing
<1> QED
    BY <1>1, <1>2, <1>3, <1>4, <1>5, <1>6, <1>7, Zenon

\* Every step preserves the invariant.
LEMMA VbskNext ==
    ASSUME VbskInv, V!Next
    PROVE  VbskInv'
<1> QED
    BY VbskFlagsKept, VbskNewVm, VbskRings, VbskStatus, VbskRest DEF V!Next, VbskInv

\* So does a step that changes nothing of it.
LEMMA VbskStutter ==
    ASSUME VbskInv, UNCHANGED vvars
    PROVE  VbskInv'
<1> QED
    BY DEF vvars, VbskInv, VbskFlags, VbskWork, VbskTypes, StatusTold, LeftOpen, Heard, KernelServes, V!Used

\* The invariant is what is promised, and more.
LEMMA VbskImplies == VbskInv => VbskServed
<1> QED
    BY DEF VbskInv, VbskWork, VbskTypes, StatusTold, LeftOpen, Heard, VbskServed, DriverRuns

\* A driver that has finished its set-up is served by the device model or, with the
\* rings and the messages it chose, by the kernel, unless the kernel refused or the
\* device was reset after its start; and hyper_dmabuf finds its descriptor open only
\* after a VM that ended with the back end not started (virtio_rnd_k_set_status,
\* virtio_hyper_dmabuf_set_status, virtio_hyper_dmabuf_deinit, virtio_rnd_notify).
THEOREM VbskAlways == V!Spec => []VbskServed
<1>1. VbskInv /\ [V!Next]_(V!vars) => VbskInv'
      BY VbskNext, VbskStutter DEF V!vars, vvars
<1> QED
    BY VbskInit, <1>1, VbskImplies, PTL DEF V!Spec

----------------------------------------------------------------------------
(* The life cycle: main takes nothing away from a request thread that may  *)
(* be in a handler.  ServedAlive is not inductive: that main waits in      *)
(* fbsdrun_deletecpu helps only because quit_vm_loop stays raised until    *)
(* vm_loop itself lowers it on its way out, which is what Handshake says.  *)

L == INSTANCE Lifecycle WITH vm <- lvm, suspend <- lsuspend, pipe <- lpipe

\* Where main is when the VM is built, from the set-up to vm_unsetup_memory.
Built == {"addcpu", "pipe", "epoll", "check", "destroy", "pause", "quit", "client", "spin", "unmap"}

\* Where main is while vm_loop runs.
Dispatching == {"pipe", "epoll", "check", "destroy", "pause", "quit", "client", "spin"}

Places == Built \cup {"setup", "close", "decide", "again", "exited"}

Handshake ==
    /\ lpc # "none" => mpc \in Dispatching
    /\ lpc # "none" /\ mpc \in {"client", "spin"} => quit

LifeFlags == mem \in BOOLEAN /\ devs \in BOOLEAN /\ quit \in BOOLEAN /\ paused \in BOOLEAN

LifeTypes ==
    /\ lvm \in 1 .. MaxVms /\ lsuspend \in {"none", "reset", "poweroff"}
    /\ lpipe \in {"none", "empty", "byte", "broken"}
    /\ lpc \in {"none", "create", "attach", "serve", "notify", "leave"}
    /\ client \in {"none", "live", "destroyed"} /\ tpc \in {"idle", "notify", "done"}
    /\ req \in [Vcpus -> {"none", "io", "reset", "poweroff"}]

\* The inductive invariant of the life cycle.
LifeInv ==
    /\ LifeFlags /\ LifeTypes
    /\ mpc \in Places
    /\ mpc \in Built => mem /\ devs
    /\ Handshake

\* The first VM has not been built.
LEMMA LifeInit == L!Init => LifeInv
<1> SUFFICES ASSUME L!Init PROVE LifeInv
    OBVIOUS
<1>1. LifeFlags
      BY Zenon DEF L!Init, LifeFlags
<1>2. LifeTypes
      BY PlatformAssumption DEF L!Init, L!NoReq, LifeTypes
<1> QED
    BY <1>1, <1>2 DEF L!Init, LifeInv, Places, Built, Handshake, Dispatching

\* The flags stay truth values.
LEMMA LifeFlagsKept ==
    ASSUME LifeFlags, L!Next
    PROVE  LifeFlags'
<1> USE DEF LifeFlags
<1>1. CASE L!MainStep \/ L!SetupFails \/ L!EpollReturns
      BY <1>1, Zenon DEF L!MainStep, L!Setup, L!fbsdrun_addcpu, L!OpenPipe, L!EpollReturns,
         L!CheckSuspend, L!mevent_destroy, L!vm_pause, L!RaiseQuit, L!DestroyClient, L!AwaitQuit,
         L!vm_unsetup_memory, L!do_close_post, L!Decide, L!Again, L!SetupFails
<1>2. CASE L!LoopStep
      BY <1>2, Zenon DEF L!LoopStep, L!CreateClient, L!AttachReturns, L!AttachFails,
         L!LoopNotify, L!ScanEnds, L!LoopLeaves, L!Serve
<1>3. ASSUME NEW v \in Vcpus, NEW k \in {"io", "reset", "poweroff"}, L!GuestRequest(v, k)
      PROVE  LifeFlags'
      BY <1>3 DEF L!GuestRequest
<1>4. CASE L!WdtExpires \/ L!WdtNotify \/ L!Sigint \/ L!Ended \/ \E v \in Vcpus : L!ServeAborts(v)
      BY <1>4, Zenon DEF L!ServeAborts, L!WdtExpires, L!WdtNotify, L!Sigint, L!Ended, L!vars
<1> QED
    BY <1>1, <1>2, <1>3, <1>4 DEF L!Next

\* The steps of main: only AwaitQuit leads out of Dispatching, and only with the
\* flag lowered.
LEMMA LifeMain ==
    ASSUME LifeInv, L!MainStep \/ L!SetupFails \/ L!EpollReturns
    PROVE  LifeInv'
<1> USE DEF LifeInv, LifeTypes, Places, Built, Handshake, Dispatching, L!Main
<1>1. LifeFlags'
      BY LifeFlagsKept DEF L!Next
<1>2. CASE L!Setup
      BY <1>1, <1>2 DEF L!Setup, L!NoReq
<1>3. CASE L!fbsdrun_addcpu \/ L!OpenPipe \/ L!EpollReturns \/ L!CheckSuspend
      BY <1>1, <1>3 DEF L!fbsdrun_addcpu, L!OpenPipe, L!EpollReturns, L!CheckSuspend
<1>4. CASE L!mevent_destroy \/ L!vm_pause \/ L!RaiseQuit \/ L!DestroyClient
      BY <1>1, <1>4 DEF L!mevent_destroy, L!vm_pause, L!RaiseQuit, L!DestroyClient
<1>5. CASE L!AwaitQuit
      BY <1>1, <1>5 DEF L!AwaitQuit
<1>6. CASE L!vm_unsetup_memory \/ L!do_close_post \/ L!Decide \/ L!Again \/ L!SetupFails
      BY <1>1, <1>6, PlatformAssumption
         DEF L!vm_unsetup_memory, L!do_close_post, L!Decide, L!Again, L!SetupFails
<1> QED
    BY <1>2, <1>3, <1>4, <1>5, <1>6, Zenon DEF L!MainStep

\* The steps of vm_loop: it lowers the flag only when it is gone.
LEMMA LifeLoop ==
    ASSUME LifeInv, L!LoopStep
    PROVE  LifeInv'
<1> USE DEF LifeInv, LifeTypes, Places, Built, Handshake, Dispatching, L!Loop
<1>1. LifeFlags'
      BY LifeFlagsKept DEF L!Next
<1>2. CASE L!CreateClient \/ L!AttachReturns \/ L!AttachFails
      BY <1>1, <1>2 DEF L!CreateClient, L!AttachReturns, L!AttachFails
<1>3. CASE L!LoopNotify \/ L!ScanEnds \/ L!LoopLeaves
      BY <1>1, <1>3 DEF L!LoopNotify, L!mevent_notify, L!ScanEnds, L!LoopLeaves
<1>4. ASSUME NEW v \in Vcpus, L!Serve(v) PROVE LifeInv'
      BY <1>1, <1>4 DEF L!Serve
<1> QED
    BY <1>2, <1>3, <1>4 DEF L!LoopStep

\* Every step preserves the invariant; the guest, the watchdog and SIGINT move main
\* at most from epoll_wait to the look at the suspend mode.
LEMMA LifeNext ==
    ASSUME LifeInv, L!Next
    PROVE  LifeInv'
<1> USE DEF LifeInv, LifeTypes, Places, Built, Handshake, Dispatching
<1>0. LifeFlags'
      BY LifeFlagsKept
<1>1. CASE L!MainStep \/ L!SetupFails \/ L!EpollReturns
      BY <1>1, LifeMain
<1>2. CASE L!LoopStep
      BY <1>2, LifeLoop
<1>3. ASSUME NEW v \in Vcpus, NEW k \in {"io", "reset", "poweroff"}, L!GuestRequest(v, k)
      PROVE  LifeInv'
      BY <1>0, <1>3 DEF L!GuestRequest
<1>4. CASE L!WdtExpires \/ L!WdtNotify
      BY <1>0, <1>4 DEF L!WdtExpires, L!WdtNotify, L!mevent_notify
<1>5. CASE L!Sigint
      BY <1>0, <1>5 DEF L!Sigint
<1>6. CASE L!Ended
      BY <1>0, <1>6 DEF L!Ended, L!vars
<1>7. ASSUME NEW v \in Vcpus, L!ServeAborts(v) PROVE LifeInv'
      BY <1>0, <1>7 DEF L!ServeAborts, L!Loop
<1> QED
    BY <1>1, <1>2, <1>3, <1>4, <1>5, <1>6, <1>7, Zenon DEF L!Next

\* The invariant reads the variables of the life cycle only.
LEMMA LifeStutter ==
    ASSUME LifeInv, UNCHANGED lvars
    PROVE  LifeInv'
BY DEF LifeInv, LifeFlags, LifeTypes, Places, Built, Handshake, Dispatching, lvars

\* While vm_loop may be in a handler, the guest's memory is mapped and the devices
\* exist: fbsdrun_deletecpu returns only when the thread is gone.
THEOREM ServedAlways == L!Spec => []ServedAlive
<1>1. LifeInv => ServedAlive
      BY DEF LifeInv, LifeFlags, LifeTypes, Handshake, Dispatching, Built, ServedAlive, LifeTypeOK
<1>2. LifeInv /\ [L!Next]_(L!vars) => LifeInv'
      BY LifeNext, LifeStutter DEF L!vars, lvars
<1> QED
    BY <1>1, <1>2, LifeInit, PTL DEF L!Spec

============================================================================
