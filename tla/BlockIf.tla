------------------------------ MODULE BlockIf ------------------------------
(***************************************************************************)
(* The block back end, hw/platform/block_if.c: one context (struct         *)
(* blockif_ctxt) with its pool of worker threads, its queue elements, the  *)
(* device emulation that submits and cancels requests under its own lock,  *)
(* and the shutdown of the pool.                                           *)
(*                                                                         *)
(* freeq and busyq are sets: which free element is taken, and the order of *)
(* the busy ones, is seen by nobody.  They are {e : status[e] = FREE} and  *)
(* {e : status[e] \in {BUSY, DONE}}.  The order of pendq is kept.          *)
(* The data transfer of blockif_proc, and whether it fails, is left out:   *)
(* every path of it reaches the callback.                                  *)
(***************************************************************************)
EXTENDS Integers, Sequences, FiniteSets, Functions

CONSTANTS
    Threads,      \* bc->btid[], BLOCKIF_NUMTHR workers
    Elems,        \* bc->reqs[], BLOCKIF_MAXREQ elements
    Requests,     \* the struct blockif_req objects the device owns
    Offsets,      \* values of breq->offset
    Lengths,      \* values of the sum of breq->iov[].iov_len
    FlushBlock,   \* be->block of a request that is no read, write or delete
    Caller,       \* the device's thread (a vcpu, or main at shutdown)
    Submitters,   \* {Caller}, and the workers if the callback submits (ahci.c)
    Nobody, NoReq, NoElem

ASSUME BlockIfAssumption ==
    /\ Offsets \subseteq Nat
    /\ Lengths \subseteq Nat
    /\ FlushBlock \in Nat
    /\ Threads # {}
    /\ Caller \notin Threads
    /\ Nobody \notin Threads \cup {Caller}
    /\ Submitters \subseteq Threads \cup {Caller}
    /\ NoReq \notin Requests
    /\ NoElem \notin Elems

\* The pool, its elements and the device's requests are arrays.
ASSUME FiniteAssumption == IsFiniteSet(Threads) /\ IsFiniteSet(Elems) /\ IsFiniteSet(Requests)

VARIABLES
    status,    \* be->status
    req,       \* be->req
    block,     \* be->block, the offset that follows the request
    offset,    \* breq->offset
    pendq,     \* bc->pendq
    closing,   \* bc->closing
    locked,    \* the OFD lock on the sub file is held
    mtx,       \* holder of bc->mtx
    dev,       \* holder of the lock of the device emulation
    pc,        \* control state of each worker
    cur,       \* the worker's be
    cpc,       \* control state of the caller
    cbe,       \* the be of blockif_cancel
    bse,       \* bse.pending while &bse is on blockif_bse_head
    sig,       \* workers with a SIGCONT pending
    inflight   \* requests accepted, not cancelled, not yet called back

elemVars   == <<status, req, block, offset, pendq>>
workerVars == <<pc, cur>>
cancelVars == <<cbe, bse, sig>>
vars == <<status, req, block, offset, pendq, closing, locked, mtx, dev, pc, cur,
          cpc, cbe, bse, sig, inflight>>

BlockStat == {"FREE", "BLOCK", "PEND", "BUSY", "DONE"}

Busy(e)   == status[e] \in {"BUSY", "DONE"}
Queued(e) == e \in Range(pendq)

----------------------------------------------------------------------------
(* blockif_open: every element is free, the workers have been created and  *)
(* the lock on the sub file has been taken.                                *)
Init ==
    /\ status = [e \in Elems |-> "FREE"]
    /\ req = [e \in Elems |-> NoReq]
    /\ block = [e \in Elems |-> 0]
    /\ offset \in [Requests -> {0}]
    /\ pendq = <<>>
    /\ closing = FALSE
    /\ locked = TRUE
    /\ mtx = Nobody
    /\ dev = Nobody
    /\ pc = [t \in Threads |-> "lock"]
    /\ cur = [t \in Threads |-> NoElem]
    /\ cpc = "idle"
    /\ cbe = NoElem
    /\ bse = FALSE
    /\ sig = {}
    /\ inflight = {}

----------------------------------------------------------------------------
(* The queues.                                                             *)

\* TAILQ_REMOVE of the i-th element.
RemoveAt(q, i) == SubSeq(q, 1, i - 1) \o SubSeq(q, i + 1, Len(q))

\* pthread_cond_signal(&bc->cond): one of the waiters, if there is one.
Signal ==
    IF \E t \in Threads : pc[t] = "wait"
    THEN \E t \in Threads : pc[t] = "wait" /\ pc' = [pc EXCEPT ![t] = "lock"]
    ELSE UNCHANGED pc

\* Some pending or busy request ends where offset off begins.
Follows(off) == \E x \in Elems : (Queued(x) \/ Busy(x)) /\ block[x] = off

\* Mutant: the request is queued and nobody is signalled.
EnqueueNoSignal(e, r, off, blk) ==
    /\ status[e] = "FREE"
    /\ status' = [status EXCEPT ![e] = IF Follows(off) THEN "BLOCK" ELSE "PEND"]
    /\ req' = [req EXCEPT ![e] = r]
    /\ block' = [block EXCEPT ![e] = blk]
    /\ offset' = [offset EXCEPT ![r] = off]
    /\ pendq' = Append(pendq, e)
    /\ UNCHANGED pc

\* blockif_enqueue, and the signal of blockif_request.
Enqueue(e, r, off, blk) ==
    /\ status[e] = "FREE"
    /\ status' = [status EXCEPT ![e] = IF Follows(off) THEN "BLOCK" ELSE "PEND"]
    /\ req' = [req EXCEPT ![e] = r]
    /\ block' = [block EXCEPT ![e] = blk]
    /\ offset' = [offset EXCEPT ![r] = off]
    /\ pendq' = Append(pendq, e)
    /\ IF Follows(off) THEN UNCHANGED pc ELSE Signal

\* Mutant: what waited for e stays BLOCKed.
CompleteBlocked(e, q) ==
    /\ pendq' = q
    /\ status' = [status EXCEPT ![e] = "FREE"]
    /\ req' = [req EXCEPT ![e] = NoReq]
    /\ UNCHANGED <<block, offset>>

\* Mutant: e is not given back to freeq.
CompleteLost(e, q) ==
    /\ pendq' = q
    /\ status' = [x \in Elems |->
                    IF x = e THEN "DONE"
                    ELSE IF x \in Range(q) /\ offset[req[x]] = block[e] THEN "PEND"
                    ELSE status[x]]
    /\ req' = [req EXCEPT ![e] = NoReq]
    /\ UNCHANGED <<block, offset>>

\* blockif_complete: q is pendq without e; nobody is signalled.
Complete(e, q) ==
    /\ pendq' = q
    /\ status' = [x \in Elems |->
                    IF x = e THEN "FREE"
                    ELSE IF x \in Range(q) /\ offset[req[x]] = block[e] THEN "PEND"
                    ELSE status[x]]
    /\ req' = [req EXCEPT ![e] = NoReq]
    /\ UNCHANGED <<block, offset>>

----------------------------------------------------------------------------
(* The device emulation: a vcpu thread that takes the device lock, submits *)
(* and cancels requests; a worker does the same from a callback.           *)

\* be->block of a request: where a transfer ends, or the constant of a flush.
Block(off, len, flush) == IF flush THEN FlushBlock ELSE off + len

\* blockif_read, blockif_write, blockif_flush, blockif_delete by the holder p
\* of the device lock, for a request that is not outstanding.  With no free
\* element the call returns E2BIG and changes nothing.
BlockifRequest(p) ==
    /\ dev = p
    /\ p = Caller => cpc = "dev"
    /\ mtx = Nobody
    /\ \E r \in Requests \ inflight, off \in Offsets, len \in Lengths, flush \in BOOLEAN,
          e \in Elems :
         /\ Enqueue(e, r, off, Block(off, len, flush))
         /\ inflight' = inflight \cup {r}
    /\ UNCHANGED <<closing, locked, mtx, dev, cur, cpc, cancelVars>>

DevLock ==
    /\ cpc = "idle" /\ dev = Nobody
    /\ cpc' = "dev" /\ dev' = Caller
    /\ UNCHANGED <<elemVars, closing, locked, mtx, workerVars, cancelVars, inflight>>

DevUnlock ==
    /\ cpc = "dev"
    /\ cpc' = "idle" /\ dev' = Nobody
    /\ UNCHANGED <<elemVars, closing, locked, mtx, workerVars, cancelVars, inflight>>

\* blockif_cancel finds the request in pendq and returns 0.
CancelPending(r) ==
    /\ cpc = "dev" /\ mtx = Nobody
    /\ \E i \in 1..Len(pendq) :
         /\ req[pendq[i]] = r
         /\ Complete(pendq[i], RemoveAt(pendq, i))
    /\ inflight' = inflight \ {r}
    /\ UNCHANGED <<closing, locked, mtx, dev, workerVars, cpc, cancelVars>>

\* Mutant: a busy request is reported as cancelled, and still called back.
CancelBusyDone(r) ==
    /\ cpc = "dev" /\ mtx = Nobody
    /\ \A i \in 1..Len(pendq) : req[pendq[i]] # r
    /\ \E e \in Elems : Busy(e) /\ req[e] = r
    /\ inflight' = inflight \ {r}
    /\ UNCHANGED <<elemVars, closing, locked, mtx, dev, workerVars, cpc, cancelVars>>

\* blockif_cancel finds it in busyq: bc->mtx stays held.
CancelBusy(r) ==
    /\ cpc = "dev" /\ mtx = Nobody
    /\ \A i \in 1..Len(pendq) : req[pendq[i]] # r
    /\ \E e \in Elems : Busy(e) /\ req[e] = r /\ cbe' = e
    /\ mtx' = Caller
    /\ cpc' = "cancel"
    /\ UNCHANGED <<elemVars, closing, locked, dev, workerVars, bse, sig, inflight>>

\* One round of the loop: push &bse and send SIGCONT to the worker.
CancelInterrupt ==
    /\ cpc = "cancel" /\ status[cbe] = "BUSY"
    /\ bse' = TRUE
    /\ sig' = sig \cup {t \in Threads : cur[t] = cbe}
    /\ cpc' = "sigwait"
    /\ UNCHANGED <<elemVars, closing, locked, mtx, dev, workerVars, cbe, inflight>>

\* bse.pending has been cleared by the handler.
CancelWake ==
    /\ cpc = "sigwait" /\ ~bse
    /\ cpc' = "cancel"
    /\ UNCHANGED <<elemVars, closing, locked, mtx, dev, workerVars, cancelVars, inflight>>

\* The worker is past the transfer: return -EBUSY.
CancelReturn ==
    /\ cpc = "cancel" /\ status[cbe] # "BUSY"
    /\ mtx' = Nobody
    /\ cbe' = NoElem
    /\ cpc' = "dev"
    /\ UNCHANGED <<elemVars, closing, locked, dev, workerVars, bse, sig, inflight>>

\* blockif_close: sub_file_unlock, then closing is set under bc->mtx.
CloseUnlock ==
    /\ cpc = "idle"
    /\ locked' = FALSE
    /\ cpc' = "closeLock"
    /\ UNCHANGED <<elemVars, closing, mtx, dev, workerVars, cancelVars, inflight>>

CloseSet ==
    /\ cpc = "closeLock" /\ mtx = Nobody
    /\ closing' = TRUE
    /\ cpc' = "closeWake"
    /\ UNCHANGED <<elemVars, locked, mtx, dev, workerVars, cancelVars, inflight>>

\* Mutant: pthread_cond_signal instead of pthread_cond_broadcast.
CloseSignal ==
    /\ cpc = "closeWake"
    /\ Signal
    /\ cpc' = "join"
    /\ UNCHANGED <<elemVars, closing, locked, mtx, dev, cur, cancelVars, inflight>>

CloseBroadcast ==
    /\ cpc = "closeWake"
    /\ pc' = [t \in Threads |-> IF pc[t] = "wait" THEN "lock" ELSE pc[t]]
    /\ cpc' = "join"
    /\ UNCHANGED <<elemVars, closing, locked, mtx, dev, cur, cancelVars, inflight>>

CloseJoin ==
    /\ cpc = "join" /\ \A t \in Threads : pc[t] = "exit"
    /\ cpc' = "closed"
    /\ UNCHANGED <<elemVars, closing, locked, mtx, dev, workerVars, cancelVars, inflight>>

----------------------------------------------------------------------------
(* blockif_thr.  bc->mtx is held at "run".                                 *)

Lock(t) ==
    /\ pc[t] = "lock" /\ mtx = Nobody
    /\ mtx' = t
    /\ pc' = [pc EXCEPT ![t] = "run"]
    /\ UNCHANGED <<elemVars, closing, locked, dev, cur, cpc, cancelVars, inflight>>

\* blockif_dequeue takes the first element that is PEND; unlock.
Dequeue(t) ==
    /\ pc[t] = "run"
    /\ \E i \in 1..Len(pendq) :
         /\ status[pendq[i]] = "PEND"
         /\ \A j \in 1..(i - 1) : status[pendq[j]] # "PEND"
         /\ status' = [status EXCEPT ![pendq[i]] = "BUSY"]
         /\ cur' = [cur EXCEPT ![t] = pendq[i]]
         /\ pendq' = RemoveAt(pendq, i)
    /\ mtx' = Nobody
    /\ pc' = [pc EXCEPT ![t] = "io"]
    /\ UNCHANGED <<req, block, offset, closing, locked, dev, cpc, cancelVars, inflight>>

NothingPending == \A i \in 1..Len(pendq) : status[pendq[i]] # "PEND"

\* Nothing to do: pthread_cond_wait releases bc->mtx.
Wait(t) ==
    /\ pc[t] = "run" /\ NothingPending /\ ~closing
    /\ mtx' = Nobody
    /\ pc' = [pc EXCEPT ![t] = "wait"]
    /\ UNCHANGED <<elemVars, closing, locked, dev, cur, cpc, cancelVars, inflight>>

\* pthread_cond_wait may return without a signal.
SpuriousWake(t) ==
    /\ pc[t] = "wait"
    /\ pc' = [pc EXCEPT ![t] = "lock"]
    /\ UNCHANGED <<elemVars, closing, locked, mtx, dev, cur, cpc, cancelVars, inflight>>

\* Mutant: a worker leaves as soon as closing is set.
ExitAtOnce(t) ==
    /\ pc[t] = "run" /\ closing
    /\ mtx' = Nobody
    /\ pc' = [pc EXCEPT ![t] = "exit"]
    /\ UNCHANGED <<elemVars, closing, locked, dev, cur, cpc, cancelVars, inflight>>

Exit(t) ==
    /\ pc[t] = "run" /\ NothingPending /\ closing
    /\ mtx' = Nobody
    /\ pc' = [pc EXCEPT ![t] = "exit"]
    /\ UNCHANGED <<elemVars, closing, locked, dev, cur, cpc, cancelVars, inflight>>

\* blockif_proc up to be->status = BST_DONE, without bc->mtx.
Proc(t) ==
    /\ pc[t] = "io"
    /\ status' = [status EXCEPT ![cur[t]] = "DONE"]
    /\ pc' = [pc EXCEPT ![t] = "callback"]
    /\ UNCHANGED <<req, block, offset, pendq, closing, locked, mtx, dev, cur, cpc,
                   cancelVars, inflight>>

\* br->callback takes the lock of the device; the device owns the request again.
Callback(t) ==
    /\ pc[t] = "callback" /\ dev = Nobody
    /\ dev' = t
    /\ inflight' = inflight \ {req[cur[t]]}
    /\ pc' = [pc EXCEPT ![t] = "incallback"]
    /\ UNCHANGED <<elemVars, closing, locked, mtx, cur, cpc, cancelVars>>

CallbackReturn(t) ==
    /\ pc[t] = "incallback"
    /\ dev' = Nobody
    /\ pc' = [pc EXCEPT ![t] = "relock"]
    /\ UNCHANGED <<elemVars, closing, locked, mtx, cur, cpc, cancelVars, inflight>>

\* Lock bc->mtx again and recycle the element.
Recycle(t) ==
    /\ pc[t] = "relock" /\ mtx = Nobody
    /\ mtx' = t
    /\ Complete(cur[t], pendq)
    /\ cur' = [cur EXCEPT ![t] = NoElem]
    /\ pc' = [pc EXCEPT ![t] = "run"]
    /\ UNCHANGED <<closing, locked, dev, cpc, cancelVars, inflight>>

\* blockif_sigcont_handler on worker t, at any point of its execution.
SigcontHandler(t) ==
    /\ t \in sig
    /\ sig' = sig \ {t}
    /\ bse' = FALSE
    /\ UNCHANGED <<elemVars, closing, locked, mtx, dev, workerVars, cpc, cbe, inflight>>

----------------------------------------------------------------------------
Worker(t) ==
    \/ Lock(t) \/ Dequeue(t) \/ Wait(t) \/ SpuriousWake(t) \/ Exit(t) \/ Proc(t)
    \/ Callback(t) \/ CallbackReturn(t) \/ Recycle(t) \/ SigcontHandler(t)

Device ==
    \/ DevLock \/ DevUnlock
    \/ \E r \in Requests : CancelPending(r) \/ CancelBusy(r)
    \/ CancelInterrupt \/ CancelWake \/ CancelReturn
    \/ CloseUnlock \/ CloseSet \/ CloseBroadcast \/ CloseJoin

\* The pool is gone; nothing happens any more.
Closed == cpc = "closed" /\ UNCHANGED vars

Next ==
    \/ Device
    \/ \E p \in Submitters : BlockifRequest(p)
    \/ \E t \in Threads : Worker(t)
    \/ Closed

Spec == Init /\ [][Next]_vars

\* What a worker, or the caller inside blockif_cancel or blockif_close, does next.
WorkerStep(t) ==
    \/ Lock(t) \/ Dequeue(t) \/ Wait(t) \/ Exit(t) \/ Proc(t)
    \/ Callback(t) \/ CallbackReturn(t) \/ Recycle(t)

CallerStep ==
    \/ CancelInterrupt \/ CancelWake \/ CancelReturn
    \/ CloseSet \/ CloseBroadcast \/ CloseJoin

\* A transfer ends, a thread that waits for a mutex gets it when it becomes
\* free again and again, a pending signal is delivered, and the device
\* releases its lock.  Nothing forces the device to submit, cancel or close.
Fairness ==
    /\ \A t \in Threads : SF_vars(WorkerStep(t)) /\ WF_vars(SigcontHandler(t))
    /\ SF_vars(DevUnlock) /\ SF_vars(CallerStep)

FairSpec == Spec /\ Fairness

----------------------------------------------------------------------------
(* Properties.                                                             *)

\* Every variable has its type.
TypeOK ==
    /\ status \in [Elems -> BlockStat]
    /\ req \in [Elems -> Requests \cup {NoReq}]
    /\ block \in [Elems -> Nat]
    /\ offset \in [Requests -> Nat]
    /\ pendq \in Seq(Elems)
    /\ closing \in BOOLEAN
    /\ locked \in BOOLEAN
    /\ mtx \in Threads \cup {Caller, Nobody}
    /\ dev \in Threads \cup {Caller, Nobody}
    /\ pc \in [Threads -> {"lock", "run", "wait", "exit", "io", "callback",
                           "incallback", "relock"}]
    /\ cur \in [Threads -> Elems \cup {NoElem}]
    /\ cpc \in {"idle", "dev", "cancel", "sigwait", "closeLock", "closeWake",
                "join", "closed"}
    /\ cbe \in Elems \cup {NoElem}
    /\ bse \in BOOLEAN
    /\ sig \subseteq Threads
    /\ inflight \subseteq Requests

\* The asserts of blockif_enqueue and blockif_dequeue: an element is on
\* exactly the queue its status names, and on pendq at most once.
QueueStatus ==
    /\ \A e \in Elems : Queued(e) <=> status[e] \in {"BLOCK", "PEND"}
    /\ \A i, j \in 1..Len(pendq) : pendq[i] = pendq[j] => i = j

\* bc->mtx and the device lock are held where the control state says so.
LockOwner ==
    /\ \A t \in Threads : mtx = t <=> pc[t] = "run"
    /\ mtx = Caller <=> cpc \in {"cancel", "sigwait"}
    /\ \A t \in Threads : dev = t <=> pc[t] = "incallback"
    /\ dev = Caller <=> cpc \in {"dev", "cancel", "sigwait"}

Serving(t) == pc[t] \in {"io", "callback", "incallback", "relock"}

\* Between blockif_dequeue and blockif_complete a busy element belongs to
\* exactly one worker, and is BUSY exactly while the transfer runs.
WorkerElem ==
    /\ \A t \in Threads : Serving(t) <=> cur[t] # NoElem
    /\ \A t \in Threads : Serving(t) =>
         status[cur[t]] = IF pc[t] = "io" THEN "BUSY" ELSE "DONE"
    /\ \A t, u \in Threads : Serving(t) /\ cur[t] = cur[u] => t = u
    /\ \A e \in Elems : Busy(e) => \E t \in Threads : cur[t] = e

\* A BLOCKed element waits for one that is ahead of it in pendq, or busy, and
\* ends where it begins: blocking has no cycle, and the completion that
\* releases it is still to come.
BlockedBehind ==
    \A i \in 1..Len(pendq) : status[pendq[i]] = "BLOCK" =>
      \/ \E j \in 1..(i - 1) : block[pendq[j]] = offset[req[pendq[i]]]
      \/ \E e \in Elems : Busy(e) /\ block[e] = offset[req[pendq[i]]]

\* No wakeup is lost: while anything is queued some worker is on its way to
\* blockif_dequeue, although blockif_complete, also when blockif_cancel calls
\* it, turns BLOCKed elements into PENDing ones without a signal.
WorkerAwake ==
    pendq # <<>> => \E t \in Threads : pc[t] \notin {"wait", "exit"}

\* A worker leaves only after closing has been set, and after the broadcast no
\* worker waits: blockif_close joins threads that all come to an end.
CloseOrder ==
    /\ \A t \in Threads : pc[t] = "exit" => closing
    /\ closing <=> cpc \in {"closeWake", "join", "closed"}
    /\ \A t \in Threads : cpc \in {"join", "closed"} => pc[t] # "wait"

\* An element whose request still has its callback to come.
Live(e) == Queued(e) \/ \E t \in Threads : cur[t] = e /\ pc[t] \in {"io", "callback"}

\* A request is called back or cancelled exactly once: an outstanding request
\* has exactly one element that will call it back, and no other request has
\* one, although the device may submit a request again before the element of
\* its last use has been recycled.
OneCallback ==
    /\ \A e \in Elems : (Queued(e) \/ Busy(e)) <=> req[e] # NoReq
    /\ \A e \in Elems : Live(e) => req[e] \in inflight
    /\ \A r \in inflight : \E e \in Elems : Live(e) /\ req[e] = r
    /\ \A e, f \in Elems : Live(e) /\ Live(f) /\ req[e] = req[f] => e = f

\* blockif_cancel holds bc->mtx while it watches be->status, so the element
\* is not recycled under it, and while bse.pending is set a worker is still to
\* run the handler that clears it.
CancelTarget ==
    /\ cpc \in {"cancel", "sigwait"} => cbe \in Elems /\ Busy(cbe)
    /\ bse => cpc = "sigwait" /\ sig # {}

\* "XXX Cancel queued i/o's ???" of blockif_close: when the workers have been
\* joined nothing is left to cancel.
CloseDrains ==
    (\A t \in Threads : pc[t] = "exit") =>
        /\ pendq = <<>> /\ inflight = {}
        /\ \A e \in Elems : status[e] = "FREE"

\* BLOCKIF_MAXREQ is 64 + BLOCKIF_NUMTHR: a device that keeps fewer than
\* MAXREQ - NUMTHR requests outstanding never gets E2BIG, which it asserts.
RoomWithinRing ==
    Cardinality(inflight) < Cardinality(Elems) - Cardinality(Threads) =>
        \E e \in Elems : status[e] = "FREE"

\* Every accepted request is called back or cancelled.
Served == \A r \in Requests : r \in inflight ~> r \notin inflight

\* blockif_cancel returns, although it holds the device lock that the
\* callback of the request needs, and bc->mtx.
CancelReturns == cpc \in {"cancel", "sigwait"} ~> cpc = "dev"

\* blockif_close returns, unless callbacks go on submitting for ever.
CloseReturns ==
    \/ cpc = "closeLock" ~> cpc = "closed"
    \/ []<><<\E p \in Submitters : BlockifRequest(p)>>_vars

----------------------------------------------------------------------------
(* The service this implements: a request is served from blockif_dequeue   *)
(* to its callback, and the service is shut when the workers are joined.   *)
Service == INSTANCE BlockService WITH
    Workers <- Threads,
    queued  <- {req[e] : e \in Range(pendq)},
    serving <- [t \in Threads |->
                  IF pc[t] \in {"io", "callback"} THEN req[cur[t]] ELSE NoReq],
    open    <- cpc # "closed"

\* blockif_request, blockif_cancel, blockif_close and the workers implement
\* BlockService: no request is called back twice, after a cancel that returned
\* 0, or after blockif_close.
ImplementsService == Service!SSpec

\* A device that cancels or closes gets an answer.
CallersReturn == CancelReturns /\ CloseReturns
============================================================================
