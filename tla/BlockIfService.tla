--------------------------- MODULE BlockIfService ---------------------------
(***************************************************************************)
(* Two consequences of the inductive invariant of the block back end: the  *)
(* pool has room for every request the device may have outstanding, and    *)
(* every step of BlockIf is one of BlockService.                           *)
(***************************************************************************)
EXTENDS BlockIfProofs, FiniteSetTheorems, TLAPS

----------------------------------------------------------------------------
(* Counting.                                                               *)

\* Elements that are neither free nor live belong to workers that are past the
\* callback, and two live elements have two requests: what the invariant says of
\* the size of the pool.
LEMMA RoomFromInv == IInv => RoomWithinRing
<1> SUFFICES ASSUME IInv, Cardinality(inflight) < Cardinality(Elems) - Cardinality(Threads),
                    \A e \in Elems : status[e] # "FREE"
             PROVE  FALSE
  BY DEF RoomWithinRing
<1> DEFINE L == {e \in Elems : Live(e)}
           F == Elems \ L
<1>1. \A e \in Elems : Queued(e) \/ Busy(e)
  BY DEF IInv, QueueStatus, TypeOK, BlockStat, Busy
<1>2. \A e \in F : \E t \in Threads : cur[t] = e
  BY <1>1 DEF IInv, WorkerElem, Live
<1>3. IsFiniteSet(inflight) /\ IsFiniteSet(L) /\ IsFiniteSet(F)
  BY FiniteAssumption, FS_Subset DEF IInv, TypeOK
<1>4. Cardinality(L) <= Cardinality(inflight)
  <2> DEFINE f == [e \in L |-> req[e]]
  <2>1. f \in [L -> inflight]
    BY DEF IInv, OneCallback
  <2>2. \A a, b \in L : f[a] = f[b] => a = b
    BY DEF IInv, OneCallback
  <2>3. f \in Injection(L, inflight)
    BY <2>1, <2>2, Zenon DEF Injection, IsInjective
  <2> HIDE DEF f, L
  <2> QED BY <1>3, <2>3, FS_Injection
<1>5. Cardinality(F) <= Cardinality(Threads)
  <2> DEFINE f == [e \in F |-> CHOOSE t \in Threads : cur[t] = e]
  <2>1. \A e \in F : f[e] \in Threads /\ cur[f[e]] = e
    BY <1>2
  <2>2. f \in [F -> Threads]
    BY <2>1
  <2>3. \A a, b \in F : f[a] = f[b] => a = b
    BY <2>1
  <2>4. f \in Injection(F, Threads)
    BY <2>2, <2>3, Zenon DEF Injection, IsInjective
  <2> HIDE DEF f, F
  <2> QED BY <2>4, FiniteAssumption, FS_Injection
<1>6. Cardinality(Elems) <= Cardinality(L) + Cardinality(F)
  <2>1. Elems = L \cup F /\ L \cap F = {}
    OBVIOUS
  <2> HIDE DEF L, F
  <2>2. Cardinality(L \cup F) = Cardinality(L) + Cardinality(F) - Cardinality(L \cap F)
    BY <1>3, FS_Union
  <2>3. Cardinality(L \cap F) = 0
    BY <2>1, FS_EmptySet
  <2>4. Cardinality(L) \in Nat /\ Cardinality(F) \in Nat
    BY <1>3, FS_CardinalityType
  <2> QED BY <2>1, <2>2, <2>3, <2>4
<1>7. /\ Cardinality(Elems) \in Nat /\ Cardinality(Threads) \in Nat /\ Cardinality(inflight) \in Nat
      /\ Cardinality(L) \in Nat /\ Cardinality(F) \in Nat
  BY <1>3, FiniteAssumption, FS_CardinalityType
<1> HIDE DEF L, F
<1> QED BY <1>4, <1>5, <1>6, <1>7

----------------------------------------------------------------------------
(* BlockService.                                                           *)

\* blockif_close returns after it has joined every worker.
Joined == cpc = "closed" => \A t \in Threads : pc[t] = "exit"

\* No worker comes back.
LEMMA JoinedStep ==
    ASSUME IInv, Joined, [Next]_vars
    PROVE  Joined'
<1> USE DEF Joined
<1>1. CASE UNCHANGED vars
  BY <1>1 DEF vars
<1>2. CASE Device
  BY <1>2 DEF Device, DevLock, DevUnlock, CancelPending, CancelBusy, CancelInterrupt, CancelWake,
              CancelReturn, CloseUnlock, CloseSet, CloseBroadcast, CloseJoin, workerVars
<1>3. ASSUME NEW p \in Submitters, BlockifRequest(p) PROVE Joined'
  <2>1. cpc # "closed" /\ cpc' = cpc
    BY <1>3, BlockIfAssumption DEF BlockifRequest, IInv, LockOwner
  <2> QED BY <2>1
<1>4. ASSUME NEW t \in Threads, Worker(t) PROVE Joined'
  BY <1>4 DEF Worker, Lock, Dequeue, Wait, SpuriousWake, Exit, Proc, Callback, CallbackReturn,
              Recycle, SigcontHandler, workerVars
<1> QED BY <1>1, <1>2, <1>3, <1>4 DEF Next, Closed

\* The requests that wait, and the request of each worker: what BlockService calls
\* queued and serving.
Waiting == {req[e] : e \in Range(pendq)}
InService == [t \in Threads |-> IF pc[t] \in {"io", "callback"} THEN req[cur[t]] ELSE NoReq]

\* What waits or is served is outstanding, and not twice.
LEMMA Outstanding ==
    ASSUME IInv
    PROVE  /\ Waiting \subseteq inflight
           /\ \A t \in Threads : pc[t] \in {"io", "callback"} =>
                 /\ cur[t] \in Elems /\ Live(cur[t]) /\ Busy(cur[t]) /\ ~Queued(cur[t])
                 /\ req[cur[t]] \in inflight
           /\ Range(pendq) \subseteq Elems
           /\ \A e \in Range(pendq) : Live(e) /\ Queued(e) /\ ~Busy(e)
           /\ inflight \subseteq Requests
<1> USE DEF IInv
<1>1. Range(pendq) \subseteq Elems
  BY SeqElement, SeqLen DEF TypeOK, Range
<1>2. \A e \in Range(pendq) : Live(e) /\ Queued(e) /\ ~Busy(e)
  BY <1>1 DEF Live, Queued, QueueStatus, Busy
<1>3. Waiting \subseteq inflight
  BY <1>1, <1>2 DEF OneCallback, Waiting
<1>4. ASSUME NEW t \in Threads, pc[t] \in {"io", "callback"}
      PROVE  /\ cur[t] \in Elems /\ Live(cur[t]) /\ Busy(cur[t]) /\ ~Queued(cur[t])
             /\ req[cur[t]] \in inflight
  <2>1. cur[t] \in Elems
    BY <1>4 DEF WorkerElem, Serving, TypeOK
  <2>2. Busy(cur[t])
    BY <1>4 DEF WorkerElem, Serving, Busy
  <2>3. ~Queued(cur[t])
    BY <2>1, <2>2 DEF QueueStatus, Busy
  <2>4. Live(cur[t])
    BY <1>4 DEF Live
  <2> QED BY <2>1, <2>2, <2>3, <2>4 DEF OneCallback
<1>5. inflight \subseteq Requests
  BY DEF TypeOK
<1> QED BY <1>1, <1>2, <1>3, <1>4, <1>5

\* A step that changes neither is none of the service.
LEMMA ServiceStutter ==
    ASSUME Waiting' = Waiting, InService' = InService, cpc' = "closed" <=> cpc = "closed"
    PROVE  UNCHANGED Service!svars
<1>1. (cpc # "closed")' = (cpc # "closed")
  OBVIOUS
<1> QED BY <1>1, Zenon DEF Waiting, InService, Service!svars

\* The device's lock, the rounds of blockif_cancel, blockif_close before it joins,
\* and the worker outside the transfer.
LEMMA StutterStep ==
    ASSUME IInv,
           \/ UNCHANGED vars
           \/ DevLock \/ DevUnlock \/ CancelInterrupt \/ CancelWake \/ CancelReturn
           \/ CloseUnlock \/ CloseSet \/ CloseBroadcast
           \/ \E r \in Requests : CancelBusy(r)
           \/ \E t \in Threads : \/ Lock(t) \/ Wait(t) \/ SpuriousWake(t) \/ Exit(t) \/ Proc(t)
                                \/ CallbackReturn(t) \/ SigcontHandler(t)
    PROVE  UNCHANGED Service!svars
<1>1. UNCHANGED <<req, pendq, cur>> /\ (cpc' = "closed" <=> cpc = "closed")
  BY DEF vars, DevLock, DevUnlock, CancelInterrupt, CancelWake, CancelReturn, CloseUnlock, CloseSet,
         CloseBroadcast, CancelBusy, Lock, Wait, SpuriousWake, Exit, Proc, CallbackReturn,
         SigcontHandler, elemVars, workerVars
<1>2. \A u \in Threads : pc'[u] \in {"io", "callback"} <=> pc[u] \in {"io", "callback"}
  BY SMTT(30)
     DEF IInv, TypeOK,
         vars, DevLock, DevUnlock, CancelInterrupt, CancelWake, CancelReturn, CloseUnlock, CloseSet,
         CloseBroadcast, CancelBusy, Lock, Wait, SpuriousWake, Exit, Proc, CallbackReturn,
         SigcontHandler, elemVars, workerVars
<1>3. Waiting' = Waiting
  BY <1>1 DEF Waiting
<1>4. InService' = InService
  BY <1>1, <1>2 DEF InService
<1> QED BY <1>1, <1>3, <1>4, ServiceStutter

\* An element is recycled after its request was delivered.
LEMMA RecycleStutters ==
    ASSUME IInv, NEW t \in Threads, Recycle(t)
    PROVE  UNCHANGED Service!svars
<1>1. /\ pc[t] = "relock" /\ pc' = [pc EXCEPT ![t] = "run"]
      /\ cur' = [cur EXCEPT ![t] = NoElem] /\ UNCHANGED <<pendq, cpc>>
      /\ req' = [req EXCEPT ![cur[t]] = NoReq]
  BY DEF Recycle, Complete
<1>2. cur[t] \in Elems /\ ~Queued(cur[t])
  <2>1. cur[t] \in Elems /\ status[cur[t]] = "DONE"
    BY <1>1 DEF IInv, WorkerElem, Serving, TypeOK
  <2> QED BY <2>1 DEF IInv, QueueStatus
<1>3. \A e \in Elems : e # cur[t] => req'[e] = req[e]
  BY <1>1 DEF IInv, TypeOK
<1>4. Waiting' = Waiting
  BY <1>1, <1>2, <1>3, Outstanding DEF Waiting, Queued
<1>5. \A u \in Threads : pc[u] \in {"io", "callback"} => u # t /\ cur[u] # cur[t]
  BY <1>1 DEF IInv, WorkerElem, Serving
<1>6. \A u \in Threads : /\ pc'[u] \in {"io", "callback"} <=> pc[u] \in {"io", "callback"}
                         /\ pc[u] \in {"io", "callback"} => req'[cur'[u]] = req[cur[u]]
  BY <1>1, <1>3, <1>5, Outstanding DEF IInv, TypeOK
<1>7. InService' = InService
  BY <1>6 DEF InService
<1> QED BY <1>1, <1>4, <1>7, ServiceStutter

\* blockif_dequeue begins to serve.
LEMMA DequeueBegins ==
    ASSUME IInv, NEW t \in Threads, Dequeue(t)
    PROVE  \E r \in Requests : Service!Begin(t, r)
<1>1. PICK i \in 1..Len(pendq) :
         /\ status' = [status EXCEPT ![pendq[i]] = "BUSY"]
         /\ cur' = [cur EXCEPT ![t] = pendq[i]]
         /\ pendq' = RemoveAt(pendq, i)
  BY DEF Dequeue
<1> DEFINE x == pendq[i]
           r == req[x]
<1>2. /\ pc[t] = "run" /\ pc' = [pc EXCEPT ![t] = "io"] /\ UNCHANGED <<req, cpc>>
  BY DEF Dequeue
<1>3. x \in Range(pendq) /\ x \in Elems
  BY SeqElement, SeqLen DEF IInv, TypeOK, Range
<1>4. Range(pendq') = Range(pendq) \ {x}
  BY <1>1, RemoveAtSet DEF IInv, TypeOK, QueueStatus
<1>5. r \in Waiting /\ r \in Requests
  BY <1>3, Outstanding DEF Waiting
<1>6. \A e \in Range(pendq) : req[e] = r => e = x
  BY <1>3, Outstanding DEF IInv, OneCallback
<1>7. Waiting' = Waiting \ {r}
  BY <1>2, <1>3, <1>4, <1>6 DEF Waiting
<1>8. InService[t] = NoReq
  BY <1>2 DEF InService
<1>9. InService' = [InService EXCEPT ![t] = r]
  BY <1>1, <1>2 DEF InService, IInv, TypeOK
<1>10. (cpc # "closed")' = (cpc # "closed")
  BY <1>2
<1> HIDE DEF x, r
<1> QED BY <1>5, <1>7, <1>8, <1>9, <1>10, Zenon DEF Service!Begin, Waiting, InService

\* The callback delivers.
LEMMA CallbackDelivers ==
    ASSUME IInv, NEW t \in Threads, Callback(t)
    PROVE  Service!Deliver(t)
<1>1. /\ pc[t] = "callback" /\ pc' = [pc EXCEPT ![t] = "incallback"]
      /\ UNCHANGED <<req, pendq, cur, cpc>>
  BY DEF Callback, elemVars
<1>2. InService[t] # NoReq
  BY <1>1, Outstanding, BlockIfAssumption DEF InService
<1>3. InService' = [InService EXCEPT ![t] = NoReq]
  BY <1>1 DEF InService, IInv, TypeOK
<1>4. Waiting' = Waiting
  BY <1>1 DEF Waiting
<1>5. (cpc # "closed")' = (cpc # "closed")
  BY <1>1
<1> QED BY <1>2, <1>3, <1>4, <1>5, Zenon DEF Service!Deliver, Waiting, InService

\* blockif_cancel takes a request that nobody has begun to serve.
LEMMA CancelTakes ==
    ASSUME IInv, NEW r \in Requests, CancelPending(r)
    PROVE  Service!CancelQueued(r)
<1>1. PICK i \in 1..Len(pendq) : req[pendq[i]] = r /\ Complete(pendq[i], RemoveAt(pendq, i))
  BY DEF CancelPending
<1> DEFINE x == pendq[i]
<1>2. /\ pendq' = RemoveAt(pendq, i) /\ req' = [req EXCEPT ![x] = NoReq] /\ UNCHANGED <<pc, cur, cpc>>
  BY <1>1 DEF CancelPending, Complete, workerVars
<1>3. x \in Range(pendq) /\ x \in Elems
  BY SeqElement, SeqLen DEF IInv, TypeOK, Range
<1>4. Range(pendq') = Range(pendq) \ {x}
  BY <1>2, RemoveAtSet DEF IInv, TypeOK, QueueStatus
<1>5. \A e \in Elems : e # x => req'[e] = req[e]
  BY <1>2 DEF IInv, TypeOK
<1>6. \A e \in Range(pendq) : req[e] = r => e = x
  BY <1>1, <1>3, Outstanding DEF IInv, OneCallback
<1>7. r \in Waiting /\ Waiting' = Waiting \ {r}
  BY <1>1, <1>3, <1>4, <1>5, <1>6, Outstanding DEF Waiting
<1>8. \A u \in Threads : pc[u] \in {"io", "callback"} => req'[cur[u]] = req[cur[u]]
  BY <1>3, <1>5, Outstanding DEF Queued
<1>9. InService' = InService
  BY <1>2, <1>8 DEF InService
<1>10. (cpc # "closed")' = (cpc # "closed")
  BY <1>2
<1> QED BY <1>7, <1>9, <1>10, Zenon DEF Service!CancelQueued, Waiting, InService

\* blockif_request submits to a service that is open.
LEMMA RequestSubmits ==
    ASSUME IInv, Joined, NEW p \in Submitters, BlockifRequest(p)
    PROVE  \E r \in Requests : Service!Submit(r)
<1>1. PICK r \in Requests \ inflight, off \in Offsets, len \in Lengths, flush \in BOOLEAN, x \in Elems :
         Enqueue(x, r, off, Block(off, len, flush))
  BY DEF BlockifRequest
<1>2. /\ status[x] = "FREE" /\ req' = [req EXCEPT ![x] = r] /\ pendq' = Append(pendq, x)
      /\ UNCHANGED <<cur, cpc>>
  BY <1>1 DEF BlockifRequest, Enqueue
<1>3. \A u \in Threads : pc'[u] \in {"io", "callback"} <=> pc[u] \in {"io", "callback"}
  BY <1>1 DEF Enqueue, Signal, IInv, TypeOK
<1>4. \A u \in Threads : pc[u] \in {"io", "callback"} => pc'[u] = pc[u]
  BY <1>1 DEF Enqueue, Signal, IInv, TypeOK
<1>5. x \notin Range(pendq) /\ ~Busy(x)
  BY <1>2 DEF IInv, QueueStatus, Queued, Busy
<1>6. \A e \in Elems : req'[e] = IF e = x THEN r ELSE req[e]
  BY <1>2 DEF IInv, TypeOK
<1>7. Range(pendq') = Range(pendq) \cup {x}
  <2>1. pendq \in Seq(Elems)
    BY DEF IInv, TypeOK
  <2>2. /\ Len(pendq') = Len(pendq) + 1 /\ DOMAIN pendq' = 1..Len(pendq')
        /\ DOMAIN pendq = 1..Len(pendq) /\ Len(pendq) \in Nat
        /\ \A j \in 1..Len(pendq) : pendq'[j] = pendq[j]
        /\ pendq'[Len(pendq) + 1] = x
    BY <1>2, <2>1, SeqAppend, SeqLen
  <2> QED BY <2>2 DEF Range
<1>8. r \notin Waiting /\ Waiting' = Waiting \cup {r}
  BY <1>1, <1>5, <1>6, <1>7, Outstanding DEF Waiting
<1>9. \A u \in Threads : pc[u] \in {"io", "callback"} => cur[u] # x /\ req[cur[u]] # r
  BY <1>1, <1>5, Outstanding
<1>10. InService' = InService
  BY <1>2, <1>3, <1>6, <1>9, Outstanding DEF InService
<1>11. \A u \in Threads : InService[u] # r
  BY <1>9, BlockIfAssumption DEF InService
<1>12. cpc # "closed" /\ (cpc # "closed")' = (cpc # "closed")
  BY <1>2, BlockIfAssumption DEF BlockifRequest, IInv, LockOwner, Joined
<1> QED BY <1>8, <1>10, <1>11, <1>12, Zenon DEF Service!Submit, Waiting, InService

\* blockif_close ends a service that has nothing left to do.
LEMMA JoinShuts ==
    ASSUME IInv, CloseDrains, CloseJoin
    PROVE  Service!Shut
<1>1. cpc = "join" /\ cpc' = "closed" /\ UNCHANGED <<req, pendq, pc, cur>>
  BY DEF CloseJoin, elemVars, workerVars
<1>2. pendq = <<>> /\ \A t \in Threads : pc[t] = "exit"
  BY DEF CloseJoin, CloseDrains
<1>3. Waiting = {}
  BY <1>2 DEF Waiting, Range
<1>4. \A t \in Threads : InService[t] = NoReq
  BY <1>2 DEF InService
<1>5. Waiting' = Waiting /\ InService' = InService
  BY <1>1 DEF Waiting, InService
<1>6. cpc # "closed" /\ (cpc # "closed")' = FALSE
  BY <1>1
<1> QED BY <1>3, <1>4, <1>5, <1>6, Zenon DEF Service!Shut, Waiting, InService

\* Every step is one of the service or none.
LEMMA RefinementStep ==
    ASSUME IInv, Joined, CloseDrains, [Next]_vars
    PROVE  [Service!SNext]_(Service!svars)
<1>1. CASE Device
  <2>1. CASE \E r \in Requests : CancelPending(r)
    BY <2>1, CancelTakes DEF Service!SNext
  <2>2. CASE CloseJoin
    BY <2>2, JoinShuts DEF Service!SNext
  <2> QED BY <1>1, <2>1, <2>2, StutterStep DEF Device
<1>2. ASSUME NEW p \in Submitters, BlockifRequest(p) PROVE [Service!SNext]_(Service!svars)
  BY <1>2, RequestSubmits DEF Service!SNext
<1>3. ASSUME NEW t \in Threads, Worker(t) PROVE [Service!SNext]_(Service!svars)
  <2>1. CASE Dequeue(t)
    BY <2>1, DequeueBegins DEF Service!SNext
  <2>2. CASE Callback(t)
    BY <2>2, CallbackDelivers DEF Service!SNext
  <2>3. CASE Recycle(t)
    BY <2>3, RecycleStutters
  <2> QED BY <1>3, <2>1, <2>2, <2>3, StutterStep DEF Worker
<1> QED BY <1>1, <1>2, <1>3, StutterStep DEF Next, Closed

\* At first nothing waits.
LEMMA RefinementInit == Init => Service!SInit
<1> SUFFICES ASSUME Init PROVE Service!SInit
  OBVIOUS
<1>1. Waiting = {}
  BY DEF Init, Waiting, Range
<1>2. InService = [t \in Threads |-> NoReq]
  BY DEF Init, InService
<1>3. (cpc # "closed") = TRUE
  BY DEF Init
<1> QED BY <1>1, <1>2, <1>3, Zenon DEF Service!SInit, Waiting, InService

----------------------------------------------------------------------------
(* What holds of every execution.                                          *)

\* A device that keeps fewer requests outstanding than the pool has elements beyond
\* its workers finds a free element: blockif_request does not return E2BIG.
THEOREM RoomForTheRing == Spec => []RoomWithinRing
<1> QED BY RoomFromInv, Invariance, PTL

\* BlockIf implements BlockService: each request accepted by blockif_request is
\* called back once, or cancelled before a worker begins it, and none of this
\* happens after blockif_close.
THEOREM Refinement == Spec => ImplementsService
<1>1. Init => IInv /\ Joined
  <2>1. Init => Joined
    BY DEF Init, Joined
  <2> QED BY <2>1, InitIInv
<1>2. IInv /\ Joined /\ [Next]_vars => IInv' /\ Joined'
  BY NextIInv, JoinedStep
<1>3. IInv /\ Joined /\ [Next]_vars => [Service!SNext]_(Service!svars)
  BY DrainsFromInv, RefinementStep
<1> QED BY RefinementInit, <1>1, <1>2, <1>3, PTL DEF Spec, ImplementsService, Service!SSpec
============================================================================
