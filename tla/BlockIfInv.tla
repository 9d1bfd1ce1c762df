----------------------------- MODULE BlockIfInv -----------------------------
(***************************************************************************)
(* The inductive invariant of the block back end: the initial state        *)
(* satisfies it, and it survives the steps that leave the queues alone and *)
(* those of a worker up to the callback.  BlockIfProofs has the other      *)
(* steps and the theorems.                                                 *)
(***************************************************************************)
EXTENDS BlockIf, TLAPS

(* Facts about sequences. *)

\* The empty sequence, and the others.
LEMMA SeqEmpty == ASSUME NEW E PROVE <<>> \in Seq(E) /\ Len(<<>>) = 0 /\ \A q \in Seq(E) : q # <<>> => Len(q) \in Nat \ {0}
  OBVIOUS

\* A sequence is a function on its positions.
LEMMA SeqLen == ASSUME NEW E, NEW q \in Seq(E) PROVE Len(q) \in Nat /\ DOMAIN q = 1 .. Len(q) /\ q \in [1 .. Len(q) -> E]
  OBVIOUS

\* What stands at a position.
LEMMA SeqElement == ASSUME NEW E, NEW q \in Seq(E), NEW k \in 1 .. Len(q) PROVE q[k] \in E
  OBVIOUS

\* Append adds one element at the end.
LEMMA SeqAppend ==
  ASSUME NEW E, NEW q \in Seq(E), NEW e \in E
  PROVE  /\ Append(q, e) \in Seq(E) /\ Append(q, e) # <<>> /\ Len(Append(q, e)) = Len(q) + 1
         /\ Append(q, e)[Len(q) + 1] = e /\ \A k \in 1 .. Len(q) : Append(q, e)[k] = q[k]
  OBVIOUS

\* Two sequences, one after the other.
LEMMA SeqConcat ==
  ASSUME NEW E, NEW p \in Seq(E), NEW q \in Seq(E)
  PROVE  /\ p \o q \in Seq(E) /\ Len(p \o q) = Len(p) + Len(q)
         /\ \A k \in 1 .. Len(p) + Len(q) : (p \o q)[k] = IF k <= Len(p) THEN p[k] ELSE q[k - Len(p)]
  OBVIOUS

\* The part of a sequence between two positions.
LEMMA SeqPart ==
  ASSUME NEW E, NEW q, NEW a \in Int, NEW b \in Int, \A k \in a .. b : q[k] \in E
  PROVE  /\ SubSeq(q, a, b) \in Seq(E) /\ Len(SubSeq(q, a, b)) = IF a > b THEN 0 ELSE b - a + 1
         /\ \A k \in 1 .. b - a + 1 : SubSeq(q, a, b)[k] = q[a + k - 1]
  OBVIOUS

\* The inductive invariant: WorkerAwake needs BlockedBehind (a worker that
\* finds nothing PENDing leaves another one busy), which needs OneCallback
\* (the offset of a queued request does not change) and WorkerElem.
IInv ==
    /\ TypeOK /\ QueueStatus /\ LockOwner /\ WorkerElem /\ BlockedBehind
    /\ WorkerAwake /\ OneCallback /\ CancelTarget /\ CloseOrder

----------------------------------------------------------------------------
(* Removing one position of a queue.                                       *)

\* TAILQ_REMOVE: the other elements keep their order.
LEMMA RemoveAtProperties ==
    ASSUME NEW S, NEW s \in Seq(S), NEW i \in 1..Len(s)
    PROVE  /\ RemoveAt(s, i) \in Seq(S)
           /\ Len(RemoveAt(s, i)) = Len(s) - 1
           /\ \A j \in 1..(Len(s) - 1) :
                RemoveAt(s, i)[j] = IF j < i THEN s[j] ELSE s[j + 1]
<1> DEFINE a == SubSeq(s, 1, i - 1)
           b == SubSeq(s, i + 1, Len(s))
<1>0. Len(s) \in Nat /\ i \in Int /\ i - 1 \in Int /\ i + 1 \in Int
  BY SeqLen
<1>1. \A j \in 1..Len(s) : s[j] \in S
  BY SeqElement
<1>2. /\ a \in Seq(S)
      /\ Len(a) = i - 1
      /\ \A j \in 1..(i - 1) : a[j] = s[j]
  <2>1. \A j \in 1..(i - 1) : s[j] \in S
    BY <1>0, <1>1
  <2> HIDE DEF a
  <2>2. /\ a \in Seq(S)
        /\ Len(a) = IF 1 <= i - 1 THEN (i - 1) - 1 + 1 ELSE 0
        /\ \A j \in 1..((i - 1) - 1 + 1) : a[j] = s[1 + j - 1]
    BY <1>0, <2>1, SeqPart DEF a
  <2> QED BY <2>2, <1>0
<1>3. /\ b \in Seq(S)
      /\ Len(b) = Len(s) - i
      /\ \A j \in 1..(Len(s) - i) : b[j] = s[i + j]
  <2>1. \A j \in (i + 1)..Len(s) : s[j] \in S
    BY <1>0, <1>1
  <2> HIDE DEF b
  <2>2. /\ b \in Seq(S)
        /\ Len(b) = IF i + 1 <= Len(s) THEN Len(s) - (i + 1) + 1 ELSE 0
        /\ \A j \in 1..(Len(s) - (i + 1) + 1) : b[j] = s[(i + 1) + j - 1]
    BY <1>0, <2>1, SeqPart DEF b
  <2> QED BY <2>2, <1>0
<1>4. RemoveAt(s, i) = a \o b
  BY DEF RemoveAt
<1> HIDE DEF a, b
<1>5. /\ a \o b \in Seq(S)
      /\ Len(a \o b) = Len(a) + Len(b)
      /\ \A j \in 1..(Len(a) + Len(b)) :
            (a \o b)[j] = IF j <= Len(a) THEN a[j] ELSE b[j - Len(a)]
  BY <1>2, <1>3, SeqConcat, Zenon
<1> QED BY <1>0, <1>2, <1>3, <1>4, <1>5, SMTT(60)

\* What leaves a queue without repetitions is that one element.
LEMMA RemoveAtSet ==
    ASSUME NEW S, NEW s \in Seq(S), NEW i \in 1..Len(s),
           \A j, k \in 1..Len(s) : s[j] = s[k] => j = k
    PROVE  /\ Range(RemoveAt(s, i)) = Range(s) \ {s[i]}
           /\ \A j, k \in 1..Len(RemoveAt(s, i)) :
                RemoveAt(s, i)[j] = RemoveAt(s, i)[k] => j = k
<1> DEFINE q == RemoveAt(s, i)
<1>1. /\ q \in Seq(S)
      /\ Len(q) = Len(s) - 1
      /\ \A j \in 1..(Len(s) - 1) : q[j] = IF j < i THEN s[j] ELSE s[j + 1]
  BY RemoveAtProperties, Zenon
<1>2. Len(s) \in Nat /\ i \in Nat /\ DOMAIN s = 1..Len(s) /\ DOMAIN q = 1..Len(q)
  BY <1>1, SeqLen
<1> HIDE DEF q
<1>3. ASSUME NEW x \in Range(q) PROVE x \in Range(s) \ {s[i]}
  <2>1. PICK j \in 1..(Len(s) - 1) : x = q[j]
    BY <1>1, <1>2 DEF Range
  <2> QED BY <1>1, <1>2, <2>1 DEF Range
<1>4. ASSUME NEW x \in Range(s) \ {s[i]} PROVE x \in Range(q)
  <2>1. PICK j \in 1..Len(s) : x = s[j] /\ j # i
    BY <1>2 DEF Range
  <2>2. CASE j < i
    <3>1. j \in 1..(Len(s) - 1) /\ q[j] = x
      BY <1>1, <1>2, <2>1, <2>2
    <3> QED BY <3>1, <1>1, <1>2 DEF Range
  <2>3. CASE j > i
    <3>1. j - 1 \in 1..(Len(s) - 1) /\ q[j - 1] = x
      BY <1>1, <1>2, <2>1, <2>3
    <3> QED BY <3>1, <1>1, <1>2 DEF Range
  <2> QED BY <1>2, <2>1, <2>2, <2>3
<1>5. \A j, k \in 1..Len(q) : q[j] = q[k] => j = k
  BY <1>1, <1>2
<1> QED BY <1>3, <1>4, <1>5 DEF q

----------------------------------------------------------------------------
(* The inductive invariant.                                                *)

\* blockif_open establishes the invariant.
LEMMA InitIInv == Init => IInv
<1> SUFFICES ASSUME Init PROVE IInv
  OBVIOUS
<1> USE DEF Init
<1>1. pendq = <<>> /\ Len(pendq) = 0 /\ Range(pendq) = {}
  BY DEF Range
<1>2. \A t \in Threads : pc[t] = "lock" /\ cur[t] = NoElem
  OBVIOUS
<1>3. \A e \in Elems : status[e] = "FREE" /\ req[e] = NoReq
  OBVIOUS
<1>4. TypeOK
  <2>1. pendq \in Seq(Elems)
    BY <1>1, SeqEmpty
  <2>2. offset \in [Requests -> Nat]
    OBVIOUS
  <2> QED BY <2>1, <2>2, Zenon DEF TypeOK, BlockStat
<1>5. QueueStatus /\ BlockedBehind /\ WorkerAwake
  BY <1>1, <1>3 DEF QueueStatus, Queued, BlockedBehind, WorkerAwake
<1>6. LockOwner /\ CloseOrder /\ CancelTarget
  BY <1>2, BlockIfAssumption DEF LockOwner, CloseOrder, CancelTarget
<1>7. WorkerElem
  BY <1>2, <1>3 DEF WorkerElem, Serving, Busy
<1>8. OneCallback
  BY <1>1, <1>2, <1>3 DEF OneCallback, Live, Queued, Busy
<1> QED BY <1>4, <1>5, <1>6, <1>7, <1>8 DEF IInv

\* The steps of the device that touch neither the queues nor the workers:
\* taking and releasing its lock, blockif_cancel of a busy request, and
\* blockif_close but for the broadcast.
LEMMA DeviceStep ==
    ASSUME IInv,
           \/ DevLock \/ DevUnlock \/ (\E r \in Requests : CancelBusy(r))
           \/ CancelInterrupt \/ CancelWake \/ CancelReturn
           \/ CloseUnlock \/ CloseSet \/ CloseJoin
    PROVE  IInv'
<1> USE DEF IInv, elemVars, workerVars, cancelVars
<1>1. UNCHANGED <<status, req, block, offset, pendq, pc, cur, inflight>>
  BY DEF DevLock, DevUnlock, CancelBusy, CancelInterrupt, CancelWake, CancelReturn,
         CloseUnlock, CloseSet, CloseJoin
<1>2. TypeOK'
  BY BlockIfAssumption, ZenonT(60) DEF TypeOK, DevLock, DevUnlock, CancelBusy, CancelInterrupt,
     CancelWake, CancelReturn, CloseUnlock, CloseSet, CloseJoin
<1>3. QueueStatus' /\ WorkerElem' /\ BlockedBehind' /\ WorkerAwake' /\ OneCallback'
  BY <1>1 DEF QueueStatus, WorkerElem, BlockedBehind, WorkerAwake, OneCallback,
     Queued, Busy, Serving, Live
<1>4. LockOwner'
  BY <1>1, BlockIfAssumption DEF TypeOK, LockOwner, DevLock, DevUnlock, CancelBusy,
     CancelInterrupt, CancelWake, CancelReturn, CloseUnlock, CloseSet, CloseJoin
<1>5. CancelTarget'
  <2>1. CASE CancelInterrupt
    <3>1. cbe \in Elems /\ Busy(cbe) /\ \E t \in Threads : cur[t] = cbe
      BY <2>1 DEF CancelInterrupt, CancelTarget, WorkerElem
    <3> QED BY <1>1, <2>1, <3>1 DEF CancelInterrupt, CancelTarget, Busy
  <2>2. CASE ~CancelInterrupt
    BY <1>1, <2>2, SMTT(60) DEF CancelTarget, Busy, DevLock, DevUnlock, CancelBusy,
       CancelInterrupt, CancelWake, CancelReturn, CloseUnlock, CloseSet, CloseJoin
  <2> QED BY <2>1, <2>2
<1>6. CloseOrder'
  BY <1>1 DEF CloseOrder, DevLock, DevUnlock, CancelBusy, CancelInterrupt,
     CancelWake, CancelReturn, CloseUnlock, CloseSet, CloseJoin
<1> QED BY <1>2, <1>3, <1>4, <1>5, <1>6

\* When blockif_dequeue finds nothing although something is queued, the
\* completion it waits for belongs to a worker that is busy.
LEMMA NothingPendingBusy ==
    ASSUME IInv, NothingPending, pendq # <<>>
    PROVE  \E t \in Threads : Serving(t)
<1>1. pendq \in Seq(Elems) /\ Len(pendq) \in Nat /\ Len(pendq) >= 1
  BY SeqEmpty, SeqLen DEF IInv, TypeOK
<1>2. pendq[1] \in Elems /\ Queued(pendq[1])
  BY <1>1, SeqElement, SeqLen DEF Queued, Range
<1>3. status[pendq[1]] = "BLOCK"
  BY <1>1, <1>2 DEF IInv, QueueStatus, NothingPending
<1>4. PICK e \in Elems : Busy(e)
  BY <1>1, <1>3 DEF IInv, BlockedBehind
<1>5. PICK t \in Threads : cur[t] = e
  BY <1>4 DEF IInv, WorkerElem
<1> QED BY <1>4, <1>5, BlockIfAssumption DEF IInv, WorkerElem, Serving

\* The steps of a worker that leave the queues and the elements alone: the
\* mutexes, the condition variable, the handler of SIGCONT; and the broadcast
\* of blockif_close.
LEMMA ControlStep ==
    ASSUME IInv,
           \/ CloseBroadcast
           \/ \E t \in Threads : \/ Lock(t) \/ Wait(t) \/ SpuriousWake(t) \/ Exit(t)
                                 \/ CallbackReturn(t) \/ SigcontHandler(t)
    PROVE  IInv'
<1> USE DEF IInv, elemVars, workerVars, cancelVars
<1>1. UNCHANGED <<status, req, block, offset, pendq, cur, inflight>>
  BY DEF CloseBroadcast, Lock, Wait, SpuriousWake, Exit, CallbackReturn, SigcontHandler
<1>2. TypeOK'
  <2>1. CASE CloseBroadcast
    BY <2>1, SMTT(60) DEF TypeOK, CloseBroadcast
  <2>2. ASSUME NEW t \in Threads, Lock(t) \/ SpuriousWake(t) \/ CallbackReturn(t)
        PROVE  TypeOK'
    BY <2>2, ZenonT(60) DEF TypeOK, Lock, SpuriousWake, CallbackReturn
  <2>3. ASSUME NEW t \in Threads, Wait(t) \/ Exit(t) \/ SigcontHandler(t)
        PROVE  TypeOK'
    BY <2>3, ZenonT(60) DEF TypeOK, Wait, Exit, SigcontHandler
  <2> QED BY <2>1, <2>2, <2>3
<1>3. QueueStatus' /\ BlockedBehind'
  BY <1>1 DEF QueueStatus, BlockedBehind, Queued, Busy
<1>4. \A t \in Threads :
        /\ pc'[t] # pc[t] => pc[t] \in {"lock", "run", "wait", "incallback"}
                             /\ pc'[t] \in {"lock", "run", "wait", "exit", "relock"}
        /\ Serving(t)' <=> Serving(t)
        /\ pc'[t] = "io" <=> pc[t] = "io"
        /\ pc'[t] \in {"io", "callback"} <=> pc[t] \in {"io", "callback"}
  BY DEF TypeOK, Serving, CloseBroadcast, Lock, Wait, SpuriousWake, Exit, CallbackReturn,
     SigcontHandler
<1>5. WorkerElem'
  BY <1>1, <1>4, ZenonT(60) DEF WorkerElem, Busy
<1>6. OneCallback'
  <2>1. \A e \in Elems : Queued(e)' = Queued(e) /\ Busy(e)' = Busy(e)
    BY <1>1 DEF Queued, Busy
  <2>2. \A e \in Elems : Live(e)' <=> Live(e)
    BY <1>1, <1>4, <2>1 DEF Live
  <2> QED BY <1>1, <2>1, <2>2, ZenonT(60) DEF OneCallback
<1>7. WorkerAwake'
  <2>1. CASE \E t \in Threads : Wait(t) \/ Exit(t)
    <3>1. PICK t \in Threads : Wait(t) \/ Exit(t)
      BY <2>1
    <3>2. SUFFICES ASSUME pendq # <<>>
                   PROVE  \E u \in Threads : pc'[u] \notin {"wait", "exit"}
      BY <1>1 DEF WorkerAwake
    <3>3. PICK u \in Threads : Serving(u)
      BY <3>1, <3>2, NothingPendingBusy DEF Wait, Exit
    <3> QED BY <1>4, <3>3 DEF Serving
  <2>2. CASE ~\E t \in Threads : Wait(t) \/ Exit(t)
    BY <1>1, <2>2 DEF TypeOK, WorkerAwake, CloseBroadcast, Lock, SpuriousWake,
       CallbackReturn, SigcontHandler
  <2> QED BY <2>1, <2>2
<1>8. LockOwner'
  <2>1. CASE CloseBroadcast
    BY <2>1 DEF TypeOK, LockOwner, CloseBroadcast
  <2>2. ASSUME NEW t \in Threads, Lock(t) PROVE LockOwner'
    BY <2>2, BlockIfAssumption DEF TypeOK, LockOwner, Lock
  <2>3. ASSUME NEW t \in Threads, SpuriousWake(t) PROVE LockOwner'
    BY <2>3, BlockIfAssumption DEF TypeOK, LockOwner, SpuriousWake
  <2>4. ASSUME NEW t \in Threads, CallbackReturn(t) PROVE LockOwner'
    BY <2>4, BlockIfAssumption DEF TypeOK, LockOwner, CallbackReturn
  <2>5. ASSUME NEW t \in Threads, Wait(t) PROVE LockOwner'
    BY <2>5, BlockIfAssumption DEF TypeOK, LockOwner, Wait
  <2>6. ASSUME NEW t \in Threads, Exit(t) PROVE LockOwner'
    BY <2>6, BlockIfAssumption DEF TypeOK, LockOwner, Exit
  <2>7. ASSUME NEW t \in Threads, SigcontHandler(t) PROVE LockOwner'
    BY <2>7, BlockIfAssumption DEF TypeOK, LockOwner, SigcontHandler
  <2> QED BY <2>1, <2>2, <2>3, <2>4, <2>5, <2>6, <2>7
<1>9. CancelTarget'
  BY <1>1 DEF CancelTarget, Busy, CloseBroadcast, Lock, Wait, SpuriousWake, Exit,
     CallbackReturn, SigcontHandler
<1>10. CloseOrder'
  <2>1. CASE CloseBroadcast
    BY <2>1 DEF TypeOK, CloseOrder, CloseBroadcast
  <2>2. ASSUME NEW t \in Threads, Lock(t) \/ SpuriousWake(t) \/ CallbackReturn(t)
        PROVE  CloseOrder'
    BY <2>2 DEF TypeOK, CloseOrder, Lock, SpuriousWake, CallbackReturn
  <2>3. ASSUME NEW t \in Threads, Wait(t) \/ Exit(t) \/ SigcontHandler(t)
        PROVE  CloseOrder'
    BY <2>3 DEF TypeOK, CloseOrder, Wait, Exit, SigcontHandler
  <2> QED BY <2>1, <2>2, <2>3
<1> QED BY <1>2, <1>3, <1>5, <1>6, <1>7, <1>8, <1>9, <1>10

----------------------------------------------------------------------------
(* The steps of a worker up to the callback: taking an element off the     *)
(* pending queue, the transfer and the callback.                           *)

\* The end of a transfer: BUSY becomes DONE outside bc->mtx.
LEMMA ProcStep ==
    ASSUME IInv, NEW t \in Threads, Proc(t)
    PROVE  IInv'
<1> USE DEF IInv, cancelVars
<1>1. /\ pc[t] = "io" /\ pc' = [pc EXCEPT ![t] = "callback"]
      /\ status' = [status EXCEPT ![cur[t]] = "DONE"]
      /\ UNCHANGED <<req, block, offset, pendq, closing, mtx, dev, cur, cpc, cbe, bse,
                     sig, inflight>>
  BY DEF Proc
<1>2. cur[t] \in Elems /\ status[cur[t]] = "BUSY"
  BY <1>1, BlockIfAssumption DEF TypeOK, WorkerElem, Serving
<1>3. TypeOK'
  BY <1>1, ZenonT(60) DEF TypeOK, BlockStat, Proc
<1>4. /\ \A e \in Elems : Busy(e)' <=> Busy(e)
      /\ \A e \in Elems : Queued(e)' <=> Queued(e)
      /\ \A e \in Elems : status'[e] \in {"BLOCK", "PEND"} => status'[e] = status[e]
      /\ \A e \in Elems : status[e] \in {"BLOCK", "PEND"} => status'[e] = status[e]
  BY <1>1, <1>2 DEF TypeOK, Busy, Queued
<1>5. QueueStatus'
  BY <1>1, <1>4 DEF QueueStatus
<1>6. BlockedBehind'
  <2>1. \A i \in 1..Len(pendq) : pendq[i] \in Elems
    BY SeqElement DEF TypeOK
  <2> QED BY <1>1, <1>4, <2>1 DEF BlockedBehind
<1>7. \A u \in Threads : pc'[u] = IF u = t THEN "callback" ELSE pc[u]
  BY <1>1 DEF TypeOK
<1>8. WorkerElem'
  BY <1>1, <1>2, <1>4, <1>7 DEF WorkerElem, Serving, TypeOK
<1>9. OneCallback'
  BY <1>1, <1>4, <1>7 DEF OneCallback, Live
<1>10. WorkerAwake' /\ LockOwner' /\ CloseOrder'
  BY <1>1, <1>7 DEF WorkerAwake, LockOwner, CloseOrder
<1>11. CancelTarget'
  BY <1>1, <1>4 DEF CancelTarget
<1> QED BY <1>3, <1>5, <1>6, <1>8, <1>9, <1>10, <1>11

\* The callback: the request belongs to the device again, its element is
\* still busy.
LEMMA CallbackStep ==
    ASSUME IInv, NEW t \in Threads, Callback(t)
    PROVE  IInv'
<1> USE DEF IInv, elemVars, cancelVars
<1>1. /\ pc[t] = "callback" /\ pc' = [pc EXCEPT ![t] = "incallback"]
      /\ inflight' = inflight \ {req[cur[t]]}
      /\ dev = Nobody /\ dev' = t
      /\ UNCHANGED <<status, req, block, offset, pendq, closing, mtx, cur, cpc, cbe, bse, sig>>
  BY DEF Callback
<1>2. cur[t] \in Elems /\ status[cur[t]] = "DONE" /\ ~Queued(cur[t]) /\ Live(cur[t])
  <2>1. cur[t] \in Elems
    BY <1>1, BlockIfAssumption DEF TypeOK, WorkerElem, Serving
  <2>2. status[cur[t]] = "DONE"
    BY <1>1 DEF WorkerElem, Serving
  <2>3. ~Queued(cur[t])
    BY <2>1, <2>2 DEF QueueStatus
  <2> QED BY <1>1, <2>1, <2>2, <2>3 DEF Live
<1>3. TypeOK'
  BY <1>1 DEF TypeOK, Callback
<1>4. QueueStatus' /\ BlockedBehind' /\ CancelTarget'
  BY <1>1 DEF QueueStatus, BlockedBehind, CancelTarget, Queued, Busy
<1>5. \A u \in Threads : pc'[u] = IF u = t THEN "incallback" ELSE pc[u]
  BY <1>1, SMTT(60) DEF TypeOK
<1>6. WorkerElem'
  BY <1>1, <1>5 DEF WorkerElem, Serving, Busy
<1>7. \A e \in Elems : Live(e)' <=> (Live(e) /\ e # cur[t])
  BY <1>1, <1>2, <1>5, SMTT(60) DEF Live, Queued, WorkerElem, Serving
<1>8. OneCallback'
  <2>1. \A e \in Elems : Queued(e)' = Queued(e) /\ Busy(e)' = Busy(e)
    BY <1>1 DEF Queued, Busy
  <2>2. \A e \in Elems : Live(e)' => req'[e] \in inflight'
    BY <1>1, <1>2, <1>7 DEF OneCallback
  <2>3. \A r \in inflight' : \E e \in Elems : Live(e)' /\ req'[e] = r
    BY <1>1, <1>2, <1>7 DEF OneCallback
  <2>4. \A e, f \in Elems : Live(e)' /\ Live(f)' /\ req'[e] = req'[f] => e = f
    BY <1>1, <1>7, SMTT(60) DEF OneCallback
  <2> QED BY <1>1, <2>1, <2>2, <2>3, <2>4 DEF OneCallback
<1>9. WorkerAwake' /\ CloseOrder'
  BY <1>1, <1>5 DEF WorkerAwake, CloseOrder
<1>10. LockOwner'
  BY <1>1, <1>5, BlockIfAssumption DEF LockOwner, TypeOK
<1> QED BY <1>3, <1>4, <1>6, <1>8, <1>9, <1>10

\* blockif_dequeue: the element moves from pendq to busyq, and what waits for
\* it now waits for a busy element.
LEMMA DequeueStep ==
    ASSUME IInv, NEW t \in Threads, Dequeue(t)
    PROVE  IInv'
<1> USE DEF IInv, cancelVars
<1>1. PICK i \in 1..Len(pendq) :
        /\ status[pendq[i]] = "PEND"
        /\ status' = [status EXCEPT ![pendq[i]] = "BUSY"]
        /\ cur' = [cur EXCEPT ![t] = pendq[i]]
        /\ pendq' = RemoveAt(pendq, i)
  BY Zenon DEF Dequeue
<1>2. /\ pc[t] = "run" /\ pc' = [pc EXCEPT ![t] = "io"] /\ mtx' = Nobody
      /\ UNCHANGED <<req, block, offset, closing, locked, dev, cpc, cbe, bse, sig, inflight>>
  BY DEF Dequeue
<1> DEFINE x == pendq[i]
           q == RemoveAt(pendq, i)
<1>3. /\ pendq \in Seq(Elems) /\ Len(pendq) \in Nat /\ i \in Nat
      /\ \A j \in 1..Len(pendq) : pendq[j] \in Elems
  BY SeqElement, SeqLen DEF TypeOK
<1>4. x \in Elems /\ status[x] = "PEND"
  BY <1>1, <1>3
<1>5. /\ q \in Seq(Elems) /\ Len(q) = Len(pendq) - 1
      /\ \A j \in 1..(Len(pendq) - 1) : q[j] = IF j < i THEN pendq[j] ELSE pendq[j + 1]
      /\ Range(q) = Range(pendq) \ {x}
      /\ \A j, k \in 1..Len(q) : q[j] = q[k] => j = k
  <2>1. \A j, k \in 1..Len(pendq) : pendq[j] = pendq[k] => j = k
    BY DEF QueueStatus
  <2>2. Range(q) = Range(pendq) \ {x} /\ \A j, k \in 1..Len(q) : q[j] = q[k] => j = k
    BY <1>3, <2>1, RemoveAtSet
  <2>3. /\ q \in Seq(Elems) /\ Len(q) = Len(pendq) - 1
        /\ \A j \in 1..(Len(pendq) - 1) : q[j] = IF j < i THEN pendq[j] ELSE pendq[j + 1]
    BY <1>3, RemoveAtProperties
  <2> QED BY <2>2, <2>3
<1> HIDE DEF x, q
<1>6. /\ pendq' = q
      /\ \A e \in Elems : status'[e] = IF e = x THEN "BUSY" ELSE status[e]
      /\ \A u \in Threads : cur'[u] = IF u = t THEN x ELSE cur[u]
      /\ \A u \in Threads : pc'[u] = IF u = t THEN "io" ELSE pc[u]
  BY <1>1, <1>2, SMTT(60) DEF TypeOK, x, q
<1>7. TypeOK'
  BY <1>1, <1>2, <1>4, <1>5, <1>6, SMTT(60) DEF TypeOK, BlockStat, x
<1>8. /\ \A e \in Elems : Queued(e)' <=> Queued(e) /\ e # x
      /\ \A e \in Elems : Busy(e)' <=> Busy(e) \/ e = x
      /\ Queued(x) /\ ~Busy(x)
  <2>1. Queued(x)
    BY <1>4, SMTT(60) DEF QueueStatus
  <2> QED BY <1>4, <1>5, <1>6, <2>1 DEF Queued, Busy
<1>9. QueueStatus'
  BY <1>4, <1>5, <1>6, <1>8, ZenonT(60) DEF QueueStatus
<1>10. ~Serving(t) /\ cur[t] = NoElem /\ \A u \in Threads : cur[u] # x
  <2>1. \A u \in Threads : cur[u] = x => Serving(u)
    BY <1>4, BlockIfAssumption, ZenonT(60) DEF WorkerElem
  <2>2. \A u \in Threads : cur[u] # x
    BY <1>4, <2>1, SMTT(60) DEF WorkerElem
  <2> QED BY <1>2, <2>2, ZenonT(60) DEF WorkerElem, Serving
<1>11. WorkerElem'
  <2>1. \A u \in Threads : Serving(u)' <=> Serving(u) \/ u = t
    BY <1>6, <1>2 DEF Serving
  <2>2. \A u \in Threads : Serving(u)' <=> cur'[u] # NoElem
    BY <1>4, <1>6, <2>1, BlockIfAssumption DEF WorkerElem
  <2>3. \A u \in Threads : Serving(u)' =>
          status'[cur'[u]] = IF pc'[u] = "io" THEN "BUSY" ELSE "DONE"
    <3> SUFFICES ASSUME NEW u \in Threads, Serving(u)'
                 PROVE  status'[cur'[u]] = IF pc'[u] = "io" THEN "BUSY" ELSE "DONE"
      OBVIOUS
    <3>1. CASE u = t
      BY <1>4, <1>6, <3>1, SMTT(60)
    <3>2. CASE u # t
      <4>1. Serving(u) /\ cur[u] \in Elems /\ cur'[u] = cur[u] /\ pc'[u] = pc[u]
        BY <1>6, <2>1, <3>2, SMTT(60) DEF WorkerElem, TypeOK
      <4> QED BY <1>6, <1>10, <4>1, SMTT(60) DEF WorkerElem
    <3> QED BY <3>1, <3>2
  <2>4. \A u, v \in Threads : Serving(u)' /\ cur'[u] = cur'[v] => u = v
    BY <1>6, <1>10, <2>1, SMTT(60) DEF WorkerElem
  <2>5. \A e \in Elems : Busy(e)' => \E u \in Threads : cur'[u] = e
    BY <1>4, <1>6, <1>8, <1>10, BlockIfAssumption, SMTT(60) DEF WorkerElem
  <2> QED BY <2>2, <2>3, <2>4, <2>5, SMTT(60) DEF WorkerElem
<1>12. BlockedBehind'
  <2> SUFFICES ASSUME NEW k \in 1..Len(q), status'[q[k]] = "BLOCK"
               PROVE  \/ \E j \in 1..(k - 1) : block[q[j]] = offset[req[q[k]]]
                      \/ \E e \in Elems : Busy(e)' /\ block[e] = offset[req[q[k]]]
    BY <1>2, <1>6 DEF BlockedBehind
  <2> DEFINE m == IF k < i THEN k ELSE k + 1
  <2>1. m \in 1..Len(pendq) /\ q[k] = pendq[m]
    BY <1>3, <1>5, SMTT(60)
  <2>2. status[pendq[m]] = "BLOCK"
    BY <1>3, <1>6, <2>1, SMTT(60)
  <2>3. CASE \E e \in Elems : Busy(e) /\ block[e] = offset[req[pendq[m]]]
    BY <1>8, <2>1, <2>3, SMTT(60)
  <2>4. ASSUME NEW j \in 1..(m - 1), block[pendq[j]] = offset[req[pendq[m]]]
        PROVE  \/ \E l \in 1..(k - 1) : block[q[l]] = offset[req[q[k]]]
               \/ \E e \in Elems : Busy(e)' /\ block[e] = offset[req[q[k]]]
    <3>1. CASE j < i
      <4>1. j \in 1..(Len(pendq) - 1) /\ q[j] = pendq[j]
        BY <1>3, <1>5, <2>1, <3>1, SMTT(60)
      <4>2. j \in 1..(k - 1)
        BY <1>3, <1>5, <2>1, <3>1, SMTT(60)
      <4> QED BY <2>1, <2>4, <4>1, <4>2
    <3>2. CASE j = i
      BY <1>4, <1>8, <2>1, <2>4, <3>2, SMTT(60) DEF x
    <3>3. CASE j > i
      <4>1. j - 1 \in 1..(k - 1) /\ j - 1 \in 1..(Len(pendq) - 1) /\ q[j - 1] = pendq[j]
        BY <1>3, <1>5, <2>1, <3>3, SMTT(60)
      <4> QED BY <2>1, <2>4, <4>1, SMTT(60)
    <3> QED BY <1>3, <2>1, <3>1, <3>2, <3>3, SMTT(60)
  <2> QED BY <2>1, <2>2, <2>3, <2>4, Zenon DEF BlockedBehind
<1>13. WorkerAwake'
  BY <1>6 DEF WorkerAwake
<1>14. OneCallback'
  <2>1. \A e \in Elems : Live(e)' <=> Live(e)
    BY <1>6, <1>8, <1>10, <1>2, SMTT(60) DEF Live
  <2> QED BY <1>2, <1>8, <2>1, SMTT(60) DEF OneCallback
<1>15. LockOwner'
  BY <1>2, <1>6, BlockIfAssumption DEF LockOwner, TypeOK
<1>16. CancelTarget'
  BY <1>2, <1>8 DEF CancelTarget
<1>17. CloseOrder'
  BY <1>2, <1>6 DEF CloseOrder
<1> QED BY <1>7, <1>9, <1>11, <1>12, <1>13, <1>14, <1>15, <1>16, <1>17
=============================================================================
