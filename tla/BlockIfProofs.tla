--------------------------- MODULE BlockIfProofs ---------------------------
(***************************************************************************)
(* The safety of the block back end for every pool of workers, every       *)
(* number of elements and requests: the steps of BlockIf that change the   *)
(* queues preserve the inductive invariant, and what follows from it.      *)
(***************************************************************************)
EXTENDS BlockIfInv, TLAPS

(* The steps that take an element out of the queues: the end of a request, *)
(* and blockif_cancel of one that has not begun.                           *)

\* What lies below an index of a queue is an index of the queue.
LEMMA BelowInRange ==
    ASSUME NEW n \in Nat, NEW k \in 1..n, NEW j \in 1..(k - 1)
    PROVE  j \in 1..n
OBVIOUS

\* The first worker back from its callback recycles its element; what waited
\* for it becomes PENDing, and the same worker is about to look for it.
LEMMA RecycleStep ==
    ASSUME IInv, NEW t \in Threads, Recycle(t)
    PROVE  IInv'
<1> USE DEF IInv, cancelVars
<1> DEFINE x == cur[t]
<1>1. /\ pc[t] = "relock" /\ mtx = Nobody /\ mtx' = t
      /\ pc' = [pc EXCEPT ![t] = "run"]
      /\ cur' = [cur EXCEPT ![t] = NoElem]
      /\ pendq' = pendq
      /\ status' = [e \in Elems |->
                      IF e = x THEN "FREE"
                      ELSE IF e \in Range(pendq) /\ offset[req[e]] = block[x] THEN "PEND"
                      ELSE status[e]]
      /\ req' = [req EXCEPT ![x] = NoReq]
      /\ UNCHANGED <<block, offset, closing, locked, dev, cpc, cbe, bse, sig, inflight>>
  BY DEF Recycle, Complete
<1>2. x \in Elems /\ status[x] = "DONE"
  BY <1>1, BlockIfAssumption DEF TypeOK, WorkerElem, Serving
<1>3. ~Queued(x)
  BY <1>2 DEF QueueStatus
<1> HIDE DEF x
<1>4. \A u \in Threads : u # t => cur[u] # x
  BY <1>1 DEF WorkerElem, Serving, x
<1>5. /\ \A u \in Threads : pc'[u] = IF u = t THEN "run" ELSE pc[u]
      /\ \A u \in Threads : cur'[u] = IF u = t THEN NoElem ELSE cur[u]
      /\ \A e \in Elems : req'[e] = IF e = x THEN NoReq ELSE req[e]
  BY <1>1 DEF TypeOK
<1>6. \A e \in Elems :
        /\ e = x => status'[e] = "FREE"
        /\ e # x /\ Queued(e) => status'[e] = "PEND" \/ (status'[e] = status[e]
                                                         /\ offset[req[e]] # block[x])
        /\ e # x /\ ~Queued(e) => status'[e] = status[e]
  BY <1>1 DEF Queued
<1>7. /\ \A e \in Elems : Queued(e)' <=> Queued(e)
      /\ \A e \in Elems : Busy(e)' <=> Busy(e) /\ e # x
  BY <1>1, <1>2, <1>3, <1>6 DEF Queued, Busy, QueueStatus
<1>8. TypeOK'
  <2>1. status' \in [Elems -> BlockStat]
    BY <1>1 DEF TypeOK, BlockStat
  <2>2. req' \in [Elems -> Requests \cup {NoReq}]
    BY <1>1, Zenon DEF TypeOK
  <2> QED BY <1>1, <2>1, <2>2 DEF TypeOK
<1>9. QueueStatus'
  BY <1>1, <1>2, <1>3, <1>6, <1>7 DEF QueueStatus
<1>10. WorkerElem'
  <2>1. \A u \in Threads : Serving(u)' <=> Serving(u) /\ u # t
    BY <1>1, <1>5 DEF Serving
  <2>2. \A u \in Threads : Serving(u)' <=> cur'[u] # NoElem
    BY <1>5, <2>1 DEF WorkerElem
  <2>3. \A u \in Threads : Serving(u)' =>
          status'[cur'[u]] = IF pc'[u] = "io" THEN "BUSY" ELSE "DONE"
    <3> SUFFICES ASSUME NEW u \in Threads, Serving(u)'
                 PROVE  status'[cur'[u]] = IF pc'[u] = "io" THEN "BUSY" ELSE "DONE"
      OBVIOUS
    <3>1. Serving(u) /\ u # t /\ cur[u] \in Elems /\ cur'[u] = cur[u] /\ pc'[u] = pc[u]
      BY <1>5, <2>1 DEF WorkerElem, TypeOK
    <3>2. status[cur[u]] = IF pc[u] = "io" THEN "BUSY" ELSE "DONE"
      BY <3>1 DEF WorkerElem
    <3>3. ~Queued(cur[u])
      BY <3>1, <3>2 DEF QueueStatus
    <3> QED BY <1>4, <1>6, <3>1, <3>2, <3>3
  <2>4. \A u, v \in Threads : Serving(u)' /\ cur'[u] = cur'[v] => u = v
    BY <1>5, <2>1, <2>2 DEF WorkerElem
  <2>5. \A e \in Elems : Busy(e)' => \E u \in Threads : cur'[u] = e
    BY <1>5, <1>7 DEF WorkerElem, x
  <2> QED BY <2>2, <2>3, <2>4, <2>5 DEF WorkerElem
<1>11. BlockedBehind'
  <2> SUFFICES ASSUME NEW k \in 1..Len(pendq), status'[pendq[k]] = "BLOCK"
               PROVE  \/ \E j \in 1..(k - 1) :
                           block'[pendq'[j]] = offset'[req'[pendq'[k]]]
                      \/ \E e \in Elems : Busy(e)' /\ block'[e] = offset'[req'[pendq'[k]]]
    BY <1>1 DEF BlockedBehind
  <2>1. pendq[k] \in Elems /\ Queued(pendq[k])
    BY SeqElement, SeqLen DEF TypeOK, Queued, Range
  <2>2. /\ pendq[k] # x /\ status[pendq[k]] = "BLOCK"
        /\ offset[req[pendq[k]]] # block[x] /\ req'[pendq[k]] = req[pendq[k]]
    BY <1>3, <1>5, <1>6, <2>1
  <2>3. \/ \E j \in 1..(k - 1) : block[pendq[j]] = offset[req[pendq[k]]]
        \/ \E e \in Elems : Busy(e) /\ block[e] = offset[req[pendq[k]]]
    BY <2>2 DEF BlockedBehind
  <2> QED BY <1>1, <1>7, <2>2, <2>3, SMTT(60)
<1>12. WorkerAwake'
  BY <1>5 DEF WorkerAwake
<1>13. OneCallback'
  <2>1. \A e \in Elems : Live(e)' <=> Live(e)
    BY <1>1, <1>3, <1>4, <1>5, <1>7, BlockIfAssumption DEF Live, x
  <2>2. \A e \in Elems : Live(e) => e # x
    BY <1>1, <1>3, <1>4 DEF Live
  <2>3. \A e \in Elems : (Queued(e) \/ Busy(e))' <=> req'[e] # NoReq
    BY <1>3, <1>5, <1>7 DEF OneCallback
  <2>4. \A e \in Elems : Live(e)' => req'[e] \in inflight'
    BY <1>1, <1>5, <2>1, <2>2 DEF OneCallback
  <2>5. \A r \in inflight' : \E e \in Elems : Live(e)' /\ req'[e] = r
    BY <1>1, <1>5, <2>1, <2>2 DEF OneCallback
  <2>6. \A e, f \in Elems : Live(e)' /\ Live(f)' /\ req'[e] = req'[f] => e = f
    BY <1>1, <1>5, <2>1, <2>2 DEF OneCallback
  <2> QED BY <2>3, <2>4, <2>5, <2>6 DEF OneCallback
<1>14. LockOwner'
  BY <1>1, <1>5, BlockIfAssumption, SMTT(60) DEF LockOwner, TypeOK
<1>15. CancelTarget'
  BY <1>1, BlockIfAssumption, SMTT(60) DEF CancelTarget, LockOwner
<1>16. CloseOrder'
  BY <1>1, <1>5 DEF CloseOrder
<1> QED BY <1>8, <1>9, <1>10, <1>11, <1>12, <1>13, <1>14, <1>15, <1>16

\* blockif_cancel of a request in pendq: what waited for it becomes PENDing
\* without a signal, and the worker that was awake for it is still awake.
LEMMA CancelPendingStep ==
    ASSUME IInv, NEW r \in Requests, CancelPending(r)
    PROVE  IInv'
<1> USE DEF IInv, cancelVars, workerVars
<1>1. PICK i \in 1..Len(pendq) :
        /\ req[pendq[i]] = r
        /\ Complete(pendq[i], RemoveAt(pendq, i))
  BY DEF CancelPending
<1>2. /\ inflight' = inflight \ {r}
      /\ UNCHANGED <<closing, locked, mtx, dev, pc, cur, cpc, cbe, bse, sig>>
  BY DEF CancelPending
<1> DEFINE x == pendq[i]
           q == RemoveAt(pendq, i)
<1>3. /\ pendq \in Seq(Elems) /\ Len(pendq) \in Nat /\ i \in Nat
      /\ \A j \in 1..Len(pendq) : pendq[j] \in Elems /\ Queued(pendq[j])
  BY SeqElement, SeqLen DEF TypeOK, Queued, Range
<1>4. x \in Elems /\ Queued(x) /\ status[x] \in {"BLOCK", "PEND"} /\ req[x] = r
  BY <1>1, <1>3 DEF QueueStatus
<1>5. /\ q \in Seq(Elems) /\ Len(q) = Len(pendq) - 1
      /\ \A j \in 1..(Len(pendq) - 1) : q[j] = IF j < i THEN pendq[j] ELSE pendq[j + 1]
      /\ Range(q) = Range(pendq) \ {x}
      /\ \A j, k \in 1..Len(q) : q[j] = q[k] => j = k
  <2>1. \A j, k \in 1..Len(pendq) : pendq[j] = pendq[k] => j = k
    BY DEF QueueStatus
  <2>2. Range(q) = Range(pendq) \ {x} /\ \A j, k \in 1..Len(q) : q[j] = q[k] => j = k
    BY <1>3, <2>1, RemoveAtSet
  <2>3. /\ q \in Seq(Elems) /\ Len(q) = Len(pendq) - 1
        /\ \A j \in 1..(Len(pendq) - 1) : q[j] = IF j < i THEN pendq[j] ELSE pendq[j + 1]
    BY <1>3, RemoveAtProperties, Zenon
  <2> QED BY <2>2, <2>3
<1>6. Complete(x, q)
  BY <1>1
<1> HIDE DEF x, q
<1>7. /\ pendq' = q
      /\ UNCHANGED <<block, offset>>
      /\ \A e \in Elems : req'[e] = IF e = x THEN NoReq ELSE req[e]
      /\ \A e \in Elems :
           /\ e = x => status'[e] = "FREE"
           /\ e # x /\ Queued(e) => status'[e] = "PEND" \/ (status'[e] = status[e]
                                                            /\ offset[req[e]] # block[x])
           /\ e # x /\ ~Queued(e) => status'[e] = status[e]
  BY <1>5, <1>6, SMTT(60) DEF Complete, Queued, TypeOK
<1>8. /\ \A e \in Elems : Queued(e)' <=> Queued(e) /\ e # x
      /\ \A e \in Elems : Busy(e)' <=> Busy(e)
      /\ ~Busy(x)
  <2>1. \A e \in Elems : Queued(e)' <=> Queued(e) /\ e # x
    BY <1>5, <1>7 DEF Queued
  <2>2. ~Busy(x)
    BY <1>4 DEF Busy
  <2>3. \A e \in Elems : Busy(e)' <=> Busy(e)
    BY <1>4, <1>7 DEF Busy, QueueStatus
  <2> QED BY <2>1, <2>2, <2>3
<1>9. TypeOK'
  <2>1. status' \in [Elems -> BlockStat]
    BY <1>6 DEF Complete, TypeOK, BlockStat
  <2>2. req' \in [Elems -> Requests \cup {NoReq}]
    BY <1>6, ZenonT(60) DEF Complete, TypeOK
  <2> QED BY <1>2, <1>5, <1>7, <2>1, <2>2, SMTT(60) DEF TypeOK
<1>10. QueueStatus'
  <2>1. \A e \in Elems : Queued(e)' <=> status'[e] \in {"BLOCK", "PEND"}
    BY <1>7, <1>8 DEF QueueStatus
  <2> QED BY <1>5, <1>7, <2>1 DEF QueueStatus
<1>11. \A u \in Threads : cur[u] # x
  <2>1. \A u \in Threads : cur[u] = x => Serving(u)
    BY <1>4, BlockIfAssumption, SMTT(60) DEF WorkerElem
  <2> QED BY <1>4, <2>1 DEF WorkerElem
<1>12. WorkerElem'
  <2>1. \A u \in Threads : Serving(u) =>
          status'[cur[u]] = IF pc[u] = "io" THEN "BUSY" ELSE "DONE"
    <3> SUFFICES ASSUME NEW u \in Threads, Serving(u)
                 PROVE  status'[cur[u]] = IF pc[u] = "io" THEN "BUSY" ELSE "DONE"
      OBVIOUS
    <3>1. cur[u] \in Elems /\ status[cur[u]] = IF pc[u] = "io" THEN "BUSY" ELSE "DONE"
      BY DEF WorkerElem, TypeOK
    <3>2. ~Queued(cur[u])
      BY <3>1, SMTT(60) DEF QueueStatus
    <3> QED BY <1>7, <1>11, <3>1, <3>2
  <2> QED BY <1>2, <1>8, <2>1, ZenonT(60) DEF WorkerElem, Serving
<1>13. BlockedBehind'
  <2> SUFFICES ASSUME NEW k \in 1..Len(q), status'[q[k]] = "BLOCK"
               PROVE  \/ \E j \in 1..(k - 1) : block[q[j]] = offset[req'[q[k]]]
                      \/ \E e \in Elems : Busy(e)' /\ block[e] = offset[req'[q[k]]]
    BY <1>7, ZenonT(60) DEF BlockedBehind
  <2> DEFINE m == IF k < i THEN k ELSE k + 1
  <2>1. m \in 1..Len(pendq) /\ q[k] = pendq[m]
    BY <1>3, <1>5, SMTT(60)
  <2>2. /\ pendq[m] # x /\ status[pendq[m]] = "BLOCK"
        /\ offset[req[pendq[m]]] # block[x] /\ req'[q[k]] = req[pendq[m]]
    BY <1>3, <1>7, <2>1, ZenonT(60)
  <2>3. CASE \E e \in Elems : Busy(e) /\ block[e] = offset[req[pendq[m]]]
    BY <1>8, <2>2, <2>3, ZenonT(60)
  <2>4. ASSUME NEW j \in 1..(m - 1), block[pendq[j]] = offset[req[pendq[m]]]
        PROVE  \E l \in 1..(k - 1) : block[q[l]] = offset[req'[q[k]]]
    <3>1. CASE j < i
      <4>1. j \in 1..(Len(pendq) - 1) /\ q[j] = pendq[j] /\ j \in 1..(k - 1)
        BY <1>3, <1>5, <2>1, <3>1
      <4> QED BY <2>2, <2>4, <4>1
    <3>2. CASE j = i
      BY <2>2, <2>4, <3>2 DEF x
    <3>3. CASE j > i
      <4>1. j - 1 \in 1..(k - 1) /\ j - 1 \in 1..(Len(pendq) - 1) /\ q[j - 1] = pendq[j]
        BY <1>3, <1>5, <2>1, <3>3
      <4> QED BY <2>2, <2>4, <4>1
    <3> QED BY <1>3, <2>1, <3>1, <3>2, <3>3, SMTT(60)
  <2> QED BY <2>1, <2>2, <2>3, <2>4, SMTT(60) DEF BlockedBehind
<1>14. WorkerAwake'
  <2>1. pendq # <<>>
    BY <1>3, SeqEmpty, SMTT(60)
  <2> QED BY <1>2, <2>1 DEF WorkerAwake
<1>15. OneCallback'
  <2>1. \A e \in Elems : Live(e)' <=> Live(e) /\ e # x
    BY <1>2, <1>8, <1>11 DEF Live
  <2>2. Live(x)
    BY <1>4 DEF Live
  <2>3. \A e \in Elems : (Queued(e) \/ Busy(e))' <=> req'[e] # NoReq
    BY <1>7, <1>8, SMTT(60) DEF OneCallback
  <2>4. \A e \in Elems : Live(e)' => req'[e] \in inflight'
    BY <1>2, <1>4, <1>7, <2>1, <2>2, SMTT(60) DEF OneCallback
  <2>5. \A s \in inflight' : \E e \in Elems : Live(e)' /\ req'[e] = s
    BY <1>2, <1>4, <1>7, <2>1, <2>2, SMTT(60) DEF OneCallback
  <2>6. \A e, f \in Elems : Live(e)' /\ Live(f)' /\ req'[e] = req'[f] => e = f
    BY <1>7, <2>1 DEF OneCallback
  <2> QED BY <2>3, <2>4, <2>5, <2>6 DEF OneCallback
<1>16. LockOwner' /\ CloseOrder'
  BY <1>2 DEF LockOwner, CloseOrder
<1>17. CancelTarget'
  BY <1>2, <1>8 DEF CancelTarget
<1> QED BY <1>9, <1>10, <1>12, <1>13, <1>14, <1>15, <1>16, <1>17

----------------------------------------------------------------------------
(* blockif_request, and the steps together.                                *)

\* blockif_request: the new element is PENDing and a worker is signalled, or
\* it is BLOCKed behind an element for which a worker is awake.
LEMMA RequestStep ==
    ASSUME IInv, NEW p \in Threads \cup {Caller}, BlockifRequest(p)
    PROVE  IInv'
<1> USE DEF IInv, cancelVars
<1>1. /\ dev = p /\ (p = Caller => cpc = "dev") /\ mtx = Nobody
      /\ UNCHANGED <<closing, locked, mtx, dev, cur, cpc, cbe, bse, sig>>
  BY DEF BlockifRequest
<1>2. PICK r \in Requests \ inflight, off \in Offsets, len \in Lengths, flush \in BOOLEAN,
           x \in Elems :
        /\ Enqueue(x, r, off, Block(off, len, flush))
        /\ inflight' = inflight \cup {r}
  BY DEF BlockifRequest
<1> DEFINE blk == Block(off, len, flush)
<1>3. off \in Nat /\ blk \in Nat
  BY BlockIfAssumption DEF Block
<1> HIDE DEF blk
<1>4. /\ status[x] = "FREE"
      /\ status' = [status EXCEPT ![x] = IF Follows(off) THEN "BLOCK" ELSE "PEND"]
      /\ req' = [req EXCEPT ![x] = r]
      /\ block' = [block EXCEPT ![x] = blk]
      /\ offset' = [offset EXCEPT ![r] = off]
      /\ pendq' = Append(pendq, x)
      /\ IF Follows(off) THEN UNCHANGED pc ELSE Signal
  BY <1>2, SMTT(60) DEF Enqueue, blk
<1>5. /\ pendq \in Seq(Elems) /\ Len(pendq) \in Nat
      /\ \A j \in 1..Len(pendq) : pendq[j] \in Elems /\ Queued(pendq[j])
      /\ DOMAIN pendq = 1..Len(pendq)
  BY SeqElement, SeqLen DEF TypeOK, Queued, Range
<1>6. /\ pendq' \in Seq(Elems) /\ Len(pendq') = Len(pendq) + 1
      /\ \A j \in 1..Len(pendq) : pendq'[j] = pendq[j]
      /\ pendq'[Len(pendq) + 1] = x
      /\ DOMAIN pendq' = 1..(Len(pendq) + 1)
  BY <1>4, <1>5, SeqAppend, SeqLen, SMTT(60)
<1>7. ~Queued(x) /\ ~Busy(x) /\ \A u \in Threads : cur[u] # x
  <2>1. ~Queued(x) /\ ~Busy(x)
    BY <1>4 DEF QueueStatus, Busy
  <2>2. \A u \in Threads : cur[u] = x => Serving(u)
    BY BlockIfAssumption DEF WorkerElem
  <2> QED BY <1>4, <2>1, <2>2 DEF WorkerElem
<1>8. /\ \A e \in Elems : status'[e] = IF e = x
                                       THEN IF Follows(off) THEN "BLOCK" ELSE "PEND"
                                       ELSE status[e]
      /\ \A e \in Elems : req'[e] = IF e = x THEN r ELSE req[e]
      /\ \A e \in Elems : block'[e] = IF e = x THEN blk ELSE block[e]
      /\ \A s \in Requests : offset'[s] = IF s = r THEN off ELSE offset[s]
  BY <1>4 DEF TypeOK
<1>9. /\ \A e \in Elems : Queued(e)' <=> Queued(e) \/ e = x
      /\ \A e \in Elems : Busy(e)' <=> Busy(e)
  <2>1. \A e \in Elems : Queued(e)' <=> Queued(e) \/ e = x
    BY <1>5, <1>6, SMTT(60) DEF Queued, Range
  <2> QED BY <1>7, <1>8, <2>1 DEF Busy
<1>10. \A u \in Threads : pc'[u] = pc[u] \/ (pc[u] = "wait" /\ pc'[u] = "lock")
  BY <1>4 DEF Signal, TypeOK
<1>11. TypeOK'
  <2>1. pc' \in [Threads -> {"lock", "run", "wait", "exit", "io", "callback",
                             "incallback", "relock"}]
    BY <1>4, ZenonT(60) DEF Signal, TypeOK
  <2>2. status' \in [Elems -> BlockStat] /\ req' \in [Elems -> Requests \cup {NoReq}]
    BY <1>4 DEF TypeOK, BlockStat
  <2>3. block' \in [Elems -> Nat] /\ offset' \in [Requests -> Nat]
    BY <1>3, <1>4 DEF TypeOK
  <2> QED BY <1>1, <1>2, <1>6, <2>1, <2>2, <2>3, SMTT(60) DEF TypeOK
<1>12. QueueStatus'
  <2>1. \A e \in Elems : Queued(e)' <=> status'[e] \in {"BLOCK", "PEND"}
    BY <1>7, <1>8, <1>9, SMTT(60) DEF QueueStatus
  <2>2. \A j, k \in 1..Len(pendq') : pendq'[j] = pendq'[k] => j = k
    BY <1>5, <1>6, <1>7, SMTT(60) DEF QueueStatus
  <2> QED BY <2>1, <2>2, SMTT(60) DEF QueueStatus
<1>13. WorkerElem'
  <2>1. \A u \in Threads : /\ Serving(u)' <=> Serving(u)
                           /\ pc'[u] = "io" <=> pc[u] = "io"
    BY <1>10, SMTT(60) DEF Serving
  <2>2. \A u \in Threads : Serving(u) => cur[u] \in Elems /\ status'[cur[u]] = status[cur[u]]
    <3> SUFFICES ASSUME NEW u \in Threads, Serving(u)
                 PROVE  cur[u] \in Elems /\ status'[cur[u]] = status[cur[u]]
      OBVIOUS
    <3>1. cur[u] \in Elems
      BY SMTT(60) DEF WorkerElem, TypeOK
    <3>2. cur[u] # x
      BY <1>7, ZenonT(60)
    <3> QED BY <1>8, <3>1, <3>2, ZenonT(60)
  <2> QED BY <1>1, <1>9, <2>1, <2>2, SMTT(60) DEF WorkerElem
<1>14. BlockedBehind'
  <2> SUFFICES ASSUME NEW k \in 1..(Len(pendq) + 1), status'[pendq'[k]] = "BLOCK"
               PROVE  \/ \E j \in 1..(k - 1) :
                           block'[pendq'[j]] = offset'[req'[pendq'[k]]]
                      \/ \E e \in Elems : Busy(e)' /\ block'[e] = offset'[req'[pendq'[k]]]
    BY <1>6, SMTT(60) DEF BlockedBehind
  <2>1. CASE k = Len(pendq) + 1
    <3>1. pendq'[k] = x /\ req'[x] = r /\ offset'[r] = off /\ Follows(off)
      BY <1>6, <1>8, <2>1
    <3>2. PICK y \in Elems : (Queued(y) \/ Busy(y)) /\ block[y] = off
      BY <3>1, SMTT(60) DEF Follows
    <3>3. y # x /\ block'[y] = off
      BY <1>7, <1>8, <3>2, SMTT(60)
    <3>4. CASE Busy(y)
      BY <1>9, <3>1, <3>3, <3>4, SMTT(60)
    <3>5. CASE Queued(y)
      <4>1. PICK j \in 1..Len(pendq) : pendq[j] = y
        BY <1>5, <3>5 DEF Queued, Range
      <4>2. j \in 1..(k - 1) /\ pendq'[j] = y
        BY <1>5, <1>6, <2>1, <4>1, SMTT(60)
      <4> QED BY <3>1, <3>3, <4>2, SMTT(60)
    <3> QED BY <3>2, <3>4, <3>5, SMTT(60)
  <2>2. CASE k # Len(pendq) + 1
    <3>1. k \in 1..Len(pendq) /\ pendq'[k] = pendq[k]
      BY <1>5, <1>6, <2>2, SMTT(60)
    <3>2. /\ pendq[k] \in Elems /\ pendq[k] # x /\ status[pendq[k]] = "BLOCK"
          /\ req'[pendq[k]] = req[pendq[k]]
      BY <1>5, <1>7, <1>8, <3>1, SMTT(60)
    <3>3. req[pendq[k]] \in inflight
      BY <1>5, <3>1, SMTT(60) DEF OneCallback, Live
    <3>4. offset'[req[pendq[k]]] = offset[req[pendq[k]]]
      <4>1. req[pendq[k]] \in Requests
        BY <3>3, ZenonT(60) DEF TypeOK
      <4>2. req[pendq[k]] # r
        BY <1>2, <3>3, ZenonT(60)
      <4> QED BY <1>8, <4>1, <4>2, ZenonT(60)
    <3>5. CASE \E e \in Elems : Busy(e) /\ block[e] = offset[req[pendq[k]]]
      <4>1. PICK e \in Elems : Busy(e) /\ block[e] = offset[req[pendq[k]]]
        BY <3>5, ZenonT(60)
      <4>2. Busy(e)' /\ block'[e] = block[e]
        BY <1>7, <1>8, <1>9, <4>1, ZenonT(60)
      <4>3. block'[e] = offset'[req'[pendq'[k]]]
        BY <3>1, <3>2, <3>4, <4>1, <4>2, ZenonT(60)
      <4> QED BY <4>2, <4>3, ZenonT(60)
    <3>6. ASSUME NEW j \in 1..(k - 1), block[pendq[j]] = offset[req[pendq[k]]]
          PROVE  block'[pendq'[j]] = offset'[req'[pendq'[k]]]
      <4>0. j \in 1..Len(pendq)
        <5>1. Len(pendq) \in Nat /\ k \in 1..Len(pendq)
          BY <1>5, <3>1, ZenonT(60)
        <5> QED BY <5>1, BelowInRange, ZenonT(60)
      <4>1. j \in 1..Len(pendq) /\ pendq'[j] = pendq[j]
        BY <1>6, <4>0, ZenonT(60)
      <4>2. block'[pendq[j]] = block[pendq[j]]
        BY <1>5, <1>7, <1>8, <4>1, ZenonT(60)
      <4>3. req'[pendq'[k]] = req[pendq[k]]
        BY <3>1, <3>2, ZenonT(60)
      <4>4. offset'[req'[pendq'[k]]] = offset[req[pendq[k]]]
        BY <3>4, <4>3, ZenonT(60)
      <4>5. block'[pendq'[j]] = block[pendq[j]]
        BY <4>1, <4>2, ZenonT(60)
      <4> QED BY <3>6, <4>4, <4>5, ZenonT(60)
    <3> QED BY <3>1, <3>2, <3>5, <3>6, SMTT(60) DEF BlockedBehind
  <2> QED BY <2>1, <2>2, SMTT(60)
<1>15. WorkerAwake'
  <2>1. CASE p \in Threads
    BY <1>1, <1>10, <2>1, Zenon DEF WorkerAwake, LockOwner
  <2>2. CASE p = Caller
    <3>1. \A u \in Threads : pc[u] # "exit" /\ pc'[u] # "exit"
      BY <1>1, <1>10, <2>2, Zenon DEF CloseOrder
    <3>2. CASE ~Follows(off)
      <4>1. CASE \E u \in Threads : pc[u] = "wait"
        BY <1>4, <3>2, <4>1, SMTT(60) DEF Signal, WorkerAwake, TypeOK
      <4>2. CASE \A u \in Threads : pc[u] # "wait"
        BY <1>10, <3>1, <4>2, BlockIfAssumption DEF WorkerAwake
      <4> QED BY <4>1, <4>2
    <3>3. CASE Follows(off)
      <4>1. PICK y \in Elems : Queued(y) \/ Busy(y)
        BY <3>3 DEF Follows
      <4>2. \E u \in Threads : pc[u] \notin {"wait", "exit"}
        <5>1. CASE Queued(y)
          BY <5>1, <1>5, SMTT(60) DEF WorkerAwake, Queued, Range
        <5>2. CASE Busy(y)
          <6>1. PICK u \in Threads : cur[u] = y
            BY <5>2, <4>1, SMTT(60) DEF WorkerElem
          <6> QED BY <4>1, <6>1, BlockIfAssumption, SMTT(60) DEF WorkerElem, Serving
        <5> QED BY <4>1, <5>1, <5>2
      <4> QED BY <1>4, <3>3, <4>2 DEF WorkerAwake
    <3> QED BY <3>2, <3>3, SMTT(60)
  <2> QED BY <2>1, <2>2, SMTT(60)
<1>16. OneCallback'
  <2>1. \A e \in Elems : Live(e)' <=> Live(e) \/ e = x
    <3>1. \A u \in Threads : pc'[u] \in {"io", "callback"} <=> pc[u] \in {"io", "callback"}
      BY <1>10
    <3> QED BY <1>1, <1>7, <1>9, <3>1, SMTT(60) DEF Live
  <2>2. ~Live(x)
    BY <1>7 DEF Live
  <2>3. \A e \in Elems : (Queued(e) \/ Busy(e))' <=> req'[e] # NoReq
    <3>1. r # NoReq
      BY <1>2, BlockIfAssumption, ZenonT(60)
    <3>2. \A e \in Elems : (Queued(e) \/ Busy(e)) <=> req[e] # NoReq
      BY ZenonT(60) DEF OneCallback
    <3> SUFFICES ASSUME NEW e \in Elems
                 PROVE  (Queued(e) \/ Busy(e))' <=> req'[e] # NoReq
      OBVIOUS
    <3>3. CASE e = x
      BY <1>8, <1>9, <3>1, <3>3, ZenonT(60)
    <3>4. CASE e # x
      BY <1>8, <1>9, <3>2, <3>4, ZenonT(60)
    <3> QED BY <3>3, <3>4
  <2>4. /\ r \in Requests /\ r \notin inflight /\ inflight' = inflight \cup {r}
        /\ \A e \in Elems : Live(e) => req[e] \in inflight
        /\ req'[x] = r /\ \A e \in Elems : e # x => req'[e] = req[e]
    <3>1. r \in Requests /\ r \notin inflight /\ inflight' = inflight \cup {r}
      BY <1>2, ZenonT(60)
    <3>2. \A e \in Elems : Live(e) => req[e] \in inflight
      BY ZenonT(60) DEF OneCallback
    <3>3. req'[x] = r /\ \A e \in Elems : e # x => req'[e] = req[e]
      BY <1>8, ZenonT(60)
    <3> QED BY <3>1, <3>2, <3>3, ZenonT(60)
  <2>5. \A e \in Elems : Live(e)' => req'[e] \in inflight'
    BY <2>1, <2>4
  <2>6. ASSUME NEW s \in inflight' PROVE \E e \in Elems : Live(e)' /\ req'[e] = s
    <3>1. CASE s = r
      BY <2>1, <2>4, <3>1
    <3>2. CASE s # r
      <4>1. PICK e \in Elems : Live(e) /\ req[e] = s
        BY <2>4, <3>2 DEF OneCallback
      <4> QED BY <2>1, <2>2, <2>4, <4>1, SMTT(60)
    <3> QED BY <3>1, <3>2
  <2>7. ASSUME NEW e \in Elems, NEW f \in Elems, Live(e)', Live(f)', req'[e] = req'[f]
        PROVE  e = f
    <3>1. CASE e # x /\ f # x
      BY <2>1, <2>4, <2>7, <3>1, SMTT(60) DEF OneCallback
    <3>2. CASE e = x \/ f = x
      BY <2>1, <2>4, <2>7, <3>2, SMTT(60)
    <3> QED BY <3>1, <3>2, SMTT(60)
  <2> QED BY <2>3, <2>5, <2>6, <2>7, SMTT(60) DEF OneCallback
<1>17. LockOwner'
  BY <1>1, <1>10, SMTT(60) DEF LockOwner
<1>18. CloseOrder'
  BY <1>1, <1>10 DEF CloseOrder
<1>19. CancelTarget'
  BY <1>1, <1>9 DEF CancelTarget
<1> QED BY <1>11, <1>12, <1>13, <1>14, <1>15, <1>16, <1>17, <1>18, <1>19

\* Every step of the specification preserves the invariant.
LEMMA NextIInv == IInv /\ [Next]_vars => IInv'
<1> SUFFICES ASSUME IInv, [Next]_vars PROVE IInv'
  OBVIOUS
<1>1. CASE UNCHANGED vars
  <2> USE <1>1 DEF vars, IInv
  <2>1. TypeOK' /\ QueueStatus' /\ BlockedBehind'
    BY SMTT(60) DEF TypeOK, QueueStatus, BlockedBehind, Queued, Busy
  <2>2. LockOwner' /\ WorkerAwake' /\ CancelTarget' /\ CloseOrder'
    BY SMTT(60) DEF LockOwner, WorkerAwake, CancelTarget, CloseOrder, Busy
  <2>3. WorkerElem' /\ OneCallback'
    BY DEF WorkerElem, OneCallback, Queued, Busy, Serving, Live
  <2> QED BY <2>1, <2>2, <2>3, SMTT(60)
<1>2. CASE Device
  <2>1. CASE \E r \in Requests : CancelPending(r)
    BY <2>1, CancelPendingStep
  <2>2. CASE CloseBroadcast
    BY <2>2, ControlStep
  <2> QED BY <1>2, <2>1, <2>2, DeviceStep DEF Device
<1>3. ASSUME NEW p \in Submitters, BlockifRequest(p) PROVE IInv'
  BY <1>3, RequestStep, BlockIfAssumption
<1>4. ASSUME NEW t \in Threads, Worker(t) PROVE IInv'
  BY <1>4, ControlStep, ProcStep, CallbackStep, DequeueStep, RecycleStep DEF Worker
<1> QED BY <1>1, <1>2, <1>3, <1>4 DEF Next, Closed

----------------------------------------------------------------------------
(* What holds of every execution.                                          *)

\* The invariant holds throughout.
THEOREM Invariance == Spec => []IInv
<1> QED BY InitIInv, NextIInv, PTL DEF Spec

\* Every variable keeps its type.
THEOREM TypeCorrect == Spec => []TypeOK
<1>1. IInv => TypeOK
  BY DEF IInv
<1> QED BY <1>1, Invariance, PTL

\* No wakeup is lost, for any number of workers, elements and requests.
THEOREM NoLostWakeup == Spec => []WorkerAwake
<1>1. IInv => WorkerAwake
  BY DEF IInv
<1> QED BY <1>1, Invariance, PTL

\* Every outstanding request has exactly one callback to come.
THEOREM ExactlyOneCallback == Spec => []OneCallback
<1>1. IInv => OneCallback
  BY DEF IInv
<1> QED BY <1>1, Invariance, PTL

\* A blocked request waits for one ahead of it or for a busy one.
THEOREM BlockingIsAcyclic == Spec => []BlockedBehind
<1>1. IInv => BlockedBehind
  BY DEF IInv
<1> QED BY <1>1, Invariance, PTL

\* Workers leave when nothing is queued, and what is outstanding is queued or with
\* a worker.
LEMMA DrainsFromInv == IInv => CloseDrains
<1> SUFFICES ASSUME IInv, \A t \in Threads : pc[t] = "exit" PROVE
      pendq = <<>> /\ inflight = {} /\ \A e \in Elems : status[e] = "FREE"
  BY DEF CloseDrains
<1>1. pendq = <<>> /\ \A e \in Elems : ~Queued(e)
  BY SMTT(60) DEF IInv, WorkerAwake, Queued, Range
<1>2. \A e \in Elems : ~Busy(e)
  BY BlockIfAssumption DEF IInv, WorkerElem, Serving
<1>3. \A e \in Elems : status[e] = "FREE"
  BY <1>1, <1>2, SMTT(60) DEF IInv, QueueStatus, Busy, TypeOK, BlockStat
<1>4. inflight = {}
  BY <1>1 DEF IInv, OneCallback, Live
<1> QED BY <1>1, <1>3, <1>4

\* When blockif_close has joined its workers nothing is queued or in flight.
THEOREM CloseLeavesNothing == Spec => []CloseDrains
<1> QED BY DrainsFromInv, Invariance, PTL
============================================================================
