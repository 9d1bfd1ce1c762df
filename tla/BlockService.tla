---------------------------- MODULE BlockService ----------------------------
(***************************************************************************)
(* What the block back end promises the device emulation: a request that   *)
(* has been accepted is queued until one worker serves it; a served        *)
(* request is delivered exactly once; a cancel that succeeds takes a       *)
(* request that no worker has begun to serve; the service shuts down only  *)
(* when nothing is queued and nobody serves.                               *)
(***************************************************************************)
CONSTANTS Requests, Workers, NoReq

VARIABLES queued,   \* accepted, not begun
          serving,  \* the request each worker serves
          open      \* the service has not shut down

svars == <<queued, serving, open>>

SInit ==
    /\ queued = {}
    /\ serving = [w \in Workers |-> NoReq]
    /\ open = TRUE

Submit(r) ==
    /\ open
    /\ r \in Requests \ queued
    /\ \A w \in Workers : serving[w] # r
    /\ queued' = queued \cup {r}
    /\ UNCHANGED <<serving, open>>

Begin(w, r) ==
    /\ r \in queued
    /\ serving[w] = NoReq
    /\ queued' = queued \ {r}
    /\ serving' = [serving EXCEPT ![w] = r]
    /\ UNCHANGED open

Deliver(w) ==
    /\ serving[w] # NoReq
    /\ serving' = [serving EXCEPT ![w] = NoReq]
    /\ UNCHANGED <<queued, open>>

CancelQueued(r) ==
    /\ r \in queued
    /\ queued' = queued \ {r}
    /\ UNCHANGED <<serving, open>>

Shut ==
    /\ open
    /\ queued = {}
    /\ \A w \in Workers : serving[w] = NoReq
    /\ open' = FALSE
    /\ UNCHANGED <<queued, serving>>

SNext ==
    \/ \E r \in Requests : Submit(r) \/ CancelQueued(r)
    \/ \E w \in Workers, r \in Requests : Begin(w, r)
    \/ \E w \in Workers : Deliver(w)
    \/ Shut

SSpec == SInit /\ [][SNext]_svars
=============================================================================
