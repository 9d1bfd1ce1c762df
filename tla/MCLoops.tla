------------------------------ MODULE MCLoops ------------------------------
(***************************************************************************)
(* The event loop and virtio parts, model-checked side by side: a          *)
(* behaviour is one of Mevent, of VirtioNet, of Vbsk (kernel back ends) or *)
(* of VqChain (descriptors), as which says; the others stand still in one  *)
(* initial state.  They share no variable.                                 *)
(***************************************************************************)
EXTENDS LoopParts

CONSTANTS QSize, IndexModulo, TableSize, VQ_MAX_DESCRIPTORS, NIov

VARIABLES which,
          desc, itable, hv_caps, last_avail, avail_idx, head, wpc, i, next, vdir, iov, ret

N == INSTANCE VirtioNet
V == INSTANCE Vbsk WITH vm <- kvm, MaxVms <- MaxBoots
Q == INSTANCE VqChain

qvars == <<desc, itable, hv_caps, last_avail, avail_idx, head, wpc, i, next, vdir, iov, ret>>
allvars == <<which, vars, nvars, vvars, qvars>>

InLoop(A) == which = "loop" /\ A /\ UNCHANGED <<which, nvars, vvars, qvars>>
InNet(A) == which = "net" /\ A /\ UNCHANGED <<which, vars, vvars, qvars>>
InVbsk(A) == which = "vbsk" /\ A /\ UNCHANGED <<which, vars, nvars, qvars>>
InChain(A) == which = "chain" /\ A /\ UNCHANGED <<which, vars, nvars, vvars>>

MCInit ==
    /\ which \in {"loop", "net", "vbsk", "chain"}
    /\ Init /\ N!Init /\ V!Init /\ Q!Init
    /\ which # "net" => ~msix
    /\ which # "vbsk" => kind = "rnd"
    /\ which # "chain" => desc = Q!Plain /\ hv_caps /\ head = 0 /\ last_avail = 0 /\ avail_idx = 0

MCNext == InLoop(Next) \/ InNet(N!Next) \/ InVbsk(V!Next) \/ InChain(Q!Next)

\* Fairness as in Mevent and VirtioNet; the others need none.
MCSpec ==
    /\ MCInit /\ [][MCNext]_allvars
    /\ WF_allvars(InLoop(IoStep)) /\ WF_allvars(InLoop(VmSuspendNotify))
    /\ SF_allvars(InNet(N!VcpuStep)) /\ SF_allvars(InNet(N!TxStep)) /\ SF_allvars(InNet(N!MainStep))

\* A chain offered to the running transmit thread is sent, whatever
\* notifications are suppressed (virtio_net_tx_thread); and a reset of a device
\* with MSI-X returns (virtio_net_reset).
NetAnswers == N!TxServed /\ N!ResetReturnsMsix

\* The walk over the descriptors of a request finds what they describe, and ends
\* with a refusal for tables that describe no request (vq_getchain).
ChainWalked == which = "chain" => Q!ChainWalked
============================================================================
