------------------------------- MODULE MCAhci -------------------------------
(***************************************************************************)
(* The AHCI controller, model-checked side by side: a behaviour is one of  *)
(* a port and its commands (Ahci), of the interrupts (AhciIntr) or of one  *)
(* transfer (AhciIov), as which says.  They share no variable.             *)
(***************************************************************************)
EXTENDS Ahci

CONSTANTS NPorts, NMsgs, Causes, IovMax, Sect, MaxPrdt, MaxEntry, MaxLen

VARIABLES which,
          pis, pie, is, ghc_ie, lintr, nmsg, msi, drv, todo, seen,
          prdt, len, done, more, iov, aborted

I == INSTANCE AhciIntr
X == INSTANCE AhciIov

ivars == <<pis, pie, is, ghc_ie, lintr, nmsg, msi, drv, todo, seen>>
xvars == <<prdt, len, done, more, iov, aborted>>
allvars == <<which, vars, ivars, xvars>>

\* What the driver of a disk and of a CD-ROM asks for: requests of one and two
\* parts, queued or not, a trim with empty ranges, answers at once, refusals, and
\* a frame of another type.
MCDiskCmds ==
    {Cmd("READ_DMA", <<TRUE, TRUE>>), Cmd("READ_FPDMA", <<TRUE>>), Cmd("FLUSHCACHE", <<>>),
     Cmd("DSM_TRIM", <<TRUE, FALSE>>), Cmd("SEND_FPDMA_TRIM", <<FALSE>>), Cmd("ATA_IDENTIFY", <<>>),
     Cmd("READ_LOG_bad", <<>>), Cmd("SRST_set", <<>>), Cmd("SRST_clear", <<>>),
     Cmd("not_H2D", <<>>)}
MCCdCmds == {Cmd(op, <<>>) : op \in PacketOps \union {"ATAPI_IDENTIFY", "not_H2D"}} \union {Cmd("READ_10", <<TRUE, TRUE>>)}
MCAfterOverlap == {Cmd("READ_DMA", <<TRUE>>), Cmd("READ_10", <<TRUE>>)}

InPort(A) == which = "port" /\ A /\ UNCHANGED <<which, ivars, xvars>>
InIntr(A) == which = "intr" /\ A /\ UNCHANGED <<which, vars, xvars>>
InIov(A) == which = "iov" /\ A /\ UNCHANGED <<which, vars, ivars>>

\* The transfer's input varies only where the behaviour is one of the transfer,
\* the number of messages only where it is one of the interrupts.
MCInit ==
    /\ which \in {"port", "intr", "iov"}
    /\ Init /\ I!Init /\ X!Init
    /\ which # "port" => p.atapi = FALSE
    /\ which # "intr" => nmsg = 0
    /\ which # "iov" => prdt = <<1>> /\ len = Sect

MCNext == InPort(Next) \/ InIntr(I!Next) \/ InIov(X!Next)

\* The thread that stops a port goes on; block_if serves every request, and
\* its callback gets the mutex.
MCSpec ==
    /\ MCInit /\ [][MCNext]_allvars
    /\ WF_allvars(InPort(Stopping))
    /\ \A s \in Slots : SF_allvars(InPort(Serve(s)))

\* An enabled cause of a port reaches the driver, however its handler's reads
\* and writes fall between the port's events (ahci_port_intr, ahci_generate_intr).
CauseAnnounced == I!CauseAnnounced

\* The requests of a transfer are its bytes in order, in whole sectors, all of
\* them if the PRDT is long enough (ahci_build_iov).
TransferExact == X!TransferExact
=============================================================================
