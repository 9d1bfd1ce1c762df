-------------------------------- MODULE Ahci --------------------------------
(***************************************************************************)
(* A port of the AHCI controller (ahci.c): the command list, native        *)
(* queued commands, the packet commands of a CD-ROM, stopping and          *)
(* resetting, against the completions of block_if.                         *)
(*                                                                         *)
(* p is the struct ahci_port as far as control goes: tfd is its BUSY and   *)
(* ERROR bits.  The interrupt status PxIS, and what becomes of it (PxIE,   *)
(* the global IS, MSI), is AhciIntr's.  p.cfis[s]                          *)
(* is the command table of slot s in guest memory; the code keeps a        *)
(* pointer to it and reads it again on completion.  p.spins: a thread is   *)
(* in the loop of ahci_handle_port for good.                               *)
(*                                                                         *)
(* Everything runs under the controller's mutex and is one step, except    *)
(* ahci_port_stop, which waits in blockif_cancel for requests a worker is  *)
(* busy with while it holds the mutex (stop).                              *)
(***************************************************************************)
EXTENDS Naturals, Sequences, SequencesExt, FiniteSets

CONSTANTS NSlots,    \* command slots the driver uses
          Reqs,      \* ioqsz: requests of the free list
          DiskCmds,  \* commands given to a disk
          CdCmds,    \* commands given to a CD-ROM
          AfterOverlap \* the ones given after an overlap (a bound)

\* blockif_queuesz leaves at least one request more than the slots (--slots).
ASSUME AhciAssumption == NSlots \in Nat \ {0} /\ Reqs \in Nat /\ Reqs > NSlots

VARIABLES p, stop, overlap

vars == <<p, stop, overlap>>

Slots == 0 .. NSlots - 1

NoCmd == [op |-> "none", work |-> <<>>]

\* A read or write in n block requests; a trim with ranges where work is TRUE.
Cmd(op, work) == [op |-> op, work |-> work]

Ncq(c) == c.op \in {"READ_FPDMA", "SEND_FPDMA_TRIM"}
Dsm(c) == c.op \in {"DSM_TRIM", "SEND_FPDMA_TRIM"}

\* An element of the busy list: the slot, how far the command is, whether
\* there is more, and where block_if has it (status of the blockif_elem).
Ioreq == [slot : Slots, done : Nat, more : BOOLEAN, blk : {"queued", "busy", "done", "err"}]

-----------------------------------------------------------------------------
(* Frames to the host *)

\* Nothing is recorded unless FIS reception is on; an error holds the port up.
ahci_write_fis(q, err) == IF q.fre THEN [q EXCEPT !.waitforclear = @ \/ err] ELSE q

ahci_write_fis_piosetup(q) == ahci_write_fis(q, FALSE)

\* Set Device Bits: the end of a queued command.
ahci_write_fis_sdb(q, slot, err) ==
    ahci_write_fis([q EXCEPT !.sact = IF err THEN @ ELSE @ \ {slot}, !.error = err], err)

\* Register D2H: the end of any other command.
ahci_write_fis_d2h(q, slot, err) ==
    ahci_write_fis([q EXCEPT !.ci = IF err THEN @ ELSE @ \ {slot}, !.busy = FALSE, !.error = err], err)

\* A queued command is accepted: the slot's issue bit is given back.
ahci_write_fis_d2h_ncq(q, slot) ==
    ahci_write_fis([q EXCEPT !.ci = @ \ {slot}, !.busy = FALSE, !.error = FALSE], FALSE)

ahci_write_reset_fis_d2h(q) == ahci_write_fis(q, FALSE)

-----------------------------------------------------------------------------
(* Stopping and resetting *)

\* Mutant: requests in flight are not waited for.
ahci_check_stoppedAtOnce(q) ==
    IF ~q.st
    THEN [q EXCEPT !.ccs = 0, !.cr = FALSE, !.ci = {}, !.sact = {}, !.waitforclear = FALSE]
    ELSE q

ahci_check_stopped(q) ==
    IF ~q.st /\ q.pending = {}
    THEN [q EXCEPT !.ccs = 0, !.cr = FALSE, !.ci = {}, !.sact = {}, !.waitforclear = FALSE]
    ELSE q

\* Requests in flight, issued commands and waitforclear stay.
ahci_port_reset(q) ==
    ahci_write_reset_fis_d2h([q EXCEPT !.sact = {}, !.busy = FALSE, !.error = FALSE])

\* The part of a controller reset that concerns the port.
ahci_reset(q) ==
    ahci_port_reset([q EXCEPT !.st = FALSE, !.fre = FALSE, !.cr = FALSE])

-----------------------------------------------------------------------------
(* Requests to block_if *)

\* A request leaves the free list (asserted not to be empty), the slot is
\* marked in flight and the request goes to the head of the busy list.
Submit(q, slot, done, more) ==
    [q EXCEPT !.pending = @ \union {slot},
              !.iobhd = <<[slot |-> slot, done |-> done, more |-> more, blk |-> "queued"]>> \o @]

\* ahci_build_iov takes the next piece of the transfer (see AhciIov).
ahci_handle_rw(q, slot, done) ==
    LET n == Len(q.cfis[slot].work)
        r == Submit(q, slot, done + 1, done + 1 < n)
    IN  IF Ncq(q.cfis[slot]) /\ done = 0 THEN ahci_write_fis_d2h_ncq(r, slot) ELSE r

ahci_handle_flush(q, slot) == Submit(q, slot, 0, FALSE)

\* The ranges of a trim from done on that are not empty.
Ranges(q, slot, done) == {k \in (done + 1) .. Len(q.cfis[slot].work) : q.cfis[slot].work[k]}

\* One request for each range; without a further one the command is complete.
ahci_handle_dsm_trim(q, slot, done) ==
    LET first == done = 0
        ncq == Ncq(q.cfis[slot])
        accept(r) == IF ncq /\ first THEN ahci_write_fis_d2h_ncq(r, slot) ELSE r
        k == CHOOSE k \in Ranges(q, slot, done) : \A m \in Ranges(q, slot, done) : k <= m
        finish == IF ncq THEN ahci_write_fis_sdb(accept(q), slot, FALSE)
                  ELSE ahci_write_fis_d2h(q, slot, FALSE)
    IN  IF Ranges(q, slot, done) = {}
        THEN ahci_check_stopped([finish EXCEPT !.pending = @ \ {slot}])
        ELSE accept(Submit(q, slot, k, k # Len(q.cfis[slot].work)))

\* A read of no blocks is answered at once and submitted all the same.
atapi_read(q, slot, done) ==
    LET n == Len(q.cfis[slot].work)
    IN  Submit(IF n = 0 THEN ahci_write_fis_d2h(q, slot, FALSE) ELSE q, slot, done + 1, done + 1 < n)

-----------------------------------------------------------------------------
(* Commands answered at once.  A command whose op ends in _bad is one the  *)
(* handler aborts, or refuses with a sense code (data, not kept here).     *)

abort(q, slot) == ahci_write_fis_d2h(q, slot, TRUE)
complete(q, slot) == ahci_write_fis_d2h(q, slot, FALSE)
refuse(q, slot) == ahci_write_fis_d2h(q, slot, TRUE)

handle_identify(q, slot) ==
    IF q.atapi THEN abort(q, slot) ELSE complete(ahci_write_fis_piosetup(q), slot)

handle_atapi_identify(q, slot) ==
    IF ~q.atapi THEN abort(q, slot) ELSE complete(ahci_write_fis_piosetup(q), slot)

ahci_handle_read_log(q, slot) ==
    IF q.atapi \/ q.cfis[slot].op = "READ_LOG_bad" THEN abort(q, slot)
    ELSE complete(ahci_write_fis_piosetup(q), slot)

SetFeatures(q, slot) ==
    IF q.cfis[slot].op = "SETFEATURES_bad" THEN abort(q, slot) ELSE complete(q, slot)

atapi_inquiry(q, slot) ==
    IF q.cfis[slot].op = "INQUIRY_bad" THEN refuse(q, slot) ELSE complete(q, slot)

atapi_read_capacity(q, slot) == complete(q, slot)

atapi_read_toc(q, slot) ==
    IF q.cfis[slot].op = "READ_TOC_bad" THEN refuse(q, slot) ELSE complete(q, slot)

atapi_report_luns(q, slot) == complete(q, slot)

atapi_request_sense(q, slot) == complete(q, slot)

atapi_start_stop_unit(q, slot) ==
    IF q.cfis[slot].op = "START_STOP_bad" THEN refuse(q, slot) ELSE complete(q, slot)

atapi_mode_sense(q, slot) ==
    CASE q.cfis[slot].op = "MODE_SENSE" -> complete(q, slot)
      [] q.cfis[slot].op = "MODE_SENSE_saved" -> refuse(q, slot)
      [] OTHER -> refuse(q, slot)

atapi_get_event_status_notification(q, slot) ==
    IF q.cfis[slot].op = "GET_EVENT_bad" THEN refuse(q, slot) ELSE complete(q, slot)

handle_packet_cmd(q, slot) ==
    LET op == q.cfis[slot].op IN
    CASE op \in {"TEST_UNIT_READY", "PREVENT_ALLOW"} -> complete(q, slot)
      [] op \in {"INQUIRY", "INQUIRY_bad"} -> atapi_inquiry(q, slot)
      [] op = "READ_CAPACITY" -> atapi_read_capacity(q, slot)
      [] op \in {"READ_TOC", "READ_TOC_bad"} -> atapi_read_toc(q, slot)
      [] op = "REPORT_LUNS" -> atapi_report_luns(q, slot)
      [] op = "READ_10" -> atapi_read(q, slot, 0)
      [] op = "REQUEST_SENSE" -> atapi_request_sense(q, slot)
      [] op \in {"START_STOP", "START_STOP_bad"} -> atapi_start_stop_unit(q, slot)
      [] op \in {"MODE_SENSE", "MODE_SENSE_saved", "MODE_SENSE_bad"} -> atapi_mode_sense(q, slot)
      [] op \in {"GET_EVENT", "GET_EVENT_bad"} -> atapi_get_event_status_notification(q, slot)
      [] OTHER -> refuse(q, slot)

PacketOps == {"TEST_UNIT_READY", "PREVENT_ALLOW", "INQUIRY", "INQUIRY_bad", "READ_CAPACITY", "READ_TOC",
              "READ_TOC_bad", "REPORT_LUNS", "READ_10", "REQUEST_SENSE", "START_STOP", "START_STOP_bad",
              "MODE_SENSE", "MODE_SENSE_saved", "MODE_SENSE_bad", "GET_EVENT", "GET_EVENT_bad", "packet_bad"}

-----------------------------------------------------------------------------
(* The command list *)

ahci_handle_cmd(r, slot) ==
    LET q == [r EXCEPT !.busy = TRUE]
        op == q.cfis[slot].op
    IN
    CASE op = "ATA_IDENTIFY" -> handle_identify(q, slot)
      [] op \in {"SETFEATURES", "SETFEATURES_bad"} -> SetFeatures(q, slot)
      [] op \in {"READ_DMA", "READ_FPDMA"} -> ahci_handle_rw(q, slot, 0)
      [] op = "FLUSHCACHE" -> ahci_handle_flush(q, slot)
      [] op \in {"DSM_TRIM", "SEND_FPDMA_TRIM"} -> ahci_handle_dsm_trim(q, slot, 0)
      [] op \in {"READ_LOG", "READ_LOG_bad"} -> ahci_handle_read_log(q, slot)
      [] op = "CHECK_POWER_MODE" -> complete(q, slot)
      [] op = "ATAPI_IDENTIFY" -> handle_atapi_identify(q, slot)
      [] op \in PacketOps -> IF q.atapi THEN handle_packet_cmd(q, slot) ELSE abort(q, slot)
      [] OTHER -> abort(q, slot)

\* A frame that is not Register H2D is left where it is.  One without the command
\* bit drives the software reset.
ahci_handle_slot(q, slot) ==
    CASE q.cfis[slot].op = "not_H2D" -> q
      [] q.cfis[slot].op = "SRST_set" -> [q EXCEPT !.reset = TRUE, !.ci = @ \ {slot}]
      [] q.cfis[slot].op = "SRST_clear" ->
            [(IF q.reset THEN ahci_port_reset([q EXCEPT !.reset = FALSE]) ELSE q) EXCEPT !.ci = @ \ {slot}]
      [] OTHER -> ahci_handle_cmd(q, slot)

\* Mutant: commands in flight are not passed over.
ReadyAll(q) == q.ci

\* Commands issued and not in flight.
Ready(q) == q.ci \ q.pending

\* The loop goes on while there is one, unless the device is busy or in error.
\* Twice round visits every slot; if it is not over then it never is, and its
\* thread keeps the mutex.
ahci_handle_port(q) ==
    LET over(r) == Ready(r) = {} \/ r.busy \/ r.waitforclear
        visit(r) == IF over(r) THEN r
                    ELSE [(IF r.ccs \in Ready(r) THEN ahci_handle_slot(r, r.ccs) ELSE r)
                            EXCEPT !.ccs = (r.ccs + 1) % NSlots]
        round[n \in 0 .. 2 * NSlots] == IF n = 0 THEN {q} ELSE {visit(r) : r \in round[n - 1]}
        end == CHOOSE r \in round[2 * NSlots] : TRUE
    IN  IF q.st THEN [end EXCEPT !.spins = ~over(end)] ELSE q

-----------------------------------------------------------------------------
Init ==
    /\ \E atapi \in BOOLEAN :
          p = [atapi |-> atapi, st |-> FALSE, fre |-> FALSE, cr |-> FALSE, busy |-> FALSE, error |-> FALSE,
               ci |-> {}, sact |-> {}, pending |-> {}, ccs |-> 0, waitforclear |-> FALSE, reset |-> FALSE,
               iobhd |-> <<>>, spins |-> FALSE, cfis |-> [s \in Slots |-> NoCmd]]
    /\ stop = [at |-> 0, clo |-> FALSE]
    /\ overlap = FALSE

Outstanding(q) == q.ci \union q.sact \union q.pending

\* The table of a slot that is not outstanding is not looked at any more.
Forget(q) == [q EXCEPT !.cfis = [s \in Slots |-> IF s \in Outstanding(q) THEN @[s] ELSE NoCmd]]

Unlocked == stop.at = 0 /\ ~p.spins

Commands == IF p.atapi THEN CdCmds ELSE DiskCmds

\* The driver issues a command in a slot it has not in use; for a queued command
\* it sets the active bit first, which nothing looks at in between.  It begins a
\* software reset on an idle port only.
WriteCi(s, c) ==
    /\ Unlocked /\ p.st /\ ~p.waitforclear
    /\ s \notin p.ci \union p.sact
    /\ overlap => c \in AfterOverlap
    /\ c.op \in {"SRST_set", "SRST_clear"} => Outstanding(p) = {}
    /\ p' = Forget(ahci_handle_port([p EXCEPT !.sact = IF Ncq(c) THEN @ \union {s} ELSE @,
                                              !.ci = @ \union {s}, !.cfis[s] = c]))
    /\ overlap' = (overlap \/ (c.op = "READ_10" /\ c.work = <<>>))
    /\ UNCHANGED stop

\* PxCMD with ST: the driver has switched FIS reception on before, and waits
\* until the port is not running and not busy.
WriteCmdStart ==
    /\ Unlocked /\ p.fre /\ ~p.cr /\ ~p.busy
    /\ p' = Forget(ahci_handle_port([p EXCEPT !.st = TRUE, !.cr = TRUE]))
    /\ UNCHANGED <<stop, overlap>>

\* PxCMD without ST, up to the loop of ahci_port_stop.  FIS reception is not
\* switched off while the port runs.
WriteCmdStop(fre, clo) ==
    /\ Unlocked
    /\ (p.st \/ p.cr) => fre = p.fre
    /\ p.st \/ p.cr \/ fre # p.fre \/ (clo /\ p.busy)
    /\ p' = [p EXCEPT !.st = FALSE, !.fre = fre]
    /\ stop' = [at |-> 1, clo |-> clo]
    /\ UNCHANGED overlap

\* The loop cancels the request at stop.at if no worker has it yet, waits if
\* one is busy with it, and passes over one that is about to call back.
ahci_port_stop ==
    /\ stop.at \in 1 .. Len(p.iobhd)
    /\ LET r == p.iobhd[stop.at] IN
       \/ /\ r.blk = "queued"
          /\ p' = [p EXCEPT !.sact = IF Ncq(p.cfis[r.slot]) THEN @ \ {r.slot} ELSE @,
                            !.ci = IF Ncq(p.cfis[r.slot]) THEN @ ELSE @ \ {r.slot},
                            !.pending = @ \ {r.slot},
                            !.iobhd = RemoveAt(@, stop.at)]
          /\ UNCHANGED stop
       \/ /\ r.blk \in {"done", "err"}
          /\ stop' = [stop EXCEPT !.at = @ + 1]
          /\ UNCHANGED p
    /\ UNCHANGED overlap

\* The rest of the write: ahci_check_stopped and the override of BUSY.
StopDone ==
    /\ stop.at > Len(p.iobhd)
    /\ LET q == ahci_check_stopped(p) IN p' = Forget([q EXCEPT !.busy = @ /\ ~stop.clo])
    /\ stop' = [at |-> 0, clo |-> FALSE]
    /\ UNCHANGED overlap

\* PxSCTL with DET: a port reset unless the port is started.
WriteSctl ==
    /\ Unlocked /\ ~p.st
    /\ p' = Forget(ahci_port_reset(p))
    /\ overlap' = (overlap \/ p.pending # {})
    /\ UNCHANGED stop

\* GHC with HR: a controller reset.
WriteGhcReset ==
    /\ Unlocked
    /\ p' = Forget(ahci_reset(p))
    /\ overlap' = (overlap \/ p.pending # {})
    /\ UNCHANGED stop

\* block_if: a worker takes a request and ends it, well or not.
Worker(i) ==
    /\ \/ p.iobhd[i].blk = "queued" /\ p' = [p EXCEPT !.iobhd[i].blk = "busy"]
       \/ p.iobhd[i].blk = "busy" /\ \E b \in {"done", "err"} : p' = [p EXCEPT !.iobhd[i].blk = b]
    /\ UNCHANGED <<stop, overlap>>

-----------------------------------------------------------------------------
(* Completions, on the workers' threads *)

\* The request goes back to the free list before anything else.
Taken(i) == [p EXCEPT !.iobhd = RemoveAt(@, i)]

\* Mutant: the next command is not issued.
CompletedOnly(q, slot) == ahci_check_stopped([q EXCEPT !.pending = @ \ {slot}])

\* The command of the slot is complete: look for the next.
Completed(q, slot) == ahci_handle_port(ahci_check_stopped([q EXCEPT !.pending = @ \ {slot}]))

ata_ioreq_cb(i) ==
    LET r == p.iobhd[i]
        q == Taken(i)
        err == r.blk = "err"
        c == p.cfis[r.slot]
        trim == ahci_handle_dsm_trim(q, r.slot, r.done)
    IN
    /\ Unlocked /\ ~p.atapi /\ r.blk \in {"done", "err"}
    /\ p' = Forget(
         IF ~err /\ r.more
         THEN IF Dsm(c) THEN IF Ranges(q, r.slot, r.done) = {} THEN ahci_handle_port(trim) ELSE trim
              ELSE ahci_handle_rw(q, r.slot, r.done)
         ELSE Completed(IF Ncq(c) THEN ahci_write_fis_sdb(q, r.slot, err)
                        ELSE ahci_write_fis_d2h(q, r.slot, err), r.slot))
    /\ UNCHANGED <<stop, overlap>>

atapi_ioreq_cb(i) ==
    LET r == p.iobhd[i]
        q == Taken(i)
        err == r.blk = "err"
    IN
    /\ Unlocked /\ p.atapi /\ r.blk \in {"done", "err"}
    /\ p' = Forget(
         IF ~err /\ r.more THEN atapi_read(q, r.slot, r.done)
         ELSE Completed(IF err THEN refuse(q, r.slot) ELSE complete(q, r.slot), r.slot))
    /\ UNCHANGED <<stop, overlap>>

-----------------------------------------------------------------------------
Guest ==
    \/ \E s \in Slots : \E c \in Commands : WriteCi(s, c)
    \/ WriteCmdStart \/ WriteSctl \/ WriteGhcReset
    \/ \E fre, clo \in BOOLEAN : WriteCmdStop(fre, clo)

Stopping == ahci_port_stop \/ StopDone

Callback(i) == ata_ioreq_cb(i) \/ atapi_ioreq_cb(i)

Next ==
    \/ Guest \/ Stopping
    \/ \E i \in DOMAIN p.iobhd : Worker(i) \/ Callback(i)

\* The request of slot s, wherever it is on the list, is carried on.
Serve(s) == \E i \in DOMAIN p.iobhd : p.iobhd[i].slot = s /\ (Worker(i) \/ Callback(i))

\* The thread that stops goes on; block_if serves every request, and its
\* callback gets the mutex.
Spec ==
    /\ Init /\ [][Next]_vars
    /\ WF_vars(Stopping)
    /\ \A s \in Slots : SF_vars(Serve(s))

-----------------------------------------------------------------------------
\* Type invariant of the port.
TypeOK ==
    /\ p.ci \subseteq Slots /\ p.sact \subseteq Slots /\ p.pending \subseteq Slots
    /\ p.ccs \in Slots
    /\ \A i \in DOMAIN p.iobhd : p.iobhd[i] \in Ioreq
    /\ stop.at \in Nat /\ overlap \in BOOLEAN

\* A slot is in flight exactly if one request of the busy list is for it, so
\* that the free list never runs out (the assertions of ahci_handle_rw and the
\* others): neither cancelling nor completing nor issuing again loses or
\* doubles a request.
OneRequestPerSlot ==
    /\ TypeOK
    /\ p.pending = {p.iobhd[i].slot : i \in DOMAIN p.iobhd}
    /\ Len(p.iobhd) = Cardinality(p.pending)

\* What the driver sees as ended (neither issued nor active, PxCI and PxSACT)
\* no thread transfers for any more: its buffers are free.  This is for a port
\* not reset while a request was in flight and not given a packet read of no
\* blocks (overlap).  Nor is the list shown as stopped while one is in flight: "If we
\* are no longer processing the command list and nothing is in-flight, clear the
\* running bit" (ahci_check_stopped).
DoneMeansQuiet ==
    ~overlap => /\ p.pending \subseteq p.ci \union p.sact
                /\ p.pending # {} => p.cr

\* A port told to stop does stop, whatever block_if was doing: the driver waits
\* for PxCMD.CR to clear.
StopReturns == ~p.st ~> (~p.cr \/ p.st)

\* A command issued to a running port ends, or the port reports an error, or
\* the driver stops it: no completion forgets to look for the next command
\* (Completed).  Only a frame that is not Register H2D keeps the loop of
\* ahci_handle_port from ending; then it never does.
CommandEnds ==
    /\ [](p.spins => \E s \in Ready(p) : p.cfis[s].op = "not_H2D")
    /\ \A s \in Slots : (p.st /\ s \in p.ci) ~>
           (s \notin p.ci \union p.sact \/ ~p.st \/ p.waitforclear \/ overlap \/ p.spins)

\* What the driver waits for comes: the end of a command and of a stop.
CommandsEnd == StopReturns /\ CommandEnds
=============================================================================
