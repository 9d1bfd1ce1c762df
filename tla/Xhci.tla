-------------------------------- MODULE Xhci --------------------------------
(***************************************************************************)
(* The xHCI controller (xhci.c) with its USB mice (usb_mouse.c): the event *)
(* ring in guest memory, the commands that move slots and endpoints, the   *)
(* control transfers of endpoint 0, the ports, and the interrupt.          *)
(*                                                                         *)
(* x is struct pci_xhci_vdev as far as control goes, x.ring the event ring *)
(* and x.dev[s] a device with its slot, where ctx, ep1 and ep2 are what    *)
(* the output context in guest memory says of the slot, of endpoint 0 and  *)
(* of the interrupt endpoint, xfer1 and xfer2 are whether these have an    *)
(* ep_xfer, ring2 is whether the latter has a ring, left2 whether its      *)
(* ep_xfer holds a transfer that did not end, and tds are the control      *)
(* requests in the ring from ep_ringaddr on.  (Unless the endpoint is      *)
(* disabled its context repeats ep_ringaddr, in qwEpCtx2.)                 *)
(* g is the driver.  Every register write is one step: it runs under       *)
(* xdev->mtx.  Nothing in the repository calls console_ptr_event, so no    *)
(* other thread enters the controller.                                     *)
(***************************************************************************)
EXTENDS Integers, Sequences, SequencesExt

CONSTANTS RingSize,  \* entries of the event ring
          NDevices,  \* ndevices: USB 3 devices, on ports and slots 1 .. NDevices
          Batches,   \* sequences of commands the driver rings for at once
          Requests   \* sequences of control requests it rings for at once

ASSUME XhciAssumption == RingSize \in Nat \ {0, 1} /\ NDevices \in Nat \ {0}

VARIABLES x, g, hung

vars == <<x, g, hung>>

Devs == 1 .. NDevices
Idx == 0 .. RingSize - 1

Ev(kind, s) == [kind |-> kind, slot |-> s]
Empty == [ev |-> Ev("none", 0), cycle |-> 0]

-----------------------------------------------------------------------------
(* Interrupt and event ring *)

\* Mutant: no new message while the driver has not written ERDP (BUSY).
pci_xhci_assert_interruptOnce(q) ==
    [q EXCEPT !.busy = TRUE, !.msi = @ \/ (q.inte /\ q.iena /\ ~q.busy), !.deaf = @ \/ ~(q.inte /\ q.iena)]

\* A message each time, if it is permitted; deaf remembers that one was not.
pci_xhci_assert_interrupt(q) ==
    [q EXCEPT !.busy = TRUE, !.msi = @ \/ (q.inte /\ q.iena), !.deaf = @ \/ ~(q.inte /\ q.iena)]

If(c, f, q) == IF c THEN f ELSE q

\* Mutant: the producer's cycle state is not toggled on a wrap.
StoreStill(q, e) ==
    [q EXCEPT !.ring[q.enq] = [ev |-> e, cycle |-> q.pcs], !.enq = (@ + 1) % RingSize]

\* Writes the event with the producer's cycle bit.
Store(q, e) ==
    [q EXCEPT !.ring[q.enq] = [ev |-> e, cycle |-> q.pcs], !.enq = (@ + 1) % RingSize,
              !.pcs = IF (q.enq + 1) % RingSize = 0 THEN 1 - @ ELSE @]

\* The last free entry is used without counting it, unless its cycle bit says
\* that it is taken: then it gets an error instead, always with an interrupt.  It
\* never does, so a further event overwrites the oldest.  lost tells a full ring
\* from an event refused before that; out is what the driver has still to take.
pci_xhci_insert_event(q, e, do_intr) ==
    LET last == q.cnt = RingSize - 1
        taken == last /\ q.ring[q.enq].cycle = q.pcs
        full == Len(q.out) >= RingSize
        refused == [q EXCEPT !.err = TRUE, !.lost = IF full THEN "full" ELSE "early"]
        r == IF q.cnt >= RingSize THEN refused
             ELSE IF taken
             THEN [refused EXCEPT !.ring[q.enq] = [ev |-> Ev("full", 0), cycle |-> q.pcs],
                                  !.enq = (@ + 1) % RingSize, !.cnt = @ + 1]
             ELSE [Store(q, e) EXCEPT !.cnt = IF last THEN @ ELSE @ + 1, !.err = FALSE,
                                      !.lost = IF full THEN "full" ELSE @, !.out = Append(@, e)]
    IN  If(do_intr \/ taken, pci_xhci_assert_interrupt(r), r)

-----------------------------------------------------------------------------
(* Commands; the answer is in q.code.  Beside its slot a command names an  *)
(* endpoint: 1 is endpoint 0, 2 the interrupt endpoint, 0 a number out of  *)
(* range.  Its fault is what the handler stumbles over: an input context   *)
(* that will not do, a slot without a context, no memory.                  *)

Answer(q, code) == [q EXCEPT !.code = code]

\* The first device whose slot is off.
pci_xhci_cmd_enable_slot(q) ==
    LET free == {s \in Devs : q.dev[s].state = "DISABLED"}
        s == CHOOSE i \in free : \A j \in free : i <= j
    IN  IF free = {} THEN [Answer(q, "NO_SLOTS") EXCEPT !.got = 0]
        ELSE [Answer(q, "SUCCESS") EXCEPT !.dev[s].state = "ENABLED", !.got = s]

\* The endpoints keep what they have.
pci_xhci_cmd_disable_slot(q, s) ==
    IF q.dev[s].state = "DISABLED" THEN Answer(q, "SLOT_NOT_ON")
    ELSE [Answer(q, "SUCCESS") EXCEPT !.dev[s].state = "DISABLED"]

pci_xhci_reset_slot(q, s) == [q EXCEPT !.dev[s].state = "DISABLED"]

\* The context says default, but the slot is then reset as well.
pci_xhci_cmd_reset_device(q, s) ==
    IF q.dev[s].state = "DISABLED" THEN pci_xhci_reset_slot(Answer(q, "SLOT_NOT_ON"), s)
    ELSE IF q.dev[s].ctx = "none" THEN [Answer(q, "SLOT_NOT_ON") EXCEPT !.dev[s].state = "DEFAULT"]
    ELSE pci_xhci_reset_slot([Answer(q, "SUCCESS") EXCEPT !.dev[s].ctx = "DEFAULT", !.dev[s].ep2 = "DISABLED"], s)

\* What pci_xhci_init_ep cannot have is memory for an ep_xfer.
NoMemory(c, xfer) == c.fault = "nomem" /\ ~xfer

\* Endpoint 0 gets its ring and its ep_xfer.  ue_reset does not fail.
pci_xhci_cmd_address_device(q, c) ==
    LET s == c.slot
        r == [q EXCEPT !.dev[s].ctx = "ADDRESSED", !.dev[s].ep1 = "RUNNING", !.dev[s].tds = <<>>]
    IN  IF c.fault = "input" THEN Answer(q, "TRB")
        ELSE IF c.fault = "noctx" THEN Answer(q, "CONTEXT_STATE")
        ELSE IF NoMemory(c, q.dev[s].xfer1) THEN Answer(r, "INCOMPAT_DEV")
        ELSE [Answer(r, "SUCCESS") EXCEPT !.dev[s].state = "ADDRESSED", !.dev[s].xfer1 = TRUE]

\* Mutant: the transfer state goes, the context still says that it runs.
pci_xhci_disable_epQuietly(q, s) ==
    [q EXCEPT !.dev[s].xfer2 = FALSE, !.dev[s].ring2 = FALSE, !.dev[s].left2 = FALSE]

pci_xhci_disable_ep(q, s) ==
    [q EXCEPT !.dev[s].ep2 = "DISABLED", !.dev[s].xfer2 = FALSE, !.dev[s].ring2 = FALSE, !.dev[s].left2 = FALSE]

pci_xhci_init_ep(q, s) == [q EXCEPT !.dev[s].ring2 = TRUE, !.dev[s].xfer2 = TRUE]

\* op: deconfigure; drop, add, or drop and add the interrupt endpoint.
pci_xhci_cmd_config_ep(q, c) ==
    LET s == c.slot
        deconf == [q EXCEPT !.dev[s].state = "ADDRESSED"]
        drop == If(c.op \in {"drop", "both"}, pci_xhci_disable_ep(q, s), q)
        adds == c.op \in {"add", "both"}
        add == If(adds, [pci_xhci_init_ep(drop, s) EXCEPT !.dev[s].ep2 = "RUNNING"], drop)
    IN  IF c.op = "deconfigure"
        THEN IF q.dev[s].ctx = "none" THEN Answer(deconf, "TRB")
             ELSE pci_xhci_disable_ep([Answer(deconf, "SUCCESS") EXCEPT !.dev[s].ctx = "ADDRESSED"], s)
        ELSE IF q.dev[s].state \notin {"ADDRESSED", "CONFIGURED"} THEN Answer(q, "SLOT_NOT_ON")
        ELSE IF adds /\ NoMemory(c, drop.dev[s].xfer2) THEN pci_xhci_disable_ep(Answer(drop, "RESOURCE"), s)
        ELSE [Answer(add, "SUCCESS") EXCEPT !.dev[s].state = "CONFIGURED", !.dev[s].ctx = "CONFIGURED"]

\* Reset and stop of an endpoint, configured or not; the ring stays where it is.
pci_xhci_cmd_reset_ep(q, c) ==
    LET s == c.slot
        r == Answer(q, "SUCCESS")
    IN  CASE c.ep = 0 -> Answer(q, "TRB")
          [] c.ep = 1 -> [r EXCEPT !.dev[s].ep1 = "STOPPED"]
          [] c.ep = 2 -> [r EXCEPT !.dev[s].ep2 = "STOPPED", !.dev[s].left2 = FALSE]

\* The driver moves the ring of an endpoint, for endpoint 0 past what it has
\* given up.
pci_xhci_cmd_set_tr(q, c) ==
    LET s == c.slot
        r == Answer(q, "SUCCESS")
        stopped == {"STOPPED", "ERROR"}
    IN  CASE c.ep = 0 -> Answer(q, "TRB")
          [] c.ep = 1 /\ q.dev[s].ep1 \in stopped -> [r EXCEPT !.dev[s].ep1 = "STOPPED", !.dev[s].tds = <<>>]
          [] c.ep = 2 /\ q.dev[s].ep2 \in stopped -> [r EXCEPT !.dev[s].ep2 = "STOPPED", !.dev[s].ring2 = TRUE]
          [] OTHER -> Answer(q, "CONTEXT_STATE")

\* Latency, interrupter and packet size: data.
pci_xhci_cmd_eval_ctx(q, c) ==
    Answer(q, IF c.fault = "input" THEN "TRB" ELSE IF q.dev[c.slot].ctx = "none" THEN "CMD_ABORTED" ELSE "SUCCESS")

Execute(q, c) ==
    CASE c.op = "ENABLE_SLOT" -> pci_xhci_cmd_enable_slot(q)
      [] c.op = "DISABLE_SLOT" -> pci_xhci_cmd_disable_slot(q, c.slot)
      [] c.op = "RESET_DEVICE" -> pci_xhci_cmd_reset_device(q, c.slot)
      [] c.op = "ADDRESS_DEVICE" -> pci_xhci_cmd_address_device(q, c)
      [] c.op \in {"add", "drop", "both", "deconfigure"} -> pci_xhci_cmd_config_ep(q, c)
      [] c.op \in {"RESET_EP", "STOP_EP"} -> pci_xhci_cmd_reset_ep(q, c)
      [] c.op = "SET_TR_DEQUEUE" -> pci_xhci_cmd_set_tr(q, c)
      [] c.op = "EVALUATE_CTX" -> pci_xhci_cmd_eval_ctx(q, c)
      [] OTHER -> Answer(q, "SUCCESS")

\* Every command up to the cycle bit is answered, even if the ring is full.
pci_xhci_complete_commands(q, cmds) ==
    FoldLeft(LAMBDA r, c : pci_xhci_insert_event(Execute(r, c), Ev("cmd", c.slot), TRUE), q, cmds)

-----------------------------------------------------------------------------
(* Control requests and transfers *)

\* A request is r.req with r.arg, what it names; r.more says that it asks for
\* more bytes than there are.  One that is not made of the stages it should be is
\* "malformed".  Descriptors, and the rest of the standard and class requests,
\* that the mouse refuses:
DescriptorRefused(r) == r.req = "GET_DESCRIPTOR" /\ r.arg \notin {"DEVICE", "CONFIG", "STRING", "BOS", "REPORT"}

Refused(r) ==
    \/ r.req \notin {"GET_CONFIG", "GET_DESCRIPTOR", "GET_INTERFACE", "GET_STATUS", "GET_REPORT", "GET_IDLE", "GET_PROTOCOL",
                     "SET_ADDRESS", "SET_CONFIG", "SET_DESCRIPTOR", "SET_INTERFACE", "SET_SEL", "SET_FEATURE", "CLEAR_FEATURE",
                     "SET_REPORT", "SET_IDLE", "SET_PROTOCOL", "ISOCH_DELAY", "SYNCH_FRAME"}
    \/ r.req = "GET_INTERFACE" /\ r.arg # "0"
    \/ r.req = "GET_REPORT" /\ r.arg # "INPUT"
    \/ r.req \in {"SET_FEATURE", "CLEAR_FEATURE"} /\ r.arg \in {"INTERFACE", "ENDPOINT"}

umouse_request(r) ==
    IF DescriptorRefused(r) \/ Refused(r) THEN "IOERROR" ELSE IF r.more THEN "SHORT_XFER" ELSE "NORMAL_COMPLETION"

Accepted(r) == umouse_request(r) \in {"NORMAL_COMPLETION", "SHORT_XFER"}

\* The event of a request is that of its status stage.  The ring moves on
\* first.  Whether the data was short is not told: err starts as SUCCESS.
pci_xhci_xfer_complete(w, s, k) ==
    LET r == pci_xhci_insert_event(w.q, Ev("td", s), FALSE)
    IN  [q |-> pci_xhci_assert_interrupt(r), next |-> k, stop |-> r.err]

Malformed(r) == r.req = "malformed"

\* One round of the retry loop.  A refused request has no event and does not
\* move the ring; nor does a malformed one, and nothing after it is looked at.
Visit(w, s, k) ==
    LET r == w.q.dev[s].tds[k]
    IN  IF w.stop THEN w
        ELSE IF Malformed(r) THEN [w EXCEPT !.stop = TRUE]
        ELSE IF Accepted(r) THEN pci_xhci_xfer_complete(w, s, k) ELSE w

\* Endpoint 0: request after request until the cycle bit changes.
pci_xhci_handle_transfer(q, s) ==
    LET n == Len(q.dev[s].tds)
        first == [q |-> [q EXCEPT !.dev[s].ep1 = "RUNNING"], next |-> 0, stop |-> FALSE]
        last == FoldLeft(LAMBDA w, k : Visit(w, s, k), first, [k \in 1 .. n |-> k])
    IN  [last.q EXCEPT !.dev[s].tds = SubSeq(@, last.next + 1, n)]

-----------------------------------------------------------------------------
(* Ports and operational registers *)

pci_xhci_reset_port(q, s) ==
    pci_xhci_insert_event([q EXCEPT !.port[s] = "U0"], Ev("port", s), TRUE)

\* The link of a powered port.  Leaving U3 is told, entering it is not.
pci_xhci_portregs_write(q, s, pls) ==
    LET r == [q EXCEPT !.port[s] = pls]
    IN  If(pls = "U0" /\ q.port[s] = "U3", pci_xhci_insert_event(r, Ev("port", s), TRUE), r)

pci_xhci_reset(q) ==
    [q EXCEPT !.enq = 0, !.cnt = 0, !.pcs = 1, !.dev = [s \in Devs |-> [@[s] EXCEPT !.state = "DISABLED"]]]

\* Running from stop tells every port, and stops at a full ring; the interrupt
\* is permitted by the register before the write.
pci_xhci_usbcmd_write(q, rs, inte, hcrst) ==
    LET start == rs /\ ~q.rs
        tell == FoldLeft(LAMBDA r, s : IF r.err THEN r
                                       ELSE pci_xhci_insert_event([r EXCEPT !.port[s] = "U0"], Ev("port", s), FALSE),
                         [q EXCEPT !.err = FALSE, !.rs = TRUE], [s \in Devs |-> s])
        run == IF start THEN tell ELSE [q EXCEPT !.rs = rs]
        reset == If(hcrst, pci_xhci_reset(run), run)
    IN  [If(start, pci_xhci_assert_interrupt(reset), reset) EXCEPT !.inte = inte]

-----------------------------------------------------------------------------
(* The driver's steps; each write ends with the transient results dropped *)

Done(q) == [q EXCEPT !.code = "SUCCESS", !.got = 0, !.err = FALSE]

Init ==
    /\ x = [rs |-> FALSE, inte |-> FALSE, iena |-> FALSE, busy |-> FALSE, msi |-> FALSE, deaf |-> FALSE,
            ring |-> [i \in Idx |-> Empty], enq |-> 0, cnt |-> 0, pcs |-> 1, out |-> <<>>, lost |-> "no",
            err |-> FALSE, code |-> "SUCCESS", got |-> 0,
            port |-> [s \in Devs |-> "U0"],
            dev |-> [s \in Devs |-> [state |-> "DISABLED", ctx |-> "none", ep1 |-> "DISABLED",
                                     ep2 |-> "DISABLED", xfer1 |-> FALSE, xfer2 |-> FALSE,
                                     ring2 |-> FALSE, left2 |-> FALSE, tds |-> <<>>]]]
    /\ g = [deq |-> 0, ccs |-> 1, erdp |-> 0, handler |-> "idle", cmds |-> 0, wait |-> [s \in Devs |-> 0],
            held |-> {}, reset |-> {}, stray |-> {}, ready |-> TRUE]
    /\ hung = "no"

\* The driver runs the controller with a ring of its own, and halts it.
WriteUsbcmd ==
    \E rs, inte \in BOOLEAN :
        /\ rs => g.ready
        /\ <<rs, inte>> # <<x.rs, x.inte>> /\ (x.rs \/ g.held # {} \/ x.out # <<>> => inte = x.inte)
        /\ x' = Done(pci_xhci_usbcmd_write(x, rs, inte, FALSE))
        /\ UNCHANGED <<g, hung>>

\* A halted controller is reset; the driver forgets slots, commands and requests.
WriteHcrst ==
    /\ ~x.rs /\ g.handler = "idle"
    /\ LET q == pci_xhci_usbcmd_write(x, FALSE, FALSE, TRUE)
       IN  x' = Done([q EXCEPT !.out = <<>>, !.msi = FALSE, !.deaf = FALSE,
                               !.dev = [s \in Devs |-> [@[s] EXCEPT !.ctx = "none", !.ep1 = "DISABLED",
                                                                    !.ep2 = "DISABLED", !.tds = <<>>]]])
    /\ g' = [g EXCEPT !.cmds = 0, !.wait = [s \in Devs |-> 0], !.held = {}, !.reset = {}, !.stray = {},
                      !.ready = FALSE]
    /\ UNCHANGED hung

\* ERSTBA: a zeroed ring; the cycle state is left as the reset put it.
WriteErstba ==
    /\ ~g.ready
    /\ x' = [x EXCEPT !.ring = [i \in Idx |-> Empty], !.enq = 0, !.cnt = 0]
    /\ g' = [g EXCEPT !.deq = 0, !.ccs = 1, !.erdp = 0, !.ready = TRUE]
    /\ UNCHANGED hung

\* Interrupts are permitted and forbidden when the controller is set up.
WriteIman ==
    /\ ~x.rs /\ g.held = {} /\ x.out = <<>>
    /\ x' = [x EXCEPT !.iena = ~@]
    /\ UNCHANGED <<g, hung>>

\* The driver's interrupt handler: it takes events while the cycle bit matches,
\* and then writes the low and the high half of ERDP.
Interrupt ==
    /\ x.msi /\ g.handler = "idle"
    /\ x' = [x EXCEPT !.msi = FALSE]
    /\ g' = [g EXCEPT !.handler = "take"]
    /\ UNCHANGED hung

Taking(e) ==
    [g EXCEPT !.deq = (@ + 1) % RingSize, !.ccs = IF (g.deq + 1) % RingSize = 0 THEN 1 - @ ELSE @,
              !.cmds = IF e.kind = "cmd" /\ @ > 0 THEN @ - 1 ELSE @,
              !.wait = [s \in Devs |-> IF e = Ev("td", s) /\ @[s] > 0 THEN @[s] - 1 ELSE @[s]]]

\* What an entry said is forgotten once the driver has read it.
TakeEvent ==
    /\ g.handler = "take" /\ x.ring[g.deq].cycle = g.ccs
    /\ g' = Taking(x.ring[g.deq].ev)
    /\ x' = [x EXCEPT !.out = IF @ = <<>> THEN @ ELSE Tail(@), !.ring[g.deq].ev = Empty.ev]
    /\ UNCHANGED hung

WriteErdpLo ==
    /\ g.handler = "take" /\ x.ring[g.deq].cycle # g.ccs
    /\ x' = [x EXCEPT !.busy = FALSE]
    /\ g' = [g EXCEPT !.handler = "half", !.erdp = g.deq]
    /\ UNCHANGED hung

WriteErdpHi ==
    /\ g.handler = "half"
    /\ x' = [x EXCEPT !.cnt = IF @ = 0 THEN 0
                              ELSE IF g.erdp <= x.enq THEN x.enq - g.erdp ELSE RingSize - (g.erdp - x.enq)]
    /\ g' = [g EXCEPT !.handler = "idle", !.erdp = 0]
    /\ UNCHANGED hung

\* A driver's command: for a slot it has been given; endpoints are commanded
\* once the device has an address.
Sensible(c) ==
    \/ c.slot = 0
    \/ /\ c.slot \in g.held
       /\ \/ c.op \in {"ADDRESS_DEVICE", "DISABLE_SLOT", "RESET_DEVICE", "EVALUATE_CTX", "deconfigure"}
          \/ x.dev[c.slot].ctx # "none"
       /\ c.fault = "noctx" => x.dev[c.slot].ctx = "none"
       /\ c.op = "SET_TR_DEQUEUE" /\ c.ep = 1 => g.wait[c.slot] = 0

\* The ones after which device and context part: an endpoint is stopped that was
\* not configured, a slot deconfigured that has no context, or there is no memory
\* for endpoint 0.
Strays(c) ==
    \/ c.op \in {"RESET_EP", "STOP_EP"} /\ c.ep = 2 /\ x.dev[c.slot].ep2 = "DISABLED"
    \/ c.op = "deconfigure" /\ x.dev[c.slot].ctx = "none"
    \/ c.op = "ADDRESS_DEVICE" /\ NoMemory(c, x.dev[c.slot].xfer1)

\* What the driver makes of the answer: it frees the contexts of a disabled slot.
Op(cmds, op) == {cmds[i].slot : i \in {j \in DOMAIN cmds : cmds[j].op = op}}
Disabled(cmds, s) == s \in Op(cmds, "DISABLE_SLOT")
Addressed(q, cmds) == IF q.code = "SUCCESS" THEN Op(cmds, "ADDRESS_DEVICE") ELSE {}

CommandDoorbell ==
    \E cmds \in Batches :
        /\ x.rs /\ g.cmds = 0 /\ \A i \in DOMAIN cmds : Sensible(cmds[i])
        /\ LET q == pci_xhci_complete_commands(x, cmds)
               strays == {cmds[i].slot : i \in {j \in DOMAIN cmds : Strays(cmds[j])}}
           IN  /\ x' = Done([q EXCEPT !.dev = [s \in Devs |-> IF Disabled(cmds, s)
                                THEN [@[s] EXCEPT !.ctx = "none", !.ep1 = "DISABLED", !.ep2 = "DISABLED", !.tds = <<>>]
                                ELSE @[s]]])
               /\ g' = [g EXCEPT !.cmds = Len(cmds),
                                 !.held = (@ \union ({q.got} \ {0})) \ Op(cmds, "DISABLE_SLOT"),
                                 !.reset = (@ \union Op(cmds, "RESET_DEVICE")) \ (Addressed(q, cmds) \union {q.got}),
                                 !.stray = (@ \union strays) \ Op(cmds, "DISABLE_SLOT"),
                                 !.wait = [s \in Devs |-> IF Disabled(cmds, s) THEN 0 ELSE @[s]]]
        /\ UNCHANGED hung

\* The requests before a malformed one.
Reached(rs) == LET m == SelectInSeq(rs, Malformed) IN IF m = 0 THEN rs ELSE SubSeq(rs, 1, m - 1)

\* The code looks at the ep_xfer without asking whether there is one.
ControlDoorbell(s) ==
    \E rs \in Requests :
        /\ x.rs /\ s \in g.held /\ x.dev[s].ep1 # "DISABLED" /\ g.wait[s] = 0 /\ x.dev[s].tds = <<>>
        /\ IF x.dev[s].xfer1
           THEN /\ x' = Done(pci_xhci_handle_transfer([x EXCEPT !.dev[s].tds = rs], s))
                /\ g' = [g EXCEPT !.wait[s] = Len(SelectSeq(Reached(rs), Accepted))]
                /\ UNCHANGED hung
           ELSE hung' = "null" /\ UNCHANGED <<x, g>>

\* The interrupt endpoint, with a transfer in its ring.  One that did not end is
\* tried again; the device has nothing to tell and it stays.  For a new one
\* handle_transfer holds the mutex of the ep_xfer when it calls
\* pci_xhci_try_usb_xfer, which locks it again; the mutex is not recursive.  The
\* request thread also holds xdev->mtx.  Only a malformed transfer is found out
\* before that; what was chained before the fault is left in the ep_xfer.
DataDoorbell(s) ==
    \E td \in {"good", "malformed", "malformed chain"} :
        /\ x.rs /\ s \in g.held /\ x.dev[s].ep2 # "DISABLED" /\ x.dev[s].ring2
        /\ LET d == x.dev[s]
               returns == d.xfer2 /\ (d.left2 \/ td # "good")
           IN  /\ x' = IF returns
                       THEN [x EXCEPT !.dev[s].ep2 = "RUNNING", !.dev[s].left2 = @ \/ td = "malformed chain"]
                       ELSE x
               /\ hung' = IF returns THEN "no" ELSE IF d.xfer2 THEN "mutex" ELSE "null"
        /\ UNCHANGED g

WritePortReset(s) ==
    /\ x.rs
    /\ x' = Done(pci_xhci_reset_port(x, s))
    /\ UNCHANGED <<g, hung>>

WritePortsc(s) ==
    \E pls \in {"U0", "U3"} :
        /\ x.rs /\ pls # x.port[s]
        /\ x' = Done(pci_xhci_portregs_write(x, s, pls))
        /\ UNCHANGED <<g, hung>>

Handler == Interrupt \/ TakeEvent \/ WriteErdpLo \/ WriteErdpHi

\* A behaviour is not followed beyond a hang, a lost event, or one that came with
\* interrupts off: the driver might then never look.
Going == hung = "no" /\ x.lost = "no" /\ ~x.deaf

Next ==
    /\ Going
    /\ \/ WriteUsbcmd \/ WriteHcrst \/ WriteErstba \/ WriteIman \/ Handler \/ CommandDoorbell
       \/ \E s \in Devs : ControlDoorbell(s) \/ DataDoorbell(s) \/ WritePortReset(s) \/ WritePortsc(s)

Spec == Init /\ [][Next]_vars

\* The driver's interrupt handler goes on.
FairSpec == Spec /\ WF_vars(Going /\ Handler)

-----------------------------------------------------------------------------
(* Properties *)

\* The k-th entry from where the driver is, and whether its cycle bit is the
\* one the driver expects there.
At(k) == x.ring[(g.deq + k) % RingSize]
Visible(k) == At(k).cycle = IF g.deq + k < RingSize THEN g.ccs ELSE 1 - g.ccs

\* The driver finds in the ring exactly the events that were inserted and not
\* taken, in their order, by their cycle bits alone; and no event is refused
\* while there is room (pci_xhci_insert_event, ERSTBA, ERDP, controller reset).
EventsSeen ==
    /\ x.lost # "early"
    /\ x.lost = "no" /\ g.ready =>
         /\ \A k \in 1 .. Len(x.out) : Visible(k - 1) /\ At(k - 1).ev = x.out[k]
         /\ Len(x.out) < RingSize => ~Visible(Len(x.out))

\* A slot the driver has and has not reset is on, and its state is the one its
\* context tells; an endpoint whose context is not disabled has its transfer
\* state, so that a doorbell finds it, whatever commands failed in between
\* (commands of complete_commands).  A slot is excepted from the latter two once a
\* command of the driver was out of place, or memory short (Strays).
SlotAgrees ==
    \A s \in g.held \ g.reset :
        /\ x.dev[s].state # "DISABLED"
        /\ s \notin g.stray =>
             /\ x.dev[s].state \in {"ADDRESSED", "CONFIGURED"} => x.dev[s].state = x.dev[s].ctx
             /\ x.dev[s].ep1 # "DISABLED" => x.dev[s].xfer1
             /\ x.dev[s].ep2 # "DISABLED" => x.dev[s].xfer2 /\ x.dev[s].ring2

\* Commands, and control requests the device accepts, are answered and the
\* driver hears of it, whatever falls into its handler; unless the ring
\* overflowed, an event came while interrupts were off, or the controller hung.
Answered ==
    /\ g.cmds > 0 ~> g.cmds = 0 \/ ~Going
    /\ \A s \in Devs : g.wait[s] > 0 ~> g.wait[s] = 0 \/ ~Going

\* A doorbell of a data endpoint comes back: "Outstanding transfer still in
\* progress (device NAK'd earlier) so retry the transfer again to see if it
\* succeeds" (pci_xhci_try_usb_xfer).
DoorbellReturns == hung # "mutex"
=============================================================================
