------------------------------- MODULE MCXhci -------------------------------
(***************************************************************************)
(* The xHCI controller, model-checked with two drivers, as mode says:      *)
(* "ring" has commands, requests, port writes and the interrupt handler in *)
(* any order, but no interrupt endpoint, no device reset and no command    *)
(* out of place; "slots" has every command, with a second device to share  *)
(* the slots with, and handles the events of a step before the next one.   *)
(***************************************************************************)
EXTENDS Xhci

VARIABLE mode

allvars == <<mode, vars>>

C(op, s) == [op |-> op, slot |-> s, ep |-> 1, fault |-> "none"]
Ep(op, s, ep) == [C(op, s) EXCEPT !.ep = ep]
Faulty(op, s, fault) == [C(op, s) EXCEPT !.fault = fault]

\* The second device takes and gives back slots and addresses; every other command,
\* and the ones that go wrong, are for the first.
MCBatches ==
    {<<C("ENABLE_SLOT", 0)>>, <<C("NOOP_CMD", 0), C("NOOP_CMD", 0)>>} \union
    {<<C(op, s)>> : op \in {"DISABLE_SLOT", "ADDRESS_DEVICE"}, s \in Devs} \union
    {<<C(op, 1)>> : op \in {"RESET_DEVICE", "EVALUATE_CTX", "add", "drop", "both", "deconfigure"}} \union
    {<<Ep("STOP_EP", 1, 1), Ep("SET_TR_DEQUEUE", 1, 1)>>} \union
    {<<Ep(op, 1, ep)>> : op \in {"RESET_EP", "SET_TR_DEQUEUE"}, ep \in {0, 2}} \union
    {<<Faulty("ADDRESS_DEVICE", 1, f)>> : f \in {"input", "noctx", "nomem"}} \union
    {<<Faulty(op, 1, "nomem")>> : op \in {"add", "both"}} \union
    {<<Faulty("EVALUATE_CTX", 1, "input")>>}

R(req, arg, more) == [req |-> req, arg |-> arg, more |-> more]

\* A short answer; a refused request alone, and before one that is accepted; a
\* malformed one between two.
MCRequests ==
    {<<R("GET_DESCRIPTOR", "DEVICE", TRUE)>>, <<R("SET_FEATURE", "ENDPOINT", FALSE)>>,
     <<R("SET_FEATURE", "ENDPOINT", FALSE), R("SET_CONFIG", "1", FALSE)>>,
     <<R("SET_CONFIG", "1", FALSE), R("malformed", "", FALSE), R("SET_CONFIG", "1", FALSE)>>}

RingOnly ==
    /\ g.held \subseteq {1} /\ g.reset = {} /\ g.stray = {}
    /\ \A s \in Devs : x.dev[s].ep2 = "DISABLED" /\ (s > 1 => x.port[s] = "U0")

\* One thing after the other, no control requests, the ports stay up and the
\* interrupts on.
Busy == x.out # <<>> \/ g.handler # "idle"
SlotsOnly ==
    /\ x.rs => x.inte /\ x.iena
    /\ \A s \in Devs : x.port[s] = "U0" /\ g.wait[s] = 0 /\ x.dev[s].tds = <<>>

MCInit == mode \in {"ring", "slots"} /\ Init

MCNext ==
    /\ UNCHANGED mode
    /\ \/ mode = "ring" /\ Next /\ RingOnly'
       \/ mode = "slots" /\ Busy /\ Going /\ Handler
       \/ mode = "slots" /\ ~Busy /\ Next /\ SlotsOnly'

MCSpec == MCInit /\ [][MCNext]_allvars /\ WF_allvars(Going /\ Handler /\ UNCHANGED mode)
=============================================================================
