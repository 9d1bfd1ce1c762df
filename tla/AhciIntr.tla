------------------------------ MODULE AhciIntr ------------------------------
(***************************************************************************)
(* Interrupts of the AHCI controller (ahci.c): from the causes of a port   *)
(* (PxIS, PxIE) over the global status to the INTx line or to a message.   *)
(* Ports share a message unless the guest has enabled enough of them.      *)
(*                                                                         *)
(* The handlers run under the controller's mutex.  The interrupt handler   *)
(* of the driver (external) reads and clears without one: the global       *)
(* status, then each port's, then the global status again.                 *)
(***************************************************************************)
EXTENDS Naturals, FiniteSets

CONSTANTS NPorts,   \* ports of the controller
          NMsgs,    \* numbers of messages the guest may have enabled; 0 is INTx
          Causes    \* bits of PxIS

VARIABLES pis, pie, is, ghc_ie, lintr, nmsg,
          msi,            \* messages sent and not taken
          drv, todo, seen \* the driver's handler: ports left, what it read

hba == <<pis, pie, is, ghc_ie, lintr, nmsg, msi>>
driver == <<drv, todo, seen>>
vars == <<hba, driver>>

Ports == 0 .. NPorts - 1

Active(p) == pis[p] \intersect pie[p] # {}

\* The message of a port: its own, or the last, which the other ports share.
Own(p) == NPorts <= nmsg \/ p + 1 < nmsg
Message(p) == IF Own(p) THEN p ELSE nmsg - 1

Init ==
    /\ pis = [p \in Ports |-> {}] /\ pie = [p \in Ports |-> {}]
    /\ is = {} /\ ghc_ie = FALSE /\ lintr = FALSE
    /\ nmsg \in NMsgs
    /\ msi = {}
    /\ drv = "idle" /\ todo = {} /\ seen = {}

-----------------------------------------------------------------------------
\* Mutant: a new cause of a port is passed on only if no port has one.
ahci_port_intrOnce(p) ==
    /\ is' = IF pis'[p] \intersect pie'[p] = {} THEN is ELSE is \union {p}
    /\ LET new == pis'[p] \intersect pie'[p] # {} /\ is = {} /\ ghc_ie
       IN  /\ msi' = IF new /\ nmsg > 0 THEN msi \union {Message(p)} ELSE msi
           /\ lintr' = (lintr \/ (new /\ nmsg = 0))

\* On an event of port p, with the causes and enables as they are to become.
\* A shared message is sent only if the port's status was clear.
ahci_port_intr(p) ==
    /\ is' = IF pis'[p] \intersect pie'[p] = {} THEN is ELSE is \union {p}
    /\ LET new == pis'[p] \intersect pie'[p] # {} /\ (Own(p) \/ p \notin is) /\ ghc_ie
       IN  /\ msi' = IF new /\ nmsg > 0 THEN msi \union {Message(p)} ELSE msi
           /\ lintr' = (lintr \/ (new /\ nmsg = 0))

\* After a write of a global register: the status is refreshed from the ports,
\* and the ports in mask are announced again.
ahci_generate_intr(rest, enabled, mask) ==
    LET now == rest \union {p \in Ports : Active(p)} IN
    /\ is' = now
    /\ lintr' = IF now = {} \/ ~enabled THEN FALSE ELSE lintr \/ nmsg = 0
    /\ msi' = IF now # {} /\ enabled /\ now \intersect mask # {}
              THEN msi \union {m \in 0 .. nmsg - 1 : \E p \in mask :
                                 IF NPorts <= nmsg \/ m + 1 < nmsg THEN p = m ELSE p >= m}
              ELSE msi

\* The end of ahci_write_fis: a cause that was not recorded yet.
PortEvent(p, c) ==
    /\ c \notin pis[p]
    /\ pis' = [pis EXCEPT ![p] = @ \union {c}]
    /\ UNCHANGED pie
    /\ ahci_port_intr(p)
    /\ UNCHANGED <<ghc_ie, nmsg, driver>>

WritePxIE(p, enable) ==
    /\ pie[p] # enable
    /\ pie' = [pie EXCEPT ![p] = enable]
    /\ UNCHANGED pis
    /\ ahci_port_intr(p)
    /\ UNCHANGED <<ghc_ie, nmsg, driver>>

WriteGhcIE(enable) ==
    /\ ghc_ie # enable
    /\ ghc_ie' = enable
    /\ ahci_generate_intr(is, enable, Ports)
    /\ UNCHANGED <<pis, pie, nmsg, driver>>

ahci_reset ==
    /\ pis' = [p \in Ports |-> {}] /\ pie' = [p \in Ports |-> {}]
    /\ is' = {} /\ ghc_ie' = FALSE /\ lintr' = FALSE
    /\ UNCHANGED <<nmsg, msi, driver>>

-----------------------------------------------------------------------------
(* The driver's interrupt handler *)

\* It takes a message, or the level of the line, and reads the global status.
Enter ==
    /\ drv = "idle"
    /\ \/ nmsg = 0 /\ lintr /\ todo' = is /\ UNCHANGED msi
       \/ \E m \in msi : msi' = msi \ {m} /\ todo' = {p \in is : Message(p) = m}
    /\ seen' = todo'
    /\ drv' = "port"
    /\ UNCHANGED <<pis, pie, is, ghc_ie, lintr, nmsg>>

\* It clears the causes it read of one port (PxIS); the write looks at the rest.
ClearPort(p, read) ==
    /\ drv = "port" /\ p \in todo
    /\ read \subseteq pis[p] /\ read # {}
    /\ pis' = [pis EXCEPT ![p] = @ \ read]
    /\ UNCHANGED pie
    /\ ahci_port_intr(p)
    /\ todo' = todo \ {p}
    /\ UNCHANGED <<ghc_ie, nmsg, drv, seen>>

\* Nothing to clear in a port.
SkipPort(p) ==
    /\ drv = "port" /\ p \in todo /\ pis[p] = {}
    /\ todo' = todo \ {p}
    /\ UNCHANGED <<hba, drv, seen>>

\* It clears what it handled of the global status (IS).
Leave ==
    /\ drv = "port" /\ todo = {}
    /\ ahci_generate_intr(is \ seen, ghc_ie, seen)
    /\ drv' = "idle" /\ seen' = {}
    /\ UNCHANGED <<pis, pie, ghc_ie, nmsg, todo>>

Next ==
    \/ \E p \in Ports : \/ \E c \in Causes : PortEvent(p, c)
                        \/ \E e \in SUBSET Causes : WritePxIE(p, e)
                        \/ \E r \in SUBSET Causes : ClearPort(p, r)
                        \/ SkipPort(p)
    \/ \E e \in BOOLEAN : WriteGhcIE(e)
    \/ ahci_reset \/ Enter \/ Leave

Spec == Init /\ [][Next]_vars

-----------------------------------------------------------------------------
\* An enabled cause of a port reaches the driver, however its handler's reads
\* and writes fall between the port's events: if the handler is not running,
\* the line is up or the port's message is on its way (ahci_port_intr,
\* ahci_generate_intr).  Without a cause the line is down again.
CauseAnnounced ==
    /\ drv = "idle" /\ ghc_ie =>
         \A p \in Ports : Active(p) => IF nmsg = 0 THEN lintr ELSE Message(p) \in msi
    /\ lintr <=> nmsg = 0 /\ ghc_ie /\ is # {}
=============================================================================
