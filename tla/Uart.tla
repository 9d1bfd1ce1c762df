--------------------------------- MODULE Uart --------------------------------
(***************************************************************************)
(* The serial port (uart_core.c): the guest's register accesses and the    *)
(* event loop's uart_drain, each under uart->mtx and so one step.  The     *)
(* front ends (uart.c, lpc.c) pass accesses on and drive the interrupt:    *)
(* the PCI device by level, the LPC device by a pulse whenever the         *)
(* condition is found to hold after an access.                             *)
(*                                                                         *)
(* Characters are numbered in the order in which they are typed.           *)
(***************************************************************************)
EXTENDS Integers, Sequences

CONSTANTS FIFOSZ,    \* characters of the FIFO when it is enabled
          MaxTyped,  \* characters typed on the terminal (a bound)
          ModemBits  \* the bits of the modem control register the guest uses

VARIABLES u,      \* the registers and the FIFO
          tty,    \* typed characters the terminal holds
          typed,  \* how many were typed
          line,   \* the interrupt as driven last
          got     \* the last typed character the guest read

vars == <<u, tty, typed, line, got>>

Loop == 0   \* a character the guest sent to itself

-----------------------------------------------------------------------------
(* The FIFO.  u.lost: a typed character was dropped or flushed.  The event  *)
(* of the terminal stays on: mevent_enable and mevent_disable, which are    *)
(* called when the FIFO fills and when it has room again, return at once.   *)

\* Typed characters the guest has not read yet, in the order it would.
Unread(q) == SelectSeq(q.rx \o tty, LAMBDA c : c # Loop)

rxfifo_available(q) == Len(q.rx) < q.size

\* A typed character that finds no room is dropped, and nobody is told.
rxfifo_putchar(q, ch) ==
    IF rxfifo_available(q) THEN [q EXCEPT !.rx = Append(@, ch)] ELSE [q EXCEPT !.lost = TRUE]

\* The characters are put one after the other: those that find room are kept.
rxfifo_putall(q, chs) ==
    LET room == q.size - Len(q.rx)
    IN  IF Len(chs) <= room THEN [q EXCEPT !.rx = @ \o chs]
        ELSE [q EXCEPT !.rx = @ \o SubSeq(chs, 1, room), !.lost = TRUE]

rxfifo_getchar(q) == IF q.rx = <<>> THEN q ELSE [q EXCEPT !.rx = Tail(@)]

\* Unread input of the terminal is flushed too.
rxfifo_reset(q, size) == [q EXCEPT !.rx = <<>>, !.size = size, !.lost = @ \/ Unread(q) # <<>>]

-----------------------------------------------------------------------------
(* Registers *)

modem_status(mcr) ==
    IF "loop" \in mcr
    THEN {s \in {"cts", "dsr", "ri", "dcd"} :
            CASE s = "cts" -> "rts" \in mcr [] s = "dsr" -> "dtr" \in mcr
              [] s = "ri" -> "out1" \in mcr [] OTHER -> "out2" \in mcr}
    ELSE {"dcd", "dsr"}

uart_intr_reason(q) ==
    IF q.oe /\ "rls" \in q.ier THEN "rls"
    ELSE IF q.rx # <<>> /\ "rx" \in q.ier THEN "rx"
    ELSE IF q.thre /\ "tx" \in q.ier THEN "tx"
    ELSE IF q.delta # {} /\ "msc" \in q.ier THEN "msc"
    ELSE "none"

\* Every access ends with uart_toggle_intr.
uart_toggle_intr(q) == u' = q /\ line' = (uart_intr_reason(q) # "none")

\* While the divisor latch is open its two bytes hide data and enables.
AccessDivisor ==
    /\ u.dlab
    /\ uart_toggle_intr(u)
    /\ UNCHANGED <<tty, typed, got>>

WriteData ==
    /\ ~u.dlab
    /\ LET sent == IF "loop" \notin u.mcr THEN u
                   ELSE IF rxfifo_available(u) THEN rxfifo_putchar(u, Loop) ELSE [u EXCEPT !.oe = TRUE]
       IN  uart_toggle_intr([sent EXCEPT !.thre = TRUE])
    /\ UNCHANGED <<tty, typed, got>>

WriteIer ==
    \E ier \in SUBSET {"rls", "rx", "tx", "msc"} :
        /\ ~u.dlab
        /\ uart_toggle_intr([u EXCEPT !.ier = ier])
        /\ UNCHANGED <<tty, typed, got>>

\* Switching between the modes, or asking for it, resets the FIFO.
WriteFcr ==
    \E enable, rcvrst \in BOOLEAN :
        LET switched == enable # (u.size = FIFOSZ)
            reset == switched \/ (enable /\ rcvrst)
        IN  /\ uart_toggle_intr(IF reset THEN rxfifo_reset(u, IF enable THEN FIFOSZ ELSE 1) ELSE u)
            /\ tty' = IF reset THEN <<>> ELSE tty
            /\ UNCHANGED <<typed, got>>

WriteLcr ==
    \E dlab \in BOOLEAN :
        /\ uart_toggle_intr([u EXCEPT !.dlab = dlab])
        /\ UNCHANGED <<tty, typed, got>>

\* The lines that changed are noted; for the ring only its end is.
WriteMcr ==
    \E mcr \in SUBSET ModemBits :
        LET msr == modem_status(mcr)
            old == modem_status(u.mcr)
            changed == {s \in {"cts", "dsr", "dcd"} : (s \in msr) # (s \in old)}
            ended == {s \in {"ri"} : s \in old /\ s \notin msr}
        IN  /\ uart_toggle_intr([u EXCEPT !.mcr = mcr, !.delta = @ \union changed \union ended])
            /\ UNCHANGED <<tty, typed, got>>

ReadData ==
    /\ ~u.dlab
    /\ uart_toggle_intr(rxfifo_getchar(u))
    /\ got' = IF u.rx # <<>> /\ Head(u.rx) # Loop THEN Head(u.rx) ELSE got
    /\ UNCHANGED <<tty, typed>>

\* Mutant: reading the identification also acknowledges what it did not report.
ReadIirAll ==
    /\ u' = [u EXCEPT !.thre = FALSE] /\ UNCHANGED line
    /\ UNCHANGED <<tty, typed, got>>

ReadIir ==
    /\ uart_toggle_intr([u EXCEPT !.thre = @ /\ uart_intr_reason(u) # "tx"])
    /\ UNCHANGED <<tty, typed, got>>

ReadLsr ==
    /\ uart_toggle_intr([u EXCEPT !.oe = FALSE])
    /\ UNCHANGED <<tty, typed, got>>

ReadMsr ==
    /\ uart_toggle_intr([u EXCEPT !.delta = {}])
    /\ UNCHANGED <<tty, typed, got>>

-----------------------------------------------------------------------------
(* The terminal *)

Type ==
    /\ typed < MaxTyped
    /\ typed' = typed + 1 /\ tty' = Append(tty, typed + 1)
    /\ UNCHANGED <<u, line, got>>

\* In loopback one character is read and dropped, and the interrupt left alone;
\* otherwise the terminal is read until it is empty.
uart_drain ==
    /\ tty # <<>>
    /\ IF "loop" \in u.mcr
       THEN tty' = Tail(tty) /\ u' = [u EXCEPT !.lost = TRUE] /\ UNCHANGED line
       ELSE tty' = <<>> /\ uart_toggle_intr(rxfifo_putall(u, tty))
    /\ UNCHANGED <<typed, got>>

Init ==
    /\ u = [rx |-> <<>>, size |-> 1, lost |-> FALSE, ier |-> {}, mcr |-> {}, delta |-> {}, oe |-> FALSE,
            thre |-> FALSE, dlab |-> FALSE]
    /\ tty = <<>> /\ typed = 0 /\ line = FALSE /\ got = 0

Next ==
    \/ AccessDivisor \/ WriteData \/ WriteIer \/ WriteFcr \/ WriteLcr \/ WriteMcr
    \/ ReadData \/ ReadIir \/ ReadLsr \/ ReadMsr
    \/ Type \/ uart_drain

Spec == Init /\ [][Next]_vars

-----------------------------------------------------------------------------
(* Properties *)

\* Between two accesses the interrupt is up exactly if there is a reason for it,
\* whichever thread made or took the reason (uart_toggle_intr at the end of
\* uart_read, uart_write and uart_drain).
UartLine == line <=> uart_intr_reason(u) # "none"

\* The guest reads the typed characters in the order in which they were typed,
\* and all of them unless one met a full FIFO, a reset of the FIFO or the
\* loopback (uart_drain, rxfifo_putchar, rxfifo_getchar, rxfifo_reset).
UartInOrder ==
    LET left == Unread(u)
    IN  /\ \A i \in 1 .. Len(left) : left[i] > (IF i = 1 THEN got ELSE left[i - 1])
        /\ u.lost \/ left = [i \in 1 .. typed - got |-> got + i]

\* Line and characters together, through modes, resets, loopback and both threads.
UartSound == UartLine /\ UartInOrder
=============================================================================
