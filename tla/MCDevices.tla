------------------------------ MODULE MCDevices ------------------------------
(***************************************************************************)
(* Devices and the bus in front of them, model-checked side by side: a     *)
(* behaviour is one of PciBus (decoding), Uart, Atkbdc (keyboard           *)
(* controller), VirtioConsole or MCRtc (clock), as which says; the others  *)
(* stand still in an initial state.  They share no variable.               *)
(***************************************************************************)
EXTENDS MCBus, VirtioConsole, MCRtc

CONSTANTS UartFifo, MaxTyped, ModemBits,
          KbdcFifo, PS2KBD_FIFOSZ, PS2MOUSE_FIFOSZ, CommandBytes

\* The command byte with interrupts off, and on with translation.
MCCommandBytes == {{}, {"kint", "aint", "translate"}}

\* Two devices: a 32-bit memory BAR of 1 unit and a 64-bit one of 2.
MCMemSize == <<1, 2>>
MCPortSize == <<1, 1>>

VARIABLES u, tty, typed, line, got,
          k, status, ram, curcmd, pulsed, tail, event, hidden

U == INSTANCE Uart WITH FIFOSZ <- UartFifo
K == INSTANCE Atkbdc WITH FIFOSZ <- KbdcFifo

uvars == <<u, tty, typed, line, got>>
kvars == <<k, status, ram, curcmd, pulsed, tail, event, hidden>>
rvars == <<rtcVars, rtcPart>>
allvars == <<which, vars, uvars, kvars, consoleVars, rvars>>

InBus(A) == which = "bus" /\ A /\ UNCHANGED <<which, uvars, kvars, consoleVars, rvars>>
InUart(A) == which = "uart" /\ A /\ UNCHANGED <<which, vars, kvars, consoleVars, rvars>>
InKbd(A) == which = "kbd" /\ A /\ UNCHANGED <<which, vars, uvars, consoleVars, rvars>>
InConsole(A) == which = "console" /\ A /\ UNCHANGED <<which, vars, uvars, kvars, rvars>>
InRtc(A) == which = "rtc" /\ A /\ UNCHANGED <<which, vars, uvars, kvars, consoleVars>>

MCInit ==
    /\ which \in {"bus", "uart", "kbd", "console", "rtc"}
    /\ Init /\ U!Init /\ K!Init /\ ConsoleInit /\ MCRtcInit
    /\ which # "console" => be.kind = "tty"
    /\ which # "rtc" => rtcPart = "clock"

MCNext ==
    \/ InBus(Next) \/ InUart(U!Next) \/ InKbd(K!Next) \/ InConsole(ConsoleNext) \/ InRtc(MCRtcNext)

MCSpec == MCInit /\ [][MCNext]_allvars

\* The UART's interrupt has a reason exactly while it is up, and typed characters
\* arrive in order and without gaps (uart_toggle_intr, uart_drain, rxfifo_putchar).
UartSound == which = "uart" => U!UartSound

\* No byte of the keyboard or the mouse is stranded behind an empty output buffer,
\* and taking a byte announces the next one (atkbdc_poll, atkbdc_dequeue_data).
KbdServed == [](which = "kbd" => K!NothingStranded) /\ K!NextAnnounced
==============================================================================
