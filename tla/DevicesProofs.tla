---------------------------- MODULE DevicesProofs ----------------------------
(***************************************************************************)
(* The virtio console, the real-time clock and the watchdog, for every     *)
(* value of their constants.  For the console: chains, control messages    *)
(* and the close of the back end under the two threads.  For the clock:    *)
(* what the functions of rtc.c do to a record of registers, then the steps *)
(* made of them.  For the watchdog: that its timer is never forgotten, and *)
(* its lock.                                                               *)
(***************************************************************************)
EXTENDS Rtc, VirtioConsole, PlatformBounds, TLAPS

-----------------------------------------------------------------------------
(* The console. *)

\* As long as the threads have not met, one of them is away from the back end, the
\* event is there for whoever closes, and it is live until then.
ClosedInOrder ==
    be.kind # "file" /\ ~both =>
        /\ cpc["main"] = "idle" \/ cpc["req"] \notin {"close", "clear"}
        /\ (be.open <=> be.evp) /\ (be.fd <=> be.evp)
        /\ cpc["main"] \notin {"idle", "drop"} => be.evp
        /\ cpc["req"] \in {"close", "clear"} => be.evp
        /\ be.evp /\ (\A t \in Threads : cpc[t] # "clear") => mev = "live"

\* What was taken was offered, and is used but for the chain in hand; a chain that
\* was found is there.
ChainsInOrder ==
    /\ raced \/ /\ rx.taken = rx.used + (IF cpc["main"] = "got" THEN 1 ELSE 0)
                /\ rx.taken <= rx.avail
                /\ cpc["main"] = "get" => rx.taken < rx.avail
    /\ cpc["main"] \in {"get", "got"} /\ ~rx.ring => raced

MainPlaces == {"idle", "descs", "drop", "get", "got", "close", "clear"}
ReqPlaces == {"idle", "add", "name", "open", "close", "clear"}

\* Where the threads can be; the back end and the queue are records.
ConsoleTypes ==
    /\ cpc \in [Threads -> MainPlaces \cup ReqPlaces]
    /\ cpc["main"] \in MainPlaces /\ cpc["req"] \in ReqPlaces
    /\ be \in [kind : {"tty", "file"}, open : BOOLEAN, fd : BOOLEAN, evp : BOOLEAN]
    /\ rx = [ring |-> rx.ring, avail |-> rx.avail, taken |-> rx.taken, used |-> rx.used]
    /\ rx.avail \in Int /\ rx.taken \in Int /\ rx.used \in Int

\* While the port is announced, what has arrived and the buffers that are left
\* make up the buffers there were; every message so far has arrived, or all those
\* buffers are used.
ToldInOrder ==
    /\ ctl \in Nat /\ told.room \in Nat /\ told.port \in Seq(PortMessages)
    /\ told = [port |-> told.port, room |-> told.room]
    /\ cpc["req"] \in PortMessages => Len(told.port) + ctl >= told.room
    /\ \/ Len(told.port) >= told.room
       \/ cpc["req"] = "add"
       \/ cpc["req"] = "name" /\ Len(told.port) >= 1
       \/ cpc["req"] = "open" /\ Len(told.port) >= 2
       \/ Len(told.port) >= 3

\* The inductive invariant of the console.
ConsoleInv == ConsoleTypes /\ ToldInOrder /\ ChainsInOrder /\ ClosedInOrder /\ ClosedOnce

\* The driver has not started and nobody is at the back end.
LEMMA ConsoleStarts == ConsoleInit => ConsoleInv
<1> SUFFICES ASSUME ConsoleInit PROVE ConsoleInv
    OBVIOUS
<1>1. PICK kind \in {"tty", "file"} :
          /\ be = [kind |-> kind, open |-> TRUE, fd |-> TRUE, evp |-> kind # "file"]
          /\ mev = IF kind = "file" THEN "freed" ELSE "live"
      BY Zenon DEF ConsoleInit
<1>2. (kind # "file") \in BOOLEAN
      OBVIOUS
<1>3. be \in [kind : {"tty", "file"}, open : BOOLEAN, fd : BOOLEAN, evp : BOOLEAN]
      BY <1>1, <1>2
<1>4. be.kind = kind /\ be.open /\ be.fd /\ (be.evp <=> kind # "file")
      BY <1>1, Zenon
<1>5. /\ \A t \in Threads : cpc[t] = "idle"
      /\ cpc \in [Threads -> MainPlaces \cup ReqPlaces] /\ ~crashed
      /\ rx = [ring |-> FALSE, avail |-> 0, taken |-> 0, used |-> 0]
      BY DEF ConsoleInit, MainPlaces
<1>6. ConsoleTypes
      BY <1>3, <1>5 DEF ConsoleTypes, Threads, MainPlaces, ReqPlaces
<1>7. ToldInOrder
      BY DEF ConsoleInit, ToldInOrder
<1>8. ChainsInOrder
      BY <1>5 DEF ChainsInOrder, Threads
<1>9. ClosedInOrder /\ ClosedOnce
      BY <1>1, <1>4, <1>5 DEF ClosedInOrder, ClosedOnce, Threads
<1> QED
    BY <1>6, <1>7, <1>8, <1>9 DEF ConsoleInv

\* A step of the main thread in its function, from one place to another.
LEMMA MainGoes ==
    ASSUME ConsoleTypes, NEW from, NEW to \in MainPlaces, Main(from, to)
    PROVE  /\ cpc["main"] = from /\ cpc'["main"] = to /\ cpc'["req"] = cpc["req"]
           /\ cpc' \in [Threads -> MainPlaces \cup ReqPlaces]
<1> QED
    BY DEF Main, ConsoleTypes, Threads

\* Types, one step at a time.
LEMMA ConsoleTypesNext == ConsoleInv /\ ConsoleNext => ConsoleTypes'
<1> SUFFICES ASSUME ConsoleInv, ConsoleNext PROVE ConsoleTypes'
    OBVIOUS
<1> USE DEF ConsoleInv, ConsoleTypes
<1>1. ASSUME NEW t \in Threads, DeleteEvent(t) PROVE ConsoleTypes'
      BY <1>1 DEF DeleteEvent, Threads, MainPlaces, ReqPlaces
<1>2. ASSUME NEW t \in Threads, ClearBackend(t) PROVE ConsoleTypes'
  <2>1. cpc' \in [Threads -> MainPlaces \cup ReqPlaces] /\ cpc'["main"] \in MainPlaces /\ cpc'["req"] \in ReqPlaces
        BY <1>2 DEF ClearBackend, Threads, MainPlaces, ReqPlaces
  <2>2. be' \in [kind : {"tty", "file"}, open : BOOLEAN, fd : BOOLEAN, evp : BOOLEAN] /\ rx' = rx
        BY <1>2, Zenon DEF ClearBackend
  <2> QED
      BY <2>1, <2>2
<1>3. CASE FreeEvent
      BY <1>3 DEF FreeEvent
<1>4. CASE ReadBegin \/ LookForChains \/ DropInput \/ GetChain \/ GetNoChain \/ ReadSome \/ ReadNothing
  <2>1. PICK from \in MainPlaces, to \in MainPlaces : Main(from, to)
        BY <1>4 DEF ReadBegin, LookForChains, DropInput, GetChain, GetNoChain, ReadSome, ReadNothing, MainPlaces
  <2>2. /\ cpc' \in [Threads -> MainPlaces \cup ReqPlaces]
        /\ cpc'["main"] \in MainPlaces /\ cpc'["req"] \in ReqPlaces
        BY <2>1, MainGoes
  <2>3. be' = be
        BY <1>4 DEF ReadBegin, LookForChains, DropInput, GetChain, GetNoChain, ReadSome, ReadNothing
  <2>4. \/ rx' = rx \/ rx' = [rx EXCEPT !.taken = @ + 1] \/ rx' = [rx EXCEPT !.taken = @ - 1]
        \/ rx' = [rx EXCEPT !.used = @ + 1]
        BY <1>4 DEF ReadBegin, LookForChains, DropInput, GetChain, GetNoChain, ReadSome, ReadNothing
  <2> QED
      BY <2>2, <2>3, <2>4
<1>5. CASE virtio_console_notify_rx \/ OfferCtl \/ Input \/ PortReady
      BY <1>5 DEF virtio_console_notify_rx, OfferCtl, Input, PortReady
<1>6. CASE virtio_console_reset \/ Start \/ Offer
  <2>1. be' = be /\ cpc' = cpc
        BY <1>6 DEF virtio_console_reset, Start, Offer
  <2>2. \/ rx' = [ring |-> FALSE, avail |-> 0, taken |-> 0, used |-> 0]
        \/ rx' = [ring |-> TRUE, avail |-> 0, taken |-> 0, used |-> 0]
        \/ rx' = [rx EXCEPT !.avail = @ + 1]
        BY <1>6 DEF virtio_console_reset, Start, Offer
  <2>3. /\ rx' = [ring |-> rx'.ring, avail |-> rx'.avail, taken |-> rx'.taken, used |-> rx'.used]
        /\ rx'.avail \in Int /\ rx'.taken \in Int /\ rx'.used \in Int
        BY <2>2
  <2> QED
      BY <2>1, <2>3
<1>7. CASE WriteFails \/ DeviceReady
      BY <1>7 DEF WriteFails, DeviceReady, Threads, MainPlaces, ReqPlaces
<1>8. ASSUME NEW m \in PortMessages, virtio_console_control_send(m) PROVE ConsoleTypes'
      BY <1>8 DEF virtio_console_control_send, AfterMessage, PortMessages, Threads, MainPlaces, ReqPlaces
<1> QED
    BY <1>1, <1>2, <1>3, <1>4, <1>5, <1>6, <1>7, <1>8 DEF ConsoleNext

\* The messages and their buffers: those that announce, send or offer touch them,
\* and those that begin or end something else of the request thread.
LEMMA ConsoleToldNext == ConsoleInv /\ ConsoleNext => ToldInOrder'
<1> SUFFICES ASSUME ConsoleInv, ConsoleNext PROVE ToldInOrder'
    OBVIOUS
<1> USE DEF ConsoleInv, ToldInOrder
<1>1. CASE UNCHANGED <<told, ctl>> /\ cpc'["req"] = cpc["req"]
      BY <1>1
<1>2. ASSUME UNCHANGED <<told, ctl>>, cpc["req"] \notin PortMessages, cpc'["req"] \notin PortMessages
      PROVE  ToldInOrder'
      BY <1>2 DEF PortMessages
<1>3. ASSUME NEW t \in Threads, DeleteEvent(t) \/ ClearBackend(t) PROVE ToldInOrder'
  <2>1. UNCHANGED <<told, ctl>>
        BY <1>3 DEF DeleteEvent, ClearBackend
  <2>2. CASE t = "main"
    <3>1. cpc'["req"] = cpc["req"]
          BY <1>3, <2>2 DEF DeleteEvent, ClearBackend, ConsoleTypes, Threads
    <3> QED
        BY <1>1, <2>1, <3>1
  <2>3. CASE t = "req"
    <3>1. cpc["req"] \notin PortMessages /\ cpc'["req"] \notin PortMessages
          BY <1>3, <2>3 DEF DeleteEvent, ClearBackend, ConsoleTypes, Threads, PortMessages
    <3> QED
        BY <1>2, <2>1, <3>1
  <2> QED
      BY <2>2, <2>3 DEF Threads
<1>4. CASE ReadBegin \/ LookForChains \/ DropInput \/ GetChain \/ GetNoChain \/ ReadSome \/ ReadNothing
  <2>1. PICK from \in MainPlaces, to \in MainPlaces : Main(from, to)
        BY <1>4 DEF ReadBegin, LookForChains, DropInput, GetChain, GetNoChain, ReadSome, ReadNothing, MainPlaces
  <2>2. cpc'["req"] = cpc["req"]
        BY <2>1, MainGoes
  <2>3. UNCHANGED <<told, ctl>>
        BY <1>4 DEF ReadBegin, LookForChains, DropInput, GetChain, GetNoChain, ReadSome, ReadNothing
  <2> QED
      BY <1>1, <2>2, <2>3
<1>5. CASE FreeEvent \/ virtio_console_notify_rx \/ Start \/ Offer \/ Input
      BY <1>1, <1>5 DEF FreeEvent, virtio_console_notify_rx, Start, Offer, Input
<1>6. CASE WriteFails
      BY <1>2, <1>6 DEF WriteFails, ReqIdle, ConsoleTypes, Threads, PortMessages
<1>7. CASE OfferCtl
      BY <1>7 DEF OfferCtl
<1>8. CASE PortReady \/ virtio_console_reset
  <2>1. ctl' \in Nat /\ told' = told /\ cpc' = cpc /\ cpc["req"] = "idle"
        BY <1>8 DEF PortReady, virtio_console_reset, ReqIdle
  <2> QED
      BY <2>1 DEF PortMessages
<1>9. CASE DeviceReady
  <2>1. told' = [port |-> <<>>, room |-> ctl] /\ ctl' = ctl /\ cpc'["req"] = "add"
        BY <1>9 DEF DeviceReady, ConsoleTypes, Threads
  <2>2. told'.port = <<>> /\ told'.room = ctl /\ Len(<<>>) = 0 /\ <<>> \in Seq(PortMessages)
        BY <2>1
  <2> QED
      BY <2>1, <2>2
<1>10. ASSUME NEW m \in PortMessages, virtio_console_control_send(m) PROVE ToldInOrder'
  <2>1. cpc["req"] = m /\ cpc'["req"] = AfterMessage(m)
        BY <1>10 DEF virtio_console_control_send, ConsoleTypes, Threads
  <2>2. CASE ctl > 0
    <3>1. ctl' = ctl - 1 /\ told' = [port |-> Append(told.port, m), room |-> told.room]
          BY <1>10, <2>2 DEF virtio_console_control_send
    <3>2. Append(told.port, m) \in Seq(PortMessages) /\ Len(Append(told.port, m)) = Len(told.port) + 1
          OBVIOUS
    <3>3. told'.port = Append(told.port, m) /\ told'.room = told.room
          BY <3>1
    <3>4. Len(told.port) \in Nat
          OBVIOUS
    <3> QED
        BY <2>1, <2>2, <3>1, <3>2, <3>3, <3>4 DEF AfterMessage, PortMessages
  <2>3. CASE ctl = 0
    <3>1. ctl' = ctl /\ told' = told
          BY <1>10, <2>3 DEF virtio_console_control_send
    <3>2. Len(told.port) >= told.room
          BY <2>1, <2>3
    <3> QED
        BY <2>1, <2>3, <3>1, <3>2
  <2> QED
      BY <2>2, <2>3
<1> QED
    BY <1>3, <1>4, <1>5, <1>6, <1>7, <1>8, <1>9, <1>10 DEF ConsoleNext

\* Where the chains are, one step at a time; a reset while a chain is found or in
\* hand is the race that raced records.
LEMMA ConsoleChainsNext == ConsoleInv /\ ConsoleNext => ChainsInOrder'
<1> SUFFICES ASSUME ConsoleInv, ConsoleNext PROVE ChainsInOrder'
    OBVIOUS
<1> USE DEF ConsoleInv, ConsoleTypes, Threads, ChainsInOrder
<1>1. ASSUME NEW t \in Threads, DeleteEvent(t) \/ ClearBackend(t) PROVE ChainsInOrder'
      BY <1>1 DEF DeleteEvent, ClearBackend
<1>2. CASE ReadBegin \/ LookForChains \/ DropInput
      BY <1>2 DEF ReadBegin, LookForChains, DropInput, Main, has_descs
<1>3. CASE GetChain \/ GetNoChain
      BY <1>3 DEF GetChain, GetNoChain, Main
<1>4. CASE ReadSome \/ ReadNothing
      BY <1>4 DEF ReadSome, ReadNothing, Main, has_descs
<1>5. CASE FreeEvent \/ virtio_console_notify_rx \/ WriteFails \/ OfferCtl \/ Input \/ DeviceReady \/ PortReady
      BY <1>5 DEF FreeEvent, virtio_console_notify_rx, WriteFails, OfferCtl, Input, DeviceReady, PortReady
<1>6. CASE virtio_console_reset \/ Start
  <2>1. rx'.taken = 0 /\ rx'.used = 0 /\ rx'.avail = 0 /\ cpc' = cpc
        BY <1>6 DEF virtio_console_reset, Start
  <2>2. CASE cpc["main"] \in {"get", "got"}
    <3>1. raced'
      <4>1. CASE virtio_console_reset
            BY <2>2, <4>1, Zenon DEF virtio_console_reset
      <4>2. CASE Start
            BY <2>2, <4>2 DEF Start
      <4> QED
          BY <1>6, <4>1, <4>2
    <3> QED
        BY <3>1
  <2>3. CASE cpc["main"] \notin {"get", "got"}
        BY <2>1, <2>3
  <2> QED
      BY <2>2, <2>3
<1>7. CASE Offer
      BY <1>7 DEF Offer
<1>8. ASSUME NEW m \in PortMessages, virtio_console_control_send(m) PROVE ChainsInOrder'
      BY <1>8 DEF virtio_console_control_send
<1> QED
    BY <1>1, <1>2, <1>3, <1>4, <1>5, <1>6, <1>7, <1>8 DEF ConsoleNext

\* The event and the back end, as long as the threads have not met in the close.
LEMMA ConsoleClosedNext == ConsoleInv /\ ConsoleNext => ClosedInOrder' /\ ClosedOnce'
<1> SUFFICES ASSUME ConsoleInv, ConsoleNext PROVE ClosedInOrder' /\ ClosedOnce'
    OBVIOUS
<1> USE DEF ConsoleInv, ConsoleTypes, Threads, ClosedInOrder, ClosedOnce
<1>1. ASSUME NEW t \in Threads, DeleteEvent(t) PROVE ClosedInOrder' /\ ClosedOnce'
  <2>1. \A s \in Threads : cpc'[s] = IF s = t THEN "clear" ELSE cpc[s]
        BY <1>1 DEF DeleteEvent
  <2>2. be' = be /\ both' = both /\ cpc[t] = "close"
        /\ IF be.evp /\ mev # "freed" THEN mev' = "deleting" /\ crashed' = crashed ELSE crashed' /\ mev' = mev
        BY <1>1 DEF DeleteEvent
  <2> QED
      BY <2>1, <2>2 DEF ConsoleNext
<1>2. ASSUME NEW t \in Threads, ClearBackend(t) PROVE ClosedInOrder' /\ ClosedOnce'
      BY <1>2 DEF ClearBackend
<1>3. CASE FreeEvent
      BY <1>3 DEF FreeEvent
<1>4. CASE ReadBegin
      BY <1>4, Zenon DEF ReadBegin, Main
<1>5. CASE LookForChains \/ DropInput \/ GetChain \/ GetNoChain \/ ReadSome \/ ReadNothing
      BY <1>5 DEF LookForChains, DropInput, GetChain, GetNoChain, ReadSome, ReadNothing, Main
<1>6. CASE virtio_console_notify_rx \/ virtio_console_reset \/ Start \/ Offer \/ OfferCtl \/ Input \/ PortReady
      BY <1>6 DEF virtio_console_notify_rx, virtio_console_reset, Start, Offer, OfferCtl, Input, PortReady
<1>7. CASE WriteFails \/ DeviceReady
      BY <1>7 DEF WriteFails, DeviceReady, ReqIdle
<1>8. ASSUME NEW m \in PortMessages, virtio_console_control_send(m) PROVE ClosedInOrder' /\ ClosedOnce'
      BY <1>8 DEF virtio_console_control_send, AfterMessage, PortMessages
<1> QED
    BY <1>1, <1>2, <1>3, <1>4, <1>5, <1>6, <1>7, <1>8 DEF ConsoleNext

\* Chains, messages and the back end's event, for any bounds: see ConsoleSound.
THEOREM ConsoleAlways == ConsoleSpec => []ConsoleSound
<1>1. ConsoleInv /\ [ConsoleNext]_consoleVars => ConsoleInv'
  <2> SUFFICES ASSUME ConsoleInv, [ConsoleNext]_consoleVars PROVE ConsoleInv'
      OBVIOUS
  <2>1. CASE ConsoleNext
        BY <2>1, ConsoleTypesNext, ConsoleToldNext, ConsoleChainsNext, ConsoleClosedNext DEF ConsoleInv
  <2>2. CASE UNCHANGED consoleVars
        BY <2>2 DEF consoleVars, ConsoleInv, ConsoleTypes, ToldInOrder, ChainsInOrder, ClosedInOrder, ClosedOnce
  <2> QED
      BY <2>1, <2>2
<1>2. ConsoleInv => ConsoleSound
      BY DEF ConsoleInv, ToldInOrder, ChainsInOrder, ConsoleSound, ConsoleChains, PortAnnounced, ReqIdle
<1> QED
    BY <1>1, <1>2, ConsoleStarts, PTL DEF ConsoleSpec

-----------------------------------------------------------------------------
(* The clock. *)

\* The registers of the clock and the model's history of them.
Clock == [now : Int, up : Int, time : Int, fields : Int, div : BOOLEAN, rate : Int, halt : BOOLEAN,
          pie : BOOLEAN, aie : BOOLEAN, uie : BOOLEAN, flags : SUBSET {"alarm", "period", "update"},
          irq : BOOLEAN, swallowed : BOOLEAN, timer : Int, alarm : Int, rung : BOOLEAN]

\* The registers and what they say of each other: a halted clock has no time.
ClockOk(q) ==
    /\ q \in Clock
    /\ q.up <= q.now /\ q.time >= -1 /\ q.fields >= -1 /\ q.rate >= 0
    /\ q.halt <=> q.time = -1

\* A flag of f asks for an interrupt that is enabled.
Asks(q, f) ==
    \/ q.aie /\ "alarm" \in f
    \/ q.pie /\ "period" \in f
    \/ q.uie /\ "update" \in f

\* The line and the periodic timer (RtcLines, of the record q).
LineOk(q) == q.irq <=> q.swallowed \/ Asks(q, q.flags)
TimerOk(q) == q.pie /\ q.div /\ q.rate > 0 => q.timer = q.rate

\* The registers that neither time nor flags are part of.
Kept(n, q) ==
    /\ n.now = q.now /\ n.div = q.div /\ n.rate = q.rate /\ n.halt = q.halt
    /\ n.pie = q.pie /\ n.aie = q.aie /\ n.uie = q.uie /\ n.timer = q.timer /\ n.alarm = q.alarm

\* Flags and line are set together, and nothing else.
LEMMA SetRegC ==
    ASSUME NEW q \in Clock, NEW f \in SUBSET {"alarm", "period", "update"}, NEW n, n = vrtc_set_reg_c(q, f)
    PROVE  /\ n \in Clock /\ Kept(n, q)
           /\ n.up = q.up /\ n.time = q.time /\ n.fields = q.fields /\ n.rung = q.rung
           /\ n.flags = f /\ ~n.swallowed
           /\ n.irq <=> Asks(n, f)
<1> DEFINE up == Asks(q, f)
<1>1. n = [q EXCEPT !.flags = f, !.swallowed = FALSE, !.irq = up]
      BY DEF vrtc_set_reg_c, Asks
<1>2. up \in BOOLEAN
      BY DEF Asks
<1> HIDE DEF up
<1>3. n \in Clock
      BY <1>1, <1>2, Zenon DEF Clock
<1>4. /\ Kept(n, q) /\ n.flags = f /\ ~n.swallowed /\ n.irq = up
      /\ n.up = q.up /\ n.time = q.time /\ n.fields = q.fields /\ n.rung = q.rung
      BY <1>1 DEF Clock, Kept
<1> QED
    BY <1>3, <1>4 DEF Kept, up, Asks

\* What bringing the clock to a time leaves alone, and what it does to the rest.
LEMMA TimeUpdate ==
    ASSUME NEW q \in Clock, NEW t \in Int, NEW base \in Int, t >= -1, q.fields >= -1,
           NEW n, n = vrtc_time_update(q, t, base)
    PROVE  /\ n \in Clock /\ Kept(n, q) /\ n.up = base /\ n.fields >= -1
           /\ n.time = IF t # -1 /\ q.halt THEN q.time ELSE t
           /\ LineOk(q) => LineOk(n)
           /\ q.rung => n.rung
           /\ t # q.time /\ t # -1 /\ ~q.halt /\ Rings(q, t) # {} => n.rung
<1> DEFINE b == [q EXCEPT !.up = base]
           moved == [b EXCEPT !.time = t, !.rung = @ \/ Rings(q, t) # {}]
           shown == IF q.aie THEN secs_to_rtc(moved, t, FALSE) ELSE moved
           flags == (IF Rings(q, t) # {} THEN {"alarm"} ELSE {}) \union (IF q.uie THEN {"update"} ELSE {})
<1>1. n = IF t = q.time THEN b
          ELSE IF t = -1 THEN [b EXCEPT !.time = -1]
          ELSE IF q.halt THEN b
          ELSE IF flags = {} THEN shown ELSE vrtc_set_reg_c(shown, q.flags \union flags)
      BY DEF vrtc_time_update, Broken
<1>2. CASE t = q.time \/ t = -1 \/ q.halt
  <2>1. PICK v \in Int : n = [q EXCEPT !.up = base, !.time = v]
    <3>1. b = [q EXCEPT !.up = base, !.time = q.time] /\ q.time \in Int
          BY Zenon DEF Clock
    <3>2. [b EXCEPT !.time = -1] = [q EXCEPT !.up = base, !.time = -1]
          BY DEF Clock
    <3> QED
        BY <1>1, <1>2, <3>1, <3>2, Zenon
  <2>2. n \in Clock /\ Kept(n, q) /\ n.up = base /\ n.fields = q.fields /\ n.rung = q.rung
        BY <2>1, Zenon DEF Clock, Kept
  <2>3. n.flags = q.flags /\ n.irq = q.irq /\ n.swallowed = q.swallowed
        BY <2>1 DEF Clock
  <2>4. n.time = IF t # -1 /\ q.halt THEN q.time ELSE t
        BY <1>1, <1>2, Zenon DEF Clock
  <2>5. LineOk(q) => LineOk(n)
        BY <2>2, <2>3 DEF LineOk, Kept, Asks
  <2> QED
      BY <1>2, <2>2, <2>4, <2>5
<1>3. CASE ~(t = q.time \/ t = -1 \/ q.halt)
  <2>1. /\ moved \in Clock /\ Kept(moved, q)
        /\ moved.up = base /\ moved.time = t /\ moved.fields = q.fields
        /\ moved.flags = q.flags /\ moved.irq = q.irq /\ moved.swallowed = q.swallowed
        /\ moved.rung <=> q.rung \/ Rings(q, t) # {}
        BY Zenon DEF Clock, Kept
  <2> HIDE DEF moved
  <2>2. shown = moved \/ shown = [moved EXCEPT !.fields = t]
        BY DEF secs_to_rtc
  <2> HIDE DEF shown
  <2>3. /\ shown \in Clock /\ Kept(shown, q)
        /\ shown.up = base /\ shown.time = t /\ shown.fields >= -1
        /\ shown.flags = q.flags /\ shown.irq = q.irq /\ shown.swallowed = q.swallowed
        /\ shown.rung <=> q.rung \/ Rings(q, t) # {}
        BY <2>1, <2>2 DEF Clock, Kept
  <2>4. CASE flags = {}
        BY <1>1, <1>3, <2>3, <2>4 DEF LineOk, Kept, Asks
  <2>5. CASE flags # {}
    <3> DEFINE f == q.flags \union flags
    <3>1. f \in SUBSET {"alarm", "period", "update"}
          BY DEF Clock
    <3>2. n = vrtc_set_reg_c(shown, f)
          BY <1>1, <1>3, <2>5
    <3> HIDE DEF flags, f
    <3>3. /\ n \in Clock /\ Kept(n, shown)
          /\ n.up = shown.up /\ n.time = shown.time /\ n.fields = shown.fields /\ n.rung = shown.rung
          /\ n.flags = f /\ ~n.swallowed /\ (n.irq <=> Asks(n, f))
          BY <2>3, <3>1, <3>2, SetRegC
    <3>4. Kept(n, q)
          BY <2>3, <3>3 DEF Kept
    <3>5. LineOk(q) => LineOk(n)
          BY <3>3, <3>4 DEF LineOk, Kept, Asks
    <3> QED
        BY <1>3, <2>3, <3>3, <3>4, <3>5
  <2> QED
      BY <2>4, <2>5
<1> QED
    BY <1>2, <1>3

\* An access keeps the time of the clock: from there on the time read is the
\* time kept, and a second of an alarm that has passed is announced.
LEMMA UpdatedKeeps ==
    ASSUME NEW q, ClockOk(q), NEW n, n = Updated(q)
    PROVE  /\ ClockOk(n) /\ Kept(n, q)
           /\ n.time = vrtc_curtime(q) /\ vrtc_curtime(n) = n.time
           /\ update_enabled(n) <=> update_enabled(q)
           /\ update_enabled(n) => n.up = n.now
           /\ LineOk(q) => LineOk(n)
           /\ q.rung => n.rung
           /\ q.aie /\ update_enabled(q)
                /\ {t \in q.time + 1 .. vrtc_curtime(q) : Matches(q, t)} # {} => n.rung
<1>1. /\ q \in Clock /\ q.fields >= -1 /\ q.up <= q.now /\ q.time >= -1 /\ q.rate >= 0
      /\ q.halt <=> q.time = -1
      /\ q.now \in Int /\ q.up \in Int /\ q.time \in Int
      BY DEF ClockOk, Clock
<1>2. /\ vrtc_curtime(q) \in Int /\ Basetime(q) \in Int /\ vrtc_curtime(q) >= q.time
      /\ vrtc_curtime(q) # q.time => ~q.halt
      /\ Basetime(q) <= q.now
      /\ update_enabled(q) => Basetime(q) = q.now
      /\ ~update_enabled(q) => vrtc_curtime(q) = q.time
      BY <1>1 DEF vrtc_curtime, Basetime, update_enabled, Broken
<1>3. n = vrtc_time_update(q, vrtc_curtime(q), Basetime(q))
      BY DEF Updated
<1>4. /\ n \in Clock /\ Kept(n, q)
      /\ n.up = Basetime(q) /\ n.fields >= -1
      /\ n.time = vrtc_curtime(q)
      /\ LineOk(q) => LineOk(n)
      /\ q.rung => n.rung
      BY <1>1, <1>2, <1>3, TimeUpdate
<1>5. ClockOk(n)
      BY <1>1, <1>2, <1>4 DEF ClockOk, Kept
<1>6. update_enabled(n) <=> update_enabled(q)
      BY <1>1, <1>2, <1>4 DEF update_enabled, Broken, Kept
<1>7. vrtc_curtime(n) = n.time /\ (update_enabled(n) => n.up = n.now)
      BY <1>1, <1>2, <1>4, <1>6 DEF vrtc_curtime, Kept
<1>8. ASSUME q.aie, update_enabled(q), {t \in q.time + 1 .. vrtc_curtime(q) : Matches(q, t)} # {}
      PROVE  n.rung
  <2>1. q.time # -1 /\ ~q.halt
        BY <1>8 DEF update_enabled, Broken
  <2>2. Rings(q, vrtc_curtime(q)) # {}
        BY <1>8, <2>1 DEF Rings, Visited, Broken
  <2>3. vrtc_curtime(q) # q.time /\ vrtc_curtime(q) # -1
        BY <1>1, <1>2, <1>8, <2>1
  <2> QED
      BY <1>1, <1>2, <1>3, <2>1, <2>2, <2>3, TimeUpdate
<1> QED
    BY <1>4, <1>5, <1>6, <1>7, <1>8

\* The step ends with the record q, with the alarm's flag taken out.
LEMMA ToKeeps ==
    ASSUME NEW q, ClockOk(q), LineOk(q), TimerOk(q), NEW n, n = [q EXCEPT !.rung = FALSE]
    PROVE  ClockOk(n) /\ LineOk(n) /\ TimerOk(n) /\ vrtc_curtime(n) = vrtc_curtime(q)
<1>1. /\ n \in Clock /\ Kept(n, q) /\ n.up = q.up /\ n.time = q.time /\ n.fields = q.fields
      /\ n.flags = q.flags /\ n.irq = q.irq /\ n.swallowed = q.swallowed
      BY Zenon DEF Clock, ClockOk, Kept
<1>2. ClockOk(n) /\ TimerOk(n)
      BY <1>1 DEF ClockOk, TimerOk, Kept
<1>3. LineOk(n)
      BY <1>1 DEF LineOk, Asks, Kept
<1>4. vrtc_curtime(n) = vrtc_curtime(q)
      BY <1>1 DEF vrtc_curtime, update_enabled, Kept
<1> QED
    BY <1>2, <1>3, <1>4

\* The timer is made again whenever the periodic rate is another one.
LEMMA RetimeKeeps ==
    ASSUME NEW q, ClockOk(q), NEW o, ClockOk(o), TimerOk(o), q.timer = o.timer,
           NEW n, n = Retime(q, vrtc_freq(o)), LineOk(q)
    PROVE  /\ ClockOk(n) /\ LineOk(n) /\ TimerOk(n) /\ vrtc_curtime(n) = vrtc_curtime(q)
           /\ n.rung = q.rung
<1>1. n = q \/ n = [q EXCEPT !.timer = vrtc_freq(q)]
      BY DEF Retime
<1>2. vrtc_freq(q) \in Int /\ vrtc_freq(o) \in Int
      BY DEF vrtc_freq, ClockOk, Clock, OneSecond
<1>3. /\ n \in Clock /\ n.up = q.up /\ n.time = q.time /\ n.fields = q.fields /\ n.rung = q.rung
      /\ n.flags = q.flags /\ n.irq = q.irq /\ n.swallowed = q.swallowed
      /\ n.now = q.now /\ n.div = q.div /\ n.rate = q.rate /\ n.halt = q.halt
      /\ n.pie = q.pie /\ n.aie = q.aie /\ n.uie = q.uie
      BY <1>1, <1>2 DEF Clock, ClockOk
<1>4. ClockOk(n)
      BY <1>3 DEF ClockOk
<1>5. LineOk(n)
      BY <1>3 DEF LineOk, Asks
<1>6. vrtc_curtime(n) = vrtc_curtime(q)
      BY <1>3 DEF vrtc_curtime, update_enabled
<1>7. TimerOk(n)
  <2> SUFFICES ASSUME q.pie, q.div, q.rate > 0 PROVE n.timer = q.rate
      BY <1>3 DEF TimerOk
  <2>1. vrtc_freq(q) = q.rate
        BY DEF vrtc_freq
  <2>2. CASE vrtc_freq(o) # q.rate
        BY <2>1, <2>2 DEF Retime, ClockOk, Clock
  <2>3. CASE vrtc_freq(o) = q.rate
    <3>1. o.pie /\ o.div /\ o.rate = q.rate
          BY <2>3 DEF vrtc_freq, OneSecond
    <3>2. n.timer = q.timer
          BY <2>1, <2>3 DEF Retime
    <3> QED
        BY <3>1, <3>2 DEF TimerOk
  <2> QED
      BY <2>2, <2>3
<1> QED
    BY <1>3, <1>4, <1>5, <1>6, <1>7

\* Enables and the halt bit: halting stops the clock, and unhalting starts it
\* from the registers the guest wrote.
LEMMA SetRegB ==
    ASSUME NEW q, ClockOk(q), LineOk(q), TimerOk(q), vrtc_curtime(q) = q.time,
           update_enabled(q) => q.up = q.now,
           NEW b \in RegBs, ~(q.halt /\ ~b.halt /\ q.fields = -1),
           NEW n, n = vrtc_set_reg_b(q, b)
    PROVE  /\ ClockOk(n) /\ LineOk(n) /\ TimerOk(n)
           /\ vrtc_curtime(n) = IF b.halt THEN -1 ELSE IF q.halt THEN q.fields ELSE q.time
           /\ q.rung => n.rung
<1> DEFINE s == [q EXCEPT !.halt = b.halt, !.pie = b.pie, !.aie = b.aie, !.uie = b.uie]
           h == IF b.halt = q.halt THEN s
                ELSE IF b.halt THEN Halted(s) ELSE vrtc_time_update(s, s.fields, s.now)
           same == <<b.pie, b.aie, b.uie>> = <<q.pie, q.aie, q.uie>>
           c == IF ~same THEN vrtc_set_reg_c(h, h.flags) ELSE h
           Good(m) == /\ m \in Clock /\ m.now = q.now /\ m.div = q.div /\ m.rate = q.rate /\ m.timer = q.timer
                      /\ m.halt = b.halt /\ m.up <= m.now /\ m.fields >= -1
                      /\ m.time = IF b.halt THEN -1 ELSE IF q.halt THEN q.fields ELSE q.time
                      /\ update_enabled(m) => m.up = m.now
                      /\ q.rung => m.rung
<1>1. n = Retime(c, vrtc_freq(q))
      BY DEF vrtc_set_reg_b
<1>2. b.halt \in BOOLEAN /\ b.pie \in BOOLEAN /\ b.aie \in BOOLEAN /\ b.uie \in BOOLEAN
      BY DEF RegBs
<1>3. /\ q \in Clock /\ q.up <= q.now /\ q.time >= -1 /\ q.fields >= -1 /\ q.rate >= 0
      /\ q.halt <=> q.time = -1
      BY DEF ClockOk
<1>4. /\ s \in Clock /\ s.now = q.now /\ s.div = q.div /\ s.rate = q.rate /\ s.timer = q.timer
      /\ s.halt = b.halt /\ s.pie = b.pie /\ s.aie = b.aie /\ s.uie = b.uie
      /\ s.up = q.up /\ s.time = q.time /\ s.fields = q.fields /\ s.rung = q.rung
      /\ s.flags = q.flags /\ s.irq = q.irq /\ s.swallowed = q.swallowed
      BY <1>2, <1>3, Zenon DEF Clock
<1>5. /\ s.now \in Int /\ s.up \in Int /\ s.fields \in Int /\ s.time \in Int
      BY <1>4, Zenon DEF Clock
<1>6. same => LineOk(s)
      BY <1>4 DEF LineOk, Asks
<1> HIDE DEF s
<1>7. Good(h) /\ (same => LineOk(h))
  <2>1. CASE b.halt = q.halt
        BY <1>3, <1>4, <1>6, <2>1 DEF update_enabled, Broken
  <2>2. CASE b.halt # q.halt /\ ~b.halt
    <3>1. h = vrtc_time_update(s, s.fields, s.now)
          BY <2>2
    <3> HIDE DEF h, same
    <3>2. /\ h \in Clock /\ Kept(h, s) /\ h.up = s.now /\ h.fields >= -1
          /\ h.time = IF s.fields # -1 /\ s.halt THEN s.time ELSE s.fields
          /\ LineOk(s) => LineOk(h)
          /\ s.rung => h.rung
          BY <1>3, <1>4, <1>5, <3>1, TimeUpdate
    <3>3. q.halt
          BY <1>2, <1>3, <2>2 DEF Clock
    <3> QED
        BY <1>4, <1>5, <1>6, <2>2, <3>2, <3>3 DEF Kept
  <2>3. CASE b.halt # q.halt /\ b.halt
    <3> DEFINE p == secs_to_rtc(s, s.time, TRUE)
               w == [p EXCEPT !.uie = FALSE, !.swallowed = @ \/ (s.uie /\ s.irq)]
    <3>1. h = vrtc_time_update(w, -1, s.up)
          BY <2>3 DEF Halted, Broken
    <3>2. p = s \/ (p = [s EXCEPT !.fields = s.time] /\ s.time >= 0)
          BY <1>5 DEF secs_to_rtc
    <3> HIDE DEF p
    <3>3. /\ p \in Clock /\ Kept(p, s) /\ p.rung = s.rung /\ p.fields >= -1
          /\ p.flags = s.flags /\ p.irq = s.irq /\ p.swallowed = s.swallowed
          BY <1>3, <1>4, <1>5, <3>2 DEF Clock, Kept
    <3>4. /\ w \in Clock /\ w.now = p.now /\ w.div = p.div /\ w.rate = p.rate /\ w.timer = p.timer
          /\ w.halt = p.halt /\ w.pie = p.pie /\ w.aie = p.aie /\ ~w.uie
          /\ w.rung = p.rung /\ w.fields = p.fields
          /\ w.flags = p.flags /\ w.irq = p.irq /\ (w.swallowed <=> p.swallowed \/ (s.uie /\ s.irq))
          BY <3>3, Zenon DEF Clock
    <3>5. same => LineOk(w)
          BY <1>6, <3>3, <3>4 DEF LineOk, Asks, Kept
    <3> HIDE DEF w, h, same
    <3>6. /\ h \in Clock /\ Kept(h, w) /\ h.up = s.up /\ h.fields >= -1 /\ h.time = -1
          /\ LineOk(w) => LineOk(h)
          /\ w.rung => h.rung
          BY <1>5, <3>1, <3>3, <3>4, TimeUpdate
    <3>7. ~update_enabled(h)
          BY <3>6 DEF update_enabled, Broken
    <3>8. h.now = q.now /\ h.div = q.div /\ h.rate = q.rate /\ h.timer = q.timer /\ h.halt = b.halt
          BY <1>4, <3>3, <3>4, <3>6 DEF Kept
    <3>9. h.up <= h.now /\ h.time = IF b.halt THEN -1 ELSE IF q.halt THEN q.fields ELSE q.time
          BY <1>3, <1>4, <2>3, <3>6, <3>8
    <3>10. q.rung => h.rung
          BY <1>4, <3>3, <3>4, <3>6
    <3> QED
        BY <3>5, <3>6, <3>7, <3>8, <3>9, <3>10
  <2> QED
      BY <2>1, <2>2, <2>3, Zenon
<1> HIDE DEF h
<1>8. Good(c) /\ LineOk(c)
  <2>1. CASE same
        BY <1>7, <2>1, Zenon
  <2>2. CASE ~same
    <3>1. c = vrtc_set_reg_c(h, h.flags) /\ h.flags \in SUBSET {"alarm", "period", "update"}
          BY <1>7, <2>2 DEF Clock
    <3> HIDE DEF c, same
    <3>2. /\ c \in Clock /\ Kept(c, h)
          /\ c.up = h.up /\ c.time = h.time /\ c.fields = h.fields /\ c.rung = h.rung
          /\ c.flags = h.flags /\ ~c.swallowed
          /\ c.irq <=> Asks(c, h.flags)
          BY <1>7, <3>1, SetRegC
    <3>3. LineOk(c)
          BY <3>2 DEF LineOk
    <3>4. update_enabled(c) <=> update_enabled(h)
          BY <3>2 DEF update_enabled, Kept
    <3> QED
        BY <1>7, <3>2, <3>3, <3>4 DEF Kept
  <2> QED
      BY <2>1, <2>2, Zenon
<1> HIDE DEF c, same
<1>9. ClockOk(c)
      BY <1>2, <1>3, <1>8 DEF ClockOk
<1>10. vrtc_curtime(c) = c.time
       BY <1>8 DEF vrtc_curtime, Clock
<1> QED
    BY <1>1, <1>3, <1>8, <1>9, <1>10, RetimeKeeps

\* A Tick is seen only by a clock that runs.
LEMMA TickKeeps ==
    ASSUME NEW q, ClockOk(q), LineOk(q), TimerOk(q), NEW n, n = [q EXCEPT !.now = @ + 1]
    PROVE  /\ ClockOk(n) /\ LineOk(n) /\ TimerOk(n)
           /\ vrtc_curtime(n) = IF update_enabled(q) THEN vrtc_curtime(q) + 1 ELSE vrtc_curtime(q)
<1>1. /\ n \in Clock /\ n.now = q.now + 1 /\ n.up = q.up /\ n.time = q.time /\ n.fields = q.fields
      /\ n.flags = q.flags /\ n.irq = q.irq /\ n.swallowed = q.swallowed
      /\ n.div = q.div /\ n.rate = q.rate /\ n.halt = q.halt /\ n.timer = q.timer
      /\ n.pie = q.pie /\ n.aie = q.aie /\ n.uie = q.uie
      BY DEF ClockOk, Clock
<1>2. q.now \in Int /\ q.up \in Int /\ q.time \in Int
      BY DEF ClockOk, Clock
<1>3. ClockOk(n) /\ TimerOk(n)
      BY <1>1, <1>2 DEF ClockOk, TimerOk
<1>4. LineOk(n)
      BY <1>1 DEF LineOk, Asks
<1>5. vrtc_curtime(n) = IF update_enabled(q) THEN vrtc_curtime(q) + 1 ELSE vrtc_curtime(q)
      BY <1>1, <1>2 DEF vrtc_curtime, update_enabled
<1> QED
    BY <1>3, <1>4, <1>5

\* Registers the clock does not run on: the date registers, the alarm.
LEMMA FieldsKeep ==
    ASSUME NEW q, ClockOk(q), LineOk(q), TimerOk(q), NEW d \in Int, d >= -1, NEW a \in Int,
           NEW n, n = [q EXCEPT !.fields = d] \/ n = [q EXCEPT !.alarm = a]
    PROVE  /\ ClockOk(n) /\ LineOk(n) /\ TimerOk(n) /\ vrtc_curtime(n) = vrtc_curtime(q)
           /\ n.rung = q.rung
<1>1. /\ n \in Clock /\ n.now = q.now /\ n.up = q.up /\ n.time = q.time /\ n.fields >= -1
      /\ n.flags = q.flags /\ n.irq = q.irq /\ n.swallowed = q.swallowed
      /\ n.div = q.div /\ n.rate = q.rate /\ n.halt = q.halt /\ n.timer = q.timer
      /\ n.pie = q.pie /\ n.aie = q.aie /\ n.uie = q.uie /\ n.rung = q.rung
      BY DEF ClockOk, Clock
<1>2. ClockOk(n) /\ TimerOk(n)
      BY <1>1 DEF ClockOk, TimerOk
<1>3. LineOk(n)
      BY <1>1 DEF LineOk, Asks
<1>4. vrtc_curtime(n) = vrtc_curtime(q)
      BY <1>1 DEF vrtc_curtime, update_enabled
<1> QED
    BY <1>1, <1>2, <1>3, <1>4

\* Flags change neither the time nor the timer.
LEMMA FlagsKeep ==
    ASSUME NEW q, ClockOk(q), TimerOk(q), NEW f \in SUBSET {"alarm", "period", "update"},
           NEW n, n = vrtc_set_reg_c(q, f)
    PROVE  /\ ClockOk(n) /\ LineOk(n) /\ TimerOk(n) /\ vrtc_curtime(n) = vrtc_curtime(q)
           /\ n.rung = q.rung
<1>1. q \in Clock
      BY DEF ClockOk
<1>2. /\ n \in Clock /\ Kept(n, q)
      /\ n.up = q.up /\ n.time = q.time /\ n.fields = q.fields /\ n.rung = q.rung
      /\ n.flags = f /\ ~n.swallowed
      /\ n.irq <=> Asks(n, f)
      BY <1>1, SetRegC
<1>3. ClockOk(n) /\ TimerOk(n)
      BY <1>2 DEF ClockOk, TimerOk, Kept
<1>4. LineOk(n)
      BY <1>2 DEF LineOk
<1>5. vrtc_curtime(n) = vrtc_curtime(q)
      BY <1>2 DEF vrtc_curtime, update_enabled, Kept
<1> QED
    BY <1>2, <1>3, <1>4, <1>5

\* Letting the dividers run again does not count the time they stood still.
LEMMA SetRegA ==
    ASSUME NEW q, ClockOk(q), LineOk(q), TimerOk(q), vrtc_curtime(q) = q.time,
           update_enabled(q) => q.up = q.now,
           NEW div \in BOOLEAN, NEW rate \in Nat, NEW n, n = vrtc_set_reg_a(q, div, rate)
    PROVE  /\ ClockOk(n) /\ LineOk(n) /\ TimerOk(n) /\ vrtc_curtime(n) = q.time
           /\ q.rung => n.rung
<1> DEFINE since == IF ~q.div /\ div THEN q.now ELSE q.up
           m == [q EXCEPT !.div = div, !.rate = rate, !.up = since]
<1>1. n = Retime(m, vrtc_freq(q))
      BY DEF vrtc_set_reg_a
<1>2. /\ m \in Clock /\ m.now = q.now /\ m.time = q.time /\ m.fields = q.fields
      /\ m.flags = q.flags /\ m.irq = q.irq /\ m.swallowed = q.swallowed
      /\ m.div = div /\ m.rate = rate /\ m.halt = q.halt /\ m.timer = q.timer
      /\ m.pie = q.pie /\ m.aie = q.aie /\ m.uie = q.uie /\ m.rung = q.rung
      /\ m.up = since
  <2>1. since \in Int /\ rate \in Int /\ q \in Clock
        BY DEF ClockOk, Clock
  <2> HIDE DEF since
  <2>2. m \in Clock
        BY <2>1, Zenon DEF Clock
  <2> QED
      BY <2>1, <2>2 DEF Clock
<1> HIDE DEF m
<1>3. q.now \in Int /\ q.up \in Int /\ q.time \in Int /\ m.up \in Int
      BY <1>2 DEF ClockOk, Clock
<1>4. ClockOk(m)
      BY <1>2, <1>3 DEF ClockOk, since
<1>5. LineOk(m)
      BY <1>2 DEF LineOk, Asks
<1>6. vrtc_curtime(m) = q.time
      BY <1>2, <1>3 DEF vrtc_curtime, update_enabled, since
<1> QED
    BY <1>1, <1>2, <1>4, <1>5, <1>6, RetimeKeeps

\* The time of the clock, its line and its timer.
RtcInv == ClockOk(r) /\ LineOk(r) /\ TimerOk(r) /\ vrtc_curtime(r) = ref

\* At start the clock runs from the host's date and nothing is flagged.
LEMMA RtcStarts == RtcInit => RtcInv
<1> SUFFICES ASSUME RtcInit PROVE RtcInv
    OBVIOUS
<1>1. PICK t \in Dates :
         /\ r = [now |-> 0, up |-> 0, time |-> t, fields |-> t, div |-> TRUE, rate |-> 0, halt |-> FALSE,
                 pie |-> FALSE, aie |-> FALSE, uie |-> FALSE, flags |-> {}, irq |-> FALSE, swallowed |-> FALSE,
                 timer |-> 0, alarm |-> 0, rung |-> FALSE]
         /\ ref = t
      BY Zenon DEF RtcInit
<1>2. t \in Nat
      BY RtcAssumption
<1>3. r \in Clock
      BY <1>1, <1>2 DEF Clock
<1> QED
    BY <1>1, <1>2, <1>3
    DEF RtcInv, ClockOk, LineOk, Asks, TimerOk, vrtc_curtime, update_enabled, Broken

\* The step of AlarmNotSkipped.
AlarmKept == over' = "no" => Due \subseteq Due' \/ rung'

\* One case per access, after it has brought the clock up to date.
LEMMA RtcMoves == RtcInv /\ RtcNext => RtcInv' /\ AlarmKept
<1> SUFFICES ASSUME RtcInv, RtcNext PROVE RtcInv' /\ AlarmKept
    OBVIOUS
<1> DEFINE q == Updated(r)
           Post(n) == ClockOk(n) /\ LineOk(n) /\ TimerOk(n)
<1>1. /\ ClockOk(q) /\ Kept(q, r) /\ LineOk(q)
      /\ q.time = ref /\ vrtc_curtime(q) = q.time
      /\ update_enabled(q) => q.up = q.now
      /\ Due # {} => q.rung
      BY UpdatedKeeps DEF RtcInv, Due
<1>2. TimerOk(q)
      BY <1>1 DEF RtcInv, TimerOk, Kept
<1>3. ASSUME NEW n, Post(n), To(n), ref' = vrtc_curtime(n)
      PROVE  RtcInv' /\ (n.rung => rung')
  <2>1. r' = [n EXCEPT !.rung = FALSE]
        BY <1>3 DEF To
  <2> QED
      BY <1>3, <2>1, ToKeeps DEF RtcInv, To
<1>4. q.time \in Int /\ q.fields \in Int /\ q.time >= -1 /\ q.flags \in SUBSET {"alarm", "period", "update"}
      BY <1>1 DEF ClockOk, Clock
<1> HIDE DEF q
<1>5. CASE Tick
  <2>1. RtcInv'
        BY <1>3, <1>5, TickKeeps DEF Tick, RtcInv
  <2>2. /\ r'.aie = r.aie /\ r'.time = r.time /\ r'.alarm = r.alarm /\ r'.div = r.div /\ r'.halt = r.halt
        /\ r'.now = r.now + 1 /\ r'.up = r.up /\ r.now \in Int /\ r.up \in Int /\ r.time \in Int
        BY <1>5 DEF Tick, To, RtcInv, ClockOk, Clock
  <2>3. Due \subseteq Due'
        BY <2>2 DEF Due, vrtc_curtime, update_enabled, Matches
  <2> QED
      BY <2>1, <2>3 DEF AlarmKept
<1>6. CASE vrtc_update_timer
      BY <1>1, <1>2, <1>3, <1>6 DEF vrtc_update_timer, q, AlarmKept
<1>7. CASE vrtc_periodic_timer
  <2>1. r.flags \union {"period"} \in SUBSET {"alarm", "period", "update"}
        BY DEF RtcInv, ClockOk, Clock
  <2>2. RtcInv'
        BY <1>3, <1>7, <2>1, FlagsKeep DEF vrtc_periodic_timer, RtcInv
  <2>3. /\ r'.aie = r.aie /\ r'.time = r.time /\ r'.alarm = r.alarm /\ r'.div = r.div /\ r'.halt = r.halt
        /\ r'.now = r.now /\ r'.up = r.up
        BY <1>7 DEF vrtc_periodic_timer, vrtc_set_reg_c, To, RtcInv, ClockOk, Clock
  <2>4. Due' = Due
        BY <2>3 DEF Due, vrtc_curtime, update_enabled, Matches
  <2> QED
      BY <2>2, <2>4 DEF AlarmKept
<1>8. ASSUME NEW b \in RegBs, WriteRegB(b) PROVE RtcInv' /\ AlarmKept
  <2>1. CASE q.halt /\ ~b.halt /\ q.fields = -1
        BY <1>8, <2>1 DEF WriteRegB, q, Broken, RtcInv, AlarmKept
  <2>2. CASE ~(q.halt /\ ~b.halt /\ q.fields = -1)
    <3>1. /\ To(vrtc_set_reg_b(q, b))
          /\ ref' = IF b.halt THEN -1 ELSE IF q.halt THEN q.fields ELSE ref
          BY <1>8, <2>2 DEF WriteRegB, q, Broken
    <3> QED
        BY <1>1, <1>2, <1>3, <2>2, <3>1, SetRegB DEF AlarmKept
  <2> QED
      BY <2>1, <2>2
<1>9. ASSUME NEW div \in BOOLEAN, NEW rate \in Nat, WriteRegA(div, rate) PROVE RtcInv' /\ AlarmKept
  <2>1. To(vrtc_set_reg_a(q, div, rate)) /\ ref' = ref
        BY <1>9 DEF WriteRegA, q
  <2> QED
      BY <1>1, <1>2, <1>3, <2>1, SetRegA DEF AlarmKept
<1>10. CASE ReadRegC
  <2>1. To(vrtc_set_reg_c(q, {})) /\ ref' = ref
        BY <1>10 DEF ReadRegC, q
  <2> QED
      BY <1>1, <1>2, <1>3, <2>1, FlagsKeep DEF AlarmKept
<1>11. Post(secs_to_rtc(q, vrtc_curtime(q), FALSE))
       /\ vrtc_curtime(secs_to_rtc(q, vrtc_curtime(q), FALSE)) = ref
       /\ secs_to_rtc(q, vrtc_curtime(q), FALSE).rung = q.rung
  <2>1. \/ secs_to_rtc(q, vrtc_curtime(q), FALSE) = q
        \/ secs_to_rtc(q, vrtc_curtime(q), FALSE) = [q EXCEPT !.fields = q.time]
        BY <1>1 DEF secs_to_rtc
  <2> QED
      BY <1>1, <1>2, <1>4, <2>1, FieldsKeep, Zenon
<1>12. CASE ReadTime
       BY <1>1, <1>3, <1>11, <1>12, Zenon DEF ReadTime, q, AlarmKept
<1>13. CASE WriteDate
  <2>1. PICK d \in Dates \union {-1} :
           To([secs_to_rtc(q, vrtc_curtime(q), FALSE) EXCEPT !.fields = d]) /\ ref' = ref
        BY <1>13, Zenon DEF WriteDate, Broken, q
  <2>2. d \in Int /\ d >= -1
        BY RtcAssumption
  <2> DEFINE p == secs_to_rtc(q, vrtc_curtime(q), FALSE)
             n == [p EXCEPT !.fields = d]
  <2>3. Post(n) /\ vrtc_curtime(n) = ref /\ n.rung = q.rung
    <3> HIDE DEF p
    <3> QED
        BY <1>11, <2>2, FieldsKeep, Zenon DEF p
  <2>4. To(n) /\ ref' = ref
        BY <2>1
  <2> HIDE DEF n
  <2> QED
      BY <1>1, <1>3, <2>3, <2>4 DEF AlarmKept
<1>14. CASE WriteAlarm
  <2>1. PICK a \in {-1} \union (0 .. Minute - 1) : To([q EXCEPT !.alarm = a]) /\ ref' = ref
        BY <1>14 DEF WriteAlarm, AnySecond, q
  <2>2. a \in Int
        BY RtcAssumption
  <2> QED
      BY <1>1, <1>2, <1>3, <2>1, <2>2, FieldsKeep DEF AlarmKept
<1>15. CASE WriteCentury
  <2>1. PICK d \in {-Century, Century} :
           LET t == q.time + d
           IN  /\ ~r.halt /\ r.time # -1
               /\ IF t < 0 THEN UNCHANGED <<r, ref>> /\ over' # "no"
                  ELSE IF Backwards(q, t) THEN UNCHANGED <<r, ref>> /\ over' # "no"
                  ELSE To([vrtc_time_update(q, t, q.now) EXCEPT !.fields = t]) /\ ref' = t
        BY <1>15 DEF WriteCentury, Broken, q
  <2> DEFINE t == q.time + d
             n == vrtc_time_update(q, t, q.now)
  <2>2. t \in Int /\ q.now \in Int
        BY <1>1, <1>4, RtcAssumption DEF ClockOk, Clock
  <2>3. CASE UNCHANGED <<r, ref>> /\ over' # "no"
        BY <2>3 DEF RtcInv, AlarmKept
  <2>4. CASE t >= 0 /\ To([n EXCEPT !.fields = t]) /\ ref' = t
    <3> HIDE DEF t
    <3>1. /\ n \in Clock /\ Kept(n, q) /\ n.up = q.now /\ n.fields >= -1
          /\ n.time = IF t # -1 /\ q.halt THEN q.time ELSE t
          /\ LineOk(q) => LineOk(n)
          /\ q.rung => n.rung
          BY <1>1, <2>2, <2>4, TimeUpdate DEF ClockOk
    <3> HIDE DEF n
    <3>2. ~q.halt
          BY <1>1, <2>1 DEF Kept
    <3>3. Post(n) /\ vrtc_curtime(n) = t
          BY <1>1, <1>2, <2>2, <2>4, <3>1, <3>2
          DEF ClockOk, TimerOk, Kept, vrtc_curtime
    <3> QED
        BY <1>1, <1>3, <2>2, <2>4, <3>1, <3>3, FieldsKeep DEF AlarmKept
  <2> QED
      BY <2>1, <2>2, <2>3, <2>4
<1>16. \/ Tick \/ vrtc_update_timer \/ vrtc_periodic_timer \/ ReadRegC
       \/ ReadTime \/ WriteDate \/ WriteAlarm \/ WriteCentury
       \/ \E b \in RegBs : WriteRegB(b)
       \/ \E div \in BOOLEAN, rate \in Nat : WriteRegA(div, rate)
       BY RtcAssumption DEF RtcNext, Guest
<1> QED
    BY <1>5, <1>6, <1>7, <1>8, <1>9, <1>10, <1>12, <1>13, <1>14, <1>15, <1>16

\* The steps together.
LEMMA RtcStep == RtcInv /\ [RtcNext]_rtcVars => RtcInv' /\ [AlarmKept]_rtcVars
<1>1. ASSUME RtcInv, RtcNext PROVE RtcInv' /\ AlarmKept
      BY <1>1, RtcMoves
<1>2. ASSUME RtcInv, UNCHANGED rtcVars PROVE RtcInv'
      BY <1>2 DEF RtcInv, rtcVars
<1> QED
    BY <1>1, <1>2

\* The invariant is the two properties of the clock and what they rest on.
LEMMA RtcImplies == RtcInv => RtcSound
<1> QED
    BY DEF RtcInv, LineOk, TimerOk, Asks, RtcSound, ClockKept, RtcLines

\* The clock keeps its time and its line says what the flags ask for, for any
\* dates, rates and lengths of run (vrtc_time_update, vrtc_set_reg_a,
\* vrtc_set_reg_b, vrtc_set_reg_c).
THEOREM ClockAlways == RtcSpec => []RtcSound
<1> QED
    BY RtcStarts, RtcStep, RtcImplies, PTL DEF RtcSpec

\* No second of the alarm is passed over, whatever is read, written or left
\* until the update timer (vrtc_data_handler, vrtc_time_update).
THEOREM AlarmAlways == RtcSpec => AlarmNotSkipped
<1> QED
    BY RtcStarts, RtcStep, PTL DEF RtcSpec, AlarmNotSkipped, AlarmKept

----------------------------------------------------------------------------
(* The watchdog: the request thread and the expiry threads share its state *)
(* without a lock.  An enabled watchdog never sleeps because whoever lets  *)
(* the timer run out also starts it again, with seconds read before; that  *)
(* these are not zero, while calm, is what has to be carried along.        *)

CONSTANTS Expiries

VARIABLES wvm, reboot_enabled, locked, wdt_enabled, timer, stray, created, seconds, stage, unlock_state,
          gpc, gsec, xpc, xsec, wsuspend, failed, calm

W == INSTANCE Wdt WITH vm <- wvm, suspend <- wsuspend

wvars == <<wvm, reboot_enabled, locked, wdt_enabled, timer, stray, created, seconds, stage, unlock_state,
           gpc, gsec, xpc, xsec, wsuspend, failed, calm>>

WdtFlags ==
    /\ reboot_enabled \in BOOLEAN /\ locked \in BOOLEAN /\ wdt_enabled \in BOOLEAN
    /\ created \in BOOLEAN /\ wsuspend \in BOOLEAN /\ failed \in BOOLEAN /\ calm \in BOOLEAN

XPlaces == {"idle", "check", "set1", "set2", "start", "read", "arm", "create"}

WdtTypes ==
    /\ wvm \in 1 .. MaxVms /\ timer \in {"none", "idle", "armed"} /\ stray \in Nat
    /\ seconds \in [1 .. 2 -> {0, 1}] /\ stage \in 0 .. 2 /\ unlock_state \in 0 .. 2
    /\ gpc \in {"idle", "start", "arm", "create", "stop", "down"} /\ gsec \in {0, 1}
    /\ xpc \in [Expiries -> XPlaces]
    /\ xsec \in [Expiries -> {0, 1}]
    /\ gpc = "down" => wvm < MaxVms

\* While calm, what a thread has read or will read is a whole second.
WholeSeconds ==
    calm =>
      /\ gpc # "down" => seconds[1] = 1 /\ seconds[2] = 1
      /\ gpc \in {"arm", "create"} => gsec = 1
      /\ \A x \in Expiries :
            /\ xpc[x] \in {"arm", "create"} => xsec[x] = 1
            /\ gpc = "down" => xpc[x] \notin {"read", "arm", "create"}

\* The timer is about to be stopped only once the watchdog is switched off, and the
\* lock does not outlive the VM.
StopsDisabled ==
    /\ gpc \in {"stop", "down"} => ~wdt_enabled
    /\ gpc = "down" => ~locked

\* The inductive invariant of the watchdog.
WdtInv == WdtFlags /\ WdtTypes /\ WholeSeconds /\ StopsDisabled /\ W!NeverAsleep

\* The watchdog starts switched off.
LEMMA WdtInit == W!Init => WdtInv
<1> SUFFICES ASSUME W!Init PROVE WdtInv
    OBVIOUS
<1>1. WdtFlags
      BY Zenon DEF W!Init, WdtFlags
<1>2. WdtTypes
      BY PlatformAssumption DEF W!Init, WdtTypes, XPlaces
<1>3. WholeSeconds /\ StopsDisabled /\ W!NeverAsleep
      BY DEF W!Init, WholeSeconds, StopsDisabled, W!NeverAsleep
<1> QED
    BY <1>1, <1>2, <1>3 DEF WdtInv

\* The guest's register writes.
LEMMA WdtWrites ==
    ASSUME WdtInv,
           \/ \E b \in BOOLEAN : W!WriteConfig(b)
           \/ \E l, e \in BOOLEAN : W!WriteLock(l, e)
           \/ \E v \in {"unlock1", "unlock2", "reload"} : W!WriteReload(v)
           \/ \E k \in 0 .. 2, s \in Timeouts : W!WriteTimer(k, s)
    PROVE  WdtInv'
<1> USE DEF WdtInv, W!Guest, W!timers
<1>1. ASSUME NEW b \in BOOLEAN, W!WriteConfig(b)
      PROVE  WdtInv'
  <2>1. WdtFlags'
        BY <1>1, Zenon DEF W!WriteConfig, WdtFlags
  <2>2. WdtTypes' /\ WholeSeconds' /\ StopsDisabled' /\ W!NeverAsleep'
        BY <1>1 DEF W!WriteConfig, WdtTypes, XPlaces, WholeSeconds, StopsDisabled, W!NeverAsleep
  <2> QED
      BY <2>1, <2>2
<1>2. ASSUME NEW l \in BOOLEAN, NEW e \in BOOLEAN, W!WriteLock(l, e)
      PROVE  WdtInv'
  <2>1. WdtFlags'
        BY <1>2, Zenon DEF W!WriteLock, WdtFlags
  <2>2. WdtTypes'
        BY <1>2 DEF W!WriteLock, WdtTypes, XPlaces
  <2>3. WholeSeconds' /\ StopsDisabled'
        BY <1>2, <2>1 DEF W!WriteLock, WdtFlags, WholeSeconds, StopsDisabled
  <2>4. W!NeverAsleep'
        BY <1>2, <2>1 DEF W!WriteLock, WdtFlags, W!NeverAsleep
  <2> QED
      BY <2>1, <2>2, <2>3, <2>4
<1>3. ASSUME NEW v \in {"unlock1", "unlock2", "reload"}, W!WriteReload(v)
      PROVE  WdtInv'
  <2>1. WdtFlags'
        BY <1>3, Zenon DEF W!WriteReload, WdtFlags
  <2>2. WdtTypes'
        BY <1>3 DEF W!WriteReload, WdtTypes, XPlaces
  <2>3. WholeSeconds' /\ StopsDisabled' /\ W!NeverAsleep'
        BY <1>3 DEF W!WriteReload, WholeSeconds, StopsDisabled, W!NeverAsleep
  <2> QED
      BY <2>1, <2>2, <2>3
<1>4. ASSUME NEW k \in 0 .. 2, NEW s \in Timeouts, W!WriteTimer(k, s)
      PROVE  WdtInv'
  <2>1. WdtFlags'
        BY <1>4, Zenon DEF W!WriteTimer, WdtFlags
  <2>2. s \in {0, 1}
        BY PlatformAssumption
  <2>3. WdtTypes'
        BY <1>4, <2>2 DEF W!WriteTimer, WdtTypes, XPlaces
  <2>4. WholeSeconds' /\ StopsDisabled' /\ W!NeverAsleep'
        BY <1>4, <2>1, <2>2 DEF W!WriteTimer, WdtFlags, WholeSeconds, StopsDisabled, W!NeverAsleep
  <2> QED
      BY <2>1, <2>3, <2>4
<1> QED
    BY <1>1, <1>2, <1>3, <1>4

\* start_wdt_timer and stop_wdt_timer on the request thread.
LEMMA WdtGuest ==
    ASSUME WdtInv, W!GuestStep
    PROVE  WdtInv'
<1> USE DEF WdtInv, W!regs, W!timers
<1>1. CASE W!GuestStart
  <2>1. WdtFlags'
        BY <1>1, Zenon DEF W!GuestStart, WdtFlags
  <2>2. WdtTypes'
        BY <1>1 DEF W!GuestStart, W!StageSeconds, WdtTypes, XPlaces
  <2>3. WholeSeconds' /\ StopsDisabled' /\ W!NeverAsleep'
        BY <1>1 DEF W!GuestStart, W!StageSeconds, WholeSeconds, StopsDisabled, W!NeverAsleep
  <2> QED
      BY <2>1, <2>2, <2>3
<1>2. CASE W!GuestArm
  <2>1. WdtFlags'
        BY <1>2, Zenon DEF W!GuestArm, W!settime, W!create, WdtFlags
  <2>2. WdtTypes'
        BY <1>2 DEF W!GuestArm, W!settime, W!create, W!Armed, WdtTypes, XPlaces
  <2>3. WholeSeconds' /\ StopsDisabled'
        BY <1>2 DEF W!GuestArm, W!settime, W!create, WholeSeconds, StopsDisabled
  <2>4. timer' = "armed" \/ failed' \/ ~calm
    <3>1. gpc \in {"arm", "create"} /\ UNCHANGED calm
          BY <1>2 DEF W!GuestArm
    <3>2. CASE timer = "none" /\ gpc = "arm"
          BY <1>2, <3>2, Zenon DEF W!GuestArm, W!settime
    <3> QED
        BY <1>2, <3>1, <3>2 DEF W!GuestArm, W!settime, W!create, W!Armed, WholeSeconds
  <2>5. W!NeverAsleep'
        BY <1>2, <2>4 DEF W!GuestArm, W!NeverAsleep
  <2> QED
      BY <2>1, <2>2, <2>3, <2>5
<1>3. CASE W!stop_wdt_timer
  <2>1. WdtFlags'
        BY <1>3, Zenon DEF W!stop_wdt_timer, WdtFlags
  <2>2. WdtTypes' /\ WholeSeconds' /\ StopsDisabled' /\ W!NeverAsleep'
        BY <1>3 DEF W!stop_wdt_timer, WdtTypes, XPlaces, WholeSeconds, StopsDisabled,
                    W!NeverAsleep
  <2> QED
      BY <2>1, <2>2
<1> QED
    BY <1>1, <1>2, <1>3 DEF W!GuestStep

\* The expiry threads: one is at work until the timer is armed again, the reset is
\* requested, or the watchdog is seen switched off.
LEMMA WdtExpiry ==
    ASSUME WdtInv, NEW x \in Expiries, W!Fire(x) \/ W!Expiry(x)
    PROVE  WdtInv'
<1> USE DEF WdtInv, W!regs, W!timers
<1>1. CASE W!Fire(x)
  <2>1. WdtFlags'
        BY <1>1, Zenon DEF W!Fire, WdtFlags
  <2>2. WdtTypes'
        BY <1>1 DEF W!Fire, WdtTypes, XPlaces
  <2>3. WholeSeconds' /\ StopsDisabled' /\ W!NeverAsleep'
        BY <1>1 DEF W!Fire, WdtTypes, WholeSeconds, StopsDisabled, W!NeverAsleep
  <2> QED
      BY <2>1, <2>2, <2>3
<1>2. CASE W!ExpCheck(x)
  <2>1. WdtFlags'
        BY <1>2, Zenon DEF W!ExpCheck, WdtFlags
  <2>2. WdtTypes'
        BY <1>2 DEF W!ExpCheck, WdtTypes, XPlaces
  <2>3. WholeSeconds' /\ StopsDisabled' /\ W!NeverAsleep'
        BY <1>2 DEF W!ExpCheck, WdtTypes, WholeSeconds, StopsDisabled, W!NeverAsleep
  <2> QED
      BY <2>1, <2>2, <2>3
<1>3. CASE W!ExpStage(x)
  <2>1. WdtFlags'
        BY <1>3, Zenon DEF W!ExpStage, WdtFlags
  <2>2. WdtTypes'
        BY <1>3 DEF W!ExpStage, WdtTypes, XPlaces
  <2>3. WholeSeconds' /\ StopsDisabled' /\ W!NeverAsleep'
        BY <1>3 DEF W!ExpStage, WdtTypes, WholeSeconds, StopsDisabled, W!NeverAsleep
  <2> QED
      BY <2>1, <2>2, <2>3
<1>4. CASE W!ExpStart(x)
  <2>1. WdtFlags'
        BY <1>4, Zenon DEF W!ExpStart, WdtFlags
  <2>2. WdtTypes'
        BY <1>4 DEF W!ExpStart, WdtTypes, XPlaces
  <2>3. WholeSeconds' /\ StopsDisabled' /\ W!NeverAsleep'
        BY <1>4 DEF W!ExpStart, WdtTypes, WholeSeconds, StopsDisabled, W!NeverAsleep
  <2> QED
      BY <2>1, <2>2, <2>3
<1>5. CASE W!ExpRead(x)
  <2>1. WdtFlags'
        BY <1>5, Zenon DEF W!ExpRead, WdtFlags
  <2>2. W!StageSeconds \in {0, 1} /\ (calm => W!StageSeconds = 1)
        BY <1>5 DEF W!ExpRead, W!StageSeconds, WdtTypes, WholeSeconds
  <2>3. WdtTypes'
        BY <1>5, <2>2 DEF W!ExpRead, WdtTypes, XPlaces
  <2>4. WholeSeconds' /\ StopsDisabled' /\ W!NeverAsleep'
        BY <1>5, <2>2 DEF W!ExpRead, WdtTypes, WholeSeconds, StopsDisabled, W!NeverAsleep
  <2> QED
      BY <2>1, <2>3, <2>4
<1>6. CASE W!ExpArm(x)
  <2>1. WdtFlags'
        BY <1>6, Zenon DEF W!ExpArm, W!settime, W!create, WdtFlags
  <2>2. WdtTypes'
        BY <1>6 DEF W!ExpArm, W!settime, W!create, W!Armed, WdtTypes, XPlaces
  <2>3. WholeSeconds' /\ StopsDisabled'
        BY <1>6 DEF W!ExpArm, W!settime, W!create, WdtTypes, WholeSeconds, StopsDisabled
  <2>4. timer' = "armed" \/ failed' \/ ~calm
    <3>1. xpc[x] \in {"arm", "create"} /\ UNCHANGED calm
          BY <1>6 DEF W!ExpArm
    <3>2. CASE timer = "none" /\ xpc[x] = "arm"
          BY <1>6, <3>2, Zenon DEF W!ExpArm, W!settime
    <3> QED
        BY <1>6, <3>1, <3>2 DEF W!ExpArm, W!settime, W!create, W!Armed, WholeSeconds
  <2>5. W!NeverAsleep'
        BY <1>6, <2>4 DEF W!ExpArm, W!NeverAsleep
  <2> QED
      BY <2>1, <2>2, <2>3, <2>5
<1> QED
    BY <1>1, <1>2, <1>3, <1>4, <1>5, <1>6 DEF W!Expiry

\* Every step preserves the invariant, the end of a VM and the start of the next
\* included.
LEMMA WdtNext ==
    ASSUME WdtInv, W!Next
    PROVE  WdtInv'
<1> USE DEF WdtInv
<1>1. CASE W!pci_wdt_deinit
  <2>1. WdtFlags'
        BY <1>1, Zenon DEF W!pci_wdt_deinit, WdtFlags
  <2>2. WdtTypes'
        BY <1>1, PlatformAssumption DEF W!pci_wdt_deinit, WdtTypes, XPlaces
  <2>3. WholeSeconds' /\ StopsDisabled' /\ W!NeverAsleep'
        BY <1>1, <2>1 DEF W!pci_wdt_deinit, WdtFlags, WholeSeconds, StopsDisabled, W!NeverAsleep
  <2> QED
      BY <2>1, <2>2, <2>3
<1>2. CASE W!pci_wdt_init
  <2>1. WdtFlags'
        BY <1>2, Zenon DEF W!pci_wdt_init, WdtFlags
  <2>2. WdtTypes'
        BY <1>2, PlatformAssumption DEF W!pci_wdt_init, WdtTypes, XPlaces
  <2>3. WholeSeconds' /\ StopsDisabled' /\ W!NeverAsleep'
        BY <1>2 DEF W!pci_wdt_init, WholeSeconds, StopsDisabled, W!NeverAsleep
  <2> QED
      BY <2>1, <2>2, <2>3
<1>3. CASE W!Exited
      BY <1>3 DEF W!Exited, W!vars, WdtFlags, WdtTypes, XPlaces, WholeSeconds, StopsDisabled,
                  W!NeverAsleep
<1> QED
    BY <1>1, <1>2, <1>3, WdtWrites, WdtGuest, WdtExpiry DEF W!Next

\* The invariant reads the variables of the watchdog only.
LEMMA WdtStutter ==
    ASSUME WdtInv, UNCHANGED wvars
    PROVE  WdtInv'
BY DEF WdtInv, WdtFlags, WdtTypes, XPlaces, WholeSeconds, StopsDisabled, W!NeverAsleep, wvars

\* An enabled watchdog with timeouts of whole seconds is never left without a timer
\* that runs or a thread that will start it, in every interleaving of kicks,
\* switching and expiries (start_wdt_timer, wdt_expired_thread).
THEOREM WatchdogAwake == W!Spec => [](W!TypeOK /\ W!NeverAsleep)
<1>1. WdtInv /\ [W!Next]_(W!vars) => WdtInv'
      BY WdtNext, WdtStutter DEF W!vars, wvars
<1>2. WdtInv => W!TypeOK /\ W!NeverAsleep
      BY DEF WdtInv, WdtFlags, WdtTypes, XPlaces, W!TypeOK
<1> QED
    BY <1>1, <1>2, WdtInit, PTL DEF W!Spec

\* While the watchdog is locked only the end of the VM switches it off
\* (pci_wdt_cfg_write).
THEOREM LockProtects == W!Spec => W!LockHolds
<1>1. ASSUME WdtInv, [W!Next]_(W!vars), locked, gpc' # "down"
      PROVE  locked' /\ wdt_enabled' = wdt_enabled
  <2>1. CASE W!GuestStep
        BY <1>1, <2>1, Zenon DEF W!GuestStep, W!GuestStart, W!GuestArm, W!stop_wdt_timer, W!regs
  <2>2. ASSUME NEW x \in Expiries, W!Fire(x) \/ W!Expiry(x)
        PROVE  locked' /\ wdt_enabled' = wdt_enabled
        BY <1>1, <2>2, Zenon DEF W!Fire, W!Expiry, W!ExpCheck, W!ExpStage, W!ExpStart, W!ExpRead,
                          W!ExpArm, W!regs
  <2>3. CASE W!pci_wdt_init
        BY <1>1, <2>3 DEF W!pci_wdt_init, WdtInv, StopsDisabled
  <2> QED
      BY <1>1, <2>1, <2>2, <2>3, Zenon
         DEF W!Next, W!vars, W!WriteConfig, W!WriteLock, W!WriteReload, W!WriteTimer,
             W!pci_wdt_deinit, W!Exited
<1>2. WdtInv /\ [W!Next]_(W!vars) => WdtInv'
      BY WdtNext, WdtStutter DEF W!vars, wvars
<1>3. WdtInv /\ [W!Next]_(W!vars)
        => [locked /\ gpc' # "down" => locked' /\ wdt_enabled' = wdt_enabled]_(W!vars)
      BY <1>1
<1> QED
    BY <1>2, <1>3, WdtInit, PTL DEF W!Spec, W!LockHolds
=============================================================================
