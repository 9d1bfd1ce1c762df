-------------------------------- MODULE Atkbdc -------------------------------
(***************************************************************************)
(* The keyboard controller (atkbdc.c) with its keyboard (ps2kbd.c) and     *)
(* mouse (ps2mouse.c).  Bytes on their way to the guest: k.keys is the     *)
(* FIFO of the keyboard, k.out how many the controller has taken from it,  *)
(* k.mouse how many the mouse holds, k.ctl whether an answer of the        *)
(* controller itself waits.  Of a byte only "release", the prefix 0xf0, is *)
(* told from the others.                                                   *)
(*                                                                         *)
(* The guest's accesses run under base->mtx.  ps2kbd_event and             *)
(* ps2mouse_event are the callbacks registered with console.c, for the     *)
(* display that calls it: they queue under the lock of the device, and     *)
(* only then tell the controller, under base->mtx.                         *)
(***************************************************************************)
EXTENDS Integers, Sequences

CONSTANTS FIFOSZ,        \* bytes of the controller's buffer
          PS2KBD_FIFOSZ, \* bytes of the keyboard's
          PS2MOUSE_FIFOSZ,
          CommandBytes   \* the command bytes the guest writes, as sets of bits

VARIABLES k,       \* the devices
          status,  \* the bits of the status register
          ram,     \* the bits of the command byte (ram[0])
          curcmd,  \* the command the next data byte belongs to
          pulsed,  \* the interrupts the last step pulsed
          tail,    \* sts_ctl_handler has released the lock and is not done
          event,   \* what the display has queued and the controller is not told of
          hidden   \* keyboard bytes went out of sight while the port was disabled

vars == <<k, status, ram, curcmd, pulsed, tail, event, hidden>>

-----------------------------------------------------------------------------
(* Devices *)

fifo_put(fifo, byte) == IF Len(fifo) < PS2KBD_FIFOSZ THEN Append(fifo, byte) ELSE fifo

\* fifo_put of each: the bytes that find no room are dropped.
PutAll(fifo, bytes) ==
    LET all == fifo \o bytes IN SubSeq(all, 1, IF Len(all) < PS2KBD_FIFOSZ THEN Len(all) ELSE PS2KBD_FIFOSZ)

\* What the keyboard does with a byte: a parameter is acknowledged, a command
\* is answered with one byte or more, or ignored.
ps2kbd_write(d, byte) ==
    IF d.kcmd THEN [d EXCEPT !.kcmd = FALSE, !.keys = fifo_put(@, "code")]
    ELSE CASE byte = "ack" -> [d EXCEPT !.keys = fifo_put(@, "code")]
           [] byte = "param" -> [d EXCEPT !.kcmd = TRUE, !.keys = fifo_put(@, "code")]
           [] byte = "ident" -> [d EXCEPT !.keys = PutAll(@, <<"code", "code", "code">>)]
           [] byte = "reset" -> [d EXCEPT !.keys = <<"code", "code">>]
           [] byte = "enable" -> [d EXCEPT !.kon = TRUE, !.keys = <<"code">>]
           [] byte = "disable" -> [d EXCEPT !.kon = FALSE, !.keys = fifo_put(@, "code")]
           [] OTHER -> d

KbdBytes == {"ack", "param", "ident", "reset", "enable", "disable", "other"}

\* Three bytes, if they fit.
movement_get(d) == IF d.mouse < PS2MOUSE_FIFOSZ - 3 THEN [d EXCEPT !.mouse = @ + 3] ELSE d

\* The mouse forgets what it has not sent yet before it answers.
ps2mouse_write(d, byte, insert) ==
    LET e == [d EXCEPT !.mouse = 1]
    IN  IF d.mcmd THEN [e EXCEPT !.mcmd = FALSE]
        ELSE IF insert THEN e
        ELSE CASE byte = "param" -> [e EXCEPT !.mcmd = TRUE]
               [] byte = "ident" -> [e EXCEPT !.mouse = 2]
               [] byte = "data" -> movement_get(e)
               [] byte = "reset" -> [e EXCEPT !.mouse = 3, !.mon = TRUE]
               [] byte = "enable" -> [e EXCEPT !.mon = TRUE]
               [] byte = "disable" -> [e EXCEPT !.mon = FALSE]
               [] OTHER -> e

MouseBytes == {"ack", "param", "ident", "data", "reset", "enable", "disable"}

ps2mouse_toggle(d, enable) == IF enable THEN [d EXCEPT !.mport = TRUE] ELSE [d EXCEPT !.mport = FALSE, !.mouse = 0]

-----------------------------------------------------------------------------
(* Controller.  c is a record of devices, status, command byte and pulses. *)

Now == [d |-> k, st |-> status, ram |-> ram, pulse |-> {}]

atkbdc_assert_kbd_intr(c) == IF "kint" \in c.ram THEN [c EXCEPT !.pulse = @ \union {"kbd"}] ELSE c
atkbdc_assert_aux_intr(c) == IF "aint" \in c.ram THEN [c EXCEPT !.pulse = @ \union {"aux"}] ELSE c

\* A byte that finds the buffer full is dropped.
atkbdc_kbd_queue_data(c) ==
    IF c.d.out < FIFOSZ THEN [c EXCEPT !.d.out = @ + 1, !.st = @ \union {"full"}] ELSE c

\* Translating, one code is fetched with the prefixes before it; otherwise as
\* many bytes as fit.
FetchOne(c) ==
    LET codes == {i \in DOMAIN c.d.keys : c.d.keys[i] # "release"}
        first == CHOOSE i \in codes : \A j \in codes : i <= j
    IN  IF codes = {} THEN [c EXCEPT !.d.keys = <<>>]
        ELSE atkbdc_kbd_queue_data([c EXCEPT !.d.keys = SubSeq(@, first + 1, Len(@))])

FetchAll(c) ==
    LET room == FIFOSZ - c.d.out
        n == IF Len(c.d.keys) < room THEN Len(c.d.keys) ELSE room
    IN  IF n = 0 THEN c
        ELSE [c EXCEPT !.d.keys = SubSeq(@, n + 1, Len(@)), !.d.out = @ + n, !.st = @ \union {"full"}]

atkbdc_kbd_read(c) ==
    LET f == IF "translate" \in c.ram THEN FetchOne(c) ELSE FetchAll(c)
    IN  IF ("noaux" \in c.ram \/ f.d.mouse = 0) /\ f.d.out > 0 THEN atkbdc_assert_kbd_intr(f) ELSE f

atkbdc_aux_poll(c) ==
    IF c.d.mouse > 0 THEN atkbdc_assert_aux_intr([c EXCEPT !.st = @ \union {"aux", "full"}]) ELSE c

atkbdc_poll(c) == atkbdc_kbd_read(atkbdc_aux_poll(c))

\* The mouse goes first.  With nothing there the byte read is arbitrary.
atkbdc_dequeue_data(c) ==
    IF c.d.mouse > 0
    THEN LET e == [c EXCEPT !.d.mouse = @ - 1]
         IN  atkbdc_poll(IF e.d.mouse > 0 THEN e
                         ELSE [e EXCEPT !.st = @ \ ({"aux"} \union (IF e.d.out = 0 THEN {"full"} ELSE {}))])
    ELSE LET e == [c EXCEPT !.d.out = @ - 1]
             p == IF c.d.out = 0 THEN c
                  ELSE atkbdc_poll(IF e.d.out = 0 THEN [e EXCEPT !.st = @ \ {"full"}] ELSE e)
         IN  IF p.d.mouse = 0 /\ p.d.out = 0 THEN [p EXCEPT !.st = @ \ {"aux", "full"}] ELSE p

To(c) ==
    /\ k' = c.d /\ status' = c.st /\ ram' = c.ram /\ pulsed' = c.pulse
    /\ hidden' = (c.d.out > 0 /\ "full" \notin c.st /\ (hidden \/ "nokbd" \in c.ram))

-----------------------------------------------------------------------------
(* The guest *)

ReadData ==
    /\ ~tail
    /\ curcmd' = "none"
    /\ LET c == IF k.ctl THEN [Now EXCEPT !.d.ctl = FALSE] ELSE atkbdc_dequeue_data(Now)
       IN  To([c EXCEPT !.st = @ \ {"ctrl"}])
    /\ UNCHANGED <<tail, event>>

\* A byte for the controller, after a command that takes one.
WriteParameter ==
    /\ ~tail /\ "ctrl" \in status
    /\ curcmd' = "none" /\ UNCHANGED <<tail, event>>
    /\ \/ \E bits \in CommandBytes :
            curcmd = "command byte" /\ To([Now EXCEPT !.ram = bits, !.st = @ \ {"ctrl"}])
       \/ \E byte \in MouseBytes :
            /\ curcmd = "to aux"
            /\ LET c == atkbdc_poll([Now EXCEPT !.d = ps2mouse_write(@, byte, FALSE)])
               IN  To([c EXCEPT !.st = @ \ {"ctrl"}])
       \/ /\ curcmd = "kbd outbuf"
          /\ LET c == atkbdc_kbd_queue_data(Now) IN To([c EXCEPT !.st = @ \ {"ctrl"}])
       \/ /\ curcmd = "aux outbuf"
          /\ LET c == atkbdc_aux_poll([Now EXCEPT !.d = ps2mouse_write(@, "ack", TRUE), !.st = @ \union {"aux", "full"}])
             IN  To([c EXCEPT !.st = @ \ {"ctrl"}])
       \/ curcmd = "none" /\ To([Now EXCEPT !.st = @ \ {"ctrl"}])

\* A byte for the keyboard.
WriteKeyboard ==
    \E byte \in KbdBytes :
        /\ ~tail /\ "ctrl" \notin status
        /\ To(atkbdc_poll([Now EXCEPT !.d = ps2kbd_write(@, byte)]))
        /\ UNCHANGED <<curcmd, tail, event>>

\* A controller command, up to where the handler releases the lock.
Command(c) ==
    /\ ~tail /\ tail' = TRUE
    /\ To([c EXCEPT !.st = @ \union {"ctrl"}])
    /\ UNCHANGED event

Begun == [Now EXCEPT !.d.ctl = FALSE]

Commands ==
    \/ \E cmd \in {"command byte", "to aux", "kbd outbuf", "aux outbuf"} : Command(Begun) /\ curcmd' = cmd
    \/ /\ curcmd' = "none"
       /\ \/ Command([Begun EXCEPT !.d.ctl = TRUE])
          \/ Command([Begun EXCEPT !.ram = @ \union {"nokbd"}])
          \/ Command(atkbdc_poll([Begun EXCEPT !.ram = @ \ {"nokbd"},
                                               !.st = @ \union (IF k.out > 0 THEN {"full"} ELSE {})]))
          \/ Command([Begun EXCEPT !.ram = @ \union {"noaux"}, !.d = ps2mouse_toggle(@, FALSE),
                                   !.st = @ \ {"aux", "full"}])
          \/ Command([Begun EXCEPT !.ram = @ \ {"noaux"}, !.d = ps2mouse_toggle(@, TRUE),
                                   !.st = @ \union (IF k.mouse > 0 THEN {"aux", "full"} ELSE {})])

\* Mutant: the answer of the controller is all that is announced.
CommandTailAnswer ==
    /\ tail /\ tail' = FALSE
    /\ To(IF k.ctl THEN atkbdc_assert_kbd_intr([Now EXCEPT !.st = (@ \union {"full"}) \ {"aux"}]) ELSE Now)
    /\ UNCHANGED <<curcmd, event>>

\* The rest of atkbdc_sts_ctl_handler, without the lock.
CommandTail ==
    /\ tail /\ tail' = FALSE
    /\ To(IF k.ctl THEN atkbdc_assert_kbd_intr([Now EXCEPT !.st = (@ \union {"full"}) \ {"aux"}])
          ELSE IF k.mouse > 0 /\ "noaux" \notin ram
          THEN atkbdc_assert_aux_intr([Now EXCEPT !.st = @ \union {"aux", "full"}])
          ELSE IF k.out > 0 /\ "nokbd" \notin ram THEN atkbdc_assert_kbd_intr([Now EXCEPT !.st = @ \union {"full"}])
          ELSE Now)
    /\ UNCHANGED <<curcmd, event>>

-----------------------------------------------------------------------------
(* The display *)

\* A key of the extended set begins with another prefix.
ps2kbd_keysym_queue(fifo, down, extended) ==
    PutAll(fifo, (IF extended THEN <<"code">> ELSE <<>>) \o (IF down THEN <<>> ELSE <<"release">>) \o <<"code">>)

\* A full FIFO is not announced again.
ps2kbd_event ==
    \E down, extended \in BOOLEAN :
        /\ event = "none" /\ k.kon
        /\ To([Now EXCEPT !.d.keys = ps2kbd_keysym_queue(@, down, extended)])
        /\ event' = IF Len(k.keys) < PS2KBD_FIFOSZ THEN "kbd" ELSE "none"
        /\ UNCHANGED <<curcmd, tail>>

ps2mouse_event ==
    /\ event = "none" /\ k.mon /\ k.mport
    /\ To([Now EXCEPT !.d = movement_get(@)])
    /\ event' = "mouse"
    /\ UNCHANGED <<curcmd, tail>>

\* The second half of both: the guest may have taken or dropped the bytes since.
atkbdc_event ==
    /\ event # "none" /\ event' = "none"
    /\ To(IF event = "kbd" THEN atkbdc_kbd_read(Now) ELSE atkbdc_aux_poll(Now))
    /\ UNCHANGED <<curcmd, tail>>

Init ==
    /\ k = [keys |-> <<>>, kon |-> FALSE, kcmd |-> FALSE, out |-> 0, mouse |-> 0, mon |-> TRUE, mport |-> FALSE,
            mcmd |-> FALSE, ctl |-> FALSE]
    /\ status = {} /\ ram = {} /\ curcmd = "none" /\ pulsed = {} /\ tail = FALSE
    /\ event = "none" /\ hidden = FALSE

Next ==
    \/ ReadData \/ WriteParameter \/ WriteKeyboard \/ Commands \/ CommandTail
    \/ ps2kbd_event \/ ps2mouse_event \/ atkbdc_event

Spec == Init /\ [][Next]_vars

-----------------------------------------------------------------------------
(* Properties *)

\* No byte is stranded.  While the keyboard holds one, the controller holds one
\* too, whose reading fetches it, or is about to be told of it; and between two
\* accesses the guest sees the buffer full if the controller, an enabled mouse or
\* an enabled keyboard has something for it, unless the mouse has yet to say so,
\* and the mouse's mark only if the mouse has (atkbdc_poll, atkbdc_dequeue_data,
\* atkbdc_sts_ctl_handler, atkbdc_event).  Bytes that disabling the mouse hid
\* while the keyboard was disabled stay hidden if the keyboard is enabled by the
\* command byte instead of the command.
NothingStranded ==
    /\ k.keys # <<>> => k.out > 0 \/ event = "kbd"
    /\ ~tail => \/ "full" \in status
                \/ /\ ~k.ctl
                   /\ k.mouse > 0 => "noaux" \in ram \/ event = "mouse"
                   /\ k.out > 0 => "nokbd" \in ram \/ hidden
    /\ ~tail /\ "aux" \in status => k.mouse > 0

\* Interrupts are pulses: a read that takes a device's byte and leaves another
\* pulses the interrupt of the device the next byte is from, if it is enabled
\* (atkbdc_dequeue_data).
NextAnnounced ==
    [][ (k.mouse > 0 \/ k.out > 0) /\ ~k.ctl /\ ReadData =>
            /\ k.mouse' > 0 /\ "aint" \in ram => "aux" \in pulsed'
            /\ k.mouse' = 0 /\ k.out' > 0 /\ "kint" \in ram => "kbd" \in pulsed' ]_vars
=============================================================================
