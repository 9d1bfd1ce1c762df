---------------------------- MODULE VirtioConsole ----------------------------
(***************************************************************************)
(* The virtio console (virtio_console.c) with one port.  The request       *)
(* thread, under base.mtx, handles the guest's notifications and a device  *)
(* reset; the main thread, without that lock, reads the back end in        *)
(* virtio_console_backend_read.  Both may close the back end.              *)
(*                                                                         *)
(* Of the queue to the guest taken is last_avail, used the index the       *)
(* device has written and avail the driver's.  be.evp is the pointer, mev  *)
(* what has become of the event it pointed to.                             *)
(***************************************************************************)
EXTENDS Integers, Sequences

CONSTANTS MaxRx,     \* chains the driver offers for input (a bound)
          MaxInput,  \* pieces of input that wait at the back end (a bound)
          MaxCtl     \* buffers the driver offers for control messages

VARIABLES be,      \* the back end: kind, open, fd, evp
          mev,     \* "live", "deleting" or "freed"
          input,   \* pieces of input, and eof
          rx,      \* the queue to the guest
          rx_ready,
          ctl,     \* buffers for control messages
          told,    \* history: the messages about the port since DEVICE_READY, and
                   \* the buffers there were for them
          cpc,     \* where the two threads are
          crashed, \* a thread has used an event that is not there
          raced,   \* a reset came while the main thread had found or held a chain
          both     \* the threads were at the back end at the same time

consoleVars == <<be, mev, input, rx, rx_ready, ctl, told, cpc, crashed, raced, both>>

Threads == {"main", "req"}

has_descs == rx.ring /\ rx.taken # rx.avail

-----------------------------------------------------------------------------
(* Closing the back end *)

\* virtio_console_reset_backend gives the event back, through a pointer that is
\* null for a file, and then forgets it.
DeleteEvent(t) ==
    /\ cpc[t] = "close"
    /\ cpc' = [cpc EXCEPT ![t] = "clear"]
    /\ IF be.evp /\ mev # "freed" THEN mev' = "deleting" /\ UNCHANGED crashed
       ELSE crashed' = TRUE /\ UNCHANGED mev
    /\ UNCHANGED <<be, input, rx, rx_ready, ctl, told, raced, both>>

ClearBackend(t) ==
    /\ cpc[t] = "clear"
    /\ cpc' = [cpc EXCEPT ![t] = "idle"]
    /\ be' = [be EXCEPT !.evp = FALSE, !.fd = FALSE, !.open = FALSE]
    /\ UNCHANGED <<mev, input, rx, rx_ready, ctl, told, crashed, raced, both>>

\* The event loop lets go of the event and closes the descriptor.
FreeEvent ==
    /\ cpc["main"] = "idle" /\ mev = "deleting"
    /\ mev' = "freed"
    /\ UNCHANGED <<be, input, rx, rx_ready, ctl, told, cpc, crashed, raced, both>>

-----------------------------------------------------------------------------
(* The main thread: virtio_console_backend_read *)

Readable == input.n > 0 \/ input.eof

Main(from, to) == cpc["main"] = from /\ cpc' = [cpc EXCEPT !["main"] = to]

\* An event that is being deleted may still be in the batch of the event loop.
ReadBegin ==
    /\ mev # "freed" /\ Readable
    /\ Main("idle", IF be.open /\ rx_ready THEN "descs" ELSE "drop")
    /\ both' = (both \/ cpc["req"] \in {"close", "clear"})
    /\ UNCHANGED <<be, mev, input, rx, rx_ready, ctl, told, crashed, raced>>

LookForChains ==
    /\ Main("descs", IF has_descs THEN "get" ELSE "drop")
    /\ UNCHANGED <<be, mev, input, rx, rx_ready, ctl, told, crashed, raced, both>>

\* Input nobody can take is read and dropped.
DropInput ==
    /\ Main("drop", IF be.fd /\ input.n = 0 THEN "close" ELSE "idle")
    /\ input' = IF be.fd THEN [input EXCEPT !.n = 0] ELSE input
    /\ UNCHANGED <<be, mev, rx, rx_ready, ctl, told, crashed, raced, both>>

\* vq_getchain does not ask whether the queue is set up: after a reset it reads
\* the old ring, and finds what is there.
GetChain ==
    /\ rx.ring => rx.taken # rx.avail
    /\ Main("get", "got")
    /\ rx' = [rx EXCEPT !.taken = @ + 1]
    /\ UNCHANGED <<be, mev, input, rx_ready, ctl, told, crashed, raced, both>>

\* No chain after all: a read into nothing returns 0, which is an error here, and
\* vq_retchain takes back what was not taken.
GetNoChain ==
    /\ rx.ring => rx.taken = rx.avail
    /\ Main("get", "close")
    /\ rx' = [rx EXCEPT !.taken = @ - 1]
    /\ UNCHANGED <<be, mev, input, rx_ready, ctl, told, crashed, raced, both>>

\* A piece of input fills the chain.  With the last chain used the function
\* runs on into its error exit.
ReadSome ==
    /\ input.n > 0 /\ be.fd
    /\ Main("got", IF has_descs THEN "get" ELSE "close")
    /\ input' = [input EXCEPT !.n = @ - 1]
    /\ rx' = [rx EXCEPT !.used = @ + 1]
    /\ UNCHANGED <<be, mev, rx_ready, ctl, told, crashed, raced, both>>

\* Mutant: the chain that was taken for nothing is kept.
ReadNothingKeeping ==
    /\ input.n = 0 \/ ~be.fd
    /\ Main("got", IF input.eof \/ ~be.fd THEN "close" ELSE "idle")
    /\ UNCHANGED <<be, mev, input, rx, rx_ready, ctl, told, crashed, raced, both>>

\* The chain is given back; without more input that is all.
ReadNothing ==
    /\ input.n = 0 \/ ~be.fd
    /\ Main("got", IF input.eof \/ ~be.fd THEN "close" ELSE "idle")
    /\ rx' = [rx EXCEPT !.taken = @ - 1]
    /\ UNCHANGED <<be, mev, input, rx_ready, ctl, told, crashed, raced, both>>

-----------------------------------------------------------------------------
(* The request thread *)

ReqIdle == cpc["req"] = "idle"

virtio_console_notify_rx ==
    /\ ReqIdle /\ rx.ring
    /\ rx_ready' = TRUE
    /\ UNCHANGED <<be, mev, input, rx, ctl, told, cpc, crashed, raced, both>>

\* Output: what the back end does not take now is dropped; an error closes it.
WriteFails ==
    /\ ReqIdle /\ rx.ring /\ be.fd
    /\ cpc' = [cpc EXCEPT !["req"] = "close"]
    /\ both' = (both \/ cpc["main"] # "idle")
    /\ UNCHANGED <<be, mev, input, rx, rx_ready, ctl, told, crashed, raced>>

\* DEVICE_READY: the port is announced, with its name, and opened, by three calls
\* of virtio_console_control_send.
DeviceReady ==
    /\ ReqIdle /\ rx.ring
    /\ cpc' = [cpc EXCEPT !["req"] = "add"]
    /\ told' = [port |-> <<>>, room |-> ctl]
    /\ UNCHANGED <<be, mev, input, rx, rx_ready, ctl, crashed, raced, both>>

PortMessages == {"add", "name", "open"}
AfterMessage(m) == IF m = "add" THEN "name" ELSE IF m = "name" THEN "open" ELSE "idle"

\* A message goes out if there is a buffer for it at this moment, and is dropped
\* otherwise, whatever became of the ones before.
virtio_console_control_send(m) ==
    /\ cpc["req"] = m
    /\ cpc' = [cpc EXCEPT !["req"] = AfterMessage(m)]
    /\ IF ctl > 0
       THEN ctl' = ctl - 1 /\ told' = [told EXCEPT !.port = Append(@, m)]
       ELSE UNCHANGED <<ctl, told>>
    /\ UNCHANGED <<be, mev, input, rx, rx_ready, crashed, raced, both>>

\* The driver answers the announcement, and is told that this is a console.
PortReady ==
    /\ ReqIdle /\ rx.ring /\ told.port # <<>>
    /\ ctl' = IF ctl > 0 THEN ctl - 1 ELSE ctl
    /\ UNCHANGED <<be, mev, input, rx, rx_ready, told, cpc, crashed, raced, both>>

\* virtio_reset_dev; the port stays ready, and so does the main thread's loop.
virtio_console_reset ==
    /\ ReqIdle /\ rx.ring
    /\ rx' = [ring |-> FALSE, avail |-> 0, taken |-> 0, used |-> 0]
    /\ ctl' = 0
    /\ raced' = (raced \/ cpc["main"] \in {"get", "got"})
    /\ UNCHANGED <<be, mev, input, rx_ready, told, cpc, crashed, both>>

-----------------------------------------------------------------------------
(* The driver and the other end *)

Start ==
    /\ ReqIdle /\ ~rx.ring
    /\ rx' = [ring |-> TRUE, avail |-> 0, taken |-> 0, used |-> 0]
    /\ UNCHANGED <<be, mev, input, rx_ready, ctl, told, cpc, crashed, raced, both>>

Offer ==
    /\ rx.ring /\ rx.avail < MaxRx
    /\ rx' = [rx EXCEPT !.avail = @ + 1]
    /\ UNCHANGED <<be, mev, input, rx_ready, ctl, told, cpc, crashed, raced, both>>

OfferCtl ==
    /\ rx.ring /\ ctl < MaxCtl
    /\ ctl' = ctl + 1
    /\ UNCHANGED <<be, mev, input, rx, rx_ready, told, cpc, crashed, raced, both>>

Input ==
    /\ be.kind # "file"
    /\ \/ input.n < MaxInput /\ ~input.eof /\ input' = [input EXCEPT !.n = @ + 1]
       \/ input' = [input EXCEPT !.eof = TRUE]
    /\ UNCHANGED <<be, mev, rx, rx_ready, ctl, told, cpc, crashed, raced, both>>

\* virtio_console_add_backend: a file is not watched.
ConsoleInit ==
    /\ \E kind \in {"tty", "file"} :
         /\ be = [kind |-> kind, open |-> TRUE, fd |-> TRUE, evp |-> kind # "file"]
         /\ mev = IF kind = "file" THEN "freed" ELSE "live"
    /\ input = [n |-> 0, eof |-> FALSE]
    /\ rx = [ring |-> FALSE, avail |-> 0, taken |-> 0, used |-> 0]
    /\ rx_ready = FALSE /\ ctl = 0 /\ told = [port |-> <<>>, room |-> 0]
    /\ cpc = [t \in Threads |-> "idle"] /\ crashed = FALSE /\ raced = FALSE /\ both = FALSE

ConsoleNext ==
    /\ ~crashed
    /\ \/ \E t \in Threads : DeleteEvent(t) \/ ClearBackend(t)
       \/ FreeEvent \/ ReadBegin \/ LookForChains \/ DropInput
       \/ GetChain \/ GetNoChain \/ ReadSome \/ ReadNothing
       \/ virtio_console_notify_rx \/ WriteFails \/ DeviceReady \/ PortReady \/ virtio_console_reset
       \/ \E m \in PortMessages : virtio_console_control_send(m)
       \/ Start \/ Offer \/ OfferCtl \/ Input

ConsoleSpec == ConsoleInit /\ [][ConsoleNext]_consoleVars

-----------------------------------------------------------------------------
(* Properties *)

\* Chains of the queue to the guest are neither leaked nor used twice: what was
\* taken is used, but for the one the main thread reads into, and it was offered
\* (vq_getchain, vq_relchain and vq_retchain in virtio_console_backend_read).
\* A reset that comes while the main thread has found or holds a chain is
\* excepted.
ConsoleChains ==
    raced \/ /\ rx.taken = rx.used + (IF cpc["main"] = "got" THEN 1 ELSE 0)
             /\ rx.taken <= rx.avail
             /\ cpc["main"] = "get" => rx.taken < rx.avail

\* A message about the port is lost only for want of a buffer: of add, name and
\* open at least as many have arrived, once they are sent, as the driver had
\* buffers when it said DEVICE_READY, whatever it offers meanwhile
\* (virtio_console_control_send).
PortAnnounced == ReqIdle => Len(told.port) >= 3 \/ Len(told.port) >= told.room

\* The event of the back end is given back once, however reads, failing writes
\* and input that stops follow each other: a close finds the event gone only if
\* the two threads were at the back end at the same time, or if it is a file,
\* which has none (virtio_console_reset_backend).
ClosedOnce == crashed => be.kind = "file" \/ both

\* Chains, messages and the event together, in every order of the two threads.
ConsoleSound == ConsoleChains /\ PortAnnounced /\ ClosedOnce
=============================================================================
