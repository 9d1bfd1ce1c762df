# A TLA+ model of the ACRN device model

The device model is a user-space process of the service OS. It emulates the
devices of one guest: it answers the guest's I/O requests, which the hypervisor
hands to it, and raises the guest's interrupts. This directory holds TLA+ modules
for its concurrent and stateful parts, TLC configurations for small instances,
and TLAPS proofs for eleven of the components. Paths below are relative to the
repository; `mevent.c:121` is line 121 of the file of that name.

## 1. The system

Threads of one process:

| Thread | Runs | Started by |
|---|---|---|
| main | `main` builds the VM, then `mevent_dispatch` until a suspend mode is set, then the teardown, and from the top for a reset | the process |
| request thread | `vm_loop`: waits for I/O requests of the vCPUs and calls the port, MMIO and PCI configuration handlers | `fbsdrun_addcpu` |
| block workers | `blockif_thr`, 8 for each disk | `blockif_open` |
| network transmit | `virtio_net_tx_thread`, one for each device | `virtio_net_init` |
| timer expiry | `wdt_expired_thread`, `vrtc_periodic_timer`, `vrtc_update_timer`: one thread for each expiry | the C library |

Main's thread also runs the callbacks of file descriptors (tap, tty, sockets).
A VM reset tears everything down and builds the next VM *in the same process*, so
static variables outlive the VM; several hazards come from that.

How the parts meet: the request thread finds the handler through `inout.c`,
`mem.c` and `core.c` (PCI); a virtio device's registers (`virtio.c`) lead to its
queues; the queues, and the command slots of AHCI, lead to `block_if.c`, a tap, a
tty or the kernel; completions come back on other threads and raise INTx
(`core.c`, `irq.c`), MSI or MSI-X; a suspend request, the watchdog, the reset port
or SIGINT sets the suspend mode (`vmmapi.c`) and wakes main through the pipe of
`mevent.c`.

### Inventory

| Part | Source (lines) | State and operations | Module | Status |
|---|---|---|---|---|
| Block back end | block_if.c (936) | queues and worker pool; request, cancel, close | BlockIf, BlockService | modelled |
| INTx and PIRQ router | core.c, irq.c (344), lpc.c | line state, holders, registers; assert, deassert, update, reprogram; allocation at boot | PciIntx, IntxRoute | modelled |
| Event loop | mevent.c (412) | two lists, epoll, pipe; add, delete, notify, dispatch, destroy | Mevent | modelled |
| MMIO and port dispatch | mem.c (271), inout.c (192) | range tree, cache, lock, handler table | PciBus | modelled |
| Watchdog | wdt_i6300esb.c (361) | registers, timer, stage | Wdt, Lifecycle | modelled |
| Power management | pm.c (305) | PM1 registers, SCI, reset port, power button | Pm, Lifecycle | modelled |
| AHCI | ahci.c (2481) | command slots, NCQ, packets, stop, reset, interrupts, transfers | Ahci, AhciIntr, AhciIov | modelled |
| Keyboard, PS/2 | atkbdc.c (572), ps2kbd.c, ps2mouse.c | buffers, command bytes, pulses | Atkbdc | modelled |
| Entropy and kernel back ends | virtio_rnd.c (482), virtio_hyper_dmabuf.c, virtio_kernel.c | status of the kernel back end, what it was told | Vbsk | modelled |
| PCI bus | core.c (2156) | BARs, command register, configuration mechanisms | PciBus | partly |
| Virtio transport | virtio.c (790), virtio.h | register file, rings, descriptors, interrupts, reset | VirtioBlk, VirtioNet, VqChain | partly |
| Virtio block | virtio_block.c (441) | notify, request, completion, reset | VirtioBlk | partly |
| Virtio network | virtio_net.c (1103) | transmit thread, receive callback, reset, stop | VirtioNet | partly |
| Virtio console | virtio_console.c (937) | port, control messages, back end | VirtioConsole | partly |
| VM life cycle | main.c (805), vmmapi.c (704) | main loop, request thread, suspend mode | Lifecycle | partly |
| xHCI, USB mouse | xhci.c (2917), usb_*.c (889) | event and command ring, slots, endpoints, control requests | Xhci | partly |
| RTC | rtc.c (1163) | time, alarm, interrupts, date conversion | Rtc, RtcTime | partly |
| UART | uart_core.c (687), uart.c | FIFO, interrupt identification, loopback | Uart | partly |
| Passthrough, MSI, MSI-X | passthrough.c (1617), core.c | assignment, capabilities, table, set-up with the hypervisor | Passthru | partly |
| LPC bridge, I/O APIC pins | lpc.c (455), ioapic.c (74) | IRQ reservation, pin allocation | IntxRoute, PciIntx | partly |
| Guest tables, kernel loading | acpi.c, mptbl.c, smbiostbl.c, sw_load.c | none: written once | | not modelled |
| Console, POST, host bridge | console.c, gc.c, post.c, consport.c, hostbridge.c | a few assignments | | not modelled |

`PROJECT.json` has the same list with a note for each part, the source lines of
every definition, and the hazards of the code with the properties that cover them.

## 2. Modules

Every action is one operation of the code, or one critical section of it where
other threads can come in between. Control is kept (guards, early returns, order);
data is counted or replaced by a small set.

**Storage and interrupts**

* **BlockIf** (`block_if.c`). `status`, `req`, `block`, `pendq` are the queue
  elements and the pending queue; `freeq` and `busyq` are sets given by `status`.
  `BlockifRequest`, `CancelPending`/`CancelBusy`/`CancelInterrupt`/`CancelWake`/
  `CancelReturn`, `CloseSet`/`CloseBroadcast`/`CloseJoin` are the three entry
  points, cut where `bc->mtx` is released or waited for. The worker is `Lock`,
  `Dequeue`, `Proc`, `Callback`, `CallbackReturn`, `Recycle`, `Wait`, `Exit`.
  `blockif_request` stays one step: it holds the mutex throughout.
  **BlockService** is the promise to the device (accept, serve once, cancel what
  has not begun, shut down when idle); BlockIf implements it.
* **Ahci** (`ahci.c`). One port as the caller of block_if: `p` is the port with its
  command list, running, active and pending slots and free requests, and the
  requests that block_if holds are the abstract ones of BlockService. The driver's
  register writes and the callbacks are the actions; the operators between them
  are the functions that the handlers call, on the port as a record.
  **AhciIntr** has the interrupts of several ports (INTx, one message, one for each
  port, the last one shared) against a driver that reads and clears the two levels
  of status. **AhciIov** cuts one transfer into requests (`ahci_build_iov`).
* **PciIntx** (`core.c`, `irq.c`). Device threads raise and lower lines; the
  request thread does too, and rewrites the mask bits and the PIRQ registers.
  `isa` and `ioapic` count asserts minus deasserts sent to the hypervisor.
* **IntxRoute** (`core.c`, `irq.c`, `ioapic.c`, `lpc.c`). A start of the VM as a
  sequence: router, platform, LPC bridge and devices in any order, routing; then
  a reset that repeats it with whatever the static variables kept.
* **Passthru** (`passthrough.c`, `core.c`). The virtual MSI capability and MSI-X
  table against the mappings in the hypervisor (`hv`) and the enables of the
  physical device (`phys`), both external; assignment, binding and release for
  each VM, with the failures that end the process.

**Virtio**

* **VirtioBlk** (`virtio.c`, `virtio_block.c`). A ring with wrapping indices in
  guest memory, the register handlers and completions under the recursive
  `base->mtx`, and a driver (external) that follows the protocol without a lock.
* **VqChain** (`virtio.c`). `vq_getchain`: one step for each descriptor, direct or
  in an indirect table, for every small table, against a definition of the request
  as a path through the tables.
* **VirtioNet** (`virtio_net.c`, `virtio.c`). Three threads and three mutexes
  (`base->mtx`, `tx_mtx`, `rx_mtx`); chains are counted. The request thread, the
  transmit thread and main are control states `vcpu`, `tx`, `main`.
* **VirtioConsole** (`virtio_console.c`). One port. Main's thread reads the back end
  without the device's lock, in steps: look for a chain, take it, read into it; a
  reset may fall between them. The request thread writes and announces the port; each
  message (add, name, open) is a step of its own, and is dropped if the driver has no
  buffer at that moment. Either thread may close the back end.
* **Vbsk** (`virtio_rnd.c`, `virtio_hyper_dmabuf.c`, `virtio_kernel.c`). What the
  kernel was told (`kern`) against what the driver has set up (`drv`, `msgs`), over
  VMs; the entropy device's own loop.

**Platform**

* **Mevent** (`mevent.c`). Lists are sets; `epoll` is what epoll watches, `batch`
  what `epoll_wait` returned. Each critical section of the mutex is one step. A device
  that deletes an entry which `mevent_destroy` has freed may crash (`pc = "crashed"`).
* **PciBus** (`core.c`, `mem.c`, `inout.c`). Base addresses and enables of the
  devices against the range tree, the one-entry cache and the port table. The
  guest writes any value to any BAR in any order.
* **Lifecycle** (`main.c`, `vmmapi.c`, `mevent.c`, `wdt_i6300esb.c`). Main, the
  request thread, one watchdog expiry and SIGINT, around the suspend mode, the
  pipe and `quit_vm_loop`. An access whose emulation fails aborts the process
  (`ServeAborts`).
* **Wdt** (`wdt_i6300esb.c`). The guest's writes and the expiry threads, which
  share the state without a lock, step by step; timers as none, idle or armed.
* **Pm** (`pm.c`). The port handlers, the SCI and the power button's event on
  SIGTERM, with the static state that the next VM inherits. A deleted event keeps its
  place in the table until the loop's `mevent_build`.
* **Rtc** (`rtc.c`). Time as the code keeps it (a base and a moment, brought up to
  date by whoever looks) against `ref`, the time that should be shown; alarm,
  periodic and update interrupts. **RtcTime** has the conversion of seconds to the
  date registers and back, against a Gregorian calendar that counts days.
* **Uart** (`uart_core.c`, `uart.c`). FIFO, registers with side effects, loopback,
  and characters that arrive on main's thread.
* **Atkbdc** (`atkbdc.c`, `ps2kbd.c`, `ps2mouse.c`). The two ports, the controller's
  buffers and the two devices. An event puts its bytes into the device's FIFO and, in
  a second step without that lock, has the controller fetch them (`atkbdc_event`); the
  tail of the command handler, which also runs unlocked, is a step of its own.
* **Xhci** (`xhci.c`, `usb_mouse.c`, `usb_core.c`). Event ring with cycle bits and
  the driver's `ERDP`, command ring, slots and endpoints with their contexts, control
  requests, ports. A command names any slot and any endpoint, configured or not or out
  of range, and may fail for its input context, for want of an output context or of
  memory; a control request may be malformed. `g` is what the driver knows and is owed.

The components meet through what the others assume of them: VirtioBlk and Ahci
assume that block_if completes every request (BlockIf: `Served`), Lifecycle takes
the watchdog's request for a reset as one action (Wdt: `Barks`), Mevent takes the
suspend mode as one bit (Lifecycle has who sets it and when), and the device models
take a chain as one value (VqChain: `ChainWalked`).

## 3. Runs

Twelve runs. Nine must pass, three must be violated: each of those states what a
comment of the repository says and TLC shows an execution of the code's own steps
that contradicts it (section 6).

| Run | Module, cfg | Shows | Instance |
|---|---|---|---|
| block_safety | MCBlockIf, BlockIf_safety | `WorkerAwake` no lost wakeup; `BlockedBehind` blocking has no cycle; `OneCallback` each request is called back or cancelled once; `CloseDrains`; `RoomWithinRing`; `ImplementsService` refinement of BlockService | 2 workers, 4 elements, 3 requests, 2 offsets; symmetric |
| block_live | MCBlockIf, BlockIf_live | `Served`; `CallersReturn`: cancel and close return | 2 workers, 2 elements, 2 requests |
| intx | MCPciIntx, PciIntx | run time: `ControllersFollow`, `LinesArrive`; boot: `RouteSound` (assertions, balance, first boot routed); passthrough: `PtSound` (messages, mapped pages, release) | 2 devices on 1 pin, 2 threads, 3 IRQs of which 2 permitted; 10 functions in 3 slots, 3 boots; 2 table entries, 4 pages, any number of VMs |
| virtio_blk | VirtioBlk, VirtioBlk | `ChainOnce`; `InterruptSeen`: no interrupt is lost, ISR and pin agree; `ChainReturned` | ring of 2, indices modulo 4, 1 reset |
| loops | MCLoops, Loops | event loop: `EventsLive`, `LoopAnswers`; network: `NetSafe`, `NetAnswers`; kernel back ends: `VbskServed`; descriptors: `ChainWalked` | 2 events, a pipe of 3 bytes, a buffer of 2; 2 chains in each queue; 2 VMs; every table of 2 direct and 2 indirect descriptors, limit 3 |
| devices | MCDevices, Devices | `AccessRouted`; `UartSound`; `KbdServed`; `ConsoleSound`; `RtcSound`, `AlarmNotSkipped` | 2 PCI devices, one with a 64-bit BAR, 2 VMs; FIFOs of 2, the mouse's of 4; 2 chains, 3 control buffers; 3 seconds |
| platform | MCPlatform, Platform | `ServedAlive`, `SuspendEndsVm`; `WdtWorks`; `SciLevel`; `DateShown` | 2 vCPUs, 2 VMs, 2 expiry threads; every day of 1970-72, around 2000 and around 2100 |
| ahci | MCAhci, Ahci | `OneRequestPerSlot`, `DoneMeansQuiet`, `CommandsEnd`; `CauseAnnounced`; `TransferExact` | 2 slots, 3 requests, a frame that is no Register H2D; 3 ports; up to 5 entries, 3 of them in a request |
| xhci | MCXhci, Xhci | `EventsSeen`, `SlotAgrees`, `Answered` | ring of 3; 2 devices, the second only to share slots and addresses |
| route_reset | IntxRoute, IntxRoute_reset | violation of `Routed` | 4 functions, 2 slots |
| net_reset | VirtioNet, VirtioNet_reset | violation of `ResetReturns` | 1 chain |
| xhci_data | MCXhci, Xhci_data | violation of `DoorbellReturns` | 1 device |

**Side by side.** `intx`, `loops`, `devices`, `platform` and `ahci` check several
components each in one run. A variable (`which`, `part`) is chosen in the initial state; a
behaviour is one of that component, the others standing still in one initial state.
Nothing is composed, no variable is shared, and a property of the instance is named
in the MC module (`RouteSound`, `WdtWorks`, ...) or, for those that are proved, in the
module that the proof and the MC module extend. The fairness of each component
is restated there with the guard on it. This keeps related questions in one
place; it says nothing about an interaction of the parts. MCXhci has one controller
and two drivers: one mixes rings, requests and ports; the other gives every
command to the first device, the ones that fail included, while the second takes and
gives back slots and addresses, with the controller's interrupts on.
MCRtc does the same for the clock: time and alarm, and the interrupts of a second.

**Why the bounds are enough.** A second worker is what makes a lost wakeup, a
cancel against a recycle and an incomplete shutdown possible; four elements and
three requests let a request be resubmitted while its old element is still busy,
and make a chain of blocked requests of length two. Two devices on one pin make
"first" and "last" holder differ. Ten functions in three slots exceed the four
INTx pins of a slot, the eight PIRQs and the eight I/O APIC pins together, so that
every allocator has to share; three boots are the shortest history in which a
second reset meets the leftovers of the first. An MSI-X table of up to two pages
in a BAR of four begins and ends at every offset in a page. A ring of two with
indices modulo four wraps and fills. Two direct and two indirect descriptors are
enough for a loop in either table, a table visited twice, a wrong index and a count
that meets the limit of three exactly or passes it in either loop. Six address
units below "4G", the last two of them the
configuration window, with memory BARs of one and two units and two ports, let ranges
touch, overlap, swap and cover the window. A
pipe buffer of two is filled exactly by two notifications. Two expiry threads race
each other, and outlive the VM that started them. Two command slots make "the next
one" and "another one" differ, and three requests serve a command of two parts
beside a second one. An event ring of three fills and wraps. The chosen years have
leap days, the leap year 2000 and the common year 2100.

**Bounds** are constants: `MaxDescs`, `MaxPipe`, `MaxResets`, `MaxVms`, `MaxBoots`,
`MaxOffer`, `MaxTyped`, `MaxRx`, `MaxInput`, `MaxCtl`, `MaxNow`, `MaxTime`, `MaxPrdt`,
`MaxEntry`, `MaxLen`, `TableSize`, `RingSize`.
Once one is reached only the action it bounds stops. A run allows a behaviour to
stop (`CHECK_DEADLOCK FALSE`) where the process really may, or a bound ends it: after
the teardown of the event loop, after the boots of IntxRoute_reset, when a walk over
descriptors has ended, when a driver has nothing more to ask, and in VirtioNet when
the device is stopped or the threads hang on each other (which `ResetReturns` is
about).

**Mutants.** For every property of a passing run there is an operator next to the
definition it replaces, marked *Mutant*, that changes the code as a plausible slip
would (a signal left out, a test dropped, an order swapped), and TLC finds the
property violated.

## 4. Fairness

Strong fairness stands for mutexes: a thread that waits for one gets it if it is
free again and again. POSIX mutexes are not first come, first served, so this is
an assumption on the scheduler: that nobody else wins the race for ever. Weak
fairness stands for a thread being scheduled. Nothing is assumed of the guest (but
for the drivers of VirtioBlk and Xhci, below), of descriptors becoming ready, of
timers other than an armed watchdog timer, or of
the device that submits, cancels or closes, unless the property says so.

* BlockIf: workers and callers (strong), delivery of SIGCONT (weak), and the
  device's lock is released.
* PciIntx: an operation that has begun ends (weak), the update that follows a
  configuration write gets the lock (strong).
* VirtioNet: the three threads (strong).
* VirtioBlk: handlers get the mutex (strong); block_if completes every request
  (strong, justified by `Served` of BlockIf); the driver kicks after adding and takes
  its interrupts.
* Ahci: the thread that stops a port goes on (weak); block_if completes every
  request and its callback gets the mutex (strong, as above).
* Mevent, Lifecycle: the threads run (weak).
* Wdt: an armed timer fires, expiry threads and the request thread go on (weak).
* Xhci: the driver handles an interrupt it was sent (weak).

`ChainReturned` excepts a guest that keeps one notify handler busy for ever:
`virtio_blk_notify` holds the mutex until the ring is empty.

## 5. Proofs

TLAPS proves the following for every value of the constants, from the assumptions
named in the modules. Most say only that sorts are distinct, counts are natural
numbers and arrays are finite (`BlockIfAssumption`, `FiniteAssumption`,
`PciIntxAssumption`, `MeventAssumption`, `LoopsAssumption`, `PlatformAssumption`,
`RtcAssumption`, `BusAssumption`; `RingAssumption` also that the modulus of the ring's
indices is a proper multiple of its size, as 2^16 is of every size the device has). One
says more: `BootAssumption` of PciBus, that what
the first fit of `pci_emul_alloc_resource` hands out at the start lies apart, and
outside the configuration window, where `PCI_EMUL_MEMLIMIT32` ends. It is about a
fold over the devices, so it is assumed and not proved; TLC evaluates it in the run
`devices`. But for two action properties and the refinement the theorems have the
form `Spec => []P`.

The theorems are stated for the specification of a component, whose steps leave the
other parts of a run alone. LoopParts, LifeState, PmState and MCBus exist for this:
they have the variables of a component under the names it has in a run, and the
properties asked of them (`NetSafe`, `VbskServed`, `ServedAlive`, `SciLevel`,
`AccessRouted`), without the other parts of the run; the MC module and the proofs
extend them.

* **BlockIfInv, BlockIfProofs**, for any number of workers, elements and requests:
  `NoLostWakeup` (`WorkerAwake`), `ExactlyOneCallback` (`OneCallback`),
  `BlockingIsAcyclic` (`BlockedBehind`), `CloseLeavesNothing` (`CloseDrains`),
  `TypeCorrect`. The inductive invariant `IInv` adds `QueueStatus` (an element is
  on the queue its status names), `LockOwner`, `WorkerElem` (a worker owns its
  element), `CancelTarget` and `CloseOrder`. It is needed because `WorkerAwake` is
  not inductive: a worker may wait although something is queued only if that is
  BLOCKed behind an element another worker is busy with. That is `BlockedBehind`,
  which holds because the offset of a queued request does not change (`OneCallback`)
  and because a busy element has a worker (`WorkerElem`). `CloseDrains` follows from
  `IInv`. `BlockIfInv` has the invariant, the initial state and the steps that leave
  the queues alone, `BlockIfProofs` the others and the theorems.
* **BlockIfService**: `RoomForTheRing` (`RoomWithinRing`) counts the elements that are
  not free: those that will call back have distinct outstanding requests, the others
  are held by distinct workers. `Refinement` (`ImplementsService`): under the mapping
  of BlockIf every step is one of BlockService or changes nothing that it sees.
  `blockif_request` is `Submit`, the dequeue of an element `Begin`, its
  callback `Deliver`, the cancel of a pending element `CancelQueued` and the join of the
  last worker `Shut`; the invariant says that a request is queued once and that nothing
  is left at the end.
* **PciIntxProofs**, for any finite set of devices and any pins, IRQs and threads:
  `ControllersAgree` (`ControllersFollow`, from `IsaFollowsPin` and
  `IoapicFollowsDevice`), `CountsHolders` (`ActiveCount`: the count of a PIRQ is the
  number of devices that hold it), `MaskRespected` (`StateMatchesMask`),
  `TypeCorrect`. `IInv` is their conjunction with `LockOwner`: the counts agree only
  because the lock of a device is held from the decision until the controllers know.
  Power management, for any number of VMs: `SciAlways` (`SciLevel`): `PmInv` says that
  `sci_active` is what the enabled status bits need, and that the line follows it
  unless it was inherited.
* **VirtioBlkProofs**, for any ring size, any width of the indices and any chains:
  `ChainsAreKept` (`ChainOnce`) and `InterruptsAreSeen` (`InterruptSeen`). Neither is
  inductive. `VInv` has two parts, beside types and the pin. `Rings`, on the two rings
  and the sets alone: the windows of both hold at most one ring's length, every entry
  in them is outstanding, not with block_if and nowhere else, and every outstanding
  chain is somewhere. Each operation of the rings (publish, take, return, collect) has
  a lemma about it as an operation on indices modulo the width; that the driver finds a
  free slot, and the device one in the used ring, is a count of chains against slots
  (`Room`). `Control`, on the threads: who holds the mutex, that the used index is ahead
  of `save_used` exactly between `vq_relchain` and `vq_endchains`, and that what the idle
  driver has not collected is announced. The invariant is asked of histories without a
  reset while a request was in flight, as the properties are.
* **BusProofs**, for any number of devices and VMs, any sizes and every value the
  guest may write: `AccessAlways` (`AccessRouted`). `BusInv` ties the tree to the
  devices (`TreeOwned`: a range belongs to a device that decodes it there or is
  the window, and unless ranges were overlapped every decoding device has its range) beside `TreeDisjoint`, `HintCurrent`, `PortsRouted` and `AssertionsHold`.
  What a lookup returns then follows from the tree being disjoint, and the cache is
  current because every removal flushes it.
* **LoopsProofs**, event loop, for any events and any sizes of pipe and buffer:
  `EventsAreLive` (`EventsLive`, with the parts `CallbacksAreLive` and
  `EpollFollowsTable`), `EntryOnOneList` (`OneList`). `LoopInv` adds where the batch of
  `epoll_wait` lives, that the pipe's own entry is added once and that before
  `mevent_destroy` no device holds a freed entry (`HeldAlive`). Network, for any
  number of chains: `NetAlways` (`NetSafe`). The reset raises
  `resetting` without the mutexes of the two directions. `NetInv` says that a thread at
  work on a ring shows it in `tx_in_progress` or `rx_in_progress` (`Announced`), that
  `resetting` is up as long as the reset lasts (`ResetShown`), and that what the reset
  has waited for stays away (`Excluded`). Kernel back ends, for any number of VMs:
  `VbskAlways` (`VbskServed`). `VbskInv` says what the kernel was told
  in each status (`StatusTold`), when a descriptor is left open (`LeftOpen`) and that a
  chain offered is announced or in hand (`Heard`). Life cycle, for any number of vCPUs and
  VMs: `ServedAlways` (`ServedAlive`): `LifeInv` adds the handshake, that while `vm_loop`
  lives main is between its creation and the wait, and `quit_vm_loop` stays raised until
  `vm_loop` lowers it.
* **DevicesProofs**, for any bounds: `ConsoleAlways` (`ConsoleSound`): `ConsoleInv` says
  that every message about the port so far has arrived or all buffers there were for them
  are used (`ToldInOrder`), and how the chains in hand and the two threads that may close
  the back end follow each other. `ClockAlways`
  (`RtcSound`), for any dates and rates: `RtcInv` says that the lazily kept time is the
  time that should be shown, that the line is what the flags ask for, and that the
  timer runs at the rate that was set. `AlarmAlways` (`AlarmNotSkipped`), an action
  property: no step passes a second of the alarm without raising the flag.
  `WatchdogAwake` (the safety part of `WdtWorks`), for any number of VMs and expiry
  threads: an enabled watchdog has a timer that runs or a thread that will start it;
  `LockProtects`, an action property: while locked it is switched off only by the end of
  the VM.

Only model-checked:

* every liveness property (`Served`, `CallersReturn`, `LinesArrive`, `ChainReturned`,
  `LoopAnswers`, `NetAnswers`, `SuspendEndsVm`, `Barks` of `WdtWorks`,
  `CommandsEnd`, `Answered`): TLAPS does not reason about ENABLED;
* `ChainWalked`, `TransferExact` and `DateShown` compare what a loop computes with a
  reference: that is induction over data, which the installed provers do not reach;
* the safety properties of Ahci, AhciIntr, Xhci, Passthru, IntxRoute, Uart and
  Atkbdc, whose inductive invariants have not been worked out.

The type invariants of BlockIf, PciIntx and Mevent are proved and not repeated in
the runs; those of the others are conjuncts of a property (`ChainOnce`,
`OneRequestPerSlot`, `NetSafe`, `ServedAlive`, `SciLevel`, `WdtWorks`) or of an
inductive invariant, or follow from the records that the actions build.

## 6. Findings

Each is a violation run; the trace is the evidence.

1. `route_reset`: after a VM reset a device keeps the PIRQ of the first boot but
   the register is disabled again, because `pci_lintr_route` allocates only if the
   slot has none. The device has no legacy interrupt, contrary to the comment at
   `core.c:1514`. On the first boot all is well (`RouteSound`).
2. `net_reset`: without MSI-X a device reset holds `base->mtx` and waits for a
   thread that needs it to interrupt the driver; comment at `virtio_net.c:204`.
   With MSI-X it returns (`NetAnswers`).
3. `xhci_data`: the first doorbell of the mouse's interrupt endpoint locks the mutex
   of the transfer twice (`xhci.c:1739`, `:1690`) and the request thread waits for
   itself; comment at `xhci.c:1667-1670`.

What the models show besides. The states are in the models; the properties name
and except them.

* Block back end: `block_if.c:819`: the lock on the sub file is released before the
  workers that still transfer are joined. E2BIG can reach a device that submits
  between `RoomWithinRing`'s bound and `blockif_queuesz` (comment at `block_if.c:695`).
* Network: a notification before the new transmit thread's first wait is lost, and
  the queue keeps suppressing notifications (`virtio_net.c:704-708`); the stop can
  hang (`:261-270`); each feature write without mergeable buffers shortens the header
  length again (`:1068-1069`).
* Event loop: `mevent.c:103-106`: the comment says that the pipe is non-blocking; it
  is not, and a drain that fills the buffer exactly blocks (`DrainBlocked`).
  `mevent_destroy` frees entries that devices still hold, and a later `mevent_delete` of
  one uses freed memory (`crashed`).
* Life cycle: a suspend request served before main has opened its pipe writes
  nothing, and main blocks with the mode set, contrary to the comment at
  `mevent.c:118`; a notification between `mevent_destroy` and the next `pipe()` raises
  SIGPIPE, which nothing handles (`killed`); the ioreq client may be destroyed before
  it exists, and main then waits for ever (`early`); the last writer of the suspend
  mode wins; SIGINT between main's look at the mode and `epoll_wait` writes nothing to
  the pipe and waits for the next event.
* Watchdog: a timer can run after the guest has switched the watchdog off; an
  expiry thread that outlives its VM may disarm the timer of the next; a timeout
  below a second disarms (`calm`).
* Dispatch: `core.c:538`: moving a memory BAR by a write through the ECFG window
  asks for the write lock while `emulate_mem` holds the read lock (`hung`). The MMIO
  cache keeps a range of the VM before a reset until it is used again, contrary to
  "Per-VM cache." at `mem.c:61`.
* Virtio block: `virtio_block.c:163`: a device reset does not wait for requests in
  flight, which then complete into the ring of the next driver (`Clean`).
* AHCI: a port or controller reset with requests in flight clears the running bits,
  and the late completion ends the next command of the slot (`overlap`); a packet
  read of no blocks is answered and submitted; a command frame that is not of type
  Register H2D leaves its slot issued, and the loop of `ahci_handle_port` takes it again
  and again with the mutex held (`ahci.c:1857`, `spins`).
* xHCI: an event inserted into a full ring overwrites one not seen; a reset device
  has a disabled slot and a context that says default; a refused control request has
  no event, a short packet is not reported; a write to PORTSC clears all change bits;
  lowering the interrupt asserts it (`deassert_interrupt`); `xhci_in_use` is never
  cleared; a stop or reset of an endpoint that is not configured leaves its context
  STOPPED with no transfer behind it, and the next doorbell dereferences NULL
  (`xhci.c:1971`, `stray`); a malformed control request stops its ring until the driver
  sets the dequeue pointer.
* Clock: the timers of a VM are never deleted and keep the old context; setting HALT
  drops UIE without recomputing the timer; a century written backwards with the alarm
  on makes the update loop through every second with the mutex held (`over`); leaving
  HALT with an invalid date is a VM abort.
* UART: `mevent_disable` does nothing, so the comment at `uart_core.c:217-219` does not
  hold and characters for a full FIFO are dropped without OE (`u.lost`); the PCI UART has
  no deinit, so that stdio stays in use and the next VM cannot open it.
* Keyboard: OBF stays set after the controller's own answer was read, and the answer
  clears AUX; KBDC_WRITE_KBD_OUTBUF raises no interrupt; bytes put while the keyboard is
  disabled stay hidden if it is enabled by the command byte (`hidden`); a full FIFO
  drops the second byte of a release sequence.
* Power management: SIGTERM presses nothing: the entry is registered with the number
  of the signal as its descriptor (comment at `pm.c:105-106`); the static state outlives
  the VM, and a VM that ends with the SCI up leaves the next one without it (`stale`);
  ACPI_ENABLE soon after ACPI_DISABLE is refused an event, as the old one is still in
  the table.
* Console: the read loop falls through to `close:` when the chains run out
  (`virtio_console.c:494-497`); when both threads close the back end, or a file back
  end has a write error, `mevent_delete` gets NULL (`both`); readiness survives a reset,
  and a reset may come while main has found or holds a chain (`raced`); a control message
  without a buffer is dropped, so that a port may be opened that was never named.
* Kernel back ends: a device that was reset after its start is not started again, and
  the kernel keeps the old ring (`again`; stop and reset are empty, contrary to the wish
  in the comment at `virtio_kernel.c:68-72`); the descriptor is closed only if the back
  end was started, and the next VM of hyper_dmabuf is then refused (`unclean`); a
  change of the MSI-X table after the start is not told to the kernel (`moved`); a queue
  without a vector is given the message of the one before; a read of nothing from
  `/dev/random` fails an assertion (`npc = "abort"`).
* Passthrough: switching MSI-X off, or masking an entry, does nothing to the
  physical device; a refused set-up ends the process in a configuration write and is
  ignored in a table write (`lost`); the start may fail with the device left
  assigned; the physical device is not reset between VMs, so that the next one may
  start with MSI on and the pin off (`inherited`).

## 7. Abstractions to know

* BlockIf: the transfer in `blockif_proc` is one step that always reaches the
  callback; offsets and lengths are units.
* Ahci: what a command returns is not looked at; a command is its kind and the
  parts it needs. The ports of a controller share its mutex, one is modelled.
* VirtioNet: one request thread; condition variables have no spurious wakeup (BlockIf
  has them); the tap back end stands for netmap, which locks alike.
* VirtioBlk: a chain is one value (VqChain has the descriptors). The block device
  offers neither EVENT_IDX nor NOTIFY_ON_EMPTY, so only the plain rule of
  `vq_endchains` is there.
* VqChain: guest memory does not change during a walk; there is one indirect table.
* Vbsk: the kernel serves the rings it was told of last until its descriptor is
  closed; address and data of a message are one value.
* Mevent: the critical sections are atomic; the kernel's epoll is a set.
* PciBus: address and data of the configuration mechanism are one write; addresses
  are units, no BAR is placed above 4G at start; the interrupt side of a command
  write is PciIntx's.
* Passthru: a write sets one half of an entry, message or mask; the hypervisor may
  refuse any set-up; allocations succeed.
* Wdt: timeouts are none or some whole seconds, the run takes `Timeouts = {1}`.
* Rtc: a tick is a second; the host's clock does not step back (the code asserts it).
* Uart, Atkbdc: bytes are counted or numbered, not looked at, but for command bytes.
* Xhci: one interrupter, one event ring segment, as in the code; TRBs are records.
* Not concurrent here: the request thread is one thread, as in the code.

## 8. Not modelled

* Written once or a few assignments: guest tables, kernel loading, POST and console
  ports, frame buffer, host bridge, DSDT output, command-line and option parsing.
* The ioctl wrappers of `vmmapi.c`: they change state of the hypervisor only. The
  models have the effect of the calls (assert, deassert, map, set up, suspend).
* Data that no decision depends on: identify, inquiry and log pages of AHCI, register
  reads without side effect, USB descriptors and reports, scan codes.
* Paths that nothing reaches: `vrtc_reset`, `vrtc_set_time`, `vrtc_get_time`,
  `vrtc_nvram_*` (no callers), streams of xHCI (the mouse has none), EVENT_IDX (no
  device offers it), keyboard and mouse events (modelled in Atkbdc as their callers
  would make them, although nothing in the tree calls them).
* Delivery of MSI-X messages of emulated devices as separate cells:
  `pci_generate_msix` reads an entry on a device's thread while the request thread may
  write it, and a message for a masked entry is dropped (XXX comment on the PBA).
* Opening of back ends (tty, sockets, disks, tap) and what is left open at the end.
* Conditions on the host: allocation failures but where a module says so, signals
  other than SIGINT, SIGTERM, SIGPIPE and SIGCONT.
