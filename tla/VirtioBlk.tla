----------------------------- MODULE VirtioBlk -----------------------------
(***************************************************************************)
(* A legacy virtio device with one queue: the register file and the        *)
(* virtqueue of hw/pci/virtio/virtio.c under the block device of           *)
(* hw/pci/virtio/virtio_block.c.                                           *)
(*                                                                         *)
(* Three parties share the ring.  The guest driver (external) publishes    *)
(* chains and collects the used ones without any lock.  The vCPU thread    *)
(* runs the register handlers holding base->mtx.  A thread of block_if     *)
(* completes a request in virtio_blk_done, again under the mutex, which is *)
(* recursive because VBH_OP_IDENT completes inside the notify handler.     *)
(* vq_relchain and vq_endchains are separate steps: the driver may look at *)
(* the used ring between the two.  A slot of a ring that its reader has    *)
(* passed is shown as NONE: nobody reads it again before it is rewritten.  *)
(***************************************************************************)
EXTENDS Integers, Sequences, FiniteSets

CONSTANTS QSZ,        \* VIRTIO_BLK_RINGSZ
          IDXMOD,     \* 2^16: the ring indices are uint16_t
          MaxResets   \* bound on the guest's resets of the device

ASSUME RingAssumption ==
    /\ QSZ \in Nat \ {0}
    /\ IDXMOD \in Nat
    /\ IDXMOD % QSZ = 0
    /\ IDXMOD > QSZ
    /\ MaxResets \in Nat

Chains == 0 .. QSZ - 1
NONE == QSZ                     \* no chain
Idx == 0 .. IDXMOD - 1

VARIABLES curq, isr, lintr,     \* virtio_base, and the INTx pin
          vec,                  \* vq->msix_idx is a vector
          ready, lastAvail, saveUsed,            \* the rest of virtio_vq_info
          mtx, npc, cur,        \* who holds base->mtx, the notify loop, the
                                \* chain between vq_relchain and vq_endchains
          inflight,             \* ioreqs handed to block_if
          availIdx, availRing, noIntr, usedIdx, usedRing,   \* guest memory
          msixOn, msi, dpc, kick, seen, out, op,            \* the guest
          stale, tainted, resets                            \* history

regs == <<curq, isr, lintr, vec, ready, lastAvail, saveUsed>>
ring == <<availIdx, availRing, noIntr, usedIdx, usedRing>>
guest == <<msixOn, msi, dpc, kick, seen, out, op>>
hist == <<stale, tainted, resets>>
vars == <<regs, mtx, npc, cur, inflight, ring, guest, hist>>

Inc(i) == (i + 1) % IDXMOD
Sub(i, j) == (i - j) % IDXMOD   \* (uint16_t)(i - j)

\* vq_endchains interrupts for the used entries old .. new - 1 unless the driver
\* has suppressed it.  The block device offers neither EVENT_IDX nor
\* NOTIFY_ON_EMPTY (VIRTIO_BLK_S_HOSTCAPS): they are never negotiated.
PlainIntr(new, old, suppressed) == new # old /\ ~suppressed

-----------------------------------------------------------------------------
Init ==
    /\ curq = 0 /\ isr = FALSE /\ lintr = FALSE /\ vec = FALSE
    /\ ready = FALSE /\ lastAvail = 0 /\ saveUsed = 0
    /\ mtx = "free" /\ npc = "idle" /\ cur = NONE /\ inflight = {}
    /\ availIdx = 0 /\ availRing = [i \in Chains |-> NONE] /\ noIntr = FALSE
    /\ usedIdx = 0 /\ usedRing = [i \in Chains |-> NONE]
    /\ msixOn \in BOOLEAN /\ msi = FALSE /\ dpc = "off" /\ kick = FALSE
    /\ seen = 0 /\ out = {} /\ op = [c \in Chains |-> "io"]
    /\ stale = {} /\ tainted = FALSE /\ resets = 0

-----------------------------------------------------------------------------
(* Register writes of virtio_pci_write that do not notify. *)

WriteQsel(q) ==
    /\ mtx = "free" /\ dpc = "off"
    /\ curq' = q
    /\ UNCHANGED <<isr, lintr, vec, ready, lastAvail, saveUsed, mtx, npc, cur,
                   inflight, ring, guest, hist>>

\* VIRTIO_CR_PFN: virtio_vq_init on the selected queue, nothing when the
\* selected queue does not exist.  The driver has zeroed the ring it hands over.
WritePfn ==
    /\ mtx = "free" /\ dpc = "off" /\ ~ready
    /\ IF curq # 0
       THEN UNCHANGED <<ready, lastAvail, saveUsed, ring, seen, out, kick>>
       ELSE /\ ready' = TRUE /\ lastAvail' = 0 /\ saveUsed' = 0
            /\ availIdx' = 0 /\ usedIdx' = 0 /\ noIntr' = FALSE
            /\ availRing' = [i \in Chains |-> NONE]
            /\ usedRing' = [i \in Chains |-> NONE]
            /\ seen' = 0 /\ out' = {} /\ kick' = FALSE
    /\ UNCHANGED <<curq, isr, lintr, vec, mtx, npc, cur, inflight,
                   msixOn, msi, dpc, op, hist>>

WriteQvec ==
    /\ mtx = "free" /\ dpc = "off" /\ msixOn
    /\ vec' = (vec \/ curq = 0)
    /\ UNCHANGED <<curq, isr, lintr, ready, lastAvail, saveUsed, mtx, npc, cur,
                   inflight, ring, guest, hist>>

\* VIRTIO_CR_STATUS with a value other than 0; the driver writes DRIVER_OK
\* once the queue (and its vector) is in place.
WriteDriverOk ==
    /\ mtx = "free" /\ dpc = "off" /\ ready /\ (msixOn => vec)
    /\ dpc' = "idle"
    /\ UNCHANGED <<regs, mtx, npc, cur, inflight, ring,
                   msixOn, msi, kick, seen, out, op, hist>>

\* virtio_reset_dev through virtio_blk_reset: the requests block_if still has
\* are neither cancelled nor waited for.
VirtioResetDev ==
    /\ ready' = FALSE /\ lastAvail' = 0 /\ saveUsed' = 0
    /\ vec' = FALSE /\ curq' = 0
    /\ lintr' = IF isr THEN FALSE ELSE lintr
    /\ isr' = FALSE

\* VIRTIO_CR_STATUS = 0, at any time the driver is not inside its handler.
WriteReset ==
    /\ mtx = "free" /\ dpc = "idle" /\ resets < MaxResets
    /\ VirtioResetDev
    /\ dpc' = "off" /\ kick' = FALSE /\ out' = {} /\ msi' = FALSE
    /\ stale' = inflight /\ tainted' = FALSE /\ resets' = resets + 1
    /\ op' = [c \in Chains |-> "io"]
    /\ UNCHANGED <<mtx, npc, cur, inflight, ring, msixOn, seen>>

-----------------------------------------------------------------------------
(* VIRTIO_CR_QNOTIFY: virtio_blk_notify, the mutex held until it returns. *)

vq_has_descs == ready /\ lastAvail # availIdx

QNotify ==
    /\ mtx = "free" /\ dpc # "off" /\ kick
    /\ kick' = FALSE
    /\ mtx' = "vcpu" /\ npc' = "loop"
    /\ UNCHANGED <<regs, cur, inflight, ring, msixOn, msi, dpc, seen, out, op, hist>>

\* Mutant: the notify handler takes one chain instead of all.
BlkProcOne ==
    LET c == availRing[lastAvail % QSZ]
    IN /\ npc = "loop" /\ vq_has_descs
       /\ lastAvail' = Inc(lastAvail)
       /\ availRing' = [availRing EXCEPT ![lastAvail % QSZ] = NONE]
       /\ inflight' = inflight \union {c}
       /\ npc' = "idle" /\ mtx' = "free"
       /\ UNCHANGED <<curq, isr, lintr, vec, ready, saveUsed, cur, availIdx,
                      noIntr, usedIdx, usedRing, guest, hist>>

\* One virtio_blk_proc: vq_getchain, then the request goes to block_if, or is
\* completed on the spot for VBH_OP_IDENT and the operations not supported.
\* More chains than the ring holds make vq_getchain return -1, and the
\* assertion on n ends the program.
BlkProc ==
    LET c == availRing[lastAvail % QSZ]
    IN /\ npc = "loop" /\ vq_has_descs
       /\ IF Sub(availIdx, lastAvail) > QSZ
          THEN /\ npc' = "aborted"
               /\ UNCHANGED <<lastAvail, availRing, inflight, cur, usedIdx, usedRing>>
          ELSE /\ lastAvail' = Inc(lastAvail)
               /\ availRing' = [availRing EXCEPT ![lastAvail % QSZ] = NONE]
               /\ IF op[c] = "io"
                  THEN /\ inflight' = inflight \union {c}
                       /\ UNCHANGED <<npc, cur, usedIdx, usedRing>>
                  ELSE /\ usedRing' = [usedRing EXCEPT ![usedIdx % QSZ] = c]
                       /\ usedIdx' = Inc(usedIdx)
                       /\ cur' = c /\ npc' = "end"
                       /\ UNCHANGED inflight
       /\ UNCHANGED <<curq, isr, lintr, vec, ready, saveUsed, mtx, availIdx,
                      noIntr, guest, hist>>

NotifyReturn ==
    /\ npc = "loop" /\ ~vq_has_descs
    /\ npc' = "idle" /\ mtx' = "free"
    /\ UNCHANGED <<regs, cur, inflight, ring, guest, hist>>

-----------------------------------------------------------------------------
(* virtio_blk_done.  vq_interrupt goes to the queue's MSI-X vector, or sets *)
(* the ISR bit and asserts INTx. *)

VqInterrupt ==
    IF msixOn
    THEN /\ msi' = (msi \/ vec)
         /\ UNCHANGED <<isr, lintr>>
    ELSE /\ isr' = TRUE /\ lintr' = TRUE
         /\ UNCHANGED msi

\* Mutant: save_used is read after it is updated.
EndchainsLate ==
    /\ saveUsed' = usedIdx
    /\ IF PlainIntr(usedIdx, saveUsed', noIntr)
       THEN VqInterrupt
       ELSE UNCHANGED <<isr, lintr, msi>>

\* vq_endchains(vq, 0): the block device offers neither NOTIFY_ON_EMPTY nor
\* EVENT_IDX, so the plain rule applies.
VqEndchains ==
    /\ saveUsed' = usedIdx
    /\ IF PlainIntr(usedIdx, saveUsed, noIntr)
       THEN VqInterrupt
       ELSE UNCHANGED <<isr, lintr, msi>>

\* Mutant: the request stays with block_if after its callback.
RelchainKeep(c) ==
    /\ mtx = "free" /\ c \in inflight
    /\ mtx' = "worker" /\ cur' = c
    /\ usedRing' = [usedRing EXCEPT ![usedIdx % QSZ] = c]
    /\ usedIdx' = Inc(usedIdx)
    /\ stale' = stale \ {c} /\ tainted' = (tainted \/ c \in stale)
    /\ UNCHANGED <<regs, npc, inflight, availIdx, availRing, noIntr, guest, resets>>

\* A thread of block_if calls the callback of request c.
VqRelchain(c) ==
    /\ mtx = "free" /\ c \in inflight
    /\ mtx' = "worker" /\ cur' = c
    /\ inflight' = inflight \ {c}
    /\ usedRing' = [usedRing EXCEPT ![usedIdx % QSZ] = c]
    /\ usedIdx' = Inc(usedIdx)
    /\ stale' = stale \ {c} /\ tainted' = (tainted \/ c \in stale)
    /\ UNCHANGED <<regs, npc, availIdx, availRing, noIntr, guest, resets>>

BlkDone ==
    /\ mtx = "worker" \/ npc = "end"
    /\ VqEndchains
    /\ cur' = NONE
    /\ mtx' = IF mtx = "worker" THEN "free" ELSE mtx
    /\ npc' = IF npc = "end" THEN "loop" ELSE npc
    /\ UNCHANGED <<curq, vec, ready, lastAvail, inflight, ring,
                   msixOn, dpc, kick, seen, out, op, hist>>

-----------------------------------------------------------------------------
(* The guest driver (external).  It collects used chains with the queue's    *)
(* interrupts suppressed, then enables them and looks once more.             *)

DriverAdd(c, o) ==
    /\ dpc # "off" /\ c \notin out
    /\ out' = out \union {c} /\ op' = [op EXCEPT ![c] = o]
    /\ availRing' = [availRing EXCEPT ![availIdx % QSZ] = c]
    /\ availIdx' = Inc(availIdx)
    /\ kick' = TRUE
    /\ UNCHANGED <<regs, mtx, npc, cur, inflight, noIntr, usedIdx, usedRing,
                   msixOn, msi, dpc, seen, hist>>

\* The INTx handler reads VIRTIO_CR_ISR: virtio_pci_read clears it and drops
\* the pin.
ReadIsr ==
    /\ mtx = "free" /\ dpc = "idle" /\ lintr
    /\ isr' = FALSE
    /\ lintr' = IF isr THEN FALSE ELSE lintr
    /\ dpc' = "collect" /\ noIntr' = TRUE
    /\ UNCHANGED <<curq, vec, ready, lastAvail, saveUsed, mtx, npc, cur, inflight,
                   availIdx, availRing, usedIdx, usedRing,
                   msixOn, msi, kick, seen, out, op, hist>>

TakeMsi ==
    /\ dpc = "idle" /\ msi
    /\ msi' = FALSE
    /\ dpc' = "collect" /\ noIntr' = TRUE
    /\ UNCHANGED <<regs, mtx, npc, cur, inflight, availIdx, availRing, usedIdx,
                   usedRing, msixOn, kick, seen, out, op, hist>>

DriverCollect ==
    /\ dpc = "collect" /\ seen # usedIdx
    /\ seen' = Inc(seen)
    /\ out' = out \ {usedRing[seen % QSZ]}
    /\ op' = [op EXCEPT ![usedRing[seen % QSZ]] = "io"]
    /\ usedRing' = [usedRing EXCEPT ![seen % QSZ] = NONE]
    /\ UNCHANGED <<regs, mtx, npc, cur, inflight, availIdx, availRing, noIntr,
                   usedIdx, msixOn, msi, dpc, kick, hist>>

DriverEnable ==
    /\ dpc = "collect" /\ seen = usedIdx
    /\ noIntr' = FALSE /\ dpc' = "recheck"
    /\ UNCHANGED <<regs, mtx, npc, cur, inflight, availIdx, availRing, usedIdx,
                   usedRing, msixOn, msi, kick, seen, out, op, hist>>

DriverRecheck ==
    /\ dpc = "recheck"
    /\ dpc' = IF seen = usedIdx THEN "idle" ELSE "collect"
    /\ noIntr' = (seen # usedIdx)
    /\ UNCHANGED <<regs, mtx, npc, cur, inflight, availIdx, availRing, usedIdx,
                   usedRing, msixOn, msi, kick, seen, out, op, hist>>

-----------------------------------------------------------------------------
Running ==
    \/ \E q \in 0 .. 1 : WriteQsel(q)
    \/ WritePfn \/ WriteQvec \/ WriteDriverOk \/ WriteReset
    \/ QNotify \/ BlkProc \/ NotifyReturn
    \/ \E c \in Chains : VqRelchain(c)
    \/ BlkDone
    \/ \E c \in Chains, o \in {"io", "ident"} : DriverAdd(c, o)
    \/ ReadIsr \/ TakeMsi \/ DriverCollect \/ DriverEnable \/ DriverRecheck

\* The program has ended, or the ring holds a completion the driver never
\* asked for: what such a driver does next is not followed.
Ended == (npc = "aborted" \/ tainted) /\ UNCHANGED vars

Next == (npc # "aborted" /\ ~tainted /\ Running) \/ Ended

\* The vCPU thread and the workers run; the mutex is granted again and again
\* (strong fairness: handlers of both kinds come and go); block_if serves every
\* request (Served of BlockIf); the guest kicks after adding, and takes its
\* interrupts.
Fairness ==
    /\ WF_vars(BlkProc) /\ WF_vars(NotifyReturn) /\ WF_vars(BlkDone)
    /\ \A c \in Chains : SF_vars(VqRelchain(c))
    /\ SF_vars(QNotify) /\ SF_vars(ReadIsr) /\ WF_vars(TakeMsi)
    /\ WF_vars(DriverCollect) /\ WF_vars(DriverEnable) /\ WF_vars(DriverRecheck)

Spec == Init /\ [][Next]_vars /\ Fairness

-----------------------------------------------------------------------------
(* Properties. *)

\* Type invariant of the registers, the ring and the driver.
TypeOK ==
    /\ curq \in 0 .. 1 /\ {isr, lintr, vec, ready, noIntr, msixOn, msi, kick, tainted}
                              \subseteq BOOLEAN
    /\ {lastAvail, saveUsed, availIdx, usedIdx, seen} \subseteq Idx
    /\ mtx \in {"free", "vcpu", "worker"} /\ npc \in {"idle", "loop", "end", "aborted"}
    /\ cur \in Chains \union {NONE}
    /\ inflight \subseteq Chains /\ out \subseteq Chains /\ stale \subseteq Chains
    /\ availRing \in [Chains -> Chains \union {NONE}]
    /\ usedRing \in [Chains -> Chains \union {NONE}]
    /\ dpc \in {"off", "idle", "collect", "recheck"}
    /\ op \in [Chains -> {"io", "ident"}]
    /\ resets \in 0 .. MaxResets

\* No request of a driver generation that is over is still with block_if, and
\* none has completed into the present ring.
Clean == stale = {} /\ ~tainted

Window(from, to, r) == [k \in 0 .. Sub(to, from) - 1 |-> r[(from + k) % QSZ]]
Waiting == Window(lastAvail, availIdx, availRing)
Returned == Window(seen, usedIdx, usedRing)

\* Every chain the driver has outstanding is at exactly one place: published
\* and not taken, with block_if, or returned and not collected; the free
\* running 16-bit indices never lose, repeat or overwrite one (vq_getchain,
\* vq_relchain).
ChainOnce ==
    /\ TypeOK
    /\ (ready /\ Clean) =>
        /\ Sub(availIdx, lastAvail) <= QSZ /\ Sub(usedIdx, seen) <= QSZ
        /\ \A c \in out :
              Cardinality({k \in DOMAIN Waiting : Waiting[k] = c})
              + Cardinality({k \in DOMAIN Returned : Returned[k] = c})
              + (IF c \in inflight THEN 1 ELSE 0) = 1
        /\ \A k \in DOMAIN Returned : Returned[k] \in out
        /\ inflight \subseteq out
        /\ npc # "aborted"

\* A used chain the idle driver has not collected is announced: the interrupt
\* is pending, or the completing thread is still before vq_endchains.
InterruptNotLost ==
    (dpc = "idle" /\ seen # usedIdx /\ Clean) => lintr \/ msi \/ cur # NONE

\* Without MSI-X the INTx pin is up exactly while the ISR register is not 0,
\* across completions, ISR reads and resets (virtio_pci_read, vq_interrupt,
\* virtio_reset_dev).
IsrMatchesPin == ~msixOn => (isr <=> lintr)

\* Every chain the driver publishes comes back to it, unless it resets the
\* device with requests in flight, or keeps one notify handler busy for ever by
\* publishing chains that complete inside it (virtio_blk_notify holds the mutex
\* until the ring is empty, and virtio_blk_done needs it).
ChainReturned ==
    \/ \A c \in Chains : (c \in out /\ Clean) ~> (c \notin out \/ ~Clean)
    \/ <>[](mtx = "vcpu")

\* The driver learns of every used chain, by the interrupt it has asked for.
InterruptSeen == InterruptNotLost /\ IsrMatchesPin
=============================================================================
