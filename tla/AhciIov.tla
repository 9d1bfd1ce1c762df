------------------------------- MODULE AhciIov -------------------------------
(***************************************************************************)
(* How a transfer of the AHCI controller is cut into block requests        *)
(* (ahci_build_iov, called again by the completion while there is more).   *)
(* The PRDT is a sequence of entry sizes; a piece of the iovec is an entry,*)
(* an offset into it and a size.  Sizes are units.                         *)
(***************************************************************************)
EXTENDS Naturals, Sequences, SequencesExt

CONSTANTS IovMax,    \* BLOCKIF_IOV_MAX
          Sect,      \* bytes of a sector
          MaxPrdt, MaxEntry, MaxLen

VARIABLES prdt, len, done, more, iov, aborted

vars == <<prdt, len, done, more, iov, aborted>>

RECURSIVE DropExtra(_, _)

\* Shorten the iovec by extra bytes, from its end.
DropExtra(v, extra) ==
    IF extra = 0 THEN v
    ELSE IF Last(v).size > extra THEN [v EXCEPT ![Len(v)].size = @ - extra]
    ELSE DropExtra(Front(v), extra - Last(v).size)

\* The state of the loop over the PRDT after its first n entries.
walk[n \in 0 .. Len(prdt)] ==
    IF n = 0 THEN [i |-> 0, skip |-> done, left |-> len - done, todo |-> 0, iov |-> <<>>]
    ELSE LET w == walk[n - 1]
             size == prdt[n] - w.skip
             dbcsz == IF size > w.left THEN w.left ELSE size
         IN  IF Len(w.iov) = IovMax \/ w.left = 0 THEN w
             ELSE IF prdt[n] <= w.skip THEN [w EXCEPT !.i = n, !.skip = @ - prdt[n]]
             ELSE [i |-> n, skip |-> 0, left |-> w.left - dbcsz, todo |-> w.todo + dbcsz,
                   iov |-> Append(w.iov, [entry |-> n, off |-> w.skip, size |-> dbcsz])]

\* Mutant: the request is not rounded.
ExtraNone(w) == 0

\* Limited by the length of the iovec, the request is rounded down to sectors.
Extra(w) == IF Len(w.iov) = IovMax THEN w.todo % Sect ELSE 0

ahci_build_iov ==
    LET w == walk[Len(prdt)]
        todo == w.todo - Extra(w)
    IN
    /\ more /\ ~aborted
    /\ IF Len(w.iov) = IovMax /\ todo = 0
       THEN aborted' = TRUE /\ UNCHANGED <<done, more, iov>>
       ELSE /\ iov' = DropExtra(w.iov, Extra(w))
            /\ done' = done + todo
            /\ more' = (done' < len /\ w.i < Len(prdt))
            /\ UNCHANGED aborted
    /\ UNCHANGED <<prdt, len>>

Init ==
    /\ prdt \in UNION {[1 .. n -> 1 .. MaxEntry] : n \in 1 .. MaxPrdt}
    /\ len \in {k * Sect : k \in 1 .. MaxLen}
    /\ done = 0 /\ more = TRUE /\ iov = <<>> /\ aborted = FALSE

Next == ahci_build_iov

Spec == Init /\ [][Next]_vars

-----------------------------------------------------------------------------
Bytes(s) == FoldLeft(LAMBDA a, b : a + b, 0, s)

\* Where a piece begins in the transfer.
Start(x) == Bytes(SubSeq(prdt, 1, x.entry - 1)) + x.off

\* The pieces of an iovec, one behind the other, are the bytes from..to-1.
Covers(v, from, to) ==
    /\ \A k \in DOMAIN v : v[k].size > 0 /\ v[k].off + v[k].size <= prdt[v[k].entry]
    /\ \A k \in 1 .. Len(v) - 1 : Start(v[k]) + v[k].size = Start(v[k + 1])
    /\ v # <<>> => Start(v[1]) = from /\ Start(v[Len(v)]) + v[Len(v)].size = to

\* No IovMax - 1 entries in a row are smaller than a sector together.
Usual == \A k \in 1 .. Len(prdt) - IovMax + 2 : Bytes(SubSeq(prdt, k, k + IovMax - 2)) >= Sect

\* Each request of a transfer takes up where the one before ended, in whole
\* sectors, and if the PRDT is long enough the last one ends at the length the
\* command names (ahci_build_iov); the assertion on todo holds.
TransferExact ==
    Usual =>
      /\ ~aborted
      /\ Covers(iov, done - Bytes([k \in DOMAIN iov |-> iov[k].size]), done)
      /\ more => done % Sect = 0
      /\ ~more /\ Bytes(prdt) >= len => done = len
=============================================================================
