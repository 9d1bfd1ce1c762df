------------------------------ MODULE VqChain ------------------------------
(***************************************************************************)
(* vq_getchain (virtio.c): the walk over the descriptors of a request, for *)
(* every small descriptor table and indirect table a driver can leave in   *)
(* guest memory.  One step looks at one descriptor.                        *)
(*                                                                         *)
(* A descriptor's next is End if it has no VRING_DESC_F_NEXT.  A direct    *)
(* descriptor is a buffer or points to the indirect table, of which it     *)
(* gives indir entries; 0 is a length that is zero or no multiple of 16.   *)
(* The indirect table is one, wherever it is pointed to from.              *)
(***************************************************************************)
EXTENDS Integers, SequencesExt

CONSTANTS QSize,               \* size of the ring
          IndexModulo,         \* 2^16 in the code
          TableSize,           \* entries of the indirect table (a bound)
          VQ_MAX_DESCRIPTORS, NIov

VARIABLES desc, itable, hv_caps,  \* hv_caps: the device offers INDIRECT_DESC
          last_avail, avail_idx, head,
          wpc, i, next, vdir,  \* the walk: "start", "direct", "indirect", "done"
          iov, ret

vars == <<desc, itable, hv_caps, last_avail, avail_idx, head, wpc, i, next, vdir, iov, ret>>
ring == <<desc, itable, hv_caps, avail_idx, head>>

End == QSize + TableSize
Direct == [indirect : {FALSE}, indir : {0}, next : 0..QSize \cup {End}]
    \cup [indirect : {TRUE}, indir : 0..TableSize, next : 0..QSize \cup {End}]
Indirect == [indirect : BOOLEAN, next : 0..TableSize \cup {End}]

\* A chain that is one indirect descriptor for a table with one buffer.
Plain == [d \in 0..(QSize - 1) |-> [indirect |-> TRUE, indir |-> 1, next |-> End]]
PlainTable == [d \in 0..(TableSize - 1) |-> [indirect |-> FALSE, next |-> End]]

\* Any tables behind the first entry of the ring, or any state of the ring before
\* plain ones.
Init ==
    /\ \/ /\ desc \in [0..(QSize - 1) -> Direct] /\ itable \in [0..(TableSize - 1) -> Indirect]
          /\ hv_caps = TRUE /\ last_avail = 0 /\ avail_idx = 1 /\ head = 0
       \/ /\ desc = Plain /\ itable = PlainTable
          /\ hv_caps \in BOOLEAN /\ head \in 0..QSize
          /\ last_avail \in 0..(IndexModulo - 1) /\ avail_idx \in 0..(IndexModulo - 1)
    /\ wpc = "start" /\ i = 0 /\ next = 0 /\ vdir = 0 /\ iov = <<>> /\ ret = 0

Return(n) == wpc' = "done" /\ ret' = n

\* ndesc, in unsigned arithmetic; the entry of the ring is taken before it is
\* looked at.
Begin ==
    /\ wpc = "start"
    /\ LET ndesc == (avail_idx - last_avail) % IndexModulo
       IN  \/ ndesc = 0 /\ Return(0) /\ UNCHANGED <<last_avail, next>>
           \/ ndesc > QSize /\ Return(-1) /\ UNCHANGED <<last_avail, next>>
           \/ /\ ndesc \in 1..QSize
              /\ next' = head /\ last_avail' = (last_avail + 1) % IndexModulo
              /\ wpc' = "direct" /\ UNCHANGED ret
    /\ UNCHANGED <<ring, i, vdir, iov>>

\* The array may be shorter than the chain.
_vq_record(d) == iov' = IF i >= NIov THEN iov ELSE Append(iov, d)

\* The end of the outer loop's body.
After(d, n) ==
    IF desc[d].next = End THEN Return(n) /\ UNCHANGED next
    ELSE next' = desc[d].next /\ wpc' = "direct" /\ UNCHANGED ret

Refuse == Return(-1) /\ UNCHANGED <<next, i, vdir, iov>>

WalkDirect ==
    /\ wpc = "direct"
    /\ IF i >= VQ_MAX_DESCRIPTORS \/ next >= QSize THEN Refuse
       ELSE /\ vdir' = next
            /\ IF ~desc[next].indirect
               THEN _vq_record(<<"direct", next>>) /\ i' = i + 1 /\ After(next, i + 1)
               ELSE IF ~hv_caps \/ desc[next].indir = 0
               THEN Return(-1) /\ UNCHANGED <<next, i, iov>>
               ELSE next' = 0 /\ wpc' = "indirect" /\ UNCHANGED <<i, iov, ret>>
    /\ UNCHANGED <<ring, last_avail>>

\* Mutant: the entries of the table are not counted against the limit.
TooManyNever(n) == FALSE

TooMany(n) == n > VQ_MAX_DESCRIPTORS

WalkIndirect ==
    /\ wpc = "indirect"
    /\ IF itable[next].indirect THEN Refuse
       ELSE /\ _vq_record(<<"indirect", next>>) /\ i' = i + 1 /\ UNCHANGED vdir
            /\ IF TooMany(i + 1) THEN Return(-1) /\ UNCHANGED next
               ELSE IF itable[next].next = End THEN After(vdir, i + 1)
               ELSE IF itable[next].next >= desc[vdir].indir THEN Return(-1) /\ UNCHANGED next
               ELSE next' = itable[next].next /\ UNCHANGED <<wpc, ret>>
    /\ UNCHANGED <<ring, last_avail>>

Next == Begin \/ WalkDirect \/ WalkIndirect

Spec == Init /\ [][Next]_vars

-----------------------------------------------------------------------------
(* Reference: the request as a path through the tables *)

\* The paths through a table from an entry to one without a next.  A path that
\* ends visits no entry twice, so it is no longer than the table.
PathsFrom(t, size, first) ==
    {p \in SeqOf(0..(size - 1), size) :
        /\ p # <<>> /\ p[1] = first
        /\ \A k \in 1..Len(p) : t[p[k]].next = IF k = Len(p) THEN End ELSE p[k + 1]}

\* The buffers behind a direct descriptor: a set of one sequence, or empty.
Buffers(d) ==
    IF ~desc[d].indirect THEN {<<<<"direct", d>>>>}
    ELSE IF ~hv_caps THEN {}
    ELSE {[k \in DOMAIN p |-> <<"indirect", p[k]>>] :
            p \in {q \in PathsFrom(itable, desc[d].indir, 0) : \A k \in DOMAIN q : ~itable[q[k]].indirect}}

\* The requests the driver can mean: one or none.
Requests ==
    {FlattenSeq([k \in DOMAIN p |-> CHOOSE b \in Buffers(p[k]) : TRUE]) :
        p \in {q \in PathsFrom(desc, QSize, head) : \A k \in DOMAIN q : Buffers(q[k]) # {}}}

Sensible == {s \in Requests : Len(s) <= VQ_MAX_DESCRIPTORS}

\* The walk ends with the number of buffers of the request and with as many of
\* them as fit, in order; it refuses exactly the tables that describe no request,
\* a loop or more than VQ_MAX_DESCRIPTORS, unless the ring offers more than it can
\* hold; it finds nothing only if no entry is left (vq_getchain).
ChainWalked ==
    wpc = "done" =>
        IF ret = 0 THEN last_avail = avail_idx
        ELSE IF ret > 0
        THEN \E s \in Sensible : ret = Len(s) /\ iov = SubSeq(s, 1, IF ret < NIov THEN ret ELSE NIov)
        ELSE Sensible = {} \/ (avail_idx - last_avail) % IndexModulo > QSize
============================================================================
