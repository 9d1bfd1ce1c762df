----------------------------- MODULE MCBlockIf -----------------------------
(* Instances of BlockIf for TLC. *)
EXTENDS BlockIf, TLC

CONSTANTS t1, t2, e1, e2, e3, e4, r1, r2, r3

MCThreads  == {t1, t2}
MCElems    == {e1, e2, e3, e4}
MCRequests == {r1, r2, r3}
MCTwo      == {r1, r2}

\* Workers submit from their callbacks, as in ahci.c.
WithCallbacks == MCThreads \cup {Caller}
OnlyCaller    == {Caller}

MCSymmetry == Permutations(MCThreads) \cup Permutations(MCElems) \cup Permutations(MCRequests)
============================================================================
