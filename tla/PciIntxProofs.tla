--------------------------- MODULE PciIntxProofs ---------------------------
(***************************************************************************)
(* Proofs about interrupt lines: those of PCI devices (PciIntx), for any   *)
(* finite number of devices, pins, IRQs and threads, and the SCI of power  *)
(* management (Pm), for any number of VMs.                                 *)
(***************************************************************************)
EXTENDS PciIntx, PmState, TLAPS

----------------------------------------------------------------------------
(* Shared interrupt lines of PCI devices.  The inductive invariant is the  *)
(* conjunction of the invariants of PciIntx: the counts are right only     *)
(* because the lock of a device is held from the decision until the        *)
(* controllers know, and the state the decision chose stays (LockOwner).   *)

IInv == TypeOK /\ LockOwner /\ ActiveCount /\ IsaLevel /\ IoapicLevel /\ StateMatchesMask

\* What the steps use of counting the devices of a set; it holds as there are
\* finitely many (DevsCount, below).
Counts ==
    \A S \in SUBSET Devs :
        /\ Cardinality(S) \in Nat
        /\ Cardinality(S) = 0 <=> S = {}
        /\ \A d \in Devs \ S : Cardinality(S \cup {d}) = Cardinality(S) + 1

\* Initially nothing is raised and every count is zero.
LEMMA InitIInv == Counts /\ Init => IInv
<1> SUFFICES ASSUME Counts, Init PROVE IInv
    OBVIOUS
<1> USE PciIntxAssumption DEF Init
<1>1. TypeOK
      BY DEF TypeOK, Regs, Procs
<1>2. LockOwner
      BY DEF LockOwner, Working
<1>3. \A d \in Devs : ~Counted(d) /\ ~Raised(d)
      BY DEF Counted, Raised, At
<1>4. ActiveCount
  <2> SUFFICES ASSUME NEW p \in Pins PROVE active[p] = Cardinality(Holders(p))
      BY DEF ActiveCount
  <2>1. Holders(p) = {}
        BY <1>3 DEF Holders
  <2> QED
      BY <2>1 DEF Counts
<1>5. IsaLevel
      BY DEF IsaLevel, Drives
<1>6. IoapicLevel
      BY <1>3 DEF IoapicLevel
<1>7. StateMatchesMask
      BY DEF StateMatchesMask
<1> QED
    BY <1>1, <1>2, <1>4, <1>5, <1>6, <1>7 DEF IInv

\* A step that decides what to do about a device changes no count: what the
\* controllers have been told is the same before and after it.
LEMMA DecideStep ==
    ASSUME IInv, NEW t \in Procs, NEW d \in Devs,
           NEW st \in {"IDLE", "ASSERTED", "PENDING"}, NEW next \in {"idle", "up", "down"},
           pc[t] \in {"idle", "update"},
           pc[t] = "update" => dev[t] = d,
           Decide(t, d, st, next),
           next = "up" => state[d] # "ASSERTED" /\ st = "ASSERTED",
           next = "down" => state[d] = "ASSERTED" /\ st # "ASSERTED",
           next = "idle" => (state[d] = "ASSERTED" <=> st = "ASSERTED"),
           st = "ASSERTED" => PciLintrPermitted(d),
           st = "PENDING" => ~PciLintrPermitted(d)
    PROVE  IInv'
<1> USE PciIntxAssumption DEF IInv, Decide
<1>1. TypeOK'
      BY ZenonT(60) DEF TypeOK
<1>2. /\ state' = [state EXCEPT ![d] = st]
      /\ pc' = [pc EXCEPT ![t] = next]
      /\ dev' = [dev EXCEPT ![t] = IF next = "idle" THEN NoDev ELSE d]
      /\ lock' = [lock EXCEPT ![d] = IF next = "idle" THEN Nobody ELSE t]
      /\ lock[d] = Nobody
      BY DEF TypeOK
<1>3. /\ \A u \in Procs : pc'[u] = (IF u = t THEN next ELSE pc[u])
      /\ \A u \in Procs : dev'[u] =
             (IF u = t THEN IF next = "idle" THEN NoDev ELSE d ELSE dev[u])
      /\ \A e \in Devs : lock'[e] =
             (IF e = d THEN IF next = "idle" THEN Nobody ELSE t ELSE lock[e])
      /\ \A e \in Devs : state'[e] = (IF e = d THEN st ELSE state[e])
      BY <1>2 DEF TypeOK
<1>4. \A e \in Devs : lock[e] # t
      BY DEF LockOwner, Working, Procs
<1>5. LockOwner'
  <2>1. \A u \in Procs : u # t /\ Working(u) => dev[u] # d
        BY <1>2 DEF LockOwner
  <2>2. ASSUME NEW u \in Procs, Working(u)'
        PROVE  /\ dev'[u] \in Devs /\ lock'[dev'[u]] = u
               /\ state'[dev'[u]] = "ASSERTED" <=> pc'[u] \in {"up", "ioapicUp"}
        BY <1>3, <2>1, <2>2 DEF LockOwner, Working
  <2>3. ASSUME NEW e \in Devs, lock'[e] # Nobody
        PROVE  (Working(lock[e]) /\ dev[lock[e]] = e)'
        BY <1>3, <1>4, <2>3 DEF LockOwner, Working, TypeOK
  <2>4. ASSUME NEW u \in Procs, pc'[u] = "update"
        PROVE  u = Vcpu /\ dev'[u] \in Devs
        BY <1>3, <2>4 DEF LockOwner
  <2> QED
      BY <2>2, <2>3, <2>4 DEF LockOwner
<1>6. \A e \in Devs : At(e)' = IF e = d THEN next ELSE At(e)
      BY <1>3, <1>4 DEF At, TypeOK
<1>7. At(d) = "idle"
      BY <1>2 DEF At
<1>8. \A e \in Devs : (Counted(e)' <=> Counted(e)) /\ (Raised(e)' <=> Raised(e))
      BY <1>3, <1>6, <1>7 DEF Counted, Raised
<1>9. ActiveCount'
  <2>1. \A p \in Pins : Holders(p)' = Holders(p)
        BY <1>8 DEF Holders
  <2> QED
      BY <2>1 DEF ActiveCount
<1>10. IsaLevel'
      BY DEF IsaLevel, Drives, PirqValidIrq
<1>11. IoapicLevel'
      BY <1>8 DEF IoapicLevel
<1>12. StateMatchesMask'
      BY <1>3, Vcpu \in Procs DEF StateMatchesMask, PciLintrPermitted, LockOwner, Procs
<1> QED
    BY <1>1, <1>5, <1>9, <1>10, <1>11, <1>12

\* The threads the guest's accesses and the devices run in.
LEMMA LintrStep ==
    ASSUME IInv, NEW t \in Procs, NEW d \in Devs,
           \/ PciLintrAssert(t, d)
           \/ PciLintrDeassert(t, d)
           \/ t = Vcpu /\ PciLintrUpdate(d)
    PROVE  IInv'
<1>1. CASE PciLintrAssert(t, d) /\ PciLintrPermitted(d)
      BY <1>1, DecideStep DEF PciLintrAssert
<1>2. CASE PciLintrAssert(t, d) /\ ~PciLintrPermitted(d)
      BY <1>2, DecideStep DEF PciLintrAssert
<1>3. CASE PciLintrDeassert(t, d)
      BY <1>3, DecideStep DEF PciLintrDeassert
<1>4. CASE t = Vcpu /\ PciLintrUpdate(d)
  <2> USE <1>4 DEF PciLintrUpdate
  <2>1. CASE state[d] = "ASSERTED" /\ ~PciLintrPermitted(d)
        BY <2>1, DecideStep
  <2>2. CASE state[d] = "PENDING" /\ PciLintrPermitted(d)
        BY <2>2, DecideStep
  <2>3. CASE ~(state[d] = "ASSERTED" /\ ~PciLintrPermitted(d))
             /\ ~(state[d] = "PENDING" /\ PciLintrPermitted(d))
    <3>1. state[d] \in {"IDLE", "ASSERTED", "PENDING"}
          BY DEF IInv, TypeOK
    <3> QED
        BY <2>3, <3>1, DecideStep
  <2> QED
      BY <2>1, <2>2, <2>3
<1> QED
    BY <1>1, <1>2, <1>3, <1>4

\* What the lock of a device protects: while thread t works on it, no other
\* thread does, and a thread that works on another device is not disturbed.
LEMMA WorkStep ==
    ASSUME IInv, NEW t \in Procs, Working(t),
           NEW next \in {"idle", "ioapicUp", "ioapicDown"},
           next = "ioapicUp" => pc[t] = "up",
           next = "ioapicDown" => pc[t] = "down",
           pc' = [pc EXCEPT ![t] = next],
           IF next = "idle" THEN Return(t) ELSE UNCHANGED <<dev, lock>>,
           UNCHANGED state
    PROVE  /\ LockOwner'
           /\ dev[t] \in Devs
           /\ At(dev[t]) = pc[t]
           /\ \A e \in Devs : At(e)' = IF e = dev[t] THEN next ELSE At(e)
<1> DEFINE d == dev[t]
<1> USE PciIntxAssumption DEF IInv
<1>1. d \in Devs /\ lock[d] = t /\ (state[d] = "ASSERTED" <=> pc[t] \in {"up", "ioapicUp"})
      BY DEF LockOwner
<1>2. t # Nobody
      BY DEF Procs
<1>3. At(d) = pc[t]
      BY <1>1, <1>2 DEF At
<1>4. /\ \A u \in Procs : pc'[u] = (IF u = t THEN next ELSE pc[u])
      /\ \A e \in Devs : lock'[e] = (IF e = d /\ next = "idle" THEN Nobody ELSE lock[e])
      /\ \A u \in Procs : dev'[u] = (IF u = t /\ next = "idle" THEN NoDev ELSE dev[u])
      BY <1>1 DEF TypeOK, Return
<1>5. \A e \in Devs : e # d => lock[e] # t
      BY <1>2 DEF LockOwner
<1>6. \A e \in Devs : At(e)' = IF e = d THEN next ELSE At(e)
      BY <1>1, <1>2, <1>4, <1>5 DEF At, TypeOK
<1>7. LockOwner'
  <2>1. ASSUME NEW u \in Procs, Working(u)'
        PROVE  /\ dev'[u] \in Devs /\ lock'[dev'[u]] = u
               /\ state'[dev'[u]] = "ASSERTED" <=> pc'[u] \in {"up", "ioapicUp"}
        BY <1>1, <1>4, <2>1 DEF LockOwner, Working
  <2>2. ASSUME NEW e \in Devs, lock'[e] # Nobody
        PROVE  (Working(lock[e]) /\ dev[lock[e]] = e)'
        BY <1>1, <1>4, <1>5, <2>2 DEF LockOwner, Working, TypeOK
  <2>3. ASSUME NEW u \in Procs, pc'[u] = "update"
        PROVE  u = Vcpu /\ dev'[u] \in Devs
        BY <1>4, <2>3 DEF LockOwner
  <2> QED
      BY <2>1, <2>2, <2>3 DEF LockOwner
<1> QED
    BY <1>1, <1>3, <1>6, <1>7

\* Updating one entry of a table of counts.
LEMMA UpdateCount ==
    ASSUME NEW S, NEW f \in [S -> Nat], NEW x \in S, NEW v \in Nat
    PROVE  /\ [f EXCEPT ![x] = v] \in [S -> Nat]
           /\ \A y \in S : [f EXCEPT ![x] = v][y] = IF y = x THEN v ELSE f[y]
OBVIOUS

\* Updating one entry of the table of ISA asserts.
LEMMA UpdateIsa ==
    ASSUME NEW f \in [Pins -> [Irqs -> Nat]], NEW p \in Pins, NEW i \in Irqs, NEW v \in Nat
    PROVE  /\ [f EXCEPT ![p][i] = v] \in [Pins -> [Irqs -> Nat]]
           /\ \A q \in Pins, j \in Irqs :
                 [f EXCEPT ![p][i] = v][q][j] = IF q = p /\ j = i THEN v ELSE f[q][j]
<1>1. [f EXCEPT ![p][i] = v] = [f EXCEPT ![p] = [f[p] EXCEPT ![i] = v]]
      OBVIOUS
<1>2. [f[p] EXCEPT ![i] = v] \in [Irqs -> Nat]
      OBVIOUS
<1> QED
    BY <1>1, <1>2

\* active_count and the ISA IRQ of a pin when a device begins to hold it.
LEMMA AssertStep ==
    ASSUME Counts, IInv, NEW t \in Procs, PciIrqAssert(t)
    PROVE  IInv'
<1> USE PciIntxAssumption DEF IInv
<1>0. PICK d \in Devs : d = dev[t]
      BY DEF PciIrqAssert, Working, LockOwner
<1> DEFINE p == PirqPin[d]
           first == active[p] + 1 = 1 /\ PirqValidIrq(reg[p])
           next == IF first THEN "idle" ELSE "ioapicUp"
<1>1. pc[t] = "up" /\ Working(t) /\ d \in Devs /\ p \in Pins /\ state[d] = "ASSERTED"
      BY <1>0 DEF PciIrqAssert, Working, LockOwner
<1>2. /\ LockOwner'
      /\ At(d) = "up"
      /\ \A e \in Devs : At(e)' = IF e = d THEN next ELSE At(e)
      BY <1>0, <1>1, WorkStep DEF PciIrqAssert, Return
<1>3. UNCHANGED <<state, mask, reg>>
      BY DEF PciIrqAssert
<1>4. \A e \in Devs : Counted(e)' <=> Counted(e) \/ e = d
      BY <1>1, <1>2, <1>3 DEF Counted
<1>5. \A e \in Devs : Raised(e)' <=> Raised(e) \/ (e = d /\ first)
      BY <1>1, <1>2, <1>3 DEF Raised
<1>6. ~Counted(d) /\ ~Raised(d)
      BY <1>1, <1>2 DEF Counted, Raised
<1>7. active' = [active EXCEPT ![p] = @ + 1]
      BY <1>0 DEF PciIrqAssert
<1>8. ActiveCount'
  <2> SUFFICES ASSUME NEW q \in Pins PROVE active'[q] = Cardinality(Holders(q)')
      BY DEF ActiveCount
  <2>1. CASE q # p
    <3>1. Holders(q)' = Holders(q)
          BY <1>4, <2>1 DEF Holders
    <3> QED
        BY <2>1, <3>1, <1>7 DEF ActiveCount, TypeOK
  <2>2. CASE q = p
    <3>1. Holders(p)' = Holders(p) \cup {d} /\ d \notin Holders(p)
          BY <1>1, <1>4, <1>6 DEF Holders
    <3>2. Cardinality(Holders(p)') = Cardinality(Holders(p)) + 1
      <4>1. Holders(p) \in SUBSET Devs
            BY DEF Holders
      <4> QED
          BY <3>1, <4>1, <1>1 DEF Counts
    <3> QED
        BY <2>2, <3>2, <1>1, <1>7 DEF ActiveCount, TypeOK
  <2> QED
      BY <2>1, <2>2
<1>9. /\ isa' \in [Pins -> [Irqs -> Nat]]
      /\ \A q \in Pins, i \in Irqs : isa'[q][i] =
            IF first /\ q = p /\ i = reg[p] THEN isa[q][i] + 1 ELSE isa[q][i]
  <2>1. CASE first
    <3>1. isa' = [isa EXCEPT ![p][reg[p]] = isa[p][reg[p]] + 1] /\ reg[p] \in Irqs
          BY <2>1, <1>0 DEF PciIrqAssert, PirqValidIrq
    <3>2. isa \in [Pins -> [Irqs -> Nat]] /\ isa[p][reg[p]] + 1 \in Nat
          BY <3>1, <1>1 DEF TypeOK
    <3> QED
        BY <2>1, <3>1, <3>2, <1>1, UpdateIsa
  <2>2. CASE ~first
        BY <2>2, <1>0 DEF PciIrqAssert, TypeOK
  <2> QED
      BY <2>1, <2>2
<1>13. TypeOK'
  <2>1. active' \in [Pins -> Nat]
        BY <1>1, <1>7 DEF TypeOK
  <2>2. ioapic' \in [Devs -> Nat]
    <3>1. ioapic \in [Devs -> Nat] /\ ioapic[d] + 1 \in Nat
          BY <1>1 DEF TypeOK
    <3>2. ioapic' = IF first THEN [ioapic EXCEPT ![d] = ioapic[d] + 1] ELSE ioapic
          BY <1>0 DEF PciIrqAssert
    <3> QED
        BY <3>1, <3>2, <1>1, UpdateCount
  <2>3. pc' \in [Procs -> {"idle", "update", "up", "down", "ioapicUp", "ioapicDown"}]
        BY <1>0, <1>1, ZenonT(60) DEF PciIrqAssert, TypeOK, Return
  <2>4. lock' \in [Devs -> Procs \cup {Nobody}] /\ dev' \in [Procs -> Devs \cup {NoDev}]
        BY <1>0, <1>1, ZenonT(60) DEF PciIrqAssert, TypeOK, Return
  <2> QED
      BY <1>3, <1>9, <2>1, <2>2, <2>3, <2>4 DEF TypeOK
<1>10. IsaLevel'
  <2>2. \A q \in Pins : active'[q] = IF q = p THEN active[p] + 1 ELSE active[q]
        BY <1>1, <1>7 DEF TypeOK
  <2>3. active[p] \in Nat
        BY <1>1 DEF TypeOK
  <2> QED
      BY <1>1, <1>3, <1>9, <2>2, <2>3 DEF IsaLevel, Drives, PirqValidIrq
<1>11. IoapicLevel'
  <2>1. \A e \in Devs : ioapic'[e] = IF first /\ e = d THEN ioapic[e] + 1 ELSE ioapic[e]
        BY <1>0, <1>1 DEF PciIrqAssert, TypeOK
  <2> QED
      BY <2>1, <1>5, <1>6, SMTT(60) DEF IoapicLevel
<1>12. StateMatchesMask'
  <2>1. (pc'[Vcpu] = "update" <=> pc[Vcpu] = "update") /\ (pc[Vcpu] = "update" => dev'[Vcpu] = dev[Vcpu])
        BY <1>0, <1>1 DEF PciIrqAssert, Return, TypeOK, Procs
  <2> QED
      BY <1>3, <2>1 DEF StateMatchesMask, PciLintrPermitted
<1> QED
    BY <1>2, <1>8, <1>13, <1>10, <1>11, <1>12

\* The same when a device ceases to hold its pin.  It was counted, so the
\* count is not zero.
LEMMA DeassertStep ==
    ASSUME Counts, IInv, NEW t \in Procs, PciIrqDeassert(t)
    PROVE  IInv'
<1> USE PciIntxAssumption DEF IInv
<1>0. PICK d \in Devs : d = dev[t]
      BY DEF PciIrqDeassert, Working, LockOwner
<1> DEFINE p == PirqPin[d]
           last == active[p] - 1 = 0 /\ PirqValidIrq(reg[p])
           next == IF last THEN "idle" ELSE "ioapicDown"
<1>1. pc[t] = "down" /\ Working(t) /\ d \in Devs /\ p \in Pins /\ state[d] # "ASSERTED"
      BY <1>0, SMTT(60) DEF PciIrqDeassert, Working, LockOwner
<1>2. /\ LockOwner'
      /\ At(d) = "down"
      /\ \A e \in Devs : At(e)' = IF e = d THEN next ELSE At(e)
      BY <1>0, <1>1, WorkStep DEF PciIrqDeassert, Return
<1>3. UNCHANGED <<state, mask, reg>>
      BY DEF PciIrqDeassert
<1>4. \A e \in Devs : Counted(e)' <=> Counted(e) /\ e # d
      BY <1>1, <1>2, <1>3 DEF Counted
<1>5. \A e \in Devs : Raised(e)' <=> Raised(e) /\ ~(e = d /\ last)
      BY <1>1, <1>2, <1>3 DEF Raised
<1>6. Counted(d) /\ Raised(d)
      BY <1>1, <1>2 DEF Counted, Raised
<1>7. active' = [active EXCEPT ![p] = @ - 1]
      BY <1>0 DEF PciIrqDeassert
<1>8. Holders(p)' = Holders(p) \ {d} /\ d \in Holders(p)
      BY <1>1, <1>4, <1>6 DEF Holders
<1>9. Cardinality(Holders(p)') = Cardinality(Holders(p)) - 1
  <2>1. Holders(p) \ {d} \in SUBSET Devs /\ Holders(p) = (Holders(p) \ {d}) \cup {d}
        BY <1>8 DEF Holders
  <2>2. Cardinality(Holders(p)) = Cardinality(Holders(p) \ {d}) + 1
        BY <2>1, <1>1 DEF Counts
  <2>3. Cardinality(Holders(p) \ {d}) \in Nat
        BY <2>1 DEF Counts
  <2> QED
      BY <1>8, <2>2, <2>3
<1>10. active[p] \in Nat /\ active[p] # 0
  <2>1. Cardinality(Holders(p)) # 0
    <3>1. Holders(p) \in SUBSET Devs /\ Holders(p) # {}
          BY <1>8 DEF Holders
    <3> QED
        BY <3>1 DEF Counts
  <2> QED
      BY <2>1, <1>1 DEF ActiveCount, TypeOK
<1>11. ActiveCount'
  <2> SUFFICES ASSUME NEW q \in Pins PROVE active'[q] = Cardinality(Holders(q)')
      BY DEF ActiveCount
  <2>1. CASE q # p
    <3>1. Holders(q)' = Holders(q)
          BY <1>4, <2>1 DEF Holders
    <3> QED
        BY <2>1, <3>1, <1>7 DEF ActiveCount, TypeOK
  <2>2. CASE q = p
        BY <2>2, <1>9, <1>1, <1>7 DEF ActiveCount, TypeOK
  <2> QED
      BY <2>1, <2>2
<1>12. /\ isa' \in [Pins -> [Irqs -> Nat]]
       /\ \A q \in Pins, i \in Irqs : isa'[q][i] =
            IF last /\ q = p /\ i = reg[p] THEN isa[q][i] - 1 ELSE isa[q][i]
  <2>1. CASE last
    <3>1. isa' = [isa EXCEPT ![p][reg[p]] = isa[p][reg[p]] - 1] /\ reg[p] \in Irqs
          BY <2>1, <1>0 DEF PciIrqDeassert, PirqValidIrq
    <3>2. isa[p][reg[p]] = 1
          BY <2>1, <3>1, <1>1, <1>10 DEF IsaLevel, Drives
    <3>3. isa \in [Pins -> [Irqs -> Nat]] /\ isa[p][reg[p]] - 1 \in Nat
          BY <3>2 DEF TypeOK
    <3> QED
        BY <2>1, <3>1, <3>3, <1>1, UpdateIsa
  <2>2. CASE ~last
        BY <2>2, <1>0 DEF PciIrqDeassert, TypeOK
  <2> QED
      BY <2>1, <2>2
<1>13. /\ ioapic' \in [Devs -> Nat]
       /\ \A e \in Devs : ioapic'[e] = IF last /\ e = d THEN ioapic[e] - 1 ELSE ioapic[e]
  <2>1. ioapic \in [Devs -> Nat] /\ ioapic[d] - 1 \in Nat
        BY <1>1, <1>6 DEF IoapicLevel, TypeOK
  <2>2. ioapic' = IF last THEN [ioapic EXCEPT ![d] = ioapic[d] - 1] ELSE ioapic
        BY <1>0 DEF PciIrqDeassert
  <2> QED
      BY <2>1, <2>2, <1>1, UpdateCount
<1>14. TypeOK'
  <2>1. active' \in [Pins -> Nat]
    <3>1. active \in [Pins -> Nat] /\ active[p] - 1 \in Nat
          BY <1>10 DEF TypeOK
    <3>2. active' = [active EXCEPT ![p] = active[p] - 1]
          BY <1>7
    <3> QED
        BY <3>1, <3>2, <1>1, UpdateCount
  <2>2. pc' \in [Procs -> {"idle", "update", "up", "down", "ioapicUp", "ioapicDown"}]
        BY <1>0, <1>1, ZenonT(60) DEF PciIrqDeassert, TypeOK, Return
  <2>3. lock' \in [Devs -> Procs \cup {Nobody}] /\ dev' \in [Procs -> Devs \cup {NoDev}]
        BY <1>0, <1>1, ZenonT(60) DEF PciIrqDeassert, TypeOK, Return
  <2> QED
      BY <1>3, <1>12, <1>13, <2>1, <2>2, <2>3 DEF TypeOK
<1>15. IsaLevel'
  <2>1. \A q \in Pins : active'[q] = IF q = p THEN active[p] - 1 ELSE active[q]
        BY <1>1, <1>7 DEF TypeOK
  <2> SUFFICES ASSUME NEW q \in Pins, NEW i \in Irqs
               PROVE  isa'[q][i] = IF active'[q] # 0 /\ PirqValidIrq(reg[q]) /\ reg[q] = i
                                   THEN 1 ELSE 0
      BY <1>3 DEF IsaLevel, Drives, PirqValidIrq
  <2>2. isa[q][i] = IF active[q] # 0 /\ PirqValidIrq(reg[q]) /\ reg[q] = i THEN 1 ELSE 0
        BY DEF IsaLevel, Drives
  <2>3. CASE q # p
        BY <2>1, <2>2, <2>3, <1>12
  <2>4. CASE q = p
        BY <2>1, <2>2, <2>4, <1>1, <1>10, <1>12, SMTT(60)
  <2> QED
      BY <2>3, <2>4
<1>16. IoapicLevel'
  <2> SUFFICES ASSUME NEW e \in Devs PROVE ioapic'[e] = IF Raised(e)' THEN 1 ELSE 0
      BY DEF IoapicLevel
  <2>1. ioapic[e] = IF Raised(e) THEN 1 ELSE 0
        BY DEF IoapicLevel
  <2>2. CASE e = d /\ last
        BY <2>1, <2>2, <1>13, <1>5, <1>6, SMTT(60)
  <2>3. CASE ~(e = d /\ last)
        BY <2>1, <2>3, <1>13, <1>5, SMTT(60)
  <2> QED
      BY <2>2, <2>3
<1>17. StateMatchesMask'
  <2>1. (pc'[Vcpu] = "update" <=> pc[Vcpu] = "update") /\ (pc[Vcpu] = "update" => dev'[Vcpu] = dev[Vcpu])
        BY <1>0, <1>1 DEF PciIrqDeassert, Return, TypeOK, Procs
  <2> QED
      BY <1>3, <2>1 DEF StateMatchesMask, PciLintrPermitted
<1> QED
    BY <1>2, <1>11, <1>14, <1>15, <1>16, <1>17, Zenon

\* The call to the I/O APIC that follows when another device holds the pin.
LEMMA IoapicStep ==
    ASSUME IInv, NEW t \in Procs, IoapicAssert(t) \/ IoapicDeassert(t)
    PROVE  IInv'
<1> USE PciIntxAssumption DEF IInv
<1>0. PICK d \in Devs : d = dev[t]
      BY DEF IoapicAssert, IoapicDeassert, Working, LockOwner
<1> DEFINE up == pc[t] = "ioapicUp"
           v == IF up THEN ioapic[d] + 1 ELSE ioapic[d] - 1
<1>1. /\ pc[t] = IF up THEN "ioapicUp" ELSE "ioapicDown"
      /\ Working(t)
      /\ state[d] = "ASSERTED" <=> up
      BY <1>0 DEF IoapicAssert, IoapicDeassert, Working, LockOwner
<1>2. Return(t) /\ UNCHANGED <<state, mask, active, reg, isa>>
      BY DEF IoapicAssert, IoapicDeassert
<1>3. /\ LockOwner'
      /\ At(d) = pc[t]
      /\ \A e \in Devs : At(e)' = IF e = d THEN "idle" ELSE At(e)
      BY <1>0, <1>1, <1>2, WorkStep, ZenonT(60) DEF Return
<1>4. \A e \in Devs : Counted(e)' <=> Counted(e)
      BY <1>1, <1>2, <1>3 DEF Counted
<1>5. \A e \in Devs : Raised(e)' <=> IF e = d THEN up ELSE Raised(e)
      BY <1>1, <1>2, <1>3 DEF Raised
<1>6. Raised(d) <=> ~up
      BY <1>1, <1>3 DEF Raised
<1>7. /\ ioapic' \in [Devs -> Nat]
      /\ \A e \in Devs : ioapic'[e] = IF e = d THEN v ELSE ioapic[e]
  <2>1. ioapic \in [Devs -> Nat] /\ v \in Nat
        BY <1>6 DEF IoapicLevel, TypeOK
  <2>2. ioapic' = [ioapic EXCEPT ![d] = v]
        BY <1>0 DEF IoapicAssert, IoapicDeassert
  <2> QED
      BY <2>1, <2>2, UpdateCount
<1>8. IoapicLevel'
      BY <1>5, <1>6, <1>7 DEF IoapicLevel
<1>9. ActiveCount'
  <2>1. \A p \in Pins : Holders(p)' = Holders(p)
        BY <1>4 DEF Holders
  <2> QED
      BY <2>1, <1>2 DEF ActiveCount
<1>10. TypeOK'
      BY <1>0, <1>2, <1>7, ZenonT(60) DEF TypeOK, Return
<1>11. IsaLevel'
      BY <1>2 DEF IsaLevel, Drives, PirqValidIrq
<1>12. StateMatchesMask'
  <2>1. (pc'[Vcpu] = "update" <=> pc[Vcpu] = "update") /\ (pc[Vcpu] = "update" => dev'[Vcpu] = dev[Vcpu])
        BY <1>1, <1>2 DEF Return, TypeOK, Procs
  <2> QED
      BY <1>2, <2>1 DEF StateMatchesMask, PciLintrPermitted
<1> QED
    BY <1>3, <1>8, <1>9, <1>10, <1>11, <1>12

\* A configuration write changes no count: the update that follows does.
LEMMA CfgWriteStep ==
    ASSUME IInv, NEW d \in Devs, NEW m \in Masks, CfgWrite(d, m)
    PROVE  IInv'
<1> USE PciIntxAssumption DEF IInv, CfgWrite
<1>0. Vcpu \in Procs
      BY DEF Procs
<1>1. TypeOK'
      BY <1>0 DEF TypeOK, Masks
<1>2. /\ \A u \in Procs : pc'[u] = (IF u = Vcpu THEN "update" ELSE pc[u])
      /\ \A u \in Procs : dev'[u] = (IF u = Vcpu THEN d ELSE dev[u])
      BY DEF TypeOK
<1>3. \A e \in Devs : lock[e] # Vcpu
      BY <1>0 DEF LockOwner, Working, Procs
<1>4. LockOwner'
  <2>1. ASSUME NEW u \in Procs, Working(u)'
        PROVE  /\ dev'[u] \in Devs /\ lock'[dev'[u]] = u
               /\ state'[dev'[u]] = "ASSERTED" <=> pc'[u] \in {"up", "ioapicUp"}
        BY <1>2, <2>1, SMTT(60) DEF LockOwner, Working
  <2>2. ASSUME NEW e \in Devs, lock'[e] # Nobody
        PROVE  (Working(lock[e]) /\ dev[lock[e]] = e)'
        BY <1>2, <1>3, <2>2 DEF LockOwner, Working, TypeOK
  <2>3. ASSUME NEW u \in Procs, pc'[u] = "update"
        PROVE  u = Vcpu /\ dev'[u] \in Devs
        BY <1>2, <2>3 DEF LockOwner
  <2> QED
      BY <2>1, <2>2, <2>3 DEF LockOwner
<1>5. \A e \in Devs : At(e)' = At(e)
      BY <1>2, <1>3 DEF At, TypeOK
<1>6. \A e \in Devs : (Counted(e)' <=> Counted(e)) /\ (Raised(e)' <=> Raised(e))
      BY <1>5 DEF Counted, Raised
<1>7. ActiveCount'
  <2>1. \A p \in Pins : Holders(p)' = Holders(p)
        BY <1>6 DEF Holders
  <2> QED
      BY <2>1 DEF ActiveCount
<1>8. IsaLevel'
      BY DEF IsaLevel, Drives, PirqValidIrq
<1>9. IoapicLevel'
      BY <1>6 DEF IoapicLevel
<1>10. StateMatchesMask'
  <2>1. \A e \in Devs : e # d => mask'[e] = mask[e]
        BY DEF TypeOK
  <2> QED
      BY <1>0, <1>2, <2>1 DEF StateMatchesMask, PciLintrPermitted
<1> QED
    BY <1>1, <1>4, <1>7, <1>8, <1>9, <1>10

\* Rerouting a pin moves its assert from the old IRQ to the new one.
LEMMA PirqWriteStep ==
    ASSUME IInv, NEW p \in Pins, NEW val \in Regs, PirqWrite(p, val)
    PROVE  IInv'
<1> USE PciIntxAssumption DEF IInv
<1>1. UNCHANGED <<state, mask, lock, active, ioapic, pc, dev>>
      BY DEF PirqWrite
<1> DEFINE new(i) == isa[p][i] - (IF Drives(p, reg[p]) /\ i = reg[p] THEN 1 ELSE 0)
                               + (IF Drives(p, val) /\ i = val THEN 1 ELSE 0)
<1>2. \A i \in Irqs : new(i) = IF Drives(p, val) /\ val = i THEN 1 ELSE 0
      BY DEF IsaLevel
<1>3. isa' = [isa EXCEPT ![p] = [i \in Irqs |-> new(i)]]
      BY DEF PirqWrite
<1> HIDE DEF new
<1>4. [i \in Irqs |-> new(i)] \in [Irqs -> Nat]
      BY <1>2
<1>5. reg' = [reg EXCEPT ![p] = val]
      BY DEF PirqWrite
<1>6. TypeOK'
      BY <1>1, <1>3, <1>4, <1>5 DEF TypeOK
<1>7. IsaLevel'
  <2>1. \A q \in Pins, i \in Irqs : isa'[q][i] = IF q = p THEN new(i) ELSE isa[q][i]
        BY <1>3 DEF TypeOK
  <2>2. \A q \in Pins : reg'[q] = IF q = p THEN val ELSE reg[q]
        BY <1>5 DEF TypeOK
  <2> QED
      BY <1>1, <1>2, <2>1, <2>2 DEF IsaLevel, Drives, PirqValidIrq
<1>8. LockOwner'
      BY <1>1 DEF LockOwner, Working
<1>9. \A e \in Devs : (Counted(e)' <=> Counted(e)) /\ (Raised(e)' <=> Raised(e))
      BY <1>1 DEF Counted, Raised, At
<1>10. ActiveCount'
  <2>1. \A q \in Pins : Holders(q)' = Holders(q)
        BY <1>9 DEF Holders
  <2> QED
      BY <2>1, <1>1 DEF ActiveCount
<1>11. IoapicLevel' /\ StateMatchesMask'
      BY <1>1, <1>9, Zenon DEF IoapicLevel, StateMatchesMask, PciLintrPermitted
<1> QED
    BY <1>6, <1>7, <1>8, <1>10, <1>11

\* Every step of the devices, of the guest, and stuttering preserve it.
LEMMA NextIInv == Counts /\ IInv /\ [Next]_vars => IInv'
<1> SUFFICES ASSUME Counts, IInv, [Next]_vars PROVE IInv'
    OBVIOUS
<1>1. CASE Guest
  <2>1. ASSUME NEW d \in Devs, NEW m \in Masks, CfgWrite(d, m) PROVE IInv'
        BY <2>1, CfgWriteStep
  <2>2. ASSUME NEW d \in Devs, PciLintrUpdate(d) PROVE IInv'
        BY <2>2, LintrStep DEF Procs
  <2>3. ASSUME NEW p \in Pins, NEW val \in Regs, PirqWrite(p, val) PROVE IInv'
        BY <2>3, PirqWriteStep
  <2> QED
      BY <1>1, <2>1, <2>2, <2>3 DEF Guest
<1>2. ASSUME NEW t \in Procs, Step(t) PROVE IInv'
      BY <1>2, LintrStep, AssertStep, DeassertStep, IoapicStep DEF Step
<1>3. CASE UNCHANGED vars
  <2>1. TypeOK' /\ LockOwner' /\ IsaLevel' /\ StateMatchesMask'
        BY <1>3, SMTT(60) DEF vars, IInv, TypeOK, LockOwner, Working, IsaLevel, Drives, PirqValidIrq,
                    StateMatchesMask, PciLintrPermitted
  <2>2. ActiveCount' /\ IoapicLevel'
        BY <1>3, Zenon DEF vars, IInv, ActiveCount, IoapicLevel, Holders, Counted, Raised, At
  <2> QED
      BY <2>1, <2>2 DEF IInv
<1> QED
    BY <1>1, <1>2, <1>3 DEF Next

----------------------------------------------------------------------------
(* Power management: sci_active is what the enabled status bits ask for in *)
(* every VM (each handler that changes them calls sci_update), and the     *)
(* line is sci_active until that static is taken along to another VM.      *)

P == INSTANCE Pm WITH vm <- pvm, suspend <- psuspend

PmFlags ==
    /\ reset_control \in BOOLEAN /\ pm1_status \in BOOLEAN /\ sci_en \in BOOLEAN
    /\ sci_active \in BOOLEAN /\ line \in BOOLEAN /\ ignored \in BOOLEAN
    /\ old_ignored \in BOOLEAN /\ pressed \in BOOLEAN /\ stale \in BOOLEAN

PmTypes ==
    /\ pvm \in 1 .. MaxVms /\ phase \in {"run", "destroyed", "exited"}
    /\ psuspend \in {"none", "reset", "poweroff"} /\ pm1_enable \subseteq {"PWRBTN", "GBL"}
    /\ power_button \in 0 .. MaxVms /\ entry \in 0 .. MaxVms
    /\ sigterm \in {"none", "discarded", "killed"}

Needed == "PWRBTN" \in pm1_enable /\ pm1_status

SciCached == (sci_active <=> Needed) /\ (~stale => (line <=> sci_active))

ButtonArmed == power_button # 0 => sci_en /\ ignored

\* The inductive invariant of power management.
PmInv == PmFlags /\ PmTypes /\ SciCached /\ ButtonArmed

\* At the start nothing is enabled and the line is low.
LEMMA PmInit == P!Init => PmInv
<1> SUFFICES ASSUME P!Init PROVE PmInv
    OBVIOUS
<1>1. PmFlags
      BY Zenon DEF P!Init, PmFlags
<1>2. PmTypes
      BY PlatformAssumption DEF P!Init, PmTypes
<1>3. SciCached /\ ButtonArmed
      BY DEF P!Init, SciCached, Needed, ButtonArmed
<1> QED
    BY <1>1, <1>2, <1>3 DEF PmInv

\* The steps of pm.c and of main preserve the invariant.
LEMMA PmNext ==
    ASSUME PmInv, P!Next
    PROVE  PmInv'
<1> USE DEF PmInv, P!regs, P!button, P!history
<1>1. ASSUME NEW b \in BOOLEAN, P!pm1_status_handler(b)
      PROVE  PmInv'
  <2>1. PmFlags'
        BY <1>1, Zenon DEF P!pm1_status_handler, P!sci_update, PmFlags
  <2>2. PmTypes' /\ ButtonArmed'
        BY <1>1 DEF P!pm1_status_handler, PmTypes, ButtonArmed
  <2>3. SciCached'
        BY <1>1, <2>1 DEF P!pm1_status_handler, P!sci_update, SciCached, Needed, PmFlags
  <2> QED
      BY <2>1, <2>2, <2>3
<1>2. ASSUME NEW b \in BOOLEAN, P!reset_handler(b)
      PROVE  PmInv'
  <2>1. PmFlags'
        BY <1>2, Zenon DEF P!reset_handler, PmFlags
  <2> QED
      BY <1>2, <2>1 DEF P!reset_handler, PmTypes, SciCached, Needed, ButtonArmed
<1>3. ASSUME NEW bits \in SUBSET {"PWRBTN", "GBL"}, P!pm1_enable_handler(bits)
      PROVE  PmInv'
  <2>1. PmFlags'
        BY <1>3, Zenon DEF P!pm1_enable_handler, P!sci_update, PmFlags
  <2>2. PmTypes' /\ ButtonArmed'
        BY <1>3 DEF P!pm1_enable_handler, PmTypes, ButtonArmed
  <2>3. SciCached'
        BY <1>3, <2>1 DEF P!pm1_enable_handler, P!sci_update, SciCached, Needed, PmFlags
  <2> QED
      BY <2>1, <2>2, <2>3
<1>4. ASSUME NEW a \in BOOLEAN, NEW b \in BOOLEAN, P!pm1_control_handler(a, b)
      PROVE  PmInv'
  <2>1. PmFlags'
        BY <1>4, Zenon DEF P!pm1_control_handler, PmFlags
  <2> QED
      BY <1>4, <2>1 DEF P!pm1_control_handler, PmTypes, SciCached, Needed, ButtonArmed
<1>5. CASE P!AcpiEnable
  <2>1. PmFlags'
        BY <1>5, Zenon DEF P!AcpiEnable, PmFlags
  <2> QED
      BY <1>5, <2>1 DEF P!AcpiEnable, PmTypes, SciCached, Needed, ButtonArmed
<1>6. CASE P!AcpiDisable
  <2>1. PmFlags'
        BY <1>6, Zenon DEF P!AcpiDisable, PmFlags
  <2> QED
      BY <1>6, <2>1, PlatformAssumption DEF P!AcpiDisable, PmTypes, SciCached, Needed, ButtonArmed
<1>7. CASE P!power_button_handler
  <2>1. PmFlags'
        BY <1>7, Zenon DEF P!power_button_handler, P!sci_update, PmFlags
  <2>2. PmTypes' /\ ButtonArmed'
        BY <1>7 DEF P!power_button_handler, PmTypes, ButtonArmed
  <2>3. SciCached'
        BY <1>7, <2>1 DEF P!power_button_handler, P!sci_update, SciCached, Needed, PmFlags
  <2> QED
      BY <2>1, <2>2, <2>3
<1>8. CASE P!Sigterm \/ P!mevent_build \/ P!mevent_destroy \/ P!Idle
  <2>1. PmFlags'
        BY <1>8, Zenon DEF P!Sigterm, P!mevent_build, P!mevent_destroy, P!Idle, P!vars, PmFlags
  <2>2. PmTypes'
    <3>1. CASE P!Sigterm
          BY <3>1 DEF P!Sigterm, PmTypes
    <3>2. CASE P!mevent_destroy
          BY <3>2, PlatformAssumption DEF P!mevent_destroy, PmTypes
    <3>3. CASE P!Idle
          BY <3>3 DEF P!Idle, P!vars, PmTypes
    <3>4. CASE P!mevent_build
          BY <3>4, PlatformAssumption DEF P!mevent_build, PmTypes
    <3> QED
        BY <1>8, <3>1, <3>2, <3>3, <3>4
  <2>3. SciCached' /\ ButtonArmed'
        BY <1>8 DEF P!Sigterm, P!mevent_build, P!mevent_destroy, P!Idle, P!vars, SciCached, Needed, ButtonArmed
  <2> QED
      BY <2>1, <2>2, <2>3
<1>9. CASE P!EndVm
  <2>1. PmFlags'
        BY <1>9, Zenon DEF P!EndVm, PmFlags
  <2>2. PmTypes' /\ ButtonArmed'
        BY <1>9, PlatformAssumption DEF P!EndVm, PmTypes, ButtonArmed
  <2>3. SciCached'
        BY <1>9, <2>1 DEF P!EndVm, SciCached, Needed, PmFlags
  <2> QED
      BY <2>1, <2>2, <2>3
<1> QED
    BY <1>1, <1>2, <1>3, <1>4, <1>5, <1>6, <1>7, <1>8, <1>9 DEF P!Next

\* The invariant reads the variables of power management only.
LEMMA PmStutter ==
    ASSUME PmInv, UNCHANGED pvars
    PROVE  PmInv'
BY DEF PmInv, PmFlags, PmTypes, SciCached, Needed, ButtonArmed, pvars

\* What the invariant says of the line and of the button.
LEMMA PmImplies == PmInv => SciLevel
<1> SUFFICES ASSUME PmInv PROVE SciLevel
    OBVIOUS
<1>1. PmTypeOK
      BY Zenon DEF PmInv, PmFlags, PmTypes, PmTypeOK
<1>2. /\ ~stale => (line <=> "PWRBTN" \in pm1_enable /\ pm1_status)
      /\ power_button # 0 => sci_en /\ ignored
      BY DEF PmInv, PmFlags, SciCached, Needed, ButtonArmed
<1> QED
    BY <1>1, <1>2 DEF SciLevel

\* The line of the SCI is high exactly while an enabled status bit is set, in every
\* interleaving of the guest's writes and the button, unless sci_active was taken
\* from one VM to another (sci_update).
THEOREM SciAlways == P!Spec => []SciLevel
<1>1. PmInv /\ [P!Next]_(P!vars) => PmInv'
      BY PmNext, PmStutter DEF P!vars, P!regs, P!button, P!history, pvars
<1> QED
    BY <1>1, PmInit, PmImplies, PTL DEF P!Spec

----------------------------------------------------------------------------
(* What the counts of the lines rest on.                                   *)

INSTANCE FiniteSetTheorems

\* Sets of devices are counted one by one.
LEMMA DevsCount == Counts
<1> SUFFICES ASSUME NEW S \in SUBSET Devs
             PROVE  /\ Cardinality(S) \in Nat
                    /\ Cardinality(S) = 0 <=> S = {}
                    /\ \A d \in Devs \ S : Cardinality(S \cup {d}) = Cardinality(S) + 1
    BY DEF Counts
<1>1. IsFiniteSet(S)
      BY PciIntxAssumption, FS_Subset
<1>2. Cardinality(S) \in Nat
      BY <1>1, FS_CardinalityType
<1>3. Cardinality(S) = 0 <=> S = {}
      BY <1>1, FS_EmptySet
<1>4. ASSUME NEW d \in Devs \ S PROVE Cardinality(S \cup {d}) = Cardinality(S) + 1
      BY <1>1, <1>4, FS_AddElement, ZenonT(60)
<1> QED
    BY <1>2, <1>3, <1>4

\* Every reachable state satisfies the inductive invariant.
THEOREM Invariance == Spec => []IInv
<1>1. Init => IInv
      BY DevsCount, InitIInv
<1>2. IInv /\ [Next]_vars => IInv'
      BY DevsCount, NextIInv
<1> QED
    BY <1>1, <1>2, PTL DEF Spec

\* Every variable keeps its type, so no count of pci_irq_deassert or pirq_write
\* is ever taken below zero.
THEOREM TypeCorrect == Spec => []TypeOK
<1>1. IInv => TypeOK
      BY DEF IInv
<1> QED
    BY <1>1, Invariance, PTL

\* active_count of a PIRQ is the number of devices that hold it.
THEOREM CountsHolders == Spec => []ActiveCount
<1>1. IInv => ActiveCount
      BY DEF IInv
<1> QED
    BY <1>1, Invariance, PTL

\* The ISA IRQ of a pin is held exactly while a device holds the pin and the
\* register routes it, whatever pirq_write does meanwhile.
THEOREM IsaFollowsPin == Spec => []IsaLevel
<1>1. IInv => IsaLevel
      BY DEF IInv
<1> QED
    BY <1>1, Invariance, PTL

\* The I/O APIC pin of a device is raised at most once, and lowered as often as
\* it was raised.
THEOREM IoapicFollowsDevice == Spec => []IoapicLevel
<1>1. IInv => IoapicLevel
      BY DEF IInv
<1> QED
    BY <1>1, Invariance, PTL

\* Outside a configuration write a device's INTx state agrees with what
\* configuration space permits.
THEOREM MaskRespected == Spec => []StateMatchesMask
<1>1. IInv => StateMatchesMask
      BY DEF IInv
<1> QED
    BY <1>1, Invariance, PTL

\* Both controllers follow the devices, however pci_irq_assert, pci_irq_deassert and
\* pirq_write are interleaved.
THEOREM ControllersAgree == Spec => []ControllersFollow
<1>1. IsaLevel /\ IoapicLevel => ControllersFollow
      BY DEF ControllersFollow
<1> QED
    BY <1>1, IsaFollowsPin, IoapicFollowsDevice, PTL
============================================================================
