-------------------------- MODULE VirtioBlkProofs --------------------------
(***************************************************************************)
(* The virtqueue of the block device for every size of the ring and every  *)
(* width of the indices: no chain is lost or doubled, and no interrupt is  *)
(* lost.                                                                   *)
(***************************************************************************)
EXTENDS VirtioBlk, TLAPS

-----------------------------------------------------------------------------
(* Arithmetic of the indices.                                               *)

\* An index is the beginning of its round and a slot.
LEMMA DivMod ==
    ASSUME NEW x \in Nat
    PROVE  x \div QSZ \in Int /\ x % QSZ \in 0 .. QSZ - 1 /\ x = QSZ * (x \div QSZ) + (x % QSZ)
    BY RingAssumption

\* There is one such slot.
LEMMA SlotUnique ==
    ASSUME NEW q \in Int, NEW s \in 0 .. QSZ - 1, NEW x \in Nat, x = QSZ * q + s
    PROVE  x % QSZ = s
    BY RingAssumption

\* An index that wraps stays at its slot: the ring's size divides the range.
LEMMA SlotWraps ==
    ASSUME NEW x \in Nat
    PROVE  (x + IDXMOD) % QSZ = x % QSZ
  <1> DEFINE d == IDXMOD \div QSZ
             q == x \div QSZ + d
  <1>1. d \in Int /\ IDXMOD = QSZ * d
    BY DivMod, RingAssumption
  <1>2. x \div QSZ \in Int /\ x % QSZ \in 0 .. QSZ - 1 /\ x = QSZ * (x \div QSZ) + (x % QSZ)
    BY DivMod
  <1>3. q \in Int /\ x + IDXMOD = QSZ * q + (x % QSZ)
    BY <1>1, <1>2, RingAssumption
  <1>4. x + IDXMOD \in Nat
    BY RingAssumption
  <1> HIDE DEF q
  <1> QED
    BY <1>2, <1>3, <1>4, SlotUnique

\* Less than a round apart, two indices have two slots.
LEMMA SlotsApart ==
    ASSUME NEW x \in Nat, NEW j \in 0 .. QSZ - 1, NEW k \in 0 .. QSZ - 1,
           (x + j) % QSZ = (x + k) % QSZ
    PROVE  j = k
  <1> DEFINE a == (x + j) \div QSZ
             b == (x + k) \div QSZ
  <1>1. /\ a \in Int /\ x + j = QSZ * a + ((x + j) % QSZ)
        /\ b \in Int /\ x + k = QSZ * b + ((x + k) % QSZ)
    BY DivMod, RingAssumption
  <1>2. j - k = QSZ * (a - b)
    BY <1>1, RingAssumption, DivMod
  <1> HIDE DEF a, b
  <1>3. a - b < 1 /\ a - b > -1
    BY <1>1, <1>2, RingAssumption
  <1> QED
    BY <1>1, <1>2, <1>3, RingAssumption

\* A slot is one of the ring.
LEMMA SlotIn == ASSUME NEW x \in Nat PROVE x % QSZ \in Chains
    BY RingAssumption DEF Chains

\* The next index.
LEMMA IncIs ==
    ASSUME NEW i \in Idx
    PROVE  Inc(i) \in Idx /\ Inc(i) = IF i = IDXMOD - 1 THEN 0 ELSE i + 1
    BY RingAssumption DEF Idx, Inc

\* The distance of two indices.
LEMMA SubIs ==
    ASSUME NEW i \in Idx, NEW j \in Idx
    PROVE  Sub(i, j) \in Idx /\ Sub(i, j) = IF i >= j THEN i - j ELSE i - j + IDXMOD
    BY RingAssumption DEF Idx, Sub

\* The slots after the next index are those after the index, one on.
LEMMA IncSlot ==
    ASSUME NEW i \in Idx, NEW k \in Nat
    PROVE  (Inc(i) + k) % QSZ = (i + (k + 1)) % QSZ
  <1>1. CASE i = IDXMOD - 1
    <2>1. Inc(i) + k = k /\ i + (k + 1) = k + IDXMOD
      BY <1>1, IncIs, RingAssumption
    <2> QED
      BY <2>1, SlotWraps
  <1>2. CASE i # IDXMOD - 1
    <2>1. Inc(i) + k = i + (k + 1)
      BY <1>2, IncIs DEF Idx
    <2> QED
      BY <2>1
  <1> QED
    BY <1>1, <1>2

\* The slot at the distance of another index is that index's.
LEMMA EndSlot ==
    ASSUME NEW to \in Idx, NEW from \in Idx
    PROVE  (from + Sub(to, from)) % QSZ = to % QSZ
  <1>1. Sub(to, from) = IF to >= from THEN to - from ELSE to - from + IDXMOD
    BY SubIs
  <1>2. from + Sub(to, from) \in {to, to + IDXMOD}
    BY <1>1, RingAssumption DEF Idx
  <1> QED
    BY <1>2, SlotWraps DEF Idx

-----------------------------------------------------------------------------
(* A ring between the index of its reader and that of its writer.           *)

Entry == Chains \union {NONE}

At(r, from, k) == r[(from + k) % QSZ]

First(r, i) == r[i % QSZ]

Put(r, i, c) == [r EXCEPT ![i % QSZ] = c]

\* The mark of an empty slot is no chain.
LEMMA NoneIsNoChain == NONE \notin Chains
    BY RingAssumption DEF NONE, Chains

\* The writer appends an entry, and the others stay.
LEMMA Push ==
    ASSUME NEW from \in Idx, NEW to \in Idx, NEW r \in [Chains -> Entry], NEW c, Sub(to, from) < QSZ,
           NEW r2, r2 = Put(r, to, c)
    PROVE  /\ Sub(Inc(to), from) = Sub(to, from) + 1
           /\ \A k \in 0 .. Sub(to, from) - 1 : At(r2, from, k) = At(r, from, k)
           /\ At(r2, from, Sub(to, from)) = c
  <1>a. Inc(to) \in Idx /\ Inc(to) = IF to = IDXMOD - 1 THEN 0 ELSE to + 1
    BY IncIs
  <1>b. Sub(to, from) \in Idx /\ Sub(to, from) = IF to >= from THEN to - from ELSE to - from + IDXMOD
    BY SubIs
  <1>c. Sub(Inc(to), from) = IF Inc(to) >= from THEN Inc(to) - from ELSE Inc(to) - from + IDXMOD
    BY <1>a, SubIs
  <1>1. Sub(Inc(to), from) = Sub(to, from) + 1
    BY <1>a, <1>b, <1>c, RingAssumption DEF Idx
  <1>d. to \in Nat /\ from \in Nat /\ Sub(to, from) \in 0 .. QSZ - 1
    BY <1>b, RingAssumption DEF Idx
  <1>2. (from + Sub(to, from)) % QSZ = to % QSZ /\ to % QSZ \in Chains
    BY <1>d, EndSlot, SlotIn
  <1>3. ASSUME NEW k \in 0 .. Sub(to, from) - 1 PROVE At(r2, from, k) = At(r, from, k)
    <2>1. k \in 0 .. QSZ - 1 /\ k # Sub(to, from) /\ from + k \in Nat
      BY <1>d, RingAssumption
    <2>2. (from + k) % QSZ # to % QSZ
      BY <1>2, <1>d, <2>1, SlotsApart, Zenon
    <2>3. (from + k) % QSZ \in Chains
      BY <2>1, SlotIn
    <2> QED
      BY <2>2, <2>3, <1>2 DEF At, Put
  <1>4. At(r2, from, Sub(to, from)) = c
    BY <1>2 DEF At, Put
  <1> QED
    BY <1>1, <1>3, <1>4

\* The reader takes the first entry, and the others move up.
LEMMA Pop ==
    ASSUME NEW from \in Idx, NEW to \in Idx, NEW r \in [Chains -> Entry], from # to, Sub(to, from) <= QSZ,
           NEW r2, r2 = Put(r, from, NONE)
    PROVE  /\ Sub(to, from) > 0 /\ Sub(to, Inc(from)) = Sub(to, from) - 1
           /\ \A k \in 0 .. Sub(to, from) - 2 : At(r2, Inc(from), k) = At(r, from, k + 1)
           /\ At(r, from, 0) = First(r, from)
  <1>a. Inc(from) \in Idx /\ Inc(from) = IF from = IDXMOD - 1 THEN 0 ELSE from + 1
    BY IncIs
  <1>b. Sub(to, from) \in Idx /\ Sub(to, from) = IF to >= from THEN to - from ELSE to - from + IDXMOD
    BY SubIs
  <1>c. Sub(to, Inc(from)) = IF to >= Inc(from) THEN to - Inc(from) ELSE to - Inc(from) + IDXMOD
    BY <1>a, SubIs
  <1>1. Sub(to, from) > 0 /\ Sub(to, Inc(from)) = Sub(to, from) - 1
    BY <1>a, <1>b, <1>c, RingAssumption DEF Idx
  <1>2. ASSUME NEW k \in 0 .. Sub(to, from) - 2 PROVE At(r2, Inc(from), k) = At(r, from, k + 1)
    <2>1. k + 1 \in 0 .. QSZ - 1 /\ 0 \in 0 .. QSZ - 1 /\ k + 1 # 0 /\ from \in Nat /\ from + 0 = from
          /\ k \in Nat /\ from + (k + 1) \in Nat
      BY <1>b, RingAssumption DEF Idx
    <2>2. (from + (k + 1)) % QSZ # from % QSZ
      BY <2>1, SlotsApart, Zenon
    <2>3. (from + (k + 1)) % QSZ \in Chains /\ (Inc(from) + k) % QSZ = (from + (k + 1)) % QSZ
      BY <2>1, SlotIn, IncSlot
    <2> QED
      BY <2>2, <2>3 DEF At, Put
  <1>3. At(r, from, 0) = First(r, from)
    BY DEF At, First, Idx
  <1> QED
    BY <1>1, <1>2, <1>3

-----------------------------------------------------------------------------
(* The chains of the two rings: o are the driver's, fl those with block_if,  *)
(* and g those of them that are not of an earlier driver.                    *)

\* The chains in a ring are different, the driver's, and not with block_if.
Holds(r, from, n, o, g) ==
    /\ \A k \in 0 .. n - 1 : At(r, from, k) \in o /\ At(r, from, k) \notin g
    /\ \A i, j \in 0 .. n - 1 : At(r, from, i) = At(r, from, j) => i = j

\* No chain is in both rings.
Disjoint(la, ai, ar, se, ui, ur) ==
    \A i \in 0 .. Sub(ai, la) - 1, j \in 0 .. Sub(ui, se) - 1 : At(ar, la, i) # At(ur, se, j)

\* A chain is with block_if or in one of the rings.
Somewhere(x, la, ai, ar, se, ui, ur, fl) ==
    \/ x \in fl
    \/ \E i \in 0 .. Sub(ai, la) - 1 : At(ar, la, i) = x
    \/ \E j \in 0 .. Sub(ui, se) - 1 : At(ur, se, j) = x

Accounted(la, ai, ar, se, ui, ur, o, fl) == \A x \in o : Somewhere(x, la, ai, ar, se, ui, ur, fl)

RingsOK(la, ai, ar, se, ui, ur, o, fl, g) ==
    /\ Sub(ai, la) <= QSZ /\ Sub(ui, se) <= QSZ
    /\ Holds(ar, la, Sub(ai, la), o, g)
    /\ Holds(ur, se, Sub(ui, se), o, g)
    /\ Disjoint(la, ai, ar, se, ui, ur)
    /\ \A x \in g : x \in o
    /\ Accounted(la, ai, ar, se, ui, ur, o, fl)

\* What the rings and sets are.
RingTypes(la, ai, ar, se, ui, ur, o, fl, g) ==
    /\ la \in Idx /\ ai \in Idx /\ ar \in [Chains -> Entry]
    /\ se \in Idx /\ ui \in Idx /\ ur \in [Chains -> Entry]
    /\ o \in SUBSET Chains /\ fl \in SUBSET Chains /\ g \in SUBSET Chains

\* Two empty rings.
LEMMA EmptyRings ==
    ASSUME NEW ar, NEW ur, NEW fl
    PROVE  RingsOK(0, 0, ar, 0, 0, ur, {}, fl, {})
  <1>1. Sub(0, 0) = 0
    BY RingAssumption DEF Sub
  <1> QED
    BY <1>1, RingAssumption DEF RingsOK, Holds, Disjoint, Accounted, Somewhere

\* Fewer chains than the ring has slots are in a ring that lacks one: the
\* pigeonhole principle, which the last section takes from the library.
Pigeons ==
    \A r, from : \A n \in 0 .. QSZ, c \in Chains :
       /\ \A k \in 0 .. n - 1 : At(r, from, k) \in Chains \ {c}
       /\ \A i, j \in 0 .. n - 1 : At(r, from, i) = At(r, from, j) => i = j
       => n < QSZ

\* r2 is r with c at its end.
Pushed(from, to, r, c, r2, o2, g2) ==
    /\ Sub(Inc(to), from) = Sub(to, from) + 1 /\ Sub(Inc(to), from) <= QSZ
    /\ \A k \in 0 .. Sub(to, from) - 1 : k \in 0 .. Sub(Inc(to), from) - 1 /\ At(r2, from, k) = At(r, from, k)
    /\ Sub(to, from) \in 0 .. Sub(Inc(to), from) - 1 /\ At(r2, from, Sub(to, from)) = c
    /\ \A k \in 0 .. Sub(Inc(to), from) - 1 : k = Sub(to, from) \/ k \in 0 .. Sub(to, from) - 1
    /\ Holds(r2, from, Sub(Inc(to), from), o2, g2)

\* A ring that a chain is appended to.
LEMMA HoldsPush ==
    ASSUME Pigeons, NEW from \in Idx, NEW to \in Idx, NEW r \in [Chains -> Entry],
           NEW o \in SUBSET Chains, NEW g, Sub(to, from) <= QSZ, Holds(r, from, Sub(to, from), o, g),
           NEW c \in Chains, \A k \in 0 .. Sub(to, from) - 1 : At(r, from, k) # c,
           NEW o2, c \in o2, \A x \in o : x \in o2, NEW g2, \A x \in g2 : x \in g /\ x # c
    PROVE  Pushed(from, to, r, c, Put(r, to, c), o2, g2)
  <1> DEFINE n == Sub(to, from)
             r2 == Put(r, to, c)
  <1>1. n \in 0 .. QSZ
    <2>1. n \in Idx
      BY SubIs
    <2> QED
      BY <2>1 DEF Idx
  <1>2. n < QSZ
    <2>1. /\ \A k \in 0 .. n - 1 : At(r, from, k) \in Chains \ {c}
          /\ \A i, j \in 0 .. n - 1 : At(r, from, i) = At(r, from, j) => i = j
      BY DEF Holds
    <2> HIDE DEF n
    <2> QED
      BY <1>1, <2>1, Zenon DEF Pigeons
  <1>3. /\ Sub(Inc(to), from) = n + 1
        /\ \A k \in 0 .. n - 1 : At(r2, from, k) = At(r, from, k)
        /\ At(r2, from, n) = c
    <2>1. Sub(to, from) < QSZ
      BY <1>2
    <2>2. /\ Sub(Inc(to), from) = Sub(to, from) + 1
          /\ \A k \in 0 .. Sub(to, from) - 1 : At(r2, from, k) = At(r, from, k)
          /\ At(r2, from, Sub(to, from)) = c
      BY <2>1, Push
    <2> QED
      BY <2>2
  <1>4. /\ \A k \in 0 .. n - 1 : At(r, from, k) \in o /\ At(r, from, k) # c /\ At(r, from, k) \notin g
        /\ \A i, j \in 0 .. n - 1 : At(r, from, i) = At(r, from, j) => i = j
    BY DEF Holds
  <1> HIDE DEF n, r2
  <1>5. \A k \in 0 .. (n + 1) - 1 : At(r2, from, k) = IF k = n THEN c ELSE At(r, from, k)
    BY <1>1, <1>3
  <1>6. \A k \in 0 .. (n + 1) - 1 : At(r2, from, k) \in o2 /\ At(r2, from, k) \notin g2
    BY <1>1, <1>4, <1>5
  <1>7. ASSUME NEW i \in 0 .. (n + 1) - 1, NEW j \in 0 .. (n + 1) - 1, At(r2, from, i) = At(r2, from, j)
        PROVE  i = j
    BY <1>1, <1>4, <1>5, <1>7
  <1>8. Holds(r2, from, n + 1, o2, g2)
    BY <1>6, <1>7 DEF Holds
  <1>9. /\ n + 1 <= QSZ /\ n \in 0 .. (n + 1) - 1
        /\ \A k \in 0 .. n - 1 : k \in 0 .. (n + 1) - 1
        /\ \A k \in 0 .. (n + 1) - 1 : k = n \/ k \in 0 .. n - 1
    BY <1>1, <1>2, RingAssumption
  <1> QED
    BY <1>3, <1>8, <1>9 DEF n, r2, Pushed

\* r2 is r without its first chain c.
Popped(from, to, r, c, r2, o2, g2) ==
    /\ Sub(to, from) > 0 /\ Sub(to, Inc(from)) <= QSZ
    /\ 0 \in 0 .. Sub(to, from) - 1 /\ c = At(r, from, 0)
    /\ \A k \in 0 .. Sub(to, Inc(from)) - 1 :
          /\ k + 1 \in 0 .. Sub(to, from) - 1
          /\ At(r2, Inc(from), k) = At(r, from, k + 1)
    /\ \A k \in 0 .. Sub(to, from) - 1 :
          At(r, from, k) = c \/ \E j \in 0 .. Sub(to, Inc(from)) - 1 : At(r2, Inc(from), j) = At(r, from, k)
    /\ Holds(r2, Inc(from), Sub(to, Inc(from)), o2, g2)

\* A ring whose first chain is taken.
LEMMA HoldsPop ==
    ASSUME NEW from \in Idx, NEW to \in Idx, NEW r \in [Chains -> Entry], from # to,
           NEW o \in SUBSET Chains, NEW g, Sub(to, from) <= QSZ, Holds(r, from, Sub(to, from), o, g),
           NEW o2, \A x \in o : x # First(r, from) => x \in o2,
           NEW g2, \A x \in g2 : x \in g \/ x = First(r, from)
    PROVE  /\ First(r, from) \in o /\ First(r, from) \notin g
           /\ Popped(from, to, r, First(r, from), Put(r, from, NONE), o2, g2)
  <1> DEFINE c == First(r, from)
             n == Sub(to, from)
             r2 == Put(r, from, NONE)
  <1>1. n \in 0 .. QSZ
    <2>1. n \in Idx
      BY SubIs
    <2> QED
      BY <2>1 DEF Idx
  <1>2. /\ n > 0 /\ Sub(to, Inc(from)) = n - 1
        /\ \A k \in 0 .. n - 2 : At(r2, Inc(from), k) = At(r, from, k + 1)
        /\ At(r, from, 0) = c
    <2>1. /\ Sub(to, from) > 0 /\ Sub(to, Inc(from)) = Sub(to, from) - 1
          /\ \A k \in 0 .. Sub(to, from) - 2 : At(r2, Inc(from), k) = At(r, from, k + 1)
          /\ At(r, from, 0) = First(r, from)
      BY Pop
    <2> QED
      BY <2>1
  <1>3. /\ \A k \in 0 .. n - 1 : At(r, from, k) \in o /\ At(r, from, k) \notin g
        /\ \A i, j \in 0 .. n - 1 : At(r, from, i) = At(r, from, j) => i = j
    BY DEF Holds
  <1> HIDE DEF n, r2
  <1>4. \A k \in 0 .. (n - 1) - 1 : k + 1 \in 0 .. n - 1 /\ k + 1 # 0 /\ At(r2, Inc(from), k) = At(r, from, k + 1)
    BY <1>1, <1>2
  <1>5. 0 \in 0 .. n - 1
    BY <1>1, <1>2
  <1>6. \A k \in 0 .. (n - 1) - 1 : At(r2, Inc(from), k) # c
    BY <1>2, <1>3, <1>4, <1>5
  <1>7. ASSUME NEW k \in 0 .. n - 1, At(r, from, k) # c
        PROVE  \E j \in 0 .. (n - 1) - 1 : At(r2, Inc(from), j) = At(r, from, k)
    <2>1. k # 0
      BY <1>2, <1>7
    <2>2. k - 1 \in 0 .. (n - 1) - 1 /\ (k - 1) + 1 = k
      BY <1>1, <2>1
    <2> QED
      BY <1>4, <2>2
  <1>8. \A k \in 0 .. (n - 1) - 1 : At(r2, Inc(from), k) \in o2 /\ At(r2, Inc(from), k) \notin g2
    BY <1>3, <1>4, <1>6
  <1>9. ASSUME NEW i \in 0 .. (n - 1) - 1, NEW j \in 0 .. (n - 1) - 1, At(r2, Inc(from), i) = At(r2, Inc(from), j)
        PROVE  i = j
    <2>1. i + 1 = j + 1
      BY <1>3, <1>4, <1>9
    <2> QED
      BY <2>1
  <1>10. Holds(r2, Inc(from), n - 1, o2, g2)
    BY <1>8, <1>9 DEF Holds
  <1>11. n - 1 <= QSZ
    BY <1>1, RingAssumption
  <1>12. c \in o /\ c \notin g
    BY <1>2, <1>3, <1>5
  <1>13. Popped(from, to, r, c, r2, o2, g2)
    BY <1>2, <1>4, <1>5, <1>7, <1>10, <1>11 DEF n, Popped
  <1> QED
    BY <1>12, <1>13 DEF r2

\* The driver publishes a chain.
LEMMA Publish ==
    ASSUME Pigeons, NEW la, NEW ai, NEW ar, NEW se, NEW ui, NEW ur, NEW o, NEW fl, NEW g,
           RingTypes(la, ai, ar, se, ui, ur, o, fl, g), RingsOK(la, ai, ar, se, ui, ur, o, fl, g),
           NEW c \in Chains, c \notin o, NEW o2, o2 = o \union {c}
    PROVE  RingsOK(la, Inc(ai), Put(ar, ai, c), se, ui, ur, o2, fl, g)
  <1> DEFINE ar2 == Put(ar, ai, c)
  <1>1. c \in o2 /\ (\A x \in o : x \in o2 /\ x # c) /\ (\A x \in o2 : x \in o \/ x = c)
    OBVIOUS
  <1>2. /\ Holds(ar, la, Sub(ai, la), o, g) /\ Holds(ur, se, Sub(ui, se), o, g)
        /\ \A x \in g : x \in o
    BY DEF RingsOK
  <1>3. /\ \A k \in 0 .. Sub(ai, la) - 1 : At(ar, la, k) # c
        /\ \A k \in 0 .. Sub(ui, se) - 1 : At(ur, se, k) # c
        /\ \A x \in g : x \in g /\ x # c
    BY <1>1, <1>2 DEF Holds
  <1>4. Pushed(la, ai, ar, c, ar2, o2, g)
    BY <1>1, <1>2, <1>3, HoldsPush DEF RingsOK, RingTypes
  <1>5. Holds(ur, se, Sub(ui, se), o2, g)
    BY <1>1, <1>2 DEF Holds
  <1> HIDE DEF ar2
  <1>6. Disjoint(la, Inc(ai), ar2, se, ui, ur)
    BY <1>3, <1>4 DEF RingsOK, Pushed, Disjoint
  <1>7. Accounted(la, Inc(ai), ar2, se, ui, ur, o2, fl)
    <2> SUFFICES ASSUME NEW x \in o2
                 PROVE  Somewhere(x, la, Inc(ai), ar2, se, ui, ur, fl)
      BY DEF Accounted
    <2>1. CASE x = c
      BY <1>4, <2>1 DEF Pushed, Somewhere
    <2>2. CASE \E i \in 0 .. Sub(ai, la) - 1 : At(ar, la, i) = x
      BY <1>4, <2>2 DEF Pushed, Somewhere
    <2> QED
      BY <1>1, <2>1, <2>2 DEF RingsOK, Accounted, Somewhere
  <1>8. RingsOK(la, Inc(ai), ar2, se, ui, ur, o2, fl, g)
    <2>1. Sub(Inc(ai), la) <= QSZ /\ Holds(ar2, la, Sub(Inc(ai), la), o2, g)
      BY <1>4 DEF Pushed
    <2>2. Sub(ui, se) <= QSZ /\ \A x \in g : x \in o2
      BY <1>1 DEF RingsOK
    <2> QED
      BY <1>5, <1>6, <1>7, <2>1, <2>2 DEF RingsOK
  <1> QED
    BY <1>8 DEF ar2

\* virtio_blk_done returns a chain that block_if has served.
LEMMA Return ==
    ASSUME Pigeons, NEW la, NEW ai, NEW ar, NEW se, NEW ui, NEW ur, NEW o, NEW fl, NEW g,
           RingTypes(la, ai, ar, se, ui, ur, o, fl, g), RingsOK(la, ai, ar, se, ui, ur, o, fl, g),
           NEW c \in g, NEW fl2, fl \ {c} \subseteq fl2, NEW g2, g2 = g \ {c}
    PROVE  RingsOK(la, ai, ar, se, Inc(ui), Put(ur, ui, c), o, fl2, g2)
  <1> DEFINE ur2 == Put(ur, ui, c)
  <1>1. c \in o /\ c \in Chains /\ (\A x \in g2 : x \in g /\ x # c) /\ (\A x \in fl : x \in fl2 \/ x = c)
    BY DEF RingsOK, RingTypes
  <1>2. /\ Holds(ar, la, Sub(ai, la), o, g) /\ Holds(ur, se, Sub(ui, se), o, g)
        /\ \A x \in g : x \in o
    BY DEF RingsOK
  <1>3. /\ \A k \in 0 .. Sub(ai, la) - 1 : At(ar, la, k) # c
        /\ \A k \in 0 .. Sub(ui, se) - 1 : At(ur, se, k) # c
    BY <1>2 DEF Holds
  <1>4. Pushed(se, ui, ur, c, ur2, o, g2)
    BY <1>1, <1>2, <1>3, HoldsPush DEF RingsOK, RingTypes
  <1>5. Holds(ar, la, Sub(ai, la), o, g2)
    BY <1>1, <1>2 DEF Holds
  <1> HIDE DEF ur2
  <1>6. Disjoint(la, ai, ar, se, Inc(ui), ur2)
    BY <1>3, <1>4 DEF RingsOK, Pushed, Disjoint
  <1>7. Accounted(la, ai, ar, se, Inc(ui), ur2, o, fl2)
    <2> SUFFICES ASSUME NEW x \in o
                 PROVE  Somewhere(x, la, ai, ar, se, Inc(ui), ur2, fl2)
      BY DEF Accounted
    <2>1. CASE x = c
      BY <1>4, <2>1 DEF Pushed, Somewhere
    <2>2. CASE \E j \in 0 .. Sub(ui, se) - 1 : At(ur, se, j) = x
      BY <1>4, <2>2 DEF Pushed, Somewhere
    <2> QED
      BY <1>1, <2>1, <2>2 DEF RingsOK, Accounted, Somewhere
  <1>8. RingsOK(la, ai, ar, se, Inc(ui), ur2, o, fl2, g2)
    <2>1. Sub(Inc(ui), se) <= QSZ /\ Holds(ur2, se, Sub(Inc(ui), se), o, g2)
      BY <1>4 DEF Pushed
    <2>2. Sub(ai, la) <= QSZ /\ \A x \in g2 : x \in o
      BY <1>1, <1>2 DEF RingsOK
    <2> QED
      BY <1>5, <1>6, <1>7, <2>1, <2>2 DEF RingsOK
  <1> QED
    BY <1>8 DEF ur2

\* virtio_blk_proc takes a chain for block_if, which then counts as this driver's
\* even where an earlier one left it there, or does not.
LEMMA Take ==
    ASSUME NEW la, NEW ai, NEW ar, NEW se, NEW ui, NEW ur, NEW o, NEW fl, NEW g,
           RingTypes(la, ai, ar, se, ui, ur, o, fl, g), RingsOK(la, ai, ar, se, ui, ur, o, fl, g),
           la # ai, NEW c, c = First(ar, la),
           NEW fl2, fl2 = fl \union {c}, NEW g2, \A x \in g2 : x \in g \/ x = c
    PROVE  c \in o /\ c \notin g /\ RingsOK(Inc(la), ai, Put(ar, la, NONE), se, ui, ur, o, fl2, g2)
  <1> DEFINE ar2 == Put(ar, la, NONE)
  <1>1. /\ Holds(ar, la, Sub(ai, la), o, g) /\ Holds(ur, se, Sub(ui, se), o, g)
        /\ \A x \in g : x \in o
    BY DEF RingsOK
  <1>2. c \in o /\ c \notin g /\ Popped(la, ai, ar, c, ar2, o, g2)
    <2>1. la \in Idx /\ ai \in Idx /\ ar \in [Chains -> Entry] /\ o \in SUBSET Chains /\ Sub(ai, la) <= QSZ
      BY DEF RingsOK, RingTypes
    <2>2. \A x \in o : x # c => x \in o
      OBVIOUS
    <2> QED
      BY <1>1, <2>1, <2>2, HoldsPop
  <1> HIDE DEF ar2
  <1>3. \A k \in 0 .. Sub(ui, se) - 1 : At(ur, se, k) # c
    BY <1>2 DEF RingsOK, Popped, Disjoint
  <1>4. Holds(ur, se, Sub(ui, se), o, g2)
    BY <1>1, <1>3 DEF Holds
  <1>5. Disjoint(Inc(la), ai, ar2, se, ui, ur)
    BY <1>2 DEF RingsOK, Popped, Disjoint
  <1>6. Accounted(Inc(la), ai, ar2, se, ui, ur, o, fl2)
    <2> SUFFICES ASSUME NEW x \in o
                 PROVE  Somewhere(x, Inc(la), ai, ar2, se, ui, ur, fl2)
      BY DEF Accounted
    <2>1. CASE \E i \in 0 .. Sub(ai, la) - 1 : At(ar, la, i) = x
      BY <1>2, <2>1 DEF Popped, Somewhere
    <2> QED
      BY <2>1 DEF RingsOK, Accounted, Somewhere
  <1>7. RingsOK(Inc(la), ai, ar2, se, ui, ur, o, fl2, g2)
    <2>1. Sub(ai, Inc(la)) <= QSZ /\ Holds(ar2, Inc(la), Sub(ai, Inc(la)), o, g2)
      BY <1>2 DEF Popped
    <2>2. Sub(ui, se) <= QSZ /\ \A x \in g2 : x \in o
      BY <1>1, <1>2 DEF RingsOK
    <2> QED
      BY <1>4, <1>5, <1>6, <2>1, <2>2 DEF RingsOK
  <1> QED
    BY <1>2, <1>7 DEF ar2

\* The driver collects a chain.
LEMMA Collect ==
    ASSUME NEW la, NEW ai, NEW ar, NEW se, NEW ui, NEW ur, NEW o, NEW fl, NEW g,
           RingTypes(la, ai, ar, se, ui, ur, o, fl, g), RingsOK(la, ai, ar, se, ui, ur, o, fl, g),
           se # ui, NEW c, c = First(ur, se), NEW o2, o2 = o \ {c}
    PROVE  c \in o /\ RingsOK(la, ai, ar, Inc(se), ui, Put(ur, se, NONE), o2, fl, g)
  <1> DEFINE ur2 == Put(ur, se, NONE)
  <1>1. /\ Holds(ar, la, Sub(ai, la), o, g) /\ Holds(ur, se, Sub(ui, se), o, g)
        /\ \A x \in g : x \in o
    BY DEF RingsOK
  <1>a. (\A x \in o : x # c => x \in o2) /\ (\A x \in g : x \in g \/ x = c)
    OBVIOUS
  <1>2. c \in o /\ c \notin g /\ Popped(se, ui, ur, c, ur2, o2, g)
    <2>1. se \in Idx /\ ui \in Idx /\ ur \in [Chains -> Entry] /\ o \in SUBSET Chains /\ Sub(ui, se) <= QSZ
      BY DEF RingsOK, RingTypes
    <2> QED
      BY <1>1, <1>a, <2>1, HoldsPop
  <1> HIDE DEF ur2
  <1>3. \A k \in 0 .. Sub(ai, la) - 1 : At(ar, la, k) # c
    BY <1>2 DEF RingsOK, Popped, Disjoint
  <1>4. Holds(ar, la, Sub(ai, la), o2, g)
    BY <1>1, <1>3 DEF Holds
  <1>5. Disjoint(la, ai, ar, Inc(se), ui, ur2)
    BY <1>2 DEF RingsOK, Popped, Disjoint
  <1>6. Accounted(la, ai, ar, Inc(se), ui, ur2, o2, fl)
    <2> SUFFICES ASSUME NEW x \in o2
                 PROVE  Somewhere(x, la, ai, ar, Inc(se), ui, ur2, fl)
      BY DEF Accounted
    <2>1. CASE \E i \in 0 .. Sub(ui, se) - 1 : At(ur, se, i) = x
      BY <1>2, <2>1 DEF Popped, Somewhere
    <2> QED
      BY <2>1 DEF RingsOK, Accounted, Somewhere
  <1>7. RingsOK(la, ai, ar, Inc(se), ui, ur2, o2, fl, g)
    <2>1. Sub(ui, Inc(se)) <= QSZ /\ Holds(ur2, Inc(se), Sub(ui, Inc(se)), o2, g)
      BY <1>2 DEF Popped
    <2>2. Sub(ai, la) <= QSZ /\ \A x \in g : x \in o2
      BY <1>1, <1>2, <1>a DEF RingsOK
    <2> QED
      BY <1>4, <1>5, <1>6, <2>1, <2>2 DEF RingsOK
  <1> QED
    BY <1>2, <1>7 DEF ur2

\* virtio_blk_proc takes a chain and answers it at once: as if block_if had it in
\* between.
LEMMA Answer ==
    ASSUME Pigeons, NEW la, NEW ai, NEW ar, NEW se, NEW ui, NEW ur, NEW o, NEW fl, NEW g,
           RingTypes(la, ai, ar, se, ui, ur, o, fl, g), RingsOK(la, ai, ar, se, ui, ur, o, fl, g),
           la # ai, NEW c, c = First(ar, la)
    PROVE  c \in o /\ RingsOK(Inc(la), ai, Put(ar, la, NONE), se, Inc(ui), Put(ur, ui, c), o, fl, g)
  <1> DEFINE fl2 == fl \union {c}
             g2 == g \union {c}
             ar2 == Put(ar, la, NONE)
  <1>1. c \in o /\ c \notin g /\ RingsOK(Inc(la), ai, ar2, se, ui, ur, o, fl2, g2)
    <2>1. \A x \in g2 : x \in g \/ x = c
      OBVIOUS
    <2> QED
      BY <2>1, Take
  <1>2. RingTypes(Inc(la), ai, ar2, se, ui, ur, o, fl2, g2)
    BY <1>1, IncIs, Zenon DEF RingTypes, Put, Entry
  <1>3. c \in g2 /\ fl2 \ {c} \subseteq fl /\ g = g2 \ {c}
    BY <1>1
  <1> HIDE DEF fl2, g2, ar2
  <1>4. RingsOK(Inc(la), ai, ar2, se, Inc(ui), Put(ur, ui, c), o, fl, g)
    BY <1>1, <1>2, <1>3, Return
  <1> QED
    BY <1>1, <1>4 DEF ar2

-----------------------------------------------------------------------------
(* The inductive invariant.                                                  *)

\* The variables have their types, whatever has happened.
BlkTypes ==
    /\ curq \in 0 .. 1 /\ isr \in BOOLEAN /\ lintr \in BOOLEAN /\ vec \in BOOLEAN /\ ready \in BOOLEAN
    /\ lastAvail \in Idx /\ saveUsed \in Idx /\ availIdx \in Idx /\ usedIdx \in Idx /\ seen \in Idx
    /\ mtx \in {"free", "vcpu", "worker"} /\ npc \in {"idle", "loop", "end", "aborted"} /\ cur \in Entry
    /\ inflight \in SUBSET Chains /\ out \in SUBSET Chains /\ stale \in SUBSET Chains
    /\ availRing \in [Chains -> Entry] /\ usedRing \in [Chains -> Entry]
    /\ noIntr \in BOOLEAN /\ msixOn \in BOOLEAN /\ msi \in BOOLEAN /\ kick \in BOOLEAN /\ tainted \in BOOLEAN
    /\ dpc \in {"off", "idle", "collect", "recheck"} /\ op \in [Chains -> {"io", "ident"}]
    /\ resets \in 0 .. MaxResets

\* A chain is between vq_relchain and vq_endchains exactly while its thread is,
\* and the used index is ahead of save_used only then; a driver that is there has
\* a ring and its vector, and one that is not has nothing with the device; what the
\* idle driver has not collected is announced.
Control ==
    /\ npc # "aborted" /\ (mtx = "vcpu" <=> npc # "idle")
    /\ cur # NONE <=> mtx = "worker" \/ npc = "end"
    /\ dpc = "off" => mtx = "free" /\ inflight \subseteq stale /\ (ready => seen = usedIdx)
    /\ dpc # "off" => ready /\ (msixOn => vec)
    /\ noIntr <=> dpc = "collect"
    /\ ready => usedIdx = IF cur = NONE THEN saveUsed ELSE Inc(saveUsed)
    /\ dpc = "idle" /\ seen # usedIdx => lintr \/ msi \/ cur # NONE

Rings == RingsOK(lastAvail, availIdx, availRing, seen, usedIdx, usedRing, out, inflight, inflight \ stale)

VInv ==
    /\ BlkTypes /\ IsrMatchesPin
    /\ ~tainted => Control /\ (ready => Rings)

\* The types of the rings.
LEMMA TypesOfRings ==
    ASSUME BlkTypes
    PROVE  RingTypes(lastAvail, availIdx, availRing, seen, usedIdx, usedRing, out, inflight, inflight \ stale)
    BY DEF BlkTypes, RingTypes

\* The initial states.
LEMMA VInit == Init => VInv
  <1> SUFFICES ASSUME Init PROVE VInv
    OBVIOUS
  <1>1. 0 \in Idx /\ NONE \in Entry
    BY RingAssumption DEF Idx, Entry
  <1>2. BlkTypes
    <2>1. /\ curq \in 0 .. 1 /\ resets \in 0 .. MaxResets
          /\ {} \in SUBSET Chains /\ [i \in Chains |-> NONE] \in [Chains -> Entry]
          /\ [i \in Chains |-> "io"] \in [Chains -> {"io", "ident"}]
      BY <1>1, RingAssumption DEF Init
    <2> QED
      BY <1>1, <2>1, Zenon DEF Init, BlkTypes
  <1>3. Control
    BY SMTT(30) DEF Init, Control
  <1> QED
    BY <1>2, <1>3 DEF Init, VInv, IsrMatchesPin

\* Register writes that do not notify.
LEMMA RegisterStep ==
    ASSUME VInv, ~tainted,
           (\E q \in 0 .. 1 : WriteQsel(q)) \/ WritePfn \/ WriteQvec \/ WriteDriverOk \/ WriteReset
    PROVE  VInv'
  <1>0. BlkTypes /\ IsrMatchesPin /\ Control /\ (ready => Rings) /\ 0 \in Idx
    BY RingAssumption DEF VInv, Idx
  <1>1. ASSUME NEW q \in 0 .. 1, WriteQsel(q) PROVE VInv'
    <2>1. BlkTypes' /\ IsrMatchesPin' /\ Control' /\ (ready' => Rings')
      BY <1>0, <1>1, SMTT(30) DEF WriteQsel, ring, guest, hist, BlkTypes, IsrMatchesPin, Control, Rings
    <2> QED
      BY <2>1 DEF VInv
  <1>2. CASE WritePfn /\ curq # 0
    <2>1. BlkTypes' /\ IsrMatchesPin' /\ Control' /\ (ready' => Rings')
      BY <1>0, <1>2, SMTT(30) DEF WritePfn, ring, hist, BlkTypes, IsrMatchesPin, Control, Rings
    <2> QED
      BY <2>1 DEF VInv
  <1>3. CASE WritePfn /\ curq = 0
    <2>1. BlkTypes'
      BY <1>0, <1>3, Zenon DEF WritePfn, hist, BlkTypes, Entry
    <2>2. IsrMatchesPin' /\ Control'
      BY <1>0, <1>3, Zenon DEF WritePfn, hist, IsrMatchesPin, Control
    <2>3. (inflight \ stale)' = {}
      BY <1>0, <1>3, Zenon DEF WritePfn, hist, Control
    <2>4. Rings'
      BY <1>3, <2>3, EmptyRings DEF WritePfn, Rings
    <2> QED
      BY <2>1, <2>2, <2>4 DEF VInv
  <1>4. CASE WriteQvec
    <2>1. BlkTypes' /\ IsrMatchesPin' /\ Control' /\ (ready' => Rings')
      BY <1>0, <1>4, SMTT(30) DEF WriteQvec, ring, guest, hist, BlkTypes, IsrMatchesPin, Control, Rings
    <2> QED
      BY <2>1 DEF VInv
  <1>5. CASE WriteDriverOk
    <2>1. BlkTypes' /\ IsrMatchesPin' /\ Control' /\ (ready' => Rings')
      BY <1>0, <1>5, SMTT(30) DEF WriteDriverOk, regs, ring, hist, BlkTypes, IsrMatchesPin, Control, Rings
    <2> QED
      BY <2>1 DEF VInv
  <1>6. CASE WriteReset
    <2>0. /\ resets' \in 0 .. MaxResets /\ curq' \in 0 .. 1 /\ isr' \in BOOLEAN /\ lintr' \in BOOLEAN
          /\ op' \in [Chains -> {"io", "ident"}] /\ out' \in SUBSET Chains /\ stale' \in SUBSET Chains
      <3>1. resets' \in 0 .. MaxResets /\ curq' \in 0 .. 1
        BY <1>0, <1>6, RingAssumption, SMTT(30) DEF WriteReset, VirtioResetDev, BlkTypes
      <3>2. isr' \in BOOLEAN /\ lintr' \in BOOLEAN
        BY <1>0, <1>6, Zenon DEF WriteReset, VirtioResetDev, BlkTypes
      <3>3. op' \in [Chains -> {"io", "ident"}] /\ out' \in SUBSET Chains /\ stale' \in SUBSET Chains
        BY <1>0, <1>6, SMTT(30) DEF WriteReset, BlkTypes
      <3> QED
        BY <3>1, <3>2, <3>3
    <2>1. BlkTypes'
      BY <1>0, <1>6, <2>0, Zenon DEF WriteReset, VirtioResetDev, ring, BlkTypes
    <2>2. IsrMatchesPin' /\ Control' /\ ~ready'
      BY <1>0, <1>6, SMTT(30) DEF WriteReset, VirtioResetDev, ring, BlkTypes, IsrMatchesPin, Control
    <2> QED
      BY <2>1, <2>2 DEF VInv
  <1> QED
    BY <1>1, <1>2, <1>3, <1>4, <1>5, <1>6

\* The notify handler.
LEMMA NotifyStep ==
    ASSUME Pigeons, VInv, ~tainted, QNotify \/ BlkProc \/ NotifyReturn
    PROVE  VInv'
  <1>0. BlkTypes /\ IsrMatchesPin /\ Control /\ (ready => Rings)
    BY DEF VInv
  <1>1. CASE QNotify
    <2>1. BlkTypes' /\ IsrMatchesPin' /\ Control' /\ (ready' => Rings')
      BY <1>0, <1>1, Zenon DEF QNotify, regs, ring, hist, BlkTypes, IsrMatchesPin, Control, Rings
    <2> QED
      BY <2>1 DEF VInv
  <1>2. CASE BlkProc
    <2> DEFINE c == availRing[lastAvail % QSZ]
    <2>1. ready /\ Rings /\ lastAvail # availIdx /\ npc = "loop" /\ ~(Sub(availIdx, lastAvail) > QSZ)
      <3>1. ready /\ Rings /\ lastAvail # availIdx /\ npc = "loop"
        BY <1>0, <1>2 DEF BlkProc, vq_has_descs
      <3>2. Sub(availIdx, lastAvail) <= QSZ
        BY <3>1 DEF Rings, RingsOK
      <3>3. Sub(availIdx, lastAvail) \in Idx
        BY <1>0, SubIs, SMTT(30) DEF BlkTypes
      <3> QED
        BY <3>1, <3>2, <3>3, RingAssumption DEF Idx
    <2>2. c = First(availRing, lastAvail)
      BY DEF First
    <2>3. c \in out /\ c \in Chains /\ c # NONE /\ Inc(lastAvail) \in Idx /\ Inc(usedIdx) \in Idx
      <3>1. c \in out
        BY <1>0, <2>1, <2>2, TypesOfRings, Answer DEF Rings
      <3> QED
        BY <1>0, <3>1, IncIs, NoneIsNoChain, SMTT(30) DEF BlkTypes
    <2>4. lastAvail' = Inc(lastAvail) /\ availRing' = Put(availRing, lastAvail, NONE)
      BY <1>2, <2>1 DEF BlkProc, Put
    <2>5. UNCHANGED <<curq, isr, lintr, vec, ready, saveUsed, mtx, availIdx, noIntr, guest, hist>>
      BY <1>2 DEF BlkProc
    <2>6. availRing' \in [Chains -> Entry]
      BY <1>0, <2>4, Zenon DEF BlkTypes, Put, Entry
    <2> HIDE DEF c
    <2>7. CASE op[c] = "io"
      <3>1. inflight' = inflight \union {c} /\ UNCHANGED <<npc, cur, usedIdx, usedRing>>
        BY <1>2, <2>1, <2>7 DEF BlkProc, c
      <3>2. BlkTypes'
        BY <1>0, <2>3, <2>4, <2>5, <2>6, <3>1, SMTT(30) DEF BlkTypes, guest, hist
      <3>3. IsrMatchesPin' /\ Control'
        BY <1>0, <2>1, <2>5, <3>1, SMTT(30) DEF IsrMatchesPin, Control, guest, hist
      <3>4. \A x \in (inflight \ stale)' : x \in inflight \ stale \/ x = c
        BY <2>5, <3>1 DEF hist
      <3>5. RingsOK(Inc(lastAvail), availIdx, Put(availRing, lastAvail, NONE), seen, usedIdx, usedRing, out,
                    inflight', (inflight \ stale)')
        BY <1>0, <2>1, <2>2, <3>1, <3>4, TypesOfRings, Take DEF Rings
      <3>6. Rings'
        BY <2>4, <2>5, <3>1, <3>5 DEF Rings, guest
      <3> QED
        BY <3>2, <3>3, <3>6 DEF VInv
    <2>8. CASE op[c] # "io"
      <3>1. /\ usedRing' = Put(usedRing, usedIdx, c) /\ usedIdx' = Inc(usedIdx)
            /\ cur' = c /\ npc' = "end" /\ UNCHANGED inflight
        BY <1>2, <2>1, <2>8 DEF BlkProc, c, Put
      <3>2. usedRing' \in [Chains -> Entry] /\ c \in Entry
        BY <1>0, <2>3, <3>1, Zenon DEF BlkTypes, Put, Entry
      <3>3. BlkTypes'
        BY <1>0, <2>3, <2>4, <2>5, <2>6, <3>1, <3>2, SMTT(30) DEF BlkTypes, guest, hist
      <3>4. IsrMatchesPin' /\ Control'
        BY <1>0, <2>1, <2>3, <2>5, <3>1, SMTT(30) DEF IsrMatchesPin, Control, guest, hist
      <3>5. RingsOK(Inc(lastAvail), availIdx, Put(availRing, lastAvail, NONE), seen, Inc(usedIdx),
                    Put(usedRing, usedIdx, c), out, inflight, inflight \ stale)
        BY <1>0, <2>1, <2>2, TypesOfRings, Answer DEF Rings
      <3>6. Rings'
        BY <2>4, <2>5, <3>1, <3>5 DEF Rings, guest, hist
      <3> QED
        BY <3>3, <3>4, <3>6 DEF VInv
    <2> QED
      BY <2>7, <2>8
  <1>3. CASE NotifyReturn
    <2>1. BlkTypes' /\ IsrMatchesPin' /\ Control' /\ (ready' => Rings')
      BY <1>0, <1>3, SMTT(30) DEF NotifyReturn, regs, ring, guest, hist, BlkTypes, IsrMatchesPin, Control, Rings
    <2> QED
      BY <2>1 DEF VInv
  <1> QED
    BY <1>1, <1>2, <1>3

\* Completions.
LEMMA DoneStep ==
    ASSUME Pigeons, VInv, ~tainted, (\E c \in Chains : VqRelchain(c)) \/ BlkDone
    PROVE  VInv'
  <1>0. BlkTypes /\ IsrMatchesPin /\ Control /\ (ready => Rings)
    BY DEF VInv
  <1>1. ASSUME NEW c \in Chains, VqRelchain(c) PROVE VInv'
    <2>1. /\ usedRing' = Put(usedRing, usedIdx, c) /\ usedIdx' = Inc(usedIdx) /\ inflight' = inflight \ {c}
          /\ stale' = stale \ {c} /\ mtx' = "worker" /\ cur' = c /\ mtx = "free" /\ c \in inflight
          /\ tainted' = (tainted \/ c \in stale)
          /\ UNCHANGED <<regs, npc, availIdx, availRing, noIntr, guest, resets>>
      BY <1>1 DEF VqRelchain, Put
    <2>2. usedRing' \in [Chains -> Entry] /\ c \in Entry /\ c # NONE /\ Inc(usedIdx) \in Idx
      BY <1>0, <2>1, IncIs, NoneIsNoChain, Zenon DEF BlkTypes, Put, Entry
    <2>3. BlkTypes' /\ IsrMatchesPin'
      BY <1>0, <2>1, <2>2, SMTT(30) DEF BlkTypes, IsrMatchesPin, regs, guest
    <2>4. ASSUME c \notin stale PROVE Control' /\ Rings'
      <3>1. dpc # "off" /\ ready /\ Rings /\ c \in inflight \ stale
        BY <1>0, <2>1, <2>4, SMTT(30) DEF Control
      <3>2. Control'
        BY <1>0, <2>1, <2>2, <3>1, SMTT(30) DEF Control, regs, guest
      <3>3. inflight \ {c} \subseteq inflight' /\ (inflight \ stale)' = (inflight \ stale) \ {c}
        BY <2>1
      <3>4. RingsOK(lastAvail, availIdx, availRing, seen, Inc(usedIdx), Put(usedRing, usedIdx, c), out,
                    inflight', (inflight \ stale)')
        BY <1>0, <3>1, <3>3, TypesOfRings, Return DEF Rings
      <3>5. Rings'
        BY <2>1, <3>4 DEF Rings, regs, guest
      <3> QED
        BY <3>2, <3>5
    <2> QED
      BY <2>1, <2>3, <2>4, Zenon DEF VInv
  <1>2. CASE BlkDone
    <2>0. isr' \in BOOLEAN /\ lintr' \in BOOLEAN /\ msi' \in BOOLEAN /\ NONE \in Entry
      BY <1>0, <1>2, Zenon DEF BlkDone, VqEndchains, VqInterrupt, BlkTypes, Entry
    <2>1. BlkTypes'
      BY <1>0, <1>2, <2>0, SMTT(30) DEF BlkDone, VqEndchains, ring, hist, BlkTypes
    <2>7. IsrMatchesPin'
      BY <1>0, <1>2, SMTT(30) DEF BlkDone, VqEndchains, VqInterrupt, BlkTypes, IsrMatchesPin
    <2>2. cur # NONE
      BY <1>0, <1>2, SMTT(30) DEF BlkDone, Control
    <2>3. ready => usedIdx # saveUsed
      BY <1>0, <2>2, IncIs, RingAssumption, SMTT(30) DEF Control, BlkTypes, Idx
    <2>4. dpc' = "idle" /\ seen' # usedIdx' => lintr' \/ msi'
      BY <1>0, <1>2, <2>3, SMTT(30) DEF BlkDone, VqEndchains, VqInterrupt, PlainIntr, Control, BlkTypes
    <2>5. Control'
      BY <1>0, <1>2, <2>4, SMTT(30) DEF BlkDone, VqEndchains, ring, hist, Control, BlkTypes
    <2>6. ready' => Rings'
      BY <1>0, <1>2 DEF BlkDone, ring, hist, Rings
    <2> QED
      BY <2>1, <2>5, <2>6, <2>7 DEF VInv
  <1> QED
    BY <1>1, <1>2

\* The driver.
LEMMA DriverStep ==
    ASSUME Pigeons, VInv, ~tainted,
           \/ \E c \in Chains, o \in {"io", "ident"} : DriverAdd(c, o)
           \/ ReadIsr \/ TakeMsi \/ DriverCollect \/ DriverEnable \/ DriverRecheck
    PROVE  VInv'
  <1>0. BlkTypes /\ IsrMatchesPin /\ Control /\ (ready => Rings)
    BY DEF VInv
  <1>1. ASSUME NEW c \in Chains, NEW o \in {"io", "ident"}, DriverAdd(c, o) PROVE VInv'
    <2>1. availRing' = Put(availRing, availIdx, c) /\ availIdx' = Inc(availIdx) /\ out' = out \union {c}
      BY <1>1 DEF DriverAdd, Put
    <2>2. availRing' \in [Chains -> Entry] /\ Inc(availIdx) \in Idx /\ op' \in [Chains -> {"io", "ident"}]
      BY <1>0, <1>1, <2>1, IncIs, Zenon DEF BlkTypes, Put, Entry, DriverAdd
    <2>3. BlkTypes'
      BY <1>0, <1>1, <2>1, <2>2, SMTT(30) DEF DriverAdd, regs, hist, BlkTypes
    <2>4. IsrMatchesPin' /\ Control'
      BY <1>0, <1>1, SMTT(30) DEF DriverAdd, regs, hist, IsrMatchesPin, Control
    <2>5. ready /\ Rings /\ c \notin out
      BY <1>0, <1>1, SMTT(30) DEF DriverAdd, Control
    <2>6. RingsOK(lastAvail, Inc(availIdx), Put(availRing, availIdx, c), seen, usedIdx, usedRing, out',
                  inflight, inflight \ stale)
      BY <1>0, <2>1, <2>5, TypesOfRings, Publish DEF Rings
    <2>7. Rings'
      BY <1>1, <2>1, <2>6, Zenon DEF DriverAdd, regs, hist, Rings
    <2> QED
      BY <2>3, <2>4, <2>7 DEF VInv
  <1>2. CASE ReadIsr
    <2>1. BlkTypes' /\ IsrMatchesPin' /\ Control' /\ (ready' => Rings')
      BY <1>0, <1>2, Zenon DEF ReadIsr, hist, BlkTypes, IsrMatchesPin, Control, Rings
    <2> QED
      BY <2>1 DEF VInv
  <1>3. CASE TakeMsi
    <2>1. BlkTypes' /\ IsrMatchesPin' /\ Control' /\ (ready' => Rings')
      BY <1>0, <1>3, Zenon DEF TakeMsi, regs, hist, BlkTypes, IsrMatchesPin, Control, Rings
    <2> QED
      BY <2>1 DEF VInv
  <1>4. CASE DriverCollect
    <2> DEFINE c == usedRing[seen % QSZ]
    <2>1. /\ usedRing' = Put(usedRing, seen, NONE) /\ seen' = Inc(seen) /\ out' = out \ {c}
          /\ c = First(usedRing, seen) /\ seen # usedIdx
      BY <1>4 DEF DriverCollect, Put, First
    <2>2. usedRing' \in [Chains -> Entry] /\ Inc(seen) \in Idx /\ op' \in [Chains -> {"io", "ident"}]
      BY <1>0, <1>4, <2>1, IncIs, Zenon DEF BlkTypes, Put, Entry, DriverCollect
    <2>3. BlkTypes'
      BY <1>0, <1>4, <2>1, <2>2, SMTT(30) DEF DriverCollect, regs, hist, BlkTypes
    <2>4. IsrMatchesPin' /\ Control'
      BY <1>0, <1>4, SMTT(30) DEF DriverCollect, regs, hist, IsrMatchesPin, Control
    <2>5. ready /\ Rings
      BY <1>0, <1>4, SMTT(30) DEF DriverCollect, Control
    <2> HIDE DEF c
    <2>6. RingsOK(lastAvail, availIdx, availRing, Inc(seen), usedIdx, Put(usedRing, seen, NONE), out',
                  inflight, inflight \ stale)
      BY <1>0, <2>1, <2>5, TypesOfRings, Collect DEF Rings
    <2>7. Rings'
      BY <1>4, <2>1, <2>6, Zenon DEF DriverCollect, regs, hist, Rings
    <2> QED
      BY <2>3, <2>4, <2>7 DEF VInv
  <1>5. CASE DriverEnable
    <2>1. BlkTypes' /\ IsrMatchesPin' /\ Control' /\ (ready' => Rings')
      BY <1>0, <1>5, Zenon DEF DriverEnable, regs, hist, BlkTypes, IsrMatchesPin, Control, Rings
    <2> QED
      BY <2>1 DEF VInv
  <1>6. CASE DriverRecheck
    <2>1. BlkTypes' /\ IsrMatchesPin' /\ Control' /\ (ready' => Rings')
      BY <1>0, <1>6, Zenon DEF DriverRecheck, regs, hist, BlkTypes, IsrMatchesPin, Control, Rings
    <2> QED
      BY <2>1 DEF VInv
  <1> QED
    BY <1>1, <1>2, <1>3, <1>4, <1>5, <1>6

\* Every step preserves the invariant.
LEMMA VNext == Pigeons /\ VInv /\ [Next]_vars => VInv'
  <1> SUFFICES ASSUME Pigeons, VInv, [Next]_vars PROVE VInv'
    OBVIOUS
  <1>1. CASE UNCHANGED vars
    <2>1. BlkTypes => BlkTypes'
      BY <1>1, SMTT(30) DEF vars, regs, ring, guest, hist, BlkTypes
    <2>2. (IsrMatchesPin => IsrMatchesPin') /\ (Control => Control')
      BY <1>1, SMTT(30) DEF vars, regs, ring, guest, hist, IsrMatchesPin, Control
    <2>3. (Rings => Rings') /\ ready' = ready /\ tainted' = tainted
      BY <1>1, SMTT(30) DEF vars, regs, ring, guest, hist, Rings
    <2> QED
      BY <2>1, <2>2, <2>3 DEF VInv
  <1>2. CASE ~tainted /\ Running
    BY <1>2, RegisterStep, NotifyStep, DoneStep, DriverStep DEF Running
  <1> QED
    BY <1>1, <1>2 DEF Next, Ended

-----------------------------------------------------------------------------
(* Counting.                                                                 *)

INSTANCE FiniteSetTheorems

\* There is room in a ring for every chain.
LEMMA Room == Pigeons
  <1> SUFFICES ASSUME NEW r, NEW from, NEW n \in 0 .. QSZ, NEW c \in Chains,
                      \A k \in 0 .. n - 1 : At(r, from, k) \in Chains \ {c},
                      \A i, j \in 0 .. n - 1 : At(r, from, i) = At(r, from, j) => i = j
               PROVE  n < QSZ
    BY Zenon DEF Pigeons
  <1> SUFFICES ASSUME n = QSZ PROVE FALSE
    BY RingAssumption
  <1> DEFINE f == [k \in Chains |-> At(r, from, k)]
  <1>1. f \in [Chains -> Chains \ {c}]
    BY DEF Chains
  <1>2. IsFiniteSet(Chains) /\ Cardinality(Chains) = QSZ
    BY FS_Interval, RingAssumption DEF Chains
  <1>3. IsFiniteSet(Chains \ {c}) /\ Cardinality(Chains \ {c}) = QSZ - 1
    BY <1>2, FS_RemoveElement
  <1>4. Cardinality(Chains \ {c}) < Cardinality(Chains)
    BY <1>2, <1>3, RingAssumption
  <1>5. \E x, y \in Chains : x # y /\ f[x] = f[y]
    <2> HIDE DEF f
    <2> QED BY <1>1, <1>2, <1>3, <1>4, FS_PigeonHole
  <1> QED
    BY <1>5 DEF Chains

\* How often a ring shows a chain.
Shown(r, from, n, c) == {k \in 0 .. n - 1 : At(r, from, k) = c}

InRing(r, from, n, c) == \E k \in 0 .. n - 1 : At(r, from, k) = c

Counted(r, from, n, c) ==
    /\ InRing(r, from, n, c) => Cardinality(Shown(r, from, n, c)) = 1
    /\ ~InRing(r, from, n, c) => Cardinality(Shown(r, from, n, c)) = 0

\* A ring that holds chains once shows each at most once.
LEMMA CountInRing ==
    ASSUME NEW r, NEW from, NEW n \in Nat, NEW o, NEW g, NEW c, Holds(r, from, n, o, g)
    PROVE  Counted(r, from, n, c)
  <1> DEFINE S == Shown(r, from, n, c)
  <1>1. CASE InRing(r, from, n, c)
    <2>1. PICK k \in 0 .. n - 1 : At(r, from, k) = c
      BY <1>1 DEF InRing
    <2>2. S = {k}
      BY <2>1 DEF Shown, Holds
    <2>3. Cardinality(S) = 1
      BY <2>2, FS_Singleton
    <2> QED
      BY <1>1, <2>3 DEF Counted
  <1>2. CASE ~InRing(r, from, n, c)
    <2>1. S = {}
      BY <1>2 DEF Shown, InRing
    <2>2. Cardinality(S) = 0
      BY <2>1, FS_EmptySet
    <2> QED
      BY <1>2, <2>2 DEF Counted
  <1> QED
    BY <1>1, <1>2

\* The invariant says of the chains what ChainOnce says.
LEMMA ChainsFromInv == VInv => ChainOnce
  <1> SUFFICES ASSUME VInv PROVE ChainOnce
    OBVIOUS
  <1>1. TypeOK
    BY SMTT(30) DEF VInv, BlkTypes, TypeOK, Entry
  <1>2. SUFFICES ASSUME ready, Clean
                 PROVE  /\ Sub(availIdx, lastAvail) <= QSZ /\ Sub(usedIdx, seen) <= QSZ
                        /\ \A c \in out :
                              Cardinality({k \in DOMAIN Waiting : Waiting[k] = c})
                              + Cardinality({k \in DOMAIN Returned : Returned[k] = c})
                              + (IF c \in inflight THEN 1 ELSE 0) = 1
                        /\ \A k \in DOMAIN Returned : Returned[k] \in out
                        /\ inflight \subseteq out
                        /\ npc # "aborted"
    BY <1>1 DEF ChainOnce
  <1> DEFINE n == Sub(availIdx, lastAvail)
             m == Sub(usedIdx, seen)
  <1>3. n \in Nat /\ m \in Nat
    BY SubIs, SMTT(30) DEF VInv, BlkTypes, Idx
  <1>4. npc # "aborted" /\ Rings /\ inflight \ stale = inflight
    BY <1>2, SMTT(30) DEF VInv, Clean, Control
  <1>5. /\ n <= QSZ /\ m <= QSZ
        /\ Holds(availRing, lastAvail, n, out, inflight) /\ Holds(usedRing, seen, m, out, inflight)
        /\ Disjoint(lastAvail, availIdx, availRing, seen, usedIdx, usedRing)
        /\ \A x \in inflight : x \in out
        /\ Accounted(lastAvail, availIdx, availRing, seen, usedIdx, usedRing, out, inflight)
    BY <1>4 DEF Rings, RingsOK
  <1>6. /\ Waiting = [k \in 0 .. n - 1 |-> At(availRing, lastAvail, k)]
        /\ Returned = [k \in 0 .. m - 1 |-> At(usedRing, seen, k)]
    BY DEF Waiting, Returned, Window, At
  <1>7. \A k \in DOMAIN Returned : Returned[k] \in out
    BY <1>5, <1>6 DEF Holds
  <1>8. ASSUME NEW c \in out
        PROVE  Cardinality({k \in DOMAIN Waiting : Waiting[k] = c})
               + Cardinality({k \in DOMAIN Returned : Returned[k] = c})
               + (IF c \in inflight THEN 1 ELSE 0) = 1
    <2>1. /\ {k \in DOMAIN Waiting : Waiting[k] = c} = Shown(availRing, lastAvail, n, c)
          /\ {k \in DOMAIN Returned : Returned[k] = c} = Shown(usedRing, seen, m, c)
      BY <1>6 DEF Shown
    <2> HIDE DEF n, m
    <2>2. Counted(availRing, lastAvail, n, c) /\ Counted(usedRing, seen, m, c)
      BY <1>3, <1>5, CountInRing
    <2>3. c \in inflight \/ InRing(availRing, lastAvail, n, c) \/ InRing(usedRing, seen, m, c)
      BY <1>5 DEF Accounted, Somewhere, InRing, n, m
    <2>4. c \in inflight => ~InRing(availRing, lastAvail, n, c) /\ ~InRing(usedRing, seen, m, c)
      BY <1>5 DEF Holds, InRing
    <2>5. ~(InRing(availRing, lastAvail, n, c) /\ InRing(usedRing, seen, m, c))
      BY <1>5 DEF Disjoint, InRing, n, m
    <2> DEFINE a == Cardinality({k \in DOMAIN Waiting : Waiting[k] = c})
               b == Cardinality({k \in DOMAIN Returned : Returned[k] = c})
    <2>6. /\ InRing(availRing, lastAvail, n, c) => a = 1
          /\ ~InRing(availRing, lastAvail, n, c) => a = 0
          /\ InRing(usedRing, seen, m, c) => b = 1
          /\ ~InRing(usedRing, seen, m, c) => b = 0
      BY <2>1, <2>2, Zenon DEF Counted
    <2> HIDE DEF a, b
    <2>7. a + b + (IF c \in inflight THEN 1 ELSE 0) = 1
      BY <2>3, <2>4, <2>5, <2>6
    <2> QED
      BY <2>7 DEF a, b
  <1> QED
    BY <1>4, <1>5, <1>7, <1>8, Zenon

\* The indices of the ring lose, repeat and overwrite no chain: published, with
\* block_if and returned is where every outstanding chain is, once, for every size
\* of the ring and every width of the indices (vq_getchain, vq_relchain); with the
\* type invariant.
THEOREM ChainsAreKept == Spec => []ChainOnce
  <1>1. Spec => []VInv
    BY VInit, VNext, Room, PTL DEF Spec
  <1> QED
    BY <1>1, ChainsFromInv, PTL

\* An idle driver has an interrupt coming for every used chain it has not seen,
\* and the INTx pin agrees with the ISR register (vq_endchains, vq_interrupt,
\* virtio_pci_read, virtio_reset_dev).
THEOREM InterruptsAreSeen == Spec => []InterruptSeen
  <1>1. Spec => []VInv
    BY VInit, VNext, Room, PTL DEF Spec
  <1>2. VInv => InterruptSeen
    BY SMTT(30) DEF VInv, Control, InterruptSeen, InterruptNotLost, Clean
  <1> QED
    BY <1>1, <1>2, PTL
=============================================================================
