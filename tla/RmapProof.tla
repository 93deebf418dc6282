----------------------------- MODULE RmapProof -----------------------------
(***************************************************************************)
(* Proofs about Rmap for any space, boundary, number of slots, sizes and   *)
(* processes.  The invariant: the array is well formed, the blocks that    *)
(* are out lie apart from each other and from the free units, and nobody   *)
(* sleeps for a size that fits.  The blocks' place is needed because       *)
(* rmfree of units that are free already would break the order of slots.   *)
(* From it also: the slots implement FreeMap, the set of their units.      *)
(***************************************************************************)
EXTENDS Rmap, SequenceTheorems, FiniteSetTheorems, WellFoundedInduction, TLAPS

-----------------------------------------------------------------------------
(* The community modules' RemoveAt and InsertAt.                           *)

\* RemoveAt closes the sequence up over element i.
LEMMA RemoveAtIs ==
    ASSUME NEW S, NEW s \in Seq(S), NEW i \in 1 .. Len(s)
    PROVE  /\ RemoveAt(s, i) \in Seq(S)
           /\ Len(RemoveAt(s, i)) = Len(s) - 1
           /\ \A k \in 1 .. Len(s) - 1 :
                RemoveAt(s, i)[k] = IF k < i THEN s[k] ELSE s[k + 1]
<1> DEFINE t == SubSeq(s, 1, i - 1)
           u == SubSeq(s, i + 1, Len(s))
           r == RemoveAt(s, i)
<1>1. /\ t \in Seq(S) /\ Len(t) = i - 1 /\ \A k \in 1 .. i - 1 : t[k] = s[k]
  BY SubSeqProperties
<1>2. /\ u \in Seq(S) /\ Len(u) = Len(s) - i /\ \A k \in 1 .. Len(s) - i : u[k] = s[i + k]
  BY SubSeqProperties
<1>3. r = t \o u
  BY DEF RemoveAt
<1> HIDE DEF t, u, r
<1>4. /\ r \in Seq(S) /\ Len(r) = Len(t) + Len(u)
      /\ \A k \in 1 .. Len(t) + Len(u) :
           r[k] = IF k <= Len(t) THEN t[k] ELSE u[k - Len(t)]
  BY <1>1, <1>2, <1>3, ConcatProperties
<1>5. ASSUME NEW k \in 1 .. Len(s) - 1
      PROVE  r[k] = IF k < i THEN s[k] ELSE s[k + 1]
  <2>1. Len(t) = i - 1 /\ k \in 1 .. Len(t) + Len(u)
    BY <1>1, <1>2
  <2>2. r[k] = IF k <= i - 1 THEN t[k] ELSE u[k - (i - 1)]
    BY <1>4, <2>1
  <2>3. CASE k < i
    BY <1>1, <2>3, <2>2
  <2>4. CASE k >= i
    <3>1. k - (i - 1) \in 1 .. Len(s) - i
      BY <2>4
    <3>2. u[k - (i - 1)] = s[i + (k - (i - 1))]
      BY <1>2, <3>1
    <3>3. i + (k - (i - 1)) = k + 1
      OBVIOUS
    <3> QED BY <2>4, <2>2, <3>2, <3>3
  <2> QED BY <2>3, <2>4
<1> QED BY <1>1, <1>2, <1>4, <1>5 DEF r

\* InsertAt moves the elements from i on one up.
LEMMA InsertAtIs ==
    ASSUME NEW S, NEW s \in Seq(S), NEW e \in S, NEW i \in 1 .. Len(s) + 1
    PROVE  /\ InsertAt(s, i, e) \in Seq(S)
           /\ Len(InsertAt(s, i, e)) = Len(s) + 1
           /\ \A k \in 1 .. Len(s) + 1 :
                InsertAt(s, i, e)[k] = IF k < i THEN s[k] ELSE IF k = i THEN e ELSE s[k - 1]
<1> DEFINE t == SubSeq(s, 1, i - 1)
           u == SubSeq(s, i, Len(s))
           v == t \o <<e>>
           r == InsertAt(s, i, e)
<1>1. /\ t \in Seq(S) /\ Len(t) = i - 1 /\ \A k \in 1 .. i - 1 : t[k] = s[k]
  BY SubSeqProperties
<1>2. /\ u \in Seq(S) /\ Len(u) = Len(s) - i + 1
      /\ \A k \in 1 .. Len(s) - i + 1 : u[k] = s[i + k - 1]
  BY SubSeqProperties
<1>3. r = v \o u
  BY DEF InsertAt
<1> HIDE DEF t, u, r
<1>4. /\ v \in Seq(S) /\ Len(v) = i
      /\ \A k \in 1 .. i : v[k] = IF k < i THEN s[k] ELSE e
  BY <1>1, ConcatProperties
<1> HIDE DEF v
<1>5. /\ r \in Seq(S) /\ Len(r) = Len(v) + Len(u)
      /\ \A k \in 1 .. Len(v) + Len(u) :
           r[k] = IF k <= Len(v) THEN v[k] ELSE u[k - Len(v)]
  BY <1>2, <1>3, <1>4, ConcatProperties
<1>6. ASSUME NEW k \in 1 .. Len(s) + 1
      PROVE  r[k] = IF k < i THEN s[k] ELSE IF k = i THEN e ELSE s[k - 1]
  <2>1. CASE k <= i
    BY <1>2, <1>4, <1>5, <2>1
  <2>2. CASE k > i
    <3>1. k - i \in 1 .. Len(s) - i + 1
      BY <2>2
    <3>2. u[k - i] = s[i + (k - i) - 1]
      BY <1>2, <3>1
    <3>3. i + (k - i) - 1 = k - 1
      OBVIOUS
    <3> QED BY <1>2, <1>4, <1>5, <2>2, <3>2, <3>3
  <2> QED BY <2>1, <2>2
<1> QED BY <1>2, <1>4, <1>5, <1>6 DEF r

-----------------------------------------------------------------------------
(* The slots in order and the set of their units.                          *)

SlotSet == [addr : Int, size : Nat \ {0}]
Ordered(l) ==
    /\ l \in Seq(SlotSet)
    /\ \A i, j \in 1 .. Len(l) : i < j => End(l[i]) < l[j].addr
MapOK(m) ==
    /\ m \in [slots : Seq(SlotSet), room : Nat]
    /\ Len(m.slots) + m.room = mapslots
    /\ Ordered(m.slots)
UnitsOf(l) == UNION {s.addr .. End(s) - 1 : s \in ToSet(l)}

\* A unit is in the map when it is in one of its slots.
LEMMA InUnits ==
    ASSUME NEW l \in Seq(SlotSet), NEW x
    PROVE  x \in UnitsOf(l) <=>
             x \in Int /\ \E i \in 1 .. Len(l) : l[i].addr <= x /\ x < l[i].addr + l[i].size
<1>1. x \in UnitsOf(l) <=> \E i \in 1 .. Len(l) : x \in l[i].addr .. End(l[i]) - 1
  BY DEF UnitsOf, ToSet
<1>2. ASSUME NEW i \in 1 .. Len(l)
      PROVE  /\ l[i].addr \in Int /\ l[i].size \in Nat \ {0}
             /\ l[i].addr + l[i].size \in Int
             /\ End(l[i]) = l[i].addr + l[i].size
  <2>1. l[i] \in SlotSet
    OBVIOUS
  <2> QED BY <2>1 DEF SlotSet, End
<1>3. ASSUME NEW i \in 1 .. Len(l)
      PROVE  x \in l[i].addr .. End(l[i]) - 1
               <=> x \in Int /\ l[i].addr <= x /\ x < l[i].addr + l[i].size
  BY <1>2
<1> QED BY <1>1, <1>3

\* What the slots are, for the provers.
LEMMA SlotFacts ==
    ASSUME NEW l, Ordered(l)
    PROVE  /\ Len(l) \in Nat
           /\ \A i \in 1 .. Len(l) : /\ l[i] = [addr |-> l[i].addr, size |-> l[i].size]
                                     /\ l[i].addr \in Int /\ l[i].size \in Nat /\ l[i].size > 0
           /\ \A i, j \in 1 .. Len(l) : i < j => l[i].addr + l[i].size < l[j].addr
<1>1. Len(l) \in Nat
  BY DEF Ordered
<1>2. ASSUME NEW i \in 1 .. Len(l)
      PROVE  /\ l[i] = [addr |-> l[i].addr, size |-> l[i].size]
             /\ l[i].addr \in Int /\ l[i].size \in Nat /\ l[i].size > 0
  <2>1. l[i] \in SlotSet
    BY DEF Ordered
  <2> QED BY <2>1 DEF SlotSet
<1>3. \A i, j \in 1 .. Len(l) : i < j => l[i].addr + l[i].size < l[j].addr
  BY DEF Ordered, End
<1> QED BY <1>1, <1>2, <1>3

\* The units of a slot are units of the map, and of no other slot.
LEMMA SlotUnits ==
    ASSUME NEW l, Ordered(l), NEW j \in 1 .. Len(l)
    PROVE  /\ Units(l[j].addr, l[j].size) \subseteq UnitsOf(l)
           /\ \A x : x \in Units(l[j].addr, l[j].size)
                       <=> x \in Int /\ l[j].addr <= x /\ x < l[j].addr + l[j].size
<1>1. l[j].addr \in Int /\ l[j].size \in Nat
  BY SlotFacts
<1>2. ASSUME NEW x
      PROVE  x \in Units(l[j].addr, l[j].size)
               <=> x \in Int /\ l[j].addr <= x /\ x < l[j].addr + l[j].size
  BY <1>1 DEF Units
<1>3. l \in Seq(SlotSet)
  BY DEF Ordered
<1> QED BY <1>2, <1>3, InUnits

\* A unit of one slot is in no other.
LEMMA SlotsApart ==
    ASSUME NEW l, Ordered(l), NEW i \in 1 .. Len(l), NEW j \in 1 .. Len(l), i # j,
           NEW x \in Int, l[i].addr <= x, x < l[i].addr + l[i].size
    PROVE  x \notin Units(l[j].addr, l[j].size)
<1>1. /\ l[j].addr \in Int /\ l[j].size \in Nat /\ l[i].addr \in Int /\ l[i].size \in Nat
      /\ i < j => l[i].addr + l[i].size < l[j].addr
      /\ j < i => l[j].addr + l[j].size < l[i].addr
  BY SlotFacts
<1>2. CASE i < j
  <2>1. ~(l[j].addr <= x)
    BY <1>1, <1>2
  <2> QED BY <2>1, SlotUnits
<1>3. CASE j < i
  <2>1. ~(x < l[j].addr + l[j].size)
    BY <1>1, <1>3
  <2> QED BY <2>1, SlotUnits
<1> QED BY <1>2, <1>3

\* One element replaced.
LEMMA ExceptElement ==
    ASSUME NEW S, NEW s \in Seq(S), NEW i \in 1 .. Len(s), NEW e \in S
    PROVE  /\ [s EXCEPT ![i] = e] \in Seq(S) /\ Len([s EXCEPT ![i] = e]) = Len(s)
           /\ \A k \in 1 .. Len(s) : [s EXCEPT ![i] = e][k] = IF k = i THEN e ELSE s[k]
OBVIOUS

\* One slot.
LEMMA SlotIs ==
    ASSUME NEW l, Ordered(l), NEW i \in 1 .. Len(l)
    PROVE  /\ l[i] = [addr |-> l[i].addr, size |-> l[i].size]
           /\ l[i].addr \in Int /\ l[i].size \in Nat \ {0} /\ l[i].addr + l[i].size \in Int
<1>1. l[i] \in SlotSet
  BY DEF Ordered
<1>2. l[i].addr \in Int /\ l[i].size \in Nat \ {0}
  BY <1>1 DEF SlotSet
<1> QED BY <1>1, <1>2 DEF SlotSet

\* Behind a slot, and before it, is a unit that is not in the map.
LEMMA GapsAround ==
    ASSUME NEW l, Ordered(l), NEW k \in 1 .. Len(l)
    PROVE  l[k].addr + l[k].size \notin UnitsOf(l) /\ l[k].addr - 1 \notin UnitsOf(l)
<1>1. l \in Seq(SlotSet)
  BY DEF Ordered
<1> DEFINE e == l[k].addr + l[k].size
<1>2. SUFFICES ASSUME NEW i \in 1 .. Len(l),
                      \/ l[i].addr <= e /\ e < l[i].addr + l[i].size
                      \/ l[i].addr <= l[k].addr - 1 /\ l[k].addr - 1 < l[i].addr + l[i].size
               PROVE  FALSE
  BY <1>1, InUnits
<1>3. /\ l[k].addr \in Int /\ l[k].size \in Nat /\ l[k].size > 0
      /\ l[i].addr \in Int /\ l[i].size \in Nat /\ l[i].size > 0
      /\ i < k => l[i].addr + l[i].size < l[k].addr
      /\ k < i => e < l[i].addr
  BY SlotFacts
<1>4. CASE i = k
  BY <1>2, <1>3, <1>4
<1>5. CASE i < k
  BY SMTT(30), <1>2, <1>3, <1>5
<1>6. CASE k < i
  BY <1>2, <1>3, <1>6
<1> QED BY <1>4, <1>5, <1>6

\* Units in a row that begin in a slot end in it.
LEMMA RunInSlot ==
    ASSUME NEW l, Ordered(l), NEW k \in 1 .. Len(l), NEW a \in Int, NEW n \in Nat \ {0},
           l[k].addr <= a, a < l[k].addr + l[k].size, Units(a, n) \subseteq UnitsOf(l)
    PROVE  a + n <= l[k].addr + l[k].size
<1> DEFINE e == l[k].addr + l[k].size
<1>1. l[k].addr \in Int /\ l[k].size \in Nat
  BY SlotFacts
<1>2. e \in Int
  BY <1>1
<1>3. e \notin UnitsOf(l)
  BY GapsAround
<1>4. e \notin Units(a, n)
  BY <1>3
<1> QED BY <1>2, <1>4 DEF Units

\* When no slot is long enough, n units in a row are free nowhere.
LEMMA NoSlotNoFit ==
    ASSUME NEW l, Ordered(l), NEW n \in Nat \ {0}, \A k \in 1 .. Len(l) : ~(l[k].size >= n)
    PROVE  Fits(UnitsOf(l), n) = {}
<1>1. l \in Seq(SlotSet)
  BY DEF Ordered
<1>2. SUFFICES ASSUME NEW a \in UnitsOf(l), Units(a, n) \subseteq UnitsOf(l)
               PROVE  FALSE
  BY DEF Fits
<1>3. PICK k \in 1 .. Len(l) : a \in Int /\ l[k].addr <= a /\ a < l[k].addr + l[k].size
  BY <1>1, <1>2, InUnits
<1>4. a + n <= l[k].addr + l[k].size
  BY <1>2, <1>3, RunInSlot
<1>5. l[k].addr \in Int /\ l[k].size \in Nat
  BY SlotFacts
<1> QED BY <1>3, <1>4, <1>5

\* The least of some numbers is one of them.
LEMMA LeastIndex ==
    ASSUME NEW I, I \subseteq Nat, I # {}
    PROVE  Min(I) \in I /\ \A k \in I : Min(I) <= k
<1> DEFINE R == OpToRel(<, Nat)
<1>1. IsWellFoundedOn(R, Nat)
  BY NatLessThanWellFounded
<1>2. PICK j \in I : \A k \in I : ~(<<k, j>> \in R)
  BY <1>1, WFMin
<1>3. \A k \in I : ~(k < j)
  BY <1>2 DEF OpToRel
<1>4. \A k \in I : j <= k
  BY <1>3
<1> QED BY <1>4 DEF Min

\* The slots without slot j.
LEMMA RemovedSlot ==
    ASSUME NEW l, Ordered(l), NEW j \in 1 .. Len(l)
    PROVE  /\ Ordered(RemoveAt(l, j)) /\ Len(RemoveAt(l, j)) = Len(l) - 1
           /\ UnitsOf(RemoveAt(l, j)) = UnitsOf(l) \ Units(l[j].addr, l[j].size)
<1> DEFINE r == RemoveAt(l, j)
<1>1. l \in Seq(SlotSet) /\ Len(l) \in Nat
  BY DEF Ordered
<1>2. /\ r \in Seq(SlotSet) /\ Len(r) = Len(l) - 1
      /\ \A k \in 1 .. Len(l) - 1 : r[k] = IF k < j THEN l[k] ELSE l[k + 1]
  BY <1>1, RemoveAtIs
<1> HIDE DEF r
<1>3. Ordered(r)
  <2> SUFFICES ASSUME NEW i \in 1 .. Len(r), NEW k \in 1 .. Len(r), i < k
               PROVE  End(r[i]) < r[k].addr
    BY <1>2 DEF Ordered
  <2>1. ASSUME NEW h \in 1 .. Len(r)
        PROVE  \E u \in 1 .. Len(l) : u = (IF h < j THEN h ELSE h + 1) /\ r[h] = l[u]
    <3>1. h \in 1 .. Len(l) - 1 /\ h \in 1 .. Len(l) /\ h + 1 \in 1 .. Len(l)
      BY <1>1, <1>2
    <3>2. r[h] = IF h < j THEN l[h] ELSE l[h + 1]
      BY <1>2, <3>1
    <3> QED BY <3>1, <3>2
  <2>2. PICK u \in 1 .. Len(l) : u = (IF i < j THEN i ELSE i + 1) /\ r[i] = l[u]
    BY <2>1
  <2>3. PICK v \in 1 .. Len(l) : v = (IF k < j THEN k ELSE k + 1) /\ r[k] = l[v]
    BY <2>1
  <2>4. u < v
    BY <1>1, <1>2, <2>2, <2>3
  <2> QED BY <2>2, <2>3, <2>4 DEF Ordered
<1>4. ASSUME NEW x
      PROVE  x \in UnitsOf(r) <=> x \in UnitsOf(l) \ Units(l[j].addr, l[j].size)
  <2>1. ASSUME x \in UnitsOf(r)
        PROVE  x \in UnitsOf(l) \ Units(l[j].addr, l[j].size)
    <3>1. PICK i \in 1 .. Len(r) : x \in Int /\ r[i].addr <= x /\ x < r[i].addr + r[i].size
      BY <1>2, <2>1, InUnits
    <3>2. PICK u \in 1 .. Len(l) : r[i] = l[u] /\ u # j
      BY <1>1, <1>2
    <3>3. x \in UnitsOf(l)
      BY <1>1, <3>1, <3>2, InUnits
    <3>4. x \notin Units(l[j].addr, l[j].size)
      BY <3>1, <3>2, SlotsApart
    <3> QED BY <3>3, <3>4
  <2>2. ASSUME x \in UnitsOf(l) \ Units(l[j].addr, l[j].size)
        PROVE  x \in UnitsOf(r)
    <3>1. PICK u \in 1 .. Len(l) : x \in Int /\ l[u].addr <= x /\ x < l[u].addr + l[u].size
      BY <1>1, <2>2, InUnits
    <3>2. u # j
      BY <2>2, <3>1, SlotUnits
    <3>3. PICK i \in 1 .. Len(r) : i = IF u < j THEN u ELSE u - 1
      BY <1>1, <1>2, <3>2
    <3>4. r[i] = l[u]
      BY <1>1, <1>2, <3>2, <3>3
    <3> QED BY <1>2, <3>1, <3>4, InUnits
  <2> QED BY <2>1, <2>2
<1> QED BY <1>2, <1>3, <1>4 DEF r

\* The slots before slot j end before a, and those from slot j on begin behind e.
Below(l, j, a) == \A i \in 1 .. Len(l) : i < j => l[i].addr + l[i].size < a
Above(l, j, e) == \A i \in 1 .. Len(l) : j <= i => e < l[i].addr

\* The units when slot j becomes the n units from b on.
Moved(l, j, b, n) == (UnitsOf(l) \ Units(l[j].addr, l[j].size)) \cup Units(b, n)

\* Slot j in another place between its neighbours.
LEMMA ReplacedSlot ==
    ASSUME NEW l, Ordered(l), NEW j \in 1 .. Len(l), NEW b \in Int, NEW n \in Nat \ {0},
           Below(l, j, b), Above(l, j + 1, b + n),
           NEW r, r = ReplaceAt(l, j, Slot(b, n))
    PROVE  /\ Ordered(r)
           /\ UnitsOf(r) = Moved(l, j, b, n)
<1>1. l \in Seq(SlotSet) /\ Len(l) \in Nat
  BY DEF Ordered
<1>2. Slot(b, n) \in SlotSet /\ Slot(b, n).addr = b /\ Slot(b, n).size = n
  BY DEF Slot, SlotSet
<1>3. /\ r \in Seq(SlotSet) /\ Len(r) = Len(l)
      /\ \A k \in 1 .. Len(l) : r[k] = IF k = j THEN Slot(b, n) ELSE l[k]
  BY <1>1, <1>2, ExceptElement DEF ReplaceAt
<1>4. Ordered(r)
  <2> SUFFICES ASSUME NEW i \in 1 .. Len(r), NEW k \in 1 .. Len(r), i < k
               PROVE  r[i].addr + r[i].size < r[k].addr
    BY <1>3 DEF Ordered, End
  <2>1. CASE i = j
    BY <1>2, <1>3, <2>1 DEF Above
  <2>2. CASE k = j
    BY <1>2, <1>3, <2>2 DEF Below
  <2>3. CASE i # j /\ k # j
    BY <1>3, <2>3, SlotFacts
  <2> QED BY <2>1, <2>2, <2>3
<1>5. ASSUME NEW x
      PROVE  x \in UnitsOf(r) <=>
               x \in (UnitsOf(l) \ Units(l[j].addr, l[j].size)) \cup Units(b, n)
  <2>1. ASSUME x \in UnitsOf(r), x \notin Units(b, n)
        PROVE  x \in UnitsOf(l) \ Units(l[j].addr, l[j].size)
    <3>1. PICK i \in 1 .. Len(r) : x \in Int /\ r[i].addr <= x /\ x < r[i].addr + r[i].size
      BY <1>3, <2>1, InUnits
    <3>2. i # j
      BY <1>2, <1>3, <2>1, <3>1 DEF Units
    <3>3. r[i] = l[i] /\ i \in 1 .. Len(l)
      BY <1>3, <3>2
    <3>4. x \in UnitsOf(l)
      BY <1>1, <3>1, <3>3, InUnits
    <3>5. x \notin Units(l[j].addr, l[j].size)
      BY <3>1, <3>2, <3>3, SlotsApart
    <3> QED BY <3>4, <3>5
  <2>2. ASSUME x \in UnitsOf(l) \ Units(l[j].addr, l[j].size)
        PROVE  x \in UnitsOf(r)
    <3>1. PICK u \in 1 .. Len(l) : x \in Int /\ l[u].addr <= x /\ x < l[u].addr + l[u].size
      BY <1>1, <2>2, InUnits
    <3>2. u # j
      BY <2>2, <3>1, SlotUnits
    <3> QED BY <1>3, <3>1, <3>2, InUnits
  <2>3. ASSUME x \in Units(b, n)
        PROVE  x \in UnitsOf(r)
    <3>1. x \in Int /\ b <= x /\ x < b + n
      BY <2>3 DEF Units
    <3>2. r[j].addr <= x /\ x < r[j].addr + r[j].size
      BY <1>2, <1>3, <3>1
    <3> QED BY <1>3, <3>1, <3>2, InUnits
  <2> QED BY <2>1, <2>2, <2>3
<1> QED BY <1>3, <1>4, <1>5 DEF Moved

\* A replaced slot leaves their number.
LEMMA ReplacedLen ==
    ASSUME NEW l, Ordered(l), NEW j, NEW s
    PROVE  Len(ReplaceAt(l, j, s)) = Len(l)
<1>1. l \in Seq(SlotSet)
  BY DEF Ordered
<1> QED BY <1>1 DEF ReplaceAt

\* The units without n of them from a on, and with n more.
Without(l, a, n) == UnitsOf(l) \ Units(a, n)
With(l, b, n) == UnitsOf(l) \cup Units(b, n)

\* A slot between two others, or at an end.
LEMMA InsertedSlot ==
    ASSUME NEW l, Ordered(l), NEW j \in 1 .. Len(l) + 1, NEW b \in Int, NEW n \in Nat \ {0},
           Below(l, j, b), Above(l, j, b + n),
           NEW r, r = InsertAt(l, j, Slot(b, n))
    PROVE  /\ Ordered(r)
           /\ UnitsOf(r) = With(l, b, n)
<1> DEFINE e == Slot(b, n)
<1>1. l \in Seq(SlotSet) /\ Len(l) \in Nat
  BY DEF Ordered
<1>2. e \in SlotSet /\ e.addr = b /\ e.size = n
  BY DEF Slot, SlotSet
<1> HIDE DEF e
<1>3. r = InsertAt(l, j, e)
  BY DEF e
<1>4. /\ r \in Seq(SlotSet) /\ Len(r) = Len(l) + 1
      /\ \A k \in 1 .. Len(l) + 1 :
           r[k] = IF k < j THEN l[k] ELSE IF k = j THEN e ELSE l[k - 1]
  <2>1. r \in Seq(SlotSet)
    BY <1>3, <1>1, <1>2, InsertAtIs
  <2>2. Len(r) = Len(l) + 1
    BY <1>3, <1>1, <1>2, InsertAtIs
  <2>3. \A k \in 1 .. Len(l) + 1 :
           r[k] = IF k < j THEN l[k] ELSE IF k = j THEN e ELSE l[k - 1]
    BY SMTT(30), <1>3, <1>1, <1>2, InsertAtIs
  <2> QED BY <2>1, <2>2, <2>3
<1>5. ASSUME NEW k \in 1 .. Len(r), k # j
      PROVE  \E u \in 1 .. Len(l) : u = (IF k < j THEN k ELSE k - 1) /\ r[k] = l[u]
  BY <1>1, <1>4, <1>5
<1>6. Ordered(r)
  <2> SUFFICES ASSUME NEW i \in 1 .. Len(r), NEW k \in 1 .. Len(r), i < k
               PROVE  r[i].addr + r[i].size < r[k].addr
    BY <1>4 DEF Ordered, End
  <2>1. CASE i = j
    <3>1. PICK v \in 1 .. Len(l) : v = k - 1 /\ r[k] = l[v]
      BY <1>5, <2>1
    <3> QED BY <1>1, <1>2, <1>4, <2>1, <3>1 DEF Above
  <2>2. CASE k = j
    <3>1. PICK u \in 1 .. Len(l) : u = i /\ r[i] = l[u]
      BY <1>5, <2>2
    <3> QED BY <1>1, <1>2, <1>4, <2>2, <3>1 DEF Below
  <2>3. CASE i # j /\ k # j
    <3>1. PICK u \in 1 .. Len(l) : u = (IF i < j THEN i ELSE i - 1) /\ r[i] = l[u]
      BY <1>5, <2>3
    <3>2. PICK v \in 1 .. Len(l) : v = (IF k < j THEN k ELSE k - 1) /\ r[k] = l[v]
      BY <1>5, <2>3
    <3>3. u < v
      BY <1>1, <1>4, <2>3, <3>1, <3>2
    <3> QED BY SMTT(30), <3>1, <3>2, <3>3, SlotFacts
  <2> QED BY <2>1, <2>2, <2>3
<1>7. ASSUME NEW x
      PROVE  x \in UnitsOf(r) <=> x \in UnitsOf(l) \cup Units(b, n)
  <2>1. ASSUME x \in UnitsOf(r), x \notin Units(b, n)
        PROVE  x \in UnitsOf(l)
    <3>1. PICK i \in 1 .. Len(r) : x \in Int /\ r[i].addr <= x /\ x < r[i].addr + r[i].size
      BY <1>4, <2>1, InUnits
    <3>2. i # j
      BY <1>1, <1>2, <1>4, <2>1, <3>1 DEF Units
    <3>3. PICK u \in 1 .. Len(l) : r[i] = l[u]
      BY <1>5, <3>2
    <3> QED BY <1>1, <3>1, <3>3, InUnits
  <2>2. ASSUME x \in UnitsOf(l)
        PROVE  x \in UnitsOf(r)
    <3>1. PICK u \in 1 .. Len(l) : x \in Int /\ l[u].addr <= x /\ x < l[u].addr + l[u].size
      BY <1>1, <2>2, InUnits
    <3>2. PICK i \in 1 .. Len(r) : i = IF u < j THEN u ELSE u + 1
      BY <1>1, <1>4
    <3>3. r[i] = l[u]
      BY <1>1, <1>4, <3>2
    <3> QED BY <1>4, <3>1, <3>3, InUnits
  <2>3. ASSUME x \in Units(b, n)
        PROVE  x \in UnitsOf(r)
    <3>1. x \in Int /\ b <= x /\ x < b + n
      BY <2>3 DEF Units
    <3>2. j \in 1 .. Len(r) /\ r[j] = e
      BY <1>1, <1>4
    <3> QED BY <1>2, <1>4, <3>1, <3>2, InUnits
  <2> QED BY <2>1, <2>2, <2>3
<1> QED BY <1>4, <1>6, <1>7 DEF With

-----------------------------------------------------------------------------
(* The operations of malloc.c.                                             *)

\* The units of a block in two parts.
LEMMA UnitsSplit ==
    ASSUME NEW a \in Int, NEW n \in Nat, NEW k \in Nat
    PROVE  /\ Units(a, n + k) = Units(a, n) \cup Units(a + n, k)
           /\ Units(a, n) \cap Units(a + n, k) = {}
BY DEF Units

\* The least index with a property that RmallocSlot and PtmallocSlot look for.
LEMMA LeastIn ==
    ASSUME NEW l, Ordered(l), NEW I, I \subseteq 1 .. Len(l), NEW j,
           j = IF I # {} THEN Min(I) ELSE 0
    PROVE  \/ j = 0 /\ I = {}
           \/ j \in I /\ \A k \in 1 .. Len(l) : k < j => k \notin I
<1>1. Len(l) \in Nat
  BY SlotFacts
<1>2. I \subseteq Nat
  BY <1>1
<1>3. CASE I # {}
  <2>1. j \in I /\ \A k \in I : j <= k
    BY <1>2, <1>3, LeastIndex
  <2>2. ASSUME NEW k \in 1 .. Len(l), k < j
        PROVE  k \notin I
    BY <1>2, <2>1, <2>2
  <2> QED BY <2>1, <2>2
<1> QED BY <1>3

\* rmalloc takes the first slot that is long enough, if there is one.
LEMMA RmallocSlotIs ==
    ASSUME NEW m, MapOK(m), NEW n, NEW j, j = RmallocSlot(m, n)
    PROVE  \/ j = 0 /\ \A k \in 1 .. Len(m.slots) : ~(m.slots[k].size >= n)
           \/ /\ j \in 1 .. Len(m.slots) /\ m.slots[j].size >= n
              /\ \A k \in 1 .. Len(m.slots) : k < j => ~(m.slots[k].size >= n)
<1> DEFINE I == {i \in 1 .. Len(m.slots) : m.slots[i].size >= n}
<1>1. j = IF I # {} THEN Min(I) ELSE 0
  BY DEF RmallocSlot, SelectInSeq
<1>2. Ordered(m.slots)
  BY DEF MapOK
<1>3. \/ j = 0 /\ I = {}
      \/ j \in I /\ \A k \in 1 .. Len(m.slots) : k < j => k \notin I
  <2> HIDE DEF I
  <2>1. I \subseteq 1 .. Len(m.slots)
    BY DEF I
  <2> QED BY <1>1, <1>2, <2>1, LeastIn
<1> QED BY <1>3

\* The map of these slots and this room.
LEMMA MapOf ==
    ASSUME NEW l, Ordered(l), NEW r \in Nat, Len(l) + r = mapslots
    PROVE  MapOK([slots |-> l, room |-> r])
<1>1. l \in Seq(SlotSet)
  BY DEF Ordered
<1> QED BY <1>1 DEF MapOK

\* What MapOK says, for the provers.
LEMMA MapFacts ==
    ASSUME NEW m, MapOK(m)
    PROVE  /\ m = [slots |-> m.slots, room |-> m.room] /\ m.room \in Nat
           /\ Len(m.slots) \in Nat /\ Len(m.slots) + m.room = mapslots /\ Ordered(m.slots)
BY SlotFacts DEF MapOK

\* The map when slot j has another size.
Resized(m, j, v) == [m EXCEPT !.slots[j].size = v]
\* The map with one slot replaced.
LEMMA ResizedIs ==
    ASSUME NEW m, MapOK(m), NEW l, l = m.slots, NEW j \in 1 .. Len(l), NEW v
    PROVE  Resized(m, j, v)
             = [slots |-> ReplaceAt(l, j, Slot(l[j].addr, v)), room |-> m.room]
<1>1. m = [slots |-> l, room |-> m.room] /\ Ordered(l)
  BY MapFacts
<1>2. PICK s : s = Slot(l[j].addr, v)
  OBVIOUS
<1>3. [l[j] EXCEPT !.size = v] = s
  <2>1. l[j] = [addr |-> l[j].addr, size |-> l[j].size]
    BY <1>1, SlotIs
  <2> QED BY <1>2, <2>1 DEF Slot
<1>4. PICK t : t = [l EXCEPT ![j] = s]
  OBVIOUS
<1>5. [m EXCEPT !.slots[j].size = v] = [slots |-> t, room |-> m.room]
  BY <1>1, <1>3, <1>4
<1> QED BY <1>2, <1>4, <1>5 DEF Resized, ReplaceAt

\* rmalloc of n units: the map stays ordered and loses just those units.
LEMMA ShortenIs ==
    ASSUME NEW m, MapOK(m), NEW l, l = m.slots, NEW j \in 1 .. Len(l),
           NEW n \in Nat \ {0}, l[j].size >= n, NEW q, q = Shorten(m, j, n)
    PROVE  /\ MapOK(q)
           /\ UnitsOf(q.slots) = Without(l, l[j].addr, n)
<1>1. /\ m = [slots |-> l, room |-> m.room] /\ m.room \in Nat
      /\ Len(l) \in Nat /\ Len(l) + m.room = mapslots /\ Ordered(l)
  BY MapFacts
<1>2. l[j].addr \in Int /\ l[j].size \in Nat \ {0}
  BY <1>1, SlotIs
<1>3. PICK b \in Int, c \in Nat \ {0} : b = l[j].addr /\ c = l[j].size
  BY <1>2
<1>4. /\ \A i \in 1 .. Len(l) : i < j => l[i].addr + l[i].size < b
      /\ \A i \in 1 .. Len(l) : j < i => b + c < l[i].addr
  BY <1>1, <1>3, SlotFacts
<1>5. Units(b, c) \subseteq UnitsOf(l)
  BY <1>1, <1>3, SlotUnits
<1>6. CASE c = n
  <2>1. q = [slots |-> RemoveAt(l, j), room |-> m.room + 1]
    BY <1>3, <1>6 DEF Shorten
  <2>2. /\ Ordered(RemoveAt(l, j)) /\ Len(RemoveAt(l, j)) = Len(l) - 1
        /\ UnitsOf(RemoveAt(l, j)) = UnitsOf(l) \ Units(b, c)
    BY <1>1, <1>3, RemovedSlot
  <2>3. MapOK(q)
    <3>1. m.room + 1 \in Nat /\ (Len(l) - 1) + (m.room + 1) = mapslots
      BY <1>1
    <3> QED BY <2>1, <2>2, <3>1, MapOf
  <2> QED BY <1>3, <1>6, <2>1, <2>2, <2>3 DEF Without
<1>7. CASE c # n
  <2>1. PICK k \in Nat \ {0} : k = c - n
    BY <1>3, <1>7
  <2>2. PICK d \in Int : d = b + n
    OBVIOUS
  <2>3. PICK r : r = ReplaceAt(l, j, Slot(d, k))
    OBVIOUS
  <2>4. q = [slots |-> r, room |-> m.room]
    BY <1>1, <1>3, <1>7, <2>1, <2>2, <2>3 DEF Shorten, ReplaceAt
  <2>5. ASSUME NEW i \in 1 .. Len(l), i < j
        PROVE  l[i].addr + l[i].size < d
    <3>1. l[i].addr + l[i].size \in Int
      BY <1>1, SlotIs
    <3>2. l[i].addr + l[i].size < b /\ b < d
      BY <1>4, <2>2, <2>5
    <3> QED BY <3>1, <3>2
  <2>6. ASSUME NEW i \in 1 .. Len(l), j < i
        PROVE  d + k < l[i].addr
    <3>1. d + k = b + c
      BY <2>1, <2>2
    <3> QED BY <1>4, <2>6, <3>1
  <2>7. /\ Ordered(r) /\ Len(r) = Len(l)
        /\ UnitsOf(r) = (UnitsOf(l) \ Units(b, c)) \cup Units(d, k)
    <3>1. Ordered(l)
      BY <1>1
    <3>2. Below(l, j, d) /\ Above(l, j + 1, d + k)
      BY <1>1, <2>5, <2>6 DEF Below, Above
    <3>3. Ordered(r) /\ UnitsOf(r) = Moved(l, j, d, k)
      BY <2>3, <3>1, <3>2, ReplacedSlot
    <3>4. UnitsOf(r) = (UnitsOf(l) \ Units(l[j].addr, l[j].size)) \cup Units(d, k)
      BY <3>3 DEF Moved
    <3>5. Len(r) = Len(l)
      BY <1>1, <2>3, ReplacedLen
    <3> QED BY <1>3, <3>4, <3>5, <3>3
  <2>8. Units(b, c) = Units(b, n) \cup Units(d, k) /\ Units(b, n) \cap Units(d, k) = {}
    <3>1. c = n + k
      BY <2>1
    <3>2. /\ Units(b, n + k) = Units(b, n) \cup Units(b + n, k)
          /\ Units(b, n) \cap Units(b + n, k) = {}
      BY UnitsSplit
    <3> QED BY <2>2, <3>1, <3>2
  <2>9. MapOK(q)
    BY <1>1, <2>4, <2>7, MapOf
  <2>10. UnitsOf(r) = UnitsOf(l) \ Units(b, n)
    BY <1>5, <2>7, <2>8
  <2> QED BY <1>3, <2>4, <2>9, <2>10 DEF Without
<1> QED BY <1>6, <1>7

\* rmfree's scan stops at the first slot whose address is above a.
LEMMA BehindIs ==
    ASSUME NEW m, MapOK(m), NEW a \in Int
    PROVE  /\ Behind(m, a) \in 1 .. Len(m.slots) + 1
           /\ \A k \in 1 .. Len(m.slots) : k < Behind(m, a) => m.slots[k].addr <= a
           /\ \A k \in 1 .. Len(m.slots) : Behind(m, a) <= k => m.slots[k].addr > a
<1> DEFINE l == m.slots
           I == {i \in 1 .. Len(l) : l[i].addr > a}
           Is(j) == /\ \A k \in 1 .. j - 1 : l[k].addr <= a
                    /\ j <= Len(l) => l[j].addr > a
<1>1. Ordered(l)
  BY DEF MapOK
<1>2. /\ Len(l) \in Nat
      /\ \A k \in 1 .. Len(l) : l[k].addr \in Int /\ l[k].size \in Nat
      /\ \A i, k \in 1 .. Len(l) : i < k => l[i].addr + l[i].size < l[k].addr
  BY <1>1, SlotFacts
<1>3. \E j \in 1 .. Len(l) + 1 : Is(j)
  <2>1. CASE I = {}
    <3>1. \A k \in 1 .. Len(l) : l[k].addr <= a
      BY <1>2, <2>1
    <3>2. Is(Len(l) + 1)
      BY <1>2, <3>1
    <3> QED BY <1>2, <3>2
  <2>2. CASE I # {}
    <3>1. I \subseteq 1 .. Len(l)
      OBVIOUS
    <3>2. Min(I) \in I /\ \A k \in 1 .. Len(l) : k < Min(I) => k \notin I
      <4> HIDE DEF I
      <4>1. I \subseteq Nat
        BY <1>2, <3>1
      <4>2. Min(I) \in I /\ \A k \in I : Min(I) <= k
        BY <2>2, <4>1, LeastIndex
      <4>3. ASSUME NEW k \in 1 .. Len(l), k < Min(I), k \in I
            PROVE  FALSE
        <5>1. Min(I) \in Nat /\ k \in Nat /\ Min(I) <= k
          BY <4>1, <4>2, <4>3
        <5> QED BY <4>3, <5>1
      <4> QED BY <4>2, <4>3
    <3>3. PICK j \in 1 .. Len(l) :
             l[j].addr > a /\ \A k \in 1 .. Len(l) : k < j => ~(l[k].addr > a)
      BY <3>2
    <3>4. ASSUME NEW k \in 1 .. j - 1
          PROVE  l[k].addr <= a
      <4>1. k \in 1 .. Len(l) /\ k < j
        BY <1>2
      <4>2. l[k].addr \in Int /\ ~(l[k].addr > a)
        BY <1>2, <3>3, <4>1
      <4> QED BY <4>2
    <3>5. Is(j)
      BY <3>3, <3>4
    <3> QED BY <1>2, <3>5
  <2> QED BY <2>1, <2>2
<1> DEFINE j == Behind(m, a)
<1>4. j \in 1 .. Len(l) + 1 /\ Is(j)
  BY <1>3 DEF Behind
<1> HIDE DEF j
<1>5. ASSUME NEW k \in 1 .. Len(l), k < j
      PROVE  l[k].addr <= a
  BY <1>2, <1>4, <1>5
<1>6. ASSUME NEW k \in 1 .. Len(l), j <= k
      PROVE  l[k].addr > a
  <2>1. j \in 1 .. Len(l) /\ l[j].addr > a
    BY <1>2, <1>4, <1>6
  <2>2. CASE j < k
    <3>1. l[j].addr + l[j].size < l[k].addr
      BY <1>2, <2>1, <2>2
    <3>2. l[j].addr \in Int /\ l[j].size \in Nat /\ l[k].addr \in Int
      BY <1>2, <2>1
    <3> QED BY <2>1, <3>1, <3>2
  <2> QED BY <1>4, <1>6, <2>1, <2>2
<1> QED BY <1>4, <1>5, <1>6 DEF j

\* An inserted slot is one more.
LEMMA InsertedLen ==
    ASSUME NEW l, Ordered(l), NEW j \in 1 .. Len(l) + 1, NEW b \in Int, NEW n \in Nat \ {0}
    PROVE  Len(InsertAt(l, j, Slot(b, n))) = Len(l) + 1
<1>1. l \in Seq(SlotSet)
  BY DEF Ordered
<1>2. PICK e \in SlotSet : e = Slot(b, n)
  BY DEF Slot, SlotSet
<1> QED BY <1>1, <1>2, InsertAtIs

\* A block that is not in the map lies between the slots before Behind and
\* those from it on.
LEMMA AroundBlock ==
    ASSUME NEW m, MapOK(m), NEW l, l = m.slots, NEW a \in Int, NEW n \in Nat \ {0},
           Units(a, n) \cap UnitsOf(l) = {}, NEW j, j = Behind(m, a)
    PROVE  /\ j \in 1 .. Len(l) + 1
           /\ \A k \in 1 .. Len(l) : k < j => l[k].addr + l[k].size <= a
           /\ \A k \in 1 .. Len(l) : j <= k => a + n <= l[k].addr
<1>1. Ordered(l) /\ l \in Seq(SlotSet)
  BY DEF MapOK
<1>2. /\ j \in 1 .. Len(l) + 1
      /\ \A k \in 1 .. Len(l) : k < j => l[k].addr <= a
      /\ \A k \in 1 .. Len(l) : j <= k => l[k].addr > a
  BY BehindIs
<1>3. a \in Units(a, n)
  BY DEF Units
<1>4. ASSUME NEW k \in 1 .. Len(l), k < j
      PROVE  l[k].addr + l[k].size <= a
  <2>1. l[k].addr + l[k].size \in Int /\ l[k].addr <= a
    BY <1>1, <1>2, <1>4, SlotIs
  <2>2. a \notin UnitsOf(l)
    BY <1>3
  <2>3. ~(a < l[k].addr + l[k].size)
    BY <1>1, <2>1, <2>2, InUnits
  <2> QED BY <2>1, <2>3
<1>5. ASSUME NEW k \in 1 .. Len(l), j <= k
      PROVE  a + n <= l[k].addr
  <2>1. l[k].addr \in Int /\ l[k].size \in Nat \ {0} /\ l[k].addr > a
    BY <1>1, <1>2, <1>5, SlotIs
  <2>2. l[k].addr \in UnitsOf(l)
    BY <1>1, <2>1, InUnits
  <2>3. l[k].addr \notin Units(a, n)
    BY <2>2
  <2> QED BY <2>1, <2>3 DEF Units
<1> QED BY <1>2, <1>4, <1>5

\* The two joins and the strict order that their absence leaves.
LEMMA JoinsAre ==
    ASSUME NEW m, MapOK(m), NEW l, l = m.slots, NEW a \in Int, NEW n \in Nat \ {0},
           Units(a, n) \cap UnitsOf(l) = {}, NEW j, j = Behind(m, a)
    PROVE  /\ JoinsBefore(m, a) <=> j > 1 /\ l[j - 1].addr + l[j - 1].size = a
           /\ JoinsBehind(m, n, a) <=> j <= Len(l) /\ a + n = l[j].addr
           /\ ~JoinsBefore(m, a) => Below(l, j, a)
           /\ Below(l, j - 1, a)
           /\ ~JoinsBehind(m, n, a) => Above(l, j, a + n)
           /\ Above(l, j + 1, a + n)
<1>1. Ordered(l) /\ Len(l) \in Nat
  BY MapFacts
<1>2. /\ j \in 1 .. Len(l) + 1
      /\ \A k \in 1 .. Len(l) : k < j => l[k].addr + l[k].size <= a
      /\ \A k \in 1 .. Len(l) : j <= k => a + n <= l[k].addr
  BY AroundBlock
<1>3. JoinsBefore(m, a) <=> j > 1 /\ l[j - 1].addr + l[j - 1].size = a
  BY DEF JoinsBefore, End
<1>4. JoinsBehind(m, n, a) <=> j <= Len(l) /\ a + n = l[j].addr
  BY DEF JoinsBehind
<1>5. ASSUME NEW k \in 1 .. Len(l), k < j - 1
      PROVE  l[k].addr + l[k].size < a
  <2>1. PICK i \in 1 .. Len(l) : i = j - 1
    BY <1>1, <1>2, <1>5
  <2>2. l[k].addr + l[k].size < l[i].addr
    BY <1>1, <1>5, <2>1, SlotFacts
  <2>3. l[i].addr + l[i].size <= a
    BY <1>2, <2>1
  <2>4. l[k].addr + l[k].size \in Int /\ l[i].addr \in Int /\ l[i].size \in Nat
    BY <1>1, SlotIs
  <2> QED BY <2>2, <2>3, <2>4
<1>6. ASSUME NEW k \in 1 .. Len(l), j < k
      PROVE  a + n < l[k].addr
  <2>1. j \in 1 .. Len(l)
    BY <1>1, <1>2, <1>6
  <2>2. l[j].addr + l[j].size < l[k].addr
    BY <1>1, <1>6, <2>1, SlotFacts
  <2>3. a + n <= l[j].addr
    BY <1>2, <2>1
  <2>4. /\ l[k].addr \in Int /\ l[j].addr \in Int /\ l[j].size \in Nat \ {0}
        /\ l[j].addr + l[j].size \in Int
    BY <1>1, <2>1, SlotIs
  <2>5. a + n < l[j].addr + l[j].size
    BY SMTT(30), <2>3, <2>4
  <2> QED BY <2>2, <2>4, <2>5
<1>7. ASSUME ~JoinsBefore(m, a), NEW k \in 1 .. Len(l), k < j
      PROVE  l[k].addr + l[k].size < a
  <2>1. l[k].addr + l[k].size \in Int /\ l[k].addr + l[k].size <= a
    BY <1>1, <1>2, <1>7, SlotIs
  <2>2. CASE k = j - 1
    <3>1. l[k].addr + l[k].size # a
      BY <1>2, <1>3, <1>7, <2>2
    <3> QED BY <2>1, <3>1
  <2>3. CASE k < j - 1
    BY <1>5, <2>3
  <2> QED BY <1>2, <1>7, <2>2, <2>3
<1>8. ASSUME ~JoinsBehind(m, n, a), NEW k \in 1 .. Len(l), j <= k
      PROVE  a + n < l[k].addr
  <2>1. l[k].addr \in Int /\ a + n <= l[k].addr
    BY <1>1, <1>2, <1>8, SlotIs
  <2>2. CASE k = j
    <3>1. l[k].addr # a + n
      BY <1>1, <1>2, <1>4, <1>8, <2>2
    <3> QED BY <2>1, <3>1
  <2>3. CASE j < k
    BY <1>6, <2>3
  <2> QED BY <1>2, <1>8, <2>2, <2>3
<1>9. Below(l, j - 1, a) /\ (~JoinsBefore(m, a) => Below(l, j, a))
  BY <1>5, <1>7 DEF Below
<1>10. Above(l, j + 1, a + n) /\ (~JoinsBehind(m, n, a) => Above(l, j, a + n))
  <2>1. ASSUME NEW k \in 1 .. Len(l), j + 1 <= k
        PROVE  j < k
    BY <1>2, <2>1
  <2> QED BY <1>6, <1>8, <2>1 DEF Above
<1> QED BY <1>3, <1>4, <1>9, <1>10

\* rmfree: what the map becomes.
LEMMA RmfreeIs ==
    ASSUME NEW m, MapOK(m), NEW l, l = m.slots, NEW a \in Int, NEW n \in Nat \ {0},
           Units(a, n) \cap UnitsOf(l) = {}, NEW q, q = Rmfree(m, n, a)
    PROVE  /\ MapOK(q)
           /\ Overflows(m, n, a) => q = m
           /\ ~Overflows(m, n, a) => UnitsOf(q.slots) = With(l, a, n)
<1> DEFINE before == JoinsBefore(m, a)
           behind == JoinsBehind(m, n, a)
<1>1. /\ m = [slots |-> l, room |-> m.room] /\ m.room \in Nat
      /\ Len(l) \in Nat /\ Len(l) + m.room = mapslots /\ Ordered(l)
  BY MapFacts
<1>2. PICK j : j = Behind(m, a)
  OBVIOUS
<1>3. j \in 1 .. Len(l) + 1
  BY <1>2, AroundBlock
<1>4. /\ before <=> j > 1 /\ l[j - 1].addr + l[j - 1].size = a
      /\ behind <=> j <= Len(l) /\ a + n = l[j].addr
      /\ ~before => Below(l, j, a)
      /\ Below(l, j - 1, a)
      /\ ~behind => Above(l, j, a + n)
      /\ Above(l, j + 1, a + n)
  BY <1>2, JoinsAre
<1> HIDE DEF before, behind
<1>5. CASE before /\ behind
  <2>1. PICK i \in 1 .. Len(l) : i = j - 1
    BY <1>1, <1>3, <1>4, <1>5
  <2>2. j \in 1 .. Len(l)
    BY <1>1, <1>3, <1>4, <1>5
  <2>3. PICK b \in Int, c \in Nat \ {0} : b = l[i].addr /\ c = l[i].size
    <3>1. l[i].addr \in Int /\ l[i].size \in Nat \ {0}
      BY <1>1, SlotIs
    <3> QED BY <3>1
  <2>4. PICK d \in Nat \ {0} : d = l[j].size
    <3>1. l[j].size \in Nat \ {0}
      BY <1>1, <2>2, SlotIs
    <3> QED BY <3>1
  <2>5. b + c = a /\ a + n = l[j].addr
    BY <1>4, <1>5, <2>1, <2>3
  <2>6. PICK s \in Nat \ {0} : s = c + n + d
    OBVIOUS
  <2>7. PICK r : r = RemoveAt(l, j)
    OBVIOUS
  <2>8. /\ Ordered(r) /\ Len(r) = Len(l) - 1
        /\ UnitsOf(r) = UnitsOf(l) \ Units(l[j].addr, l[j].size)
    BY <1>1, <2>2, <2>7, RemovedSlot
  <2>9. \A k \in 1 .. Len(l) - 1 : r[k] = IF k < j THEN l[k] ELSE l[k + 1]
    <3>1. l \in Seq(SlotSet)
      BY <1>1 DEF Ordered
    <3> QED BY <2>2, <2>7, <3>1, RemoveAtIs
  <2>10. i \in 1 .. Len(r) /\ r[i] = l[i]
    BY SMTT(30), <1>1, <2>1, <2>2, <2>8, <2>9
  <2>11. PICK t : t = ReplaceAt(r, i, Slot(b, s))
    OBVIOUS
  <2>12. q = [slots |-> t, room |-> m.room + 1]
    <3>1. PICK u : u = ReplaceAt(l, i, Slot(b, s))
      OBVIOUS
    <3>2. q = [slots |-> RemoveAt(u, j), room |-> m.room + 1]
      <4>1. l[i] = [addr |-> b, size |-> c]
        BY <1>1, <2>3, SlotIs
      <4>2. [l[i] EXCEPT !.size = @ + n + l[j].size] = Slot(b, s)
        BY <2>4, <2>6, <4>1 DEF Slot
      <4>3. [m.slots EXCEPT ![j - 1].size = @ + n + m.slots[j].size] = u
        BY <2>1, <3>1, <4>2 DEF ReplaceAt
      <4> QED BY <1>2, <1>5, <4>3 DEF Rmfree, before, behind
    <3>3. RemoveAt(u, j) = t
      <4>1. l \in Seq(SlotSet) /\ r \in Seq(SlotSet) /\ Slot(b, s) \in SlotSet
        BY <1>1, <2>8 DEF Ordered, Slot, SlotSet
      <4>2. /\ u \in Seq(SlotSet) /\ Len(u) = Len(l)
            /\ \A k \in 1 .. Len(l) : u[k] = IF k = i THEN Slot(b, s) ELSE l[k]
        BY <3>1, <4>1, ExceptElement DEF ReplaceAt
      <4>3. /\ t \in Seq(SlotSet) /\ Len(t) = Len(r)
            /\ \A k \in 1 .. Len(r) : t[k] = IF k = i THEN Slot(b, s) ELSE r[k]
        BY <2>10, <2>11, <4>1, ExceptElement DEF ReplaceAt
      <4>4. PICK v : v = RemoveAt(u, j)
        OBVIOUS
      <4>5. j \in 1 .. Len(u)
        BY <2>2, <4>2
      <4>6. /\ v \in Seq(SlotSet) /\ Len(v) = Len(u) - 1
            /\ \A k \in 1 .. Len(u) - 1 : v[k] = IF k < j THEN u[k] ELSE u[k + 1]
        BY <4>2, <4>4, <4>5, RemoveAtIs
      <4>7. Len(v) = Len(t)
        BY <2>8, <4>2, <4>3, <4>6
      <4>8. ASSUME NEW k \in 1 .. Len(v)
            PROVE  v[k] = t[k]
        <5>1. k \in 1 .. Len(l) - 1 /\ k \in 1 .. Len(r) /\ k \in 1 .. Len(l)
          BY <1>1, <2>8, <4>2, <4>6
        <5>2. CASE k < j
          BY <2>9, <4>2, <4>3, <4>6, <5>1, <5>2
        <5>3. CASE k >= j
          <6>1. k # i /\ k + 1 # i /\ k + 1 \in 1 .. Len(l) /\ ~(k < j)
            BY SMTT(30), <1>1, <2>1, <2>2, <5>1, <5>3
          <6>2. k \in 1 .. Len(u) - 1
            BY <4>2, <5>1
          <6>3. v[k] = u[k + 1]
            BY <4>6, <6>1, <6>2
          <6>4. u[k + 1] = l[k + 1]
            BY <4>2, <6>1
          <6>5. t[k] = r[k]
            BY <4>3, <5>1, <6>1
          <6>6. r[k] = l[k + 1]
            BY <2>9, <5>1, <6>1
          <6> QED BY <6>3, <6>4, <6>5, <6>6
        <5> QED BY <2>2, <5>2, <5>3
      <4> QED BY <4>3, <4>4, <4>6, <4>7, <4>8, SeqEqual
    <3> QED BY <3>2, <3>3
  <2>13. Ordered(t) /\ UnitsOf(t) = Moved(r, i, b, s)
    <3>1. Ordered(r)
      BY <2>8
    <3>2. ASSUME NEW k \in 1 .. Len(r), k < i
          PROVE  r[k].addr + r[k].size < b
      <4>1. r[i].addr = b
        BY <2>3, <2>10
      <4> QED BY <2>10, <3>1, <3>2, <4>1, SlotFacts
    <3>3. ASSUME NEW k \in 1 .. Len(r), i + 1 <= k
          PROVE  b + s < r[k].addr
      <4>1. k \in 1 .. Len(l) - 1 /\ k + 1 \in 1 .. Len(l) /\ ~(k < j) /\ j < k + 1
        BY SMTT(30), <1>1, <2>1, <2>2, <2>8, <3>3
      <4>2. r[k] = l[k + 1]
        BY <2>9, <4>1
      <4>3. l[j].addr + l[j].size < l[k + 1].addr
        BY <1>1, <2>2, <4>1, SlotFacts
      <4>4. b + s = (a + n) + d
        BY <2>5, <2>6
      <4>5. l[j].addr + l[j].size = b + s
        BY <2>4, <2>5, <4>4
      <4> QED BY <4>2, <4>3, <4>5
    <3>4. Below(r, i, b) /\ Above(r, i + 1, b + s)
      BY <3>2, <3>3 DEF Below, Above
    <3> QED BY <2>10, <2>11, <3>1, <3>4, ReplacedSlot
  <2>14. UnitsOf(t) = With(l, a, n)
    <3>1. Units(b, c) \subseteq UnitsOf(l) /\ Units(l[j].addr, l[j].size) \subseteq UnitsOf(l)
      BY <1>1, <2>2, <2>3, SlotUnits
    <3>2. Units(b, s) = Units(b, c) \cup Units(a, n) \cup Units(a + n, d)
      <4>1. b \in Int /\ c \in Nat /\ n \in Nat /\ d \in Nat /\ s = c + n + d /\ a = b + c
        BY <2>5, <2>6
      <4> QED BY <4>1 DEF Units
    <3> QED BY <2>3, <2>4, <2>5, <2>8, <2>10, <2>13, <3>1, <3>2 DEF Moved, With
  <2>15. MapOK(q)
    <3>1. Len(t) = Len(l) - 1
      BY <2>8, <2>11, ReplacedLen
    <3>2. Len(t) + (m.room + 1) = mapslots /\ m.room + 1 \in Nat
      <4>1. m.room + 1 \in Nat /\ (Len(l) - 1) + (m.room + 1) = mapslots
        BY <1>1
      <4> QED BY <3>1, <4>1
    <3> QED BY <2>12, <2>13, <3>2, MapOf
  <2>16. ~Overflows(m, n, a)
    BY <1>5 DEF Overflows, before
  <2> QED BY <2>12, <2>14, <2>15, <2>16
<1>6. CASE before /\ ~behind
  <2>1. PICK i \in 1 .. Len(l) : i = j - 1
    BY <1>1, <1>3, <1>4, <1>6
  <2>2. PICK b \in Int, c \in Nat \ {0} : b = l[i].addr /\ c = l[i].size
    <3>1. l[i].addr \in Int /\ l[i].size \in Nat \ {0}
      BY <1>1, SlotIs
    <3> QED BY <3>1
  <2>3. PICK s \in Nat \ {0} : s = c + n
    OBVIOUS
  <2>4. b + c = a /\ b + s = a + n
    <3>1. l[j - 1].addr + l[j - 1].size = a
      BY <1>4, <1>6
    <3>2. b + c = a
      BY <2>1, <2>2, <3>1
    <3> QED BY <2>3, <3>2
  <2>5. PICK t : t = ReplaceAt(l, i, Slot(b, s))
    OBVIOUS
  <2>6. q = [slots |-> t, room |-> m.room]
    <3>1. q = Resized(m, i, m.slots[i].size + n)
      BY <1>2, <1>6, <2>1 DEF Rmfree, Resized, before, behind
    <3>2. PICK v : v = m.slots[i].size + n
      OBVIOUS
    <3>3. v = s
      BY <2>2, <2>3, <3>2
    <3>4. q = [slots |-> ReplaceAt(l, i, Slot(l[i].addr, v)), room |-> m.room]
      BY <3>1, <3>2, ResizedIs
    <3> QED BY <2>2, <2>5, <3>3, <3>4
  <2>7. Ordered(t) /\ UnitsOf(t) = Moved(l, i, b, s)
    <3>1. Ordered(l)
      BY <1>1
    <3>2. ASSUME NEW k \in 1 .. Len(l), k < i
          PROVE  l[k].addr + l[k].size < b
      BY <2>2, <3>1, <3>2, SlotFacts
    <3>3. i + 1 = j
      BY <1>3, <2>1
    <3>4. Below(l, i, b) /\ Above(l, i + 1, b + s)
      BY <1>4, <1>6, <2>4, <3>2, <3>3 DEF Below
    <3> QED BY <2>5, <3>1, <3>4, ReplacedSlot
  <2>8. UnitsOf(t) = With(l, a, n)
    <3>1. Units(b, c) \subseteq UnitsOf(l)
      BY <1>1, <2>2, SlotUnits
    <3>2. Units(b, s) = Units(b, c) \cup Units(a, n)
      BY <2>3, <2>4 DEF Units
    <3> QED BY <2>2, <2>7, <3>1, <3>2 DEF Moved, With
  <2>9. MapOK(q)
    <3>1. Len(t) = Len(l)
      BY <1>1, <2>5, ReplacedLen
    <3> QED BY <1>1, <2>6, <2>7, <3>1, MapOf
  <2>10. ~Overflows(m, n, a)
    BY <1>6 DEF Overflows, before
  <2> QED BY <2>6, <2>8, <2>9, <2>10
<1>7. CASE ~before /\ behind
  <2>1. j \in 1 .. Len(l)
    BY <1>1, <1>3, <1>4, <1>7
  <2>2. PICK d \in Nat \ {0} : d = l[j].size
    <3>1. l[j].size \in Nat \ {0}
      BY <1>1, <2>1, SlotIs
    <3> QED BY <3>1
  <2>3. PICK s \in Nat \ {0} : s = n + d
    OBVIOUS
  <2>4. a + n = l[j].addr
    BY <1>4, <1>7
  <2>5. PICK t : t = ReplaceAt(l, j, Slot(a, s))
    OBVIOUS
  <2>6. q = [slots |-> t, room |-> m.room]
    <3>1. q = [m EXCEPT !.slots[j] = Slot(a, n + @.size)]
      BY <1>2, <1>7 DEF Rmfree, before, behind
    <3> QED BY <1>1, <2>1, <2>2, <2>3, <2>5, <3>1 DEF ReplaceAt
  <2>7. Ordered(t) /\ UnitsOf(t) = Moved(l, j, a, s)
    <3>1. Ordered(l)
      BY <1>1
    <3>2. ASSUME NEW k \in 1 .. Len(l), j < k
          PROVE  a + s < l[k].addr
      <4>1. l[j].addr + l[j].size < l[k].addr
        BY <2>1, <3>1, <3>2, SlotFacts
      <4>2. l[j].addr + l[j].size = a + s
        BY <2>2, <2>3, <2>4
      <4> QED BY <4>1, <4>2
    <3>3. Below(l, j, a) /\ Above(l, j + 1, a + s)
      BY <1>4, <1>7, <2>1, <3>2 DEF Above
    <3> QED BY <2>1, <2>5, <3>1, <3>3, ReplacedSlot
  <2>8. UnitsOf(t) = With(l, a, n)
    <3>1. Units(l[j].addr, l[j].size) \subseteq UnitsOf(l)
      BY <1>1, <2>1, SlotUnits
    <3>2. Units(a, s) = Units(a, n) \cup Units(a + n, d)
      BY <2>3 DEF Units
    <3> QED BY <2>2, <2>3, <2>4, <2>7, <3>1, <3>2 DEF Moved, With
  <2>9. MapOK(q)
    <3>1. Len(t) = Len(l)
      BY <1>1, <2>5, ReplacedLen
    <3> QED BY <1>1, <2>6, <2>7, <3>1, MapOf
  <2>10. ~Overflows(m, n, a)
    BY <1>7 DEF Overflows, behind
  <2> QED BY <2>6, <2>8, <2>9, <2>10
<1>8. CASE ~before /\ ~behind /\ m.room = 0
  <2>1. Overflows(m, n, a)
    BY <1>8 DEF Overflows, before, behind
  <2>2. q = m
    BY <1>8, <2>1 DEF Rmfree, before, behind
  <2> QED BY <2>1, <2>2
<1>9. CASE ~before /\ ~behind /\ m.room # 0
  <2>1. ~Overflows(m, n, a)
    BY <1>9 DEF Overflows
  <2>2. PICK t : t = InsertAt(l, j, Slot(a, n))
    OBVIOUS
  <2>3. q = [slots |-> t, room |-> m.room - 1]
    BY <1>2, <1>9, <2>1, <2>2 DEF Rmfree, before, behind
  <2>4. Ordered(t) /\ UnitsOf(t) = With(l, a, n)
    <3>1. Ordered(l)
      BY <1>1
    <3>2. Below(l, j, a) /\ Above(l, j, a + n)
      BY <1>4, <1>9
    <3> QED BY <1>3, <2>2, <3>1, <3>2, InsertedSlot
  <2>5. MapOK(q)
    <3>1. Len(t) = Len(l) + 1
      BY <1>1, <1>3, <2>2, InsertedLen
    <3>2. Len(t) + (m.room - 1) = mapslots /\ m.room - 1 \in Nat
      BY <1>1, <1>9, <3>1
    <3> QED BY <2>3, <2>4, <3>2, MapOf
  <2> QED BY <2>1, <2>3, <2>4, <2>5
<1> QED BY <1>5, <1>6, <1>7, <1>8, <1>9

\* The unit before a block in the map is the last one of the slot it joins.
LEMMA JoinsIfBefore ==
    ASSUME NEW m, MapOK(m), NEW l, l = m.slots, NEW a \in Int, NEW n \in Nat \ {0},
           Units(a, n) \cap UnitsOf(l) = {}, a - 1 \in UnitsOf(l)
    PROVE  ~Overflows(m, n, a)
<1>1. Ordered(l) /\ l \in Seq(SlotSet) /\ Len(l) \in Nat
  BY MapFacts DEF Ordered
<1>2. PICK j : j = Behind(m, a)
  OBVIOUS
<1>3. PICK k \in 1 .. Len(l) : l[k].addr <= a - 1 /\ a - 1 < l[k].addr + l[k].size
  BY <1>1, InUnits
<1>4. l[k].addr \in Int /\ l[k].size \in Nat /\ l[k].addr + l[k].size \in Int
  BY <1>1, SlotIs
<1>5. l[k].addr + l[k].size = a
  <2>1. a \notin UnitsOf(l)
    BY DEF Units
  <2>2. l[k].addr <= a
    BY <1>3, <1>4
  <2>3. ~(a < l[k].addr + l[k].size)
    BY <1>1, <2>1, <2>2, InUnits
  <2> QED BY <1>3, <1>4, <2>3
<1>6. /\ j \in 1 .. Len(l) + 1
      /\ \A i \in 1 .. Len(l) : j <= i => a + n <= l[i].addr
  BY <1>2, AroundBlock
<1>7. Below(l, j - 1, a) /\ (JoinsBefore(m, a) <=> j > 1 /\ l[j - 1].addr + l[j - 1].size = a)
  BY <1>2, JoinsAre
<1>8. ~(j <= k)
  BY <1>3, <1>4, <1>6
<1>9. ~(k < j - 1)
  BY <1>5, <1>4, <1>7 DEF Below
<1>10. k = j - 1 /\ j > 1
  BY <1>1, <1>6, <1>8, <1>9
<1> QED BY <1>5, <1>7, <1>10 DEF Overflows

\* A block that touches no slot joins none.
LEMMA JoinsNone ==
    ASSUME NEW m, MapOK(m), NEW l, l = m.slots, NEW a \in Int, NEW n \in Nat \ {0},
           Units(a, n) \cap UnitsOf(l) = {}, a - 1 \notin UnitsOf(l), a + n \notin UnitsOf(l)
    PROVE  Overflows(m, n, a) <=> m.room = 0
<1>1. Ordered(l) /\ l \in Seq(SlotSet) /\ Len(l) \in Nat
  BY MapFacts DEF Ordered
<1>2. PICK j : j = Behind(m, a)
  OBVIOUS
<1>3. j \in 1 .. Len(l) + 1
  BY <1>2, AroundBlock
<1>4. /\ JoinsBefore(m, a) <=> j > 1 /\ l[j - 1].addr + l[j - 1].size = a
      /\ JoinsBehind(m, n, a) <=> j <= Len(l) /\ a + n = l[j].addr
  BY <1>2 DEF JoinsBefore, JoinsBehind, End
<1>5. ~JoinsBefore(m, a)
  <2> SUFFICES ASSUME j > 1, l[j - 1].addr + l[j - 1].size = a
               PROVE  FALSE
    BY <1>4
  <2>1. PICK k \in 1 .. Len(l) : k = j - 1
    BY <1>1, <1>3
  <2>2. l[k].addr \in Int /\ l[k].size \in Nat \ {0} /\ l[k].addr + l[k].size = a
    BY <1>1, <2>1, SlotIs
  <2>3. l[k].addr <= a - 1 /\ a - 1 < l[k].addr + l[k].size
    BY SMTT(30), <2>2
  <2> QED BY <1>1, <2>3, InUnits
<1>6. ~JoinsBehind(m, n, a)
  <2> SUFFICES ASSUME j <= Len(l), a + n = l[j].addr
               PROVE  FALSE
    BY <1>4
  <2>1. j \in 1 .. Len(l)
    BY <1>1, <1>3
  <2>2. l[j].addr \in Int /\ l[j].size \in Nat \ {0}
    BY <1>1, <2>1, SlotIs
  <2>3. l[j].addr <= a + n /\ a + n < l[j].addr + l[j].size
    BY <2>2
  <2> QED BY <1>1, <2>1, <2>3, InUnits
<1> QED BY <1>5, <1>6 DEF Overflows

\* The runs of free units are as many as the slots.
LEMMA StartsAre ==
    ASSUME NEW l, Ordered(l)
    PROVE  Cardinality(Starts(UnitsOf(l))) = Len(l)
<1> DEFINE N == Len(l)
           T == Starts(UnitsOf(l))
           f == [i \in 1 .. N |-> l[i].addr]
<1>1. l \in Seq(SlotSet) /\ N \in Nat
  BY SlotFacts DEF Ordered
<1>2. ASSUME NEW i \in 1 .. N PROVE l[i].addr \in T
  <2>1. l[i].addr \in Int /\ l[i].size \in Nat \ {0}
    BY SlotIs
  <2>2. l[i].addr \in UnitsOf(l)
    BY <1>1, <2>1, InUnits
  <2> QED BY <2>2, GapsAround DEF Starts
<1>3. ASSUME NEW x \in T PROVE \E i \in 1 .. N : x = l[i].addr
  <2>1. x \in UnitsOf(l) /\ x - 1 \notin UnitsOf(l)
    BY DEF Starts
  <2>2. PICK i \in 1 .. N : x \in Int /\ l[i].addr <= x /\ x < l[i].addr + l[i].size
    BY <1>1, <2>1, InUnits
  <2>3. l[i].addr \in Int /\ l[i].size \in Nat
    BY SlotIs
  <2>4. ~(l[i].addr <= x - 1)
    <3>1. l[i].addr <= x - 1 => x - 1 < l[i].addr + l[i].size
      BY <2>2, <2>3
    <3> QED BY <1>1, <2>1, <2>2, <3>1, InUnits
  <2> QED BY <2>2, <2>3, <2>4
<1>4. ASSUME NEW i \in 1 .. N, NEW j \in 1 .. N, i < j PROVE l[i].addr # l[j].addr
  <2>1. /\ l[i].addr \in Int /\ l[i].size \in Nat /\ l[j].addr \in Int
        /\ l[i].addr + l[i].size < l[j].addr
    BY <1>4, SlotFacts
  <2> QED BY <2>1
<1>5. \A i, j \in 1 .. N : l[i].addr = l[j].addr => i = j
  BY <1>1, <1>4
<1> HIDE DEF T, N
<1>6. f \in Bijection(1 .. N, T)
  <2>1. f \in [1 .. N -> T] /\ \A i, j \in 1 .. N : f[i] = f[j] => i = j
    BY <1>2, <1>5
  <2>2. \A x \in T : \E i \in 1 .. N : f[i] = x
    BY <1>3
  <2> QED BY <2>1, <2>2 DEF Bijection, Injection, IsInjective, Surjection
<1>7. IsFiniteSet(1 .. N) /\ Cardinality(1 .. N) = N
  BY <1>1, FS_Interval
<1>8. ExistsBijection(1 .. N, T)
  BY <1>6 DEF ExistsBijection
<1>9. Cardinality(T) = N
  BY <1>7, <1>8, FS_Bijection
<1> QED BY <1>9 DEF T, N

\* A block that overflows the map would need one run more than there are slots.
LEMMA OverflowRuns ==
    ASSUME NEW m, MapOK(m), NEW l, l = m.slots, NEW a \in Int, NEW n \in Nat \ {0},
           Units(a, n) \cap UnitsOf(l) = {}, Overflows(m, n, a)
    PROVE  Cardinality(Starts(With(l, a, n))) > mapslots
<1>1. PICK j : j = Behind(m, a)
  OBVIOUS
<1>2. /\ Ordered(l) /\ Len(l) \in Nat /\ Len(l) + m.room = mapslots /\ m.room = 0
      /\ ~JoinsBefore(m, a) /\ ~JoinsBehind(m, n, a)
  BY MapFacts DEF Overflows
<1>3. j \in 1 .. Len(l) + 1
  BY <1>1, AroundBlock
<1>4. Below(l, j, a) /\ Above(l, j, a + n)
  BY <1>1, <1>2, JoinsAre
<1>5. PICK q : q = InsertAt(l, j, Slot(a, n))
  OBVIOUS
<1>6. Ordered(q) /\ UnitsOf(q) = With(l, a, n)
  <2>1. a \in Int /\ n \in Nat \ {0} /\ Ordered(l)
    BY <1>2
  <2> QED BY ONLY <1>3, <1>4, <1>5, <2>1, InsertedSlot
<1>7. Len(q) = Len(l) + 1
  BY <1>2, <1>3, <1>5, InsertedLen
<1>8. Cardinality(Starts(UnitsOf(q))) = Len(q)
  BY <1>6, StartsAre
<1> QED BY <1>2, <1>6, <1>7, <1>8

\* The runs of the map are within its slots.
LEMMA MapRuns ==
    ASSUME NEW m, MapOK(m)
    PROVE  ~(Cardinality(Starts(UnitsOf(m.slots))) > mapslots)
<1>1. /\ Ordered(m.slots) /\ Len(m.slots) \in Nat /\ m.room \in Nat
      /\ Len(m.slots) + m.room = mapslots
  BY MapFacts
<1>2. Cardinality(Starts(UnitsOf(m.slots))) = Len(m.slots)
  BY <1>1, StartsAre
<1> QED BY <1>1, <1>2

\* rmfree in the set of units.
LEMMA RmfreeReleases ==
    ASSUME NEW m, MapOK(m), NEW a \in Int, NEW n \in Nat \ {0},
           Units(a, n) \cap UnitsOf(m.slots) = {}, NEW q, q = Rmfree(m, n, a)
    PROVE  UnitsOf(q.slots) = Release(UnitsOf(m.slots), n, a, mapslots)
<1> DEFINE joined == With(m.slots, a, n)
<1>1. /\ MapOK(q)
      /\ Overflows(m, n, a) => q = m
      /\ ~Overflows(m, n, a) => UnitsOf(q.slots) = joined
  BY RmfreeIs
<1>2. Release(UnitsOf(m.slots), n, a, mapslots)
        = IF Cardinality(Starts(joined)) > mapslots THEN UnitsOf(m.slots) ELSE joined
  BY DEF Release, With
<1>3. Overflows(m, n, a) => Cardinality(Starts(joined)) > mapslots
  BY OverflowRuns
<1>4. ~Overflows(m, n, a) => ~(Cardinality(Starts(joined)) > mapslots)
  BY <1>1, MapRuns
<1> QED BY <1>1, <1>2, <1>3, <1>4

\* The boundary at or above an address.
LEMMA AlignUpIs ==
    ASSUME NEW a \in Int
    PROVE  AlignUp(a) \in Int /\ AlignUp(a) >= a /\ AlignUp(a) % npgpt = 0
BY MapAssumption DEF AlignUp

\* ptmalloc takes the first slot that is long enough from its first boundary on.
LEMMA PtmallocSlotIs ==
    ASSUME NEW m, MapOK(m), NEW n, NEW j, j = PtmallocSlot(m, n)
    PROVE  \/ j = 0 /\ \A k \in 1 .. Len(m.slots) : ~(m.slots[k].size >= Gap(m.slots[k]) + n)
           \/ /\ j \in 1 .. Len(m.slots) /\ m.slots[j].size >= Gap(m.slots[j]) + n
              /\ \A k \in 1 .. Len(m.slots) :
                   k < j => ~(m.slots[k].size >= Gap(m.slots[k]) + n)
<1> DEFINE I == {i \in 1 .. Len(m.slots) : m.slots[i].size >= Gap(m.slots[i]) + n}
<1>1. j = IF I # {} THEN Min(I) ELSE 0
  BY DEF PtmallocSlot, SelectInSeq
<1>2. Ordered(m.slots)
  BY DEF MapOK
<1>3. \/ j = 0 /\ I = {}
      \/ j \in I /\ \A k \in 1 .. Len(m.slots) : k < j => k \notin I
  <2> HIDE DEF I
  <2>1. I \subseteq 1 .. Len(m.slots)
    BY DEF I
  <2> QED BY <1>1, <1>2, <2>1, LeastIn
<1> QED BY <1>3

\* The units before the block and behind it in the slot that ptmalloc takes.
LEMMA PtmallocParts ==
    ASSUME NEW l, Ordered(l), NEW j \in 1 .. Len(l), NEW n \in Nat \ {0},
           l[j].size >= Gap(l[j]) + n
    PROVE  /\ AlignUp(l[j].addr) \in Int /\ Gap(l[j]) \in Nat /\ Rear(l[j], n) \in Nat
           /\ AlignUp(l[j].addr) = l[j].addr + Gap(l[j])
           /\ l[j].addr + l[j].size = AlignUp(l[j].addr) + (n + Rear(l[j], n))
<1>1. PICK b \in Int, c \in Nat \ {0} : b = l[j].addr /\ c = l[j].size
  <2>1. l[j].addr \in Int /\ l[j].size \in Nat \ {0}
    BY SlotIs
  <2> QED BY <2>1
<1>2. AlignUp(b) \in Int /\ AlignUp(b) >= b
  BY AlignUpIs
<1>3. PICK g \in Nat : g = AlignUp(b) - b
  BY <1>2
<1>4. g = Gap(l[j]) /\ Rear(l[j], n) = c - n - g
  BY <1>1, <1>3 DEF Gap, Rear
<1>5. PICK r \in Nat : r = c - n - g
  <2>1. c >= g + n
    BY <1>1, <1>4
  <2> QED BY <2>1
<1>6. AlignUp(b) = b + g /\ b + c = (b + g) + (n + r)
  BY SMTT(30), <1>2, <1>3, <1>5
<1> QED BY <1>1, <1>2, <1>4, <1>5, <1>6

\* ptmalloc loses the units behind the block when the array is full.
TailLost(m, j, n) == Gap(m.slots[j]) > 0 /\ Rear(m.slots[j], n) > 0 /\ m.room = 0

\* The map when the slot that ptmalloc takes keeps what is before the block.
Shrunk(m, j) == Resized(m, j, Gap(m.slots[j]))
\* The same, as a map of a replaced slot.
LEMMA ShrunkIs ==
    ASSUME NEW m, MapOK(m), NEW l, l = m.slots, NEW j \in 1 .. Len(l)
    PROVE  Shrunk(m, j)
             = [slots |-> ReplaceAt(l, j, Slot(l[j].addr, Gap(l[j]))), room |-> m.room]
BY ResizedIs DEF Shrunk

\* ptmalloc: what the map becomes.
LEMMA PtmallocIs ==
    ASSUME NEW m, MapOK(m), NEW l, l = m.slots, NEW j \in 1 .. Len(l), NEW n \in Nat \ {0},
           l[j].size >= Gap(l[j]) + n, NEW q, q = Ptmalloc(m, j, n)
    PROVE  /\ MapOK(q)
           /\ Gap(l[j]) = 0 => q.room >= m.room
           /\ TailLost(m, j, n) =>
                UnitsOf(q.slots) = Without(l, AlignUp(l[j].addr), n + Rear(l[j], n))
           /\ ~TailLost(m, j, n) => UnitsOf(q.slots) = Without(l, AlignUp(l[j].addr), n)
           /\ TailLost(m, j, n) =>
                Cardinality(Starts(Without(l, AlignUp(l[j].addr), n))) > mapslots
<1>1. PICK a \in Int, g \in Nat, r \in Nat :
         a = AlignUp(l[j].addr) /\ g = Gap(l[j]) /\ r = Rear(l[j], n)
  <2>1. AlignUp(l[j].addr) \in Int /\ Gap(l[j]) \in Nat /\ Rear(l[j], n) \in Nat
    BY MapFacts, PtmallocParts
  <2> QED BY <2>1
<1>2. /\ m = [slots |-> l, room |-> m.room] /\ m.room \in Nat
      /\ Len(l) \in Nat /\ Len(l) + m.room = mapslots /\ Ordered(l)
  BY MapFacts
<1>3. PICK b \in Int, c \in Nat \ {0} : b = l[j].addr /\ c = l[j].size
  <2>1. l[j].addr \in Int /\ l[j].size \in Nat \ {0}
    BY <1>2, SlotIs
  <2> QED BY <2>1
<1>4. a = b + g /\ b + c = a + (n + r)
  BY <1>1, <1>2, <1>3, PtmallocParts
<1>5. c = g + (n + r)
  BY <1>4
<1>6. TailLost(m, j, n) <=> g > 0 /\ r > 0 /\ m.room = 0
  BY <1>1 DEF TailLost
<1>7. Units(b, c) \subseteq UnitsOf(l)
  BY <1>2, <1>3, SlotUnits
<1>8. PICK k \in Nat : k = n + r
  OBVIOUS
<1>9. Units(b, c) = Units(b, g) \cup Units(a, k) /\ Units(b, g) \cap Units(a, k) = {}
  BY <1>4, <1>5, <1>8 DEF Units
<1>10. CASE g = 0
  <2>1. q = Shorten(m, j, n)
    BY <1>1, <1>10 DEF Ptmalloc
  <2>2. l[j].size >= n
    <3>1. c >= n
      BY <1>5, <1>10
    <3> QED BY <1>3, <3>1
  <2>3. a = b
    BY <1>4, <1>10
  <2>4. MapOK(q)
    BY <2>1, <2>2, ShortenIs
  <2>5. UnitsOf(q.slots) = Without(l, l[j].addr, n)
    BY <2>1, <2>2, ShortenIs
  <2>6. q.room >= m.room
    <3>1. CASE l[j].size = n
      <4>1. q = [slots |-> RemoveAt(l, j), room |-> m.room + 1]
        BY <2>1, <3>1 DEF Shorten
      <4> QED BY <1>2, <4>1
    <3>2. CASE l[j].size # n
      <4>1. q.room = m.room
        BY <1>2, <2>1, <3>2 DEF Shorten
      <4> QED BY <1>2, <4>1
    <3> QED BY <3>1, <3>2
  <2> QED BY <1>1, <1>3, <1>10, <1>6, <2>3, <2>4, <2>5, <2>6
<1>11. CASE g # 0
  <2>1. PICK t : t = ReplaceAt(l, j, Slot(b, g))
    OBVIOUS
  <2>2. PICK s : s = [slots |-> t, room |-> m.room]
    OBVIOUS
  <2>3. Shrunk(m, j) = s
    BY <1>1, <1>3, <2>1, <2>2, ShrunkIs
  <2>4. Ordered(t) /\ UnitsOf(t) = Moved(l, j, b, g)
    <3>1. Ordered(l) /\ g \in Nat \ {0}
      BY <1>2, <1>11
    <3>2. ASSUME NEW i \in 1 .. Len(l), i < j
          PROVE  l[i].addr + l[i].size < b
      BY <1>3, <3>1, <3>2, SlotFacts
    <3>3. ASSUME NEW i \in 1 .. Len(l), j + 1 <= i
          PROVE  b + g < l[i].addr
      <4>1. j < i
        BY <1>2, <3>3
      <4>2. b + c < l[i].addr
        BY <1>3, <3>1, <4>1, SlotFacts
      <4>3. l[i].addr \in Int
        BY <3>1, SlotIs
      <4>4. b + g <= b + c
        BY <1>5
      <4> QED BY <4>2, <4>3, <4>4
    <3>4. Below(l, j, b) /\ Above(l, j + 1, b + g)
      BY <3>2, <3>3 DEF Below, Above
    <3> QED BY <2>1, <3>1, <3>4, ReplacedSlot
  <2>5. MapOK(s)
    <3>1. Len(t) = Len(l)
      BY <1>2, <2>1, ReplacedLen
    <3> QED BY <1>2, <2>2, <2>4, <3>1, MapOf
  <2>6. UnitsOf(t) = Without(l, a, k)
    BY <1>3, <1>7, <1>9, <2>4 DEF Moved, Without
  <2>7. CASE r = 0
    <3>1. q = s
      BY <1>1, <1>11, <2>3, <2>7 DEF Ptmalloc, Shrunk, Resized
    <3>2. k = n
      BY <1>8, <2>7
    <3>3. UnitsOf(q.slots) = Without(l, a, n)
      BY <2>2, <2>6, <3>1, <3>2
    <3> QED BY <1>1, <1>11, <1>6, <2>5, <2>7, <3>1, <3>3
  <2>8. CASE r # 0
    <3>1. q = Rmfree(s, r, a + n)
      BY <1>1, <1>11, <2>3, <2>8 DEF Ptmalloc, Shrunk, Resized
    <3>2. PICK e \in Int : e = a + n
      OBVIOUS
    <3>3. r \in Nat \ {0}
      BY <2>8
    <3>4. /\ Units(a, k) = Units(a, n) \cup Units(e, r)
          /\ Units(a, n) \cap Units(e, r) = {} /\ e - 1 \in Units(a, n)
      BY <1>8, <3>2 DEF Units
    <3>5. Units(e, r) \cap UnitsOf(t) = {} /\ e - 1 \notin UnitsOf(t)
      BY <2>6, <3>4 DEF Without
    <3>6. e + r \notin UnitsOf(t)
      <4>1. l[j].addr + l[j].size \notin UnitsOf(l)
        BY <1>2, GapsAround
      <4>2. e + r = l[j].addr + l[j].size
        <5>1. e + r = b + c
          BY <1>4, <3>2
        <5> QED BY <1>3, <5>1
      <4> QED BY <2>6, <4>1, <4>2 DEF Without
    <3>7. s.slots = t /\ s.room = m.room
      BY <2>2
    <3>8. Overflows(s, r, e) <=> m.room = 0
      BY <2>5, <3>3, <3>5, <3>6, <3>7, JoinsNone
    <3>9. q = Rmfree(s, r, e)
      BY <3>1, <3>2
    <3>10. Units(e, r) \cap UnitsOf(t) = {}
      BY <3>5
    <3>11. /\ MapOK(q)
           /\ Overflows(s, r, e) => q = s
           /\ ~Overflows(s, r, e) => UnitsOf(q.slots) = With(t, e, r)
      BY <2>5, <3>3, <3>7, <3>9, <3>10, RmfreeIs
    <3>12. With(t, e, r) = Without(l, a, n)
      BY <1>7, <1>9, <2>6, <3>4 DEF With, Without
    <3>13. m.room = 0 => Cardinality(Starts(With(t, e, r))) > mapslots
      BY <2>5, <3>3, <3>7, <3>8, <3>10, OverflowRuns
    <3> QED BY <1>1, <1>8, <1>11, <1>6, <2>6, <2>8, <3>7, <3>8, <3>11, <3>12, <3>13
  <2> QED BY <2>7, <2>8
<1> QED BY <1>10, <1>11

\* ptmalloc's block was free, and so was the unit before it if there is a gap.
LEMMA PtmallocTakes ==
    ASSUME NEW l, Ordered(l), NEW j \in 1 .. Len(l), NEW n \in Nat \ {0},
           l[j].size >= Gap(l[j]) + n
    PROVE  /\ Units(AlignUp(l[j].addr), n) \subseteq UnitsOf(l)
           /\ Gap(l[j]) > 0 => AlignUp(l[j].addr) - 1 \in UnitsOf(l)
<1>1. PICK b \in Int, c \in Nat \ {0}, g \in Nat, r \in Nat :
         b = l[j].addr /\ c = l[j].size /\ g = Gap(l[j]) /\ r = Rear(l[j], n)
  <2>1. l[j].addr \in Int /\ l[j].size \in Nat \ {0}
    BY SlotIs
  <2>2. Gap(l[j]) \in Nat /\ Rear(l[j], n) \in Nat
    BY PtmallocParts
  <2> QED BY <2>1, <2>2
<1>2. PICK a \in Int : a = b + g /\ a = AlignUp(l[j].addr)
  <2>1. AlignUp(l[j].addr) = b + g
    BY <1>1, PtmallocParts
  <2> QED BY <2>1
<1>3. b + c = a + (n + r)
  BY <1>1, <1>2, PtmallocParts
<1>4. Units(b, c) \subseteq UnitsOf(l)
  BY <1>1, SlotUnits
<1>5. Units(a, n) \subseteq Units(b, c) /\ (g > 0 => a - 1 \in Units(b, c))
  BY <1>2, <1>3 DEF Units
<1> QED BY <1>1, <1>2, <1>4, <1>5

-----------------------------------------------------------------------------
(* The invariant.                                                         *)

Blocks == Int \X (Nat \ {0})
BlockUnits(b) == Units(b[1], b[2])
Apart ==
    /\ held \subseteq Blocks
    /\ \A b \in held : BlockUnits(b) \cap UnitsOf(mp.slots) = {}
    /\ \A b, c \in held : b # c => BlockUnits(b) \cap BlockUnits(c) = {}
Sleeps ==
    /\ stat \in [Proc -> {"user", "asleep", "run"}] /\ req \in [Proc -> Sizes \cup {0}]
    /\ \A p \in Proc : stat[p] # "user" => req[p] \in Sizes
    /\ \A p \in Proc : stat[p] = "asleep" =>
                         want = TRUE /\ Fits(UnitsOf(mp.slots), req[p]) = {}
IInv == MapOK(mp) /\ Apart /\ Sleeps

\* The units that are free or out; those that leave are lost.
HeldUnits == UNION {BlockUnits(b) : b \in held}
Covered == UnitsOf(mp.slots) \cup HeldUnits
LostOnlyFull == Covered' \subseteq Covered /\ (Covered' # Covered => mp.room = 0)

\* At the start one slot is the whole space, nothing is out and nobody sleeps.
LEMMA InitInvariant == Init => IInv
<1> SUFFICES ASSUME Init PROVE IInv
  OBVIOUS
<1> DEFINE e == Slot(first, last - first + 1)
           l == <<e>>
<1>1. e \in SlotSet
  BY MapAssumption DEF Slot, SlotSet
<1>2. mp = [slots |-> l, room |-> mapslots - 1]
  BY DEF Init
<1> HIDE DEF e
<1>3. l \in Seq(SlotSet) /\ Len(l) = 1
  BY <1>1
<1>4. Ordered(l)
  <2>1. \A i, j \in 1 .. Len(l) : ~(i < j)
    BY <1>3
  <2> QED BY <1>3, <2>1 DEF Ordered
<1>5. MapOK(mp)
  <2>1. mapslots - 1 \in Nat /\ Len(l) + (mapslots - 1) = mapslots
    BY <1>3, MapAssumption
  <2> QED BY <1>2, <1>4, <2>1, MapOf
<1>6. Apart
  BY DEF Init, Apart
<1>7. Sleeps
  BY DEF Init, Sleeps
<1> QED BY <1>5, <1>6, <1>7 DEF IInv

\* What does not fit in a map does not fit in a part of it.
LEMMA FitsMonotone ==
    ASSUME NEW m1, NEW m2, m1 \subseteq m2, NEW n, Fits(m2, n) = {}
    PROVE  Fits(m1, n) = {}
BY DEF Fits

\* A block that leaves the map keeps the blocks apart and loses nothing but
\* what leaves the map with it.
LEMMA TakeKeeps ==
    ASSUME Apart, NEW a \in Int, NEW n \in Nat \ {0}, Units(a, n) \subseteq UnitsOf(mp.slots),
           UnitsOf(mp'.slots) \subseteq Without(mp.slots, a, n), held' = held \cup {<<a, n>>}
    PROVE  /\ Apart' /\ Covered' \subseteq Covered
           /\ UnitsOf(mp'.slots) = Without(mp.slots, a, n) => Covered' = Covered
<1>1. <<a, n>> \in Blocks /\ BlockUnits(<<a, n>>) = Units(a, n)
  BY DEF Blocks, BlockUnits
<1>2. held' \subseteq Blocks
  BY <1>1 DEF Apart
<1>3. UnitsOf(mp'.slots) \subseteq UnitsOf(mp.slots)
  BY DEF Without
<1>4. ASSUME NEW b \in held'
      PROVE  BlockUnits(b) \cap UnitsOf(mp'.slots) = {}
  <2>1. CASE b \in held
    BY <1>3, <2>1 DEF Apart
  <2>2. CASE b = <<a, n>>
    BY <1>1, <2>2 DEF Without
  <2> QED BY <2>1, <2>2
<1>5. ASSUME NEW b \in held', NEW c \in held', b # c
      PROVE  BlockUnits(b) \cap BlockUnits(c) = {}
  <2>1. CASE b \in held /\ c \in held
    BY <1>5, <2>1 DEF Apart
  <2>2. CASE b = <<a, n>> /\ c \in held
    BY <1>1, <2>2 DEF Apart
  <2>3. CASE c = <<a, n>> /\ b \in held
    BY <1>1, <2>3 DEF Apart
  <2> QED BY <1>5, <2>1, <2>2, <2>3
<1>6. HeldUnits' = HeldUnits \cup Units(a, n)
  BY <1>1 DEF HeldUnits
<1>7. /\ Covered' \subseteq Covered
      /\ UnitsOf(mp'.slots) = Without(mp.slots, a, n) => Covered' = Covered
  BY <1>3, <1>6 DEF Covered, Without
<1> QED BY <1>2, <1>4, <1>5, <1>7 DEF Apart

\* Who slept is woken, or the map has not grown.
LEMMA SleepsKept ==
    ASSUME Sleeps, req' = req,
           \/ Wakeup
           \/ /\ UNCHANGED <<want, stat>>
              /\ UnitsOf(mp'.slots) \subseteq UnitsOf(mp.slots)
    PROVE  Sleeps'
<1>1. CASE Wakeup
  <2>1. stat' \in [Proc -> {"user", "asleep", "run"}]
    BY <1>1 DEF Sleeps, Wakeup
  <2>2. ASSUME NEW p \in Proc
        PROVE  stat'[p] # "asleep" /\ (stat'[p] # "user" => stat[p] # "user")
    BY <1>1 DEF Sleeps, Wakeup
  <2> QED BY <2>1, <2>2 DEF Sleeps
<1>2. CASE UNCHANGED <<want, stat>> /\ UnitsOf(mp'.slots) \subseteq UnitsOf(mp.slots)
  <2>1. ASSUME NEW p \in Proc, stat[p] = "asleep"
        PROVE  Fits(UnitsOf(mp'.slots), req[p]) = {}
    BY <1>2, <2>1, FitsMonotone DEF Sleeps
  <2> QED BY <1>2, <2>1 DEF Sleeps
<1> QED BY <1>1, <1>2

\* What rmalloc does to the map, when there is a slot.
LEMMA RmallocTakes ==
    ASSUME IInv, NEW n \in Sizes, NEW j, j = RmallocSlot(mp, n), j # 0,
           mp' = Shorten(mp, j, n), held' = held \cup {<<mp.slots[j].addr, n>>}
    PROVE  /\ MapOK(mp)' /\ Apart' /\ Covered' = Covered
           /\ UnitsOf(mp'.slots) \subseteq UnitsOf(mp.slots)
<1>1. MapOK(mp) /\ Ordered(mp.slots) /\ n \in Nat \ {0}
  BY MapAssumption, MapFacts DEF IInv
<1>2. j \in 1 .. Len(mp.slots) /\ mp.slots[j].size >= n
  BY <1>1, RmallocSlotIs
<1>3. MapOK(mp') /\ UnitsOf(mp'.slots) = Without(mp.slots, mp.slots[j].addr, n)
  BY <1>1, <1>2, ShortenIs
<1>4. PICK b \in Int, c \in Nat \ {0} : b = mp.slots[j].addr /\ c = mp.slots[j].size
  <2>1. mp.slots[j].addr \in Int /\ mp.slots[j].size \in Nat \ {0}
    BY <1>1, <1>2, SlotIs
  <2> QED BY <2>1
<1>5. Units(b, n) \subseteq UnitsOf(mp.slots)
  <2>1. Units(b, c) \subseteq UnitsOf(mp.slots)
    BY <1>1, <1>2, <1>4, SlotUnits
  <2>2. Units(b, n) \subseteq Units(b, c)
    <3>1. n \in Nat /\ n <= c
      BY <1>1, <1>2, <1>4
    <3> QED BY <3>1 DEF Units
  <2> QED BY <2>1, <2>2
<1>6. Apart' /\ Covered' = Covered
  BY <1>1, <1>3, <1>4, <1>5, TakeKeeps DEF IInv
<1>7. UnitsOf(mp'.slots) \subseteq UnitsOf(mp.slots)
  BY <1>3 DEF Without
<1> QED BY <1>3, <1>6, <1>7

\* malloc(sptmap, n): a block, or a sleeper for which the map has no room.
LEMMA ObtainStep ==
    ASSUME IInv, NEW p \in Proc, NEW n \in Sizes, Obtain(p, n)
    PROVE  IInv' /\ LostOnlyFull
<1>1. PICK j : j = RmallocSlot(mp, n)
  OBVIOUS
<1>2. CASE j # 0
  <2>1. /\ mp' = Shorten(mp, j, n) /\ held' = held \cup {<<mp.slots[j].addr, n>>}
        /\ stat' = [stat EXCEPT ![p] = "user"] /\ req' = [req EXCEPT ![p] = 0]
        /\ UNCHANGED want
    BY <1>1, <1>2 DEF Obtain
  <2>2. /\ MapOK(mp)' /\ Apart' /\ Covered' = Covered
        /\ UnitsOf(mp'.slots) \subseteq UnitsOf(mp.slots)
    BY <1>1, <1>2, <2>1, RmallocTakes
  <2>3. ASSUME NEW r \in Proc, stat'[r] # "user"
        PROVE  r # p /\ stat'[r] = stat[r] /\ req'[r] = req[r]
    BY <2>1, <2>3 DEF IInv, Sleeps
  <2>4. ASSUME NEW r \in Proc, stat'[r] = "asleep"
        PROVE  want' = TRUE /\ Fits(UnitsOf(mp'.slots), req'[r]) = {}
    <3>1. stat[r] = "asleep" /\ req'[r] = req[r]
      BY <2>3, <2>4
    <3>2. want = TRUE /\ Fits(UnitsOf(mp.slots), req[r]) = {}
      BY <3>1 DEF IInv, Sleeps
    <3> QED BY <2>1, <2>2, <3>1, <3>2, FitsMonotone
  <2>5. Sleeps'
    BY <2>1, <2>3, <2>4 DEF IInv, Sleeps
  <2> QED BY <2>2, <2>5 DEF IInv, LostOnlyFull
<1>3. CASE j = 0
  <2>1. /\ want' = TRUE /\ UNCHANGED <<mp, held>>
        /\ stat' = [stat EXCEPT ![p] = "asleep"] /\ req' = [req EXCEPT ![p] = n]
    BY <1>1, <1>3 DEF Obtain
  <2>2. Fits(UnitsOf(mp.slots), n) = {}
    <3>1. MapOK(mp) /\ Ordered(mp.slots) /\ n \in Nat \ {0}
      BY MapAssumption, MapFacts DEF IInv
    <3>2. \/ j = 0 /\ \A k \in 1 .. Len(mp.slots) : ~(mp.slots[k].size >= n)
          \/ j \in 1 .. Len(mp.slots)
      <4>1. MapOK(mp)
        BY <3>1
      <4> QED BY <1>1, <4>1, RmallocSlotIs
    <3>3. \A k \in 1 .. Len(mp.slots) : ~(mp.slots[k].size >= n)
      BY <1>3, <3>2
    <3> QED BY <3>1, <3>3, NoSlotNoFit
  <2>3. Sleeps'
    BY <2>1, <2>2 DEF IInv, Sleeps
  <2>4. MapOK(mp)' /\ Apart' /\ Covered' = Covered
    BY <2>1 DEF IInv, Apart, Covered, HeldUnits
  <2> QED BY <2>3, <2>4 DEF IInv, LostOnlyFull
<1> QED BY <1>2, <1>3

\* sptalloc takes a block and wakes nobody.
LEMMA SptallocStep ==
    ASSUME IInv, NEW n \in Sizes, Sptalloc(n)
    PROVE  IInv' /\ LostOnlyFull
<1>1. PICK j : j = RmallocSlot(mp, n)
  OBVIOUS
<1>2. /\ j # 0 /\ mp' = Shorten(mp, j, n) /\ held' = held \cup {<<mp.slots[j].addr, n>>}
      /\ UNCHANGED <<want, stat, req>>
  BY <1>1 DEF Sptalloc
<1>3. /\ MapOK(mp)' /\ Apart' /\ Covered' = Covered
      /\ UnitsOf(mp'.slots) \subseteq UnitsOf(mp.slots)
  BY <1>1, <1>2, RmallocTakes
<1>4. Sleeps'
  BY <1>2, <1>3, SleepsKept DEF IInv
<1> QED BY <1>3, <1>4 DEF IInv, LostOnlyFull

\* ptmalloc of n units: where the block is and what remains of the map.
LEMMA PtmallocStep ==
    ASSUME IInv, NEW n \in Nat \ {0}, NEW j, j = PtmallocSlot(mp, n), j # 0,
           NEW m, m = Ptmalloc(mp, j, n)
    PROVE  \E a \in Int, k \in Nat :
             /\ a = AlignUp(mp.slots[j].addr) /\ Units(a, n) \subseteq UnitsOf(mp.slots)
             /\ MapOK(m)
             /\ UnitsOf(m.slots) = Without(mp.slots, a, n + k)
             /\ k = 0 \/ mp.room = 0
             /\ mp.room = 0 \/ m.room > 0 \/ a - 1 \in UnitsOf(mp.slots)
<1>1. MapOK(mp) /\ Ordered(mp.slots)
  BY MapFacts DEF IInv
<1>2. j \in 1 .. Len(mp.slots) /\ mp.slots[j].size >= Gap(mp.slots[j]) + n
  BY <1>1, PtmallocSlotIs
<1>3. PICK a \in Int, r \in Nat, g \in Nat :
        a = AlignUp(mp.slots[j].addr) /\ r = Rear(mp.slots[j], n) /\ g = Gap(mp.slots[j])
  <2>1. /\ AlignUp(mp.slots[j].addr) \in Int /\ Rear(mp.slots[j], n) \in Nat
        /\ Gap(mp.slots[j]) \in Nat
    BY <1>1, <1>2, PtmallocParts
  <2> QED BY <2>1
<1>4. Units(a, n) \subseteq UnitsOf(mp.slots) /\ (g > 0 => a - 1 \in UnitsOf(mp.slots))
  BY <1>1, <1>2, <1>3, PtmallocTakes
<1>5. /\ MapOK(m)
      /\ Gap(mp.slots[j]) = 0 => m.room >= mp.room
      /\ TailLost(mp, j, n) =>
           UnitsOf(m.slots) = Without(mp.slots, AlignUp(mp.slots[j].addr), n + Rear(mp.slots[j], n))
      /\ ~TailLost(mp, j, n) =>
           UnitsOf(m.slots) = Without(mp.slots, AlignUp(mp.slots[j].addr), n)
  BY <1>1, <1>2, PtmallocIs
<1>6. mp.room \in Nat /\ m.room \in Nat
  BY <1>1, <1>5, MapFacts
<1>7. mp.room = 0 \/ m.room > 0 \/ a - 1 \in UnitsOf(mp.slots)
  <2>1. g = 0 => m.room >= mp.room
    BY <1>3, <1>5
  <2> QED BY <1>4, <1>6, <2>1
<1>8. CASE TailLost(mp, j, n)
  <2>1. mp.room = 0
    BY <1>8 DEF TailLost
  <2> QED BY <1>3, <1>4, <1>5, <1>7, <1>8, <2>1
<1>9. CASE ~TailLost(mp, j, n)
  <2>1. UnitsOf(m.slots) = Without(mp.slots, a, n + 0)
    BY <1>3, <1>5, <1>9
  <2> QED BY <1>3, <1>4, <1>5, <1>7, <2>1
<1> QED BY <1>8, <1>9

\* kseg: the units behind the block are lost when the array is full.
LEMMA KsegStep ==
    ASSUME IInv, NEW n \in SegSizes, Kseg(n)
    PROVE  IInv' /\ LostOnlyFull
<1>1. n \in Nat \ {0}
  BY MapAssumption DEF SegSizes
<1>2. PICK j : j = PtmallocSlot(mp, n)
  OBVIOUS
<1>3. /\ j # 0 /\ mp' = Ptmalloc(mp, j, n)
      /\ held' = held \cup {<<AlignUp(mp.slots[j].addr), n>>}
      /\ Wakeup \/ UNCHANGED <<want, stat>>
      /\ req' = req
  BY <1>2 DEF Kseg
<1>4. PICK a \in Int, k \in Nat :
        /\ a = AlignUp(mp.slots[j].addr) /\ Units(a, n) \subseteq UnitsOf(mp.slots)
        /\ MapOK(mp')
        /\ UnitsOf(mp'.slots) = Without(mp.slots, a, n + k)
        /\ k = 0 \/ mp.room = 0
  BY <1>1, <1>2, <1>3, PtmallocStep
<1>5. /\ UnitsOf(mp'.slots) \subseteq Without(mp.slots, a, n)
      /\ UnitsOf(mp'.slots) \subseteq UnitsOf(mp.slots)
  <2>1. Units(a, n) \subseteq Units(a, n + k)
    BY <1>1 DEF Units
  <2> QED BY <1>4, <2>1 DEF Without
<1>6. /\ Apart' /\ Covered' \subseteq Covered
      /\ UnitsOf(mp'.slots) = Without(mp.slots, a, n) => Covered' = Covered
  BY <1>1, <1>3, <1>4, <1>5, TakeKeeps DEF IInv
<1>7. ASSUME mp.room # 0
      PROVE  UnitsOf(mp'.slots) = Without(mp.slots, a, n)
  <2>1. n + k = n
    BY <1>1, <1>4, <1>7
  <2> QED BY <1>4, <2>1
<1>8. Sleeps'
  BY <1>3, <1>5, SleepsKept DEF IInv
<1> QED BY <1>4, <1>6, <1>7, <1>8 DEF IInv, LostOnlyFull

\* The map after kseg's ptmalloc and rmfree.
LEMMA KsegRefusedStep ==
    ASSUME IInv, NEW n \in SegSizes, KsegRefused(n)
    PROVE  IInv' /\ LostOnlyFull
<1>1. n \in Nat \ {0}
  BY MapAssumption DEF SegSizes
<1>2. PICK j, m : j = PtmallocSlot(mp, n) /\ m = Ptmalloc(mp, j, n)
  OBVIOUS
<1>3. /\ j # 0 /\ mp' = Rmfree(m, n, AlignUp(mp.slots[j].addr))
      /\ Wakeup \/ UNCHANGED <<want, stat>>
      /\ UNCHANGED <<held, req>>
  BY <1>2 DEF KsegRefused
<1>4. PICK a \in Int, k \in Nat :
        /\ a = AlignUp(mp.slots[j].addr) /\ Units(a, n) \subseteq UnitsOf(mp.slots)
        /\ MapOK(m)
        /\ UnitsOf(m.slots) = Without(mp.slots, a, n + k)
        /\ k = 0 \/ mp.room = 0
        /\ mp.room = 0 \/ m.room > 0 \/ a - 1 \in UnitsOf(mp.slots)
  BY <1>1, <1>2, <1>3, PtmallocStep
<1>5. Units(a, n) \subseteq Units(a, n + k) /\ a - 1 \notin Units(a, n + k)
  BY <1>1 DEF Units
<1>6. Units(a, n) \cap UnitsOf(m.slots) = {} /\ UnitsOf(m.slots) \subseteq UnitsOf(mp.slots)
  BY <1>4, <1>5 DEF Without
<1>7. MapOK(mp')
  BY <1>1, <1>3, <1>4, <1>6, RmfreeIs
<1>8. ASSUME Overflows(m, n, a)
      PROVE  mp' = m /\ mp.room = 0
  <2>1. mp' = m
    BY <1>1, <1>3, <1>4, <1>6, <1>8, RmfreeIs
  <2>2. m.room = 0
    BY <1>8 DEF Overflows
  <2>3. a - 1 \in UnitsOf(mp.slots) => a - 1 \in UnitsOf(m.slots)
    BY <1>4, <1>5 DEF Without
  <2>4. a - 1 \notin UnitsOf(m.slots)
    BY <1>1, <1>4, <1>6, <1>8, JoinsIfBefore
  <2>5. mp.room = 0
    BY <1>4, <2>2, <2>3, <2>4
  <2> QED BY <2>1, <2>5
<1>9. ASSUME ~Overflows(m, n, a)
      PROVE  /\ UnitsOf(mp'.slots) \subseteq UnitsOf(mp.slots)
             /\ mp.room = 0 \/ UnitsOf(mp'.slots) = UnitsOf(mp.slots)
  <2>1. UnitsOf(mp'.slots) = With(m.slots, a, n)
    BY <1>1, <1>3, <1>4, <1>6, <1>9, RmfreeIs
  <2>2. UnitsOf(mp'.slots) \subseteq UnitsOf(mp.slots)
    BY <1>4, <1>6, <2>1 DEF With
  <2>3. k = 0 => UnitsOf(m.slots) = Without(mp.slots, a, n)
    BY <1>1, <1>4
  <2>4. k = 0 => UnitsOf(mp'.slots) = UnitsOf(mp.slots)
    BY <1>4, <2>1, <2>3 DEF With, Without
  <2> QED BY <1>4, <2>2, <2>4
<1>10. /\ UnitsOf(mp'.slots) \subseteq UnitsOf(mp.slots)
       /\ mp.room = 0 \/ UnitsOf(mp'.slots) = UnitsOf(mp.slots)
  <2>1. CASE Overflows(m, n, a)
    BY <1>6, <1>8, <2>1
  <2>2. CASE ~Overflows(m, n, a)
    BY <1>9, <2>2
  <2> QED BY <2>1, <2>2
<1>11. Apart'
  BY <1>3, <1>10 DEF IInv, Apart, BlockUnits
<1>12. Sleeps'
  BY <1>3, <1>10, SleepsKept DEF IInv
<1>13. LostOnlyFull
  BY <1>3, <1>10 DEF LostOnlyFull, Covered, HeldUnits
<1> QED BY <1>7, <1>11, <1>12, <1>13 DEF IInv

\* rmfree of a block wakes every sleeper, or loses the block to the full array.
LEMMA FreeStep ==
    ASSUME IInv, NEW b \in held, Free(b)
    PROVE  IInv' /\ LostOnlyFull
<1>1. PICK a \in Int, n \in Nat \ {0} : a = b[1] /\ n = b[2] /\ BlockUnits(b) = Units(a, n)
  <2>1. b[1] \in Int /\ b[2] \in Nat \ {0}
    BY DEF IInv, Apart, Blocks
  <2> QED BY <2>1 DEF BlockUnits
<1>2. /\ held' = held \ {b} /\ mp' = Rmfree(mp, n, a)
      /\ (Overflows(mp, n, a) /\ UNCHANGED <<want, stat>>) \/ (~Overflows(mp, n, a) /\ Wakeup)
      /\ req' = req
  BY <1>1 DEF Free
<1>3. Units(a, n) \cap UnitsOf(mp.slots) = {} /\ MapOK(mp)
  BY <1>1 DEF IInv, Apart
<1>4. /\ MapOK(mp')
      /\ Overflows(mp, n, a) => mp' = mp
      /\ ~Overflows(mp, n, a) => UnitsOf(mp'.slots) = With(mp.slots, a, n)
  BY <1>2, <1>3, RmfreeIs
<1>5. /\ UnitsOf(mp'.slots) \subseteq UnitsOf(mp.slots) \cup BlockUnits(b)
      /\ Overflows(mp, n, a) \/ UnitsOf(mp'.slots) = UnitsOf(mp.slots) \cup BlockUnits(b)
  BY <1>1, <1>4 DEF With
<1>6. Apart'
  <2>1. ASSUME NEW c \in held'
        PROVE  BlockUnits(c) \cap UnitsOf(mp'.slots) = {}
    <3>1. c \in held /\ c # b
      BY <1>2
    <3> QED BY <1>5, <3>1 DEF IInv, Apart
  <2> QED BY <1>2, <2>1 DEF IInv, Apart
<1>7. Sleeps'
  BY <1>2, <1>4, SleepsKept DEF IInv
<1>8. LostOnlyFull
  <2>1. HeldUnits = HeldUnits' \cup BlockUnits(b)
    BY <1>2 DEF HeldUnits
  <2>2. Overflows(mp, n, a) => mp.room = 0
    BY DEF Overflows
  <2> QED BY <1>5, <2>1, <2>2 DEF LostOnlyFull, Covered
<1> QED BY <1>4, <1>6, <1>7, <1>8 DEF IInv

\* Every step keeps the invariant and loses units only with a full array.
LEMMA NextStep ==
    ASSUME IInv, Next
    PROVE  IInv' /\ LostOnlyFull
<1>1. CASE \E p \in Proc : Retry(p)
  <2>1. PICK p \in Proc : stat[p] = "run" /\ Obtain(p, req[p])
    BY <1>1 DEF Retry
  <2>2. req[p] \in Sizes
    BY <2>1 DEF IInv, Sleeps
  <2> QED BY <2>1, <2>2, ObtainStep
<1>2. CASE \E p \in Proc, n \in Sizes : Mapin(p, n)
  BY <1>2, ObtainStep DEF Mapin
<1>3. CASE \E n \in Sizes : Sptalloc(n)
  BY <1>3, SptallocStep
<1>4. CASE \E n \in SegSizes : Kseg(n)
  BY <1>4, KsegStep
<1>5. CASE \E n \in SegSizes : KsegRefused(n)
  BY <1>5, KsegRefusedStep
<1>6. CASE \E b \in held : Free(b)
  BY <1>6, FreeStep
<1> QED BY <1>1, <1>2, <1>3, <1>4, <1>5, <1>6 DEF Next

\* A step that changes nothing keeps the invariant.
LEMMA StutterStep ==
    ASSUME IInv, UNCHANGED vars
    PROVE  IInv'
BY DEF IInv, Apart, Sleeps, vars

\* The invariant holds in every state: whatever is allocated, aligned,
\* refused and freed in whatever order.
THEOREM Invariant == Spec => []IInv
<1>1. IInv /\ [Next]_vars => IInv'
  BY NextStep, StutterStep
<1> QED BY InitInvariant, <1>1, PTL DEF Spec

\* The array stays as rmalloc's and rmfree's scans need it: by address, no
\* slot empty, no two that touch, and mapsize counts the slots that are left.
THEOREM RmapMapWellFormed == Spec => []MapWellFormed
<1>1. IInv => MapWellFormed
  <2> SUFFICES ASSUME IInv PROVE MapWellFormed
    OBVIOUS
  <2>1. /\ mp.room \in Nat /\ Len(mp.slots) \in Nat /\ Len(mp.slots) + mp.room = mapslots
        /\ Ordered(mp.slots)
    BY MapFacts DEF IInv
  <2>2. ASSUME NEW j \in DOMAIN mp.slots
        PROVE  /\ mp.slots[j].size > 0
               /\ j > 1 => End(mp.slots[j - 1]) < mp.slots[j].addr
    <3>1. j \in 1 .. Len(mp.slots)
      BY <2>1 DEF Ordered
    <3>2. mp.slots[j].size \in Nat \ {0}
      BY <2>1, <3>1, SlotIs
    <3>3. j > 1 => j - 1 \in 1 .. Len(mp.slots) /\ j - 1 < j
      BY <2>1, <3>1
    <3> QED BY <2>1, <3>1, <3>2, <3>3 DEF Ordered
  <2> QED BY <2>1, <2>2 DEF MapWellFormed
<1> QED BY Invariant, <1>1, PTL

\* Nobody sleeps on the map for units that it has in a row: every free that
\* enters the array wakes all sleepers, one that does not adds nothing.
THEOREM RmapNoSleeperWithFit == Spec => []NoSleeperWithFit
<1>1. \A m, n : Abstract!Fits(m, n) = Fits(m, n)
  BY DEF Fits, Units, Abstract!Fits, Abstract!Units
<1>2. UnitsOf(mp.slots) = FreeUnits
  BY DEF UnitsOf, FreeUnits
<1>3. IInv => NoSleeperWithFit
  BY <1>1, <1>2 DEF IInv, Sleeps, NoSleeperWithFit, Abstract!NoSleeperWithFit
<1> QED BY Invariant, <1>3, PTL

\* rmfree and ptmalloc lose units only when no slot is left, and for good.
THEOREM RmapLostOnlyByOverflow == Spec => LostOnlyByOverflow
<1>1. Lost = Space \ Covered
  BY DEF Lost, Covered, HeldUnits, BlockUnits, Units, UnitsOf, FreeUnits
<1>2. IInv /\ [Next]_vars => [Lost \subseteq Lost' /\ (Lost' # Lost => mp.room = 0)]_vars
  <2> SUFFICES ASSUME IInv, Next
               PROVE  Lost \subseteq Lost' /\ (Lost' # Lost => mp.room = 0)
    OBVIOUS
  <2>1. LostOnlyFull
    BY NextStep
  <2>2. Lost' = Space \ Covered'
    BY DEF Lost, Covered, HeldUnits, BlockUnits, Units, UnitsOf, FreeUnits, Space
  <2> QED BY <1>1, <2>1, <2>2 DEF LostOnlyFull
<1> QED BY Invariant, <1>2, PTL DEF Spec, LostOnlyByOverflow

-----------------------------------------------------------------------------
(* The slots implement the set of their units.                             *)

\* rmalloc's slot begins at the first fit.
LEMMA RmallocFirst ==
    ASSUME NEW m, MapOK(m), NEW l, l = m.slots, NEW n \in Nat \ {0},
           NEW j, j = RmallocSlot(m, n), j # 0
    PROVE  FirstFit(UnitsOf(l), n, l[j].addr)
<1>1. Ordered(l) /\ l \in Seq(SlotSet)
  BY MapFacts DEF MapOK
<1>2. /\ j \in 1 .. Len(l) /\ l[j].size >= n
      /\ \A k \in 1 .. Len(l) : k < j => ~(l[k].size >= n)
  BY RmallocSlotIs
<1>3. PICK a \in Int, c \in Nat : a = l[j].addr /\ c = l[j].size
  <2>1. l[j].addr \in Int /\ l[j].size \in Nat
    BY <1>1, <1>2, SlotIs
  <2> QED BY <2>1
<1>4. Units(a, c) \subseteq UnitsOf(l) /\ c >= n
  BY <1>1, <1>2, <1>3, SlotUnits
<1>5. Units(a, n) \subseteq Units(a, c) /\ a \in Units(a, n)
  BY <1>4 DEF Units
<1>6. a \in Fits(UnitsOf(l), n)
  BY <1>4, <1>5 DEF Fits
<1>7. ASSUME NEW b \in Fits(UnitsOf(l), n) PROVE a <= b
  <2>1. b \in UnitsOf(l) /\ Units(b, n) \subseteq UnitsOf(l)
    BY DEF Fits
  <2>2. PICK k \in 1 .. Len(l) : b \in Int /\ l[k].addr <= b /\ b < l[k].addr + l[k].size
    BY <1>1, <2>1, InUnits
  <2>3. b + n <= l[k].addr + l[k].size
    BY <1>1, <2>1, <2>2, RunInSlot
  <2>4. l[k].addr \in Int /\ l[k].size \in Nat
    BY <1>1, SlotIs
  <2>5. l[k].size >= n
    BY <2>2, <2>3, <2>4
  <2>6. ~(k < j)
    BY <1>2, <2>5
  <2>7. CASE k = j
    BY <1>3, <2>2, <2>7
  <2>8. CASE j < k
    <3>1. a + c < l[k].addr
      BY <1>1, <1>2, <1>3, <2>8, SlotFacts
    <3> QED BY <2>2, <2>4, <3>1
  <2> QED BY <1>2, <2>6, <2>7, <2>8
<1> QED BY <1>3, <1>6, <1>7 DEF FirstFit

\* No boundary lies between an address and the one AlignUp gives.
LEMMA AlignLeast ==
    ASSUME NEW a \in Int, NEW b \in Int, a <= b, b % npgpt = 0
    PROVE  AlignUp(a) <= b
<1>1. npgpt \in Nat /\ npgpt > 0
  BY MapAssumption
<1>2. PICK N \in Nat \ {0} : N = npgpt
  BY <1>1
<1>3. PICK q \in Int, k \in Int : q = (a + N - 1) \div N /\ k = b \div N
  OBVIOUS
<1>4. N * q <= a + N - 1
  BY <1>3
<1>5. b = N * k
  BY <1>2, <1>3
<1>6. N * q <= N * k + N - 1
  BY <1>4, <1>5
<1>7. q <= k
  <2> SUFFICES ASSUME q >= k + 1 PROVE FALSE
    OBVIOUS
  <2>1. N * q >= N * (k + 1)
    OBVIOUS
  <2>2. N * (k + 1) = N * k + N
    OBVIOUS
  <2> QED BY <1>6, <2>1, <2>2
<1>8. q * N <= k * N
  BY <1>7
<1> QED BY <1>2, <1>3, <1>5, <1>8 DEF AlignUp

\* ptmalloc's block begins at the first aligned fit.
LEMMA PtmallocFirst ==
    ASSUME NEW m, MapOK(m), NEW l, l = m.slots, NEW n \in Nat \ {0},
           NEW j, j = PtmallocSlot(m, n), j # 0, NEW a, a = AlignUp(l[j].addr)
    PROVE  /\ a \in Fits(UnitsOf(l), n) /\ a % npgpt = 0
           /\ \A b \in Fits(UnitsOf(l), n) : b % npgpt = 0 => a <= b
<1>1. Ordered(l) /\ l \in Seq(SlotSet)
  BY MapFacts DEF MapOK
<1>2. /\ j \in 1 .. Len(l) /\ l[j].size >= Gap(l[j]) + n
      /\ \A k \in 1 .. Len(l) : k < j => ~(l[k].size >= Gap(l[k]) + n)
  BY PtmallocSlotIs
<1>3. /\ l[j].addr \in Int /\ l[j].size \in Nat /\ a \in Int /\ a % npgpt = 0
      /\ a = l[j].addr + Gap(l[j]) /\ Gap(l[j]) \in Nat /\ Rear(l[j], n) \in Nat
      /\ l[j].addr + l[j].size = a + (n + Rear(l[j], n))
  <2>1. l[j].addr \in Int /\ l[j].size \in Nat
    BY <1>1, <1>2, SlotIs
  <2>2. AlignUp(l[j].addr) \in Int /\ AlignUp(l[j].addr) % npgpt = 0
    BY <2>1, AlignUpIs
  <2>3. /\ Gap(l[j]) \in Nat /\ Rear(l[j], n) \in Nat
        /\ AlignUp(l[j].addr) = l[j].addr + Gap(l[j])
        /\ l[j].addr + l[j].size = AlignUp(l[j].addr) + (n + Rear(l[j], n))
    BY <1>1, <1>2, PtmallocParts
  <2> QED BY ONLY <2>1, <2>2, <2>3, a = AlignUp(l[j].addr)
<1>4. a \in Fits(UnitsOf(l), n)
  <2>1. Units(a, n) \subseteq UnitsOf(l)
    BY <1>1, <1>2, PtmallocTakes
  <2>2. a \in Units(a, n)
    BY <1>3 DEF Units
  <2> QED BY <2>1, <2>2 DEF Fits
<1>5. ASSUME NEW b \in Fits(UnitsOf(l), n), b % npgpt = 0 PROVE a <= b
  <2>1. b \in UnitsOf(l) /\ Units(b, n) \subseteq UnitsOf(l)
    BY DEF Fits
  <2>2. PICK k \in 1 .. Len(l) : b \in Int /\ l[k].addr <= b /\ b < l[k].addr + l[k].size
    BY <1>1, <2>1, InUnits
  <2>3. b + n <= l[k].addr + l[k].size
    BY <1>1, <2>1, <2>2, RunInSlot
  <2>4. l[k].addr \in Int /\ l[k].size \in Nat
    BY <1>1, SlotIs
  <2>5. AlignUp(l[k].addr) <= b
    BY <1>5, <2>2, <2>4, AlignLeast
  <2>6. AlignUp(l[k].addr) \in Int
    BY <2>4, AlignUpIs
  <2>7. l[k].size >= Gap(l[k]) + n
    BY SMTT(30), <2>2, <2>3, <2>4, <2>5, <2>6 DEF Gap
  <2>8. ~(k < j)
    BY <1>2, <2>7
  <2>9. CASE k = j
    BY <2>5, <2>9
  <2>10. CASE j < k
    <3>1. l[j].addr + l[j].size < l[k].addr
      BY <1>1, <1>2, <2>10, SlotFacts
    <3>2. a <= l[j].addr + l[j].size
      BY <1>3
    <3> QED BY <1>3, <2>2, <2>4, <3>1, <3>2
  <2> QED BY <1>2, <2>8, <2>9, <2>10
<1> QED BY <1>3, <1>4, <1>5

\* The units of a slot from one of them on are those of its run from there on.
LEMMA RunIs ==
    ASSUME NEW l, Ordered(l), NEW j \in 1 .. Len(l), NEW a \in Int, NEW k \in Nat,
           l[j].addr <= a, a + k = l[j].addr + l[j].size
    PROVE  {b \in UnitsOf(l) : a .. b \subseteq UnitsOf(l) /\ a <= b} = Units(a, k)
<1>1. l \in Seq(SlotSet) /\ l[j].addr \in Int /\ l[j].size \in Nat
  BY SlotIs DEF Ordered
<1>2. ASSUME NEW b \in UnitsOf(l), a .. b \subseteq UnitsOf(l), a <= b
      PROVE  b \in Units(a, k)
  <2>1. b \in Int
    BY <1>1, InUnits
  <2>2. a + k \notin UnitsOf(l)
    BY GapsAround
  <2>3. ~(a + k <= b)
    <3>1. a + k <= b => a + k \in a .. b
      BY <2>1
    <3> QED BY <1>2, <2>2, <3>1
  <2> QED BY <1>2, <2>1, <2>3 DEF Units
<1>3. ASSUME NEW b \in Units(a, k)
      PROVE  b \in UnitsOf(l) /\ a .. b \subseteq UnitsOf(l) /\ a <= b
  <2>1. b \in Int /\ a <= b /\ b < a + k
    BY DEF Units
  <2>2. ASSUME NEW c \in Int, a <= c, c <= b PROVE c \in UnitsOf(l)
    <3>1. l[j].addr <= c /\ c < l[j].addr + l[j].size
      BY <1>1, <2>1, <2>2
    <3> QED BY <1>1, <3>1, InUnits
  <2>3. a .. b \subseteq UnitsOf(l)
    BY <2>1, <2>2
  <2> QED BY <2>1, <2>2, <2>3
<1> QED BY <1>2, <1>3

\* FreeMap's operators are CoreMap's.
LEMMA AbstractIs ==
    /\ \A a, n : Abstract!Units(a, n) = Units(a, n)
    /\ \A s : Abstract!Starts(s) = Starts(s)
    /\ \A s, n : Abstract!Fits(s, n) = Fits(s, n)
    /\ \A s, n, a : Abstract!FirstFit(s, n, a) = FirstFit(s, n, a)
    /\ \A s, n, a, cap : Abstract!Release(s, n, a, cap) = Release(s, n, a, cap)
    /\ Abstract!Space = Space /\ Abstract!SegSizes = SegSizes
    /\ \A s : Abstract!Cardinality(s) = Cardinality(s)
<1>1. \A a, n : Abstract!Units(a, n) = Units(a, n)
  BY DEF Abstract!Units, Units
<1>2. \A s : Abstract!Starts(s) = Starts(s)
  BY DEF Abstract!Starts, Starts
<1>3. \A s, n : Abstract!Fits(s, n) = Fits(s, n)
  BY <1>1 DEF Abstract!Fits, Fits
<1>4. \A s, n, a : Abstract!FirstFit(s, n, a) = FirstFit(s, n, a)
  BY <1>3 DEF Abstract!FirstFit, FirstFit
<1>5. \A s : Abstract!Cardinality(s) = Cardinality(s)
  <2> SUFFICES ASSUME NEW s PROVE Abstract!Cardinality(s) = Cardinality(s)
    OBVIOUS
  <2>1. \A q : Abstract!IsFiniteSet(q) <=> IsFiniteSet(q)
    BY DEF Abstract!IsFiniteSet, IsFiniteSet
  <2> QED BY <2>1 DEF Abstract!Cardinality, Cardinality
<1>6. \A s, n, a, cap : Abstract!Release(s, n, a, cap) = Release(s, n, a, cap)
  <2> SUFFICES ASSUME NEW s, NEW n, NEW a, NEW cap
               PROVE  Abstract!Release(s, n, a, cap) = Release(s, n, a, cap)
    OBVIOUS
  <2>1. PICK u : u = s \cup Units(a, n)
    OBVIOUS
  <2>2. Abstract!Starts(s \cup Abstract!Units(a, n)) = Starts(u)
    BY <1>1, <1>2, <2>1
  <2>3. Abstract!Release(s, n, a, cap) = IF Cardinality(Starts(u)) > cap THEN s ELSE u
    BY <1>1, <1>5, <2>1, <2>2 DEF Abstract!Release
  <2>4. Release(s, n, a, cap) = IF Cardinality(Starts(u)) > cap THEN s ELSE u
    BY <2>1 DEF Release
  <2> QED BY <2>3, <2>4
<1>7. Abstract!Space = Space /\ Abstract!SegSizes = SegSizes
  BY DEF Abstract!Space, Space, Abstract!SegSizes, SegSizes
<1> QED BY <1>1, <1>2, <1>3, <1>4, <1>5, <1>6, <1>7

\* ptmalloc in the set of units.
LEMMA PtmallocCarves ==
    ASSUME NEW m, MapOK(m), NEW l, l = m.slots, NEW n \in Nat \ {0},
           NEW j, j = PtmallocSlot(m, n), j # 0, NEW a, a = AlignUp(l[j].addr),
           NEW q, q = Ptmalloc(m, j, n)
    PROVE  MapOK(q) /\ UnitsOf(q.slots) = Abstract!Carve(UnitsOf(l), n, a)
<1>1. Ordered(l)
  BY MapFacts
<1>2. j \in 1 .. Len(l) /\ l[j].size >= Gap(l[j]) + n
  BY PtmallocSlotIs
<1>3. /\ MapOK(q)
      /\ TailLost(m, j, n) =>
           /\ UnitsOf(q.slots) = Without(l, a, n + Rear(l[j], n))
           /\ Cardinality(Starts(Without(l, a, n))) > mapslots
      /\ ~TailLost(m, j, n) => UnitsOf(q.slots) = Without(l, a, n)
  BY <1>2, PtmallocIs
<1>4. ~TailLost(m, j, n) => ~(Cardinality(Starts(Without(l, a, n))) > mapslots)
  BY <1>3, MapRuns
<1>5. Abstract!RunFrom(UnitsOf(l), a) = Units(a, n + Rear(l[j], n))
  <2>1. /\ l[j].addr \in Int /\ a \in Int /\ Gap(l[j]) \in Nat /\ Rear(l[j], n) \in Nat
        /\ a = l[j].addr + Gap(l[j]) /\ l[j].addr + l[j].size = a + (n + Rear(l[j], n))
    BY <1>1, <1>2, SlotIs, PtmallocParts
  <2>2. PICK k \in Nat : k = n + Rear(l[j], n)
    BY <2>1
  <2>3. j \in 1 .. Len(l) /\ l[j].addr <= a /\ a + k = l[j].addr + l[j].size
    <3>1. j \in 1 .. Len(l)
      BY <1>2
    <3>2. l[j].addr <= a
      BY ONLY <2>1
    <3>3. a + k = l[j].addr + l[j].size
      BY ONLY <2>1, <2>2
    <3> QED BY <3>1, <3>2, <3>3
  <2>4. a \in Int /\ k \in Nat
    BY <2>1
  <2>5. {b \in UnitsOf(l) : a .. b \subseteq UnitsOf(l) /\ a <= b} = Units(a, k)
    BY ONLY <1>1, <2>3, <2>4, RunIs
  <2> QED BY <2>2, <2>5 DEF Abstract!RunFrom
<1>6. Abstract!Carve(UnitsOf(l), n, a)
        = IF Cardinality(Starts(Without(l, a, n))) > mapslots
          THEN UnitsOf(l) \ Units(a, n + Rear(l[j], n)) ELSE Without(l, a, n)
  <2>1. PICK r : r = Without(l, a, n)
    OBVIOUS
  <2>2. UnitsOf(l) \ Abstract!Units(a, n) = r
    BY <2>1, AbstractIs DEF Without
  <2>3. Abstract!Cardinality(Abstract!Starts(r)) = Cardinality(Starts(r))
    BY AbstractIs
  <2> QED BY <1>5, <2>1, <2>2, <2>3 DEF Abstract!Carve
<1> QED BY <1>3, <1>4, <1>6 DEF Without

\* The wakeup of the map reaches every sleeper, or there is none.
LEMMA WakeupIs ==
    ASSUME Sleeps, Wakeup
    PROVE  stat' = Abstract!Woken
BY DEF Sleeps, Wakeup, Abstract!Woken

\* The units that the refinement speaks of.
LEMMA FreeUnitsIs == FreeUnits = UnitsOf(mp.slots) /\ FreeUnits' = UnitsOf(mp'.slots)
BY DEF FreeUnits, UnitsOf

\* What rmalloc takes, in the set of units.
LEMMA RmallocIs ==
    ASSUME IInv, NEW n \in Nat \ {0}, NEW j, j = RmallocSlot(mp, n), j # 0,
           mp' = Shorten(mp, j, n)
    PROVE  /\ mp.slots[j].addr \in FreeUnits
           /\ Abstract!FirstFit(FreeUnits, n, mp.slots[j].addr)
           /\ FreeUnits' = FreeUnits \ Abstract!Units(mp.slots[j].addr, n)
<1>1. MapOK(mp)
  BY DEF IInv
<1>2. j \in 1 .. Len(mp.slots) /\ mp.slots[j].size >= n
  BY <1>1, RmallocSlotIs
<1>3. FirstFit(UnitsOf(mp.slots), n, mp.slots[j].addr)
  BY <1>1, RmallocFirst
<1>4. UnitsOf(mp'.slots) = Without(mp.slots, mp.slots[j].addr, n)
  BY <1>1, <1>2, ShortenIs
<1>5. mp.slots[j].addr \in UnitsOf(mp.slots)
  BY <1>3 DEF FirstFit, Fits
<1> QED BY <1>3, <1>4, <1>5, AbstractIs, FreeUnitsIs DEF Without

\* malloc(sptmap, n).
LEMMA ObtainMaps ==
    ASSUME IInv, NEW p \in Proc, NEW n \in Sizes, Obtain(p, n)
    PROVE  Abstract!Obtain(p, n)
<1>1. n \in Nat \ {0}
  BY MapAssumption
<1>2. PICK j : j = RmallocSlot(mp, n)
  OBVIOUS
<1>3. CASE j # 0
  <2>1. /\ mp' = Shorten(mp, j, n) /\ held' = held \cup {<<mp.slots[j].addr, n>>}
        /\ stat' = [stat EXCEPT ![p] = "user"] /\ req' = [req EXCEPT ![p] = 0]
    BY <1>2, <1>3 DEF Obtain
  <2>2. /\ mp.slots[j].addr \in FreeUnits
        /\ Abstract!FirstFit(FreeUnits, n, mp.slots[j].addr)
        /\ FreeUnits' = FreeUnits \ Abstract!Units(mp.slots[j].addr, n)
    BY <1>1, <1>2, <1>3, <2>1, RmallocIs
  <2> QED BY <2>1, <2>2 DEF Abstract!Obtain
<1>4. CASE j = 0
  <2>1. /\ stat' = [stat EXCEPT ![p] = "asleep"] /\ req' = [req EXCEPT ![p] = n]
        /\ UNCHANGED <<mp, held>>
    BY <1>2, <1>4 DEF Obtain
  <2>2. Ordered(mp.slots) /\ \A k \in 1 .. Len(mp.slots) : ~(mp.slots[k].size >= n)
    <3>1. MapOK(mp)
      BY DEF IInv
    <3>2. Ordered(mp.slots)
      BY <3>1, MapFacts
    <3>3. j = 0 /\ j = RmallocSlot(mp, n)
      BY <1>2, <1>4
    <3>4. \A k \in 1 .. Len(mp.slots) : ~(mp.slots[k].size >= n)
      BY ONLY <3>1, <3>3, RmallocSlotIs
    <3> QED BY <3>2, <3>4
  <2>3. Fits(UnitsOf(mp.slots), n) = {}
    BY <1>1, <2>2, NoSlotNoFit
  <2>4. FreeUnits' = FreeUnits /\ Abstract!Fits(FreeUnits, n) = {}
    BY <2>1, <2>3, AbstractIs, FreeUnitsIs
  <2> QED BY <2>1, <2>4 DEF Abstract!Obtain
<1> QED BY <1>3, <1>4

\* sptalloc.
LEMMA SptallocMaps ==
    ASSUME IInv, NEW n \in Sizes, Sptalloc(n)
    PROVE  Abstract!Sptalloc(n)
<1>1. n \in Nat \ {0}
  BY MapAssumption
<1>2. PICK j : j = RmallocSlot(mp, n)
  OBVIOUS
<1>3. /\ j # 0 /\ mp' = Shorten(mp, j, n) /\ held' = held \cup {<<mp.slots[j].addr, n>>}
      /\ UNCHANGED <<stat, req>>
  BY <1>2 DEF Sptalloc
<1>4. /\ mp.slots[j].addr \in FreeUnits
      /\ Abstract!FirstFit(FreeUnits, n, mp.slots[j].addr)
      /\ FreeUnits' = FreeUnits \ Abstract!Units(mp.slots[j].addr, n)
  BY <1>1, <1>2, <1>3, RmallocIs
<1> QED BY <1>3, <1>4 DEF Abstract!Sptalloc

\* Where ptmalloc's block is, and what remains, in the set of units.
LEMMA KsegTakes ==
    ASSUME IInv, NEW n \in Nat \ {0}, NEW j, j = PtmallocSlot(mp, n), j # 0,
           NEW a, a = AlignUp(mp.slots[j].addr), NEW m, m = Ptmalloc(mp, j, n)
    PROVE  /\ a \in FreeUnits /\ a \in Int /\ Abstract!FirstAligned(FreeUnits, n, a)
           /\ MapOK(m) /\ UnitsOf(m.slots) = Abstract!Carve(FreeUnits, n, a)
           /\ Units(a, n) \cap UnitsOf(m.slots) = {}
<1>1. MapOK(mp)
  BY DEF IInv
<1>2. /\ a \in Fits(UnitsOf(mp.slots), n) /\ a % npgpt = 0
      /\ \A b \in Fits(UnitsOf(mp.slots), n) : b % npgpt = 0 => a <= b
  BY <1>1, PtmallocFirst
<1>3. MapOK(m) /\ UnitsOf(m.slots) = Abstract!Carve(UnitsOf(mp.slots), n, a)
  BY <1>1, PtmallocCarves
<1>4. PICK b \in Int, k \in Nat : b = a /\ UnitsOf(m.slots) = Without(mp.slots, b, n + k)
  BY PtmallocStep
<1>5. Units(b, n) \subseteq Units(b, n + k)
  BY DEF Units
<1>6. Units(a, n) \cap UnitsOf(m.slots) = {}
  BY <1>4, <1>5 DEF Without
<1>7. Abstract!FirstAligned(FreeUnits, n, a)
  BY <1>2, AbstractIs, FreeUnitsIs DEF Abstract!FirstAligned
<1>8. a \in FreeUnits
  BY <1>2, FreeUnitsIs DEF Fits
<1> QED BY <1>3, <1>4, <1>6, <1>7, <1>8, FreeUnitsIs

\* kseg.
LEMMA KsegMaps ==
    ASSUME IInv, NEW n \in SegSizes, Kseg(n)
    PROVE  Abstract!Kseg(n)
<1>1. n \in Nat \ {0}
  BY MapAssumption DEF SegSizes
<1>2. PICK j, a : j = PtmallocSlot(mp, n) /\ a = AlignUp(mp.slots[j].addr)
  OBVIOUS
<1>3. /\ j # 0 /\ mp' = Ptmalloc(mp, j, n) /\ held' = held \cup {<<a, n>>}
      /\ Wakeup \/ UNCHANGED <<want, stat>>
      /\ req' = req
  BY <1>2 DEF Kseg
<1>4. /\ a \in FreeUnits /\ Abstract!FirstAligned(FreeUnits, n, a)
      /\ UnitsOf(mp'.slots) = Abstract!Carve(FreeUnits, n, a)
  BY <1>1, <1>2, <1>3, KsegTakes
<1>5. stat' \in {stat, Abstract!Woken}
  BY <1>3, WakeupIs DEF IInv
<1> QED BY <1>3, <1>4, <1>5, FreeUnitsIs DEF Abstract!Kseg

\* kseg that gives its block back.
LEMMA KsegRefusedMaps ==
    ASSUME IInv, NEW n \in SegSizes, KsegRefused(n)
    PROVE  Abstract!KsegRefused(n)
<1>1. n \in Nat \ {0}
  BY MapAssumption DEF SegSizes
<1>2. PICK j, a, m : /\ j = PtmallocSlot(mp, n) /\ a = AlignUp(mp.slots[j].addr)
                     /\ m = Ptmalloc(mp, j, n)
  OBVIOUS
<1>3. /\ j # 0 /\ mp' = Rmfree(m, n, a)
      /\ Wakeup \/ UNCHANGED <<want, stat>>
      /\ UNCHANGED <<held, req>>
  BY <1>2 DEF KsegRefused
<1>4. /\ a \in FreeUnits /\ a \in Int /\ Abstract!FirstAligned(FreeUnits, n, a)
      /\ MapOK(m) /\ UnitsOf(m.slots) = Abstract!Carve(FreeUnits, n, a)
      /\ Units(a, n) \cap UnitsOf(m.slots) = {}
  BY <1>1, <1>2, <1>3, KsegTakes
<1>5. UnitsOf(mp'.slots) = Release(UnitsOf(m.slots), n, a, mapslots)
  BY <1>1, <1>3, <1>4, RmfreeReleases
<1>6. stat' \in {stat, Abstract!Woken}
  BY <1>3, WakeupIs DEF IInv
<1>7. FreeUnits' = Abstract!Release(Abstract!Carve(FreeUnits, n, a), n, a, mapslots)
  BY <1>4, <1>5, FreeUnitsIs, AbstractIs
<1> QED BY <1>3, <1>4, <1>6, <1>7 DEF Abstract!KsegRefused

\* rmfree of a block.
LEMMA FreeMaps ==
    ASSUME IInv, NEW b \in held, Free(b)
    PROVE  Abstract!Free(b)
<1>1. PICK a \in Int, n \in Nat \ {0} : a = b[1] /\ n = b[2] /\ BlockUnits(b) = Units(a, n)
  <2>1. b[1] \in Int /\ b[2] \in Nat \ {0}
    BY DEF IInv, Apart, Blocks
  <2> QED BY <2>1 DEF BlockUnits
<1>2. /\ held' = held \ {b} /\ mp' = Rmfree(mp, n, a) /\ req' = req
      /\ (Overflows(mp, n, a) /\ UNCHANGED <<want, stat>>) \/ (~Overflows(mp, n, a) /\ Wakeup)
  BY <1>1 DEF Free
<1>3. Units(a, n) \cap UnitsOf(mp.slots) = {} /\ MapOK(mp) /\ a \in Units(a, n)
  BY <1>1 DEF IInv, Apart, Units
<1>4. /\ Overflows(mp, n, a) => mp' = mp
      /\ ~Overflows(mp, n, a) => UnitsOf(mp'.slots) = With(mp.slots, a, n)
  BY <1>2, <1>3, RmfreeIs
<1>5. UnitsOf(mp'.slots) = Release(UnitsOf(mp.slots), n, a, mapslots)
  BY <1>2, <1>3, RmfreeReleases
<1>6. FreeUnits' = Abstract!Release(FreeUnits, b[2], b[1], mapslots)
  BY <1>1, <1>5, AbstractIs, FreeUnitsIs
<1>7. FreeUnits' = FreeUnits <=> Overflows(mp, n, a)
  <2>1. a \notin UnitsOf(mp.slots)
    BY <1>3
  <2>2. ~Overflows(mp, n, a) => a \in UnitsOf(mp'.slots)
    BY <1>3, <1>4 DEF With
  <2> QED BY <1>4, <2>1, <2>2, FreeUnitsIs
<1>8. stat' = IF FreeUnits' = FreeUnits THEN stat ELSE Abstract!Woken
  BY <1>2, <1>7, WakeupIs DEF IInv
<1> QED BY <1>2, <1>6, <1>8 DEF Abstract!Free

\* The array of slots behaves like the set of its units: first fit, aligned
\* fit, joining, overflow and wakeups are those that FreeMap promises.
THEOREM RmapImplements == Spec => ImplementsFreeMap
<1>1. Init => Abstract!Init
  <2> SUFFICES ASSUME Init PROVE Abstract!Init
    OBVIOUS
  <2>1. ToSet(mp.slots) = {Slot(first, last - first + 1)}
    BY DEF Init, ToSet
  <2>2. FreeUnits = first .. last
    BY <2>1, MapAssumption DEF FreeUnits, Slot, End
  <2> QED BY <2>2, AbstractIs DEF Init, Abstract!Init, Space
<1>2. IInv /\ [Next]_vars => [Abstract!Next]_(Abstract!vars)
  <2> SUFFICES ASSUME IInv, [Next]_vars PROVE [Abstract!Next]_(Abstract!vars)
    OBVIOUS
  <2>1. ASSUME NEW p \in Proc, Retry(p) PROVE Abstract!Next
    <3>1. stat[p] = "run" /\ Obtain(p, req[p]) /\ req[p] \in Sizes
      BY <2>1 DEF Retry, IInv, Sleeps
    <3>2. Abstract!Obtain(p, req[p])
      BY <3>1, ObtainMaps
    <3> QED BY <3>1, <3>2 DEF Abstract!Retry, Abstract!Next
  <2>2. ASSUME NEW p \in Proc, NEW n \in Sizes, Mapin(p, n) PROVE Abstract!Next
    <3>1. stat[p] = "user" /\ Obtain(p, n)
      BY <2>2 DEF Mapin
    <3>2. Abstract!Obtain(p, n)
      BY <3>1, ObtainMaps
    <3> QED BY <3>1, <3>2 DEF Abstract!Mapin, Abstract!Next
  <2>3. ASSUME NEW n \in Sizes, Sptalloc(n) PROVE Abstract!Next
    BY <2>3, SptallocMaps DEF Abstract!Next
  <2>4. ASSUME NEW n \in SegSizes, Kseg(n) \/ KsegRefused(n) PROVE Abstract!Next
    BY <2>4, KsegMaps, KsegRefusedMaps, AbstractIs DEF Abstract!Next
  <2>5. ASSUME NEW b \in held, Free(b) PROVE Abstract!Next
    BY <2>5, FreeMaps DEF Abstract!Next
  <2>6. CASE UNCHANGED vars
    BY <2>6, FreeUnitsIs DEF vars, Abstract!vars
  <2> QED BY <2>1, <2>2, <2>3, <2>4, <2>5, <2>6 DEF Next
<1> QED BY Invariant, <1>1, <1>2, PTL DEF Spec, ImplementsFreeMap, Abstract!Spec
=============================================================================
