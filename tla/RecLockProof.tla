---------------------------- MODULE RecLockProof ----------------------------
(***************************************************************************)
(* Proofs about RecLock for any owners, files, requests and file size.     *)
(***************************************************************************)
EXTENDS RecLock, SequenceTheorems, FiniteSetTheorems, WellFoundedInduction, TLAPS

-----------------------------------------------------------------------------
(* Sequences and numbers.                                                  *)

\* A set of numbers that is not empty has a least one.
LEMMA LeastNumber ==
    ASSUME NEW I, I \subseteq Nat, I # {}
    PROVE  Min(I) \in I /\ \A k \in I : Min(I) <= k
<1> DEFINE R == OpToRel(<, Nat)
<1>1. IsWellFoundedOn(R, Nat)
  BY NatLessThanWellFounded
<1>2. PICK j \in I : \A k \in I : ~(<<k, j>> \in R)
  BY <1>1, WFMin
<1>3. \A k \in I : ~(k < j)
  BY <1>2 DEF OpToRel
<1>4. \A k \in I : j <= k
  BY <1>3
<1> QED BY <1>4 DEF Min

\* Induction over numbers, for a set of them.
LEMMA Induction ==
    ASSUME NEW m \in Int, NEW n \in Int, NEW S, m <= n => m \in S,
           \A k \in m .. n - 1 : k \in S => k + 1 \in S
    PROVE  m .. n \subseteq S
<1> DEFINE Bad == {d \in Nat : m + d <= n /\ m + d \notin S}
<1>1. SUFFICES Bad = {}
  <2> SUFFICES ASSUME NEW k \in m .. n PROVE k \in S
    OBVIOUS
  <2>1. k - m \in Nat /\ m + (k - m) = k /\ m + (k - m) <= n
    OBVIOUS
  <2>2. k - m \notin Bad
    BY <1>1
  <2> QED BY <2>1, <2>2
<1>2. SUFFICES ASSUME Bad # {} PROVE FALSE
  OBVIOUS
<1>3. PICK d \in Bad : \A e \in Bad : d <= e
  <2>1. Bad \subseteq Nat
    OBVIOUS
  <2> HIDE DEF Bad
  <2> QED BY <1>2, <2>1, LeastNumber
<1>4. d \in Nat /\ m + d <= n /\ m + d \notin S
  OBVIOUS
<1>5. d # 0
  BY <1>4
<1>6. d - 1 \in Nat /\ m + (d - 1) <= n /\ ~(d <= d - 1)
  BY <1>4, <1>5
<1>7. m + (d - 1) \in S
  BY <1>3, <1>6
<1>8. m + (d - 1) \in m .. n - 1 /\ m + (d - 1) + 1 = m + d
  BY <1>4, <1>6
<1> QED BY <1>4, <1>7, <1>8

\* RemoveAt closes the sequence up over element i.
LEMMA RemoveAtIs ==
    ASSUME NEW S, NEW s \in Seq(S), NEW i \in 1 .. Len(s)
    PROVE  /\ RemoveAt(s, i) \in Seq(S)
           /\ Len(RemoveAt(s, i)) = Len(s) - 1
           /\ \A k \in 1 .. Len(s) - 1 :
                RemoveAt(s, i)[k] = IF k < i THEN s[k] ELSE s[k + 1]
<1> DEFINE t == SubSeq(s, 1, i - 1)
           u == SubSeq(s, i + 1, Len(s))
           r == RemoveAt(s, i)
<1>1. /\ t \in Seq(S) /\ Len(t) = i - 1 /\ \A k \in 1 .. i - 1 : t[k] = s[k]
  BY SubSeqProperties
<1>2. /\ u \in Seq(S) /\ Len(u) = Len(s) - i /\ \A k \in 1 .. Len(s) - i : u[k] = s[i + k]
  BY SubSeqProperties
<1>3. r = t \o u
  BY DEF RemoveAt
<1> HIDE DEF t, u, r
<1>4. /\ r \in Seq(S) /\ Len(r) = Len(t) + Len(u)
      /\ \A k \in 1 .. Len(t) + Len(u) :
           r[k] = IF k <= Len(t) THEN t[k] ELSE u[k - Len(t)]
  BY <1>1, <1>2, <1>3, ConcatProperties
<1>5. ASSUME NEW k \in 1 .. Len(s) - 1
      PROVE  r[k] = IF k < i THEN s[k] ELSE s[k + 1]
  <2>1. Len(t) = i - 1 /\ k \in 1 .. Len(t) + Len(u)
    BY <1>1, <1>2
  <2>2. r[k] = IF k <= i - 1 THEN t[k] ELSE u[k - (i - 1)]
    BY <1>4, <2>1
  <2>3. CASE k < i
    BY <1>1, <2>3, <2>2
  <2>4. CASE k >= i
    <3>1. k - (i - 1) \in 1 .. Len(s) - i
      BY <2>4
    <3>2. u[k - (i - 1)] = s[i + (k - (i - 1))]
      BY <1>2, <3>1
    <3>3. i + (k - (i - 1)) = k + 1
      OBVIOUS
    <3> QED BY <2>4, <2>2, <3>2, <3>3
  <2> QED BY <2>3, <2>4
<1> QED BY <1>1, <1>2, <1>4, <1>5 DEF r

\* InsertAt moves the elements from i on one up.
LEMMA InsertAtIs ==
    ASSUME NEW S, NEW s \in Seq(S), NEW e \in S, NEW i \in 1 .. Len(s) + 1
    PROVE  /\ InsertAt(s, i, e) \in Seq(S)
           /\ Len(InsertAt(s, i, e)) = Len(s) + 1
           /\ \A k \in 1 .. Len(s) + 1 :
                InsertAt(s, i, e)[k] = IF k < i THEN s[k] ELSE IF k = i THEN e ELSE s[k - 1]
<1> DEFINE t == SubSeq(s, 1, i - 1)
           u == SubSeq(s, i, Len(s))
           v == t \o <<e>>
           r == InsertAt(s, i, e)
<1>1. /\ t \in Seq(S) /\ Len(t) = i - 1 /\ \A k \in 1 .. i - 1 : t[k] = s[k]
  BY SubSeqProperties
<1>2. /\ u \in Seq(S) /\ Len(u) = Len(s) - i + 1
      /\ \A k \in 1 .. Len(s) - i + 1 : u[k] = s[i + k - 1]
  BY SubSeqProperties
<1>3. r = v \o u
  BY DEF InsertAt
<1> HIDE DEF t, u, r
<1>4. /\ v \in Seq(S) /\ Len(v) = i
      /\ \A k \in 1 .. i : v[k] = IF k < i THEN s[k] ELSE e
  BY <1>1, ConcatProperties
<1> HIDE DEF v
<1>5. /\ r \in Seq(S) /\ Len(r) = Len(v) + Len(u)
      /\ \A k \in 1 .. Len(v) + Len(u) :
           r[k] = IF k <= Len(v) THEN v[k] ELSE u[k - Len(v)]
  BY <1>2, <1>3, <1>4, ConcatProperties
<1>6. ASSUME NEW k \in 1 .. Len(s) + 1
      PROVE  r[k] = IF k < i THEN s[k] ELSE IF k = i THEN e ELSE s[k - 1]
  <2>1. CASE k <= i
    BY <1>2, <1>4, <1>5, <2>1
  <2>2. CASE k > i
    <3>1. k - i \in 1 .. Len(s) - i + 1
      BY <2>2
    <3>2. u[k - i] = s[i + (k - i) - 1]
      BY <1>2, <3>1
    <3>3. i + (k - i) - 1 = k - 1
      OBVIOUS
    <3> QED BY <1>2, <1>4, <1>5, <2>2, <3>2, <3>3
  <2> QED BY <2>1, <2>2
<1> QED BY <1>2, <1>4, <1>5, <1>6 DEF r

-----------------------------------------------------------------------------
(* Lists of locks.                                                         *)

\* Locks of one owner lie apart, by a byte where their types are the same.
Gap(x, y) == IF x.type = y.type THEN 1 ELSE 0
Ahead(x, y) == x.end < y.start - Gap(x, y)
Apart(x, y) == Ahead(x, y) \/ Ahead(y, x)

\* A list in order; one in which each owner's locks lie apart.
Order(l) ==
    /\ l \in Seq(LockRecord)
    /\ \A i \in 1 .. Len(l) : l[i].start <= l[i].end
    /\ \A i, j \in 1 .. Len(l) : i < j => l[i].start <= l[j].start /\ Key(l[i]) # Key(l[j])
Good(l) ==
    /\ Order(l)
    /\ \A x, y \in ToSet(l) : x.own = y.own /\ x # y => Apart(x, y)

\* What a lock is, for the provers.
LEMMA LockIs ==
    ASSUME NEW x \in LockRecord
    PROVE  /\ x.own \in Proc /\ x.own # "none" /\ x.type \in {F_RDLCK, F_WRLCK}
           /\ x.start \in Int /\ 0 <= x.start /\ x.start <= maxend
           /\ x.end \in Int /\ 0 <= x.end /\ x.end <= maxend /\ x.wakeflg \in BOOLEAN
           /\ Key(x) = [own |-> x.own, start |-> x.start] /\ Key(x) # NoKey
           /\ x = [own |-> x.own, type |-> x.type, start |-> x.start, end |-> x.end,
                   wakeflg |-> x.wakeflg]
BY LockAssumption DEF LockRecord, Bytes, Key, NoKey

\* A key is an owner and a start.
LEMMA KeyIs ==
    ASSUME NEW x, NEW y
    PROVE  Key(x) = Key(y) <=> x.own = y.own /\ x.start = y.start
BY DEF Key

\* The members of a list.
LEMMA InList ==
    ASSUME NEW l \in Seq(LockRecord)
    PROVE  /\ Len(l) \in Nat
           /\ \A i \in 1 .. Len(l) : l[i] \in ToSet(l) /\ l[i] \in LockRecord
           /\ \A x \in ToSet(l) : x \in LockRecord /\ \E i \in 1 .. Len(l) : x = l[i]
BY DEF ToSet

\* Two lists with the same members.
LEMMA SameSet ==
    ASSUME NEW l \in Seq(LockRecord), NEW S,
           \A i \in 1 .. Len(l) : l[i] \in S,
           \A x \in S : \E i \in 1 .. Len(l) : x = l[i]
    PROVE  ToSet(l) = S
<1>1. \A x \in ToSet(l) : x \in S
  BY InList
<1>2. \A x \in S : x \in ToSet(l)
  BY InList
<1> QED BY <1>1, <1>2

\* In a list in order a key says which lock it is, and where.
LEMMA PlaceIs ==
    ASSUME NEW l, Order(l), NEW i \in 1 .. Len(l)
    PROVE  Place(l, Key(l[i])) = i
<1> DEFINE I == {j \in 1 .. Len(l) : Key(l[j]) = Key(l[i])}
<1>1. l \in Seq(LockRecord) /\ Len(l) \in Nat
  BY DEF Order
<1>2. I = {i}
  <2>1. ASSUME NEW j \in I PROVE j = i
    <3>1. j \in 1 .. Len(l) /\ Key(l[j]) = Key(l[i])
      OBVIOUS
    <3>2. ~(j < i) /\ ~(i < j)
      BY <3>1 DEF Order
    <3> QED BY <1>1, <3>1, <3>2
  <2> QED BY <2>1
<1>3. I \subseteq Nat /\ I # {}
  BY <1>1, <1>2
<1>4. Min(I) \in I
  BY <1>3, LeastNumber
<1>5. Place(l, Key(l[i])) = Min(I)
  BY <1>3 DEF Place, SelectInSeq
<1> QED BY <1>2, <1>4, <1>5

\* A key of no lock has no place.
LEMMA NoPlace ==
    ASSUME NEW l, Order(l), NEW k, \A x \in ToSet(l) : Key(x) # k
    PROVE  Place(l, k) = 0
<1>1. l \in Seq(LockRecord)
  BY DEF Order
<1>2. {j \in 1 .. Len(l) : Key(l[j]) = k} = {}
  BY <1>1, InList
<1> QED BY <1>2 DEF Place, SelectInSeq

\* Two locks of a list with the same key are one.
LEMMA SameKey ==
    ASSUME NEW l, Order(l), NEW x \in ToSet(l), NEW y \in ToSet(l), Key(x) = Key(y)
    PROVE  x = y
<1>1. l \in Seq(LockRecord)
  BY DEF Order
<1>2. PICK i \in 1 .. Len(l) : x = l[i]
  BY <1>1, InList
<1>3. PICK j \in 1 .. Len(l) : y = l[j]
  BY <1>1, InList
<1> QED BY <1>1, <1>2, <1>3, PlaceIs

\* Without its lock i the list is in order.
LEMMA RemoveOrder ==
    ASSUME NEW l, Order(l), NEW i \in 1 .. Len(l)
    PROVE  Order(RemoveAt(l, i)) /\ ToSet(RemoveAt(l, i)) = ToSet(l) \ {l[i]}
<1> DEFINE r == RemoveAt(l, i)
           At(k) == IF k < i THEN k ELSE k + 1
<1>1. l \in Seq(LockRecord) /\ Len(l) \in Nat
  BY DEF Order
<1>2. /\ r \in Seq(LockRecord) /\ Len(r) = Len(l) - 1
      /\ \A k \in 1 .. Len(l) - 1 : r[k] = IF k < i THEN l[k] ELSE l[k + 1]
  BY <1>1, RemoveAtIs
<1> HIDE DEF r
<1>3. ASSUME NEW k \in 1 .. Len(r)
      PROVE  At(k) \in 1 .. Len(l) /\ At(k) # i /\ r[k] = l[At(k)]
  BY <1>1, <1>2
<1>4. \A j, k \in 1 .. Len(r) : j < k => At(j) < At(k)
  BY <1>1, <1>2
<1>5. Order(r)
  <2> HIDE DEF At
  <2>1. \A k \in 1 .. Len(r) : r[k].start <= r[k].end
    BY <1>3 DEF Order
  <2>2. \A j, k \in 1 .. Len(r) : j < k => r[j].start <= r[k].start /\ Key(r[j]) # Key(r[k])
    BY <1>3, <1>4 DEF Order
  <2> QED BY <1>2, <2>1, <2>2 DEF Order
<1>6. \A j \in 1 .. Len(l) : j # i => \E k \in 1 .. Len(r) : j = At(k)
  <2> SUFFICES ASSUME NEW j \in 1 .. Len(l), j # i PROVE \E k \in 1 .. Len(r) : j = At(k)
    OBVIOUS
  <2>1. CASE j < i
    BY <1>1, <1>2, <2>1
  <2>2. CASE j > i
    <3>1. j - 1 \in 1 .. Len(r) /\ j = At(j - 1)
      BY <1>1, <1>2, <2>2
    <3> QED BY <3>1
  <2> QED BY <2>1, <2>2
<1>7. \A j \in 1 .. Len(l) : j # i => l[j] # l[i]
  <2> SUFFICES ASSUME NEW j \in 1 .. Len(l), j # i PROVE l[j] # l[i]
    OBVIOUS
  <2>1. CASE j < i
    BY <2>1 DEF Order
  <2>2. CASE i < j
    BY <2>2 DEF Order
  <2> QED BY <1>1, <2>1, <2>2
<1>8. ToSet(r) = ToSet(l) \ {l[i]}
  <2> HIDE DEF At
  <2>1. ASSUME NEW k \in 1 .. Len(r)
        PROVE  r[k] \in ToSet(l) \ {l[i]}
    BY <1>1, <1>3, <1>7, InList
  <2>2. ASSUME NEW x \in ToSet(l) \ {l[i]}
        PROVE  \E k \in 1 .. Len(r) : x = r[k]
    <3>1. PICK j \in 1 .. Len(l) : x = l[j]
      BY <1>1, InList
    <3>2. PICK k \in 1 .. Len(r) : j = At(k)
      BY <1>6, <3>1
    <3> QED BY <1>3, <3>1, <3>2
  <2> QED BY <1>2, <2>1, <2>2, SameSet
<1> QED BY <1>5, <1>8 DEF r

\* A lock of the list may end earlier, or be marked otherwise.
LEMMA ReplaceOrder ==
    ASSUME NEW l, Order(l), NEW i \in 1 .. Len(l), NEW g \in LockRecord,
           Key(g) = Key(l[i]), g.start <= g.end
    PROVE  /\ Order([l EXCEPT ![i] = g])
           /\ ToSet([l EXCEPT ![i] = g]) = (ToSet(l) \ {l[i]}) \cup {g}
<1> DEFINE r == [l EXCEPT ![i] = g]
<1>1. l \in Seq(LockRecord) /\ Len(l) \in Nat
  BY DEF Order
<1>2. /\ r \in Seq(LockRecord) /\ Len(r) = Len(l)
      /\ \A k \in 1 .. Len(l) : r[k] = IF k = i THEN g ELSE l[k]
  BY <1>1
<1> HIDE DEF r
<1>3. \A k \in 1 .. Len(l) : r[k].start = l[k].start /\ Key(r[k]) = Key(l[k])
  BY <1>2, KeyIs
<1>4. Order(r)
  BY <1>1, <1>2, <1>3 DEF Order
<1>5. \A j \in 1 .. Len(l) : j # i => l[j] # l[i]
  <2> SUFFICES ASSUME NEW j \in 1 .. Len(l), j # i PROVE l[j] # l[i]
    OBVIOUS
  <2>1. CASE j < i
    BY <2>1 DEF Order
  <2>2. CASE i < j
    BY <2>2 DEF Order
  <2> QED BY <1>1, <2>1, <2>2
<1>6. ToSet(r) = (ToSet(l) \ {l[i]}) \cup {g}
  <2>1. ASSUME NEW k \in 1 .. Len(r)
        PROVE  r[k] \in (ToSet(l) \ {l[i]}) \cup {g}
    BY <1>1, <1>2, <1>5, InList
  <2>2. ASSUME NEW x \in (ToSet(l) \ {l[i]}) \cup {g}
        PROVE  \E k \in 1 .. Len(r) : x = r[k]
    <3>1. CASE x = g
      BY <1>1, <1>2, <3>1
    <3>2. CASE x # g
      <4>1. PICK j \in 1 .. Len(l) : x = l[j]
        BY <1>1, <3>2, InList
      <4> QED BY <1>1, <1>2, <3>2, <4>1
    <3> QED BY <3>1, <3>2
  <2> QED BY <1>2, <2>1, <2>2, SameSet
<1> QED BY <1>4, <1>6 DEF r

\* insflck behind x: the place where new comes.
LEMMA InsertPlace ==
    ASSUME NEW l, Order(l), NEW i \in 1 .. Len(l), NEW new \in LockRecord,
           l[i].start <= new.start
    PROVE  \E m \in i + 1 .. Len(l) + 1 :
             /\ InsertFrom(l, Key(l[i]), new) = InsertAt(l, m, new)
             /\ \A j \in 1 .. m - 1 : l[j].start <= new.start
             /\ \A j \in m .. Len(l) : l[j].start >= new.start
<1> DEFINE k == Key(l[i])
           OK(h) == \A j \in i + 1 .. h : l[j].start < new.start
           ok == {h \in i .. Len(l) : OK(h)}
           c == CHOOSE h \in ok : \A j \in ok : j <= h
<1>1. l \in Seq(LockRecord) /\ Len(l) \in Nat /\ new.start \in Int
  BY LockIs DEF Order
<1>2. \A j \in 1 .. Len(l) : l[j].start \in Int /\ Key(l[j]) # NoKey
  BY <1>1, InList, LockIs
<1>3. InsertFrom(l, k, new) = InsertAt(l, c + 1, new)
  BY <1>2, PlaceIs DEF InsertFrom
<1>4. i \in ok
  BY <1>1
<1>5. \E h \in ok : \A j \in ok : j <= h
  <2> DEFINE D == {d \in Nat : Len(l) - d \in ok}
  <2>1. Len(l) - i \in D
    BY <1>1, <1>4
  <2>2. PICK d \in D : \A e \in D : d <= e
    <3>1. D \subseteq Nat
      OBVIOUS
    <3> HIDE DEF D
    <3> QED BY <2>1, <3>1, LeastNumber
  <2>3. d \in Nat /\ Len(l) - d \in ok
    OBVIOUS
  <2>4. ASSUME NEW j \in ok PROVE j <= Len(l) - d
    <3>1. j \in i .. Len(l)
      OBVIOUS
    <3>2. Len(l) - j \in Nat /\ Len(l) - (Len(l) - j) = j
      BY <1>1, <3>1
    <3>3. Len(l) - j \in D
      BY <3>2
    <3>4. d <= Len(l) - j
      BY <2>2, <3>3
    <3> QED BY <1>1, <2>3, <3>1, <3>4
  <2> QED BY <2>3, <2>4
<1>6. c \in ok /\ \A j \in ok : j <= c
  <2> HIDE DEF ok
  <2> QED BY <1>5
<1> HIDE DEF c
<1>7. c \in i .. Len(l) /\ OK(c)
  BY <1>6
<1>8. ASSUME NEW j \in 1 .. c PROVE l[j].start <= new.start
  <2>1. CASE j <= i
    <3>1. l[j].start <= l[i].start
      BY <1>1, <1>2, <2>1 DEF Order
    <3> QED BY <1>1, <1>2, <1>7, <3>1
  <2>2. CASE j > i
    <3>1. j \in i + 1 .. c
      BY <1>7, <2>2
    <3> QED BY <1>1, <1>2, <1>7, <3>1
  <2> QED BY <1>7, <2>1, <2>2
<1>9. ASSUME NEW j \in c + 1 .. Len(l) PROVE l[j].start >= new.start
  <2>1. c + 1 \in i .. Len(l) /\ c + 1 \notin ok
    BY <1>1, <1>6, <1>7
  <2>2. PICK h \in i + 1 .. c + 1 : ~(l[h].start < new.start)
    BY <2>1
  <2>3. h = c + 1
    <3>1. h \notin i + 1 .. c
      BY <1>7, <2>2
    <3> QED BY <1>7, <3>1
  <2>4. l[c + 1].start >= new.start
    BY <1>1, <1>2, <1>7, <2>1, <2>2, <2>3
  <2>5. l[c + 1].start <= l[j].start
    BY <1>1, <1>2, <1>7, <2>1 DEF Order
  <2> QED BY <1>1, <1>2, <1>7, <2>1, <2>4, <2>5
<1>10. c + 1 \in i + 1 .. Len(l) + 1 /\ (c + 1) - 1 = c
  BY <1>1, <1>7
<1> QED BY <1>3, <1>8, <1>9, <1>10

\* A new lock at a place where it is in order.
LEMMA InsertOrder ==
    ASSUME NEW l, Order(l), NEW m \in 1 .. Len(l) + 1, NEW new \in LockRecord,
           new.start <= new.end, \A x \in ToSet(l) : Key(x) # Key(new),
           \A j \in 1 .. m - 1 : l[j].start <= new.start,
           \A j \in m .. Len(l) : l[j].start >= new.start
    PROVE  Order(InsertAt(l, m, new)) /\ ToSet(InsertAt(l, m, new)) = ToSet(l) \cup {new}
<1> DEFINE r == InsertAt(l, m, new)
           At(k) == IF k < m THEN k ELSE k - 1
<1>1. l \in Seq(LockRecord) /\ Len(l) \in Nat
  BY DEF Order
<1>2. /\ r \in Seq(LockRecord) /\ Len(r) = Len(l) + 1
      /\ \A k \in 1 .. Len(l) + 1 : r[k] = IF k < m THEN l[k] ELSE IF k = m THEN new ELSE l[k - 1]
  BY <1>1, InsertAtIs
<1> HIDE DEF r
<1>3. r[m] = new /\ m \in 1 .. Len(r)
  BY <1>1, <1>2
<1>4. ASSUME NEW k \in 1 .. Len(r), k # m
      PROVE  At(k) \in 1 .. Len(l) /\ r[k] = l[At(k)] /\ (k < m => At(k) \in 1 .. m - 1)
             /\ (k > m => At(k) \in m .. Len(l))
  BY <1>1, <1>2, <1>4
<1>5. \A j, k \in 1 .. Len(r) : j # m /\ k # m /\ j < k => At(j) < At(k)
  BY <1>1, <1>2
<1>6. \A k \in 1 .. Len(l) : Key(l[k]) # Key(new)
  BY <1>1, InList
<1> HIDE DEF At
<1>7. ASSUME NEW k \in 1 .. Len(r) PROVE r[k].start <= r[k].end
  BY <1>3, <1>4 DEF Order
<1>8. ASSUME NEW j \in 1 .. Len(r), NEW k \in 1 .. Len(r), j < k
      PROVE  r[j].start <= r[k].start /\ Key(r[j]) # Key(r[k])
  <2>1. CASE j # m /\ k # m
    BY <1>4, <1>5, <1>8, <2>1 DEF Order
  <2>2. CASE j = m
    <3>1. k > m /\ k # m
      BY <1>1, <1>2, <1>8, <2>2
    <3>2. At(k) \in m .. Len(l) /\ r[k] = l[At(k)] /\ At(k) \in 1 .. Len(l)
      BY <1>4, <3>1
    <3>3. l[At(k)].start \in Int /\ new.start \in Int
      BY <1>1, <3>2, InList, LockIs
    <3> QED BY <1>3, <1>6, <2>2, <3>2, <3>3
  <2>3. CASE k = m
    <3>1. j < m /\ j # m
      BY <1>1, <1>2, <1>8, <2>3
    <3>2. At(j) \in 1 .. m - 1 /\ r[j] = l[At(j)] /\ At(j) \in 1 .. Len(l)
      BY <1>4, <3>1
    <3> QED BY <1>3, <1>6, <2>3, <3>2
  <2> QED BY <2>1, <2>2, <2>3
<1>9. Order(r)
  BY <1>2, <1>7, <1>8 DEF Order
<1>10. ToSet(r) = ToSet(l) \cup {new}
  <2>1. ASSUME NEW k \in 1 .. Len(r)
        PROVE  r[k] \in ToSet(l) \cup {new}
    BY <1>1, <1>3, <1>4, InList
  <2>2. ASSUME NEW x \in ToSet(l) \cup {new}
        PROVE  \E k \in 1 .. Len(r) : x = r[k]
    <3>1. CASE x = new
      BY <1>3, <3>1
    <3>2. CASE x # new
      <4>1. PICK j \in 1 .. Len(l) : x = l[j]
        BY <1>1, <3>2, InList
      <4>2. CASE j < m
        BY <1>1, <1>2, <4>1, <4>2
      <4>3. CASE j >= m
        <5>1. j + 1 \in 1 .. Len(r) /\ ~(j + 1 < m) /\ j + 1 # m /\ (j + 1) - 1 = j
          BY <1>1, <1>2, <4>3
        <5> QED BY <1>2, <4>1, <5>1
      <4> QED BY <1>1, <4>2, <4>3
    <3> QED BY <3>1, <3>2
  <2> QED BY <1>2, <2>1, <2>2, SameSet
<1> QED BY <1>9, <1>10 DEF r

\* Where insflck may begin: at the head of a list that starts later, or at a
\* lock that does not.
From(S, k, first) ==
    \/ k = NoKey /\ \A x \in S : x.start >= first
    \/ \E x \in S : Key(x) = k /\ x.start <= first

\* insflck puts a new lock in order.
LEMMA InsertFromIs ==
    ASSUME NEW l, Order(l), NEW k, NEW new \in LockRecord, new.start <= new.end,
           \A x \in ToSet(l) : Key(x) # Key(new), From(ToSet(l), k, new.start)
    PROVE  /\ Order(InsertFrom(l, k, new))
           /\ ToSet(InsertFrom(l, k, new)) = ToSet(l) \cup {new}
<1>1. l \in Seq(LockRecord) /\ Len(l) \in Nat
  BY DEF Order
<1>2. CASE k = NoKey /\ \A x \in ToSet(l) : x.start >= new.start
  <2>1. InsertFrom(l, k, new) = InsertAt(l, 1, new)
    BY <1>2 DEF InsertFrom
  <2>2. 1 \in 1 .. Len(l) + 1 /\ (\A j \in 1 .. 1 - 1 : FALSE)
    BY <1>1
  <2>3. \A j \in 1 .. Len(l) : l[j].start >= new.start
    BY <1>1, <1>2, InList
  <2> QED BY <2>1, <2>2, <2>3, InsertOrder
<1>3. CASE \E x \in ToSet(l) : Key(x) = k /\ x.start <= new.start
  <2>1. PICK i \in 1 .. Len(l) : Key(l[i]) = k /\ l[i].start <= new.start
    BY <1>1, <1>3, InList
  <2>2. PICK m \in i + 1 .. Len(l) + 1 :
          /\ InsertFrom(l, k, new) = InsertAt(l, m, new)
          /\ \A j \in 1 .. m - 1 : l[j].start <= new.start
          /\ \A j \in m .. Len(l) : l[j].start >= new.start
    BY <2>1, InsertPlace
  <2>3. m \in 1 .. Len(l) + 1
    BY <1>1
  <2> QED BY <2>2, <2>3, InsertOrder
<1> QED BY <1>2, <1>3 DEF From

-----------------------------------------------------------------------------
(* flckadj, one step.                                                      *)

KeyT == [own : Proc, start : Bytes] \cup {NoKey}
WalkT == [list : Seq(LockRecord), ld : Request, ins : KeyT, go : BOOLEAN,
          woken : SUBSET KeyT, mem : Int, done : BOOLEAN]

\* What a request is, for the provers.
LEMMA RequestIs ==
    ASSUME NEW r \in Request
    PROVE  /\ r.file \in File /\ r.type \in {F_RDLCK, F_WRLCK, F_UNLCK}
           /\ r.start \in Int /\ 0 <= r.start /\ r.start <= maxend
           /\ r.end \in Int /\ 0 <= r.end /\ r.end <= maxend /\ r.start <= r.end
BY LockAssumption DEF Request, Bytes, LockType

\* The key of a lock.
LEMMA KeyInKeys ==
    ASSUME NEW x \in LockRecord
    PROVE  Key(x) \in KeyT /\ Key(x) # NoKey
BY LockAssumption, LockIs DEF Key, KeyT, NoKey, Bytes

\* The lock before another one, if there is one, starts no later and is not
\* that one; and if there is none the others start no earlier.
LEMMA PrevOfIs ==
    ASSUME NEW l, Order(l), NEW f \in ToSet(l)
    PROVE  /\ PrevOf(l, Key(f)) \in KeyT
           /\ From(ToSet(l) \ {f}, PrevOf(l, Key(f)), f.start)
<1>1. l \in Seq(LockRecord) /\ Len(l) \in Nat
  BY DEF Order
<1>2. PICK i \in 1 .. Len(l) : f = l[i]
  BY <1>1, InList
<1>3. Place(l, Key(f)) = i
  BY <1>2, PlaceIs
<1>4. \A j \in 1 .. Len(l) : l[j] \in LockRecord /\ l[j].start \in Int
  BY <1>1, InList, LockIs
<1>5. CASE i = 1
  <2>1. PrevOf(l, Key(f)) = NoKey
    BY <1>3, <1>5 DEF PrevOf
  <2>2. ASSUME NEW x \in ToSet(l) \ {f} PROVE x.start >= f.start
    <3>1. PICK j \in 1 .. Len(l) : x = l[j]
      BY <1>1, InList
    <3>2. i < j
      BY <1>2, <1>5, <3>1
    <3> QED BY <1>2, <1>4, <3>1, <3>2 DEF Order
  <2> QED BY <2>1, <2>2 DEF From, KeyT
<1>6. CASE i # 1
  <2>1. i - 1 \in 1 .. Len(l) /\ i - 1 < i
    BY <1>1, <1>6
  <2>2. PrevOf(l, Key(f)) = Key(l[i - 1])
    BY <1>3, <1>6 DEF PrevOf
  <2>3. l[i - 1].start <= f.start /\ Key(l[i - 1]) # Key(f)
    BY <1>2, <2>1 DEF Order
  <2>4. l[i - 1] \in ToSet(l) \ {f}
    BY <1>1, <2>1, <2>3, InList
  <2>5. Key(l[i - 1]) \in KeyT
    BY <1>4, <2>1, KeyInKeys
  <2> QED BY <2>2, <2>3, <2>4, <2>5 DEF From
<1> QED BY <1>5, <1>6

\* WAKEUP of a lock.
LEMMA WakesIs ==
    ASSUME NEW a \in WalkT, NEW f \in LockRecord
    PROVE  /\ Wakes(a, f) \in SUBSET KeyT /\ a.woken \subseteq Wakes(a, f)
           /\ f.wakeflg => Key(f) \in Wakes(a, f)
BY KeyInKeys DEF Wakes, WalkT

\* delflck.
LEMMA DeleteIs ==
    ASSUME NEW a \in WalkT, Order(a.list), NEW f \in ToSet(a.list)
    PROVE  /\ Delete(a, f) \in WalkT /\ Order(Delete(a, f).list)
           /\ ToSet(Delete(a, f).list) = ToSet(a.list) \ {f}
           /\ Delete(a, f).woken = Wakes(a, f)
           /\ Delete(a, f).ld = a.ld /\ Delete(a, f).ins = a.ins /\ Delete(a, f).go = a.go
           /\ Delete(a, f).mem = a.mem /\ Delete(a, f).done = a.done
<1>1. a.list \in Seq(LockRecord)
  BY DEF Order
<1>2. PICK i \in 1 .. Len(a.list) : f = a.list[i]
  BY <1>1, InList
<1>3. Place(a.list, Key(f)) = i
  BY <1>2, PlaceIs
<1>4. f \in LockRecord
  BY <1>1, InList
<1> DEFINE l == RemoveAt(a.list, i)
           w == Wakes(a, f)
<1>5. Order(l) /\ ToSet(l) = ToSet(a.list) \ {f}
  BY <1>2, RemoveOrder
<1>6. l \in Seq(LockRecord) /\ w \in SUBSET KeyT
  BY <1>4, <1>5, WakesIs DEF Order
<1>7. Delete(a, f) = [a EXCEPT !.list = l, !.woken = w]
  BY <1>3 DEF Delete
<1> HIDE DEF l, w
<1>8. /\ Delete(a, f) \in WalkT
      /\ Delete(a, f).list = l /\ Delete(a, f).woken = w
      /\ Delete(a, f).ld = a.ld /\ Delete(a, f).ins = a.ins /\ Delete(a, f).go = a.go
      /\ Delete(a, f).mem = a.mem /\ Delete(a, f).done = a.done
  BY ONLY <1>6, <1>7, a \in WalkT DEF WalkT
<1> QED BY <1>5, <1>8 DEF w

\* A lock f made to end earlier.
Short(f, e) == [f EXCEPT !.end = e, !.wakeflg = FALSE]
Shortened(a, f, e) ==
    [a EXCEPT !.list[Place(a.list, Key(f))] = Short(f, e), !.woken = Wakes(a, f), !.ins = Key(f)]
\* It keeps the list in order, and wakes its sleepers.
LEMMA ShortenIs ==
    ASSUME NEW a \in WalkT, Order(a.list), NEW f \in ToSet(a.list), NEW e \in Bytes,
           f.start <= e
    PROVE  LET g == Short(f, e)
               s == Shortened(a, f, e)
           IN  /\ g \in LockRecord /\ Key(g) = Key(f) /\ g.own = f.own /\ g.type = f.type
               /\ g.start = f.start /\ g.end = e
               /\ s \in WalkT /\ Order(s.list) /\ ToSet(s.list) = (ToSet(a.list) \ {f}) \cup {g}
               /\ s.woken = Wakes(a, f) /\ s.ld = a.ld /\ s.ins = Key(f) /\ s.go = a.go
               /\ s.mem = a.mem /\ s.done = a.done
<1>1. a.list \in Seq(LockRecord)
  BY DEF Order
<1>2. PICK i \in 1 .. Len(a.list) : f = a.list[i]
  BY <1>1, InList
<1>3. Place(a.list, Key(f)) = i
  BY <1>2, PlaceIs
<1>4. f \in LockRecord
  BY <1>1, InList
<1> DEFINE g == Short(f, e)
           l == [a.list EXCEPT ![i] = g]
           w == Wakes(a, f)
           k == Key(f)
           s == [a EXCEPT !.list = l, !.woken = w, !.ins = k]
<1>5. /\ g \in LockRecord /\ g.own = f.own /\ g.type = f.type
      /\ g.start = f.start /\ g.end = e
  BY ONLY <1>4, e \in Bytes DEF LockRecord, Short
<1>6. Key(g) = Key(f)
  BY <1>5, KeyIs
<1> HIDE DEF g
<1>7. Order(l) /\ ToSet(l) = (ToSet(a.list) \ {f}) \cup {g}
  BY <1>2, <1>5, <1>6, ReplaceOrder
<1>8. l \in Seq(LockRecord) /\ w \in SUBSET KeyT /\ k \in KeyT
  BY <1>4, <1>7, WakesIs, KeyInKeys DEF Order
<1> HIDE DEF l, w, k
<1>9. /\ s \in WalkT /\ s.list = l /\ s.woken = w /\ s.ins = k
      /\ s.ld = a.ld /\ s.go = a.go /\ s.mem = a.mem /\ s.done = a.done
  BY ONLY <1>8, a \in WalkT DEF WalkT
<1>10. s = Shortened(a, f, e)
  BY <1>3 DEF l, w, k, g, Shortened
<1> HIDE DEF s
<1> QED BY <1>5, <1>6, <1>7, <1>9, <1>10 DEF g, w, k

\* The lock that grew over f.
Lo(ld, f) == IF f.start < ld.start THEN f.start ELSE ld.start
Hi(ld, f) == IF f.end > ld.end THEN f.end ELSE ld.end
Covers(f, ld) == f.start <= ld.start /\ ld.end <= f.end

\* Coalesce with a lock that covers it: the walk is over.
LEMMA CoalesceCovered ==
    ASSUME NEW a \in WalkT, NEW f, Covers(f, a.ld)
    PROVE  LET c == Coalesce(a, f)
           IN  /\ c \in WalkT /\ c.list = a.list /\ c.woken = a.woken /\ c.ld = a.ld
               /\ c.ins = a.ins /\ c.mem = a.mem /\ c.go = FALSE /\ c.done = TRUE
<1>1. Coalesce(a, f) = [a EXCEPT !.go = FALSE, !.done = TRUE]
  BY DEF Coalesce, Covers
<1> QED BY ONLY <1>1, a \in WalkT DEF WalkT

\* Coalesce with another one.
LEMMA CoalesceIs ==
    ASSUME NEW a \in WalkT, Order(a.list), NEW f \in ToSet(a.list), f.start <= f.end,
           ~Covers(f, a.ld)
    PROVE  LET c == Coalesce(a, f)
           IN  /\ c \in WalkT /\ Order(c.list) /\ ToSet(c.list) = ToSet(a.list) \ {f}
               /\ c.woken = Wakes(a, f) /\ c.mem = a.mem /\ c.done = a.done
               /\ c.ld.type = a.ld.type /\ c.ld.start = Lo(a.ld, f) /\ c.ld.end = Hi(a.ld, f)
               /\ c.ins = (IF f.start <= a.ld.start THEN PrevOf(a.list, Key(f)) ELSE a.ins)
               /\ c.go = (a.ld.end > f.end)
<1> DEFINE d == Delete(a, f)
           k == IF f.start <= a.ld.start THEN PrevOf(a.list, Key(f)) ELSE a.ins
           lo == Lo(a.ld, f)
           hi == Hi(a.ld, f)
           c == [d EXCEPT !.ld.start = lo, !.ld.end = hi, !.ins = k, !.go = a.ld.end > f.end]
<1>1. /\ d \in WalkT /\ Order(d.list)
      /\ ToSet(d.list) = ToSet(a.list) \ {f} /\ d.woken = Wakes(a, f)
      /\ d.ld = a.ld /\ d.ins = a.ins /\ d.go = a.go /\ d.mem = a.mem /\ d.done = a.done
  BY DeleteIs
<1>2. a.ld \in Request /\ a.ins \in KeyT
  BY DEF WalkT
<1>3. f \in LockRecord
  BY InList DEF Order
<1>4. k \in KeyT
  BY <1>2, PrevOfIs
<1>5. lo \in Bytes /\ hi \in Bytes /\ lo <= hi
  BY <1>2, <1>3, RequestIs, LockIs DEF Lo, Hi, Bytes
<1>6. Coalesce(a, f) = c
  BY <1>1 DEF Coalesce, Covers, Lo, Hi
<1> HIDE DEF d, k, lo, hi
<1>7. /\ d.ld \in Request /\ [d.ld EXCEPT !.start = lo, !.end = hi] \in Request
      /\ [d.ld EXCEPT !.start = lo, !.end = hi].start = lo
      /\ [d.ld EXCEPT !.start = lo, !.end = hi].end = hi
      /\ [d.ld EXCEPT !.start = lo, !.end = hi].type = d.ld.type
  <2>1. d.ld \in Request
    BY <1>1, <1>2
  <2> QED BY ONLY <2>1, <1>5 DEF Request
<1>8. c = [d EXCEPT !.ld = [d.ld EXCEPT !.start = lo, !.end = hi], !.ins = k,
                    !.go = a.ld.end > f.end]
  BY ONLY <1>1 DEF WalkT
<1>9. /\ c \in WalkT /\ c.list = d.list /\ c.woken = d.woken /\ c.mem = d.mem
      /\ c.done = d.done /\ c.ld = [d.ld EXCEPT !.start = lo, !.end = hi]
      /\ c.ins = k /\ c.go = (a.ld.end > f.end)
  <2> DEFINE m == [d.ld EXCEPT !.start = lo, !.end = hi]
             g == a.ld.end > f.end
  <2>1. m \in Request /\ g \in BOOLEAN
    BY <1>7
  <2>2. c = [d EXCEPT !.ld = m, !.ins = k, !.go = g]
    BY <1>8
  <2> HIDE DEF m, g, c
  <2>3. /\ c \in WalkT /\ c.list = d.list /\ c.woken = d.woken /\ c.mem = d.mem
        /\ c.done = d.done /\ c.ld = m /\ c.ins = k /\ c.go = g
    BY ONLY <2>1, <2>2, <1>1, <1>4 DEF WalkT
  <2> QED BY <2>3 DEF m, g
<1> HIDE DEF c
<1> QED BY <1>1, <1>6, <1>7, <1>9 DEF k, lo, hi

\* The part of f behind ld, as a lock of its own.
Piece(f, ld) == [f EXCEPT !.start = ld.end + 1, !.wakeflg = FALSE]
\* It is a lock.
LEMMA PieceIs ==
    ASSUME NEW f \in LockRecord, NEW ld \in Request, f.start <= ld.end, ld.end < f.end
    PROVE  /\ Piece(f, ld) \in LockRecord /\ Piece(f, ld).own = f.own
           /\ Piece(f, ld).type = f.type /\ Piece(f, ld).start = ld.end + 1
           /\ Piece(f, ld).end = f.end /\ Key(Piece(f, ld)) # Key(f)
<1>1. f.start \in Int /\ f.end <= maxend /\ ld.end \in Int /\ 0 <= ld.end /\ f.end \in Int
  BY LockIs, RequestIs
<1>2. ld.end + 1 \in Bytes
  BY <1>1, LockAssumption DEF Bytes
<1>3. /\ Piece(f, ld) \in LockRecord /\ Piece(f, ld).own = f.own
      /\ Piece(f, ld).type = f.type /\ Piece(f, ld).start = ld.end + 1
      /\ Piece(f, ld).end = f.end
  BY ONLY <1>2, f \in LockRecord DEF LockRecord, Piece
<1>4. ld.end + 1 # f.start
  BY <1>1
<1> QED BY <1>3, <1>4, KeyIs

\* The part of f before ld, left of the lock.
Fore(f, ld) == Short(f, ld.start - 1)

\* Overlay without memory for the piece behind ld: the walk is over.
LEMMA OverlayFails ==
    ASSUME NEW a \in WalkT, NEW f, a.ld.end < f.end, a.mem = 0
    PROVE  LET c == Overlay(a, f)
           IN  /\ c \in WalkT /\ c.list = a.list /\ c.woken = a.woken /\ c.ld = a.ld
               /\ c.ins = a.ins /\ c.mem = a.mem /\ c.go = FALSE /\ c.done = TRUE
<1>1. Overlay(a, f) = [a EXCEPT !.go = FALSE, !.done = TRUE]
  BY DEF Overlay
<1> QED BY ONLY <1>1, a \in WalkT DEF WalkT

\* Overlay's list with the piece behind ld.
Rear(a, f) ==
    IF a.ld.end < f.end
    THEN [a EXCEPT !.list = InsertFrom(@, Key(f), Piece(f, a.ld)), !.mem = @ - 1, !.go = FALSE]
    ELSE a
Pieces(f, ld) == IF ld.end < f.end THEN {Piece(f, ld)} ELSE {}
\* The rear is put behind f and keeps the list in order.
LEMMA RearIs ==
    ASSUME NEW a \in WalkT, Order(a.list), NEW f \in ToSet(a.list), f.start <= a.ld.end,
           \A x \in ToSet(a.list) : Key(x) # Key(Piece(f, a.ld)) \/ a.ld.end >= f.end
    PROVE  LET b == Rear(a, f)
           IN  /\ b \in WalkT /\ Order(b.list) /\ b.woken = a.woken /\ b.ld = a.ld
               /\ ToSet(b.list) = ToSet(a.list) \cup Pieces(f, a.ld)
               /\ b.ins = a.ins /\ b.done = a.done
               /\ b.mem = (IF a.ld.end < f.end THEN a.mem - 1 ELSE a.mem)
               /\ b.go = (a.ld.end >= f.end /\ a.go)
<1>1. f \in LockRecord /\ a.ld \in Request
  BY InList DEF Order, WalkT
<1>2. f.end \in Int /\ a.ld.end \in Int /\ f.start \in Int
  BY <1>1, LockIs, RequestIs
<1>3. CASE a.ld.end < f.end
  <2> DEFINE l == InsertFrom(a.list, Key(f), Piece(f, a.ld))
             b == [a EXCEPT !.list = l, !.mem = @ - 1, !.go = FALSE]
  <2>1. /\ Piece(f, a.ld) \in LockRecord /\ Piece(f, a.ld).start = a.ld.end + 1
        /\ Piece(f, a.ld).end = f.end
    BY <1>1, <1>3, PieceIs
  <2>2. Piece(f, a.ld).start <= Piece(f, a.ld).end /\ f.start <= Piece(f, a.ld).start
    BY <1>2, <1>3, <2>1
  <2>3. \A x \in ToSet(a.list) : Key(x) # Key(Piece(f, a.ld))
    BY <1>2, <1>3
  <2>4. From(ToSet(a.list), Key(f), Piece(f, a.ld).start)
    BY <2>2 DEF From
  <2>5. Order(l) /\ ToSet(l) = ToSet(a.list) \cup {Piece(f, a.ld)}
    BY <2>1, <2>2, <2>3, <2>4, InsertFromIs
  <2>6. l \in Seq(LockRecord)
    BY <2>5 DEF Order
  <2> HIDE DEF l
  <2>7. /\ b \in WalkT /\ b.list = l /\ b.woken = a.woken /\ b.ld = a.ld
        /\ b.ins = a.ins /\ b.done = a.done /\ b.mem = a.mem - 1 /\ b.go = FALSE
    <3> DEFINE n == a.mem - 1
    <3>1. n \in Int
      BY DEF WalkT
    <3>2. b = [a EXCEPT !.list = l, !.mem = n, !.go = FALSE]
      OBVIOUS
    <3> HIDE DEF n, b
    <3>3. /\ b \in WalkT /\ b.list = l /\ b.woken = a.woken /\ b.ld = a.ld
          /\ b.ins = a.ins /\ b.done = a.done /\ b.mem = n /\ b.go = FALSE
      BY ONLY <2>6, <3>1, <3>2, a \in WalkT DEF WalkT
    <3> QED BY <3>3 DEF n
  <2>8. Rear(a, f) = b
    BY <1>3 DEF Rear, l
  <2> HIDE DEF b
  <2>9. ~(a.ld.end >= f.end)
    BY <1>2, <1>3
  <2> QED BY <1>3, <2>5, <2>7, <2>8, <2>9 DEF Pieces
<1>4. CASE ~(a.ld.end < f.end)
  <2>1. Rear(a, f) = a /\ Pieces(f, a.ld) = {} /\ a.ld.end >= f.end
    BY <1>2, <1>4 DEF Rear, Pieces
  <2>2. a.go \in BOOLEAN
    BY DEF WalkT
  <2> QED BY <1>4, <2>1, <2>2
<1> QED BY <1>3, <1>4

\* Overlay.
LEMMA OverlayIs ==
    ASSUME NEW a \in WalkT, Order(a.list), NEW f \in ToSet(a.list), f.start <= a.ld.end,
           \A x \in ToSet(a.list) : Key(x) # Key(Piece(f, a.ld)) \/ a.ld.end >= f.end,
           ~(a.ld.end < f.end /\ a.mem = 0)
    PROVE  LET c == Overlay(a, f)
               front == a.ld.start > f.start
           IN  /\ c \in WalkT /\ Order(c.list) /\ c.woken = Wakes(a, f) /\ c.ld = a.ld
               /\ ToSet(c.list) = (ToSet(a.list) \ {f}) \cup Pieces(f, a.ld)
                                  \cup (IF front THEN {Fore(f, a.ld)} ELSE {})
               /\ c.done = a.done
               /\ c.mem = (IF a.ld.end < f.end THEN a.mem - 1 ELSE a.mem)
               /\ c.go = (a.ld.end >= f.end /\ a.go)
               /\ c.ins = (IF front THEN Key(f)
                           ELSE IF f.start = a.ld.start THEN PrevOf(a.list, Key(f)) ELSE a.ins)
<1> DEFINE b == Rear(a, f)
           front == a.ld.start > f.start
           prev == IF f.start = a.ld.start THEN PrevOf(a.list, Key(f)) ELSE a.ins
           d == Delete(b, f)
           c == [d EXCEPT !.ins = prev]
           g == Fore(f, a.ld)
           s == Shortened(b, f, a.ld.start - 1)
<1>1. /\ b \in WalkT /\ Order(b.list) /\ b.woken = a.woken /\ b.ld = a.ld
      /\ ToSet(b.list) = ToSet(a.list) \cup Pieces(f, a.ld)
      /\ b.ins = a.ins /\ b.done = a.done
      /\ b.mem = (IF a.ld.end < f.end THEN a.mem - 1 ELSE a.mem)
      /\ b.go = (a.ld.end >= f.end /\ a.go)
  BY RearIs
<1>2. f \in LockRecord /\ a.ld \in Request /\ a.ins \in KeyT
  BY InList DEF Order, WalkT
<1>3. /\ f.end \in Int /\ a.ld.end \in Int /\ f.start \in Int /\ 0 <= f.start
      /\ a.ld.start \in Int /\ a.ld.start <= maxend
  BY <1>2, LockIs, RequestIs
<1>4. f \notin Pieces(f, a.ld)
  BY <1>2, <1>3, PieceIs DEF Pieces
<1>5. Overlay(a, f) = IF front THEN s ELSE c
  BY <1>1 DEF Overlay, Rear, Piece, Delete, Shortened, Short
<1>6. f \in ToSet(b.list) /\ Wakes(b, f) = Wakes(a, f)
  BY <1>1 DEF Wakes
<1> HIDE DEF b, s, c, d, g
<1>7. CASE front
  <2>1. a.ld.start - 1 \in Bytes /\ f.start <= a.ld.start - 1
    BY <1>3, <1>7, LockAssumption DEF Bytes
  <2>2. /\ s \in WalkT /\ Order(s.list) /\ ToSet(s.list) = (ToSet(b.list) \ {f}) \cup {g}
        /\ s.woken = Wakes(b, f) /\ s.ld = b.ld /\ s.ins = Key(f) /\ s.go = b.go
        /\ s.mem = b.mem /\ s.done = b.done
    BY <1>1, <1>6, <2>1, ShortenIs DEF s, g, Fore
  <2>3. ToSet(s.list) = (ToSet(a.list) \ {f}) \cup Pieces(f, a.ld) \cup {g}
    BY <1>1, <1>4, <2>2
  <2> QED BY <1>1, <1>5, <1>6, <1>7, <2>2, <2>3 DEF g
<1>8. CASE ~front
  <2>1. /\ d \in WalkT /\ Order(d.list)
        /\ ToSet(d.list) = ToSet(b.list) \ {f} /\ d.woken = Wakes(b, f)
        /\ d.ld = b.ld /\ d.go = b.go /\ d.mem = b.mem /\ d.done = b.done
    BY <1>1, <1>6, DeleteIs DEF d
  <2>2. prev \in KeyT
    BY <1>2, PrevOfIs
  <2> HIDE DEF prev
  <2>3. /\ c \in WalkT /\ c.list = d.list /\ c.woken = d.woken /\ c.ld = d.ld /\ c.go = d.go
        /\ c.mem = d.mem /\ c.done = d.done /\ c.ins = prev
    BY ONLY <2>1, <2>2 DEF WalkT, c
  <2>4. ToSet(c.list) = (ToSet(a.list) \ {f}) \cup Pieces(f, a.ld) \cup {}
    BY <1>1, <1>4, <2>1, <2>3
  <2> QED BY <1>1, <1>5, <1>6, <1>8, <2>1, <2>3, <2>4 DEF prev
<1> QED BY <1>7, <1>8

-----------------------------------------------------------------------------
(* flckadj, the walk: an unlock or lock r of p on list, with memory for    *)
(* mem locks.                                                              *)

In(b, x) == x.start <= b /\ b <= x.end
Own(l, p) == {x \in ToSet(l) : x.own = p}

\* p's locks from place i of the list on.
Later(list, i, p) == {x \in Own(list, p) : \E m \in i .. Len(list) : x = list[m]}

\* ld has grown from r over locks of p of its type.
Grown(ld, list, p, r) ==
    /\ ld.type = r.type /\ ld.start <= r.start /\ r.end <= ld.end
    /\ \A b \in Bytes : In(b, ld) /\ ~In(b, r) =>
         \E y \in Own(list, p) : y.type = r.type /\ In(b, y)

\* l, to which ld is still to come, against the list before: others' locks are
\* the same, p's are parts of those before and miss bytes of ld only; whose
\* lock has changed is told.
Less(l, ld, woken, list, p) ==
    /\ \A x : x.own # p => (x \in ToSet(l) <=> x \in ToSet(list))
    /\ \A x \in Own(l, p) : \E y \in Own(list, p) :
         y.type = x.type /\ y.start <= x.start /\ x.end <= y.end
    /\ \A y \in Own(list, p), b \in Bytes : In(b, y) /\ ~In(b, ld) =>
         \E x \in Own(l, p) : x.type = y.type /\ In(b, x)
    /\ \A y \in Own(list, p) : y \in ToSet(l) \/ (y.wakeflg => Key(y) \in woken)

\* How far the walk is before place i: what is not behind ld is still to be
\* visited; it has stopped where ld fits; or it is over.
Reach(a, i, list, p, r, mem) ==
    /\ Later(list, i, p) \subseteq ToSet(a.list)
    /\ a.go => /\ ~a.done /\ a.mem = mem
               /\ \A x \in Own(a.list, p) : x \in Later(list, i, p) \/ Ahead(x, a.ld)
    /\ ~a.go /\ ~a.done => \A x \in Own(a.list, p) : Apart(x, a.ld)
    /\ a.done => \/ a.mem = 0 /\ mem = 0
                 \/ \E x \in Own(a.list, p) : x.type = r.type /\ Covers(x, a.ld)
    /\ a.mem \in {mem, mem - 1}

\* insrtp serves to insert ld, and is not deleted before.
Insrtp(a, i, list, p) ==
    \/ a.ins = NoKey /\ \A x \in ToSet(a.list) : x.start >= a.ld.start
    \/ \E x \in ToSet(a.list) :
         /\ Key(x) = a.ins /\ x.start <= a.ld.start
         /\ a.go /\ x \in Later(list, i, p) => x.start < a.ld.start

WalkInv(a, i, list, p, r, mem) ==
    /\ a \in WalkT /\ Good(a.list) /\ Grown(a.ld, list, p, r)
    /\ Less(a.list, a.ld, a.woken, list, p) /\ Reach(a, i, list, p, r, mem)
    /\ r.type # F_UNLCK => Insrtp(a, i, list, p)

\* A lock of p at place i, those that come later, and their type.
LEMMA LaterIs ==
    ASSUME NEW list, Good(list), NEW p, NEW i \in 1 .. Len(list)
    PROVE  LET f == list[i]
           IN  /\ f \in LockRecord /\ f \in ToSet(list) /\ f.start <= f.end
               /\ f.own = p => f \in Later(list, i, p) /\ f \notin Later(list, i + 1, p)
               /\ \A x \in Later(list, i, p) : x \in Later(list, i + 1, p) \/ x = f
               /\ Later(list, i + 1, p) \subseteq Later(list, i, p)
               /\ f.own = p => \A x \in Later(list, i + 1, p) : Ahead(f, x)
<1> DEFINE f == list[i]
<1>1. list \in Seq(LockRecord) /\ Len(list) \in Nat
  BY DEF Good, Order
<1>2. f \in LockRecord /\ f \in ToSet(list) /\ f.start <= f.end
  BY <1>1, InList DEF Good, Order
<1>3. \A x \in Later(list, i, p) : x \in Later(list, i + 1, p) \/ x = f
  <2> SUFFICES ASSUME NEW x \in Later(list, i, p), x # f PROVE x \in Later(list, i + 1, p)
    OBVIOUS
  <2>1. PICK m \in i .. Len(list) : x = list[m]
    BY DEF Later
  <2>2. m \in i + 1 .. Len(list)
    BY <1>1, <2>1
  <2> QED BY <2>1, <2>2 DEF Later
<1>4. Later(list, i + 1, p) \subseteq Later(list, i, p)
  <2> SUFFICES ASSUME NEW x \in Later(list, i + 1, p) PROVE x \in Later(list, i, p)
    OBVIOUS
  <2>1. PICK m \in i + 1 .. Len(list) : x = list[m]
    BY DEF Later
  <2>2. m \in i .. Len(list)
    BY <1>1, <2>1
  <2> QED BY <2>1, <2>2 DEF Later
<1>5. ASSUME f.own = p, NEW x \in Later(list, i + 1, p)
      PROVE  Ahead(f, x) /\ x # f
  <2>1. PICK m \in i + 1 .. Len(list) : x = list[m]
    BY DEF Later
  <2>2. m \in 1 .. Len(list) /\ i < m
    BY <1>1, <2>1
  <2>3. f.start <= x.start /\ Key(f) # Key(x)
    BY <2>1, <2>2 DEF Good, Order
  <2>4. x \in ToSet(list) /\ x \in LockRecord /\ x.own = p /\ x.start <= x.end
    BY <1>1, <2>1, <2>2, InList DEF Later, Own, Good, Order
  <2>5. Apart(f, x)
    BY <1>2, <1>5, <2>3, <2>4 DEF Good
  <2>6. f.start \in Int /\ f.end \in Int /\ x.start \in Int /\ x.end \in Int
    BY <1>2, <2>4, LockIs
  <2>7. ~Ahead(x, f)
    BY <2>3, <2>4, <2>6 DEF Ahead, Gap
  <2> QED BY <2>3, <2>5, <2>7 DEF Apart
<1>6. f.own = p => f \in Later(list, i, p)
  BY <1>1, <1>2 DEF Later, Own
<1> HIDE DEF f
<1> QED BY <1>2, <1>3, <1>4, <1>5, <1>6 DEF f

\* What a member of a good list is.
LEMMA InGood ==
    ASSUME NEW l, Good(l), NEW x \in ToSet(l)
    PROVE  /\ x \in LockRecord /\ x.start \in Int /\ x.end \in Int /\ x.start <= x.end
           /\ 0 <= x.start /\ x.end <= maxend
           /\ x.type \in {F_RDLCK, F_WRLCK} /\ x.own \in Proc /\ x.own # "none"
<1>1. l \in Seq(LockRecord)
  BY DEF Good, Order
<1>2. PICK i \in 1 .. Len(l) : x = l[i]
  BY <1>1, InList
<1>3. x.start <= x.end
  BY <1>2 DEF Good, Order
<1>4. x \in LockRecord
  BY <1>1, InList
<1> QED BY <1>3, <1>4, LockIs

\* At the beginning the locks of p before place i lie before r.
LEMMA WalkBegins ==
    ASSUME NEW list, Good(list), NEW p \in Proc, NEW r \in Request, NEW mem \in Nat,
           NEW i \in 1 .. Len(list) + 1, NEW k \in KeyT,
           \A x \in Own(list, p) : x \in Later(list, i, p) \/ x.end < r.start - 1,
           r.type # F_UNLCK => \/ k = NoKey /\ \A x \in ToSet(list) : x.start >= r.start
                               \/ \E x \in ToSet(list) : Key(x) = k /\ x.start < r.start
    PROVE  WalkInv(Walk(list, r, k, mem), i, list, p, r, mem)
<1> DEFINE a == Walk(list, r, k, mem)
<1>1. list \in Seq(LockRecord)
  BY DEF Good, Order
<1>2. /\ a \in WalkT /\ a.list = list /\ a.ld = r /\ a.ins = k /\ a.go = TRUE
      /\ a.woken = {} /\ a.mem = mem /\ a.done = FALSE
  BY ONLY <1>1, r \in Request, k \in KeyT, mem \in Nat DEF Walk, WalkT
<1> HIDE DEF a
<1>3. r.start \in Int /\ r.end \in Int
  BY RequestIs
<1>4. \A x \in ToSet(list) : x.start \in Int /\ x.end \in Int
  BY InGood
<1>5. Grown(a.ld, list, p, r)
  BY <1>2, <1>3 DEF Grown
<1>6. Less(a.list, a.ld, a.woken, list, p)
  <2>1. \A x \in Own(list, p) : x.start <= x.start /\ x.end <= x.end
    BY <1>4 DEF Own
  <2>2. \A x \in Own(list, p) : x \in ToSet(list)
    BY DEF Own
  <2> QED BY <1>2, <2>1, <2>2 DEF Less
<1>7. Reach(a, i, list, p, r, mem)
  <2>1. \A x \in Own(list, p) : x \in Later(list, i, p) \/ Ahead(x, r)
    BY <1>3, <1>4 DEF Ahead, Gap, Own
  <2>2. Later(list, i, p) \subseteq ToSet(list)
    BY DEF Later, Own
  <2> QED BY <1>2, <2>1, <2>2 DEF Reach
<1>8. r.type # F_UNLCK => Insrtp(a, i, list, p)
  BY <1>2, <1>3, <1>4 DEF Insrtp
<1> QED BY <1>2, <1>5, <1>6, <1>7, <1>8 DEF WalkInv, a

\* What the invariant says of the next lock f of p, in the list l of the walk.
Next1(l, f, list, i, p) ==
    /\ f \in LockRecord /\ f.start \in Int /\ f.end \in Int /\ f.start <= f.end
    /\ f.own = p /\ f \in Own(list, p) /\ f \in Own(l, p)
    /\ f \in Later(list, i, p) /\ f \notin Later(list, i + 1, p)
    /\ Later(list, i + 1, p) \subseteq Own(l, p) \ {f}
    /\ \A x \in Own(l, p) : x \in LockRecord /\ x.start \in Int /\ x.end \in Int /\ x.start <= x.end
    /\ \A x \in Own(l, p) \ {f} : Apart(x, f)
    /\ \A x \in Later(list, i + 1, p) : Ahead(f, x)
Ld1(ld, r) ==
    /\ ld \in Request /\ r \in Request /\ ld.type = r.type
    /\ ld.start \in Int /\ ld.end \in Int /\ ld.start <= ld.end
    /\ r.start \in Int /\ r.end \in Int /\ ld.start <= r.start /\ r.start <= r.end
    /\ r.end <= ld.end
Go1(a, f, list, i, p, mem) ==
    /\ a.done = FALSE /\ a.mem = mem
    /\ \A x \in Own(a.list, p) \ {f} : x \in Later(list, i + 1, p) \/ Ahead(x, a.ld)
\* These facts hold at p's lock at place i.
LEMMA StepFacts ==
    ASSUME NEW list, Good(list), NEW p \in Proc, NEW r \in Request, NEW mem \in Nat,
           NEW i \in 1 .. Len(list), list[i].own = p,
           NEW a, WalkInv(a, i, list, p, r, mem)
    PROVE  /\ Next1(a.list, list[i], list, i, p) /\ Ld1(a.ld, r)
           /\ a.go => Go1(a, list[i], list, i, p, mem)
<1> DEFINE f == list[i]
<1>1. /\ f \in LockRecord /\ f \in ToSet(list) /\ f.start <= f.end
      /\ f \in Later(list, i, p) /\ f \notin Later(list, i + 1, p)
      /\ \A x \in Later(list, i, p) : x \in Later(list, i + 1, p) \/ x = f
      /\ Later(list, i + 1, p) \subseteq Later(list, i, p)
      /\ \A x \in Later(list, i + 1, p) : Ahead(f, x)
  BY LaterIs
<1>2. f.start \in Int /\ f.end \in Int /\ f.own = p
  BY <1>1, LockIs
<1> HIDE DEF f
<1>3. a \in WalkT /\ Good(a.list) /\ Grown(a.ld, list, p, r) /\ Reach(a, i, list, p, r, mem)
  BY DEF WalkInv
<1>4. Later(list, i, p) \subseteq ToSet(a.list)
  BY <1>3 DEF Reach
<1>5. f \in Own(list, p) /\ f \in Own(a.list, p)
  BY <1>1, <1>2, <1>4 DEF Own
<1>6. Later(list, i + 1, p) \subseteq Own(a.list, p) \ {f}
  BY <1>1, <1>4 DEF Own, Later
<1>7. ASSUME NEW x \in Own(a.list, p)
      PROVE  x \in LockRecord /\ x.start \in Int /\ x.end \in Int /\ x.start <= x.end
  <2>1. x \in ToSet(a.list)
    BY DEF Own
  <2> QED BY <1>3, <2>1, InGood
<1>8. \A x \in Own(a.list, p) \ {f} : Apart(x, f)
  BY <1>2, <1>3, <1>5 DEF Own, Good
<1>9. Next1(a.list, f, list, i, p)
  BY <1>1, <1>2, <1>5, <1>6, <1>7, <1>8 DEF Next1
<1>10. Ld1(a.ld, r)
  <2>1. a.ld \in Request
    BY <1>3 DEF WalkT
  <2> QED BY <1>3, <2>1, RequestIs DEF Ld1, Grown
<1>11. a.go => Go1(a, f, list, i, p, mem)
  <2>1. a.done \in BOOLEAN
    BY <1>3 DEF WalkT
  <2> QED BY <1>1, <1>3, <2>1 DEF Reach, Go1
<1> QED BY <1>9, <1>10, <1>11 DEF f

\* Nothing happens to the list and to ld.
LEMMA UnmovedStep ==
    ASSUME NEW list, NEW p, NEW r, NEW mem, NEW i, NEW a, WalkInv(a, i, list, p, r, mem),
           NEW c \in WalkT, c.list = a.list, c.ld = a.ld, c.woken = a.woken,
           NEW j, Reach(c, j, list, p, r, mem), r.type # F_UNLCK => Insrtp(c, j, list, p)
    PROVE  WalkInv(c, j, list, p, r, mem)
BY DEF WalkInv

\* Another owner's lock is passed over.
LEMMA SkipStep ==
    ASSUME NEW list, Good(list), NEW p \in Proc, NEW r \in Request, NEW mem \in Nat,
           NEW i \in 1 .. Len(list), list[i].own # p,
           NEW a, WalkInv(a, i, list, p, r, mem)
    PROVE  WalkInv(a, i + 1, list, p, r, mem)
<1>1. Later(list, i + 1, p) = Later(list, i, p)
  <2>1. \A x \in Later(list, i, p) : x # list[i]
    BY DEF Later, Own
  <2>2. \A x \in Later(list, i, p) : x \in Later(list, i + 1, p) \/ x = list[i]
    BY LaterIs
  <2>3. Later(list, i + 1, p) \subseteq Later(list, i, p)
    BY LaterIs
  <2> QED BY <2>1, <2>2, <2>3
<1> QED BY <1>1 DEF WalkInv, Reach, Insrtp

\* The walk has stopped before.
LEMMA StoppedStep ==
    ASSUME NEW list, Good(list), NEW p \in Proc, NEW r \in Request, NEW mem \in Nat,
           NEW i \in 1 .. Len(list), NEW a, WalkInv(a, i, list, p, r, mem), ~a.go
    PROVE  WalkInv(a, i + 1, list, p, r, mem)
<1>1. Later(list, i + 1, p) \subseteq Later(list, i, p)
  BY LaterIs
<1> QED BY <1>1 DEF WalkInv, Reach, Insrtp

\* It stops at f, which lies behind ld.
LEMMA StopStep ==
    ASSUME NEW list, Good(list), NEW p \in Proc, NEW r \in Request, NEW mem \in Nat,
           NEW i \in 1 .. Len(list), list[i].own = p,
           NEW a, WalkInv(a, i, list, p, r, mem), a.go, Ahead(a.ld, list[i])
    PROVE  WalkInv([a EXCEPT !.go = FALSE], i + 1, list, p, r, mem)
<1> DEFINE f == list[i]
           c == [a EXCEPT !.go = FALSE]
<1>1. a \in WalkT /\ Reach(a, i, list, p, r, mem)
  BY DEF WalkInv
<1>2. /\ c \in WalkT /\ c.list = a.list /\ c.ld = a.ld /\ c.woken = a.woken
      /\ c.ins = a.ins /\ c.go = FALSE /\ c.done = a.done /\ c.mem = a.mem
  BY ONLY <1>1 DEF WalkT
<1> HIDE DEF c
<1>3. Next1(a.list, f, list, i, p) /\ Ld1(a.ld, r) /\ Go1(a, f, list, i, p, mem)
  BY StepFacts
<1> HIDE DEF f
<1>4. Ahead(a.ld, f)
  BY DEF f
<1>5. ASSUME NEW x \in Own(a.list, p) PROVE Apart(x, a.ld)
  <2>1. CASE x = f
    BY <1>4, <2>1 DEF Apart
  <2>2. CASE x \in Later(list, i + 1, p)
    <3>1. Ahead(f, x) /\ x.start \in Int
      BY <1>3, <2>2 DEF Next1
    <3>2. Ahead(a.ld, x)
      BY <1>3, <1>4, <3>1, SMTT(20) DEF Next1, Ld1, Ahead, Gap
    <3> QED BY <3>2 DEF Apart
  <2> QED BY <1>3, <2>1, <2>2 DEF Go1, Apart
<1>6. Reach(c, i + 1, list, p, r, mem)
  BY <1>1, <1>2, <1>3, <1>5 DEF Reach, Next1, Own, Go1
<1>7. r.type # F_UNLCK => Insrtp(c, i + 1, list, p)
  BY <1>2 DEF WalkInv, Insrtp
<1> QED BY <1>2, <1>6, <1>7, UnmovedStep DEF c

\* f lies before ld, and ld may come behind it.
LEMMA PassStep ==
    ASSUME NEW list, Good(list), NEW p \in Proc, NEW r \in Request, NEW mem \in Nat,
           NEW i \in 1 .. Len(list), list[i].own = p,
           NEW a, WalkInv(a, i, list, p, r, mem), a.go, Ahead(list[i], a.ld),
           NEW c, c = a \/ c = [a EXCEPT !.ins = Key(list[i])]
    PROVE  WalkInv(c, i + 1, list, p, r, mem)
<1> DEFINE f == list[i]
<1>1. a \in WalkT /\ Reach(a, i, list, p, r, mem)
  BY DEF WalkInv
<1>2. Next1(a.list, f, list, i, p) /\ Ld1(a.ld, r) /\ Go1(a, f, list, i, p, mem)
  BY StepFacts
<1>3. Key(f) \in KeyT
  BY <1>2, KeyInKeys DEF Next1
<1>4. /\ c \in WalkT /\ c.list = a.list /\ c.ld = a.ld /\ c.woken = a.woken
      /\ c.ins \in {a.ins, Key(f)} /\ c.go = a.go /\ c.done = a.done /\ c.mem = a.mem
  BY ONLY <1>1, <1>3, c = a \/ c = [a EXCEPT !.ins = Key(f)] DEF WalkT
<1> HIDE DEF f
<1>5. Ahead(f, a.ld)
  BY DEF f
<1>6. Reach(c, i + 1, list, p, r, mem)
  <2>1. ASSUME NEW x \in Own(a.list, p) PROVE x \in Later(list, i + 1, p) \/ Ahead(x, a.ld)
    BY <1>2, <1>5 DEF Go1
  <2> QED BY <1>1, <1>2, <1>4, <2>1 DEF Reach, Next1, Own, Go1
<1>7. r.type # F_UNLCK => Insrtp(c, i + 1, list, p)
  <2> SUFFICES ASSUME r.type # F_UNLCK PROVE Insrtp(c, i + 1, list, p)
    OBVIOUS
  <2>1. CASE c.ins = Key(f)
    <3>1. f.start <= a.ld.start
      BY <1>2, <1>5 DEF Next1, Ld1, Ahead, Gap
    <3>2. f \in ToSet(c.list) /\ f \notin Later(list, i + 1, p)
      BY <1>2, <1>4 DEF Next1, Own
    <3> QED BY <1>4, <2>1, <3>1, <3>2 DEF Insrtp
  <2>2. CASE c.ins = a.ins
    <3>1. Insrtp(a, i, list, p)
      BY DEF WalkInv
    <3>2. Later(list, i + 1, p) \subseteq Later(list, i, p)
      BY LaterIs
    <3> QED BY <1>4, <2>2, <3>1, <3>2 DEF Insrtp
  <2> QED BY <1>4, <2>1, <2>2
<1> QED BY <1>4, <1>6, <1>7, UnmovedStep

\* r is covered by f: the walk is over.
LEMMA CoveredStep ==
    ASSUME NEW list, Good(list), NEW p \in Proc, NEW r \in Request, NEW mem \in Nat,
           NEW i \in 1 .. Len(list), list[i].own = p,
           NEW a, WalkInv(a, i, list, p, r, mem), a.go,
           list[i].type = a.ld.type, Covers(list[i], a.ld)
    PROVE  WalkInv(Coalesce(a, list[i]), i + 1, list, p, r, mem)
<1> DEFINE f == list[i]
           c == Coalesce(a, f)
<1>1. a \in WalkT /\ Reach(a, i, list, p, r, mem)
  BY DEF WalkInv
<1>2. Next1(a.list, f, list, i, p) /\ Ld1(a.ld, r) /\ Go1(a, f, list, i, p, mem)
  BY StepFacts
<1>3. /\ c \in WalkT /\ c.list = a.list /\ c.woken = a.woken /\ c.ld = a.ld
      /\ c.ins = a.ins /\ c.mem = a.mem /\ c.go = FALSE /\ c.done = TRUE
  BY <1>1, CoalesceCovered
<1>4. f \in Own(c.list, p) /\ f.type = r.type /\ Covers(f, c.ld)
  BY <1>2, <1>3 DEF Next1, Ld1
<1> HIDE DEF c, f
<1>5. Reach(c, i + 1, list, p, r, mem)
  BY <1>1, <1>2, <1>3, <1>4 DEF Reach, Next1, Own, Go1
<1>6. r.type # F_UNLCK => Insrtp(c, i + 1, list, p)
  BY <1>3 DEF WalkInv, Insrtp
<1> QED BY <1>3, <1>5, <1>6, UnmovedStep DEF c, f

\* What ends before a lock that reaches back to g is not behind g.
LEMMA NotAhead ==
    ASSUME NEW first \in Int, NEW last \in Int, NEW start \in Int, NEW g \in Int,
           NEW d \in Int, 0 <= d, last < start - d, start <= g + 1, first <= last
    PROVE  ~(g < first - d)
OBVIOUS

\* ld grows over f, which goes.
LEMMA CoalesceStep ==
    ASSUME NEW list, Good(list), NEW p \in Proc, NEW r \in Request, NEW mem \in Nat,
           NEW i \in 1 .. Len(list), list[i].own = p,
           NEW a, WalkInv(a, i, list, p, r, mem), a.go,
           list[i].type = a.ld.type, ~Covers(list[i], a.ld),
           a.ld.end >= list[i].start - 1, a.ld.start <= list[i].end + 1
    PROVE  WalkInv(Coalesce(a, list[i]), i + 1, list, p, r, mem)
<1> DEFINE f == list[i]
           c == Coalesce(a, f)
<1>1. /\ a \in WalkT /\ Good(a.list) /\ Grown(a.ld, list, p, r)
      /\ Less(a.list, a.ld, a.woken, list, p) /\ Reach(a, i, list, p, r, mem)
      /\ r.type # F_UNLCK => Insrtp(a, i, list, p)
  BY DEF WalkInv
<1>2. Next1(a.list, f, list, i, p) /\ Ld1(a.ld, r) /\ Go1(a, f, list, i, p, mem)
  BY StepFacts
<1>3. f \in ToSet(a.list) /\ f.start <= f.end /\ Order(a.list)
  BY <1>1, <1>2 DEF Next1, Own, Good
<1>4. /\ c \in WalkT /\ Order(c.list) /\ ToSet(c.list) = ToSet(a.list) \ {f}
      /\ c.woken = Wakes(a, f) /\ c.mem = a.mem /\ c.done = a.done
      /\ c.ld.type = a.ld.type /\ c.ld.start = Lo(a.ld, f) /\ c.ld.end = Hi(a.ld, f)
      /\ c.ins = (IF f.start <= a.ld.start THEN PrevOf(a.list, Key(f)) ELSE a.ins)
      /\ c.go = (a.ld.end > f.end)
  BY <1>1, <1>3, CoalesceIs
<1>5. f.type = a.ld.type /\ a.ld.end >= f.start - 1 /\ a.ld.start <= f.end + 1
  OBVIOUS
<1> HIDE DEF c, f
<1>6. Own(c.list, p) = Own(a.list, p) \ {f}
  BY <1>4 DEF Own
<1>7. /\ c.ld.start \in Int /\ c.ld.end \in Int /\ c.ld.start <= a.ld.start
      /\ c.ld.start <= f.start /\ a.ld.end <= c.ld.end /\ f.end <= c.ld.end
      /\ c.ld.start \in {a.ld.start, f.start} /\ c.ld.end \in {a.ld.end, f.end}
  BY <1>2, <1>4 DEF Lo, Hi, Next1, Ld1
<1>8. Good(c.list)
  BY <1>1, <1>4 DEF Good
<1>9. Grown(c.ld, list, p, r)
  <2>1. ASSUME NEW b \in Bytes, In(b, c.ld), ~In(b, r)
        PROVE  \E y \in Own(list, p) : y.type = r.type /\ In(b, y)
    <3>1. b \in Int
      BY DEF Bytes
    <3>2. CASE In(b, a.ld)
      BY <1>1, <2>1, <3>2 DEF Grown
    <3>3. CASE ~In(b, a.ld)
      <4>1. In(b, f)
        <5>1. c.ld.start <= b /\ b <= c.ld.end /\ ~(a.ld.start <= b /\ b <= a.ld.end)
          BY <2>1, <3>3 DEF In
        <5>2. /\ a.ld.start \in Int /\ a.ld.end \in Int /\ f.start \in Int /\ f.end \in Int
              /\ a.ld.start <= a.ld.end /\ f.start <= f.end
          BY <1>2 DEF Next1, Ld1
        <5>3. CASE ~(a.ld.start <= b)
          <6>1. c.ld.start # a.ld.start
            BY <5>1, <5>3
          <6>2. f.start <= b
            BY <1>7, <5>1, <6>1
          <6>3. b <= f.end
            BY <1>5, <3>1, <5>2, <5>3
          <6> QED BY <6>2, <6>3 DEF In
        <5>4. CASE ~(b <= a.ld.end)
          BY <1>5, <1>7, <3>1, <5>1, <5>2, <5>4, SMTT(20) DEF In
        <5> QED BY <5>1, <5>3, <5>4
      <4> QED BY <1>2, <1>5, <4>1 DEF Next1, Ld1
    <3> QED BY <3>2, <3>3
  <2> QED BY <1>2, <1>4, <1>7, <2>1 DEF Grown, Ld1
<1>10. Less(c.list, c.ld, c.woken, list, p)
  <2>1. \A x : x.own # p => (x \in ToSet(c.list) <=> x \in ToSet(list))
    BY <1>1, <1>2, <1>4 DEF Less, Next1
  <2>2. \A x \in Own(c.list, p) : \E y \in Own(list, p) :
          y.type = x.type /\ y.start <= x.start /\ x.end <= y.end
    BY <1>1, <1>6 DEF Less
  <2>3. ASSUME NEW y \in Own(list, p), NEW b \in Bytes, In(b, y), ~In(b, c.ld)
        PROVE  \E x \in Own(c.list, p) : x.type = y.type /\ In(b, x)
    <3>1. b \in Int
      BY DEF Bytes
    <3>2. ~In(b, a.ld) /\ ~In(b, f)
      BY <1>2, <1>7, <2>3, <3>1, SMTT(20) DEF In, Next1, Ld1
    <3>3. PICK x \in Own(a.list, p) : x.type = y.type /\ In(b, x)
      BY <1>1, <2>3, <3>2 DEF Less
    <3> QED BY <1>6, <3>2, <3>3
  <2>4. ASSUME NEW y \in Own(list, p)
        PROVE  y \in ToSet(c.list) \/ (y.wakeflg => Key(y) \in c.woken)
    <3>1. a.woken \subseteq c.woken /\ (f.wakeflg => Key(f) \in c.woken)
      BY <1>1, <1>2, <1>4, WakesIs DEF Next1
    <3> QED BY <1>1, <1>4, <3>1 DEF Less
  <2> QED BY <2>1, <2>2, <2>3, <2>4 DEF Less
<1>11. ASSUME NEW x \in Own(c.list, p), x \notin Later(list, i + 1, p)
       PROVE  Ahead(x, c.ld)
  <2>1. Ahead(x, a.ld) /\ Apart(x, f) /\ x.start \in Int /\ x.end \in Int /\ x.start <= x.end
    BY <1>2, <1>6, <1>11 DEF Next1, Go1
  <2>2. /\ a.ld.start \in Int /\ a.ld.end \in Int /\ f.start \in Int /\ f.end \in Int
        /\ c.ld.type = a.ld.type /\ f.type = a.ld.type /\ c.ld.start \in Int
        /\ c.ld.start \in {a.ld.start, f.start} /\ f.start <= f.end
        /\ f.start <= a.ld.end + 1 /\ a.ld.start <= a.ld.end
    BY <1>2, <1>4, <1>5, <1>7 DEF Next1, Ld1
  <2>3. x.end < a.ld.start - (IF x.type = f.type THEN 1 ELSE 0)
    BY <2>1, <2>2 DEF Ahead, Gap
  <2>4. x.end < f.start - (IF x.type = f.type THEN 1 ELSE 0)
    <3>1. f.start \in Int /\ f.end \in Int /\ x.start \in Int /\ x.end \in Int
      BY <2>1, <2>2
    <3>2. a.ld.start \in Int /\ a.ld.start <= f.end + 1 /\ x.start <= x.end
      BY <1>5, <2>1, <2>2
    <3>3. Gap(f, x) \in {0, 1} /\ x.end < a.ld.start - Gap(f, x)
      BY <2>3 DEF Gap
    <3>4. ~Ahead(f, x)
      <4>1. Gap(f, x) \in Int /\ 0 <= Gap(f, x)
        BY ONLY <3>3
      <4> QED BY <3>1, <3>2, <3>3, <4>1, NotAhead DEF Ahead
    <3> QED BY <2>1, <3>4 DEF Apart, Ahead, Gap
  <2> QED BY ONLY <2>1, <2>2, <2>3, <2>4 DEF Ahead, Gap
<1>12. Reach(c, i + 1, list, p, r, mem)
  <2>1. Later(list, i + 1, p) \subseteq ToSet(c.list)
    BY <1>2, <1>4 DEF Next1, Own
  <2>2. ASSUME ~c.go, NEW x \in Own(c.list, p) PROVE Apart(x, c.ld)
    <3>1. CASE x \in Later(list, i + 1, p)
      <4>1. ~(a.ld.end > f.end)
        BY ONLY <1>4, <2>2
      <4>2. c.ld.end = f.end
        <5>1. /\ a.ld.end \in Int /\ f.end \in Int /\ c.ld.end = Hi(a.ld, f)
          BY <1>2, <1>4 DEF Next1, Ld1
        <5> QED BY <4>1, <5>1 DEF Hi
      <4>3. Ahead(f, x)
        BY <1>2, <3>1 DEF Next1
      <4> QED BY <1>4, <1>5, <4>2, <4>3 DEF Ahead, Apart, Gap
    <3>2. CASE x \notin Later(list, i + 1, p)
      BY <1>11, <3>2 DEF Apart
    <3> QED BY <3>1, <3>2
  <2> QED BY <1>1, <1>2, <1>4, <1>11, <2>1, <2>2 DEF Reach, Go1
<1>13. ASSUME r.type # F_UNLCK
       PROVE  Insrtp(c, i + 1, list, p)
  <2>1. CASE f.start <= a.ld.start
    <3>1. c.ld.start = f.start /\ c.ins = PrevOf(a.list, Key(f))
      BY <1>2, <1>4, <2>1 DEF Lo, Next1, Ld1
    <3>2. From(ToSet(c.list), c.ins, c.ld.start)
      BY <1>3, <1>4, <3>1, PrevOfIs
    <3>3. \A x \in Later(list, i + 1, p) : ~(x.start <= c.ld.start)
      BY <1>2, <3>1 DEF Next1, Ahead, Gap
    <3> QED BY <3>2, <3>3 DEF From, Insrtp
  <2>2. CASE ~(f.start <= a.ld.start)
    <3>1. c.ld.start = a.ld.start /\ c.ins = a.ins
      BY <1>2, <1>4, <2>2 DEF Lo, Next1, Ld1
    <3>2. Insrtp(a, i, list, p)
      BY <1>1, <1>13
    <3>3. Later(list, i + 1, p) \subseteq Later(list, i, p)
      BY LaterIs
    <3>4. CASE a.ins = NoKey /\ \A x \in ToSet(a.list) : x.start >= a.ld.start
      BY <1>4, <3>1, <3>4 DEF Insrtp
    <3>5. CASE \E x \in ToSet(a.list) :
                 /\ Key(x) = a.ins /\ x.start <= a.ld.start
                 /\ a.go /\ x \in Later(list, i, p) => x.start < a.ld.start
      <4>1. PICK x \in ToSet(a.list) :
              /\ Key(x) = a.ins /\ x.start <= a.ld.start
              /\ a.go /\ x \in Later(list, i, p) => x.start < a.ld.start
        BY <3>5
      <4>2. x \in ToSet(c.list)
        BY <1>4, <2>2, <4>1
      <4> QED BY <3>1, <3>3, <4>1, <4>2 DEF Insrtp
    <3> QED BY <3>2, <3>4, <3>5 DEF Insrtp
  <2> QED BY <2>1, <2>2
<1>14. WalkInv(c, i + 1, list, p, r, mem)
  BY <1>4, <1>8, <1>9, <1>10, <1>12, <1>13 DEF WalkInv
<1> QED BY <1>14 DEF c, f

\* ld is laid over a part of f, or all of it.
LEMMA OverlayStep ==
    ASSUME NEW list, Good(list), NEW p \in Proc, NEW r \in Request, NEW mem \in Nat,
           NEW i \in 1 .. Len(list), list[i].own = p,
           NEW a, WalkInv(a, i, list, p, r, mem), a.go,
           list[i].type # a.ld.type, ~(a.ld.end < list[i].end /\ a.mem = 0),
           a.ld.end >= list[i].start, a.ld.start <= list[i].end
    PROVE  WalkInv(Overlay(a, list[i]), i + 1, list, p, r, mem)
<1> DEFINE f == list[i]
           c == Overlay(a, f)
           front == a.ld.start > f.start
           N == Pieces(f, a.ld) \cup (IF front THEN {Fore(f, a.ld)} ELSE {})
<1>1. /\ a \in WalkT /\ Good(a.list) /\ Grown(a.ld, list, p, r)
      /\ Less(a.list, a.ld, a.woken, list, p) /\ Reach(a, i, list, p, r, mem)
      /\ r.type # F_UNLCK => Insrtp(a, i, list, p)
  BY DEF WalkInv
<1>2. Next1(a.list, f, list, i, p) /\ Ld1(a.ld, r) /\ Go1(a, f, list, i, p, mem)
  BY StepFacts
<1>3. /\ f \in ToSet(a.list) /\ f.start <= a.ld.end /\ Order(a.list)
      /\ ~(a.ld.end < f.end /\ a.mem = 0)
  BY <1>1, <1>2 DEF Next1, Own, Good, Ld1
<1>4. f.type # a.ld.type /\ a.ld.end >= f.start /\ a.ld.start <= f.end /\ a.go
  OBVIOUS
<1> HIDE DEF f
<1>5. ASSUME a.ld.end < f.end
      PROVE  /\ Piece(f, a.ld) \in LockRecord /\ Piece(f, a.ld).own = p
             /\ Piece(f, a.ld).type = f.type /\ Piece(f, a.ld).start = a.ld.end + 1
             /\ Piece(f, a.ld).end = f.end
  BY <1>2, <1>3, <1>5, PieceIs DEF Next1, Ld1
<1>6. ASSUME front
      PROVE  /\ Fore(f, a.ld) \in LockRecord /\ Fore(f, a.ld).own = p
             /\ Fore(f, a.ld).type = f.type /\ Fore(f, a.ld).start = f.start
             /\ Fore(f, a.ld).end = a.ld.start - 1 /\ Key(Fore(f, a.ld)) = Key(f)
  <2>1. a.ld.start - 1 \in Bytes /\ f.start <= a.ld.start - 1
    <3>1. 0 <= f.start /\ a.ld.start <= maxend
      BY <1>2, LockIs, RequestIs DEF Next1, Ld1
    <3> QED BY <1>2, <1>6, <3>1, LockAssumption, SMTT(20) DEF Bytes, Next1, Ld1
  <2>2. /\ Short(f, a.ld.start - 1) \in LockRecord
        /\ Key(Short(f, a.ld.start - 1)) = Key(f)
        /\ Short(f, a.ld.start - 1).own = f.own /\ Short(f, a.ld.start - 1).type = f.type
        /\ Short(f, a.ld.start - 1).start = f.start
        /\ Short(f, a.ld.start - 1).end = a.ld.start - 1
    BY <1>1, <1>3, <2>1, ShortenIs
  <2> QED BY <1>2, <2>2 DEF Fore, Next1
<1>7. \A x \in ToSet(a.list) : Key(x) # Key(Piece(f, a.ld)) \/ a.ld.end >= f.end
  <2> SUFFICES ASSUME NEW x \in ToSet(a.list), a.ld.end < f.end, Key(x) = Key(Piece(f, a.ld))
               PROVE  FALSE
    BY <1>2 DEF Next1, Ld1
  <2>1. x.own = p /\ x.start = a.ld.end + 1
    BY <1>5, KeyIs
  <2>2. x \in Own(a.list, p) \ {f}
    BY <1>2, <1>4, <2>1 DEF Own, Next1, Ld1
  <2>3. Apart(x, f) /\ x.start \in Int /\ x.end \in Int /\ x.start <= x.end
    BY <1>2, <2>2 DEF Next1
  <2>4. /\ a.ld.end \in Int /\ f.start \in Int /\ f.end \in Int /\ f.start <= a.ld.end
        /\ a.ld.end < f.end
    BY <1>2, <1>3 DEF Next1, Ld1
  <2>5. CASE Ahead(x, f)
    BY <2>1, <2>3, <2>4, <2>5 DEF Ahead, Gap
  <2>6. CASE Ahead(f, x)
    BY <2>1, <2>3, <2>4, <2>6 DEF Ahead, Gap
  <2> QED BY <2>3, <2>5, <2>6 DEF Apart
<1>8. /\ c \in WalkT /\ Order(c.list) /\ c.woken = Wakes(a, f) /\ c.ld = a.ld
      /\ ToSet(c.list) = (ToSet(a.list) \ {f}) \cup N
      /\ c.done = a.done
      /\ c.mem = (IF a.ld.end < f.end THEN a.mem - 1 ELSE a.mem)
      /\ c.go = (a.ld.end >= f.end /\ a.go)
      /\ c.ins = (IF front THEN Key(f)
                  ELSE IF f.start = a.ld.start THEN PrevOf(a.list, Key(f)) ELSE a.ins)
  BY <1>1, <1>3, <1>7, OverlayIs
<1>9. ASSUME NEW g \in N
      PROVE  /\ g \in LockRecord /\ g.own = p /\ g.type = f.type
             /\ g.start \in Int /\ g.end \in Int /\ g.start <= g.end
             /\ f.start <= g.start /\ g.end <= f.end
             /\ \/ g.end = a.ld.start - 1 /\ front /\ g.start = f.start
                \/ g.start = a.ld.end + 1 /\ a.ld.end < f.end /\ g.end = f.end
             /\ Apart(g, a.ld)
  <2>1. CASE g \in Pieces(f, a.ld)
    <3>1. a.ld.end < f.end /\ g = Piece(f, a.ld)
      BY <2>1 DEF Pieces
    <3>2. /\ g \in LockRecord /\ g.own = p /\ g.type = f.type /\ g.start = a.ld.end + 1
          /\ g.end = f.end
      BY <1>5, <3>1
    <3> QED BY <1>2, <1>4, <3>1, <3>2, SMTT(20) DEF Next1, Ld1, Apart, Ahead, Gap
  <2>2. CASE g \notin Pieces(f, a.ld)
    <3>1. front /\ g = Fore(f, a.ld)
      BY <2>2
    <3>2. /\ g \in LockRecord /\ g.own = p /\ g.type = f.type /\ g.start = f.start
          /\ g.end = a.ld.start - 1
      BY <1>6, <3>1
    <3> QED BY <1>2, <1>4, <3>1, <3>2, SMTT(20) DEF Next1, Ld1, Apart, Ahead, Gap
  <2> QED BY <2>1, <2>2
<1>10. /\ a.ld.end < f.end => Piece(f, a.ld) \in N
       /\ front => Fore(f, a.ld) \in N
  BY DEF Pieces
<1> HIDE DEF c, N
<1>11. Own(c.list, p) = (Own(a.list, p) \ {f}) \cup N
  BY <1>8, <1>9 DEF Own
<1>12. ASSUME NEW x \in Own(a.list, p) \ {f}, NEW g \in N
       PROVE  Apart(x, g) /\ Apart(g, x)
  <2>1. Apart(x, f) /\ x.start \in Int /\ x.end \in Int
    BY <1>2 DEF Next1
  <2>2. /\ g.start \in Int /\ g.end \in Int /\ f.start <= g.start /\ g.end <= f.end
        /\ f.start \in Int /\ f.end \in Int /\ g.type = f.type
    BY <1>2, <1>9 DEF Next1
  <2>3. CASE Ahead(x, f)
    <3>1. Ahead(x, g)
      BY <2>1, <2>2, <2>3 DEF Ahead, Gap
    <3> QED BY <3>1 DEF Apart
  <2>4. CASE Ahead(f, x)
    <3>1. Ahead(g, x)
      BY <2>1, <2>2, <2>4 DEF Ahead, Gap
    <3> QED BY <3>1 DEF Apart
  <2> QED BY <2>1, <2>3, <2>4 DEF Apart
<1>13. ASSUME NEW g \in N, NEW h \in N, g # h
       PROVE  Apart(g, h)
  <2>1. \/ g = Fore(f, a.ld) /\ h = Piece(f, a.ld) /\ front /\ a.ld.end < f.end
        \/ g = Piece(f, a.ld) /\ h = Fore(f, a.ld) /\ front /\ a.ld.end < f.end
    BY <1>13 DEF N, Pieces
  <2> QED BY <1>2, <1>5, <1>6, <2>1 DEF Apart, Ahead, Gap, Ld1
<1>14. Good(c.list)
  <2> SUFFICES ASSUME NEW x \in ToSet(c.list), NEW y \in ToSet(c.list), x.own = y.own, x # y
               PROVE  Apart(x, y)
    BY <1>8 DEF Good
  <2>1. CASE x.own # p
    <3>1. x \in ToSet(a.list) /\ y \in ToSet(a.list)
      BY <1>8, <1>9, <2>1
    <3> QED BY <1>1, <3>1 DEF Good
  <2>2. CASE x.own = p
    <3>1. x \in Own(c.list, p) /\ y \in Own(c.list, p)
      BY <2>2 DEF Own
    <3>2. CASE x \in N \/ y \in N
      BY <1>11, <1>12, <1>13, <3>1, <3>2
    <3>3. CASE x \notin N /\ y \notin N
      <4>1. x \in ToSet(a.list) /\ y \in ToSet(a.list)
        BY <1>8, <3>3
      <4> QED BY <1>1, <4>1 DEF Good
    <3> QED BY <3>2, <3>3
  <2> QED BY <2>1, <2>2
<1>15. Less(c.list, c.ld, c.woken, list, p)
  <2>1. \A x : x.own # p => (x \in ToSet(c.list) <=> x \in ToSet(list))
    BY <1>1, <1>2, <1>8, <1>9 DEF Less, Next1
  <2>2. ASSUME NEW x \in Own(c.list, p)
        PROVE  \E y \in Own(list, p) : y.type = x.type /\ y.start <= x.start /\ x.end <= y.end
    <3>1. CASE x \in N
      BY <1>2, <1>9, <3>1 DEF Next1
    <3>2. CASE x \in Own(a.list, p)
      BY <1>1, <3>2 DEF Less
    <3> QED BY <1>11, <3>1, <3>2
  <2>3. ASSUME NEW y \in Own(list, p), NEW b \in Bytes, In(b, y), ~In(b, c.ld)
        PROVE  \E x \in Own(c.list, p) : x.type = y.type /\ In(b, x)
    <3>1. b \in Int
      BY DEF Bytes
    <3>2. PICK x \in Own(a.list, p) : x.type = y.type /\ In(b, x)
      BY <1>1, <1>8, <2>3 DEF Less
    <3>3. CASE x # f
      BY <1>11, <3>2, <3>3
    <3>4. CASE x = f
      <4>1. b < a.ld.start \/ b > a.ld.end
        BY <1>2, <1>8, <2>3, <3>1 DEF In, Ld1
      <4>2. CASE b < a.ld.start
        <5>1. front
          BY <1>2, <3>1, <3>2, <3>4, <4>2 DEF In, Next1, Ld1
        <5>2. In(b, Fore(f, a.ld))
          BY <1>2, <1>6, <3>1, <3>2, <3>4, <4>2, <5>1 DEF In, Next1, Ld1
        <5> QED BY <1>6, <1>10, <1>11, <3>2, <3>4, <5>1, <5>2
      <4>3. CASE b > a.ld.end
        <5>1. a.ld.end < f.end
          BY <1>2, <3>1, <3>2, <3>4, <4>3 DEF In, Next1, Ld1
        <5>2. In(b, Piece(f, a.ld))
          BY <1>2, <1>5, <3>1, <3>2, <3>4, <4>3, <5>1 DEF In, Next1, Ld1
        <5> QED BY <1>5, <1>10, <1>11, <3>2, <3>4, <5>1, <5>2
      <4> QED BY <4>1, <4>2, <4>3
    <3> QED BY <3>3, <3>4
  <2>4. ASSUME NEW y \in Own(list, p)
        PROVE  y \in ToSet(c.list) \/ (y.wakeflg => Key(y) \in c.woken)
    <3>1. a.woken \subseteq c.woken /\ (f.wakeflg => Key(f) \in c.woken)
      BY <1>1, <1>2, <1>8, WakesIs DEF Next1
    <3> QED BY <1>1, <1>8, <3>1 DEF Less
  <2> QED BY <2>1, <2>2, <2>3, <2>4 DEF Less
<1>16. c.go <=> a.ld.end >= f.end
  <2>1. (a.ld.end >= f.end /\ a.go) <=> a.ld.end >= f.end
    BY <1>4
  <2> QED BY ONLY <1>8, <2>1
<1>17. Reach(c, i + 1, list, p, r, mem)
  <2>1. Later(list, i + 1, p) \subseteq ToSet(c.list)
    BY <1>2, <1>8 DEF Next1, Own
  <2>2. ASSUME c.go, NEW x \in Own(c.list, p)
        PROVE  x \in Later(list, i + 1, p) \/ Ahead(x, c.ld)
    <3>1. CASE x \in N
      <4>1. a.ld.end >= f.end
        BY <1>16, <2>2
      <4>2. a.ld.end \in Int /\ f.end \in Int /\ a.ld.start \in Int
        BY <1>2 DEF Next1, Ld1
      <4>3. x.end = a.ld.start - 1 /\ x.type = f.type
        BY <1>9, <3>1, <4>1, <4>2
      <4> QED BY <1>4, <1>8, <4>2, <4>3 DEF Ahead, Gap
    <3>2. CASE x \in Own(a.list, p) \ {f}
      BY <1>2, <1>8, <3>2 DEF Go1
    <3> QED BY <1>11, <3>1, <3>2
  <2>3. ASSUME ~c.go, NEW x \in Own(c.list, p) PROVE Apart(x, c.ld)
    <3>1. CASE x \in N
      BY <1>8, <1>9, <3>1
    <3>2. CASE x \in Own(a.list, p) \ {f} /\ x \notin Later(list, i + 1, p)
      BY <1>2, <1>8, <3>2 DEF Go1, Apart
    <3>3. CASE x \in Later(list, i + 1, p)
      <4>1. a.ld.end \in Int /\ f.end \in Int
        BY <1>2 DEF Next1, Ld1
      <4>2. a.ld.end < f.end
        BY <1>16, <2>3, <4>1
      <4>3. Ahead(f, x) /\ x.start \in Int
        BY <1>2, <3>3 DEF Next1
      <4> QED BY <1>2, <1>8, <4>2, <4>3, SMTT(20) DEF Ahead, Apart, Gap, Next1, Ld1
    <3> QED BY <1>11, <3>1, <3>2, <3>3
  <2>4. c.mem \in {mem, mem - 1} /\ (c.go => c.mem = mem) /\ c.done = FALSE
    <3>1. a.mem = mem /\ a.done = FALSE /\ a.ld.end \in Int /\ f.end \in Int
      BY <1>2 DEF Go1, Next1, Ld1
    <3>2. CASE a.ld.end < f.end
      BY <1>8, <1>16, <3>1, <3>2
    <3>3. CASE ~(a.ld.end < f.end)
      BY <1>8, <3>1, <3>3
    <3> QED BY <3>2, <3>3
  <2> QED BY <2>1, <2>2, <2>3, <2>4 DEF Reach
<1>18. ASSUME r.type # F_UNLCK
       PROVE  Insrtp(c, i + 1, list, p)
  <2>1. CASE front
    <3>1. Fore(f, a.ld) \in ToSet(c.list) /\ Key(Fore(f, a.ld)) = c.ins
      BY <1>6, <1>8, <1>10, <2>1
    <3>2. Fore(f, a.ld).start < c.ld.start
      BY <1>6, <1>8, <2>1
    <3> QED BY <1>2, <1>6, <1>8, <2>1, <3>1, <3>2 DEF Insrtp, Next1, Ld1
  <2>2. CASE ~front /\ f.start = a.ld.start
    <3>1. c.ins = PrevOf(a.list, Key(f)) /\ From(ToSet(a.list) \ {f}, c.ins, f.start)
      BY <1>3, <1>8, <2>2, PrevOfIs
    <3>2. \A x \in Later(list, i + 1, p) : ~(x.start <= f.start)
      BY <1>2 DEF Next1, Ahead, Gap
    <3>3. \A g \in N : g.start >= f.start
      BY <1>2, <1>9 DEF Next1
    <3>4. CASE c.ins = NoKey /\ \A x \in ToSet(a.list) \ {f} : x.start >= f.start
      BY <1>8, <2>2, <3>3, <3>4 DEF Insrtp
    <3>5. CASE \E x \in ToSet(a.list) \ {f} : Key(x) = c.ins /\ x.start <= f.start
      BY <1>8, <2>2, <3>2, <3>5 DEF Insrtp
    <3> QED BY <3>1, <3>4, <3>5 DEF From
  <2>3. CASE ~front /\ f.start # a.ld.start
    <3>1. c.ins = a.ins /\ f.start > a.ld.start
      BY <1>2, <1>8, <2>3 DEF Next1, Ld1
    <3>2. Insrtp(a, i, list, p)
      BY <1>1, <1>18
    <3>3. Later(list, i + 1, p) \subseteq Later(list, i, p)
      BY LaterIs
    <3>4. CASE a.ins = NoKey /\ \A x \in ToSet(a.list) : x.start >= a.ld.start
      <4>1. \A g \in N : g.start >= a.ld.start
        BY <1>2, <1>9, <3>1 DEF Next1, Ld1
      <4> QED BY <1>8, <3>1, <3>4, <4>1 DEF Insrtp
    <3>5. CASE \E x \in ToSet(a.list) :
                 /\ Key(x) = a.ins /\ x.start <= a.ld.start
                 /\ a.go /\ x \in Later(list, i, p) => x.start < a.ld.start
      <4>1. PICK x \in ToSet(a.list) :
              /\ Key(x) = a.ins /\ x.start <= a.ld.start
              /\ a.go /\ x \in Later(list, i, p) => x.start < a.ld.start
        BY <3>5
      <4>2. x # f
        BY <1>2, <3>1, <4>1 DEF Next1, Ld1
      <4>3. x \in ToSet(c.list)
        BY <1>8, <4>1, <4>2
      <4> QED BY <1>4, <1>8, <3>1, <3>3, <4>1, <4>3 DEF Insrtp
    <3> QED BY <3>2, <3>4, <3>5 DEF Insrtp
  <2> QED BY <2>1, <2>2, <2>3
<1>19. WalkInv(c, i + 1, list, p, r, mem)
  BY <1>1, <1>8, <1>14, <1>15, <1>17, <1>18 DEF WalkInv
<1> QED BY <1>19 DEF c, f


\* There is no memory for the part of f behind ld: the walk is over.
LEMMA FailStep ==
    ASSUME NEW list, Good(list), NEW p \in Proc, NEW r \in Request, NEW mem \in Nat,
           NEW i \in 1 .. Len(list), list[i].own = p,
           NEW a, WalkInv(a, i, list, p, r, mem), a.go,
           a.ld.end < list[i].end, a.mem = 0
    PROVE  WalkInv(Overlay(a, list[i]), i + 1, list, p, r, mem)
<1> DEFINE f == list[i]
           c == Overlay(a, f)
<1>1. a \in WalkT /\ Reach(a, i, list, p, r, mem)
  BY DEF WalkInv
<1>2. Next1(a.list, f, list, i, p) /\ Ld1(a.ld, r) /\ Go1(a, f, list, i, p, mem)
  BY StepFacts
<1>3. /\ c \in WalkT /\ c.list = a.list /\ c.woken = a.woken /\ c.ld = a.ld
      /\ c.ins = a.ins /\ c.mem = a.mem /\ c.go = FALSE /\ c.done = TRUE
  BY <1>1, OverlayFails
<1> HIDE DEF c, f
<1>4. c.mem = 0 /\ mem = 0
  BY <1>2, <1>3 DEF Go1
<1>5. Reach(c, i + 1, list, p, r, mem)
  BY <1>1, <1>2, <1>3, <1>4 DEF Reach, Next1, Own
<1>6. r.type # F_UNLCK => Insrtp(c, i + 1, list, p)
  BY <1>3 DEF WalkInv, Insrtp
<1> QED BY <1>3, <1>5, <1>6, UnmovedStep DEF c, f

\* flckadj's switch.
LEMMA VisitStep ==
    ASSUME NEW list, Good(list), NEW p \in Proc, NEW r \in Request, NEW mem \in Nat,
           NEW i \in 1 .. Len(list), list[i].own = p,
           NEW a, WalkInv(a, i, list, p, r, mem)
    PROVE  WalkInv(Visit(a, list[i]), i + 1, list, p, r, mem)
<1> DEFINE f == list[i]
           ld == a.ld
<1>1. CASE ~a.go
  BY <1>1, StoppedStep DEF Visit
<1>2. CASE a.go
  <2>1. /\ f.start \in Int /\ f.end \in Int /\ f.start <= f.end
        /\ ld.start \in Int /\ ld.end \in Int /\ ld.start <= ld.end
    <3>1. Next1(a.list, f, list, i, p) /\ Ld1(ld, r)
      BY StepFacts
    <3> QED BY <3>1 DEF Next1, Ld1
  <2>2. CASE ld.end < f.start - 1
    <3>1. Visit(a, f) = [a EXCEPT !.go = FALSE]
      BY <1>2, <2>2 DEF Visit
    <3>2. Ahead(ld, f)
      BY <2>1, <2>2 DEF Ahead, Gap
    <3> QED BY <1>2, <3>1, <3>2, StopStep
  <2>3. CASE ~(ld.end < f.start - 1) /\ ld.start > f.end + 1
    <3>1. Visit(a, f) = [a EXCEPT !.ins = Key(f)]
      BY <1>2, <2>3 DEF Visit
    <3>2. Ahead(f, ld)
      BY <2>1, <2>3 DEF Ahead, Gap
    <3> QED BY <1>2, <3>1, <3>2, PassStep
  <2>4. CASE ~(ld.end < f.start - 1) /\ ~(ld.start > f.end + 1) /\ ld.type = f.type
    <3>1. Visit(a, f) = Coalesce(a, f)
      BY <1>2, <2>4 DEF Visit
    <3>2. CASE Covers(f, ld)
      BY <1>2, <2>4, <3>1, <3>2, CoveredStep
    <3>3. CASE ~Covers(f, ld)
      <4>1. ld.end >= f.start - 1 /\ ld.start <= f.end + 1
        BY <2>1, <2>4
      <4> QED BY <1>2, <2>4, <3>1, <3>3, <4>1, CoalesceStep
    <3> QED BY <3>2, <3>3
  <2>5. CASE ~(ld.end < f.start - 1) /\ ~(ld.start > f.end + 1) /\ ld.type # f.type
             /\ ld.end = f.start - 1
    <3>1. Visit(a, f) = [a EXCEPT !.go = FALSE]
      BY <1>2, <2>5 DEF Visit
    <3>2. Ahead(ld, f)
      BY <2>1, <2>5 DEF Ahead, Gap
    <3> QED BY <1>2, <3>1, <3>2, StopStep
  <2>6. CASE ~(ld.end < f.start - 1) /\ ~(ld.start > f.end + 1) /\ ld.type # f.type
             /\ ld.end # f.start - 1 /\ ld.start = f.end + 1
    <3>1. Visit(a, f) = a
      BY <1>2, <2>6 DEF Visit
    <3>2. Ahead(f, ld)
      BY <2>1, <2>6 DEF Ahead, Gap
    <3> QED BY <1>2, <3>1, <3>2, PassStep
  <2>7. CASE ~(ld.end < f.start - 1) /\ ~(ld.start > f.end + 1) /\ ld.type # f.type
             /\ ld.end # f.start - 1 /\ ld.start # f.end + 1
    <3>1. Visit(a, f) = Overlay(a, f)
      BY <1>2, <2>7 DEF Visit
    <3>2. CASE ld.end < f.end /\ a.mem = 0
      BY <1>2, <3>1, <3>2, FailStep
    <3>3. CASE ~(ld.end < f.end /\ a.mem = 0)
      <4>1. ld.end >= f.start /\ ld.start <= f.end
        BY <2>1, <2>7
      <4> QED BY <1>2, <2>7, <3>1, <3>3, <4>1, OverlayStep
    <3> QED BY <3>2, <3>3
  <2> QED BY <2>2, <2>3, <2>4, <2>5, <2>6, <2>7
<1>3. a.go \in BOOLEAN
  BY DEF WalkInv, WalkT
<1> QED BY <1>1, <1>2, <1>3

\* The walk that Walks is, up to place n, and that there is one.
IsWalk(g, n, list, i, p, start) ==
    g = [m \in i - 1 .. n |->
            IF m = i - 1 THEN start
            ELSE IF list[m].own = p THEN Visit(g[m - 1], list[m]) ELSE g[m - 1]]
\* There is one.
LEMMA WalkExists ==
    ASSUME NEW list, NEW i \in Int, NEW p, NEW start, NEW top \in Int, i - 1 <= top
    PROVE  \E g : IsWalk(g, top, list, i, p, start)
<1> DEFINE S == {n \in i - 1 .. top : \E g : IsWalk(g, n, list, i, p, start)}
<1>1. i - 1 \in S
  <2> DEFINE g == [m \in i - 1 .. i - 1 |-> start]
  <2>1. IsWalk(g, i - 1, list, i, p, start)
    BY DEF IsWalk
  <2> QED BY <2>1
<1>2. ASSUME NEW n \in i - 1 .. top - 1, n \in S
      PROVE  n + 1 \in S
  <2>1. PICK g : IsWalk(g, n, list, i, p, start)
    BY <1>2
  <2> DEFINE At(v, m) == IF list[m].own = p THEN Visit(v, list[m]) ELSE v
             h == [m \in i - 1 .. n + 1 |-> IF m = n + 1 THEN At(g[n], n + 1) ELSE g[m]]
  <2>2. \A m \in i - 1 .. n : g[m] = IF m = i - 1 THEN start ELSE At(g[m - 1], m)
    BY <2>1 DEF IsWalk
  <2> HIDE DEF At
  <2>3. ASSUME NEW m \in i - 1 .. n + 1
        PROVE  h[m] = IF m = i - 1 THEN start ELSE At(h[m - 1], m)
    <3>1. CASE m = n + 1
      <4>1. m # i - 1 /\ m - 1 = n /\ n # n + 1 /\ n \in i - 1 .. n + 1
        BY <3>1
      <4>2. h[m - 1] = g[n] /\ h[m] = At(g[n], m)
        BY <3>1, <4>1
      <4> QED BY <4>1, <4>2
    <3>2. CASE m # n + 1
      <4>1. m \in i - 1 .. n /\ h[m] = g[m]
        BY <3>2
      <4>2. CASE m = i - 1
        BY <2>2, <4>1, <4>2
      <4>3. CASE m # i - 1
        <5>1. m - 1 \in i - 1 .. n + 1 /\ m - 1 # n + 1
          BY <4>1, <4>3
        <5> QED BY <2>2, <4>1, <4>3, <5>1
      <4> QED BY <4>2, <4>3
    <3> QED BY <3>1, <3>2
  <2>4. h = [m \in i - 1 .. n + 1 |-> IF m = i - 1 THEN start ELSE At(h[m - 1], m)]
    <3>1. h = [m \in i - 1 .. n + 1 |-> h[m]]
      OBVIOUS
    <3> HIDE DEF h
    <3> QED BY <2>3, <3>1
  <2> HIDE DEF h
  <2>5. IsWalk(h, n + 1, list, i, p, start)
    BY <2>4 DEF IsWalk, At
  <2> QED BY <2>5
<1>3. i - 1 .. top \subseteq S
  <2> HIDE DEF S
  <2> QED BY <1>1, <1>2, Induction
<1>4. top \in i - 1 .. top
  OBVIOUS
<1> QED BY <1>3, <1>4

\* Walks from place to place.
LEMMA WalksIs ==
    ASSUME NEW list, NEW i \in Int, NEW p, NEW start, Len(list) \in Int, i - 1 <= Len(list)
    PROVE  LET w == Walks(list, i, p, start)
           IN  /\ w[i - 1] = start
               /\ \A n \in i .. Len(list) :
                    w[n] = IF list[n].own = p THEN Visit(w[n - 1], list[n]) ELSE w[n - 1]
<1> DEFINE w == Walks(list, i, p, start)
<1>1. \E g : IsWalk(g, Len(list), list, i, p, start)
  BY WalkExists
<1>2. w = CHOOSE g : IsWalk(g, Len(list), list, i, p, start)
  BY DEF Walks, IsWalk
<1>3. IsWalk(w, Len(list), list, i, p, start)
  BY <1>1, <1>2
<1> HIDE DEF w
<1>4. w = [m \in i - 1 .. Len(list) |->
            IF m = i - 1 THEN start
            ELSE IF list[m].own = p THEN Visit(w[m - 1], list[m]) ELSE w[m - 1]]
  BY <1>3 DEF IsWalk
<1>5. i - 1 \in i - 1 .. Len(list)
  OBVIOUS
<1>6. ASSUME NEW n \in i .. Len(list)
      PROVE  w[n] = IF list[n].own = p THEN Visit(w[n - 1], list[n]) ELSE w[n - 1]
  <2>1. n \in i - 1 .. Len(list) /\ n # i - 1
    OBVIOUS
  <2> QED BY <1>4, <2>1
<1>7. w[i - 1] = start
  BY <1>4, <1>5
<1> QED BY <1>6, <1>7 DEF w

\* The whole walk.
LEMMA WalkEnds ==
    ASSUME NEW list, Good(list), NEW p \in Proc, NEW r \in Request, NEW mem \in Nat,
           NEW i \in 1 .. Len(list) + 1, NEW start, WalkInv(start, i, list, p, r, mem)
    PROVE  WalkInv(Walks(list, i, p, start)[Len(list)], Len(list) + 1, list, p, r, mem)
<1> DEFINE w == Walks(list, i, p, start)
           S == {n \in i - 1 .. Len(list) : WalkInv(w[n], n + 1, list, p, r, mem)}
<1>1. Len(list) \in Nat
  BY DEF Good, Order
<1>2. i \in Int /\ i - 1 <= Len(list) /\ i - 1 \in i - 1 .. Len(list) /\ (i - 1) + 1 = i
  BY <1>1
<1>3. /\ w[i - 1] = start
      /\ \A n \in i .. Len(list) :
           w[n] = IF list[n].own = p THEN Visit(w[n - 1], list[n]) ELSE w[n - 1]
  BY <1>1, <1>2, WalksIs
<1> HIDE DEF w
<1>4. i - 1 \in S
  BY <1>2, <1>3
<1>5. ASSUME NEW n \in i - 1 .. Len(list) - 1, n \in S
      PROVE  n + 1 \in S
  <2>1. n + 1 \in i .. Len(list) /\ (n + 1) - 1 = n /\ n + 1 \in 1 .. Len(list)
        /\ n + 1 \in i - 1 .. Len(list)
    BY <1>1
  <2>2. WalkInv(w[n], n + 1, list, p, r, mem)
    BY <1>5
  <2>3. CASE list[n + 1].own = p
    <3>1. w[n + 1] = Visit(w[n], list[n + 1])
      BY <1>3, <2>1, <2>3
    <3> QED BY <2>1, <2>2, <2>3, <3>1, VisitStep
  <2>4. CASE list[n + 1].own # p
    <3>1. w[n + 1] = w[n]
      BY <1>3, <2>1, <2>4
    <3> QED BY <2>1, <2>2, <2>4, <3>1, SkipStep
  <2> QED BY <2>3, <2>4
<1>6. i - 1 .. Len(list) \subseteq S
  <2> HIDE DEF S
  <2>1. i - 1 \in Int /\ Len(list) \in Int
    BY <1>1
  <2>2. \A k \in i - 1 .. Len(list) - 1 : k \in S => k + 1 \in S
    BY <1>5
  <2> QED BY <1>4, <2>1, <2>2, Induction
<1>7. Len(list) \in i - 1 .. Len(list)
  BY <1>1, <1>2
<1> QED BY <1>6, <1>7 DEF w

-----------------------------------------------------------------------------
(* flckadj, from its beginning to the list it leaves.                      *)

\* The first number of a set of places, and the last one.
LEMMA FirstLast ==
    ASSUME NEW n \in Nat, NEW I, I \subseteq 1 .. n, I # {}
    PROVE  /\ Min(I) \in I /\ \A j \in I : Min(I) <= j
           /\ Max(I) \in I /\ \A j \in I : j <= Max(I)
<1>1. Min(I) \in I /\ \A j \in I : Min(I) <= j
  <2>1. I \subseteq Nat
    OBVIOUS
  <2> QED BY <2>1, LeastNumber
<1>2. \E h \in I : \A j \in I : j <= h
  <2> DEFINE D == {d \in Nat : n - d \in I}
  <2>1. PICK h \in I : TRUE
    OBVIOUS
  <2>2. n - h \in Nat /\ n - (n - h) = h
    BY <2>1
  <2>3. D # {}
    BY <2>1, <2>2
  <2>4. PICK d \in D : \A e \in D : d <= e
    <3>1. D \subseteq Nat
      OBVIOUS
    <3> HIDE DEF D
    <3> QED BY <2>3, <3>1, LeastNumber
  <2>5. d \in Nat /\ n - d \in I
    OBVIOUS
  <2>6. ASSUME NEW j \in I PROVE j <= n - d
    <3>1. n - j \in Nat /\ n - (n - j) = j /\ j \in Int
      OBVIOUS
    <3>2. n - j \in D
      BY <3>1
    <3>3. d <= n - j
      BY <2>4, <3>2
    <3> QED BY <2>5, <3>1, <3>3
  <2> QED BY <2>5, <2>6
<1>3. Max(I) \in I /\ \A j \in I : j <= Max(I)
  <2>1. Max(I) = CHOOSE h \in I : \A j \in I : j <= h
    BY <1>2 DEF Max
  <2> QED BY <1>2, <2>1
<1> QED BY <1>1, <1>3

\* The first member of a list that a test holds of, for a test with the set I.
LEMMA BlockedIs ==
    ASSUME NEW l \in Seq(LockRecord), NEW p, NEW r
    PROVE  LET i == Blocked(l, p, r)
           IN  /\ i = 0 => \A x \in ToSet(l) : ~Conflicts(x, p, r)
               /\ i # 0 => i \in 1 .. Len(l) /\ Conflicts(l[i], p, r)
<1> DEFINE I == {j \in 1 .. Len(l) : Conflicts(l[j], p, r)}
<1>1. CASE I = {}
  <2>1. Blocked(l, p, r) = 0
    BY <1>1 DEF Blocked, SelectInSeq
  <2>2. \A x \in ToSet(l) : ~Conflicts(x, p, r)
    BY <1>1, InList
  <2> QED BY <2>1, <2>2
<1>2. CASE I # {}
  <2>1. Blocked(l, p, r) = Min(I)
    BY <1>2 DEF Blocked, SelectInSeq
  <2>2. I \subseteq 1 .. Len(l) /\ Len(l) \in Nat
    OBVIOUS
  <2>3. Min(I) \in I
    <3> HIDE DEF I
    <3> QED BY <1>2, <2>2, FirstLast
  <2>4. Min(I) \in 1 .. Len(l) /\ Conflicts(l[Min(I)], p, r) /\ Min(I) # 0
    BY <2>3
  <2> QED BY <2>1, <2>4
<1> QED BY <1>1, <1>2

\* Where the walk begins, and what is behind it.
Begins(list, k, p, r) ==
    \E i \in 1 .. Len(list) + 1 :
      /\ i = (IF k = NoKey THEN 1 ELSE Place(list, k)) /\ k \in KeyT
      /\ \A x \in Own(list, p) : x \in Later(list, i, p) \/ x.end < r.start - 1
      /\ r.type # F_UNLCK => \/ k = NoKey /\ \A x \in ToSet(list) : x.start >= r.start
                             \/ \E x \in ToSet(list) : Key(x) = k /\ x.start < r.start

\* All of p's locks come at or after the first place of the list.
LEMMA LaterAll ==
    ASSUME NEW list, Good(list), NEW p
    PROVE  \A x \in Own(list, p) : x \in Later(list, 1, p)
<1>1. list \in Seq(LockRecord)
  BY DEF Good, Order
<1> QED BY <1>1, InList DEF Later, Own

\* An unlock begins at the head of the list.
LEMMA HeadBegins ==
    ASSUME NEW list, Good(list), NEW p, NEW r, r.type = F_UNLCK
    PROVE  Begins(list, IF list = <<>> THEN NoKey ELSE Key(Head(list)), p, r)
<1>1. list \in Seq(LockRecord) /\ Len(list) \in Nat /\ Order(list)
  BY DEF Good, Order
<1>2. 1 \in 1 .. Len(list) + 1
  BY <1>1
<1>3. CASE list = <<>>
  BY <1>2, <1>3, LaterAll DEF Begins, KeyT
<1>4. CASE list # <<>>
  <2>1. 1 \in 1 .. Len(list) /\ Head(list) = list[1]
    BY <1>1, <1>4
  <2>2. list[1] \in LockRecord
    BY <1>1, <2>1, InList
  <2>3. Place(list, Key(Head(list))) = 1 /\ Key(Head(list)) # NoKey /\ Key(Head(list)) \in KeyT
    BY <1>1, <2>1, <2>2, PlaceIs, KeyInKeys
  <2> QED BY <1>2, <1>4, <2>3, LaterAll DEF Begins
<1> QED BY <1>3, <1>4

\* What blocked returns in insrt serves to begin the walk and to insert.
LEMMA InsrtBegins ==
    ASSUME NEW list, Good(list), NEW p \in Proc, NEW r \in Request
    PROVE  Begins(list, Insrt(list, p, r), p, r)
<1> DEFINE I == {j \in 1 .. Len(list) : list[j].own = p /\ list[j].start < r.start
                                        /\ r.start - 1 <= list[j].end}
           J == {j \in 1 .. Len(list) : list[j].start < r.start}
           own == IF I # {} THEN Min(I) ELSE 0
           less == IF J # {} THEN Max(J) ELSE 0
           k == Insrt(list, p, r)
<1> SUFFICES Begins(list, k, p, r)
  OBVIOUS
<1>1. list \in Seq(LockRecord) /\ Len(list) \in Nat /\ Order(list)
  BY DEF Good, Order
<1>2. k = IF own # 0 THEN Key(list[own]) ELSE IF less # 0 THEN Key(list[less]) ELSE NoKey
  BY DEF Insrt, SelectInSeq, SelectLastInSeq
<1>3. \A j \in 1 .. Len(list) : /\ list[j] \in LockRecord /\ list[j] \in ToSet(list)
                                /\ list[j].start \in Int /\ list[j].end \in Int
                                /\ list[j].start <= list[j].end
  <2> TAKE j \in 1 .. Len(list)
  <2>1. list[j] \in LockRecord /\ list[j] \in ToSet(list)
    BY <1>1, InList
  <2> QED BY <2>1, InGood
<1>4. r.start \in Int
  BY RequestIs
<1>5. I \subseteq 1 .. Len(list) /\ J \subseteq 1 .. Len(list)
  OBVIOUS
<1>6. ASSUME NEW i \in 1 .. Len(list), k = Key(list[i]), list[i].start < r.start,
             \A j \in 1 .. i - 1 : list[j].own = p => list[j].end < r.start - 1
      PROVE  Begins(list, k, p, r)
  <2>1. Place(list, k) = i /\ k # NoKey /\ k \in KeyT
    BY <1>1, <1>3, <1>6, PlaceIs, KeyInKeys
  <2>2. ASSUME NEW x \in Own(list, p) PROVE x \in Later(list, i, p) \/ x.end < r.start - 1
    <3>1. PICK j \in 1 .. Len(list) : x = list[j]
      BY <1>1, InList DEF Own
    <3>2. CASE j < i
      <4>1. j \in 1 .. i - 1
        BY <3>2
      <4>2. x.own = p
        BY DEF Own
      <4> QED BY <1>6, <3>1, <4>1, <4>2
    <3>3. CASE i <= j
      <4>1. j \in i .. Len(list)
        BY <1>1, <3>3
      <4> QED BY <3>1, <4>1 DEF Later
    <3> QED BY <3>2, <3>3
  <2>3. i \in 1 .. Len(list) + 1 /\ list[i] \in ToSet(list)
    BY <1>1, <1>3
  <2> HIDE DEF k
  <2> QED BY <1>6, <2>1, <2>2, <2>3 DEF Begins
<1>7. CASE I # {}
  <2>1. own \in I /\ \A j \in I : own <= j
    <3> HIDE DEF I
    <3> QED BY <1>1, <1>5, <1>7, FirstLast
  <2> HIDE DEF own
  <2>2. /\ own \in 1 .. Len(list) /\ own # 0 /\ list[own].own = p /\ list[own].start < r.start
        /\ r.start - 1 <= list[own].end
    BY <2>1
  <2>3. ASSUME NEW j \in 1 .. own - 1, list[j].own = p PROVE list[j].end < r.start - 1
    <3>1. j \in 1 .. Len(list) /\ j < own
      BY <1>1, <2>2
    <3>2. list[j].start <= list[own].start /\ Key(list[j]) # Key(list[own])
      BY <1>1, <2>2, <3>1 DEF Order
    <3>3. Apart(list[j], list[own])
      BY <1>3, <2>2, <2>3, <3>1, <3>2 DEF Good
    <3>4. ~Ahead(list[own], list[j])
      BY <1>3, <2>2, <3>1, <3>2 DEF Ahead, Gap
    <3>5. list[j].end < list[own].start
      BY <1>3, <2>2, <3>1, <3>3, <3>4 DEF Apart, Ahead, Gap
    <3>6. list[j].end \in Int /\ list[own].start \in Int
      BY <1>3, <2>2, <3>1
    <3> QED BY <1>4, <2>2, <3>5, <3>6
  <2>4. k = Key(list[own])
    BY <1>2, <2>2
  <2> HIDE DEF k
  <2> QED BY <1>6, <2>2, <2>3, <2>4
<1>8. CASE I = {} /\ J # {}
  <2>1. less \in J
    <3> HIDE DEF J
    <3> QED BY <1>1, <1>5, <1>8, FirstLast
  <2> HIDE DEF less
  <2>2. less \in 1 .. Len(list) /\ less # 0 /\ list[less].start < r.start
    BY <2>1
  <2>3. ASSUME NEW j \in 1 .. less - 1, list[j].own = p PROVE list[j].end < r.start - 1
    <3>1. j \in 1 .. Len(list) /\ j < less
      BY <1>1, <2>2
    <3>2. list[j].start <= list[less].start
      BY <1>1, <2>2, <3>1 DEF Order
    <3>3. list[j].start < r.start
      BY <1>3, <1>4, <2>2, <3>1, <3>2
    <3>4. ~(r.start - 1 <= list[j].end)
      BY <1>8, <2>3, <3>1, <3>3
    <3> QED BY <1>3, <1>4, <3>1, <3>4
  <2>4. k = Key(list[less])
    BY <1>2, <1>8, <2>2
  <2> HIDE DEF k
  <2> QED BY <1>6, <2>2, <2>3, <2>4
<1>9. CASE I = {} /\ J = {}
  <2>1. k = NoKey /\ 1 \in 1 .. Len(list) + 1 /\ NoKey \in KeyT
    BY <1>1, <1>2, <1>9 DEF KeyT
  <2>2. ASSUME NEW x \in ToSet(list) PROVE x.start >= r.start
    <3>1. PICK j \in 1 .. Len(list) : x = list[j]
      BY <1>1, InList
    <3> QED BY <1>3, <1>4, <1>9, <3>1
  <2> HIDE DEF k
  <2> QED BY <2>1, <2>2, LaterAll DEF Begins
<1> QED BY <1>7, <1>8, <1>9

\* What the locks S say of byte b; S says r of r's bytes, and of others what T
\* says; S says no more than T does.
Has(S, b, t) == \E x \in S : In(b, x) /\ x.type = t
Exact(S, T, r) ==
    \A b \in Bytes, t \in {F_RDLCK, F_WRLCK} :
        Has(S, b, t) <=> IF In(b, r) THEN t = r.type ELSE Has(T, b, t)
Part(S, T) == \A b \in Bytes, t \in {F_RDLCK, F_WRLCK} : Has(S, b, t) => Has(T, b, t)

\* What is promised of the list l and the keys woken that flckadj returns.
Adjusted(l, woken, list, p, r, mem) ==
    /\ Good(l)
    /\ \A x : x.own # p => (x \in ToSet(l) <=> x \in ToSet(list))
    /\ \A y \in Own(list, p) : y \in ToSet(l) \/ (y.wakeflg => Key(y) \in woken)
    /\ Exact(Own(l, p), Own(list, p), r) \/ (mem # 2 /\ Part(Own(l, p), Own(list, p)))

\* A byte belongs to one lock of an owner.
LEMMA OneLock ==
    ASSUME NEW l, Good(l), NEW p, NEW x \in Own(l, p), NEW y \in Own(l, p), NEW b \in Bytes,
           In(b, x), In(b, y)
    PROVE  x = y
<1>1. x \in ToSet(l) /\ y \in ToSet(l) /\ x.own = y.own
  BY DEF Own
<1>2. /\ x.start \in Int /\ x.end \in Int /\ y.start \in Int /\ y.end \in Int /\ b \in Int
  BY <1>1, InGood DEF Bytes
<1>3. ~Apart(x, y)
  BY <1>2 DEF Apart, Ahead, Gap, In
<1> QED BY <1>1, <1>3 DEF Good

\* Locks that lie apart have no byte in common.
LEMMA ApartBytes ==
    ASSUME NEW x, NEW y, x.start \in Int, x.end \in Int, y.start \in Int, y.end \in Int,
           Apart(x, y), NEW b \in Bytes, In(b, x)
    PROVE  ~In(b, y)
<1>1. b \in Int
  BY DEF Bytes
<1>2. CASE Ahead(x, y)
  <2>1. x.end < y.start
    BY <1>2 DEF Ahead, Gap
  <2> QED BY <1>1, <2>1 DEF In
<1>3. CASE Ahead(y, x)
  <2>1. y.end < x.start
    BY <1>3 DEF Ahead, Gap
  <2> QED BY <1>1, <2>1 DEF In
<1> QED BY <1>2, <1>3 DEF Apart

\* When the locks S say what the call asked for.
LEMMA ExactIf ==
    ASSUME NEW list, Good(list), NEW p \in Proc, NEW r \in Request, NEW ld, NEW l, NEW woken,
           Ld1(ld, r), Grown(ld, list, p, r), Less(l, ld, woken, list, p), NEW S,
           \A x \in S, b \in Bytes : In(b, x) =>
             IF In(b, ld) THEN x.type = r.type ELSE Has(Own(list, p), b, x.type),
           \A y \in Own(l, p), b \in Bytes : In(b, y) /\ ~In(b, ld) => Has(S, b, y.type),
           r.type # F_UNLCK => \A b \in Bytes : In(b, ld) => Has(S, b, r.type)
    PROVE  Exact(S, Own(list, p), r)
<1> SUFFICES ASSUME NEW b \in Bytes, NEW t \in {F_RDLCK, F_WRLCK}
             PROVE  Has(S, b, t) <=> IF In(b, r) THEN t = r.type ELSE Has(Own(list, p), b, t)
  BY DEF Exact
<1>1. b \in Int /\ t # F_UNLCK
  BY DEF Bytes, F_RDLCK, F_WRLCK, F_UNLCK
<1>2. In(b, r) => In(b, ld)
  BY <1>1 DEF In, Ld1
<1>3. CASE In(b, r)
  <2>1. Has(S, b, t) => t = r.type
    BY <1>2, <1>3 DEF Has
  <2>2. t = r.type => Has(S, b, t)
    BY <1>1, <1>2, <1>3
  <2> QED BY <1>3, <2>1, <2>2
<1>4. CASE ~In(b, r) /\ In(b, ld)
  <2>1. PICK y \in Own(list, p) : y.type = r.type /\ In(b, y)
    BY <1>4 DEF Grown
  <2>2. r.type # F_UNLCK
    <3>1. y \in ToSet(list)
      BY DEF Own
    <3> QED BY <2>1, <3>1, InGood DEF F_RDLCK, F_WRLCK, F_UNLCK
  <2>3. Has(S, b, t) => t = r.type
    BY <1>4 DEF Has
  <2>4. Has(Own(list, p), b, t) => t = r.type
    BY <2>1, OneLock DEF Has
  <2>5. Has(S, b, r.type) /\ Has(Own(list, p), b, r.type)
    BY <1>4, <2>1, <2>2 DEF Has
  <2> QED BY <1>4, <2>3, <2>4, <2>5
<1>5. CASE ~In(b, ld)
  <2>1. Has(S, b, t) => Has(Own(list, p), b, t)
    BY <1>5 DEF Has
  <2>2. ASSUME Has(Own(list, p), b, t) PROVE Has(S, b, t)
    <3>1. PICK y \in Own(list, p) : In(b, y) /\ y.type = t
      BY <2>2 DEF Has
    <3>2. PICK x \in Own(l, p) : x.type = y.type /\ In(b, x)
      BY <1>5, <3>1 DEF Less
    <3> QED BY <1>5, <3>1, <3>2
  <2> QED BY <1>2, <1>5, <2>1, <2>2
<1> QED BY <1>3, <1>4, <1>5

\* The end of the walk: nothing is to be visited.
LEMMA WalkOver ==
    ASSUME NEW list, Good(list), NEW p \in Proc, NEW r \in Request, NEW mem \in Nat,
           NEW w, WalkInv(w, Len(list) + 1, list, p, r, mem)
    PROVE  /\ Ld1(w.ld, r) /\ Part(Own(w.list, p), Own(list, p))
           /\ \A x \in Own(w.list, p) : /\ x \in ToSet(w.list) /\ x \in LockRecord
                                        /\ x.start \in Int /\ x.end \in Int /\ x.start <= x.end
           /\ ~w.done => \A x \in Own(w.list, p) : Apart(x, w.ld)
           /\ w.done => \/ w.mem = 0 /\ mem = 0
                        \/ \E x \in Own(w.list, p) : x.type = r.type /\ Covers(x, w.ld)
           /\ r.type # F_UNLCK /\ ~w.done => From(ToSet(w.list), w.ins, w.ld.start)
           /\ w.mem \in {mem, mem - 1}
<1>1. /\ w \in WalkT /\ Good(w.list) /\ Grown(w.ld, list, p, r)
      /\ Less(w.list, w.ld, w.woken, list, p) /\ Reach(w, Len(list) + 1, list, p, r, mem)
      /\ r.type # F_UNLCK => Insrtp(w, Len(list) + 1, list, p)
  BY DEF WalkInv
<1>2. \A x : x \notin Later(list, Len(list) + 1, p)
  <2>1. Len(list) \in Nat
    BY DEF Good, Order
  <2> QED BY <2>1 DEF Later
<1>3. Ld1(w.ld, r)
  <2>1. w.ld \in Request
    BY <1>1 DEF WalkT
  <2> QED BY <1>1, <2>1, RequestIs DEF Ld1, Grown
<1>4. ASSUME NEW x \in Own(w.list, p)
      PROVE  /\ x \in ToSet(w.list) /\ x \in LockRecord
             /\ x.start \in Int /\ x.end \in Int /\ x.start <= x.end
  <2>1. x \in ToSet(w.list)
    BY DEF Own
  <2> QED BY <1>1, <2>1, InGood
<1>5. Part(Own(w.list, p), Own(list, p))
  <2> SUFFICES ASSUME NEW b \in Bytes, NEW t, NEW x \in Own(w.list, p), In(b, x), x.type = t
               PROVE  Has(Own(list, p), b, t)
    BY DEF Part, Has
  <2>1. PICK y \in Own(list, p) : y.type = x.type /\ y.start <= x.start /\ x.end <= y.end
    BY <1>1 DEF Less
  <2>2. y.start \in Int /\ y.end \in Int /\ b \in Int
    <3>1. y \in ToSet(list)
      BY DEF Own
    <3> QED BY <3>1, InGood DEF Bytes
  <2>3. In(b, y)
    BY <1>4, <2>1, <2>2 DEF In
  <2> QED BY <2>1, <2>3 DEF Has
<1>6. ASSUME ~w.done, NEW x \in Own(w.list, p) PROVE Apart(x, w.ld)
  <2>1. CASE w.go
    BY <1>1, <1>2, <1>6, <2>1 DEF Reach, Apart
  <2>2. CASE ~w.go
    BY <1>1, <1>6, <2>2 DEF Reach
  <2> QED BY <2>1, <2>2
<1>7. r.type # F_UNLCK => From(ToSet(w.list), w.ins, w.ld.start)
  BY <1>1 DEF Insrtp, From
<1> QED BY <1>1, <1>3, <1>4, <1>5, <1>6, <1>7 DEF Reach

\* The walk is over because a lock of p covers r, or p only unlocks.
LEMMA WalkExact ==
    ASSUME NEW list, Good(list), NEW p \in Proc, NEW r \in Request, NEW mem \in Nat,
           NEW w, WalkInv(w, Len(list) + 1, list, p, r, mem),
           \/ \E x \in Own(w.list, p) : x.type = r.type /\ Covers(x, w.ld)
           \/ r.type = F_UNLCK /\ \A x \in Own(w.list, p) : Apart(x, w.ld)
    PROVE  Exact(Own(w.list, p), Own(list, p), r)
<1>1. /\ Good(w.list) /\ Grown(w.ld, list, p, r)
      /\ Less(w.list, w.ld, w.woken, list, p)
  BY DEF WalkInv
<1>2. /\ Ld1(w.ld, r) /\ Part(Own(w.list, p), Own(list, p))
      /\ \A x \in Own(w.list, p) : x.start \in Int /\ x.end \in Int /\ x \in ToSet(w.list)
  BY WalkOver
<1>3. ASSUME NEW x \in Own(w.list, p), NEW b \in Bytes, In(b, x)
      PROVE  IF In(b, w.ld) THEN x.type = r.type ELSE Has(Own(list, p), b, x.type)
  <2>1. x.type \in {F_RDLCK, F_WRLCK}
    BY <1>1, <1>2, InGood
  <2>2. Has(Own(list, p), b, x.type)
    BY <1>2, <1>3, <2>1 DEF Part, Has
  <2>3. ASSUME In(b, w.ld) PROVE x.type = r.type
    <3>1. CASE \E z \in Own(w.list, p) : z.type = r.type /\ Covers(z, w.ld)
      <4>1. PICK z \in Own(w.list, p) : z.type = r.type /\ Covers(z, w.ld)
        BY <3>1
      <4>2. b \in Int /\ z.start \in Int /\ z.end \in Int
        BY <1>2 DEF Bytes
      <4>3. In(b, z)
        BY <1>2, <2>3, <4>1, <4>2 DEF In, Covers, Ld1
      <4> QED BY <1>1, <1>3, <4>1, <4>3, OneLock
    <3>2. CASE \A z \in Own(w.list, p) : Apart(z, w.ld)
      <4>1. w.ld.start \in Int /\ w.ld.end \in Int
        BY <1>2 DEF Ld1
      <4>2. ~In(b, w.ld)
        BY <1>2, <1>3, <3>2, <4>1, ApartBytes
      <4> QED BY <2>3, <4>2
    <3> QED BY <3>1, <3>2
  <2> QED BY <2>2, <2>3
<1>4. ASSUME r.type # F_UNLCK, NEW b \in Bytes, In(b, w.ld)
      PROVE  Has(Own(w.list, p), b, r.type)
  <2>1. PICK z \in Own(w.list, p) : z.type = r.type /\ Covers(z, w.ld)
    BY <1>4
  <2>2. b \in Int /\ z.start \in Int /\ z.end \in Int
    BY <1>2 DEF Bytes
  <2>3. In(b, z)
    BY <1>2, <1>4, <2>1, <2>2 DEF In, Covers, Ld1
  <2> QED BY <2>1, <2>3 DEF Has
<1>5. \A y \in Own(w.list, p), b \in Bytes :
        In(b, y) /\ ~In(b, w.ld) => Has(Own(w.list, p), b, y.type)
  BY DEF Has
<1> QED BY <1>1, <1>2, <1>3, <1>4, <1>5, ExactIf

\* A new lock is put where the walk stopped.
LEMMA WalkInserts ==
    ASSUME NEW list, Good(list), NEW p \in Proc, NEW r \in Request, NEW mem \in Nat,
           NEW w, WalkInv(w, Len(list) + 1, list, p, r, mem), ~w.done, r.type # F_UNLCK
    PROVE  LET l == InsertFrom(w.list, w.ins, Lock(p, r, w.ld.start, w.ld.end))
           IN  /\ Good(l) /\ Exact(Own(l, p), Own(list, p), r)
               /\ ToSet(w.list) \subseteq ToSet(l)
               /\ \A x : x.own # p => (x \in ToSet(l) <=> x \in ToSet(w.list))
<1> DEFINE new == Lock(p, r, w.ld.start, w.ld.end)
           l == InsertFrom(w.list, w.ins, new)
<1>1. /\ Good(w.list) /\ Order(w.list) /\ Grown(w.ld, list, p, r)
      /\ Less(w.list, w.ld, w.woken, list, p)
  BY DEF WalkInv, Good
<1>2. /\ Ld1(w.ld, r) /\ Part(Own(w.list, p), Own(list, p))
      /\ \A x \in Own(w.list, p) : x.start \in Int /\ x.end \in Int /\ x.start <= x.end
                                   /\ x \in ToSet(w.list)
      /\ \A x \in Own(w.list, p) : Apart(x, w.ld)
      /\ From(ToSet(w.list), w.ins, w.ld.start)
  BY WalkOver
<1>3. /\ new \in LockRecord /\ new.own = p /\ new.type = r.type
      /\ new.start = w.ld.start /\ new.end = w.ld.end
  <2>1. w.ld.start \in Bytes /\ w.ld.end \in Bytes
    BY <1>2 DEF Ld1, Request
  <2>2. r.type \in {F_RDLCK, F_WRLCK}
    BY RequestIs
  <2> QED BY ONLY <2>1, <2>2, p \in Proc DEF Lock, LockRecord
<1> HIDE DEF new
<1>4. ASSUME NEW x \in ToSet(w.list) PROVE Key(x) # Key(new)
  <2> SUFFICES ASSUME Key(x) = Key(new) PROVE FALSE
    OBVIOUS
  <2>1. x.own = p /\ x.start = w.ld.start
    BY <1>3, KeyIs
  <2>2. x \in Own(w.list, p)
    BY <2>1 DEF Own
  <2>3. Apart(x, w.ld) /\ x.start <= x.end /\ x.end \in Int
    BY <1>2, <2>2
  <2> QED BY <1>2, <2>1, <2>3 DEF Apart, Ahead, Gap, Ld1
<1>5. Order(l) /\ ToSet(l) = ToSet(w.list) \cup {new}
  <2>1. new.start <= new.end
    BY <1>2, <1>3 DEF Ld1
  <2>2. From(ToSet(w.list), w.ins, new.start)
    BY <1>2, <1>3
  <2> QED BY <1>1, <1>3, <1>4, <2>1, <2>2, InsertFromIs
<1> HIDE DEF l
<1>6. Own(l, p) = Own(w.list, p) \cup {new}
  BY <1>3, <1>5 DEF Own
<1>7. ASSUME NEW x \in Own(w.list, p) PROVE Apart(x, new) /\ Apart(new, x)
  <2>1. Apart(x, w.ld) /\ w.ld.type = r.type
    BY <1>2 DEF Ld1
  <2>2. Gap(x, new) = Gap(x, w.ld) /\ Gap(new, x) = Gap(w.ld, x)
    BY <1>3, <2>1 DEF Gap
  <2> QED BY <1>3, <2>1, <2>2 DEF Apart, Ahead
<1>8. Good(l)
  <2> SUFFICES ASSUME NEW x \in ToSet(l), NEW y \in ToSet(l), x.own = y.own, x # y
               PROVE  Apart(x, y)
    BY <1>5 DEF Good
  <2>1. CASE x \in ToSet(w.list) /\ y \in ToSet(w.list)
    BY <1>1, <2>1 DEF Good
  <2>2. CASE x = new
    <3>1. y \in Own(w.list, p)
      BY <1>3, <1>5, <2>2 DEF Own
    <3> QED BY <1>7, <2>2, <3>1
  <2>3. CASE y = new
    <3>1. x \in Own(w.list, p)
      BY <1>3, <1>5, <2>3 DEF Own
    <3> QED BY <1>7, <2>3, <3>1
  <2> QED BY <1>5, <2>1, <2>2, <2>3
<1>9. ASSUME NEW x \in Own(l, p), NEW b \in Bytes, In(b, x)
      PROVE  IF In(b, w.ld) THEN x.type = r.type ELSE Has(Own(list, p), b, x.type)
  <2>1. CASE x = new
    BY <1>3, <1>9, <2>1 DEF In
  <2>2. CASE x \in Own(w.list, p)
    <3>1. x.type \in {F_RDLCK, F_WRLCK}
      BY <1>1, <1>2, <2>2, InGood
    <3>2. Has(Own(list, p), b, x.type)
      BY <1>2, <1>9, <2>2, <3>1 DEF Part, Has
    <3>3. w.ld.start \in Int /\ w.ld.end \in Int
      BY <1>2 DEF Ld1
    <3>4. ~In(b, w.ld)
      BY <1>2, <1>9, <2>2, <3>3, ApartBytes
    <3> QED BY <3>2, <3>4
  <2> QED BY <1>6, <2>1, <2>2
<1>10. \A y \in Own(w.list, p), b \in Bytes :
         In(b, y) /\ ~In(b, w.ld) => Has(Own(l, p), b, y.type)
  BY <1>6 DEF Has
<1>11. \A b \in Bytes : In(b, w.ld) => Has(Own(l, p), b, r.type)
  BY <1>3, <1>6 DEF Has, In
<1>12. Exact(Own(l, p), Own(list, p), r)
  BY <1>1, <1>2, <1>9, <1>10, <1>11, ExactIf
<1>13. ASSUME NEW x, x.own # p PROVE x \in ToSet(l) <=> x \in ToSet(w.list)
  BY <1>3, <1>5, <1>13
<1> QED BY <1>5, <1>8, <1>12, <1>13 DEF l, new

\* flckadj sets or clears the bytes that r names and no others, of p's locks
\* only, keeps the list in order and wakes whoever sleeps on a lock that goes
\* or shrinks; where it finds no memory p's locks lose bytes and gain none.
LEMMA FlckadjIs ==
    ASSUME NEW list, Good(list), NEW p \in Proc, NEW r \in Request, NEW mem \in 0 .. 2,
           NEW k, Begins(list, k, p, r)
    PROVE  LET a == Flckadj(list, k, p, r, mem)
           IN  Adjusted(a.list, a.woken, list, p, r, mem)
<1> DEFINE from == IF k = NoKey THEN 1 ELSE Place(list, k)
           w == Walks(list, from, p, Walk(list, r, k, mem))[Len(list)]
           l == IF w.done \/ r.type = F_UNLCK \/ w.mem = 0 THEN w.list
                ELSE InsertFrom(w.list, w.ins, Lock(p, r, w.ld.start, w.ld.end))
           a == Flckadj(list, k, p, r, mem)
<1>1. a.list = l /\ a.woken = w.woken
  BY DEF Flckadj
<1>2. mem \in Nat
  OBVIOUS
<1>3. PICK i \in 1 .. Len(list) + 1 :
        /\ i = from /\ k \in KeyT
        /\ \A x \in Own(list, p) : x \in Later(list, i, p) \/ x.end < r.start - 1
        /\ r.type # F_UNLCK => \/ k = NoKey /\ \A x \in ToSet(list) : x.start >= r.start
                               \/ \E x \in ToSet(list) : Key(x) = k /\ x.start < r.start
  BY DEF Begins
<1>4. WalkInv(Walk(list, r, k, mem), i, list, p, r, mem)
  BY <1>2, <1>3, WalkBegins
<1>5. WalkInv(w, Len(list) + 1, list, p, r, mem)
  BY <1>2, <1>3, <1>4, WalkEnds
<1> HIDE DEF from, w, a
<1>6. Good(w.list) /\ Less(w.list, w.ld, w.woken, list, p) /\ w \in WalkT
  BY <1>5 DEF WalkInv
<1>7. /\ Part(Own(w.list, p), Own(list, p))
      /\ ~w.done => \A x \in Own(w.list, p) : Apart(x, w.ld)
      /\ w.done => \/ w.mem = 0 /\ mem = 0
                   \/ \E x \in Own(w.list, p) : x.type = r.type /\ Covers(x, w.ld)
      /\ w.mem \in {mem, mem - 1}
  <2>1. /\ Ld1(w.ld, r) /\ Part(Own(w.list, p), Own(list, p))
        /\ \A x \in Own(w.list, p) : /\ x \in ToSet(w.list) /\ x \in LockRecord
                                     /\ x.start \in Int /\ x.end \in Int /\ x.start <= x.end
        /\ ~w.done => \A x \in Own(w.list, p) : Apart(x, w.ld)
        /\ w.done => \/ w.mem = 0 /\ mem = 0
                     \/ \E x \in Own(w.list, p) : x.type = r.type /\ Covers(x, w.ld)
        /\ r.type # F_UNLCK /\ ~w.done => From(ToSet(w.list), w.ins, w.ld.start)
        /\ w.mem \in {mem, mem - 1}
    BY <1>2, <1>5, WalkOver
  <2> QED BY <2>1
<1>8. CASE w.done \/ r.type = F_UNLCK \/ w.mem = 0
  <2>1. l = w.list
    BY <1>8
  <2>2. Exact(Own(w.list, p), Own(list, p), r) \/ mem # 2
    <3>1. CASE w.mem = 0
      BY <1>7, <3>1
    <3>2. CASE w.mem # 0 /\ w.done
      BY <1>2, <1>5, <1>7, <3>2, WalkExact
    <3>3. CASE ~w.done /\ r.type = F_UNLCK
      BY <1>2, <1>5, <1>7, <3>3, WalkExact
    <3> QED BY <1>8, <3>1, <3>2, <3>3
  <2>3. Adjusted(w.list, w.woken, list, p, r, mem)
    BY <1>6, <1>7, <2>2 DEF Adjusted, Less
  <2> QED BY <1>1, <2>1, <2>3 DEF a
<1>9. CASE ~(w.done \/ r.type = F_UNLCK \/ w.mem = 0)
  <2>1. l = InsertFrom(w.list, w.ins, Lock(p, r, w.ld.start, w.ld.end))
    BY <1>9
  <2>2. /\ Good(l) /\ Exact(Own(l, p), Own(list, p), r)
        /\ ToSet(w.list) \subseteq ToSet(l)
        /\ \A x : x.own # p => (x \in ToSet(l) <=> x \in ToSet(w.list))
    BY <1>2, <1>5, <1>9, <2>1, WalkInserts
  <2> HIDE DEF l
  <2>3. Adjusted(l, w.woken, list, p, r, mem)
    BY <1>6, <2>2 DEF Adjusted, Less
  <2> QED BY <1>1, <2>3 DEF a
<1> QED BY <1>8, <1>9

-----------------------------------------------------------------------------
(* cleanlocks.                                                             *)

\* What Without's rest is, up to place n.
IsRest(g, n, list, Q) ==
    g = [m \in 0 .. n |->
            IF m = 0 THEN <<>>
            ELSE IF list[m].own \in Q THEN g[m - 1] ELSE Append(g[m - 1], list[m])]
\* There is one.
LEMMA RestExists ==
    ASSUME NEW list, NEW Q, NEW top \in Nat
    PROVE  \E g : IsRest(g, top, list, Q)
<1> DEFINE S == {n \in 0 .. top : \E g : IsRest(g, n, list, Q)}
<1>1. 0 \in S
  <2> DEFINE g == [m \in 0 .. 0 |-> <<>>]
  <2>1. IsRest(g, 0, list, Q)
    BY DEF IsRest
  <2> QED BY <2>1
<1>2. ASSUME NEW n \in 0 .. top - 1, n \in S
      PROVE  n + 1 \in S
  <2>1. PICK g : IsRest(g, n, list, Q)
    BY <1>2
  <2> DEFINE At(v, m) == IF list[m].own \in Q THEN v ELSE Append(v, list[m])
             h == [m \in 0 .. n + 1 |-> IF m = n + 1 THEN At(g[n], n + 1) ELSE g[m]]
  <2>2. \A m \in 0 .. n : g[m] = IF m = 0 THEN <<>> ELSE At(g[m - 1], m)
    BY <2>1 DEF IsRest
  <2> HIDE DEF At
  <2>3. ASSUME NEW m \in 0 .. n + 1
        PROVE  h[m] = IF m = 0 THEN <<>> ELSE At(h[m - 1], m)
    <3>1. CASE m = n + 1
      <4>1. m # 0 /\ m - 1 = n /\ n # n + 1 /\ n \in 0 .. n + 1
        BY <3>1
      <4>2. h[m - 1] = g[n] /\ h[m] = At(g[n], m)
        BY <3>1, <4>1
      <4> QED BY <4>1, <4>2
    <3>2. CASE m # n + 1
      <4>1. m \in 0 .. n /\ h[m] = g[m]
        BY <3>2
      <4>2. CASE m = 0
        BY <2>2, <4>1, <4>2
      <4>3. CASE m # 0
        <5>1. m - 1 \in 0 .. n + 1 /\ m - 1 # n + 1
          BY <4>1, <4>3
        <5> QED BY <2>2, <4>1, <4>3, <5>1
      <4> QED BY <4>2, <4>3
    <3> QED BY <3>1, <3>2
  <2>4. h = [m \in 0 .. n + 1 |-> IF m = 0 THEN <<>> ELSE At(h[m - 1], m)]
    <3>1. h = [m \in 0 .. n + 1 |-> h[m]]
      OBVIOUS
    <3> HIDE DEF h
    <3> QED BY <2>3, <3>1
  <2> HIDE DEF h
  <2>5. IsRest(h, n + 1, list, Q)
    BY <2>4 DEF IsRest, At
  <2> QED BY <2>5
<1>3. 0 .. top \subseteq S
  <2> HIDE DEF S
  <2> QED BY <1>1, <1>2, Induction
<1>4. top \in 0 .. top
  OBVIOUS
<1> QED BY <1>3, <1>4

\* A lock that starts last comes last.
LEMMA AppendOrder ==
    ASSUME NEW l, Order(l), NEW x \in LockRecord, x.start <= x.end,
           \A y \in ToSet(l) : y.start <= x.start /\ Key(y) # Key(x)
    PROVE  Order(Append(l, x)) /\ ToSet(Append(l, x)) = ToSet(l) \cup {x}
<1> DEFINE r == Append(l, x)
<1>1. l \in Seq(LockRecord) /\ Len(l) \in Nat
  BY DEF Order
<1>2. /\ r \in Seq(LockRecord) /\ Len(r) = Len(l) + 1 /\ r[Len(l) + 1] = x
      /\ \A k \in 1 .. Len(l) : r[k] = l[k]
  BY <1>1, AppendProperties
<1> HIDE DEF r
<1>3. \A k \in 1 .. Len(r) : k \in 1 .. Len(l) \/ k = Len(l) + 1
  BY <1>1, <1>2
<1>4. \A k \in 1 .. Len(l) : l[k] \in ToSet(l)
  BY <1>1, InList
<1>5. \A k \in 1 .. Len(r) : r[k].start <= r[k].end
  BY <1>2, <1>3 DEF Order
<1>6. ASSUME NEW j \in 1 .. Len(r), NEW k \in 1 .. Len(r), j < k
      PROVE  r[j].start <= r[k].start /\ Key(r[j]) # Key(r[k])
  <2>1. j \in 1 .. Len(l)
    BY <1>1, <1>2, <1>6
  <2>2. CASE k \in 1 .. Len(l)
    BY <1>2, <1>6, <2>1, <2>2 DEF Order
  <2>3. CASE k = Len(l) + 1
    BY <1>2, <1>4, <2>1, <2>3
  <2> QED BY <1>3, <2>2, <2>3
<1>7. Order(r)
  BY <1>2, <1>5, <1>6 DEF Order
<1>8. ToSet(r) = ToSet(l) \cup {x}
  <2>1. \A k \in 1 .. Len(r) : r[k] \in ToSet(l) \cup {x}
    BY <1>2, <1>3, <1>4
  <2>2. ASSUME NEW y \in ToSet(l) \cup {x}
        PROVE  \E k \in 1 .. Len(r) : y = r[k]
    <3>1. Len(l) + 1 \in 1 .. Len(r) /\ \A k \in 1 .. Len(l) : k \in 1 .. Len(r)
      BY <1>1, <1>2
    <3>2. CASE y = x
      BY <1>2, <3>1, <3>2
    <3>3. CASE y \in ToSet(l)
      <4>1. PICK k \in 1 .. Len(l) : y = l[k]
        BY <1>1, <3>3, InList
      <4> QED BY <1>2, <3>1, <4>1
    <3> QED BY <3>2, <3>3
  <2> QED BY <1>2, <2>1, <2>2, SameSet
<1> QED BY <1>7, <1>8 DEF r

\* cleanlocks leaves the other owners' locks, in order.
LEMMA WithoutIs ==
    ASSUME NEW l, Good(l), NEW Q
    PROVE  Good(Without(l, Q)) /\ ToSet(Without(l, Q)) = {x \in ToSet(l) : x.own \notin Q}
<1> DEFINE w == CHOOSE g : IsRest(g, Len(l), l, Q)
           Kept(n) == {x \in ToSet(l) : x.own \notin Q /\ \E m \in 1 .. n : x = l[m]}
           S == {n \in 0 .. Len(l) : Order(w[n]) /\ ToSet(w[n]) = Kept(n)}
<1>1. l \in Seq(LockRecord) /\ Len(l) \in Nat /\ Order(l)
  BY DEF Good, Order
<1>2. IsRest(w, Len(l), l, Q)
  BY <1>1, RestExists
<1>3. Without(l, Q) = w[Len(l)]
  BY DEF Without, IsRest
<1> HIDE DEF w
<1>4. \A n \in 0 .. Len(l) :
        w[n] = IF n = 0 THEN <<>>
               ELSE IF l[n].own \in Q THEN w[n - 1] ELSE Append(w[n - 1], l[n])
  BY <1>2 DEF IsRest
<1>5. 0 \in S
  <2>1. 0 \in 0 .. Len(l) /\ w[0] = <<>>
    BY <1>1, <1>4
  <2>2. Order(<<>>)
    BY DEF Order
  <2>3. ToSet(<<>>) = {} /\ Kept(0) = {}
    BY DEF ToSet
  <2> QED BY <2>1, <2>2, <2>3
<1>6. ASSUME NEW n \in 0 .. Len(l) - 1, n \in S
      PROVE  n + 1 \in S
  <2> DEFINE x == l[n + 1]
  <2>1. n + 1 \in 0 .. Len(l) /\ n + 1 # 0 /\ (n + 1) - 1 = n /\ n + 1 \in 1 .. Len(l)
    BY <1>1
  <2>2. Order(w[n]) /\ ToSet(w[n]) = Kept(n)
    BY <1>6
  <2>3. x \in ToSet(l) /\ x \in LockRecord /\ x.start <= x.end
    BY <1>1, <2>1, InList DEF Order
  <2>4. \A y \in ToSet(l) :
          (\E m \in 1 .. n + 1 : y = l[m]) <=> (\E m \in 1 .. n : y = l[m]) \/ y = x
    <3>1. \A m \in 1 .. n + 1 : m \in 1 .. n \/ m = n + 1
      OBVIOUS
    <3>2. \A m \in 1 .. n : m \in 1 .. n + 1
      OBVIOUS
    <3>3. n + 1 \in 1 .. n + 1
      OBVIOUS
    <3> QED BY <3>1, <3>2, <3>3
  <2>5. CASE x.own \in Q
    <3>1. w[n + 1] = w[n]
      BY <1>4, <2>1, <2>5
    <3>2. Kept(n + 1) = Kept(n)
      BY <2>4, <2>5
    <3> QED BY <2>1, <2>2, <3>1, <3>2
  <2>6. CASE x.own \notin Q
    <3>1. w[n + 1] = Append(w[n], x)
      BY <1>4, <2>1, <2>6
    <3>2. Kept(n + 1) = Kept(n) \cup {x}
      BY <2>3, <2>4, <2>6
    <3>3. ASSUME NEW y \in ToSet(w[n]) PROVE y.start <= x.start /\ Key(y) # Key(x)
      <4>1. PICK m \in 1 .. n : y = l[m]
        BY <2>2
      <4>2. m \in 1 .. Len(l) /\ m < n + 1
        BY <1>1
      <4> QED BY <1>1, <2>1, <4>1, <4>2 DEF Order
    <3> HIDE DEF x, Kept
    <3>4. Order(Append(w[n], x)) /\ ToSet(Append(w[n], x)) = ToSet(w[n]) \cup {x}
      BY <2>2, <2>3, <3>3, AppendOrder
    <3> QED BY <2>1, <2>2, <3>1, <3>2, <3>4
  <2> QED BY <2>5, <2>6
<1>7. 0 .. Len(l) \subseteq S
  <2> HIDE DEF S
  <2>1. \A k \in 0 .. Len(l) - 1 : k \in S => k + 1 \in S
    BY <1>6
  <2>2. 0 \in Int /\ Len(l) \in Int /\ 0 \in S
    BY <1>1, <1>5
  <2> QED BY ONLY <2>1, <2>2, Induction
<1>8. Order(w[Len(l)]) /\ ToSet(w[Len(l)]) = Kept(Len(l))
  <2>1. Len(l) \in 0 .. Len(l)
    BY <1>1
  <2> QED BY <1>7, <2>1
<1>9. Kept(Len(l)) = {x \in ToSet(l) : x.own \notin Q}
  BY <1>1, InList
<1> HIDE DEF Kept, S
<1>10. Good(w[Len(l)])
  BY <1>8, <1>9 DEF Good
<1> QED BY <1>3, <1>8, <1>9, <1>10

-----------------------------------------------------------------------------
(* The lists as a table of bytes.                                          *)

Tab(l) == [p \in Proc |-> [f \in File |-> [b \in Bytes |->
    LET C == {x \in Range(l[f]) : x.own = p /\ x.start <= b /\ b <= x.end}
    IN  IF C = {} THEN F_UNLCK ELSE (CHOOSE x \in C : TRUE).type]]]
Lists(l) == l \in [File -> Seq(LockRecord)] /\ \A f \in File : Good(l[f])

\* Of each byte the table says what the one lock that covers it says.
LEMMA TabIs ==
    ASSUME NEW l, Lists(l), NEW p \in Proc, NEW f \in File, NEW b \in Bytes
    PROVE  /\ Tab(l)[p][f][b] \in LockType
           /\ \A t \in {F_RDLCK, F_WRLCK} :
                Tab(l)[p][f][b] = t <=> Has(Own(l[f], p), b, t)
<1> DEFINE C == {x \in Range(l[f]) : x.own = p /\ x.start <= b /\ b <= x.end}
<1>1. Good(l[f])
  BY DEF Lists
<1>2. Tab(l)[p][f][b] = IF C = {} THEN F_UNLCK ELSE (CHOOSE x \in C : TRUE).type
  BY DEF Tab
<1>3. C = {x \in Own(l[f], p) : In(b, x)}
  BY DEF Range, ToSet, Own, In
<1> HIDE DEF C
<1>4. F_UNLCK \notin {F_RDLCK, F_WRLCK}
  BY DEF F_UNLCK, F_RDLCK, F_WRLCK
<1>5. CASE C = {}
  <2>1. \A t : ~Has(Own(l[f], p), b, t)
    BY <1>3, <1>5 DEF Has
  <2> QED BY <1>2, <1>4, <1>5, <2>1 DEF LockType
<1>6. CASE C # {}
  <2>1. PICK x \in C : Tab(l)[p][f][b] = x.type
    BY <1>2, <1>6
  <2>2. x \in Own(l[f], p) /\ In(b, x)
    BY <1>3
  <2>3. x.type \in {F_RDLCK, F_WRLCK}
    <3>1. x \in ToSet(l[f])
      BY <2>2 DEF Own
    <3> QED BY <1>1, <3>1, InGood
  <2>4. \A t : Has(Own(l[f], p), b, t) <=> t = x.type
    BY <1>1, <2>2, OneLock DEF Has
  <2> QED BY <2>1, <2>3, <2>4 DEF LockType
<1> QED BY <1>5, <1>6

\* The table's form.
LEMMA TabType ==
    ASSUME NEW l, Lists(l)
    PROVE  /\ Tab(l) \in [Proc -> [File -> [Bytes -> LockType]]]
           /\ Tab(l) = [p \in Proc |-> [f \in File |-> [b \in Bytes |-> Tab(l)[p][f][b]]]]
<1>1. Tab(l) = [p \in Proc |-> [f \in File |-> [b \in Bytes |-> Tab(l)[p][f][b]]]]
  BY DEF Tab
<1> QED BY <1>1, TabIs

\* The table m says of each byte what the lists do.
Says(m, l) ==
    \A p \in Proc, f \in File, b \in Bytes, t \in {F_RDLCK, F_WRLCK} :
        Has(Own(l[f], p), b, t) <=> m[p][f][b] = t
\* Then it is theirs.
LEMMA TabSame ==
    ASSUME NEW l, Lists(l), NEW m \in [Proc -> [File -> [Bytes -> LockType]]], Says(m, l)
    PROVE  Tab(l) = m
<1>1. ASSUME NEW p \in Proc, NEW f \in File, NEW b \in Bytes
      PROVE  Tab(l)[p][f][b] = m[p][f][b]
  <2>1. Tab(l)[p][f][b] \in LockType /\ m[p][f][b] \in LockType
    BY TabIs
  <2>2. \A t \in {F_RDLCK, F_WRLCK} : Tab(l)[p][f][b] = t <=> m[p][f][b] = t
    BY TabIs DEF Says
  <2> QED BY <2>1, <2>2 DEF LockType
<1>2. \A p \in Proc : Tab(l)[p] = m[p]
  BY <1>1, TabType
<1> QED BY <1>2, TabType

\* A lock stands in the way where and only where the table says so.
LEMMA BlockedTable ==
    ASSUME NEW l, Lists(l), NEW p \in Proc, NEW r \in Request, r.type # F_UNLCK
    PROVE  (\E x \in ToSet(l[r.file]) : Conflicts(x, p, r)) <=> Table!BlockedIn(Tab(l), p, r)
<1> DEFINE f == r.file
<1>1. f \in File /\ Good(l[f]) /\ r.start \in Int /\ r.end \in Int /\ 0 <= r.start
      /\ r.end <= maxend /\ r.start <= r.end /\ r.type \in {F_RDLCK, F_WRLCK}
  BY RequestIs DEF Lists
<1>2. ASSUME NEW x \in ToSet(l[f]), Conflicts(x, p, r)
      PROVE  Table!BlockedIn(Tab(l), p, r)
  <2>1. /\ x.start \in Int /\ x.end \in Int /\ x.start <= x.end /\ 0 <= x.start
        /\ x.end <= maxend /\ x.own \in Proc /\ x.type \in {F_RDLCK, F_WRLCK}
    BY <1>1, InGood
  <2>2. x.own # p /\ x.end >= r.start /\ x.start <= r.end
        /\ (x.type = F_WRLCK \/ r.type = F_WRLCK)
    BY <1>2 DEF Conflicts
  <2>3. PICK b \in Bytes : b \in r.start .. r.end /\ In(b, x)
    <3>1. CASE x.start <= r.start
      <4>1. r.start \in Bytes /\ r.start \in r.start .. r.end /\ In(r.start, x)
        BY <1>1, <2>1, <2>2, <3>1, LockAssumption DEF Bytes, In
      <4> QED BY <4>1
    <3>2. CASE ~(x.start <= r.start)
      <4>1. x.start \in Bytes /\ x.start \in r.start .. r.end /\ In(x.start, x)
        BY <1>1, <2>1, <2>2, <3>2, LockAssumption DEF Bytes, In
      <4> QED BY <4>1
    <3> QED BY <3>1, <3>2
  <2>4. Tab(l)[x.own][f][b] = x.type
    <3>1. Has(Own(l[f], x.own), b, x.type)
      BY <2>3 DEF Has, Own
    <3> QED BY <1>1, <2>1, <3>1, TabIs
  <2>5. Table!Clash(x.type, r.type)
    BY <1>1, <2>1, <2>2 DEF Table!Clash, Table!F_WRLCK, Table!F_UNLCK,
                                 F_RDLCK, F_WRLCK, F_UNLCK
  <2>6. x.own \in Proc \ {p}
    BY <2>1, <2>2
  <2> QED BY <2>3, <2>4, <2>5, <2>6 DEF Table!BlockedIn, Table!F_UNLCK, F_UNLCK
<1>3. ASSUME Table!BlockedIn(Tab(l), p, r)
      PROVE  \E x \in ToSet(l[f]) : Conflicts(x, p, r)
  <2>1. PICK q \in Proc \ {p}, b \in r.start .. r.end : Table!Clash(Tab(l)[q][f][b], r.type)
    BY <1>3 DEF Table!BlockedIn
  <2>2. b \in Bytes /\ b \in Int
    BY <1>1, LockAssumption DEF Bytes
  <2>3. Tab(l)[q][f][b] \in {F_RDLCK, F_WRLCK}
    <3>1. Tab(l)[q][f][b] \in LockType
      BY <1>1, <2>2, TabIs
    <3>2. Tab(l)[q][f][b] # F_UNLCK
      BY <2>1 DEF Table!Clash, Table!F_UNLCK, F_UNLCK
    <3> QED BY <3>1, <3>2 DEF LockType
  <2>4. PICK x \in Own(l[f], q) : In(b, x) /\ x.type = Tab(l)[q][f][b]
    <3>1. Has(Own(l[f], q), b, Tab(l)[q][f][b])
      BY <1>1, <2>2, <2>3, TabIs
    <3> QED BY <3>1 DEF Has
  <2>5. x \in ToSet(l[f]) /\ x.own = q
    BY <2>4 DEF Own
  <2>6. x.start \in Int /\ x.end \in Int
    BY <1>1, <2>5, InGood
  <2>7. x.end >= r.start /\ x.start <= r.end
    BY <1>1, <2>2, <2>4, <2>6 DEF In
  <2>8. x.type = F_WRLCK \/ r.type = F_WRLCK
    BY <2>1, <2>4 DEF Table!Clash, Table!F_WRLCK, F_WRLCK
  <2> QED BY <2>5, <2>7, <2>8 DEF Conflicts
<1> QED BY <1>2, <1>3

\* The locks of different owners on a byte are all for reading.
Beside(S) ==
    \A x, y \in S, b \in Bytes :
        x.own # y.own /\ In(b, x) /\ In(b, y) => x.type = F_RDLCK /\ y.type = F_RDLCK

\* From the lists l to k, p's locks of f say less.
Lost(k, l, p, f) ==
    /\ Tab(k)[p][f] \in [Bytes -> LockType]
    /\ \A b \in Bytes : Tab(k)[p][f][b] \in {Tab(l)[p][f][b], F_UNLCK}
    /\ Tab(k) = [Tab(l) EXCEPT ![p][f] = Tab(k)[p][f]]
\* flckadj in the table.
LEMMA AdjustedTable ==
    ASSUME NEW l, Lists(l), NEW p \in Proc, NEW r \in Request, NEW mem, NEW woken,
           NEW m, Adjusted(m, woken, l[r.file], p, r, mem), NEW k, k = [l EXCEPT ![r.file] = m]
    PROVE  /\ Lists(k)
           /\ Tab(k) = Table!Overlay(Tab(l), p, r) \/ (mem # 2 /\ Lost(k, l, p, r.file))
<1> DEFINE f == r.file
<1>1. f \in File /\ l \in [File -> Seq(LockRecord)] /\ Good(m) /\ m \in Seq(LockRecord)
  BY RequestIs DEF Lists, Adjusted, Good, Order
<1>2. /\ k \in [File -> Seq(LockRecord)] /\ k[f] = m /\ \A g \in File \ {f} : k[g] = l[g]
  BY <1>1
<1>3. Lists(k)
  BY <1>1, <1>2 DEF Lists
<1>4. ASSUME NEW q \in Proc, NEW g \in File, q # p \/ g # f
      PROVE  Own(k[g], q) = Own(l[g], q)
  <2>1. CASE g # f
    BY <1>2, <2>1
  <2>2. CASE g = f
    BY <1>2, <1>4, <2>2 DEF Adjusted, Own
  <2> QED BY <2>1, <2>2
<1>5. Tab(l) \in [Proc -> [File -> [Bytes -> LockType]]]
      /\ Tab(k) \in [Proc -> [File -> [Bytes -> LockType]]]
  BY <1>3, TabType
<1>6. CASE Exact(Own(m, p), Own(l[f], p), r)
  <2> DEFINE o == Table!Overlay(Tab(l), p, r)
  <2>1. o = [Tab(l) EXCEPT ![p][f] = [b \in Bytes |->
               IF b \in r.start .. r.end THEN r.type ELSE Tab(l)[p][f][b]]]
    BY DEF Table!Overlay, Table!Bytes, Bytes
  <2>2. r.type \in LockType
    BY RequestIs DEF LockType
  <2> HIDE DEF o
  <2>3. o \in [Proc -> [File -> [Bytes -> LockType]]]
    BY <1>1, <1>5, <2>1, <2>2
  <2>4. ASSUME NEW q \in Proc, NEW g \in File, NEW b \in Bytes, NEW t \in {F_RDLCK, F_WRLCK}
        PROVE  Has(Own(k[g], q), b, t) <=> o[q][g][b] = t
    <3>1. Tab(l)[q][g][b] = t <=> Has(Own(l[g], q), b, t)
      BY TabIs
    <3>2. CASE q = p /\ g = f
      <4>1. o[q][g][b] = IF b \in r.start .. r.end THEN r.type ELSE Tab(l)[p][f][b]
        BY <1>1, <1>5, <2>1, <3>2
      <4>2. b \in r.start .. r.end <=> In(b, r)
        BY RequestIs DEF Bytes, In
      <4>3. Has(Own(k[g], q), b, t) <=> IF In(b, r) THEN t = r.type ELSE Has(Own(l[f], p), b, t)
        BY <1>2, <1>6, <3>2 DEF Exact
      <4> QED BY <3>1, <3>2, <4>1, <4>2, <4>3
    <3>3. CASE q # p \/ g # f
      <4>1. o[q][g][b] = Tab(l)[q][g][b]
        BY <1>1, <1>5, <2>1, <3>3
      <4> QED BY <1>4, <3>1, <3>3, <4>1
    <3> QED BY <3>2, <3>3
  <2>5. Tab(k) = o
    <3>1. Says(o, k)
      BY <2>4 DEF Says
    <3> QED BY <1>3, <2>3, <3>1, TabSame
  <2> QED BY <1>3, <2>5 DEF o
<1>7. CASE mem # 2 /\ Part(Own(m, p), Own(l[f], p))
  <2>1. ASSUME NEW b \in Bytes
        PROVE  Tab(k)[p][f][b] \in {Tab(l)[p][f][b], F_UNLCK}
    <3>1. p \in Proc /\ f \in File /\ b \in Bytes
      BY <1>1
    <3>2. Tab(k)[p][f][b] \in LockType
      BY <1>3, <3>1, TabIs
    <3>3. ASSUME NEW t \in {F_RDLCK, F_WRLCK}, Tab(k)[p][f][b] = t
          PROVE  Tab(l)[p][f][b] = t
      <4>1. Has(Own(k[f], p), b, t)
        <5>1. \A u \in {F_RDLCK, F_WRLCK} : Tab(k)[p][f][b] = u <=> Has(Own(k[f], p), b, u)
          BY ONLY <1>3, <3>1, TabIs
        <5> QED BY <3>3, <5>1
      <4>2. Has(Own(l[f], p), b, t)
        BY <1>2, <1>7, <4>1 DEF Part
      <4> QED BY <3>1, <4>2, TabIs
    <3> QED BY <3>2, <3>3 DEF LockType
  <2>2. Tab(k)[p][f] \in [Bytes -> LockType]
    BY <1>1, <1>5
  <2> DEFINE row == Tab(k)[p][f]
             o == [Tab(l) EXCEPT ![p][f] = row]
  <2> HIDE DEF row
  <2>3. row \in [Bytes -> LockType]
    BY <2>2 DEF row
  <2>4. o \in [Proc -> [File -> [Bytes -> LockType]]]
    BY <1>1, <1>5, <2>3
  <2>5. ASSUME NEW q \in Proc, NEW g \in File, NEW b \in Bytes, NEW t \in {F_RDLCK, F_WRLCK}
        PROVE  Has(Own(k[g], q), b, t) <=> o[q][g][b] = t
    <3>1. Tab(l)[q][g][b] = t <=> Has(Own(l[g], q), b, t)
      BY TabIs
    <3>2. Tab(k)[q][g][b] = t <=> Has(Own(k[g], q), b, t)
      <4>1. q \in Proc /\ g \in File /\ b \in Bytes /\ t \in {F_RDLCK, F_WRLCK}
        OBVIOUS
      <4> QED BY ONLY <1>3, <4>1, TabIs
    <3>3. CASE q = p /\ g = f
      <4>1. o[q][g][b] = row[b]
        BY <1>1, <1>5, <3>3
      <4> QED BY <3>2, <3>3, <4>1 DEF row
    <3>4. CASE q # p \/ g # f
      <4>1. o[q][g][b] = Tab(l)[q][g][b]
        BY <1>1, <1>5, <3>4
      <4> QED BY <1>4, <3>1, <3>4, <4>1
    <3> QED BY <3>3, <3>4
  <2> HIDE DEF o
  <2>6. Tab(k) = o
    <3>1. Says(o, k)
      BY <2>5 DEF Says
    <3> QED BY <1>3, <2>4, <3>1, TabSame
  <2> QED BY <1>3, <1>7, <2>1, <2>2, <2>6 DEF o, row, Lost
<1> QED BY <1>6, <1>7 DEF Adjusted

\* A lock that nothing stands in the way of comes beside the others.
LEMMA AdjustedBeside ==
    ASSUME NEW list, Good(list), Beside(ToSet(list)), NEW p \in Proc, NEW r \in Request,
           NEW mem, NEW woken, NEW l, Adjusted(l, woken, list, p, r, mem),
           r.type # F_UNLCK => \A x \in ToSet(list) : ~Conflicts(x, p, r)
    PROVE  Beside(ToSet(l))
<1>1. Good(l) /\ \A x : x.own # p => (x \in ToSet(l) <=> x \in ToSet(list))
  BY DEF Adjusted
<1>2. ASSUME NEW x \in Own(l, p), NEW y \in ToSet(list), y.own # p, NEW b \in Bytes,
             In(b, x), In(b, y)
      PROVE  x.type = F_RDLCK /\ y.type = F_RDLCK
  <2>1. x.type \in {F_RDLCK, F_WRLCK}
    <3>1. x \in ToSet(l)
      BY DEF Own
    <3> QED BY <1>1, <3>1, InGood
  <2>2. Has(Own(l, p), b, x.type)
    BY <1>2 DEF Has
  <2>3. (In(b, r) /\ x.type = r.type) \/ Has(Own(list, p), b, x.type)
    BY <2>1, <2>2 DEF Adjusted, Exact, Part
  <2>4. CASE In(b, r) /\ x.type = r.type
    <3>1. r.type # F_UNLCK
      BY <2>1, <2>4 DEF F_RDLCK, F_WRLCK, F_UNLCK
    <3>2. ~Conflicts(y, p, r)
      BY <3>1
    <3>3. /\ y.start \in Int /\ y.end \in Int /\ y.type \in {F_RDLCK, F_WRLCK}
          /\ r.start \in Int /\ r.end \in Int /\ b \in Int
      BY InGood, RequestIs DEF Bytes
    <3>4. y.end >= r.start /\ y.start <= r.end
      BY <1>2, <2>4, <3>3 DEF In
    <3> QED BY <1>2, <2>1, <2>4, <3>2, <3>3, <3>4 DEF Conflicts
  <2>5. CASE Has(Own(list, p), b, x.type)
    <3>1. PICK z \in Own(list, p) : In(b, z) /\ z.type = x.type
      BY <2>5 DEF Has
    <3>2. z \in ToSet(list) /\ z.own = p
      BY <3>1 DEF Own
    <3> QED BY <1>2, <3>1, <3>2 DEF Beside
  <2> QED BY <2>3, <2>4, <2>5
<1> SUFFICES ASSUME NEW x \in ToSet(l), NEW y \in ToSet(l), NEW b \in Bytes,
                    x.own # y.own, In(b, x), In(b, y)
             PROVE  x.type = F_RDLCK /\ y.type = F_RDLCK
  BY DEF Beside
<1>3. CASE x.own = p
  <2>1. x \in Own(l, p) /\ y \in ToSet(list) /\ y.own # p
    BY <1>1, <1>3 DEF Own
  <2> QED BY <1>2, <2>1
<1>4. CASE y.own = p
  <2>1. y \in Own(l, p) /\ x \in ToSet(list) /\ x.own # p
    BY <1>1, <1>4 DEF Own
  <2> QED BY <1>2, <2>1
<1>5. CASE x.own # p /\ y.own # p
  BY <1>1, <1>5 DEF Beside
<1> QED BY <1>3, <1>4, <1>5

\* The lists, and the table, without what the owners Q have locked of file f.
Cleaned(l, f, Q) == [l EXCEPT ![f] = Without(@, Q)]
Cleared(m, f, Q) == [p \in Proc |-> IF p \in Q
                       THEN [m[p] EXCEPT ![f] = [b \in Bytes |-> F_UNLCK]] ELSE m[p]]
\* cleanlocks in the table.
LEMMA CleanTable ==
    ASSUME NEW l, Lists(l), NEW Q, NEW f \in File, NEW k, k = Cleaned(l, f, Q)
    PROVE  /\ Lists(k) /\ k[f] = Without(l[f], Q) /\ (\A g \in File \ {f} : k[g] = l[g])
           /\ ToSet(k[f]) = {x \in ToSet(l[f]) : x.own \notin Q}
           /\ Tab(k) = Cleared(Tab(l), f, Q)
<1> DEFINE m == Without(l[f], Q)
           o == [p \in Proc |-> IF p \in Q
                   THEN [Tab(l)[p] EXCEPT ![f] = [b \in Bytes |-> F_UNLCK]] ELSE Tab(l)[p]]
<1>1. l \in [File -> Seq(LockRecord)] /\ Good(l[f])
  BY DEF Lists
<1>2. Good(m) /\ ToSet(m) = {x \in ToSet(l[f]) : x.own \notin Q}
  BY <1>1, WithoutIs
<1>3. m \in Seq(LockRecord)
  BY <1>2 DEF Good, Order
<1>4. k = [l EXCEPT ![f] = m]
  BY <1>1 DEF Cleaned
<1> HIDE DEF m
<1>5. k \in [File -> Seq(LockRecord)] /\ k[f] = m /\ \A g \in File \ {f} : k[g] = l[g]
  BY <1>1, <1>3, <1>4
<1>6. Lists(k)
  BY <1>2, <1>5 DEF Lists
<1>7. Tab(l) \in [Proc -> [File -> [Bytes -> LockType]]]
  BY TabType
<1>8. F_UNLCK \in LockType /\ F_UNLCK \notin {F_RDLCK, F_WRLCK}
  BY DEF LockType, F_UNLCK, F_RDLCK, F_WRLCK
<1>9. o \in [Proc -> [File -> [Bytes -> LockType]]]
  BY <1>7, <1>8
<1>10. ASSUME NEW q \in Proc, NEW g \in File, NEW b \in Bytes, NEW t \in {F_RDLCK, F_WRLCK}
       PROVE  Has(Own(k[g], q), b, t) <=> o[q][g][b] = t
  <2>1. Tab(l)[q][g][b] = t <=> Has(Own(l[g], q), b, t)
    BY TabIs
  <2>2. CASE q \in Q /\ g = f
    <3>1. o[q][g][b] = F_UNLCK
      BY <1>7, <2>2
    <3>2. Own(k[g], q) = {}
      BY <1>2, <1>5, <2>2 DEF Own
    <3> QED BY <1>8, <3>1, <3>2 DEF Has
  <2>3. CASE q \notin Q \/ g # f
    <3>1. o[q][g][b] = Tab(l)[q][g][b]
      BY <1>7, <2>3
    <3>2. Own(k[g], q) = Own(l[g], q)
      BY <1>2, <1>5, <2>3 DEF Own
    <3> QED BY <2>1, <3>1, <3>2
  <2> QED BY <2>2, <2>3
<1> HIDE DEF o
<1>11. Tab(k) = o
  <2>1. Says(o, k)
    BY <1>10 DEF Says
  <2> QED BY <1>6, <1>9, <2>1, TabSame
<1>12. o = Cleared(Tab(l), f, Q)
  BY DEF o, Cleared
<1> QED BY <1>2, <1>5, <1>6, <1>11, <1>12 DEF m

\* Lists with the lock i of file f marked.
WithMark(l, f, i) == [l EXCEPT ![f][i].wakeflg = TRUE]
\* In t stands for h of s a lock that is marked.
Marked(t, s, h) ==
    \E x \in t : /\ x.wakeflg /\ Key(x) = Key(h) /\ x.own = h.own /\ x.type = h.type
                /\ x.start = h.start /\ x.end = h.end
                /\ t = (s \ {h}) \cup {x} /\ (h.wakeflg => x = h)
\* Marking a lock changes neither the order nor the table.
LEMMA MarkTable ==
    ASSUME NEW l, Lists(l), NEW f \in File, NEW i \in 1 .. Len(l[f]),
           NEW k, k = WithMark(l, f, i)
    PROVE  /\ Lists(k) /\ Tab(k) = Tab(l) /\ (\A g \in File \ {f} : k[g] = l[g])
           /\ Marked(ToSet(k[f]), ToSet(l[f]), l[f][i])
<1> DEFINE h == l[f][i]
           x == [h EXCEPT !.wakeflg = TRUE]
           m == [l[f] EXCEPT ![i] = x]
<1>1. l \in [File -> Seq(LockRecord)] /\ Good(l[f]) /\ l[f] \in Seq(LockRecord)
  BY DEF Lists
<1>2. h \in LockRecord /\ h \in ToSet(l[f])
  BY <1>1, InList
<1>3. k = [l EXCEPT ![f] = m]
  BY <1>1 DEF WithMark
<1> HIDE DEF h
<1>4. /\ x \in LockRecord /\ x.wakeflg = TRUE /\ x.own = h.own /\ x.type = h.type
      /\ x.start = h.start /\ x.end = h.end
  BY ONLY <1>2 DEF LockRecord
<1>5. h.wakeflg => x = h
  BY ONLY <1>2 DEF LockRecord
<1> HIDE DEF x
<1>6. Key(x) = Key(h)
  BY <1>4, KeyIs
<1>7. h.start <= h.end
  BY <1>1, <1>2, InGood
<1>8. Order(m) /\ ToSet(m) = (ToSet(l[f]) \ {h}) \cup {x}
  <2>1. Order(l[f]) /\ Key(x) = Key(l[f][i]) /\ x.start <= x.end
    BY <1>1, <1>4, <1>6, <1>7 DEF Good, h
  <2>2. Order(m) /\ ToSet(m) = (ToSet(l[f]) \ {l[f][i]}) \cup {x}
    BY <1>4, <2>1, ReplaceOrder
  <2> QED BY <2>2 DEF h
<1> HIDE DEF m
<1>9. m \in Seq(LockRecord)
  BY <1>8 DEF Order
<1>10. k \in [File -> Seq(LockRecord)] /\ k[f] = m /\ \A g \in File \ {f} : k[g] = l[g]
  BY <1>1, <1>3, <1>9
<1>11. Good(m)
  <2> SUFFICES ASSUME NEW y \in ToSet(m), NEW z \in ToSet(m), y.own = z.own, y # z
               PROVE  Apart(y, z)
    BY <1>8 DEF Good
  <2>1. \A u, v : Apart(u, v) <=> Apart(v, u)
    BY DEF Apart
  <2>2. ASSUME NEW u \in ToSet(l[f]) \ {h}, u.own = h.own PROVE Apart(u, x)
    <3>1. Apart(u, h)
      BY <1>1, <1>2, <2>2 DEF Good
    <3> QED BY <1>4, <3>1 DEF Apart, Ahead, Gap
  <2>3. CASE y # x /\ z # x
    BY <1>1, <1>8, <2>3 DEF Good
  <2>4. CASE y = x
    BY <1>4, <1>8, <2>1, <2>2, <2>4
  <2>5. CASE z = x
    BY <1>4, <1>8, <2>2, <2>5
  <2> QED BY <2>3, <2>4, <2>5
<1>12. Lists(k)
  BY <1>10, <1>11 DEF Lists
<1>13. Tab(k) = Tab(l)
  <2>1. Tab(l) \in [Proc -> [File -> [Bytes -> LockType]]]
    BY TabType
  <2>2. ASSUME NEW q \in Proc, NEW g \in File, NEW b \in Bytes, NEW t \in {F_RDLCK, F_WRLCK}
        PROVE  Has(Own(k[g], q), b, t) <=> Tab(l)[q][g][b] = t
    <3>1. Tab(l)[q][g][b] = t <=> Has(Own(l[g], q), b, t)
      BY TabIs
    <3>2. Has(Own(k[g], q), b, t) <=> Has(Own(l[g], q), b, t)
      <4>1. CASE g # f
        BY <1>10, <4>1
      <4>2. CASE g = f
        <5>1. In(b, x) <=> In(b, h)
          BY <1>4 DEF In
        <5> QED BY <1>2, <1>4, <1>8, <1>10, <4>2, <5>1 DEF Has, Own
      <4> QED BY <4>1, <4>2
    <3> QED BY <3>1, <3>2
  <2>3. Says(Tab(l), k)
    BY <2>2 DEF Says
  <2> QED BY <1>12, <2>1, <2>3, TabSame
<1>14. x \in ToSet(k[f]) /\ ToSet(k[f]) = (ToSet(l[f]) \ {h}) \cup {x}
  BY <1>8, <1>10
<1>15. Marked(ToSet(k[f]), ToSet(l[f]), h)
  BY <1>4, <1>5, <1>6, <1>14 DEF Marked
<1> QED BY <1>10, <1>12, <1>13, <1>15 DEF h

-----------------------------------------------------------------------------
(* Waits and deadlocks.                                                    *)

\* Among any sleepers one waits for somebody else: they do not wait in a ring.
Ends(st, o) ==
    \A S \in SUBSET {q \in Proc : st[q] = "asleep"} : S # {} => \E q \in S : o[q].own \notin S

\* What Chain is, up to place n.
IsChain(g, n, p, own) ==
    g = [m \in 0 .. n |-> IF m = 0 THEN own ELSE Blocker(p, g[m - 1])]
\* There is one.
LEMMA ChainExists ==
    ASSUME NEW p, NEW own, NEW top \in Nat
    PROVE  \E g : IsChain(g, top, p, own)
<1> DEFINE S == {n \in 0 .. top : \E g : IsChain(g, n, p, own)}
<1>1. 0 \in S
  <2> DEFINE g == [m \in 0 .. 0 |-> own]
  <2>1. IsChain(g, 0, p, own)
    BY DEF IsChain
  <2> QED BY <2>1
<1>2. ASSUME NEW n \in 0 .. top - 1, n \in S
      PROVE  n + 1 \in S
  <2>1. PICK g : IsChain(g, n, p, own)
    BY <1>2
  <2> DEFINE At(v) == Blocker(p, v)
             h == [m \in 0 .. n + 1 |-> IF m = n + 1 THEN At(g[n]) ELSE g[m]]
  <2>2. \A m \in 0 .. n : g[m] = IF m = 0 THEN own ELSE At(g[m - 1])
    BY <2>1 DEF IsChain
  <2> HIDE DEF At
  <2>3. ASSUME NEW m \in 0 .. n + 1
        PROVE  h[m] = IF m = 0 THEN own ELSE At(h[m - 1])
    <3>1. CASE m = n + 1
      <4>1. m # 0 /\ m - 1 = n /\ n # n + 1 /\ n \in 0 .. n + 1
        BY <3>1
      <4>2. h[m - 1] = g[n] /\ h[m] = At(g[n])
        BY <3>1, <4>1
      <4> QED BY <4>1, <4>2
    <3>2. CASE m # n + 1
      <4>1. m \in 0 .. n /\ h[m] = g[m]
        BY <3>2
      <4>2. CASE m = 0
        BY <2>2, <4>1, <4>2
      <4>3. CASE m # 0
        <5>1. m - 1 \in 0 .. n + 1 /\ m - 1 # n + 1
          BY <4>1, <4>3
        <5> QED BY <2>2, <4>1, <4>3, <5>1
      <4> QED BY <4>2, <4>3
    <3> QED BY <3>1, <3>2
  <2>4. h = [m \in 0 .. n + 1 |-> IF m = 0 THEN own ELSE At(h[m - 1])]
    <3>1. h = [m \in 0 .. n + 1 |-> h[m]]
      OBVIOUS
    <3> HIDE DEF h
    <3> QED BY <2>3, <3>1
  <2> HIDE DEF h
  <2>5. IsChain(h, n + 1, p, own)
    BY <2>4 DEF IsChain, At
  <2> QED BY <2>5
<1>3. 0 .. top \subseteq S
  <2> HIDE DEF S
  <2> QED BY <1>1, <1>2, Induction
<1>4. top \in 0 .. top
  OBVIOUS
<1> QED BY <1>3, <1>4

\* deadflck's chain, from owner to owner.
LEMMA ChainIs ==
    ASSUME NEW p, NEW own
    PROVE  /\ Cardinality(Proc) \in Nat /\ Chain(p, own)[0] = own
           /\ \A n \in 1 .. Cardinality(Proc) :
                Chain(p, own)[n] = Blocker(p, Chain(p, own)[n - 1])
<1> DEFINE N == Cardinality(Proc)
           c == Chain(p, own)
<1>1. N \in Nat
  BY LockAssumption, FS_CardinalityType
<1> HIDE DEF N
<1>2. \E g : IsChain(g, N, p, own)
  BY <1>1, ChainExists
<1>3. c = CHOOSE g : IsChain(g, N, p, own)
  BY DEF Chain, IsChain, N
<1>4. IsChain(c, N, p, own)
  BY <1>2, <1>3
<1> HIDE DEF c
<1>5. c = [m \in 0 .. N |-> IF m = 0 THEN own ELSE Blocker(p, c[m - 1])]
  BY <1>4 DEF IsChain
<1>6. c[0] = own
  BY <1>1, <1>5
<1>7. ASSUME NEW n \in 1 .. N PROVE c[n] = Blocker(p, c[n - 1])
  <2>1. n \in 0 .. N /\ n # 0
    BY <1>1
  <2> QED BY <1>5, <2>1
<1> QED BY <1>1, <1>6, <1>7 DEF N, c

\* A chain of sleepers comes to somebody who is not one of them.
LEMMA ChainLeaves ==
    ASSUME Ends(stat, on), NEW p, NEW own,
           NEW A \in SUBSET {q \in Proc : stat[q] = "asleep"}, p \notin A
    PROVE  \E n \in 0 .. Cardinality(Proc) : Chain(p, own)[n] \notin A
<1> SUFFICES ASSUME \A n \in 0 .. Cardinality(Proc) : Chain(p, own)[n] \in A
             PROVE  FALSE
  OBVIOUS
<1> DEFINE N == Cardinality(Proc)
           c == Chain(p, own)
           T(n) == {c[k] : k \in 0 .. n}
           S == {n \in 0 .. N : IsFiniteSet(T(n)) /\ Cardinality(T(n)) = n + 1}
<1>1. N \in Nat /\ \A n \in 1 .. N : c[n] = Blocker(p, c[n - 1])
  BY ChainIs
<1>2. \A n \in 0 .. N : c[n] \in A
  OBVIOUS
<1> HIDE DEF N, c
<1>3. ASSUME NEW n \in 0 .. N - 1 PROVE c[n + 1] = on[c[n]].own
  <2>1. n + 1 \in 1 .. N /\ (n + 1) - 1 = n /\ n \in 0 .. N
    BY <1>1
  <2>2. c[n + 1] = Blocker(p, c[n])
    BY <1>1, <2>1
  <2>3. c[n] \in Proc \ {p} /\ stat[c[n]] = "asleep"
    BY <1>2, <2>1
  <2>4. c[n] \in Sleeping(p)
    BY <2>3 DEF Sleeping
  <2> QED BY <2>2, <2>4 DEF Blocker
<1>4. 0 \in S
  <2>1. T(0) = {c[0]}
    OBVIOUS
  <2>2. IsFiniteSet({c[0]}) /\ Cardinality({c[0]}) = 1
    BY FS_Singleton
  <2> QED BY <1>1, <2>1, <2>2
<1>5. ASSUME NEW n \in 0 .. N - 1, n \in S PROVE n + 1 \in S
  <2>1. n \in 0 .. N /\ n + 1 \in 0 .. N /\ n \in Nat
    BY <1>1
  <2>2. IsFiniteSet(T(n)) /\ Cardinality(T(n)) = n + 1
    BY <1>5
  <2>3. T(n) \subseteq A /\ T(n) # {}
    <3>1. \A k \in 0 .. n : k \in 0 .. N
      BY <1>1, <2>1
    <3>2. 0 \in 0 .. n
      BY <2>1
    <3> QED BY <1>2, <3>1, <3>2
  <2>4. PICK k \in 0 .. n : on[c[k]].own \notin T(n)
    <3>1. T(n) \in SUBSET {q \in Proc : stat[q] = "asleep"}
      BY <2>3
    <3>2. \E q \in T(n) : on[q].own \notin T(n)
      <4> HIDE DEF T
      <4> QED BY <2>3, <3>1 DEF Ends
    <3> QED BY <3>2
  <2>5. k \in 0 .. N - 1 /\ c[k + 1] \notin T(n)
    <3>1. k \in 0 .. N - 1
      BY <1>1, <2>1
    <3> QED BY <1>3, <2>4, <3>1
  <2>6. k = n
    <3>1. ~(k + 1 \in 0 .. n)
      BY <2>5
    <3> QED BY <2>1, <3>1
  <2>7. T(n + 1) = T(n) \cup {c[n + 1]}
    <3>1. \A j \in 0 .. n + 1 : j \in 0 .. n \/ j = n + 1
      BY <2>1
    <3>2. n + 1 \in 0 .. n + 1 /\ \A j \in 0 .. n : j \in 0 .. n + 1
      BY <2>1
    <3> QED BY <3>1, <3>2
  <2>8. c[n + 1] \notin T(n)
    BY <2>5, <2>6
  <2>9. IsFiniteSet(T(n) \cup {c[n + 1]}) /\ Cardinality(T(n) \cup {c[n + 1]}) = (n + 1) + 1
    <3> HIDE DEF T
    <3> QED BY <2>2, <2>8, FS_AddElement
  <2> QED BY <2>1, <2>7, <2>9
<1>6. N \in S
  <2> HIDE DEF S
  <2>1. \A k \in 0 .. N - 1 : k \in S => k + 1 \in S
    BY <1>5
  <2>2. 0 .. N \subseteq S
    BY <1>1, <1>4, <2>1, Induction
  <2>3. N \in 0 .. N
    BY <1>1
  <2> QED BY <2>2, <2>3
<1>7. T(N) \subseteq Proc /\ Cardinality(T(N)) = N + 1
  BY <1>2, <1>6
<1>8. Cardinality(T(N)) <= N
  <2> HIDE DEF T
  <2> QED BY <1>7, LockAssumption, FS_Subset DEF N
<1> QED BY <1>1, <1>7, <1>8

\* Fewer sleepers, who sleep where they did.
LEMMA EndsFewer ==
    ASSUME NEW st, NEW o, Ends(st, o), NEW su, NEW v,
           \A q \in Proc : su[q] = "asleep" => st[q] = "asleep" /\ v[q] = o[q]
    PROVE  Ends(su, v)
<1> SUFFICES ASSUME NEW S \in SUBSET {q \in Proc : su[q] = "asleep"}, S # {}
             PROVE  \E q \in S : v[q].own \notin S
  BY DEF Ends
<1>1. S \in SUBSET {q \in Proc : st[q] = "asleep"}
  OBVIOUS
<1>2. PICK q \in S : o[q].own \notin S
  BY <1>1 DEF Ends
<1> QED BY <1>2

\* deadflck lets p sleep only where that makes no ring.
LEMMA EndsSleeps ==
    ASSUME Ends(stat, on), NEW p \in Proc, stat[p] # "asleep", NEW k, ~Deadflck(p, k.own),
           NEW st, NEW o, \A q \in Proc \ {p} : st[q] = stat[q] /\ o[q] = on[q], o[p] = k
    PROVE  Ends(st, o)
<1> SUFFICES ASSUME NEW S \in SUBSET {q \in Proc : st[q] = "asleep"}, S # {},
                    \A q \in S : o[q].own \in S
             PROVE  FALSE
  BY DEF Ends
<1> DEFINE A == S \ {p}
           N == Cardinality(Proc)
           c == Chain(p, k.own)
           D == {n \in 0 .. N : c[n] \in A}
<1>1. A \in SUBSET {q \in Proc : stat[q] = "asleep"} /\ p \notin A
  OBVIOUS
<1>2. p \in S
  <2> SUFFICES ASSUME p \notin S PROVE FALSE
    OBVIOUS
  <2>1. PICK q \in S : on[q].own \notin S
    BY <1>1 DEF Ends
  <2> QED BY <2>1
<1>3. \A n \in 0 .. N : c[n] # p
  BY DEF Deadflck
<1>4. N \in Nat /\ c[0] = k.own /\ \A n \in 1 .. N : c[n] = Blocker(p, c[n - 1])
  BY ChainIs
<1>5. PICK n \in 0 .. N : c[n] \notin A
  <2> HIDE DEF A
  <2> QED BY <1>1, ChainLeaves
<1> HIDE DEF N, c
<1>6. 0 \in D
  BY <1>2, <1>3, <1>4
<1>7. ASSUME NEW m \in 0 .. N - 1, m \in D PROVE m + 1 \in D
  <2>1. m + 1 \in 1 .. N /\ (m + 1) - 1 = m /\ m + 1 \in 0 .. N
    BY <1>4
  <2>2. c[m] \in S \ {p} /\ c[m] \in Proc /\ stat[c[m]] = "asleep"
    BY <1>1, <1>7
  <2>3. c[m] \in Sleeping(p)
    BY <2>2 DEF Sleeping
  <2>4. c[m + 1] = on[c[m]].own
    BY <1>4, <2>1, <2>3 DEF Blocker
  <2>5. o[c[m]] = on[c[m]]
    BY <2>2
  <2>6. c[m + 1] \in S
    BY <2>2, <2>4, <2>5
  <2> QED BY <1>3, <2>1, <2>6
<1>8. 0 .. N \subseteq D
  <2> HIDE DEF D
  <2>1. \A m \in 0 .. N - 1 : m \in D => m + 1 \in D
    BY <1>7
  <2>2. 0 \in Int /\ N \in Int
    BY <1>4
  <2> QED BY <1>6, <2>1, <2>2, Induction
<1> QED BY <1>5, <1>8

-----------------------------------------------------------------------------
(* The invariant.                                                          *)

\* Who is in a call asks for a lock; what a sleeper found is in its list,
\* marked, and still in its way.
Waits(st, rq, o) ==
    /\ st \in [Proc -> Stat] /\ rq \in [Proc -> Requests \cup {NoRequest}]
    /\ o \in [Proc -> KeyT]
    /\ \A q \in Proc : st[q] # "user" =>
         rq[q] \in Requests /\ rq[q].type # F_UNLCK /\ o[q].own \in Proc
Stands(l, st, rq, o) ==
    \A q \in Proc : st[q] = "asleep" =>
        \E x \in ToSet(l[rq[q].file]) : Key(x) = o[q] /\ x.wakeflg /\ Conflicts(x, q, rq[q])

IInv ==
    /\ Lists(locks) /\ \A f \in File : Beside(ToSet(locks[f]))
    /\ Waits(stat, req, on) /\ Stands(locks, stat, req, on) /\ Ends(stat, on)

\* Requests are requests.
LEMMA RequestsAre == \A r \in Requests : r \in Request /\ r.file \in File
BY LockAssumption, RequestIs

\* A sleeper is blocked in the table.
LEMMA SleeperBlocked ==
    ASSUME NEW l, Lists(l), NEW st, NEW rq, NEW o, Waits(st, rq, o), Stands(l, st, rq, o),
           NEW q \in Proc, st[q] = "asleep"
    PROVE  Table!BlockedIn(Tab(l), q, rq[q])
<1>1. rq[q] \in Request /\ rq[q].type # F_UNLCK
  BY RequestsAre DEF Waits
<1>2. \E x \in ToSet(l[rq[q].file]) : Conflicts(x, q, rq[q])
  BY DEF Stands
<1> QED BY <1>1, <1>2, BlockedTable

\* Who sleeps after a step slept before it, on the same lock, which is still
\* in its list.
Sleepers(l, st, rq, o) ==
    \A q \in Proc : st[q] = "asleep" =>
        /\ stat[q] = "asleep" /\ rq[q] = req[q] /\ o[q] = on[q]
        /\ \A x \in ToSet(locks[req[q].file]) :
             Key(x) = on[q] /\ x.wakeflg => x \in ToSet(l[req[q].file])
\* What keeps the invariant: those who still sleep slept before, on a lock
\* that is left in its list.
LEMMA Keeps ==
    ASSUME IInv, NEW l, NEW st, NEW rq, NEW o,
           Sleepers(l, st, rq, o)
    PROVE  Stands(l, st, rq, o) /\ Ends(st, o)
<1>1. Ends(st, o)
  BY EndsFewer DEF IInv, Sleepers
<1>2. Stands(l, st, rq, o)
  BY DEF IInv, Stands, Sleepers
<1> QED BY <1>1, <1>2

\* Woken's effect.
LEMMA WokenIs ==
    ASSUME stat \in [Proc -> Stat], NEW f, NEW ks
    PROVE  /\ Woken(f, ks) \in [Proc -> Stat]
           /\ \A q \in Proc :
                /\ stat[q] # "asleep" => Woken(f, ks)[q] = stat[q]
                /\ stat[q] = "asleep" => Woken(f, ks)[q] \in {"asleep", "run"}
                /\ Woken(f, ks)[q] = "asleep" =>
                     stat[q] = "asleep" /\ (req[q].file # f \/ on[q] \notin ks)
BY DEF Woken, Stat

\* A call comes back: the caller's entry of sleeplcks goes, the others' stay.
LEMMA ReturnIs ==
    ASSUME Waits(stat, req, on), NEW p \in Proc, NEW st \in [Proc -> Stat], Returns(p, st),
           \A q \in Proc : stat[q] = "user" => st[q] = "user"
    PROVE  /\ Waits(stat', req', on')
           /\ stat' = [st EXCEPT ![p] = "user"] /\ req' = [req EXCEPT ![p] = NoRequest]
           /\ \A q \in Proc : stat'[q] = "asleep" =>
                q # p /\ st[q] = "asleep" /\ req'[q] = req[q] /\ on'[q] = on[q]
<1>1. /\ stat \in [Proc -> Stat] /\ req \in [Proc -> Requests \cup {NoRequest}]
      /\ on \in [Proc -> KeyT]
      /\ \A q \in Proc : stat[q] # "user" =>
           req[q] \in Requests /\ req[q].type # F_UNLCK /\ on[q].own \in Proc
  BY DEF Waits
<1>2. /\ stat' = [st EXCEPT ![p] = "user"] /\ req' = [req EXCEPT ![p] = NoRequest]
      /\ on' = [on EXCEPT ![p] = NoKey]
  BY DEF Returns
<1>3. /\ stat' \in [Proc -> Stat] /\ req' \in [Proc -> Requests \cup {NoRequest}]
      /\ on' \in [Proc -> KeyT]
  BY <1>1, <1>2 DEF Stat, KeyT
<1>4. ASSUME NEW q \in Proc, stat'[q] # "user"
      PROVE  /\ q # p /\ stat'[q] = st[q] /\ req'[q] = req[q] /\ on'[q] = on[q]
             /\ stat[q] # "user"
  BY <1>1, <1>2, <1>4
<1>5. \A q \in Proc : stat'[q] = "asleep" => stat'[q] # "user"
  OBVIOUS
<1>6. Waits(stat', req', on')
  BY <1>1, <1>3, <1>4 DEF Waits
<1> QED BY <1>2, <1>4, <1>5, <1>6

\* The table the lists stand for.
LEMMA LockedIs == Locked = Tab(locks) /\ Locked' = Tab(locks')
BY DEF Locked, Tab, Covering

\* LockTable's WakesBlocked, from the invariant after the step.
LEMMA WakesIfBlocked ==
    ASSUME IInv', NEW st,
           \A q \in Proc : /\ st[q] # "asleep" => stat'[q] = st[q]
                           /\ st[q] = "asleep" => stat'[q] \in {"asleep", "run"}
    PROVE  Table!WakesBlocked(st)
<1>1. Lists(locks') /\ Waits(stat', req', on') /\ Stands(locks', stat', req', on')
  BY DEF IInv
<1>2. stat' \in [Proc -> Stat]
  BY <1>1 DEF Waits
<1>3. ASSUME NEW q \in Proc, stat'[q] = "asleep" PROVE Table!BlockedIn(Locked', q, req'[q])
  <2>1. Table!BlockedIn(Tab(locks'), q, req'[q])
    BY <1>1, <1>3, SleeperBlocked
  <2> QED BY <2>1, LockedIs
<1>4. stat' \in [Proc -> Table!Stat]
  BY <1>2 DEF Stat, Table!Stat
<1>5. \A q \in Proc :
         IF st[q] = "asleep"
         THEN \/ stat'[q] = "run"
              \/ stat'[q] = "asleep" /\ Table!BlockedIn(Locked', q, req'[q])
         ELSE stat'[q] = st[q]
  BY <1>3
<1> QED BY <1>4, <1>5 DEF Table!WakesBlocked

-----------------------------------------------------------------------------
(* The steps.                                                              *)

\* The locks that stay after flckadj or cleanlocks are those nobody was told
\* of, or those others than who is woken sleep on.
LEMMA WokenKeeps ==
    ASSUME IInv, NEW f \in File, NEW ks, NEW m,
           \A y \in ToSet(locks[f]) : y \in ToSet(m) \/ (y.wakeflg => Key(y) \in ks),
           NEW l, l[f] = m, \A g \in File \ {f} : l[g] = locks[g],
           NEW q \in Proc, Woken(f, ks)[q] = "asleep"
    PROVE  /\ stat[q] = "asleep"
           /\ \A x \in ToSet(locks[req[q].file]) :
                Key(x) = on[q] /\ x.wakeflg => x \in ToSet(l[req[q].file])
<1>1. Waits(stat, req, on)
  BY DEF IInv
<1>2. stat[q] = "asleep" /\ (req[q].file # f \/ on[q] \notin ks)
  BY <1>1, WokenIs DEF Waits
<1>3. req[q].file \in File
  BY <1>1, <1>2, RequestsAre DEF Waits
<1>4. CASE req[q].file # f
  BY <1>2, <1>3, <1>4
<1>5. CASE req[q].file = f
  BY <1>2, <1>5
<1> QED BY <1>2, <1>4, <1>5

\* The list is adjusted: the bytes of r are p's, or the memory did not suffice.
LEMMA SetStep ==
    ASSUME IInv, NEW p \in Proc, stat[p] # "asleep", NEW r \in Requests, r.cmd # "chklock",
           r.type # F_UNLCK => Blocked(locks[r.file], p, r) = 0, Set(p, r)
    PROVE  IInv' /\ Table!Return(p, r)
<1> DEFINE f == r.file
           list == locks[f]
           k == IF r.type # F_UNLCK THEN Insrt(list, p, r)
                ELSE IF list = <<>> THEN NoKey ELSE Key(Head(list))
<1>1. /\ Lists(locks) /\ Waits(stat, req, on) /\ Good(list) /\ Beside(ToSet(list))
      /\ r \in Request /\ f \in File /\ locks \in [File -> Seq(LockRecord)]
      /\ \A g \in File : Beside(ToSet(locks[g]))
  BY RequestsAre DEF IInv, Lists
<1>2. PICK mem \in (IF KmemFails THEN 0 .. 2 ELSE {2}) :
        LET w == Flckadj(list, k, p, r, mem)
        IN  /\ locks' = [locks EXCEPT ![f] = w.list]
            /\ Returns(p, Woken(f, w.woken))
  BY DEF Set
<1>3. mem \in 0 .. 2 /\ (mem # 2 => KmemFails)
  BY <1>2, LockAssumption
<1>4. Begins(list, k, p, r)
  BY <1>1, InsrtBegins, HeadBegins
<1> HIDE DEF k
<1> DEFINE w == Flckadj(list, k, p, r, mem)
           m == w.list
           ks == w.woken
<1>5. Adjusted(m, ks, list, p, r, mem)
  BY <1>1, <1>3, <1>4, FlckadjIs
<1>6. locks' = [locks EXCEPT ![f] = m] /\ Returns(p, Woken(f, ks))
  BY <1>2
<1> HIDE DEF w, m, ks
<1>7. /\ Lists(locks')
      /\ \/ Tab(locks') = Table!Overlay(Tab(locks), p, r)
         \/ mem # 2 /\ Lost(locks', locks, p, f)
  BY <1>1, <1>5, <1>6, AdjustedTable
<1>8. locks'[f] = m /\ \A g \in File \ {f} : locks'[g] = locks[g]
  BY <1>1, <1>6
<1>9. r.type # F_UNLCK => \A x \in ToSet(list) : ~Conflicts(x, p, r)
  BY <1>1, BlockedIs
<1>10. \A g \in File : Beside(ToSet(locks'[g]))
  <2>1. Beside(ToSet(m))
    BY <1>1, <1>5, <1>9, AdjustedBeside
  <2> QED BY <1>1, <1>8, <2>1
<1>11. /\ Woken(f, ks) \in [Proc -> Stat]
       /\ \A q \in Proc : stat[q] # "asleep" => Woken(f, ks)[q] = stat[q]
       /\ \A q \in Proc : stat[q] = "asleep" => Woken(f, ks)[q] \in {"asleep", "run"}
  BY <1>1, WokenIs DEF Waits
<1>12. /\ Waits(stat', req', on')
       /\ stat' = [Woken(f, ks) EXCEPT ![p] = "user"] /\ req' = [req EXCEPT ![p] = NoRequest]
       /\ \A q \in Proc : stat'[q] = "asleep" =>
            q # p /\ Woken(f, ks)[q] = "asleep" /\ req'[q] = req[q] /\ on'[q] = on[q]
  BY <1>1, <1>6, <1>11, ReturnIs
<1>13. \A y \in ToSet(list) : y \in ToSet(m) \/ (y.wakeflg => Key(y) \in ks)
  BY <1>5 DEF Adjusted, Own
<1>14. ASSUME NEW q \in Proc, stat'[q] = "asleep"
       PROVE  /\ stat[q] = "asleep" /\ req'[q] = req[q] /\ on'[q] = on[q]
              /\ \A x \in ToSet(locks[req[q].file]) :
                   Key(x) = on[q] /\ x.wakeflg => x \in ToSet(locks'[req[q].file])
  <2>1. Woken(f, ks)[q] = "asleep" /\ req'[q] = req[q] /\ on'[q] = on[q]
    BY <1>12, <1>14
  <2>2. /\ stat[q] = "asleep"
        /\ \A x \in ToSet(locks[req[q].file]) :
             Key(x) = on[q] /\ x.wakeflg => x \in ToSet(locks'[req[q].file])
    BY <1>1, <1>8, <1>13, <2>1, WokenKeeps
  <2> QED BY <2>1, <2>2
<1>15. IInv'
  <2>1. Sleepers(locks', stat', req', on')
    BY <1>14 DEF Sleepers
  <2>2. Stands(locks', stat', req', on') /\ Ends(stat', on')
    BY <2>1, Keeps
  <2> QED BY <1>7, <1>10, <1>12, <2>2 DEF IInv
<1>16. Table!WakesBlocked([stat EXCEPT ![p] = "user"])
  <2> DEFINE st == [stat EXCEPT ![p] = "user"]
  <2>1. stat \in [Proc -> Stat]
    BY <1>1 DEF Waits
  <2>2. ASSUME NEW q \in Proc
        PROVE  /\ st[q] # "asleep" => stat'[q] = st[q]
               /\ st[q] = "asleep" => stat'[q] \in {"asleep", "run"}
    BY <1>11, <1>12, <2>1
  <2> HIDE DEF st
  <2>3. Table!WakesBlocked(st)
    BY <1>15, <2>2, WakesIfBlocked
  <2> QED BY <2>3 DEF st
<1>17. ~Table!BlockedIn(Locked, p, r)
  <2>1. CASE r.type = F_UNLCK
    BY <2>1 DEF Table!BlockedIn, Table!F_UNLCK, F_UNLCK
  <2>2. CASE r.type # F_UNLCK
    BY <1>1, <1>9, <2>2, BlockedTable, LockedIs
  <2> QED BY <2>1, <2>2
<1>18. \/ Locked' = Table!Overlay(Locked, p, r)
       \/ KmemFails /\ Table!Loses(p, f)
  <2>1. CASE Tab(locks') = Table!Overlay(Tab(locks), p, r)
    BY <2>1, LockedIs
  <2>2. CASE mem # 2 /\ Lost(locks', locks, p, f)
    <3>1. /\ Locked'[p][f] \in [Bytes -> LockType]
          /\ \A b \in Bytes : Locked'[p][f][b] \in {Locked[p][f][b], F_UNLCK}
          /\ Locked' = [Locked EXCEPT ![p][f] = Locked'[p][f]]
      BY <2>2, LockedIs DEF Lost
    <3>2. /\ Table!Bytes = Bytes /\ Table!LockType = LockType /\ Table!F_UNLCK = F_UNLCK
      BY DEF Table!Bytes, Bytes, Table!LockType, LockType, Table!F_UNLCK, F_UNLCK,
             Table!F_RDLCK, F_RDLCK, Table!F_WRLCK, F_WRLCK
    <3> QED BY <1>3, <2>2, <3>1, <3>2 DEF Table!Loses
  <2> QED BY <1>7, <2>1, <2>2
<1>19. req' = [req EXCEPT ![p] = Table!NoRequest]
  BY <1>12 DEF NoRequest, Table!NoRequest
<1>20. Table!Return(p, r)
  BY <1>16, <1>17, <1>18, <1>19 DEF Table!Return
<1> QED BY <1>15, <1>20

\* A call comes back and the lists are as they were.
LEMMA StayStep ==
    ASSUME IInv, NEW p \in Proc, stat[p] # "asleep", Returns(p, stat), UNCHANGED locks
    PROVE  /\ IInv' /\ Locked' = Locked /\ req' = [req EXCEPT ![p] = Table!NoRequest]
           /\ Table!WakesBlocked([stat EXCEPT ![p] = "user"])
<1>1. Waits(stat, req, on) /\ stat \in [Proc -> Stat] /\ locks' = locks
      /\ Lists(locks) /\ \A g \in File : Beside(ToSet(locks[g]))
  BY DEF IInv, Waits
<1>2. /\ Waits(stat', req', on')
      /\ stat' = [stat EXCEPT ![p] = "user"] /\ req' = [req EXCEPT ![p] = NoRequest]
      /\ \A q \in Proc : stat'[q] = "asleep" =>
           q # p /\ stat[q] = "asleep" /\ req'[q] = req[q] /\ on'[q] = on[q]
  BY <1>1, ReturnIs
<1>3. IInv'
  <2>1. Stands(locks', stat', req', on') /\ Ends(stat', on')
    <3>1. Sleepers(locks', stat', req', on')
      BY <1>1, <1>2 DEF Sleepers
    <3> QED BY <3>1, Keeps
  <2> QED BY <1>1, <1>2, <2>1 DEF IInv
<1>4. Table!WakesBlocked([stat EXCEPT ![p] = "user"])
  <2> DEFINE st == [stat EXCEPT ![p] = "user"]
  <2>1. ASSUME NEW q \in Proc
        PROVE  /\ st[q] # "asleep" => stat'[q] = st[q]
               /\ st[q] = "asleep" => stat'[q] \in {"asleep", "run"}
    BY <1>2
  <2> HIDE DEF st
  <2>2. Table!WakesBlocked(st)
    BY <1>3, <2>1, WakesIfBlocked
  <2> QED BY <2>2 DEF st
<1>5. Locked' = Locked
  BY <1>1, LockedIs
<1>6. req' = [req EXCEPT ![p] = Table!NoRequest]
  BY <1>2 DEF NoRequest, Table!NoRequest
<1> QED BY <1>3, <1>4, <1>5, <1>6

\* A lock that p found in its way is marked.
LEMMA MarkIs ==
    ASSUME IInv, NEW p \in Proc, NEW r \in Requests,
           NEW i, i = Blocked(locks[r.file], p, r), i # 0, Mark(r, i)
    PROVE  /\ Lists(locks') /\ (\A g \in File : Beside(ToSet(locks'[g]))) /\ Locked' = Locked
           /\ \E x \in ToSet(locks'[r.file]) :
                Key(x) = Key(locks[r.file][i]) /\ x.wakeflg /\ Conflicts(x, p, r)
           /\ \A f \in File : \A x \in ToSet(locks[f]) : x.wakeflg => x \in ToSet(locks'[f])
<1> DEFINE f == r.file
           h == locks[f][i]
<1>1. /\ Lists(locks) /\ r \in Request /\ f \in File /\ locks[f] \in Seq(LockRecord)
      /\ Good(locks[f]) /\ \A g \in File : Beside(ToSet(locks[g]))
  BY RequestsAre DEF IInv, Lists
<1>2. i \in 1 .. Len(locks[f]) /\ Conflicts(h, p, r)
  BY <1>1, BlockedIs
<1>3. locks' = WithMark(locks, f, i)
  BY DEF Mark, WithMark
<1>4. h \in ToSet(locks[f])
  BY <1>1, <1>2, InList
<1>5. /\ Lists(locks') /\ Tab(locks') = Tab(locks)
      /\ (\A g \in File \ {f} : locks'[g] = locks[g])
      /\ Marked(ToSet(locks'[f]), ToSet(locks[f]), locks[f][i])
  BY <1>1, <1>2, <1>3, MarkTable
<1> HIDE DEF h
<1>6. PICK x \in ToSet(locks'[f]) :
        /\ x.wakeflg /\ Key(x) = Key(h) /\ x.own = h.own /\ x.type = h.type
        /\ x.start = h.start /\ x.end = h.end
        /\ ToSet(locks'[f]) = (ToSet(locks[f]) \ {h}) \cup {x} /\ (h.wakeflg => x = h)
  BY <1>5 DEF h, Marked
<1>7. Conflicts(x, p, r)
  BY <1>2, <1>6 DEF Conflicts
<1>8. ASSUME NEW g \in File PROVE Beside(ToSet(locks'[g]))
  <2>1. CASE g # f
    BY <1>1, <1>5, <2>1
  <2>2. CASE g = f
    <3> SUFFICES ASSUME NEW y \in ToSet(locks'[f]), NEW z \in ToSet(locks'[f]), NEW b \in Bytes,
                        y.own # z.own, In(b, y), In(b, z)
                 PROVE  y.type = F_RDLCK /\ z.type = F_RDLCK
      BY <2>2 DEF Beside
    <3>1. \A u \in ToSet(locks'[f]) : \E v \in ToSet(locks[f]) :
            v.own = u.own /\ v.type = u.type /\ v.start = u.start /\ v.end = u.end
      BY <1>4, <1>6
    <3>2. PICK v \in ToSet(locks[f]) :
            v.own = y.own /\ v.type = y.type /\ v.start = y.start /\ v.end = y.end
      BY <3>1
    <3>3. PICK u \in ToSet(locks[f]) :
            u.own = z.own /\ u.type = z.type /\ u.start = z.start /\ u.end = z.end
      BY <3>1
    <3>4. In(b, v) /\ In(b, u)
      BY <3>2, <3>3 DEF In
    <3>5. Beside(ToSet(locks[f]))
      BY <1>1
    <3> QED BY <3>2, <3>3, <3>4, <3>5 DEF Beside
  <2> QED BY <2>1, <2>2
<1>9. ASSUME NEW g \in File, NEW y \in ToSet(locks[g]), y.wakeflg PROVE y \in ToSet(locks'[g])
  <2>1. CASE g # f
    BY <1>5, <2>1
  <2>2. CASE g = f
    BY <1>6, <1>9, <2>2
  <2> QED BY <2>1, <2>2
<1>10. Locked' = Locked
  BY <1>5, LockedIs
<1> QED BY <1>5, <1>6, <1>7, <1>8, <1>9, <1>10 DEF h

\* One pass of reclock's loop.
LEMMA LoopStep ==
    ASSUME IInv, NEW p \in Proc, stat[p] # "asleep", NEW r \in Requests, r.type # F_UNLCK,
           Pass(p, r)
    PROVE  IInv' /\ (Table!Return(p, r) \/ Table!Wait(p, r))
<1> DEFINE i == Blocked(locks[r.file], p, r)
           found == locks[r.file][i]
<1>1. /\ Lists(locks) /\ Waits(stat, req, on) /\ r \in Request /\ r.file \in File
      /\ locks[r.file] \in Seq(LockRecord) /\ stat \in [Proc -> Stat]
      /\ req \in [Proc -> Requests \cup {NoRequest}] /\ on \in [Proc -> KeyT]
  BY RequestsAre DEF IInv, Lists, Waits
<1>2. i # 0 => /\ Table!BlockedIn(Locked, p, r) /\ found \in ToSet(locks[r.file])
               /\ found \in LockRecord
  <2> SUFFICES ASSUME i # 0
               PROVE  /\ Table!BlockedIn(Locked, p, r) /\ found \in ToSet(locks[r.file])
                      /\ found \in LockRecord
    OBVIOUS
  <2>1. i \in 1 .. Len(locks[r.file]) /\ Conflicts(found, p, r)
    BY <1>1, BlockedIs
  <2>2. found \in ToSet(locks[r.file]) /\ found \in LockRecord
    BY <1>1, <2>1, InList
  <2> HIDE DEF found, i
  <2>3. Table!BlockedIn(Tab(locks), p, r)
    BY <1>1, <2>1, <2>2, BlockedTable
  <2> QED BY <2>2, <2>3, LockedIs
<1>3. \/ i = 0 /\ r.cmd # "chklock" /\ Set(p, r)
      \/ i = 0 /\ r.cmd = "chklock" /\ Returns(p, stat) /\ UNCHANGED locks
      \/ i # 0 /\ Returns(p, stat) /\ UNCHANGED locks
      \/ /\ i # 0 /\ ~Deadflck(p, found.own) /\ Mark(r, i)
         /\ stat' = [stat EXCEPT ![p] = "asleep"]
         /\ req' = [req EXCEPT ![p] = r] /\ on' = [on EXCEPT ![p] = Key(found)]
      \/ i # 0 /\ Mark(r, i) /\ Returns(p, stat)
  BY DEF Pass
<1> DEFINE Back == /\ req' = [req EXCEPT ![p] = Table!NoRequest]
                   /\ Table!WakesBlocked([stat EXCEPT ![p] = "user"])
<1>4. CASE i = 0 /\ r.cmd # "chklock" /\ Set(p, r)
  BY <1>4, SetStep
<1>5. CASE i = 0 /\ r.cmd = "chklock" /\ Returns(p, stat) /\ UNCHANGED locks
  <2>1. IInv' /\ Locked' = Locked /\ Back
    BY <1>5, StayStep
  <2> QED BY <1>5, <2>1 DEF Table!Return
<1>6. CASE i # 0 /\ Returns(p, stat) /\ UNCHANGED locks
  <2>1. IInv' /\ Locked' = Locked /\ Back
    BY <1>6, StayStep
  <2> QED BY <1>2, <1>6, <2>1 DEF Table!Return
<1>7. CASE /\ i # 0 /\ ~Deadflck(p, found.own) /\ Mark(r, i)
           /\ stat' = [stat EXCEPT ![p] = "asleep"]
           /\ req' = [req EXCEPT ![p] = r] /\ on' = [on EXCEPT ![p] = Key(found)]
  <2>1. /\ Lists(locks') /\ (\A g \in File : Beside(ToSet(locks'[g]))) /\ Locked' = Locked
        /\ \E x \in ToSet(locks'[r.file]) :
             Key(x) = Key(found) /\ x.wakeflg /\ Conflicts(x, p, r)
        /\ \A f \in File : \A x \in ToSet(locks[f]) : x.wakeflg => x \in ToSet(locks'[f])
    BY <1>7, MarkIs
  <2>2. Key(found) \in KeyT /\ Key(found).own = found.own /\ found.own \in Proc
    BY <1>2, <1>7, KeyInKeys, LockIs DEF Key
  <2> DEFINE k == Key(found)
  <2> HIDE DEF found, i, k
  <2>3. /\ stat' \in [Proc -> Stat] /\ req' \in [Proc -> Requests \cup {NoRequest}]
        /\ on' \in [Proc -> KeyT]
        /\ stat'[p] = "asleep" /\ req'[p] = r /\ on'[p] = k
        /\ \A q \in Proc \ {p} : stat'[q] = stat[q] /\ req'[q] = req[q] /\ on'[q] = on[q]
    BY <1>1, <1>7, <2>2 DEF Stat, k
  <2>4. Waits(stat', req', on')
    BY <1>1, <2>2, <2>3 DEF Waits, k
  <2>5. Stands(locks', stat', req', on')
    <3> SUFFICES ASSUME NEW q \in Proc, stat'[q] = "asleep"
                 PROVE  \E x \in ToSet(locks'[req'[q].file]) :
                          Key(x) = on'[q] /\ x.wakeflg /\ Conflicts(x, q, req'[q])
      BY DEF Stands
    <3>1. CASE q = p
      BY <2>1, <2>3, <3>1 DEF k
    <3>2. CASE q # p
      <4>1. stat[q] = "asleep" /\ req'[q] = req[q] /\ on'[q] = on[q]
        BY <2>3, <3>2
      <4>2. PICK x \in ToSet(locks[req[q].file]) :
              Key(x) = on[q] /\ x.wakeflg /\ Conflicts(x, q, req[q])
        BY <4>1 DEF IInv, Stands
      <4>3. req[q].file \in File
        BY <1>1, <4>1, RequestsAre DEF Waits
      <4> QED BY <2>1, <4>1, <4>2, <4>3
    <3> QED BY <3>1, <3>2
  <2>6. Ends(stat', on')
    <3>1. ~Deadflck(p, k.own)
      BY <1>7, <2>2 DEF k
    <3> QED BY <2>3, <3>1, EndsSleeps DEF IInv
  <2>7. IInv'
    BY <2>1, <2>4, <2>5, <2>6 DEF IInv
  <2>8. Table!Wait(p, r)
    BY <1>2, <1>7, <2>1 DEF Table!Wait
  <2> QED BY <2>7, <2>8
<1>8. CASE i # 0 /\ Mark(r, i) /\ Returns(p, stat)
  <2>1. /\ Lists(locks') /\ (\A g \in File : Beside(ToSet(locks'[g]))) /\ Locked' = Locked
        /\ \A f \in File : \A x \in ToSet(locks[f]) : x.wakeflg => x \in ToSet(locks'[f])
    BY <1>8, MarkIs
  <2>2. /\ Waits(stat', req', on')
        /\ stat' = [stat EXCEPT ![p] = "user"] /\ req' = [req EXCEPT ![p] = NoRequest]
        /\ \A q \in Proc : stat'[q] = "asleep" =>
             q # p /\ stat[q] = "asleep" /\ req'[q] = req[q] /\ on'[q] = on[q]
    BY <1>1, <1>8, ReturnIs
  <2>3. Sleepers(locks', stat', req', on')
    <3> SUFFICES ASSUME NEW q \in Proc, stat'[q] = "asleep"
                 PROVE  \A x \in ToSet(locks[req[q].file]) :
                          Key(x) = on[q] /\ x.wakeflg => x \in ToSet(locks'[req[q].file])
      BY <2>2 DEF Sleepers
    <3>1. req[q].file \in File
      BY <1>1, <2>2, RequestsAre DEF Waits
    <3> QED BY <2>1, <3>1
  <2>4. IInv'
    <3>1. Stands(locks', stat', req', on') /\ Ends(stat', on')
      BY <2>3, Keeps
    <3> QED BY <2>1, <2>2, <3>1 DEF IInv
  <2>5. Table!WakesBlocked([stat EXCEPT ![p] = "user"])
    <3> DEFINE st == [stat EXCEPT ![p] = "user"]
    <3>1. ASSUME NEW q \in Proc
          PROVE  /\ st[q] # "asleep" => stat'[q] = st[q]
                 /\ st[q] = "asleep" => stat'[q] \in {"asleep", "run"}
      BY <2>2
    <3> HIDE DEF st
    <3>2. Table!WakesBlocked(st)
      BY <2>4, <3>1, WakesIfBlocked
    <3> QED BY <3>2 DEF st
  <2>6. req' = [req EXCEPT ![p] = Table!NoRequest]
    BY <2>2 DEF NoRequest, Table!NoRequest
  <2> QED BY <1>2, <1>8, <2>1, <2>4, <2>5, <2>6 DEF Table!Return
<1> QED BY <1>3, <1>4, <1>5, <1>6, <1>7, <1>8

\* cleanlocks.
LEMMA CleanStep ==
    ASSUME IInv, NEW Q, NEW f \in File, Cleanlocks(Q, f)
    PROVE  IInv' /\ Table!Clean(Q, f)
<1> DEFINE ks == {Key(l) : l \in {m \in ToSet(locks[f]) : m.own \in Q /\ m.wakeflg}}
           m == Without(locks[f], Q)
<1>1. /\ Lists(locks) /\ Waits(stat, req, on) /\ stat \in [Proc -> Stat]
      /\ \A g \in File : Beside(ToSet(locks[g]))
  BY DEF IInv, Waits
<1>2. /\ locks' = [locks EXCEPT ![f] = Without(@, Q)]
      /\ stat' = Woken(f, ks) /\ UNCHANGED <<req, on>>
  BY DEF Cleanlocks
<1>3. /\ Lists(locks') /\ locks'[f] = m /\ (\A g \in File \ {f} : locks'[g] = locks[g])
      /\ ToSet(locks'[f]) = {x \in ToSet(locks[f]) : x.own \notin Q}
      /\ Tab(locks') = Cleared(Tab(locks), f, Q)
  <2>1. locks' = Cleaned(locks, f, Q)
    BY <1>2 DEF Cleaned
  <2> QED BY <1>1, <2>1, CleanTable
<1>4. \A y \in ToSet(locks[f]) : y \in ToSet(m) \/ (y.wakeflg => Key(y) \in ks)
  BY <1>3
<1> HIDE DEF ks, m
<1>5. \A g \in File : Beside(ToSet(locks'[g]))
  <2>1. Beside(ToSet(locks'[f]))
    BY <1>1, <1>3 DEF Beside
  <2> QED BY <1>1, <1>3, <2>1
<1>6. /\ stat' \in [Proc -> Stat]
      /\ \A q \in Proc : /\ stat[q] # "asleep" => stat'[q] = stat[q]
                         /\ stat[q] = "asleep" => stat'[q] \in {"asleep", "run"}
  BY <1>1, <1>2, WokenIs
<1>7. Waits(stat', req', on')
  BY <1>1, <1>2, <1>6 DEF Waits
<1>8. Sleepers(locks', stat', req', on')
  <2> SUFFICES ASSUME NEW q \in Proc, stat'[q] = "asleep"
               PROVE  /\ stat[q] = "asleep" /\ req'[q] = req[q] /\ on'[q] = on[q]
                      /\ \A x \in ToSet(locks[req[q].file]) :
                           Key(x) = on[q] /\ x.wakeflg => x \in ToSet(locks'[req[q].file])
    BY DEF Sleepers
  <2>1. Woken(f, ks)[q] = "asleep"
    BY <1>2 DEF ks
  <2>2. /\ stat[q] = "asleep"
        /\ \A x \in ToSet(locks[req[q].file]) :
             Key(x) = on[q] /\ x.wakeflg => x \in ToSet(locks'[req[q].file])
    BY <1>3, <1>4, <2>1, WokenKeeps
  <2> QED BY <1>2, <2>2
<1>9. IInv'
  <2>1. Stands(locks', stat', req', on') /\ Ends(stat', on')
    BY <1>8, Keeps
  <2> QED BY <1>3, <1>5, <1>7, <2>1 DEF IInv
<1>10. Table!WakesBlocked(stat)
  BY <1>6, <1>9, WakesIfBlocked
<1>11. Locked' = [p \in Proc |-> IF p \in Q
          THEN [Locked[p] EXCEPT ![f] = [b \in Table!Bytes |-> Table!F_UNLCK]] ELSE Locked[p]]
  <2>1. Table!Bytes = Bytes /\ Table!F_UNLCK = F_UNLCK
    BY DEF Table!Bytes, Bytes, Table!F_UNLCK, F_UNLCK
  <2> QED BY <1>3, <2>1, LockedIs DEF Cleared
<1> QED BY <1>2, <1>9, <1>10, <1>11 DEF Table!Clean

\* A signal, or a stop and its SIGCONT.
LEMMA RouseStep ==
    ASSUME IInv, NEW p \in Proc, Signal(p) \/ StopCont(p)
    PROVE  IInv' /\ Table!Rouse(p)
<1>1. /\ Lists(locks) /\ Waits(stat, req, on) /\ stat \in [Proc -> Stat]
      /\ \A g \in File : Beside(ToSet(locks[g]))
  BY DEF IInv, Waits
<1>2. UNCHANGED <<locks, req, on>>
  BY DEF Signal, StopCont
<1>3. \/ stat[p] \in {"asleep", "run"} /\ stat' = [stat EXCEPT ![p] = "intr"]
      \/ stat[p] = "asleep" /\ stat' = [stat EXCEPT ![p] = "run"]
  BY DEF Signal, StopCont
<1>4. stat' \in [Proc -> Stat]
      /\ \A q \in Proc : /\ stat'[q] = "asleep" => stat[q] = "asleep"
                         /\ stat'[q] # "user" => stat[q] # "user"
  BY <1>1, <1>3 DEF Stat
<1>5. Waits(stat', req', on')
  BY <1>1, <1>2, <1>4 DEF Waits
<1>6. Sleepers(locks', stat', req', on')
  BY <1>2, <1>4 DEF Sleepers
<1>7. IInv'
  <2>1. Lists(locks') /\ \A f \in File : Beside(ToSet(locks'[f]))
    BY <1>1, <1>2
  <2>2. Stands(locks', stat', req', on') /\ Ends(stat', on')
    BY <1>6, Keeps
  <2> QED BY <1>5, <2>1, <2>2 DEF IInv
<1>8. Locked' = Locked
  BY <1>2, LockedIs
<1> QED BY <1>2, <1>3, <1>7, <1>8 DEF Table!Rouse

\* Every step keeps the invariant and is a step of LockTable, or none.
LEMMA StepKeeps ==
    ASSUME IInv, [Next]_vars
    PROVE  IInv' /\ [Table!Next]_(Table!vars)
<1>1. Waits(stat, req, on)
  BY DEF IInv
<1>2. ASSUME NEW p \in Proc, NEW r \in Requests, SetLk(p, r) PROVE IInv' /\ Table!Next
  <2>1. /\ stat[p] = "user" /\ r.cmd = "F_SETLK" /\ Blocked(locks[r.file], p, r) = 0
        /\ Set(p, r)
    BY <1>2 DEF SetLk
  <2>2. IInv' /\ Table!Return(p, r)
    BY <2>1, SetStep
  <2> QED BY <2>1, <2>2 DEF Table!Next, Table!Call
<1>3. ASSUME NEW p \in Proc, NEW r \in Requests, Unlock(p, r) PROVE IInv' /\ Table!Next
  <2>1. stat[p] = "user" /\ r.type = F_UNLCK /\ Set(p, r)
    BY <1>3 DEF Unlock
  <2>2. r.cmd # "chklock"
    BY <2>1, RequestsAre DEF Request
  <2>3. IInv' /\ Table!Return(p, r)
    BY <2>1, <2>2, SetStep
  <2> QED BY <2>1, <2>3 DEF Table!Next, Table!Call
<1>4. ASSUME NEW p \in Proc, NEW r \in Requests, SetLkw(p, r) PROVE IInv' /\ Table!Next
  <2>1. stat[p] = "user" /\ r.cmd # "F_SETLK" /\ Pass(p, r)
    BY <1>4 DEF SetLkw
  <2>2. r.type # F_UNLCK
    BY <2>1, RequestsAre DEF Request
  <2>3. IInv' /\ (Table!Return(p, r) \/ Table!Wait(p, r))
    BY <2>1, <2>2, LoopStep
  <2> QED BY <2>1, <2>3 DEF Table!Next, Table!Call
<1>5. ASSUME NEW p \in Proc, Again(p) PROVE IInv' /\ Table!Next
  <2>1. stat[p] = "run" /\ Pass(p, req[p])
    BY <1>5 DEF Again
  <2>2. req[p] \in Requests /\ req[p].type # F_UNLCK
    BY <1>1, <2>1 DEF Waits
  <2>3. IInv' /\ (Table!Return(p, req[p]) \/ Table!Wait(p, req[p]))
    BY <2>1, <2>2, LoopStep
  <2> QED BY <2>1, <2>3 DEF Table!Next, Table!Resume
<1>6. ASSUME NEW p \in Proc, Interrupted(p) PROVE IInv' /\ Table!Next
  <2>1. stat[p] = "intr" /\ Returns(p, stat) /\ UNCHANGED locks
    BY <1>6 DEF Interrupted
  <2>2. /\ IInv' /\ Locked' = Locked /\ req' = [req EXCEPT ![p] = Table!NoRequest]
        /\ Table!WakesBlocked([stat EXCEPT ![p] = "user"])
    BY <2>1, StayStep
  <2>3. Table!Return(p, req[p])
    BY <2>1, <2>2 DEF Table!Return
  <2> QED BY <2>1, <2>2, <2>3 DEF Table!Next, Table!Resume
<1>7. ASSUME NEW p \in Proc, Signal(p) \/ StopCont(p) PROVE IInv' /\ Table!Next
  BY <1>7, RouseStep DEF Table!Next
<1>8. ASSUME NEW p \in Proc, NEW f \in File, Close(p, f) PROVE IInv' /\ Table!Next
  BY <1>8, CleanStep DEF Close, Table!Next
<1>9. ASSUME NEW f \in File, SystemGone(f) PROVE IInv' /\ Table!Next
  BY <1>9, CleanStep DEF SystemGone, Table!Next
<1>10. CASE UNCHANGED vars
  <2>1. UNCHANGED <<locks, stat, req, on>>
    BY <1>10 DEF vars
  <2>2. IInv'
    BY <2>1 DEF IInv
  <2>3. Locked' = Locked
    BY <2>1, LockedIs
  <2> QED BY <2>1, <2>2, <2>3 DEF Table!vars
<1> QED BY <1>2, <1>3, <1>4, <1>5, <1>6, <1>7, <1>8, <1>9, <1>10 DEF Next

-----------------------------------------------------------------------------
(* The theorems.                                                           *)

\* The invariant holds at the start.
LEMMA InitKeeps ==
    ASSUME Init
    PROVE  IInv /\ Table!Init
<1>1. Good(<<>>) /\ ToSet(<<>>) = {}
  BY DEF Good, Order, ToSet
<1>2. locks \in [File -> Seq(LockRecord)] /\ \A f \in File : locks[f] = <<>>
  BY DEF Init
<1>3. Lists(locks) /\ \A f \in File : ToSet(locks[f]) = {}
  BY <1>1, <1>2 DEF Lists
<1>4. \A f \in File : Beside(ToSet(locks[f]))
  BY <1>3 DEF Beside
<1>5. NoKey \in KeyT
  BY DEF KeyT
<1>6. /\ stat = [p \in Proc |-> "user"] /\ req = [p \in Proc |-> NoRequest]
      /\ on = [p \in Proc |-> NoKey] /\ \A p \in Proc : stat[p] # "asleep"
  BY DEF Init
<1>7. Waits(stat, req, on)
  BY <1>5, <1>6 DEF Waits, Stat
<1>8. Stands(locks, stat, req, on) /\ Ends(stat, on)
  BY <1>6 DEF Stands, Ends
<1>9. Locked = [p \in Proc |-> [f \in File |-> [b \in Bytes |-> F_UNLCK]]]
  <2> DEFINE m == [p \in Proc |-> [f \in File |-> [b \in Bytes |-> F_UNLCK]]]
  <2>1. m \in [Proc -> [File -> [Bytes -> LockType]]]
    BY DEF LockType
  <2>2. ASSUME NEW p \in Proc, NEW f \in File, NEW b \in Bytes, NEW t \in {F_RDLCK, F_WRLCK}
        PROVE  Has(Own(locks[f], p), b, t) <=> m[p][f][b] = t
    <3>1. Own(locks[f], p) = {}
      BY <1>3 DEF Own
    <3>2. m[p][f][b] # t
      BY DEF F_UNLCK, F_RDLCK, F_WRLCK
    <3> QED BY <3>1, <3>2 DEF Has
  <2> HIDE DEF m
  <2>3. Says(m, locks)
    BY <2>2 DEF Says
  <2>4. Tab(locks) = m
    BY <1>3, <2>1, <2>3, TabSame
  <2> QED BY <2>4, LockedIs DEF m
<1>10. Table!Init
  BY <1>6, <1>9 DEF Table!Init, Table!Bytes, Bytes, Table!F_UNLCK, F_UNLCK,
     Table!NoRequest, NoRequest
<1> QED BY <1>3, <1>4, <1>7, <1>8, <1>10 DEF IInv

\* RecLock's inductive invariant.
THEOREM RecLockInvariant == Spec => []IInv
<1>1. Init => IInv
  BY InitKeeps
<1>2. IInv /\ [Next]_vars => IInv'
  BY StepKeeps
<1> QED BY <1>1, <1>2, PTL DEF Spec

\* The variables keep their shape.
THEOREM RecLockTypeCorrect == Spec => []TypeOK
<1>1. IInv => TypeOK
  BY DEF IInv, Lists, Waits, TypeOK, KeyT
<1> QED BY <1>1, RecLockInvariant, PTL

\* "All record lock lists are ordered by starting position" (flock.c:14), and
\* the locks of one owner neither overlap nor adjoin with the same type,
\* whatever is locked and unlocked and whatever allocation fails.
THEOREM RecLockOrdered == Spec => []ListsOrdered
<1>1. IInv => ListsOrdered
  <2> SUFFICES ASSUME IInv, NEW f \in File, NEW i \in DOMAIN locks[f],
                      NEW j \in DOMAIN locks[f], i < j
               PROVE  /\ locks[f][i].start <= locks[f][j].start
                      /\ locks[f][i].own = locks[f][j].own =>
                           locks[f][i].end < locks[f][j].start
                             - (IF locks[f][i].type = locks[f][j].type THEN 1 ELSE 0)
    BY DEF ListsOrdered
  <2> DEFINE x == locks[f][i]
             y == locks[f][j]
  <2>1. Good(locks[f]) /\ Order(locks[f]) /\ locks[f] \in Seq(LockRecord)
    BY DEF IInv, Lists, Good, Order
  <2>2. i \in 1 .. Len(locks[f]) /\ j \in 1 .. Len(locks[f])
    BY <2>1
  <2>3. /\ x \in ToSet(locks[f]) /\ y \in ToSet(locks[f]) /\ x \in LockRecord
        /\ y \in LockRecord
    BY <2>1, <2>2, InList
  <2>4. x.start <= y.start /\ Key(x) # Key(y) /\ x.start <= x.end /\ y.start <= y.end
    BY <2>1, <2>2 DEF Order
  <2> HIDE DEF x, y
  <2>5. x.start \in Int /\ x.end \in Int /\ y.start \in Int /\ y.end \in Int
    BY <2>3, LockIs
  <2>6. ASSUME x.own = y.own PROVE x.end < y.start - (IF x.type = y.type THEN 1 ELSE 0)
    <3>1. Apart(x, y)
      BY <2>1, <2>3, <2>4, <2>6 DEF Good
    <3>2. ~Ahead(y, x)
      BY <2>4, <2>5 DEF Ahead, Gap
    <3> QED BY <3>1, <3>2 DEF Apart, Ahead, Gap
  <2> QED BY <2>4, <2>6 DEF x, y
<1> QED BY <1>1, RecLockInvariant, PTL

\* A byte locked for writing is locked by nobody else.
THEOREM RecLockNoClash == Spec => []NoClash
<1>1. IInv => NoClash
  <2> SUFFICES ASSUME IInv, NEW p \in Proc, NEW q \in Proc, NEW f \in File,
                      NEW b \in Table!Bytes, p # q
               PROVE  ~Table!Clash(Locked[p][f][b], Locked[q][f][b])
    BY DEF NoClash, Table!NoClash
  <2>1. b \in Bytes /\ Lists(locks) /\ Beside(ToSet(locks[f])) /\ Locked = Tab(locks)
    BY LockedIs DEF IInv, Table!Bytes, Bytes
  <2> DEFINE s == Tab(locks)[p][f][b]
             t == Tab(locks)[q][f][b]
  <2>2. /\ s \in LockType /\ t \in LockType
        /\ \A u \in {F_RDLCK, F_WRLCK} : /\ s = u <=> Has(Own(locks[f], p), b, u)
                                         /\ t = u <=> Has(Own(locks[f], q), b, u)
    BY <2>1, TabIs
  <2> HIDE DEF s, t
  <2>3. SUFFICES ASSUME s # F_UNLCK, t # F_UNLCK, s = F_WRLCK \/ t = F_WRLCK
                 PROVE  FALSE
    BY <2>1 DEF Table!Clash, Table!F_WRLCK, F_WRLCK, Table!F_UNLCK, F_UNLCK, s, t
  <2>4. s \in {F_RDLCK, F_WRLCK} /\ t \in {F_RDLCK, F_WRLCK}
    BY <2>2, <2>3 DEF LockType
  <2>5. PICK x \in Own(locks[f], p) : In(b, x) /\ x.type = s
    BY <2>2, <2>4 DEF Has
  <2>6. PICK y \in Own(locks[f], q) : In(b, y) /\ y.type = t
    BY <2>2, <2>4 DEF Has
  <2>7. x \in ToSet(locks[f]) /\ y \in ToSet(locks[f]) /\ x.own # y.own
    BY <2>5, <2>6 DEF Own
  <2>8. s = F_RDLCK /\ t = F_RDLCK
    BY <2>1, <2>5, <2>6, <2>7 DEF Beside
  <2> QED BY <2>3, <2>8 DEF F_RDLCK, F_WRLCK
<1> QED BY <1>1, RecLockInvariant, PTL

\* What a process sleeps on stands in its list, marked and in its way.
THEOREM RecLockFoundStands == Spec => []FoundStands
<1>1. IInv => FoundStands
  <2> SUFFICES ASSUME IInv, NEW p \in Proc, stat[p] = "asleep"
               PROVE  LET i == Place(locks[req[p].file], on[p])
                      IN  /\ i # 0
                          /\ locks[req[p].file][i].wakeflg
                          /\ Conflicts(locks[req[p].file][i], p, req[p])
    BY DEF FoundStands
  <2> DEFINE l == locks[req[p].file]
  <2>1. req[p].file \in File
    BY RequestsAre DEF IInv, Waits
  <2>2. Order(l) /\ l \in Seq(LockRecord)
    BY <2>1 DEF IInv, Lists, Good, Order
  <2>3. PICK x \in ToSet(l) : Key(x) = on[p] /\ x.wakeflg /\ Conflicts(x, p, req[p])
    BY DEF IInv, Stands
  <2>4. PICK i \in 1 .. Len(l) : x = l[i]
    BY <2>2, InList
  <2> HIDE DEF l
  <2>5. Place(l, on[p]) = i
    BY <2>2, <2>3, <2>4, PlaceIs
  <2>6. i # 0
    BY <2>2, InList
  <2> QED BY <2>3, <2>4, <2>5, <2>6 DEF l
<1> QED BY <1>1, RecLockInvariant, PTL

\* Every sleeper waits, by way of others, for a process that is not asleep.
THEOREM RecLockWaitersEnd == Spec => []WaitersEnd
<1>1. IInv => WaitersEnd
  <2> SUFFICES ASSUME IInv, NEW p \in Proc, stat[p] = "asleep"
               PROVE  \E n \in 0 .. Cardinality(Proc) :
                        stat[Chain("none", on[p].own)[n]] # "asleep"
    BY DEF WaitersEnd
  <2> DEFINE A == {q \in Proc : stat[q] = "asleep"}
             c == Chain("none", on[p].own)
             N == Cardinality(Proc)
             S == {n \in 0 .. N : c[n] \in Proc}
  <2>1. "none" \notin Proc /\ \A q \in Proc : stat[q] # "user" => on[q].own \in Proc
    BY LockAssumption DEF IInv, Waits
  <2>2. /\ N \in Nat /\ c[0] = on[p].own
        /\ \A n \in 1 .. N : c[n] = Blocker("none", c[n - 1])
    BY ChainIs
  <2>3. PICK n \in 0 .. N : c[n] \notin A
    BY <2>1, ChainLeaves DEF IInv
  <2> HIDE DEF c, N, A
  <2>4. 0 \in S
    BY <2>1, <2>2
  <2>5. ASSUME NEW k \in 0 .. N - 1, k \in S PROVE k + 1 \in S
    <3>1. k + 1 \in 1 .. N /\ k + 1 \in 0 .. N /\ k + 1 - 1 = k
      BY <2>2
    <3>2. c[k + 1] = Blocker("none", c[k]) /\ c[k] \in Proc
      BY <2>2, <2>5, <3>1
    <3>3. c[k + 1] \in Proc
      BY <2>1, <3>2 DEF Blocker, Sleeping
    <3> QED BY <3>1, <3>3
  <2>6. n \in S
    <3> HIDE DEF S
    <3>1. 0 .. N \subseteq S
      BY <2>2, <2>4, <2>5, Induction
    <3> QED BY <3>1
  <2>7. stat[c[n]] # "asleep"
    BY <2>3, <2>6 DEF A
  <2> QED BY <2>7 DEF c, N
<1> QED BY <1>1, RecLockInvariant, PTL

\* The lists implement LockTable: a call changes exactly the bytes it names,
\* of its owner only, unless memory runs out, and wakes whoever is no longer
\* blocked.
THEOREM RecLockImplements == Spec => ImplementsLockTable
<1>1. Init => Table!Init
  BY InitKeeps
<1>2. IInv /\ [Next]_vars => [Table!Next]_(Table!vars)
  BY StepKeeps
<1> QED BY <1>1, <1>2, RecLockInvariant, PTL DEF Spec, ImplementsLockTable, Table!Spec
=============================================================================
