----------------------------- MODULE StreamProof -----------------------------
(***************************************************************************)
(* Proofs about Stream for any processes, messages, calls and water marks: *)
(* QueueSound, PriFlag and SleepersWait from one inductive invariant, and, *)
(* while the marks stay the same, NoStalledDriver.                         *)
(*                                                                         *)
(* First come sequences and sums, then the shape of the list of a queue,   *)
(* what each queue procedure of io/stream.c makes of it, what each action  *)
(* does to the messages and to those who have them (Core), and whom it     *)
(* leaves asleep (Waiting).                                                *)
(***************************************************************************)
EXTENDS Stream, SequenceTheorems, FiniteSetTheorems, WellFoundedInduction, TLAPS

-----------------------------------------------------------------------------
(* The inductive invariant.                                                *)

GoodKind == {k \in Kind : k.pri => k.band = 0}
KindT == [Msg -> GoodKind \cup {None}]
FlowT ==
    {f \in [there : BOOLEAN, count : Nat, hi : Nat, lo : Nat, full : BOOLEAN, wantw : BOOLEAN] :
            /\ f.lo \in 1 .. f.hi
            /\ f.wantw \/ f.full => f.there}
HeadT == [pri : BOOLEAN, rsleep : BOOLEAN, hup : BOOLEAN]
UserT == [call : Call \cup {None}, at : Where, asleep : BOOLEAN, mp : Msg \cup {None},
          resid : Nat, rflg : BOOLEAN, hipri : BOOLEAN, pri : {0, 1},
          listed : BOOLEAN, inpoll : BOOLEAN]
QueueT == [list : Seq(Msg), flow : [{0, 1} -> FlowT], first : Msg \cup {None},
           last : Msg \cup {None}, enab : BOOLEAN]
Typed ==
    /\ kind \in KindT /\ head \in HeadT /\ blocked \in {None, 0, 1}
    /\ proc \in [Proc -> UserT] /\ cpu \in Proc \cup {None}
    /\ missed \subseteq Proc

\* The messages of a list are known and different.
Listed(l, kd) ==
    /\ l \in Seq(Msg)
    /\ \A i, j \in 1 .. Len(l) : l[i] = l[j] => i = j
    /\ \A i \in 1 .. Len(l) : kd[l[i]] \in GoodKind

\* First h of high priority, then b of the band, then the others.
RankOf(kd, m) == IF kd[m].pri THEN 2 ELSE kd[m].band
Shape(l, kd, h, b) ==
    /\ h \in Nat /\ b \in Nat /\ h + b <= Len(l)
    /\ \A k \in 1 .. Len(l) : RankOf(kd, l[k]) = IF k <= h THEN 2 ELSE IF k <= h + b THEN 1 ELSE 0
Ptrs(s, h, b) ==
    IF b = 0 THEN s.first = None /\ s.last = None
    ELSE s.first = s.list[h + 1] /\ s.last = s.list[h + b]
Shaped(s, kd) == \E h, b \in 0 .. Len(s.list) : Shape(s.list, kd, h, b) /\ Ptrs(s, h, b)
Counted(s, kd) == \A b \in {0, 1} : s.flow[b].count = Weight(b, kd, s.list)
QOK(s, kd) ==
    /\ s \in QueueT /\ Listed(s.list, kd) /\ Shaped(s, kd) /\ Counted(s, kd)
    /\ s.flow[0].there /\ (~s.flow[1].there => s.flow[1].count = 0)

\* Every message that is in use is on the queue or with one process.
Carries == {"got", "copy", "ggot", "gcopy"}
Owned ==
    /\ \A p \in Proc : proc[p].mp # None <=> proc[p].at \in Carries
    /\ \A p \in Proc : proc[p].mp # None =>
         kind[proc[p].mp] # None /\ proc[p].mp \notin ToSet(q.list)
    /\ \A p, r \in Proc : p # r /\ proc[p].mp # None => proc[p].mp # proc[r].mp
    /\ \A m \in Msg : kind[m] # None => m \in ToSet(q.list) \/ \E p \in Proc : proc[p].mp = m

\* Where each process is in its call.
PlaceOK(r) ==
    /\ r.at # "user" => r.call # None
    /\ r.at \in {"read", "got", "copy"} => r.call.op = "read"
    /\ r.at \in {"getmsg", "ggot", "gcopy", "gout"} => r.call.op = "getmsg"
    /\ r.at \in {"poll", "polladd", "pollsleep"} => r.call.op = "poll"
    /\ r.asleep => r.at \in {"read", "getmsg", "poll"}
    /\ r.listed => r.at \in {"poll", "pollsleep"}
    /\ (r.asleep /\ r.at = "poll") \/ (r.inpoll /\ r.at = "pollsleep") => r.listed
Placed ==
    /\ \A p \in Proc : PlaceOK(proc[p])
    /\ \A p \in Proc : proc[p].at = "copy" => ~kind[proc[p].mp].pri

\* What a getmsg that has taken a message will still wake.
WillWake(r, x) ==
    \/ r.at \in {"gcopy", "gout"} /\ r.hipri
    \/ r.at \in {"gcopy", "gout"} /\ x = "POLLRDNORM" /\ r.pri = 1
    \/ r.at \in {"gcopy", "gout"} /\ x = "POLLRDBAND" /\ r.pri = 0
    \/ r.at = "ggot" /\ x = "POLLRDNORM" /\ kind[r.mp].band = 1
    \/ r.at = "ggot" /\ x = "POLLRDBAND" /\ kind[r.mp].band = 0
\* p polls for what such a getmsg will report.
Excused(p) ==
    /\ proc[p].call.op = "poll" /\ proc[p].call.arg # "POLLPRI" /\ ~head.hup /\ ~head.pri
    /\ \E r \in Proc : WillWake(proc[r], proc[p].call.arg)
Waiting ==
    \A p \in Proc : /\ proc[p].asleep /\ Reads(proc[p]) => head.rsleep
                    /\ Stuck(p) => p \in missed \/ Excused(p)

Core == Typed /\ QOK(q, kind) /\ Owned /\ Placed
IInv == Core /\ PriFlag /\ Waiting

\* The water marks, when they are always the same, and what the driver waits for.
Marked(s, w) ==
    \A b \in {0, 1} : /\ s.flow[b].hi = w[1] /\ s.flow[b].lo = w[2]
                      /\ s.flow[b].full => s.flow[b].count >= w[1]

\* A sum that is zero has no part.
LEMMA SumZero ==
    ASSUME NEW x \in Nat, NEW y \in Nat, x + y = 0
    PROVE  x = 0
OBVIOUS

\* The least of some numbers is one of them.
LEMMA LeastNumber ==
    ASSUME NEW I, I \subseteq Nat, I # {}
    PROVE  Min(I) \in I /\ \A k \in I : Min(I) <= k
<1> DEFINE R == OpToRel(<, Nat)
<1>1. IsWellFoundedOn(R, Nat)
  BY NatLessThanWellFounded
<1>2. PICK j \in I : \A k \in I : ~(<<k, j>> \in R)
  BY <1>1, WFMin
<1>3. \A k \in I : ~(k < j)
  BY <1>2 DEF OpToRel
<1>4. \A k \in I : j <= k
  BY <1>3
<1> QED BY <1>4 DEF Min

\* RemoveAt closes the sequence up over element i.
LEMMA RemoveAtIs ==
    ASSUME NEW S, NEW s \in Seq(S), NEW i \in 1 .. Len(s)
    PROVE  /\ RemoveAt(s, i) \in Seq(S)
           /\ Len(RemoveAt(s, i)) = Len(s) - 1
           /\ \A k \in 1 .. Len(s) - 1 :
                RemoveAt(s, i)[k] = IF k < i THEN s[k] ELSE s[k + 1]
<1> DEFINE t == SubSeq(s, 1, i - 1)
           u == SubSeq(s, i + 1, Len(s))
           r == RemoveAt(s, i)
<1>1. /\ t \in Seq(S) /\ Len(t) = i - 1 /\ \A k \in 1 .. i - 1 : t[k] = s[k]
  BY SubSeqProperties
<1>2. /\ u \in Seq(S) /\ Len(u) = Len(s) - i /\ \A k \in 1 .. Len(s) - i : u[k] = s[i + k]
  BY SubSeqProperties
<1>3. r = t \o u
  BY DEF RemoveAt
<1> HIDE DEF t, u, r
<1>4. /\ r \in Seq(S) /\ Len(r) = Len(t) + Len(u)
      /\ \A k \in 1 .. Len(t) + Len(u) :
           r[k] = IF k <= Len(t) THEN t[k] ELSE u[k - Len(t)]
  BY <1>1, <1>2, <1>3, ConcatProperties
<1>5. ASSUME NEW k \in 1 .. Len(s) - 1
      PROVE  r[k] = IF k < i THEN s[k] ELSE s[k + 1]
  <2>1. Len(t) = i - 1 /\ k \in 1 .. Len(t) + Len(u)
    BY <1>1, <1>2
  <2>2. r[k] = IF k <= i - 1 THEN t[k] ELSE u[k - (i - 1)]
    BY <1>4, <2>1
  <2>3. CASE k < i
    BY <1>1, <2>3, <2>2
  <2>4. CASE k >= i
    <3>1. k - (i - 1) \in 1 .. Len(s) - i
      BY <2>4
    <3>2. u[k - (i - 1)] = s[i + (k - (i - 1))]
      BY <1>2, <3>1
    <3>3. i + (k - (i - 1)) = k + 1
      OBVIOUS
    <3> QED BY <2>4, <2>2, <3>2, <3>3
  <2> QED BY <2>3, <2>4
<1> QED BY <1>1, <1>2, <1>4, <1>5 DEF r

\* InsertAt moves the elements from i on one up.
LEMMA InsertAtIs ==
    ASSUME NEW S, NEW s \in Seq(S), NEW e \in S, NEW i \in 1 .. Len(s) + 1
    PROVE  /\ InsertAt(s, i, e) \in Seq(S)
           /\ Len(InsertAt(s, i, e)) = Len(s) + 1
           /\ \A k \in 1 .. Len(s) + 1 :
                InsertAt(s, i, e)[k] = IF k < i THEN s[k] ELSE IF k = i THEN e ELSE s[k - 1]
<1> DEFINE t == SubSeq(s, 1, i - 1)
           u == SubSeq(s, i, Len(s))
           v == t \o <<e>>
           r == InsertAt(s, i, e)
<1>1. /\ t \in Seq(S) /\ Len(t) = i - 1 /\ \A k \in 1 .. i - 1 : t[k] = s[k]
  BY SubSeqProperties
<1>2. /\ u \in Seq(S) /\ Len(u) = Len(s) - i + 1
      /\ \A k \in 1 .. Len(s) - i + 1 : u[k] = s[i + k - 1]
  BY SubSeqProperties
<1>3. r = v \o u
  BY DEF InsertAt
<1> HIDE DEF t, u, r
<1>4. /\ v \in Seq(S) /\ Len(v) = i
      /\ \A k \in 1 .. i : v[k] = IF k < i THEN s[k] ELSE e
  BY <1>1, ConcatProperties
<1> HIDE DEF v
<1>5. /\ r \in Seq(S) /\ Len(r) = Len(v) + Len(u)
      /\ \A k \in 1 .. Len(v) + Len(u) :
           r[k] = IF k <= Len(v) THEN v[k] ELSE u[k - Len(v)]
  BY <1>2, <1>3, <1>4, ConcatProperties
<1>6. ASSUME NEW k \in 1 .. Len(s) + 1
      PROVE  r[k] = IF k < i THEN s[k] ELSE IF k = i THEN e ELSE s[k - 1]
  <2>1. CASE k <= i
    BY <1>2, <1>4, <1>5, <2>1
  <2>2. CASE k > i
    <3>1. k - i \in 1 .. Len(s) - i + 1
      BY <2>2
    <3>2. u[k - i] = s[i + (k - i) - 1]
      BY <1>2, <3>1
    <3>3. i + (k - i) - 1 = k - 1
      OBVIOUS
    <3> QED BY <1>2, <1>4, <1>5, <2>2, <3>2, <3>3
  <2> QED BY <2>1, <2>2
<1> QED BY <1>2, <1>4, <1>5, <1>6 DEF r

\* f[k] are the sums of the first k.
IsSum(f, sizes, n) ==
    /\ f \in [0 .. n -> Nat] /\ f[0] = 0
    /\ \A k \in 1 .. n : f[k] = f[k - 1] + sizes[k]

\* There are such sums.
LEMMA SumExists ==
    ASSUME NEW sizes \in Seq(Nat)
    PROVE  \E f : IsSum(f, sizes, Len(sizes))
<1> DEFINE n == Len(sizes)
           Bad == {k \in 0 .. n : ~\E f : IsSum(f, sizes, k)}
<1>1. n \in Nat
  OBVIOUS
<1>2. SUFFICES Bad = {}
  <2>1. n \in 0 .. n
    BY <1>1
  <2> QED BY <2>1
<1>3. SUFFICES ASSUME Bad # {} PROVE FALSE
  OBVIOUS
<1>4. PICK k \in Bad : \A j \in Bad : k <= j
  <2>1. Bad \subseteq Nat
    BY <1>1
  <2> HIDE DEF Bad
  <2> QED BY <1>3, <2>1, LeastNumber
<1>5. k \in 0 .. n /\ ~\E f : IsSum(f, sizes, k)
  OBVIOUS
<1>6. CASE k = 0
  <2>1. IsSum([i \in 0 .. 0 |-> 0], sizes, 0)
    BY DEF IsSum
  <2> QED BY <1>5, <1>6, <2>1
<1>7. CASE k > 0
  <2>1. k - 1 \in 0 .. n /\ ~(k <= k - 1)
    BY <1>1, <1>5, <1>7
  <2>2. k - 1 \notin Bad
    BY <1>4, <2>1
  <2>3. PICK f : IsSum(f, sizes, k - 1)
    BY <2>1, <2>2
  <2> DEFINE g == [i \in 0 .. k |-> IF i < k THEN f[i] ELSE f[k - 1] + sizes[k]]
  <2>4. k \in 1 .. n /\ sizes[k] \in Nat
    BY <1>1, <1>5, <1>7
  <2>5. f \in [0 .. k - 1 -> Nat] /\ f[0] = 0
        /\ \A i \in 1 .. k - 1 : f[i] = f[i - 1] + sizes[i]
    BY <2>3 DEF IsSum
  <2>6. f[k - 1] \in Nat
    BY <2>4, <2>5
  <2>7. g \in [0 .. k -> Nat] /\ g[0] = 0
    BY <2>4, <2>5, <2>6
  <2>8. ASSUME NEW i \in 1 .. k
        PROVE  g[i] = g[i - 1] + sizes[i]
    <3>1. i \in 0 .. k /\ i - 1 \in 0 .. k /\ i - 1 < k
      BY <2>4
    <3>2. g[i - 1] = f[i - 1]
      BY <3>1
    <3>3. CASE i < k
      <4>1. i \in 1 .. k - 1
        BY <2>4, <3>3
      <4> QED BY <2>5, <3>1, <3>2, <3>3, <4>1
    <3>4. CASE i = k
      BY <3>1, <3>2, <3>4, <2>4
    <3> QED BY <2>4, <3>3, <3>4
  <2>9. IsSum(g, sizes, k)
    <3> HIDE DEF g
    <3> QED BY <2>7, <2>8 DEF IsSum
  <2> QED BY <1>5, <2>9
<1> QED BY <1>1, <1>5, <1>6, <1>7

\* Total is the last of the sums.
LEMMA TotalIs ==
    ASSUME NEW sizes \in Seq(Nat), NEW f, IsSum(f, sizes, Len(sizes))
    PROVE  Total(sizes) = f[Len(sizes)]
<1> DEFINE n == Len(sizes)
           Fun(g) == g = [k \in 0 .. n |-> IF k = 0 THEN 0 ELSE g[k - 1] + sizes[k]]
           h == CHOOSE g : Fun(g)
<1>1. n \in Nat
  OBVIOUS
<1>2. Fun(f)
  <2>1. f \in [0 .. n -> Nat] /\ f[0] = 0
    BY DEF IsSum
  <2>2. ASSUME NEW k \in 0 .. n
        PROVE  f[k] = IF k = 0 THEN 0 ELSE f[k - 1] + sizes[k]
    <3>1. CASE k = 0
      BY <2>1, <3>1
    <3>2. CASE k # 0
      <4>1. k \in 1 .. n
        BY <1>1, <3>2
      <4> QED BY <3>2, <4>1 DEF IsSum
    <3> QED BY <3>1, <3>2
  <2> QED BY <2>1, <2>2
<1>3. Fun(h)
  <2> HIDE DEF Fun
  <2> QED BY <1>2
<1>4. Total(sizes) = h[n]
  BY DEF Total
<1> HIDE DEF h
<1> DEFINE Bad == {k \in 0 .. n : h[k] # f[k]}
<1>5. ASSUME Bad # {} PROVE FALSE
  <2>1. PICK k \in Bad : \A j \in Bad : k <= j
    <3>1. Bad \subseteq Nat
      BY <1>1
    <3> HIDE DEF Bad
    <3> QED BY <1>5, <3>1, LeastNumber
  <2>2. k \in 0 .. n /\ h[k] # f[k]
    OBVIOUS
  <2>3. h[k] = IF k = 0 THEN 0 ELSE h[k - 1] + sizes[k]
    BY <1>3, <2>2
  <2>4. k # 0
    BY <2>2, <2>3 DEF IsSum
  <2>5. k \in 1 .. n /\ k - 1 \in 0 .. n /\ ~(k <= k - 1)
    BY <1>1, <2>2, <2>4
  <2>6. h[k - 1] = f[k - 1]
    BY <2>1, <2>5
  <2>7. f[k] = f[k - 1] + sizes[k]
    BY <2>5 DEF IsSum
  <2> QED BY <2>2, <2>3, <2>4, <2>6, <2>7
<1>6. n \in 0 .. n
  BY <1>1
<1> QED BY <1>4, <1>5, <1>6

\* Total, of one less.
LEMMA TotalLess ==
    ASSUME NEW sizes \in Seq(Nat), NEW i \in 1 .. Len(sizes), NEW less \in Seq(Nat),
           Len(less) = Len(sizes) - 1,
           \A k \in 1 .. Len(sizes) - 1 : less[k] = IF k < i THEN sizes[k] ELSE sizes[k + 1]
    PROVE  Total(less) + sizes[i] = Total(sizes)
<1> DEFINE n == Len(sizes)
<1>1. n \in Nat /\ i \in 1 .. n /\ sizes[i] \in Nat
  OBVIOUS
<1>2. \A k \in 1 .. n : sizes[k] \in Nat
  OBVIOUS
<1> PICK e \in Nat : e = sizes[i]
  BY <1>1
<1>3. PICK f : IsSum(f, sizes, n)
  BY SumExists
<1>4. Total(sizes) = f[n]
  BY <1>3, TotalIs
<1>5. f \in [0 .. n -> Nat] /\ f[0] = 0 /\ \A k \in 1 .. n : f[k] = f[k - 1] + sizes[k]
  BY <1>3 DEF IsSum
<1>6. \A k \in i .. n : f[k] >= e
  <2> DEFINE Bad == {k \in i .. n : ~(f[k] >= e)}
  <2>1. ASSUME Bad # {} PROVE FALSE
    <3>1. PICK k \in Bad : \A j \in Bad : k <= j
      <4>1. Bad \subseteq Nat
        BY <1>1
      <4> HIDE DEF Bad
      <4> QED BY <2>1, <4>1, LeastNumber
    <3>2. k \in i .. n /\ k \in 1 .. n /\ ~(f[k] >= e)
      BY <1>1
    <3>3. f[k] = f[k - 1] + sizes[k] /\ sizes[k] \in Nat /\ f[k - 1] \in Nat
      <4>1. k - 1 \in 0 .. n
        BY <1>1, <3>2
      <4> QED BY <1>2, <1>5, <3>2, <4>1
    <3>4. k # i
      BY <1>1, <3>2, <3>3
    <3>5. k - 1 \in i .. n /\ ~(k <= k - 1)
      BY <1>1, <3>2, <3>4
    <3>6. f[k - 1] >= e
      BY <3>1, <3>5
    <3> QED BY <1>1, <3>2, <3>3, <3>6
  <2> QED BY <2>1
<1> DEFINE g == [k \in 0 .. n - 1 |-> IF k < i THEN f[k] ELSE f[k + 1] - e]
<1>7. ASSUME NEW k \in 0 .. n - 1
      PROVE  g[k] \in Nat /\ g[k] = IF k < i THEN f[k] ELSE f[k + 1] - e
  <2>1. CASE k < i
    <3>1. k \in 0 .. n
      BY <1>1
    <3> QED BY <1>5, <2>1, <3>1
  <2>2. CASE ~(k < i)
    <3>1. k + 1 \in i .. n /\ k + 1 \in 0 .. n
      BY <1>1, <2>2
    <3>2. f[k + 1] \in Nat /\ f[k + 1] >= e
      BY <1>5, <1>6, <3>1
    <3> QED BY <1>1, <2>2, <3>2
  <2> QED BY <2>1, <2>2
<1>8. g \in [0 .. n - 1 -> Nat] /\ g[0] = 0
  <2>1. 0 \in 0 .. n - 1 /\ 0 < i
    BY <1>1
  <2> QED BY <1>5, <1>7, <2>1
<1>9. ASSUME NEW k \in 1 .. n - 1
      PROVE  g[k] = g[k - 1] + less[k]
  <2>1. /\ k \in 0 .. n - 1 /\ k - 1 \in 0 .. n - 1 /\ k \in 1 .. n /\ k + 1 \in 1 .. n
        /\ k \in 0 .. n /\ (k + 1) - 1 = k /\ (k - 1) + 1 = k
    BY <1>1
  <2>2. f[k] = f[k - 1] + sizes[k] /\ f[k + 1] = f[k] + sizes[k + 1]
    BY <1>5, <2>1
  <2>3. /\ f[k] \in Nat /\ sizes[k] \in Nat /\ sizes[k + 1] \in Nat
    BY <1>2, <1>5, <2>1
  <2>4. less[k] = IF k < i THEN sizes[k] ELSE sizes[k + 1]
    OBVIOUS
  <2>5. g[k] = (IF k < i THEN f[k] ELSE f[k + 1] - e)
        /\ g[k - 1] = (IF k - 1 < i THEN f[k - 1] ELSE f[k] - e)
    BY <1>7, <2>1
  <2> HIDE DEF g
  <2>6. CASE k < i
    BY <1>1, <2>2, <2>4, <2>5, <2>6
  <2>7. CASE k = i
    <3>1. g[k] = f[k + 1] - e /\ g[k - 1] = f[k - 1] /\ less[k] = sizes[k + 1]
      BY <1>1, <2>4, <2>5, <2>7
    <3>2. f[k - 1] \in Nat
      <4>1. k - 1 \in 0 .. n
        BY <1>1, <2>1
      <4> QED BY <1>5, <4>1
    <3>3. PICK a \in Nat : a = f[k - 1]
      BY <3>2
    <3>4. PICK d \in Nat : d = sizes[k + 1]
      BY <2>3
    <3>5. f[k] = a + e
      BY <2>2, <2>7, <3>3
    <3>6. f[k + 1] = a + e + d
      BY <2>2, <3>4, <3>5
    <3>7. g[k] = a + d
      BY <3>1, <3>6, SMTT(60)
    <3> QED BY <3>1, <3>3, <3>4, <3>7
  <2>8. CASE k > i
    <3>1. g[k] = f[k + 1] - e /\ g[k - 1] = f[k] - e /\ less[k] = sizes[k + 1]
      BY <1>1, <2>4, <2>5, <2>8
    <3>2. \A a, b, d \in Int : (a + d) - b = (a - b) + d
      OBVIOUS
    <3>3. (f[k] + sizes[k + 1]) - e = (f[k] - e) + sizes[k + 1]
      BY <1>1, <2>3, <3>2, SMTT(60)
    <3> QED BY <2>2, <3>1, <3>3
  <2> QED BY <1>1, <2>6, <2>7, <2>8
<1>10. IsSum(g, less, n - 1)
  <2> HIDE DEF g
  <2> QED BY <1>8, <1>9 DEF IsSum
<1>11. Total(less) = g[n - 1]
  <2> HIDE DEF g
  <2> QED BY <1>10, TotalIs
<1>12. n - 1 \in 0 .. n - 1 /\ n - 1 \in Nat
  BY <1>1
<1>13. CASE n - 1 < i
  <2>1. n = i
    BY <1>1, <1>13
  <2>2. f[n] = f[n - 1] + sizes[n] /\ f[n - 1] \in Nat
    <3>1. n \in 1 .. n /\ n - 1 \in 0 .. n
      BY <1>1
    <3> QED BY <1>5, <3>1
  <2>3. g[n - 1] = f[n - 1]
    BY <1>7, <1>12, <1>13
  <2> QED BY <1>4, <1>11, <2>1, <2>2, <2>3
<1>14. CASE ~(n - 1 < i)
  <2>1. (n - 1) + 1 = n /\ n \in 0 .. n
    BY <1>1
  <2>2. f[n] \in Nat
    BY <1>5, <2>1
  <2>3. g[n - 1] = f[n] - e
    BY <1>7, <1>12, <1>14, <2>1
  <2> QED BY <1>1, <1>4, <1>11, <2>2, <2>3
<1> QED BY <1>13, <1>14

\* What Listed and Shape say of one message.
LEMMA ListIs ==
    ASSUME NEW l, NEW kd, Listed(l, kd)
    PROVE  /\ l \in Seq(Msg) /\ Len(l) \in Nat
           /\ \A i \in 1 .. Len(l) : l[i] \in Msg /\ kd[l[i]] \in GoodKind
           /\ ToSet(l) = {l[i] : i \in 1 .. Len(l)}
BY DEF Listed, ToSet

\* The ranks of the kinds.
LEMMA RankIs ==
    ASSUME NEW kd, NEW m, kd[m] \in GoodKind
    PROVE  /\ RankOf(kd, m) \in {0, 1, 2} /\ kd[m].band \in {0, 1} /\ kd[m].pri \in BOOLEAN
           /\ kd[m].size \in Nat \ {0}
           /\ RankOf(kd, m) = 2 <=> kd[m].pri
           /\ RankOf(kd, m) = 1 <=> kd[m].band = 1
           /\ RankOf(kd, m) = 0 <=> ~kd[m].pri /\ kd[m].band = 0
BY DEF RankOf, GoodKind, Kind

\* Skip stops at the first place whose message is not of the set.
LEMMA SkipIs ==
    ASSUME NEW l \in Seq(Msg), NEW i \in 1 .. Len(l) + 1, NEW S, NEW e \in i .. Len(l) + 1,
           \A k \in i .. e - 1 : l[k] \in S, e = Len(l) + 1 \/ l[e] \notin S
    PROVE  Skip(l, i, S) = e
<1> DEFINE J == {j \in i .. Len(l) + 1 : j = Len(l) + 1 \/ l[j] \notin S}
<1>1. Len(l) \in Nat
  OBVIOUS
<1>2. J \subseteq Nat /\ e \in J
  BY <1>1
<1>3. Skip(l, i, S) = Min(J)
  BY DEF Skip
<1>4. \A j \in J : ~(j < e)
  <2> SUFFICES ASSUME NEW j \in J, j < e PROVE FALSE
    OBVIOUS
  <2>1. j \in i .. e - 1
    BY <1>1
  <2>2. l[j] \in S /\ j # Len(l) + 1
    BY <1>1, <2>1
  <2> QED BY <2>2
<1> HIDE DEF J
<1>5. Min(J) \in J /\ Min(J) <= e
  BY <1>2, LeastNumber
<1>6. ~(Min(J) < e) /\ Min(J) \in Nat
  BY <1>2, <1>4, <1>5
<1> QED BY <1>3, <1>5, <1>6

\* The index of a message that is once in a list.
LEMMA IndexIs ==
    ASSUME NEW l, NEW kd, Listed(l, kd), NEW i \in 1 .. Len(l), NEW m, m = l[i]
    PROVE  {j \in 1 .. Len(l) : l[j] = m} = {i} /\ Min({i}) = i
<1>1. {j \in 1 .. Len(l) : l[j] = m} = {i}
  BY DEF Listed
<1>2. i \in Nat
  OBVIOUS
<1>3. Min({i}) = i
  BY <1>2, LeastNumber
<1> QED BY <1>1, <1>3

\* A message of one of the three kinds of place, put in among its equals.
Fits(l, h, b, j, rank) ==
    \/ rank = 2 /\ j \in 1 .. h + 1
    \/ rank = 1 /\ j \in h + 1 .. h + b + 1
    \/ rank = 0 /\ j \in h + b + 1 .. Len(l) + 1
\* The list keeps its shape.
LEMMA InsertShape ==
    ASSUME NEW l, NEW kd, Listed(l, kd), NEW h, NEW b, Shape(l, kd, h, b),
           NEW m \in Msg, m \notin ToSet(l), kd[m] \in GoodKind,
           NEW j, NEW rank, rank = RankOf(kd, m), Fits(l, h, b, j, rank),
           NEW r, r = InsertAt(l, j, m)
    PROVE  /\ j \in 1 .. Len(l) + 1 /\ Len(r) = Len(l) + 1
           /\ \A k \in 1 .. Len(l) + 1 :
                r[k] = IF k < j THEN l[k] ELSE IF k = j THEN m ELSE l[k - 1]
           /\ Listed(r, kd)
           /\ Shape(r, kd, IF rank = 2 THEN h + 1 ELSE h, IF rank = 1 THEN b + 1 ELSE b)
           /\ ToSet(r) = ToSet(l) \cup {m}
<1>1. /\ l \in Seq(Msg) /\ Len(l) \in Nat
      /\ \A i \in 1 .. Len(l) : l[i] \in Msg /\ kd[l[i]] \in GoodKind
      /\ ToSet(l) = {l[i] : i \in 1 .. Len(l)}
  BY ListIs
<1>2. h \in Nat /\ b \in Nat /\ h + b <= Len(l)
  BY DEF Shape
<1>3. j \in 1 .. Len(l) + 1
  BY <1>1, <1>2 DEF Fits
<1>4. /\ r \in Seq(Msg) /\ Len(r) = Len(l) + 1
      /\ \A k \in 1 .. Len(l) + 1 : r[k] = IF k < j THEN l[k] ELSE IF k = j THEN m ELSE l[k - 1]
  <2>1. l \in Seq(Msg) /\ m \in Msg /\ j \in 1 .. Len(l) + 1
    BY <1>1, <1>3
  <2>2. /\ InsertAt(l, j, m) \in Seq(Msg) /\ Len(InsertAt(l, j, m)) = Len(l) + 1
        /\ \A k \in 1 .. Len(l) + 1 :
             InsertAt(l, j, m)[k] = IF k < j THEN l[k] ELSE IF k = j THEN m ELSE l[k - 1]
    BY ONLY <2>1, InsertAtIs
  <2> QED BY <2>2
<1>5. ASSUME NEW k \in 1 .. Len(r)
      PROVE  /\ k < j => k \in 1 .. Len(l) /\ r[k] = l[k]
             /\ k = j => r[k] = m
             /\ k > j => k - 1 \in 1 .. Len(l) /\ r[k] = l[k - 1]
             /\ k \in Nat /\ j \in Nat
  <2>1. k \in 1 .. Len(l) + 1 /\ k \in Nat /\ j \in Nat
    BY <1>1, <1>3, <1>4
  <2>2. k < j => k \in 1 .. Len(l)
    BY <1>1, <1>3, <2>1
  <2>3. k > j => k - 1 \in 1 .. Len(l)
    BY <1>1, <1>3, <2>1
  <2> QED BY <1>4, <2>1, <2>2, <2>3
<1>6. \A i, k \in 1 .. Len(r) : r[i] = r[k] => i = k
  <2> SUFFICES ASSUME NEW i \in 1 .. Len(r), NEW k \in 1 .. Len(r), r[i] = r[k] PROVE i = k
    OBVIOUS
  <2>1. \A a \in 1 .. Len(l) : l[a] # m
    BY <1>1
  <2>2. \A a, c \in 1 .. Len(l) : l[a] = l[c] => a = c
    BY DEF Listed
  <2>3. i \in Nat /\ k \in Nat /\ j \in Nat
    BY <1>5
  <2>4. CASE i < j
    <3>1. i \in 1 .. Len(l) /\ r[i] = l[i]
      BY <1>5, <2>4
    <3>2. CASE k < j
      <4>1. k \in 1 .. Len(l) /\ r[k] = l[k]
        BY <1>5, <3>2
      <4> QED BY <2>2, <3>1, <4>1
    <3>3. CASE k = j
      BY <1>5, <2>1, <3>1, <3>3
    <3>4. CASE k > j
      <4>1. k - 1 \in 1 .. Len(l) /\ l[i] = l[k - 1]
        BY <1>5, <3>1, <3>4
      <4>2. i = k - 1
        BY <2>2, <3>1, <4>1
      <4> QED BY <2>3, <2>4, <3>4, <4>2
    <3> QED BY <2>3, <3>2, <3>3, <3>4
  <2>5. CASE i = j
    <3>1. ~(k < j) /\ ~(k > j)
      BY <1>5, <2>1, <2>5
    <3> QED BY <2>3, <2>5, <3>1
  <2>6. CASE i > j
    <3>1. i - 1 \in 1 .. Len(l) /\ r[i] = l[i - 1]
      BY <1>5, <2>6
    <3>2. CASE k < j
      <4>1. k \in 1 .. Len(l) /\ l[k] = l[i - 1]
        BY <1>5, <3>1, <3>2
      <4>2. k = i - 1
        BY <2>2, <3>1, <4>1
      <4> QED BY <2>3, <2>6, <3>2, <4>2
    <3>3. CASE k = j
      BY <1>5, <2>1, <3>1, <3>3
    <3>4. CASE k > j
      <4>1. i - 1 = k - 1
        <5>1. k - 1 \in 1 .. Len(l) /\ l[i - 1] = l[k - 1]
          BY <1>5, <3>1, <3>4
        <5> QED BY <2>2, <3>1, <5>1
      <4> QED BY <2>3, <4>1
    <3> QED BY <2>3, <3>2, <3>3, <3>4
  <2> QED BY <2>3, <2>4, <2>5, <2>6
<1>7. \A k \in 1 .. Len(r) : kd[r[k]] \in GoodKind
  <2> SUFFICES ASSUME NEW k \in 1 .. Len(r) PROVE kd[r[k]] \in GoodKind
    OBVIOUS
  <2>1. k < j \/ k = j \/ k > j
    BY <1>5
  <2>2. CASE k < j
    <3>1. k \in 1 .. Len(l) /\ r[k] = l[k]
      BY <1>5, <2>2
    <3> QED BY ONLY <1>1, <3>1
  <2>3. CASE k = j
    BY <1>5, <2>3
  <2>4. CASE k > j
    <3>1. k - 1 \in 1 .. Len(l) /\ r[k] = l[k - 1]
      BY <1>5, <2>4
    <3> QED BY ONLY <1>1, <3>1
  <2> QED BY ONLY <2>1, <2>2, <2>3, <2>4
<1>8. Listed(r, kd)
  BY <1>4, <1>6, <1>7 DEF Listed
<1>9. Shape(r, kd, IF rank = 2 THEN h + 1 ELSE h, IF rank = 1 THEN b + 1 ELSE b)
  <2>1. PICK g \in Nat, c \in Nat : /\ g = (IF rank = 2 THEN h + 1 ELSE h)
                                    /\ c = (IF rank = 1 THEN b + 1 ELSE b)
    BY <1>2
  <2>2. g + c <= Len(r)
    BY <1>1, <1>2, <1>4, <2>1 DEF Fits
  <2>3. \A k \in 1 .. Len(l) : RankOf(kd, l[k]) = IF k <= h THEN 2 ELSE IF k <= h + b THEN 1 ELSE 0
    BY DEF Shape
  <2>4. ASSUME NEW k \in 1 .. Len(r)
        PROVE  RankOf(kd, r[k]) = IF k <= g THEN 2 ELSE IF k <= g + c THEN 1 ELSE 0
    <3>1. k \in Nat /\ j \in Nat
      BY <1>3, <1>4
    <3>2. CASE k < j
      BY <1>2, <1>5, <2>1, <2>3, <3>1, <3>2 DEF Fits
    <3>3. CASE k = j
      BY <1>2, <1>5, <2>1, <3>1, <3>3 DEF Fits
    <3>4. CASE k > j
      <4>1. PICK i \in 1 .. Len(l) : i = k - 1 /\ r[k] = l[i]
        BY <1>5, <3>1, <3>4
      <4>2. k = i + 1 /\ i \in Nat /\ i >= j
        BY <1>1, <3>1, <3>4, <4>1
      <4>3. RankOf(kd, l[i]) = IF i <= h THEN 2 ELSE IF i <= h + b THEN 1 ELSE 0
        BY <2>3
      <4> QED BY <1>2, <2>1, <3>1, <4>1, <4>2, <4>3 DEF Fits
    <3> QED BY <3>1, <3>2, <3>3, <3>4
  <2> QED BY <2>1, <2>2, <2>4 DEF Shape
<1>10. ToSet(r) = ToSet(l) \cup {m}
  <2>1. ToSet(r) = {r[k] : k \in 1 .. Len(r)}
    BY <1>8, ListIs
  <2>2. ASSUME NEW i \in 1 .. Len(l) PROVE \E k \in 1 .. Len(r) : r[k] = l[i]
    <3>1. CASE i < j
      BY <1>1, <1>3, <1>4, <3>1
    <3>2. CASE ~(i < j)
      <4>1. /\ i + 1 \in 1 .. Len(r) /\ i + 1 \in 1 .. Len(l) + 1
            /\ ~(i + 1 < j) /\ i + 1 # j /\ (i + 1) - 1 = i
        BY <1>1, <1>3, <1>4, <3>2
      <4>2. r[i + 1] = l[(i + 1) - 1]
        BY <1>4, <4>1
      <4> QED BY <4>1, <4>2
    <3> QED BY <3>1, <3>2
  <2>3. \E k \in 1 .. Len(r) : r[k] = m
    BY <1>3, <1>4
  <2>4. \A k \in 1 .. Len(r) : r[k] = m \/ \E i \in 1 .. Len(l) : r[k] = l[i]
    <3> SUFFICES ASSUME NEW k \in 1 .. Len(r) PROVE r[k] = m \/ \E i \in 1 .. Len(l) : r[k] = l[i]
      OBVIOUS
    <3>1. k < j \/ k = j \/ k > j
      BY <1>5
    <3> QED BY <1>5, <3>1
  <2>5. \A x : x \in ToSet(r) <=> \E k \in 1 .. Len(r) : x = r[k]
    BY <2>1
  <2>6. \A x : x \in ToSet(l) <=> \E i \in 1 .. Len(l) : x = l[i]
    BY <1>1
  <2> HIDE <2>1
  <2>7. ASSUME NEW x \in ToSet(r) PROVE x \in ToSet(l) \cup {m}
    BY <2>4, <2>5, <2>6
  <2>8. ASSUME NEW x \in ToSet(l) \cup {m} PROVE x \in ToSet(r)
    BY <2>2, <2>3, <2>5, <2>6
  <2> QED BY <2>7, <2>8
<1> QED BY <1>3, <1>4, <1>8, <1>9, <1>10

\* The list without its message i.
Closed(l, i, r) ==
    /\ r \in Seq(Msg) /\ Len(r) = Len(l) - 1
    /\ \A k \in 1 .. Len(l) - 1 : r[k] = IF k < i THEN l[k] ELSE l[k + 1]
\* It keeps its shape.
LEMMA RemoveShape ==
    ASSUME NEW l, NEW kd, Listed(l, kd), NEW h, NEW b, Shape(l, kd, h, b),
           NEW i \in 1 .. Len(l), NEW r, Closed(l, i, r)
    PROVE  /\ Listed(r, kd)
           /\ Shape(r, kd, IF i <= h THEN h - 1 ELSE h, IF h < i /\ i <= h + b THEN b - 1 ELSE b)
           /\ ToSet(r) = ToSet(l) \ {l[i]}
<1>1. /\ l \in Seq(Msg) /\ Len(l) \in Nat
      /\ \A k \in 1 .. Len(l) : l[k] \in Msg /\ kd[l[k]] \in GoodKind
      /\ ToSet(l) = {l[k] : k \in 1 .. Len(l)}
  BY ListIs
<1>2. h \in Nat /\ b \in Nat /\ h + b <= Len(l) /\ i \in Nat
  BY DEF Shape
<1>3. r \in Seq(Msg) /\ Len(r) = Len(l) - 1 /\ Len(r) \in Nat
  BY DEF Closed
<1>4. ASSUME NEW k \in 1 .. Len(r)
      PROVE  /\ k \in Nat /\ k \in 1 .. Len(l) /\ k + 1 \in 1 .. Len(l)
             /\ k < i => r[k] = l[k]
             /\ ~(k < i) => r[k] = l[k + 1]
  <2>1. k \in 1 .. Len(l) - 1
    BY <1>3
  <2> QED BY <1>1, <2>1 DEF Closed
<1>5. \A j, k \in 1 .. Len(r) : r[j] = r[k] => j = k
  <2> SUFFICES ASSUME NEW j \in 1 .. Len(r), NEW k \in 1 .. Len(r), r[j] = r[k] PROVE j = k
    OBVIOUS
  <2>1. \A a, c \in 1 .. Len(l) : l[a] = l[c] => a = c
    BY DEF Listed
  <2>2. j \in Nat /\ k \in Nat
    BY <1>4
  <2>3. CASE j < i /\ k < i
    BY <1>4, <2>1, <2>3
  <2>4. CASE j < i /\ ~(k < i)
    <3>1. j = k + 1
      BY <1>4, <2>1, <2>4
    <3> QED BY <1>2, <2>2, <2>4, <3>1
  <2>5. CASE ~(j < i) /\ k < i
    <3>1. j + 1 = k
      BY <1>4, <2>1, <2>5
    <3> QED BY <1>2, <2>2, <2>5, <3>1
  <2>6. CASE ~(j < i) /\ ~(k < i)
    <3>1. j + 1 = k + 1
      BY <1>4, <2>1, <2>6
    <3> QED BY <2>2, <3>1
  <2> QED BY <2>3, <2>4, <2>5, <2>6
<1>6. \A k \in 1 .. Len(r) : kd[r[k]] \in GoodKind
  BY <1>1, <1>4
<1>7. Listed(r, kd)
  BY <1>3, <1>5, <1>6 DEF Listed
<1>8. Shape(r, kd, IF i <= h THEN h - 1 ELSE h, IF h < i /\ i <= h + b THEN b - 1 ELSE b)
  <2>1. PICK g \in Nat, c \in Nat : /\ g = (IF i <= h THEN h - 1 ELSE h)
                                    /\ c = (IF h < i /\ i <= h + b THEN b - 1 ELSE b)
    BY <1>2
  <2>2. g + c <= Len(r)
    BY <1>1, <1>2, <1>3, <2>1
  <2>3. \A k \in 1 .. Len(l) : RankOf(kd, l[k]) = IF k <= h THEN 2 ELSE IF k <= h + b THEN 1 ELSE 0
    BY DEF Shape
  <2>4. ASSUME NEW k \in 1 .. Len(r)
        PROVE  RankOf(kd, r[k]) = IF k <= g THEN 2 ELSE IF k <= g + c THEN 1 ELSE 0
    <3>1. k \in Nat
      BY <1>4
    <3>2. CASE k < i
      <4>1. RankOf(kd, r[k]) = IF k <= h THEN 2 ELSE IF k <= h + b THEN 1 ELSE 0
        BY <1>4, <2>3, <3>2
      <4> QED BY <1>2, <2>1, <3>1, <3>2, <4>1
    <3>3. CASE ~(k < i)
      <4>1. PICK j \in 1 .. Len(l) : j = k + 1 /\ r[k] = l[j]
        BY <1>4, <3>3
      <4>2. RankOf(kd, r[k]) = IF j <= h THEN 2 ELSE IF j <= h + b THEN 1 ELSE 0
        BY <2>3, <4>1
      <4> QED BY <1>2, <2>1, <3>1, <3>3, <4>1, <4>2
    <3> QED BY <3>2, <3>3
  <2> QED BY <2>1, <2>2, <2>4 DEF Shape
<1>9. ToSet(r) = ToSet(l) \ {l[i]}
  <2>1. \A x : x \in ToSet(r) <=> \E k \in 1 .. Len(r) : x = r[k]
    BY <1>7, ListIs
  <2>2. \A x : x \in ToSet(l) <=> \E k \in 1 .. Len(l) : x = l[k]
    BY <1>1
  <2>3. \A a, c \in 1 .. Len(l) : l[a] = l[c] => a = c
    BY DEF Listed
  <2>4. ASSUME NEW k \in 1 .. Len(r) PROVE r[k] \in ToSet(l) /\ r[k] # l[i]
    <3>1. CASE k < i
      BY <1>2, <1>4, <2>2, <2>3, <3>1
    <3>2. CASE ~(k < i)
      <4>1. k + 1 # i /\ k + 1 \in 1 .. Len(l) /\ r[k] = l[k + 1]
        BY <1>2, <1>4, <3>2
      <4> QED BY <2>2, <2>3, <4>1
    <3> QED BY <3>1, <3>2
  <2>5. ASSUME NEW k \in 1 .. Len(l), k # i PROVE \E c \in 1 .. Len(r) : r[c] = l[k]
    <3>1. k \in Nat
      OBVIOUS
    <3>2. CASE k < i
      <4>1. k \in 1 .. Len(r)
        BY <1>1, <1>2, <1>3, <3>1, <3>2
      <4> QED BY <1>4, <3>2, <4>1
    <3>3. CASE k > i
      <4>1. k - 1 \in 1 .. Len(r) /\ ~(k - 1 < i) /\ (k - 1) + 1 = k
        BY <1>1, <1>2, <1>3, <3>1, <3>3
      <4>2. r[k - 1] = l[(k - 1) + 1]
        BY <1>4, <4>1
      <4> QED BY <4>1, <4>2
    <3> QED BY <1>2, <2>5, <3>1, <3>2, <3>3
  <2> QED BY <2>1, <2>2, <2>4, <2>5
<1> QED BY <1>7, <1>8, <1>9

\* The class of the last message.
LEMMA LastIs ==
    ASSUME NEW l, NEW kd, Listed(l, kd), NEW h, NEW b, Shape(l, kd, h, b), l # <<>>
    PROVE  /\ Len(l) \in Nat \ {0} /\ kd[Last(l)] \in GoodKind
           /\ kd[Last(l)].pri <=> h = Len(l)
           /\ kd[Last(l)].band = 1 <=> h < Len(l) /\ h + b = Len(l)
           /\ kd[Last(l)].band \in {0, 1}
<1> DEFINE n == Len(l)
           z == kd[Last(l)]
<1>1. n \in Nat /\ l \in Seq(Msg) /\ h \in Nat /\ b \in Nat /\ h + b <= n
  BY ListIs DEF Shape
<1>2. n # 0
  BY <1>1
<1>3. n \in 1 .. n /\ Last(l) = l[n]
  BY <1>1, <1>2 DEF Last
<1>4. z \in GoodKind /\ RankOf(kd, l[n]) = IF n <= h THEN 2 ELSE IF n <= h + b THEN 1 ELSE 0
  BY <1>3, ListIs DEF Shape
<1>5. /\ z.pri <=> n <= h
      /\ z.band = 1 <=> ~(n <= h) /\ n <= h + b
      /\ z.band \in {0, 1}
  BY <1>3, <1>4, RankIs
<1> QED BY <1>1, <1>2, <1>4, <1>5

\* Where the high priority messages end, and where the lesser ones begin.
LEMMA SkipShape ==
    ASSUME NEW l, NEW kd, Listed(l, kd), NEW h, NEW b, Shape(l, kd, h, b)
    PROVE  /\ Skip(l, 1, {x \in ToSet(l) : kd[x].pri}) = h + 1
           /\ Skip(l, h + 1, {x \in ToSet(l) : kd[x].band >= 1}) = b + (h + 1)
           /\ Skip(l, h + 1, {x \in ToSet(l) : kd[x].band > 1}) = h + 1
           /\ Skip(l, h + 1, {x \in ToSet(l) : kd[x].band > 0}) = b + (h + 1)
<1>1. /\ l \in Seq(Msg) /\ Len(l) \in Nat /\ h \in Nat /\ b \in Nat /\ h + b <= Len(l)
      /\ \A k \in 1 .. Len(l) : l[k] \in ToSet(l) /\ kd[l[k]] \in GoodKind
  BY ListIs DEF Shape
<1>2. \A k \in 1 .. Len(l) : /\ kd[l[k]].pri <=> k <= h
                             /\ kd[l[k]].band = 1 <=> h < k /\ k <= h + b
                             /\ kd[l[k]].band \in {0, 1}
  <2> SUFFICES ASSUME NEW k \in 1 .. Len(l)
               PROVE  /\ kd[l[k]].pri <=> k <= h
                      /\ kd[l[k]].band = 1 <=> h < k /\ k <= h + b
                      /\ kd[l[k]].band \in {0, 1}
    OBVIOUS
  <2>1. RankOf(kd, l[k]) = IF k <= h THEN 2 ELSE IF k <= h + b THEN 1 ELSE 0
    BY DEF Shape
  <2>2. /\ RankOf(kd, l[k]) = 2 <=> kd[l[k]].pri
        /\ RankOf(kd, l[k]) = 1 <=> kd[l[k]].band = 1
        /\ kd[l[k]].band \in {0, 1}
    BY <1>1, RankIs
  <2> QED BY <1>1, <2>1, <2>2
<1>3. Skip(l, 1, {x \in ToSet(l) : kd[x].pri}) = h + 1
  <2> DEFINE S == {x \in ToSet(l) : kd[x].pri}
  <2>1. 1 \in 1 .. Len(l) + 1 /\ h + 1 \in 1 .. Len(l) + 1
    BY <1>1
  <2>2. \A k \in 1 .. (h + 1) - 1 : l[k] \in S
    BY <1>1, <1>2
  <2>3. h + 1 = Len(l) + 1 \/ l[h + 1] \notin S
    BY <1>1, <1>2
  <2> HIDE DEF S
  <2>4. Skip(l, 1, S) = h + 1
    BY <1>1, <2>1, <2>2, <2>3, SkipIs
  <2> QED BY <2>4 DEF S
<1>4. ASSUME NEW S, \A x : x \in S <=> x \in ToSet(l) /\ kd[x].band = 1
      PROVE  Skip(l, h + 1, S) = b + (h + 1)
  <2>1. h + 1 \in 1 .. Len(l) + 1 /\ b + (h + 1) \in h + 1 .. Len(l) + 1
    BY <1>1
  <2>2. \A k \in h + 1 .. (b + (h + 1)) - 1 : l[k] \in S
    <3> SUFFICES ASSUME NEW k \in h + 1 .. (b + (h + 1)) - 1 PROVE l[k] \in S
      OBVIOUS
    <3>1. k \in 1 .. Len(l) /\ h < k /\ k <= h + b
      BY <1>1
    <3>2. l[k] \in ToSet(l) /\ kd[l[k]].band = 1
      BY <1>1, <1>2, <3>1
    <3> QED BY <1>4, <3>2
  <2>3. b + (h + 1) = Len(l) + 1 \/ l[b + (h + 1)] \notin S
    BY <1>1, <1>2, <1>4
  <2> QED BY <1>1, <2>1, <2>2, <2>3, SkipIs
<1>5. \A x \in ToSet(l) : kd[x].band \in {0, 1}
  BY <1>2, ListIs
<1>6. Skip(l, h + 1, {x \in ToSet(l) : kd[x].band >= 1}) = b + (h + 1)
  <2>1. \A x : x \in {y \in ToSet(l) : kd[y].band >= 1} <=> x \in ToSet(l) /\ kd[x].band = 1
    BY <1>5
  <2> QED BY <1>4, <2>1
<1>7. Skip(l, h + 1, {x \in ToSet(l) : kd[x].band > 0}) = b + (h + 1)
  <2>1. \A x : x \in {y \in ToSet(l) : kd[y].band > 0} <=> x \in ToSet(l) /\ kd[x].band = 1
    BY <1>5
  <2> QED BY <1>4, <2>1
<1>8. Skip(l, h + 1, {x \in ToSet(l) : kd[x].band > 1}) = h + 1
  <2>1. {x \in ToSet(l) : kd[x].band > 1} = {}
    BY <1>5
  <2>2. h + 1 \in 1 .. Len(l) + 1 /\ h + 1 \in h + 1 .. Len(l) + 1
    BY <1>1
  <2>3. \A k \in h + 1 .. (h + 1) - 1 : l[k] \in {}
    BY <1>1
  <2>4. Skip(l, h + 1, {}) = h + 1
    BY <1>1, <2>2, <2>3, SkipIs
  <2> QED BY <2>1, <2>4
<1> QED BY <1>3, <1>6, <1>7, <1>8

\* putq puts a message behind its class.
LEMMA PutPlaceIs ==
    ASSUME NEW s, NEW kd, Listed(s.list, kd), NEW h, NEW b, Shape(s.list, kd, h, b),
           Ptrs(s, h, b), NEW m, kd[m] \in GoodKind, None \notin Msg,
           NEW rank, rank = RankOf(kd, m)
    PROVE  PutPlace(s, kd, m)
             = IF rank = 2 THEN h + 1 ELSE IF rank = 1 THEN h + b + 1 ELSE Len(s.list) + 1
<1> DEFINE l == s.list
           z == kd[Last(l)]
<1>1. /\ l \in Seq(Msg) /\ Len(l) \in Nat /\ h \in Nat /\ b \in Nat /\ h + b <= Len(l)
      /\ \A k \in 1 .. Len(l) : l[k] \in Msg
  BY ListIs DEF Shape
<1>2. /\ kd[m].pri \in BOOLEAN /\ kd[m].band \in {0, 1}
      /\ rank \in {0, 1, 2} /\ (rank = 2 <=> kd[m].pri) /\ (rank = 1 <=> kd[m].band = 1)
      /\ (rank = 0 <=> ~kd[m].pri /\ kd[m].band = 0)
  BY RankIs
<1>3. CASE l = <<>>
  <2>1. Len(l) = 0 /\ h = 0 /\ b = 0
    BY <1>1, <1>3
  <2>2. PutPlace(s, kd, m) = 1
    BY <1>3 DEF PutPlace
  <2> QED BY <1>2, <2>1, <2>2
<1>4. CASE l # <<>>
  <2>1. /\ Len(l) \in Nat \ {0}
        /\ kd[Last(l)].pri <=> h = Len(l)
        /\ kd[Last(l)].band = 1 <=> h < Len(l) /\ h + b = Len(l)
        /\ kd[Last(l)].band \in {0, 1}
    BY ONLY Listed(l, kd), Shape(l, kd, h, b), <1>4, LastIs
  <2>2. z.pri <=> h = Len(l)
    BY <2>1
  <2>3. CASE kd[m].band = 0
    <3>1. PutPlace(s, kd, m) = IF z.pri \/ ~kd[m].pri THEN Len(l) + 1
                               ELSE Skip(l, 1, {x \in ToSet(l) : kd[x].pri})
      BY <1>4, <2>3 DEF PutPlace
    <3>2. Skip(l, 1, {x \in ToSet(l) : kd[x].pri}) = h + 1
      BY SkipShape
    <3> QED BY <1>1, <1>2, <2>2, <2>3, <3>1, <3>2
  <2>4. CASE kd[m].band = 1 /\ s.first # None
    <3>1. PutPlace(s, kd, m) = (IF {k \in 1 .. Len(l) : l[k] = s.last} # {}
                                    THEN Min({k \in 1 .. Len(l) : l[k] = s.last}) ELSE 0) + 1
      BY <1>4, <2>4 DEF SelectInSeq, PutPlace
    <3>2. b # 0 /\ s.last = l[h + b] /\ h + b \in 1 .. Len(l)
      BY <1>1, <2>4 DEF Ptrs
    <3>3. {k \in 1 .. Len(l) : l[k] = s.last} = {h + b} /\ Min({h + b}) = h + b
      BY ONLY <3>2, Listed(l, kd), IndexIs
    <3>4. rank = 1
      BY <1>2, <2>4
    <3> HIDE DEF l
    <3>5. PutPlace(s, kd, m) = h + b + 1
      BY ONLY <3>1, <3>3
    <3> QED BY <1>1, <3>4, <3>5
  <2>5. CASE kd[m].band = 1 /\ s.first = None
    <3>1. b = 0
      <4>1. b # 0 => h + 1 \in 1 .. Len(l)
        BY <1>1
      <4> QED BY <1>1, <2>5, <4>1 DEF Ptrs
    <3>2. ~(1 <= z.band)
      BY <1>1, <2>1, <2>2, <3>1
    <3>3. PutPlace(s, kd, m)
            = IF z.pri \/ 1 <= z.band THEN Len(l) + 1
              ELSE Skip(l, Skip(l, 1, {x \in ToSet(l) : kd[x].pri}),
                        {x \in ToSet(l) : kd[x].band >= 1})
      BY <1>4, <2>5 DEF PutPlace
    <3>4. Skip(l, Skip(l, 1, {x \in ToSet(l) : kd[x].pri}), {x \in ToSet(l) : kd[x].band >= 1})
            = h + b + 1
      <4>1. Skip(l, 1, {x \in ToSet(l) : kd[x].pri}) = h + 1
        BY SkipShape
      <4>2. Skip(l, h + 1, {x \in ToSet(l) : kd[x].band >= 1}) = b + (h + 1)
        BY SkipShape
      <4>3. b + (h + 1) = h + b + 1
        BY <1>1
      <4> QED BY <4>1, <4>2, <4>3
    <3> QED BY <1>1, <1>2, <2>2, <2>5, <3>1, <3>2, <3>3, <3>4
  <2> QED BY <1>2, <2>3, <2>4, <2>5
<1> QED BY <1>3, <1>4

\* putbq puts a message before its class.
LEMMA PutbqPlaceIs ==
    ASSUME NEW s, NEW kd, Listed(s.list, kd), NEW h, NEW b, Shape(s.list, kd, h, b),
           Ptrs(s, h, b), NEW m, kd[m] \in GoodKind, None \notin Msg,
           NEW rank, rank = RankOf(kd, m)
    PROVE  PutbqPlace(s, kd, m)
             = IF rank = 2 THEN 1 ELSE IF rank = 1 THEN h + 1 ELSE h + b + 1
<1> DEFINE l == s.list
           z == kd[Last(l)]
<1>1. /\ l \in Seq(Msg) /\ Len(l) \in Nat /\ h \in Nat /\ b \in Nat /\ h + b <= Len(l)
      /\ \A k \in 1 .. Len(l) : l[k] \in Msg
  BY ListIs DEF Shape
<1>2. /\ kd[m].pri \in BOOLEAN /\ kd[m].band \in {0, 1}
      /\ rank \in {0, 1, 2} /\ (rank = 2 <=> kd[m].pri) /\ (rank = 1 <=> kd[m].band = 1)
      /\ (rank = 0 <=> ~kd[m].pri /\ kd[m].band = 0)
  BY RankIs
<1>3. CASE l = <<>> \/ kd[m].pri
  <2>1. l = <<>> => h = 0 /\ b = 0
    BY <1>1
  <2>2. PutbqPlace(s, kd, m) = 1
    <3>1. CASE l = <<>>
      BY <3>1 DEF PutbqPlace
    <3>2. CASE kd[m].pri /\ l # <<>>
      <4>1. kd[m].band = 0
        BY <3>2 DEF GoodKind
      <4> QED BY <3>2, <4>1 DEF PutbqPlace
    <3> QED BY <1>3, <3>1, <3>2
  <2> QED BY <1>2, <1>3, <2>1, <2>2
<1>4. CASE l # <<>> /\ ~kd[m].pri
  <2>1. /\ Len(l) \in Nat \ {0}
        /\ kd[Last(l)].pri <=> h = Len(l)
        /\ kd[Last(l)].band = 1 <=> h < Len(l) /\ h + b = Len(l)
        /\ kd[Last(l)].band \in {0, 1}
    BY ONLY Listed(l, kd), Shape(l, kd, h, b), <1>4, LastIs
  <2>2. z.pri <=> h = Len(l)
    BY <2>1
  <2>3. CASE kd[m].band = 0
    <3>1. PutbqPlace(s, kd, m)
            = IF z.pri \/ 0 < z.band THEN Len(l) + 1
              ELSE Skip(l, Skip(l, 1, {x \in ToSet(l) : kd[x].pri}),
                        {x \in ToSet(l) : kd[x].band > 0})
      BY <1>4, <2>3 DEF PutbqPlace
    <3>2. Skip(l, Skip(l, 1, {x \in ToSet(l) : kd[x].pri}), {x \in ToSet(l) : kd[x].band > 0})
            = h + b + 1
      <4>1. Skip(l, 1, {x \in ToSet(l) : kd[x].pri}) = h + 1
        BY SkipShape
      <4>2. Skip(l, h + 1, {x \in ToSet(l) : kd[x].band > 0}) = b + (h + 1)
        BY SkipShape
      <4>3. b + (h + 1) = h + b + 1
        BY <1>1
      <4> QED BY <4>1, <4>2, <4>3
    <3>3. z.pri \/ 0 < z.band => Len(l) + 1 = h + b + 1
      BY <1>1, <2>1, <2>2
    <3> QED BY <1>2, <1>4, <2>3, <3>1, <3>2, <3>3
  <2>4. CASE kd[m].band = 1 /\ s.first # None
    <3>1. PutbqPlace(s, kd, m) = (IF {k \in 1 .. Len(l) : l[k] = s.first} # {}
                                    THEN Min({k \in 1 .. Len(l) : l[k] = s.first}) ELSE 0)
      BY <1>4, <2>4 DEF SelectInSeq, PutbqPlace
    <3>2. b # 0 /\ s.first = l[h + 1] /\ h + 1 \in 1 .. Len(l)
      BY <1>1, <2>4 DEF Ptrs
    <3>3. {k \in 1 .. Len(l) : l[k] = s.first} = {h + 1} /\ Min({h + 1}) = h + 1
      BY ONLY <3>2, Listed(l, kd), IndexIs
    <3>4. rank = 1
      BY <1>2, <2>4
    <3> HIDE DEF l
    <3>5. PutbqPlace(s, kd, m) = h + 1
      BY ONLY <3>1, <3>3
    <3> QED BY <1>1, <3>4, <3>5
  <2>5. CASE kd[m].band = 1 /\ s.first = None
    <3>1. b = 0
      <4>1. b # 0 => h + 1 \in 1 .. Len(l)
        BY <1>1
      <4> QED BY <1>1, <2>5, <4>1 DEF Ptrs
    <3>2. ~(1 < z.band)
      BY <2>1
    <3>3. PutbqPlace(s, kd, m)
            = IF z.pri \/ 1 < z.band THEN Len(l) + 1
              ELSE Skip(l, Skip(l, 1, {x \in ToSet(l) : kd[x].pri}),
                        {x \in ToSet(l) : kd[x].band > 1})
      BY <1>4, <2>5 DEF PutbqPlace
    <3>4. Skip(l, Skip(l, 1, {x \in ToSet(l) : kd[x].pri}), {x \in ToSet(l) : kd[x].band > 1})
            = h + 1
      <4>1. Skip(l, 1, {x \in ToSet(l) : kd[x].pri}) = h + 1
        BY SkipShape
      <4>2. Skip(l, h + 1, {x \in ToSet(l) : kd[x].band > 1}) = h + 1
        BY SkipShape
      <4> QED BY <4>1, <4>2
    <3> QED BY <1>1, <1>2, <2>2, <2>5, <3>1, <3>2, <3>3, <3>4
  <2> QED BY <1>2, <2>3, <2>4, <2>5
<1> QED BY <1>3, <1>4

-----------------------------------------------------------------------------
(* What the messages weigh.                                                *)

\* The weights of the bands.
LEMMA WeightsAre ==
    ASSUME NEW l, NEW kd, Listed(l, kd), NEW c \in {0, 1}
    PROVE  /\ Weights(c, kd, l) \in Seq(Nat) /\ Len(Weights(c, kd, l)) = Len(l)
           /\ \A k \in 1 .. Len(l) :
                Weights(c, kd, l)[k] = IF kd[l[k]].band = c THEN kd[l[k]].size ELSE 0
<1>1. Len(l) \in Nat /\ \A k \in 1 .. Len(l) : kd[l[k]] \in GoodKind
  BY ListIs
<1>2. \A k \in 1 .. Len(l) : kd[l[k]].size \in Nat
  BY <1>1, RankIs
<1> QED BY <1>1, <1>2 DEF Weights

\* Totals are numbers.
LEMMA TotalNat ==
    ASSUME NEW w \in Seq(Nat)
    PROVE  Total(w) \in Nat
<1>1. PICK f : IsSum(f, w, Len(w))
  BY SumExists
<1>2. Len(w) \in 0 .. Len(w)
  OBVIOUS
<1>3. f[Len(w)] \in Nat
  BY <1>1, <1>2 DEF IsSum
<1> QED BY <1>1, <1>3, TotalIs

\* Without a message the band weighs less by what it weighs.
LEMMA WeightLess ==
    ASSUME NEW l, NEW kd, Listed(l, kd), NEW c \in {0, 1}, NEW i \in 1 .. Len(l), NEW r,
           Closed(l, i, r), Listed(r, kd)
    PROVE  /\ Weight(c, kd, r) \in Nat
           /\ Weight(c, kd, l)
                = Weight(c, kd, r) + (IF kd[l[i]].band = c THEN kd[l[i]].size ELSE 0)
<1>1. PICK u, v : u = Weights(c, kd, l) /\ v = Weights(c, kd, r)
  OBVIOUS
<1>2. /\ u \in Seq(Nat) /\ Len(u) = Len(l) /\ v \in Seq(Nat) /\ Len(v) = Len(r)
      /\ \A k \in 1 .. Len(l) : u[k] = IF kd[l[k]].band = c THEN kd[l[k]].size ELSE 0
      /\ \A k \in 1 .. Len(r) : v[k] = IF kd[r[k]].band = c THEN kd[r[k]].size ELSE 0
  BY <1>1, WeightsAre
<1>3. Len(l) \in Nat /\ Len(r) = Len(l) - 1
  BY ListIs DEF Closed
<1>4. ASSUME NEW k \in 1 .. Len(u) - 1 PROVE v[k] = IF k < i THEN u[k] ELSE u[k + 1]
  <2>1. k \in 1 .. Len(l) /\ k + 1 \in 1 .. Len(l) /\ k \in 1 .. Len(r) /\ k \in 1 .. Len(l) - 1
    <3>1. PICK n \in Nat : n = Len(l)
      BY <1>3
    <3>2. k \in 1 .. n - 1 /\ Len(r) = n - 1
      BY <1>2, <1>3, <3>1
    <3> QED BY ONLY n \in Nat, <3>1, <3>2
  <2>2. r[k] = IF k < i THEN l[k] ELSE l[k + 1]
    BY <2>1 DEF Closed
  <2> QED BY <1>2, <2>1, <2>2
<1>5. i \in 1 .. Len(u) /\ Len(v) = Len(u) - 1
  BY <1>2, <1>3
<1>6. Total(v) + u[i] = Total(u)
  BY <1>2, <1>4, <1>5, TotalLess
<1>7. Total(v) \in Nat
  BY <1>2, TotalNat
<1>8. u[i] = IF kd[l[i]].band = c THEN kd[l[i]].size ELSE 0
  BY <1>2
<1> QED BY <1>1, <1>6, <1>7, <1>8 DEF Weight

\* A list and the list with a message more.
Opened(l, r, j, m) ==
    /\ l \in Seq(Msg) /\ j \in 1 .. Len(l) + 1 /\ Len(r) = Len(l) + 1
    /\ \A k \in 1 .. Len(l) + 1 : r[k] = IF k < j THEN l[k] ELSE IF k = j THEN m ELSE l[k - 1]

\* A value put among those of a list: which of them come before it, and which after it.
LEMMA OpenedIs ==
    ASSUME NEW l, NEW r, NEW j, NEW m, Opened(l, r, j, m)
    PROVE  Closed(r, j, l) /\ j \in 1 .. Len(r) /\ r[j] = m
<1> USE DEF Opened
<1>1. Len(l) \in Nat /\ j \in Nat
  OBVIOUS
<1>2. Len(l) = Len(r) - 1 /\ j \in 1 .. Len(r)
  BY <1>1
<1>3. ASSUME NEW k \in 1 .. Len(r) - 1 PROVE l[k] = IF k < j THEN r[k] ELSE r[k + 1]
  <2>1. k \in 1 .. Len(l) + 1 /\ k + 1 \in 1 .. Len(l) + 1 /\ (k + 1) - 1 = k
    BY <1>1
  <2>2. CASE k < j
    BY <2>1, <2>2
  <2>3. CASE ~(k < j)
    <3>1. ~(k + 1 < j) /\ k + 1 # j
      BY <1>1, <2>1, <2>3
    <3> QED BY <2>1, <2>3, <3>1
  <2> QED BY <2>2, <2>3
<1> QED BY <1>1, <1>2, <1>3 DEF Closed

\* Lists weigh what their messages do.
LEMMA WeightSame ==
    ASSUME NEW l \in Seq(Msg), NEW kd, NEW ke, NEW c,
           \A k \in 1 .. Len(l) : kd[l[k]] = ke[l[k]]
    PROVE  Weight(c, kd, l) = Weight(c, ke, l)
<1>1. Weights(c, kd, l) = Weights(c, ke, l)
  BY DEF Weights
<1> QED BY <1>1 DEF Weight

\* An empty list weighs nothing.
LEMMA WeightEmpty ==
    ASSUME NEW kd, NEW c
    PROVE  Weight(c, kd, <<>>) = 0
<1>1. Weights(c, kd, <<>>) = <<>>
  BY DEF Weights
<1>2. IsSum([k \in 0 .. 0 |-> 0], <<>>, Len(<<>>))
  BY DEF IsSum
<1>3. <<>> \in Seq(Nat) /\ Len(<<>>) = 0
  OBVIOUS
<1>4. Total(<<>>) = [k \in 0 .. 0 |-> 0][Len(<<>>)]
  BY <1>2, <1>3, TotalIs
<1> QED BY <1>1, <1>3, <1>4 DEF Weight

-----------------------------------------------------------------------------
(* What the queue procedures do.                                           *)

\* The fields of a queue.
LEMMA QueueIs ==
    ASSUME NEW s \in QueueT, NEW c \in {0, 1}
    PROVE  /\ s.list \in Seq(Msg) /\ s.flow \in [{0, 1} -> FlowT] /\ s.enab \in BOOLEAN
           /\ s.first \in Msg \cup {None} /\ s.last \in Msg \cup {None}
           /\ s.flow[c] \in FlowT /\ s.flow[c].there \in BOOLEAN
           /\ s.flow[c].count \in Nat /\ s.flow[c].hi \in Nat /\ s.flow[c].lo \in Nat
           /\ s.flow[c].lo \in 1 .. s.flow[c].hi
           /\ s.flow[c].full \in BOOLEAN /\ s.flow[c].wantw \in BOOLEAN
           /\ s.flow[c].wantw \/ s.flow[c].full => s.flow[c].there
BY DEF QueueT, FlowT

\* A band that was refused a message is not forgotten between s and t.
Holds(s, c) == s.enab \/ (s.flow[c].wantw /\ s.flow[c].count >= s.flow[c].lo)
Kept(s, t) == \A c \in {0, 1} : Holds(s, c) => Holds(t, c)

\* The queue with another flow of band c.
WithFlow(s, c, f, e) == [s EXCEPT !.flow[c] = f, !.enab = e]

\* The qband is there from now on and nothing else changes.
LEMMA QbandIs ==
    ASSUME NEW s \in QueueT, NEW c \in {0, 1}, NEW t, t = Qband(s, c),
           s.flow[0].there, ~s.flow[1].there => s.flow[1].count = 0
    PROVE  /\ t \in QueueT /\ t.list = s.list /\ t.first = s.first /\ t.last = s.last
           /\ t.enab = s.enab /\ t.flow[c].there
           /\ t.flow[c].count = s.flow[c].count /\ t.flow[c].wantw = s.flow[c].wantw
           /\ \A d \in {0, 1} : d # c => t.flow[d] = s.flow[d]
           /\ \A w : Marked(s, w) => Marked(t, w)
           /\ t.flow[c] = s.flow[c] \/ (c = 1 /\ t.flow[c].hi = s.flow[0].hi
                                              /\ t.flow[c].lo = s.flow[0].lo)
<1>1. CASE s.flow[c].there
  BY <1>1 DEF Qband
<1>2. CASE ~s.flow[c].there
  <2>1. c = 1 /\ s.flow[1].count = 0
    BY <1>2
  <2>2. PICK f : f = Flow(TRUE, <<s.flow[0].hi, s.flow[0].lo>>)
    OBVIOUS
  <2>3. /\ f.there /\ f.count = 0 /\ f.hi = s.flow[0].hi /\ f.lo = s.flow[0].lo
        /\ f.full = FALSE /\ f.wantw = FALSE
    BY <2>2 DEF Flow
  <2>4. f \in FlowT
    <3>1. s.flow[0].hi \in Nat /\ s.flow[0].lo \in Nat /\ s.flow[0].lo \in 1 .. s.flow[0].hi
      BY QueueIs
    <3> QED BY <2>2, <3>1 DEF Flow, FlowT
  <2>5. t = [s EXCEPT !.flow[c] = f]
    BY <1>2, <2>2 DEF Qband
  <2>6. /\ t \in QueueT /\ t.list = s.list /\ t.first = s.first /\ t.last = s.last
        /\ t.enab = s.enab /\ t.flow[c] = f
        /\ \A d \in {0, 1} : d # c => t.flow[d] = s.flow[d]
    BY <2>4, <2>5 DEF QueueT
  <2>7. s.flow[c].wantw = FALSE /\ s.flow[c].count = 0
    BY <1>2, <2>1, QueueIs
  <2>8. ASSUME NEW w, Marked(s, w) PROVE Marked(t, w)
    BY <2>1, <2>3, <2>6, <2>8 DEF Marked
  <2> QED BY <2>1, <2>3, <2>6, <2>7, <2>8
<1> QED BY <1>1, <1>2

\* A flow with n bytes more.
LEMMA AddIs ==
    ASSUME NEW f \in FlowT, f.there, NEW n \in Nat, NEW g, g = Add(f, n)
    PROVE  /\ g \in FlowT /\ g.there /\ g.count = f.count + n /\ g.wantw = f.wantw
           /\ g.hi = f.hi /\ g.lo = f.lo /\ (g.full => f.full \/ g.count >= g.hi)
<1>1. f.count \in Nat /\ f.hi \in Nat /\ f.lo \in 1 .. f.hi /\ f.full \in BOOLEAN /\ f.wantw \in BOOLEAN
  BY DEF FlowT
<1>2. g = [f EXCEPT !.count = f.count + n, !.full = f.full \/ f.count + n >= f.hi]
  BY DEF Add
<1>3. /\ g.there = f.there /\ g.count = f.count + n /\ g.wantw = f.wantw
      /\ g.hi = f.hi /\ g.lo = f.lo /\ g.full = (f.full \/ f.count + n >= f.hi)
  BY <1>2 DEF FlowT
<1>4. g \in FlowT
  <2> DEFINE R == [there : BOOLEAN, count : Nat, hi : Nat, lo : Nat,
                   full : BOOLEAN, wantw : BOOLEAN]
  <2>1. f \in R
    BY DEF FlowT
  <2>2. f.count + n \in Nat /\ (f.full \/ f.count + n >= f.hi) \in BOOLEAN
    BY <1>1
  <2>3. g \in R
    BY <1>2, <2>1, <2>2
  <2> QED BY <1>1, <1>3, <2>3 DEF FlowT
<1> QED BY <1>1, <1>3, <1>4

\* What stays of a queue whose flow alone changes.
LEMMA FlowOnly ==
    ASSUME NEW s, NEW kd, QOK(s, kd), NEW t \in QueueT,
           t.list = s.list, t.first = s.first, t.last = s.last,
           \A c \in {0, 1} : t.flow[c].count = s.flow[c].count,
           \A c \in {0, 1} : s.flow[c].there => t.flow[c].there
    PROVE  QOK(t, kd)
<1>1. Listed(t.list, kd) /\ Counted(t, kd)
  BY DEF QOK, Counted
<1>2. Shaped(t, kd)
  <2>1. PICK h, b \in 0 .. Len(s.list) : Shape(s.list, kd, h, b) /\ Ptrs(s, h, b)
    BY DEF QOK, Shaped
  <2>2. Ptrs(t, h, b)
    BY <2>1 DEF Ptrs
  <2> QED BY <2>1, <2>2 DEF Shaped
<1>3. t.flow[0].there /\ (~t.flow[1].there => t.flow[1].count = 0)
  BY DEF QOK
<1> QED BY <1>1, <1>2, <1>3 DEF QOK

\* The flow has m more.
Heavier(s, kd, m, t) ==
    \A c \in {0, 1} :
        /\ t.flow[c].count = s.flow[c].count + (IF kd[m].band = c THEN kd[m].size ELSE 0)
        /\ t.flow[c].there <=> s.flow[c].there \/ kd[m].band = c
\* The pointers, with m at j.
Pointed(s, m, h, b, j, rank, t) ==
    /\ t.first = IF rank = 1 /\ j = h + 1 THEN m ELSE s.first
    /\ t.last = IF rank = 1 /\ j = h + b + 1 THEN m ELSE s.last
\* A message that is put into its place.
Inserted(s, kd, m, h, b, j, rank, t) ==
    /\ QOK(s, kd) /\ Shape(s.list, kd, h, b) /\ Ptrs(s, h, b)
    /\ m \in Msg /\ m \notin ToSet(s.list) /\ kd[m] \in GoodKind
    /\ rank = RankOf(kd, m) /\ Fits(s.list, h, b, j, rank)
    /\ t \in QueueT /\ t.list = InsertAt(s.list, j, m)
    /\ Pointed(s, m, h, b, j, rank, t) /\ Heavier(s, kd, m, t)

\* A message that is put into its place leaves a queue as it must be, with one message more.
LEMMA InsertQ ==
    ASSUME NEW s, NEW kd, NEW m, NEW h, NEW b, NEW j, NEW rank, NEW t,
           Inserted(s, kd, m, h, b, j, rank, t)
    PROVE  /\ QOK(t, kd) /\ ToSet(t.list) = ToSet(s.list) \cup {m}
           /\ t.list # <<>>
           /\ t.list[1] = m \/ (s.list # <<>> /\ t.list[1] = s.list[1])
<1> USE DEF Inserted
<1> DEFINE l == s.list
           r == t.list
<1>1. Listed(l, kd) /\ Counted(s, kd) /\ l \in Seq(Msg) /\ Len(l) \in Nat
  BY ListIs DEF QOK
<1>2. h \in Nat /\ b \in Nat /\ h + b <= Len(l) /\ rank \in {0, 1, 2}
  BY RankIs DEF Shape
<1>3. /\ j \in 1 .. Len(l) + 1 /\ Len(r) = Len(l) + 1
      /\ \A k \in 1 .. Len(l) + 1 : r[k] = IF k < j THEN l[k] ELSE IF k = j THEN m ELSE l[k - 1]
      /\ Listed(r, kd)
      /\ Shape(r, kd, IF rank = 2 THEN h + 1 ELSE h, IF rank = 1 THEN b + 1 ELSE b)
      /\ ToSet(r) = ToSet(l) \cup {m}
  <2> HIDE DEF l, r
  <2>1. Listed(l, kd) /\ Shape(l, kd, h, b) /\ m \notin ToSet(l) /\ Fits(l, h, b, j, rank)
        /\ r = InsertAt(l, j, m)
    BY <1>1 DEF l, r
  <2>2. m \in Msg /\ kd[m] \in GoodKind /\ rank = RankOf(kd, m)
    OBVIOUS
  <2> QED BY ONLY <2>1, <2>2, InsertShape
<1>4. PICK g \in Nat, d \in Nat : /\ g = (IF rank = 2 THEN h + 1 ELSE h)
                                  /\ d = (IF rank = 1 THEN b + 1 ELSE b)
  BY <1>2
<1>5. Shape(r, kd, g, d) /\ g + d <= Len(r)
  BY <1>3, <1>4 DEF Shape
<1>6. d # 0 => r[g + 1] = t.first /\ r[g + d] = t.last
  <2>1. b # 0 => l[h + 1] = s.first /\ l[h + b] = s.last
    BY DEF Ptrs
  <2>2. CASE rank = 2
    <3>1. g = h + 1 /\ d = b /\ j \in 1 .. h + 1 /\ t.first = s.first /\ t.last = s.last
      BY <1>4, <2>2 DEF Fits, Pointed
    <3>2. b # 0 => /\ h + 2 \in 1 .. Len(l) + 1 /\ h + 1 + b \in 1 .. Len(l) + 1
                   /\ (h + 2) - 1 = h + 1 /\ (h + 1 + b) - 1 = h + b
                   /\ ~(h + 2 < j) /\ h + 2 # j /\ ~(h + 1 + b < j) /\ h + 1 + b # j
      BY <1>1, <1>2, <3>1
    <3>3. b # 0 => r[h + 2] = l[h + 1]
      <4> SUFFICES ASSUME b # 0 PROVE r[h + 2] = l[h + 1]
        OBVIOUS
      <4>1. r[h + 2] = l[(h + 2) - 1]
        BY <1>3, <3>2
      <4> QED BY <3>2, <4>1
    <3>5. b # 0 => r[h + 1 + b] = l[h + b]
      <4> SUFFICES ASSUME b # 0 PROVE r[h + 1 + b] = l[h + b]
        OBVIOUS
      <4>1. r[h + 1 + b] = l[(h + 1 + b) - 1]
        BY <1>3, <3>2
      <4> QED BY <3>2, <4>1
    <3>4. g + 1 = h + 2 /\ g + d = h + 1 + b
      BY <1>2, <3>1
    <3> QED BY <2>1, <3>1, <3>3, <3>4, <3>5
  <2>3. CASE rank = 0
    <3>1. g = h /\ d = b /\ j \in h + b + 1 .. Len(l) + 1 /\ t.first = s.first /\ t.last = s.last
      BY <1>4, <2>3 DEF Fits, Pointed
    <3>2. b # 0 => /\ h + 1 \in 1 .. Len(l) + 1 /\ h + b \in 1 .. Len(l) + 1
                   /\ h + 1 < j /\ h + b < j
      BY <1>1, <1>2, <3>1
    <3> QED BY <1>3, <2>1, <3>1, <3>2
  <2>4. CASE rank = 1
    <3>1. /\ g = h /\ d = b + 1 /\ j \in h + 1 .. h + b + 1
          /\ t.first = (IF j = h + 1 THEN m ELSE s.first)
          /\ t.last = (IF j = h + b + 1 THEN m ELSE s.last)
      BY <1>4, <2>4 DEF Fits, Pointed
    <3>2. r[h + 1] = t.first
      <4>1. h + 1 \in 1 .. Len(l) + 1
        BY <1>1, <1>2
      <4>2. CASE j = h + 1
        BY <1>3, <3>1, <4>1, <4>2
      <4>3. CASE j # h + 1
        <5>1. h + 1 < j /\ b # 0
          BY <1>1, <1>2, <3>1, <4>3
        <5> QED BY <1>3, <2>1, <3>1, <4>1, <4>3, <5>1
      <4> QED BY <4>2, <4>3
    <3>3. r[h + (b + 1)] = t.last
      <4>1. h + (b + 1) \in 1 .. Len(l) + 1 /\ h + (b + 1) = h + b + 1
        BY <1>1, <1>2
      <4>2. CASE j = h + b + 1
        BY <1>3, <3>1, <4>1, <4>2
      <4>3. CASE j # h + b + 1
        <5>1. ~(h + (b + 1) < j) /\ b # 0 /\ h + (b + 1) # j /\ (h + (b + 1)) - 1 = h + b
          BY <1>1, <1>2, <3>1, <4>3
        <5>2. r[h + (b + 1)] = l[(h + (b + 1)) - 1]
          BY <1>3, <4>1, <5>1
        <5> QED BY <2>1, <3>1, <4>3, <5>1, <5>2
      <4> QED BY <4>2, <4>3
    <3> QED BY <3>1, <3>2, <3>3
  <2> QED BY <1>2, <2>2, <2>3, <2>4
<1>7. d = 0 => t.first = None /\ t.last = None
  BY <1>2, <1>4 DEF Ptrs, Pointed
<1>8. Shaped(t, kd)
  <2>1. Ptrs(t, g, d)
    BY <1>6, <1>7 DEF Ptrs
  <2>2. g \in 0 .. Len(t.list) /\ d \in 0 .. Len(t.list)
    BY <1>1, <1>3, <1>5
  <2> QED BY <1>5, <2>1, <2>2 DEF Shaped
<1>9. Counted(t, kd)
  <2>1. Closed(r, j, l) /\ j \in 1 .. Len(r) /\ r[j] = m
    <3> HIDE DEF l, r
    <3>1. Opened(l, r, j, m)
      BY <1>1, <1>3 DEF Opened
    <3> QED BY ONLY <3>1, OpenedIs
  <2>2. ASSUME NEW c \in {0, 1}
        PROVE  t.flow[c].count = Weight(c, kd, t.list)
    <3>1. Weight(c, kd, r) = Weight(c, kd, l) + (IF kd[m].band = c THEN kd[m].size ELSE 0)
      <4> HIDE DEF l, r
      <4>1. Weight(c, kd, r) = Weight(c, kd, l) + (IF kd[r[j]].band = c THEN kd[r[j]].size ELSE 0)
        BY <1>1, <1>3, <2>1, WeightLess
      <4> QED BY <2>1, <4>1
    <3>2. s.flow[c].count = Weight(c, kd, l)
      BY <1>1 DEF Counted
    <3> QED BY <3>1, <3>2 DEF Heavier
  <2> QED BY <2>2 DEF Counted
<1>10. t.flow[0].there /\ (~t.flow[1].there => t.flow[1].count = 0)
  <2>1. s.flow[0].there /\ (~s.flow[1].there => s.flow[1].count = 0)
    BY DEF QOK
  <2>2. s.flow[1].count \in Nat
    BY QueueIs DEF QOK
  <2> QED BY <2>1, <2>2 DEF Heavier
<1>11. t.list # <<>> /\ (t.list[1] = m \/ (s.list # <<>> /\ t.list[1] = s.list[1]))
  <2>1. Len(r) # 0 /\ 1 \in 1 .. Len(l) + 1
    BY <1>1, <1>3
  <2>2. CASE j = 1
    BY <1>3, <2>1, <2>2
  <2>3. CASE j # 1
    <3>1. 1 < j /\ Len(l) # 0
      BY <1>1, <1>3, <2>3
    <3> QED BY <1>3, <2>1, <3>1
  <2> QED BY <2>1, <2>2, <2>3
<1> QED BY <1>3, <1>8, <1>9, <1>10, <1>11 DEF QOK

\* What putq and putbq have in common: m is put into its place j.
PutAt(s, kd, m, j, t) ==
    LET u == Qband(s, kd[m].band) IN
    /\ t \in QueueT /\ t.list = InsertAt(s.list, j, m) /\ t.enab = s.enab
    /\ t.flow = [u.flow EXCEPT ![kd[m].band] = Add(@, kd[m].size)]
\* What follows for the queue.
PutDone(s, kd, m, t) ==
    /\ QOK(t, kd) /\ ToSet(t.list) = ToSet(s.list) \cup {m} /\ t.enab = s.enab
    /\ t.list # <<>> /\ (t.list[1] = m \/ (s.list # <<>> /\ t.list[1] = s.list[1]))
    /\ \A c \in {0, 1} :
         /\ t.flow[c].count = s.flow[c].count + (IF kd[m].band = c THEN kd[m].size ELSE 0)
         /\ t.flow[c].wantw = s.flow[c].wantw
    /\ \A w : Marked(s, w) => Marked(t, w) /\ Kept(s, t)

\* Putq and Putbq do nothing else: the message, the flow control, and the driver's mark.
LEMMA PutIs ==
    ASSUME NEW s, NEW kd, QOK(s, kd), NEW h, NEW b, Shape(s.list, kd, h, b), Ptrs(s, h, b),
           NEW m \in Msg, m \notin ToSet(s.list), kd[m] \in GoodKind, None \notin Msg,
           NEW j, NEW rank, rank = RankOf(kd, m), Fits(s.list, h, b, j, rank),
           NEW t, PutAt(s, kd, m, j, t), Pointed(s, m, h, b, j, rank, t)
    PROVE  PutDone(s, kd, m, t)
<1>1. PICK c \in {0, 1} : c = kd[m].band
  BY RankIs
<1>2. PICK u : u = Qband(s, c)
  OBVIOUS
<1>3. PICK n \in Nat : n = kd[m].size
  BY RankIs
<1>4. /\ t \in QueueT /\ t.list = InsertAt(s.list, j, m) /\ t.enab = s.enab
      /\ t.flow = [u.flow EXCEPT ![c] = Add(u.flow[c], n)]
  BY <1>1, <1>2, <1>3 DEF PutAt
<1>5. /\ s \in QueueT /\ s.flow[0].there /\ (~s.flow[1].there => s.flow[1].count = 0)
  BY DEF QOK
<1>6. /\ u \in QueueT /\ u.flow[c].there
      /\ u.flow[c].count = s.flow[c].count /\ u.flow[c].wantw = s.flow[c].wantw
      /\ \A d \in {0, 1} : d # c => u.flow[d] = s.flow[d]
      /\ \A w : Marked(s, w) => Marked(u, w)
  BY <1>2, <1>5, QbandIs
<1>7. PICK g : g = Add(u.flow[c], n)
  OBVIOUS
<1>8. u.flow[c] \in FlowT /\ u.flow \in [{0, 1} -> FlowT]
  BY <1>6, QueueIs
<1>9. /\ g \in FlowT /\ g.there /\ g.count = u.flow[c].count + n /\ g.wantw = u.flow[c].wantw
      /\ g.hi = u.flow[c].hi /\ g.lo = u.flow[c].lo /\ (g.full => u.flow[c].full \/ g.count >= g.hi)
  <2>1. PICK f : f = u.flow[c]
    OBVIOUS
  <2>2. f \in FlowT /\ f.there /\ g = Add(f, n)
    BY <1>6, <1>7, <1>8, <2>1
  <2>3. /\ g \in FlowT /\ g.there /\ g.count = f.count + n /\ g.wantw = f.wantw
        /\ g.hi = f.hi /\ g.lo = f.lo /\ (g.full => f.full \/ g.count >= g.hi)
    BY ONLY <2>2, n \in Nat, AddIs
  <2> QED BY <2>1, <2>3
<1>10. t.flow[c] = g /\ \A d \in {0, 1} : d # c => t.flow[d] = s.flow[d]
  BY <1>4, <1>6, <1>7, <1>8
<1>11. ASSUME NEW d \in {0, 1}
       PROVE  /\ t.flow[d].count = s.flow[d].count + (IF kd[m].band = d THEN kd[m].size ELSE 0)
              /\ t.flow[d].wantw = s.flow[d].wantw
              /\ t.flow[d].there <=> s.flow[d].there \/ kd[m].band = d
  <2>1. s.flow[d].count \in Nat
    BY <1>5, QueueIs
  <2> QED BY <1>1, <1>3, <1>6, <1>9, <1>10, <2>1
<1>12. /\ QOK(t, kd) /\ ToSet(t.list) = ToSet(s.list) \cup {m}
       /\ t.list # <<>> /\ (t.list[1] = m \/ (s.list # <<>> /\ t.list[1] = s.list[1]))
  <2>1. Heavier(s, kd, m, t)
    BY <1>11 DEF Heavier
  <2>2. t \in QueueT /\ t.list = InsertAt(s.list, j, m)
    BY <1>4
  <2>3. Inserted(s, kd, m, h, b, j, rank, t)
    BY <2>1, <2>2 DEF Inserted
  <2> QED BY <2>3, InsertQ
<1>13. ASSUME NEW w, Marked(s, w) PROVE Marked(t, w) /\ Kept(s, t)
  <2>1. Marked(u, w)
    BY <1>6, <1>13
  <2>2. u.flow[c].count \in Nat /\ w[1] \in Nat /\ n \in Nat
    BY <1>6, <2>1, QueueIs DEF Marked
  <2>3. g.hi = w[1] /\ g.lo = w[2] /\ (g.full => g.count >= w[1])
    BY <1>9, <2>1, <2>2 DEF Marked
  <2>4. Marked(t, w)
    BY <1>10, <1>13, <2>3 DEF Marked
  <2>5. ASSUME NEW d \in {0, 1}, Holds(s, d) PROVE Holds(t, d)
    <3>1. s.flow[d].lo = w[2] /\ t.flow[d].lo = w[2]
      BY <1>13, <2>4 DEF Marked
    <3>2. /\ s.flow[d].count \in Nat /\ s.flow[d].lo \in Nat /\ t.flow[d].count \in Nat
      BY <1>4, <1>5, QueueIs
    <3>3. t.flow[d].count >= s.flow[d].count
      BY <1>3, <1>11, <3>2
    <3> QED BY <1>4, <1>11, <2>5, <3>1, <3>2, <3>3 DEF Holds
  <2> QED BY <2>4, <2>5 DEF Kept
<1> QED BY <1>4, <1>11, <1>12, <1>13 DEF PutDone

\* The record that putq and putbq build.
PutRec(s, kd, m, j) ==
    [Qband(s, kd[m].band) EXCEPT !.flow[kd[m].band] = Add(@, kd[m].size),
                                 !.list = InsertAt(@, j, m)]

\* What they have in common, for a place that fits the message.
LEMMA PutAtIs ==
    ASSUME NEW s, NEW kd, QOK(s, kd), NEW m \in Msg, kd[m] \in GoodKind, NEW j,
           InsertAt(s.list, j, m) \in Seq(Msg), NEW v, v = PutRec(s, kd, m, j)
    PROVE  PutAt(s, kd, m, j, v) /\ v.first = s.first /\ v.last = s.last
<1>1. PICK c \in {0, 1} : c = kd[m].band
  BY RankIs
<1>2. PICK u : u = Qband(s, c)
  OBVIOUS
<1>3. PICK n \in Nat : n = kd[m].size
  BY RankIs
<1>4. /\ s \in QueueT /\ s.flow[0].there /\ (~s.flow[1].there => s.flow[1].count = 0)
  BY DEF QOK
<1>5. /\ u \in QueueT /\ u.flow[c].there /\ u.list = s.list /\ u.first = s.first
      /\ u.last = s.last /\ u.enab = s.enab
  BY <1>2, <1>4, QbandIs
<1>6. PICK g : g = Add(u.flow[c], n)
  OBVIOUS
<1>7. g \in FlowT
  BY <1>3, <1>5, <1>6, QueueIs, AddIs
<1>8. v = [u EXCEPT !.flow[c] = g, !.list = InsertAt(s.list, j, m)]
  BY <1>1, <1>2, <1>3, <1>5, <1>6 DEF PutRec
<1>9. /\ v \in QueueT /\ v.list = InsertAt(s.list, j, m) /\ v.first = s.first
      /\ v.last = s.last /\ v.enab = s.enab /\ v.flow = [u.flow EXCEPT ![c] = g]
  <2>1. [u.flow EXCEPT ![c] = g] \in [{0, 1} -> FlowT]
    BY <1>5, <1>7, QueueIs
  <2>2. v = [u EXCEPT !.flow = [u.flow EXCEPT ![c] = g], !.list = InsertAt(s.list, j, m)]
    BY <1>8
  <2> QED BY <1>5, <2>1, <2>2 DEF QueueT
<1> QED BY <1>1, <1>2, <1>3, <1>6, <1>9 DEF PutAt

\* With other pointers.
WithPtrs(v, x, y) == [v EXCEPT !.first = x, !.last = y]

\* The pointers of the band, by which of its messages the new one is.
LEMMA PutPtrs ==
    ASSUME NEW s, NEW kd, NEW m, NEW j, NEW v, PutAt(s, kd, m, j, v),
           NEW x \in Msg \cup {None}, NEW y \in Msg \cup {None},
           NEW t, t = WithPtrs(v, x, y)
    PROVE  PutAt(s, kd, m, j, t) /\ t.first = x /\ t.last = y
<1>1. v \in QueueT
  BY DEF PutAt
<1>2. /\ t \in QueueT /\ t.list = v.list /\ t.first = x /\ t.last = y /\ t.enab = v.enab
      /\ t.flow = v.flow
  BY <1>1 DEF QueueT, WithPtrs
<1> QED BY <1>2 DEF PutAt

\* putq keeps the queue sound.
LEMMA PutqIs ==
    ASSUME NEW s, NEW kd, QOK(s, kd), NEW m \in Msg, m \notin ToSet(s.list),
           kd[m] \in GoodKind, None \notin Msg
    PROVE  PutDone(s, kd, m, Putq(s, kd, m))
<1>1. PICK h, b \in 0 .. Len(s.list) : Shape(s.list, kd, h, b) /\ Ptrs(s, h, b)
  BY DEF QOK, Shaped
<1>2. PICK rank : rank = RankOf(kd, m)
  OBVIOUS
<1>3. PICK j : j = PutPlace(s, kd, m)
  OBVIOUS
<1>4. Listed(s.list, kd) /\ s.list \in Seq(Msg) /\ s \in QueueT
  BY ListIs DEF QOK
<1>5. j = IF rank = 2 THEN h + 1 ELSE IF rank = 1 THEN h + b + 1 ELSE Len(s.list) + 1
  BY <1>1, <1>2, <1>3, <1>4, PutPlaceIs
<1>6. h \in Nat /\ b \in Nat /\ h + b <= Len(s.list) /\ Len(s.list) \in Nat /\ rank \in {0, 1, 2}
  BY <1>1, <1>2, <1>4, RankIs DEF Shape
<1>7. Fits(s.list, h, b, j, rank) /\ j \in 1 .. Len(s.list) + 1
  BY <1>5, <1>6 DEF Fits
<1>8. InsertAt(s.list, j, m) \in Seq(Msg)
  BY <1>4, <1>7, InsertAtIs
<1>9. PICK v : v = PutRec(s, kd, m, j)
  OBVIOUS
<1>10. rank = 1 <=> kd[m].band # 0
  BY <1>2, RankIs
<1>11. s.first \in Msg \cup {None} /\ s.last \in Msg \cup {None}
  BY <1>4, QueueIs
<1>12. v.first = s.first /\ v.last = s.last /\ PutAt(s, kd, m, j, v)
  BY <1>8, <1>9, PutAtIs
<1>13. CASE kd[m].band = 0
  <2>1. Putq(s, kd, m) = v
    BY <1>3, <1>9, <1>13 DEF Putq, PutRec
  <2>2. Pointed(s, m, h, b, j, rank, v)
    BY <1>10, <1>12, <1>13 DEF Pointed
  <2> QED BY <1>1, <1>2, <1>7, <1>12, <2>1, <2>2, PutIs
<1>14. CASE kd[m].band # 0
  <2>1. PICK x : x = IF s.first = None THEN m ELSE s.first
    OBVIOUS
  <2>2. PICK t : t = WithPtrs(v, x, m)
    OBVIOUS
  <2>3. Putq(s, kd, m) = t
    BY <1>3, <1>9, <1>12, <1>14, <2>1, <2>2 DEF Putq, PutRec, WithPtrs
  <2>4. x \in Msg \cup {None} /\ m \in Msg \cup {None}
    BY <1>11, <2>1
  <2>5. PutAt(s, kd, m, j, t) /\ t.first = x /\ t.last = m
    BY ONLY <1>12, <2>2, <2>4, PutPtrs
  <2>6. rank = 1 /\ j = h + b + 1
    BY <1>5, <1>10, <1>14
  <2>7. s.first = None <=> b = 0
    <3>1. b # 0 => h + 1 \in 1 .. Len(s.list)
      BY <1>6
    <3>2. b # 0 => s.list[h + 1] \in Msg
      BY <1>4, <3>1
    <3> QED BY <1>1, <3>2 DEF Ptrs
  <2>8. j = h + 1 <=> b = 0
    BY <1>6, <2>6
  <2>9. Pointed(s, m, h, b, j, rank, t)
    BY <2>1, <2>5, <2>6, <2>7, <2>8 DEF Pointed
  <2> QED BY <1>1, <1>2, <1>7, <2>3, <2>5, <2>9, PutIs
<1> QED BY <1>13, <1>14

\* putbq keeps the queue sound.
LEMMA PutbqIs ==
    ASSUME NEW s, NEW kd, QOK(s, kd), NEW m \in Msg, m \notin ToSet(s.list),
           kd[m] \in GoodKind, None \notin Msg
    PROVE  PutDone(s, kd, m, Putbq(s, kd, m))
<1>1. PICK h, b \in 0 .. Len(s.list) : Shape(s.list, kd, h, b) /\ Ptrs(s, h, b)
  BY DEF QOK, Shaped
<1>2. PICK rank : rank = RankOf(kd, m)
  OBVIOUS
<1>3. PICK j : j = PutbqPlace(s, kd, m)
  OBVIOUS
<1>4. Listed(s.list, kd) /\ s.list \in Seq(Msg) /\ s \in QueueT
  BY ListIs DEF QOK
<1>5. j = IF rank = 2 THEN 1 ELSE IF rank = 1 THEN h + 1 ELSE h + b + 1
  BY <1>1, <1>2, <1>3, <1>4, PutbqPlaceIs
<1>6. h \in Nat /\ b \in Nat /\ h + b <= Len(s.list) /\ Len(s.list) \in Nat /\ rank \in {0, 1, 2}
  BY <1>1, <1>2, <1>4, RankIs DEF Shape
<1>7. Fits(s.list, h, b, j, rank) /\ j \in 1 .. Len(s.list) + 1
  BY <1>5, <1>6 DEF Fits
<1>8. InsertAt(s.list, j, m) \in Seq(Msg)
  BY <1>4, <1>7, InsertAtIs
<1>9. PICK v : v = PutRec(s, kd, m, j)
  OBVIOUS
<1>10. rank = 1 <=> kd[m].band # 0
  BY <1>2, RankIs
<1>11. s.first \in Msg \cup {None} /\ s.last \in Msg \cup {None}
  BY <1>4, QueueIs
<1>12. v.first = s.first /\ v.last = s.last /\ PutAt(s, kd, m, j, v)
  BY <1>8, <1>9, PutAtIs
<1>13. CASE kd[m].band = 0
  <2>1. Putbq(s, kd, m) = v
    BY <1>3, <1>9, <1>13 DEF Putbq, PutRec
  <2>2. Pointed(s, m, h, b, j, rank, v)
    BY <1>10, <1>12, <1>13 DEF Pointed
  <2> QED BY <1>1, <1>2, <1>7, <1>12, <2>1, <2>2, PutIs
<1>14. CASE kd[m].band # 0
  <2>1. PICK y : y = IF s.first = None THEN m ELSE s.last
    OBVIOUS
  <2>2. PICK t : t = WithPtrs(v, m, y)
    OBVIOUS
  <2>3. Putbq(s, kd, m) = t
    BY <1>3, <1>9, <1>12, <1>14, <2>1, <2>2 DEF Putbq, PutRec, WithPtrs
  <2>4. y \in Msg \cup {None} /\ m \in Msg \cup {None}
    BY <1>11, <2>1
  <2>5. PutAt(s, kd, m, j, t) /\ t.first = m /\ t.last = y
    BY ONLY <1>12, <2>2, <2>4, PutPtrs
  <2>6. rank = 1 /\ j = h + 1
    BY <1>5, <1>10, <1>14
  <2>7. s.first = None <=> b = 0
    <3>1. b # 0 => h + 1 \in 1 .. Len(s.list)
      BY <1>6
    <3>2. b # 0 => s.list[h + 1] \in Msg
      BY <1>4, <3>1
    <3> QED BY <1>1, <3>2 DEF Ptrs
  <2>8. j = h + b + 1 <=> b = 0
    BY <1>6, <2>6
  <2>9. Pointed(s, m, h, b, j, rank, t)
    BY <2>1, <2>5, <2>6, <2>7, <2>8 DEF Pointed
  <2> QED BY <1>1, <1>2, <1>7, <2>3, <2>5, <2>9, PutIs
<1> QED BY <1>13, <1>14

\* Bytes that have left a band.
LEMMA DrainIs ==
    ASSUME NEW s \in QueueT, NEW c \in {0, 1}, NEW n \in Nat, n <= s.flow[c].count,
           NEW kept \in BOOLEAN, NEW t, t = Drain(s, c, n, kept)
    PROVE  /\ t \in QueueT /\ t.list = s.list /\ t.first = s.first /\ t.last = s.last
           /\ t.flow[c].count = s.flow[c].count - n /\ t.flow[c].there = s.flow[c].there
           /\ \A d \in {0, 1} : d # c => t.flow[d] = s.flow[d]
           /\ Kept(s, t) /\ \A w : Marked(s, w) => Marked(t, w)
<1> DEFINE R == [there : BOOLEAN, count : Nat, hi : Nat, lo : Nat, full : BOOLEAN, wantw : BOOLEAN]
<1>1. PICK f : f = s.flow[c]
  OBVIOUS
<1>2. /\ f \in FlowT /\ f \in R /\ f.count \in Nat /\ f.hi \in Nat /\ f.lo \in Nat
      /\ f.lo \in 1 .. f.hi /\ f.full \in BOOLEAN /\ f.wantw \in BOOLEAN
      /\ (f.wantw \/ f.full => f.there)
  BY <1>1, QueueIs DEF FlowT
<1>3. PICK k \in Nat : k = f.count - n
  BY <1>1, <1>2
<1>4. PICK e \in BOOLEAN : e = (f.wantw /\ f.count >= f.lo /\ k < f.lo)
  OBVIOUS
<1>5. PICK g : g = [f EXCEPT !.count = k, !.full = f.full /\ k >= f.hi,
                             !.wantw = f.wantw /\ (kept \/ ~e)]
  OBVIOUS
<1>0. PICK a \in BOOLEAN : a = (s.enab \/ e)
  OBVIOUS
<1>6. t = WithFlow(s, c, g, a)
  BY <1>1, <1>3, <1>4, <1>5, <1>0 DEF Drain, WithFlow
<1>7. /\ g \in R /\ g.count = k /\ g.there = f.there /\ g.hi = f.hi /\ g.lo = f.lo
      /\ g.full = (f.full /\ k >= f.hi) /\ g.wantw = (f.wantw /\ (kept \/ ~e))
  <2>1. (f.full /\ k >= f.hi) \in BOOLEAN /\ (f.wantw /\ (kept \/ ~e)) \in BOOLEAN
    OBVIOUS
  <2> QED BY <1>2, <1>5, <2>1
<1>8. g \in FlowT
  BY <1>2, <1>7 DEF FlowT
<1>9. s.enab \in BOOLEAN /\ (s.enab \/ e) \in BOOLEAN
  BY QueueIs
<1>10. /\ t \in QueueT /\ t.list = s.list /\ t.first = s.first /\ t.last = s.last
       /\ t.enab = (s.enab \/ e) /\ t.flow[c] = g
       /\ \A d \in {0, 1} : d # c => t.flow[d] = s.flow[d]
  <2>1. /\ t \in QueueT /\ t.list = s.list /\ t.first = s.first /\ t.last = s.last
        /\ t.enab = a /\ t.flow[c] = g
        /\ \A d \in {0, 1} : d # c => t.flow[d] = s.flow[d]
    BY ONLY s \in QueueT, c \in {0, 1}, <1>0, <1>6, <1>8 DEF QueueT, WithFlow
  <2> QED BY <1>0, <2>1
<1>11. ASSUME NEW d \in {0, 1}, Holds(s, d) PROVE Holds(t, d)
  <2>1. CASE s.enab
    BY <1>9, <1>10, <2>1 DEF Holds
  <2>2. CASE d # c /\ ~s.enab
    BY <1>10, <1>11, <2>2 DEF Holds
  <2>3. CASE d = c /\ ~s.enab
    <3>1. f.wantw /\ f.count >= f.lo
      BY <1>1, <1>11, <2>3 DEF Holds
    <3>2. CASE k < f.lo
      BY <1>4, <1>9, <1>10, <3>1, <3>2 DEF Holds
    <3>3. CASE ~(k < f.lo)
      <4>1. e = FALSE
        BY <1>4, <3>3
      <4>3. k >= f.lo
        BY <1>2, <3>3
      <4>2. g.wantw /\ g.count >= g.lo
        BY <1>7, <3>1, <4>1, <4>3
      <4> QED BY <1>10, <2>3, <4>2 DEF Holds
    <3> QED BY <3>2, <3>3
  <2> QED BY <2>1, <2>2, <2>3
<1>12. ASSUME NEW w, Marked(s, w) PROVE Marked(t, w)
  <2>1. f.hi = w[1] /\ f.lo = w[2]
    BY <1>1, <1>12 DEF Marked
  <2>2. g.hi = w[1] /\ g.lo = w[2] /\ (g.full => g.count >= w[1])
    BY <1>7, <2>1
  <2> QED BY <1>10, <1>12, <2>2 DEF Marked
<1> QED BY <1>1, <1>3, <1>7, <1>10, <1>11, <1>12 DEF Kept

\* The pointers without the message at i.
Unpointed(s, h, b, i, t) ==
    IF h < i /\ i <= h + b
    THEN /\ t.first = IF i # h + 1 THEN s.first ELSE IF b = 1 THEN None ELSE s.list[h + 2]
         /\ t.last = IF i # h + b THEN s.last ELSE IF b = 1 THEN None ELSE s.list[i - 1]
    ELSE t.first = s.first /\ t.last = s.last
\* A message that has left its place.
Removed(s, kd, h, b, i, t) ==
    /\ QOK(s, kd) /\ Shape(s.list, kd, h, b) /\ Ptrs(s, h, b) /\ i \in 1 .. Len(s.list)
    /\ t \in QueueT /\ Closed(s.list, i, t.list) /\ Unpointed(s, h, b, i, t)
    /\ \A c \in {0, 1} :
         /\ s.flow[c].count
              = t.flow[c].count + (IF kd[s.list[i]].band = c THEN kd[s.list[i]].size ELSE 0)
         /\ t.flow[c].there = s.flow[c].there

\* A message that goes leaves a queue as it must be.
LEMMA RemoveQ ==
    ASSUME NEW s, NEW kd, NEW h, NEW b, NEW i, NEW t, Removed(s, kd, h, b, i, t)
    PROVE  QOK(t, kd) /\ ToSet(t.list) = ToSet(s.list) \ {s.list[i]}
<1> USE DEF Removed
<1> DEFINE l == s.list
           r == t.list
<1>1. Listed(l, kd) /\ Counted(s, kd) /\ l \in Seq(Msg) /\ Len(l) \in Nat
  BY ListIs DEF QOK
<1>2. h \in Nat /\ b \in Nat /\ h + b <= Len(l) /\ i \in Nat
  BY DEF Shape
<1>3. /\ Listed(r, kd)
      /\ Shape(r, kd, IF i <= h THEN h - 1 ELSE h, IF h < i /\ i <= h + b THEN b - 1 ELSE b)
      /\ ToSet(r) = ToSet(l) \ {l[i]}
  <2>1. Listed(l, kd) /\ Shape(l, kd, h, b) /\ i \in 1 .. Len(l) /\ Closed(l, i, r)
    BY <1>1
  <2> HIDE DEF l, r
  <2> QED BY ONLY <2>1, RemoveShape
<1>4. PICK g \in Nat, d \in Nat : /\ g = (IF i <= h THEN h - 1 ELSE h)
                                  /\ d = (IF h < i /\ i <= h + b THEN b - 1 ELSE b)
  BY <1>2
<1>5. Shape(r, kd, g, d) /\ g + d <= Len(r)
  BY <1>3, <1>4 DEF Shape
<1>6. /\ Len(r) = Len(l) - 1
      /\ \A k \in 1 .. Len(l) - 1 : r[k] = IF k < i THEN l[k] ELSE l[k + 1]
  BY DEF Closed
<1>7. d # 0 => r[g + 1] = t.first /\ r[g + d] = t.last
  <2> SUFFICES ASSUME d # 0 PROVE r[g + 1] = t.first /\ r[g + d] = t.last
    OBVIOUS
  <2>0. b # 0 => l[h + 1] = s.first /\ l[h + b] = s.last
    BY DEF Ptrs
  <2>1. g + 1 \in 1 .. Len(l) - 1 /\ g + d \in 1 .. Len(l) - 1
    BY <1>1, <1>5, <1>6
  <2>2. CASE i <= h
    <3>1. g = h - 1 /\ d = b /\ t.first = s.first /\ t.last = s.last
      BY <1>2, <1>4, <2>2 DEF Unpointed
    <3>2. ~(g + 1 < i) /\ ~(g + d < i) /\ (g + 1) + 1 = h + 1 /\ (g + d) + 1 = h + b
      BY <1>2, <2>2, <3>1
    <3>3. r[g + 1] = l[(g + 1) + 1] /\ r[g + d] = l[(g + d) + 1]
      BY <1>6, <2>1, <3>2
    <3> QED BY <2>0, <3>1, <3>2, <3>3
  <2>3. CASE i > h + b
    <3>1. g = h /\ d = b /\ t.first = s.first /\ t.last = s.last
      BY <1>2, <1>4, <2>3 DEF Unpointed
    <3>2. g + 1 < i /\ g + d < i
      BY <1>2, <2>3, <3>1
    <3> QED BY <1>6, <2>0, <2>1, <3>1, <3>2
  <2>4. CASE h < i /\ i <= h + b
    <3>1. /\ g = h /\ d = b - 1 /\ b # 1 /\ b # 0
          /\ t.first = (IF i # h + 1 THEN s.first ELSE l[h + 2])
          /\ t.last = (IF i # h + b THEN s.last ELSE l[i - 1])
      BY <1>2, <1>4, <2>4 DEF Unpointed
    <3>2. r[g + 1] = t.first
      <4>1. CASE i = h + 1
        <5>1. ~(g + 1 < i) /\ (g + 1) + 1 = h + 2
          BY <1>2, <3>1, <4>1
        <5>2. r[g + 1] = l[(g + 1) + 1]
          BY <1>6, <2>1, <5>1
        <5> QED BY <3>1, <4>1, <5>1, <5>2
      <4>2. CASE i # h + 1
        <5>1. g + 1 < i
          BY <1>2, <2>4, <3>1, <4>2
        <5> QED BY <1>6, <2>0, <2>1, <3>1, <4>2, <5>1
      <4> QED BY <4>1, <4>2
    <3>3. r[g + d] = t.last
      <4>1. CASE i = h + b
        <5>0. b = d + 1 /\ i = h + b /\ g = h
          BY <1>2, <1>4, <3>1, <4>1
        <5>1. g + d < i /\ g + d = i - 1
          BY ONLY <1>2, d \in Nat, <5>0
        <5> QED BY <1>6, <2>1, <3>1, <4>1, <5>1
      <4>2. CASE i # h + b
        <5>0. b = d + 1 /\ i <= h + b /\ i # h + b /\ g = h
          BY <1>2, <1>4, <2>4, <3>1, <4>2
        <5>1. ~(g + d < i) /\ (g + d) + 1 = h + b
          BY ONLY <1>2, d \in Nat, <5>0
        <5>2. r[g + d] = l[(g + d) + 1]
          BY <1>6, <2>1, <5>1
        <5> QED BY <2>0, <3>1, <4>2, <5>1, <5>2
      <4> QED BY <4>1, <4>2
    <3> QED BY <3>2, <3>3
  <2> QED BY <1>2, <2>2, <2>3, <2>4
<1>8. d = 0 => t.first = None /\ t.last = None
  <2> SUFFICES ASSUME d = 0 PROVE t.first = None /\ t.last = None
    OBVIOUS
  <2>1. CASE h < i /\ i <= h + b
    <3>1. b = 1 /\ i = h + 1 /\ i = h + b
      BY <1>2, <1>4, <2>1
    <3> QED BY <2>1, <3>1 DEF Unpointed
  <2>2. CASE ~(h < i /\ i <= h + b)
    BY <1>4, <2>2 DEF Unpointed, Ptrs
  <2> QED BY <2>1, <2>2
<1>9. Shaped(t, kd)
  <2>1. Ptrs(t, g, d)
    BY <1>7, <1>8 DEF Ptrs
  <2>2. g \in 0 .. Len(t.list) /\ d \in 0 .. Len(t.list)
    BY <1>1, <1>5, <1>6
  <2> QED BY <1>5, <2>1, <2>2 DEF Shaped
<1>10. Counted(t, kd)
  <2>1. ASSUME NEW c \in {0, 1}
        PROVE  t.flow[c].count = Weight(c, kd, t.list)
    <3>1. /\ Weight(c, kd, r) \in Nat
          /\ Weight(c, kd, l) = Weight(c, kd, r) + (IF kd[l[i]].band = c THEN kd[l[i]].size ELSE 0)
      <4>1. Listed(l, kd) /\ i \in 1 .. Len(l) /\ Closed(l, i, r) /\ Listed(r, kd)
        BY <1>1, <1>3
      <4> HIDE DEF l, r
      <4> QED BY ONLY <4>1, c \in {0, 1}, WeightLess
    <3>2. s.flow[c].count = Weight(c, kd, l)
      BY <1>1 DEF Counted
    <3>3. PICK n \in Nat : n = IF kd[l[i]].band = c THEN kd[l[i]].size ELSE 0
      BY <1>1, RankIs DEF Listed
    <3>4. t.flow[c].count \in Nat
      BY QueueIs
    <3>5. s.flow[c].count = t.flow[c].count + n /\ s.flow[c].count = Weight(c, kd, r) + n
      BY <3>1, <3>2, <3>3
    <3> HIDE DEF r
    <3>6. \A x, y \in Nat : x + n = y + n => x = y
      OBVIOUS
    <3>7. t.flow[c].count = Weight(c, kd, r)
      BY <3>1, <3>4, <3>5, <3>6
    <3> QED BY <3>7 DEF r
  <2> QED BY <2>1 DEF Counted
<1>11. t.flow[0].there /\ (~t.flow[1].there => t.flow[1].count = 0)
  <2>1. s.flow[0].there /\ (~s.flow[1].there => s.flow[1].count = 0)
    BY DEF QOK
  <2>2. t.flow[1].count \in Nat
    BY QueueIs
  <2>3. PICK n \in Nat : n = IF kd[l[i]].band = 1 THEN kd[l[i]].size ELSE 0
    BY <1>1, RankIs DEF Listed
  <2>4. s.flow[1].count = t.flow[1].count + n /\ t.flow[1].there = s.flow[1].there
        /\ t.flow[0].there = s.flow[0].there
    BY <2>3
  <2> QED BY ONLY <2>1, <2>2, <2>3, <2>4, SumZero
<1> QED BY <1>3, <1>9, <1>10, <1>11 DEF QOK

\* What follows when m has left the queue.
TakeDone(s, kd, m, t) ==
    /\ QOK(t, kd) /\ ToSet(t.list) = ToSet(s.list) \ {m}
    /\ Kept(s, t) /\ \A w : Marked(s, w) => Marked(t, w)
\* u is s without the message i, but for its weight; then t is u without it.
Unweighed(s, h, b, i, u) ==
    /\ u \in QueueT /\ Closed(s.list, i, u.list) /\ Unpointed(s, h, b, i, u)
    /\ u.flow = s.flow /\ u.enab = s.enab

\* The drain that follows passes the low water mark or leaves the driver's mark.
LEMMA TakeIs ==
    ASSUME NEW s, NEW kd, QOK(s, kd), NEW h, NEW b, Shape(s.list, kd, h, b), Ptrs(s, h, b),
           NEW i \in 1 .. Len(s.list), NEW m, m = s.list[i],
           NEW u, Unweighed(s, h, b, i, u), NEW kept \in BOOLEAN,
           NEW t, t = Drain(u, kd[m].band, kd[m].size, kept)
    PROVE  TakeDone(s, kd, m, t) /\ t.list = u.list
<1>0. /\ u \in QueueT /\ Closed(s.list, i, u.list) /\ Unpointed(s, h, b, i, u)
      /\ u.flow = s.flow /\ u.enab = s.enab
  BY DEF Unweighed
<1>1. Listed(s.list, kd) /\ Counted(s, kd) /\ s \in QueueT
  BY DEF QOK
<1>2. kd[m] \in GoodKind
  BY <1>1, ListIs
<1>3. PICK c \in {0, 1} : c = kd[m].band
  BY <1>2, RankIs
<1>4. PICK n \in Nat : n = kd[m].size
  BY <1>2, RankIs
<1>5. Closed(s.list, i, u.list) /\ Shape(s.list, kd, h, b)
  BY <1>0
<1>6. Listed(u.list, kd)
  BY ONLY <1>1, <1>5, i \in 1 .. Len(s.list), RemoveShape
<1>7. n <= s.flow[c].count
  <2>1. /\ Weight(c, kd, u.list) \in Nat
        /\ Weight(c, kd, s.list)
             = Weight(c, kd, u.list) + (IF kd[s.list[i]].band = c THEN kd[s.list[i]].size ELSE 0)
    BY ONLY <1>1, <1>5, <1>6, c \in {0, 1}, i \in 1 .. Len(s.list), WeightLess
  <2>2. s.flow[c].count = Weight(c, kd, u.list) + n
    BY <1>1, <1>3, <1>4, <2>1 DEF Counted
  <2> QED BY <2>1, <2>2
<1>8. u \in QueueT /\ n <= u.flow[c].count /\ t = Drain(u, c, n, kept)
  BY ONLY <1>0, <1>3, <1>4, <1>7, t = Drain(u, kd[m].band, kd[m].size, kept)
<1>9. /\ t \in QueueT /\ t.list = u.list /\ t.first = u.first /\ t.last = u.last
      /\ t.flow[c].count = u.flow[c].count - n /\ t.flow[c].there = u.flow[c].there
      /\ \A d \in {0, 1} : d # c => t.flow[d] = u.flow[d]
      /\ Kept(u, t) /\ \A w : Marked(u, w) => Marked(t, w)
  BY ONLY <1>8, c \in {0, 1}, n \in Nat, kept \in BOOLEAN, DrainIs, SMTT(30)
<1>10. Kept(s, t) /\ \A w : Marked(s, w) => Marked(t, w)
  <2>1. \A d \in {0, 1} : Holds(s, d) <=> Holds(u, d)
    BY ONLY <1>0 DEF Holds
  <2>2. \A w : Marked(s, w) <=> Marked(u, w)
    BY ONLY <1>0 DEF Marked
  <2> QED BY ONLY <1>9, <2>1, <2>2 DEF Kept
<1>11. ASSUME NEW d \in {0, 1}
       PROVE  /\ s.flow[d].count
                   = t.flow[d].count + (IF kd[s.list[i]].band = d THEN kd[s.list[i]].size ELSE 0)
              /\ t.flow[d].there = s.flow[d].there
  <2>1. s.flow[d].count \in Nat /\ t.flow[d].count \in Nat
    BY ONLY <1>1, <1>9, d \in {0, 1}, QueueIs
  <2>2. CASE d = c
    <3>1. t.flow[d].count = s.flow[d].count - n /\ t.flow[d].there = s.flow[d].there
      BY ONLY <1>0, <1>9, <2>2
    <3>2. s.flow[d].count = t.flow[d].count + n
      BY ONLY <2>1, <3>1, n \in Nat
    <3> QED BY ONLY <1>3, <1>4, <2>2, <3>1, <3>2, m = s.list[i]
  <2>3. CASE d # c
    <3>1. t.flow[d] = s.flow[d]
      BY ONLY <1>0, <1>9, <2>3, d \in {0, 1}
    <3>2. ~(kd[s.list[i]].band = d)
      BY ONLY <1>3, <2>3, m = s.list[i]
    <3> QED BY ONLY <2>1, <3>1, <3>2
  <2> QED BY ONLY <2>2, <2>3
<1>12. Unpointed(s, h, b, i, t)
  BY ONLY <1>0, <1>9 DEF Unpointed
<1>13. Removed(s, kd, h, b, i, t)
  BY <1>5, <1>9, <1>11, <1>12, Zenon DEF Removed
<1>14. QOK(t, kd) /\ ToSet(t.list) = ToSet(s.list) \ {s.list[i]}
  BY ONLY <1>13, RemoveQ
<1> QED BY ONLY <1>9, <1>10, <1>14, m = s.list[i] DEF TakeDone

\* getq takes the first message.
LEMMA GetqIs ==
    ASSUME NEW s, NEW kd, QOK(s, kd), s.list # <<>>, None \notin Msg, NEW kept \in BOOLEAN,
           NEW t, t = Getq(s, kd, kept)
    PROVE  TakeDone(s, kd, s.list[1], t) /\ t.list = Tail(s.list)
<1> DEFINE l == s.list
<1>1. PICK h, b \in 0 .. Len(l) : Shape(l, kd, h, b) /\ Ptrs(s, h, b)
  BY DEF QOK, Shaped
<1>2. Listed(l, kd) /\ l \in Seq(Msg) /\ Len(l) \in Nat /\ s \in QueueT
  BY ListIs DEF QOK
<1>3. 1 \in 1 .. Len(l) /\ Head(l) = l[1]
  BY <1>2
<1>4. h \in Nat /\ b \in Nat /\ h + b <= Len(l)
  BY <1>1 DEF Shape
<1>5. PICK m : m = l[1]
  OBVIOUS
<1>6. kd[m] \in GoodKind /\ kd[m].band \in {0, 1}
  BY <1>2, <1>3, <1>5, ListIs, RankIs
<1>7. kd[m].band = 1 <=> h = 0 /\ b > 0
  <2>1. RankOf(kd, l[1]) = IF 1 <= h THEN 2 ELSE IF 1 <= h + b THEN 1 ELSE 0
    BY <1>1, <1>3 DEF Shape
  <2>2. RankOf(kd, m) = 1 <=> kd[m].band = 1
    BY <1>6, RankIs
  <2> QED BY <1>4, <1>5, <2>1, <2>2
<1>8. PICK v : v = [s EXCEPT !.list = Tail(l)]
  OBVIOUS
<1>9. /\ v \in QueueT /\ v.list = Tail(l) /\ v.first = s.first /\ v.last = s.last
      /\ v.flow = s.flow /\ v.enab = s.enab
  <2>1. Tail(l) \in Seq(Msg)
    BY <1>2, <1>3
  <2> QED BY <1>2, <1>8, <2>1 DEF QueueT
<1>10. Closed(l, 1, Tail(l))
  <2>1. Tail(l) \in Seq(Msg) /\ Len(Tail(l)) = Len(l) - 1
    BY <1>2, <1>3
  <2>2. \A k \in 1 .. Len(l) - 1 : Tail(l)[k] = l[k + 1] /\ ~(k < 1)
    BY <1>2, <1>3
  <2> QED BY <2>1, <2>2 DEF Closed
<1>11. CASE kd[m].band = 0
  <2>1. t = Drain(v, kd[m].band, kd[m].size, FALSE)
    BY <1>3, <1>5, <1>8, <1>11 DEF Getq
  <2>2. ~(h < 1 /\ 1 <= h + b)
    BY <1>4, <1>7, <1>11
  <2>3. Unweighed(s, h, b, 1, v)
    BY <1>9, <1>10, <2>2 DEF Unweighed, Unpointed
  <2>4. TakeDone(s, kd, m, t) /\ t.list = v.list
    <3>1. FALSE \in BOOLEAN /\ QOK(s, kd) /\ Shape(s.list, kd, h, b) /\ Ptrs(s, h, b)
          /\ 1 \in 1 .. Len(s.list) /\ m = s.list[1]
      BY <1>1, <1>3, <1>5
    <3>2. PICK a \in BOOLEAN : a = FALSE
      OBVIOUS
    <3>3. t = Drain(v, kd[m].band, kd[m].size, a)
      BY <2>1, <3>2
    <3> QED BY ONLY <2>3, <3>1, <3>3, TakeIs
  <2> QED BY <1>5, <1>9, <2>4
<1>12. CASE kd[m].band = 1
  <2>1. h = 0 /\ b > 0 /\ b # 0
    BY <1>4, <1>7, <1>12
  <2>2. PICK x, y : /\ x = (IF s.first = s.last THEN None ELSE l[2])
                    /\ y = (IF s.first = s.last THEN None ELSE s.last)
    OBVIOUS
  <2>3. PICK u : u = WithPtrs(v, x, y)
    OBVIOUS
  <2>4. t = Drain(u, kd[m].band, kd[m].size, kept)
    <3>1. Drain(u, kd[m].band, kd[m].size, kept /\ kd[m].band # 0)
            = Drain(u, kd[m].band, kd[m].size, kept)
      BY <1>12 DEF Drain
    <3>2. t = Drain(u, kd[m].band, kd[m].size, kept /\ kd[m].band # 0)
      BY <1>3, <1>5, <1>8, <1>9, <1>12, <2>2, <2>3 DEF Getq, WithPtrs
    <3> QED BY <3>1, <3>2
  <2>5. s.first = l[1] /\ s.last = l[b]
    BY <1>1, <1>4, <2>1 DEF Ptrs
  <2>6. s.first = s.last <=> b = 1
    <3>1. b \in 1 .. Len(l)
      BY <1>4, <2>1
    <3>2. l[1] = l[b] => 1 = b
      BY <1>2, <1>3, <3>1 DEF Listed
    <3> QED BY <2>5, <3>2
  <2>7. b # 1 => l[2] \in Msg
    <3>1. b # 1 => 2 \in 1 .. Len(l)
      BY <1>2, <1>4, <2>1
    <3> QED BY <1>2, <3>1
  <2>8. s.last \in Msg \cup {None}
    BY <1>2, QueueIs
  <2>9. x \in Msg \cup {None} /\ y \in Msg \cup {None}
    BY <2>2, <2>6, <2>7, <2>8
  <2>10. /\ u \in QueueT /\ u.list = v.list /\ u.first = x /\ u.last = y
         /\ u.flow = s.flow /\ u.enab = s.enab
    BY <1>9, <2>3, <2>9 DEF QueueT, WithPtrs
  <2>11. Unpointed(s, h, b, 1, u)
    <3>1. h < 1 /\ 1 <= h + b /\ 1 = h + 1 /\ h + 2 = 2 /\ (1 = h + b <=> b = 1)
      BY <1>4, <2>1
    <3> QED BY <2>1, <2>2, <2>6, <2>10, <3>1 DEF Unpointed
  <2>12. Unweighed(s, h, b, 1, u)
    BY <1>9, <1>10, <2>10, <2>11 DEF Unweighed
  <2>13. TakeDone(s, kd, m, t) /\ t.list = u.list
    <3>1. QOK(s, kd) /\ Shape(s.list, kd, h, b) /\ Ptrs(s, h, b)
          /\ 1 \in 1 .. Len(s.list) /\ m = s.list[1] /\ kept \in BOOLEAN
      BY <1>1, <1>3, <1>5
    <3> QED BY ONLY <2>4, <2>12, <3>1, TakeIs
  <2> QED BY <1>5, <1>9, <2>10, <2>13
<1> QED BY <1>6, <1>11, <1>12

\* rmvq takes the message m out, from its place i.
RmvqAt(s, kd, m, i) ==
    LET b == kd[m].band
        Same(j) == IF j \in DOMAIN s.list /\ kd[s.list[j]].band = b THEN s.list[j] ELSE None
        t == [s EXCEPT !.list = RemoveAt(@, i)]
        u == IF b = 0 THEN t
             ELSE [t EXCEPT !.first = IF @ = m THEN Same(i + 1) ELSE @,
                            !.last = IF @ = m THEN Same(i - 1) ELSE @]
    IN  Drain(u, b, kd[m].size, FALSE)

\* rmvq of a message that is there.
LEMMA RmvqIs ==
    ASSUME NEW s, NEW kd, QOK(s, kd), NEW m \in ToSet(s.list), None \notin Msg,
           NEW t, t = Rmvq(s, kd, m)
    PROVE  TakeDone(s, kd, m, t)
<1> DEFINE l == s.list
           Same(j) == IF j \in DOMAIN l /\ kd[l[j]].band = kd[m].band THEN l[j] ELSE None
<1>1. PICK h, b \in 0 .. Len(l) : Shape(l, kd, h, b) /\ Ptrs(s, h, b)
  BY DEF QOK, Shaped
<1>2. Listed(l, kd) /\ l \in Seq(Msg) /\ Len(l) \in Nat /\ s \in QueueT
  BY ListIs DEF QOK
<1>3. PICK i \in 1 .. Len(l) : m = l[i]
  BY <1>2, ListIs
<1>4. h \in Nat /\ b \in Nat /\ h + b <= Len(l) /\ i \in Nat
  BY <1>1 DEF Shape
<1>5. SelectInSeq(l, LAMBDA x : x = m) = i
  <2>1. {j \in 1 .. Len(l) : l[j] = m} = {i} /\ Min({i}) = i
    BY ONLY <1>2, <1>3, i \in 1 .. Len(l), IndexIs
  <2>2. SelectInSeq(l, LAMBDA x : x = m)
          = IF {j \in 1 .. Len(l) : l[j] = m} # {} THEN Min({j \in 1 .. Len(l) : l[j] = m}) ELSE 0
    BY DEF SelectInSeq
  <2> QED BY <2>1, <2>2
<1>6. kd[m] \in GoodKind /\ kd[m].band \in {0, 1}
  BY <1>2, <1>3, ListIs, RankIs
<1>7. \A k \in 1 .. Len(l) : kd[l[k]].band = 1 <=> h < k /\ k <= h + b
  <2> SUFFICES ASSUME NEW k \in 1 .. Len(l) PROVE kd[l[k]].band = 1 <=> h < k /\ k <= h + b
    OBVIOUS
  <2>1. RankOf(kd, l[k]) = IF k <= h THEN 2 ELSE IF k <= h + b THEN 1 ELSE 0
    BY <1>1 DEF Shape
  <2>2. RankOf(kd, l[k]) = 1 <=> kd[l[k]].band = 1
    BY <1>2, ListIs, RankIs
  <2> QED BY <1>4, <2>1, <2>2
<1>8. PICK v : v = [s EXCEPT !.list = RemoveAt(l, i)]
  OBVIOUS
<1>9. /\ RemoveAt(l, i) \in Seq(Msg) /\ Len(RemoveAt(l, i)) = Len(l) - 1
      /\ \A k \in 1 .. Len(l) - 1 : RemoveAt(l, i)[k] = IF k < i THEN l[k] ELSE l[k + 1]
  BY ONLY <1>2, i \in 1 .. Len(l), RemoveAtIs
<1>10. /\ v \in QueueT /\ v.list = RemoveAt(l, i) /\ v.first = s.first /\ v.last = s.last
       /\ v.flow = s.flow /\ v.enab = s.enab
  BY <1>2, <1>8, <1>9 DEF QueueT
<1>11. Closed(l, i, v.list)
  BY <1>9, <1>10 DEF Closed
<1>12. QOK(s, kd) /\ Shape(s.list, kd, h, b) /\ Ptrs(s, h, b)
       /\ i \in 1 .. Len(s.list) /\ m = s.list[i] /\ FALSE \in BOOLEAN
  BY <1>1, <1>3
<1>13. CASE kd[m].band = 0
  <2>1. t = Drain(v, kd[m].band, kd[m].size, FALSE)
    BY <1>5, <1>8, <1>13 DEF Rmvq
  <2>2. ~(h < i /\ i <= h + b)
    BY <1>3, <1>7, <1>13
  <2>3. Unweighed(s, h, b, i, v)
    BY <1>10, <1>11, <2>2 DEF Unweighed, Unpointed
  <2> QED BY ONLY <2>1, <2>3, <1>12, TakeIs
<1>14. CASE kd[m].band = 1
  <2>1. h < i /\ i <= h + b /\ b # 0
    BY <1>3, <1>4, <1>7, <1>14
  <2>2. PICK x, y : /\ x = (IF s.first = m THEN Same(i + 1) ELSE s.first)
                    /\ y = (IF s.last = m THEN Same(i - 1) ELSE s.last)
    OBVIOUS
  <2>3. PICK u : u = WithPtrs(v, x, y)
    OBVIOUS
  <2>4. t = Drain(u, kd[m].band, kd[m].size, FALSE)
    <3>0. t = RmvqAt(s, kd, m, i)
      <4>1. Rmvq(s, kd, m) = RmvqAt(s, kd, m, SelectInSeq(s.list, LAMBDA e : e = m))
        BY DEF Rmvq, RmvqAt
      <4> QED BY ONLY t = Rmvq(s, kd, m), <1>5, <4>1
    <3>1. t = Drain([v EXCEPT !.first = IF @ = m THEN Same(i + 1) ELSE @,
                              !.last = IF @ = m THEN Same(i - 1) ELSE @],
                    kd[m].band, kd[m].size, FALSE)
      BY <1>8, <1>14, <3>0 DEF RmvqAt
    <3> HIDE DEF Same
    <3>2. [v EXCEPT !.first = IF @ = m THEN Same(i + 1) ELSE @,
                    !.last = IF @ = m THEN Same(i - 1) ELSE @] = u
      BY <1>10, <2>2, <2>3 DEF WithPtrs
    <3> QED BY <3>1, <3>2
  <2>5. /\ h + 1 \in 1 .. Len(l) /\ h + b \in 1 .. Len(l)
        /\ s.first = l[h + 1] /\ s.last = l[h + b]
    BY <1>1, <1>2, <1>4, <2>1 DEF Ptrs
  <2>6. (s.first = m <=> i = h + 1) /\ (s.last = m <=> i = h + b)
    BY <1>2, <1>3, <2>5 DEF Listed
  <2>7. i = h + 1 => Same(i + 1) = IF b = 1 THEN None ELSE l[h + 2]
    <3> SUFFICES ASSUME i = h + 1 PROVE Same(i + 1) = IF b = 1 THEN None ELSE l[h + 2]
      OBVIOUS
    <3>1. i + 1 = h + 2 /\ DOMAIN l = 1 .. Len(l)
      BY <1>2, <1>4
    <3>2. CASE b = 1
      <4>1. ~(h < h + 2 /\ h + 2 <= h + b)
        BY <1>4, <3>2
      <4>2. h + 2 \in 1 .. Len(l) => kd[l[h + 2]].band # 1
        BY <1>7, <4>1
      <4> QED BY <1>14, <3>1, <3>2, <4>2
    <3>3. CASE b # 1
      <4>1. h < h + 2 /\ h + 2 <= h + b /\ h + 2 \in 1 .. Len(l)
        BY <1>2, <1>4, <2>1, <3>3
      <4>2. kd[l[h + 2]].band = 1
        BY <1>7, <4>1
      <4> QED BY <1>14, <3>1, <3>3, <4>1, <4>2
    <3> QED BY <3>2, <3>3
  <2>8. i = h + b => Same(i - 1) = IF b = 1 THEN None ELSE l[i - 1]
    <3> SUFFICES ASSUME i = h + b PROVE Same(i - 1) = IF b = 1 THEN None ELSE l[i - 1]
      OBVIOUS
    <3>1. DOMAIN l = 1 .. Len(l)
      BY <1>2
    <3>2. CASE b = 1
      <4>1. ~(h < i - 1)
        BY <1>4, <3>2
      <4>2. i - 1 \in 1 .. Len(l) => kd[l[i - 1]].band # 1
        BY <1>7, <4>1
      <4> QED BY <1>14, <3>1, <3>2, <4>2
    <3>3. CASE b # 1
      <4>1. h < i - 1 /\ i - 1 <= h + b /\ i - 1 \in 1 .. Len(l)
        BY <1>2, <1>4, <2>1, <3>3
      <4>2. kd[l[i - 1]].band = 1
        BY <1>7, <4>1
      <4> QED BY <1>14, <3>1, <3>3, <4>1, <4>2
    <3> QED BY <3>2, <3>3
  <2>9. x \in Msg \cup {None} /\ y \in Msg \cup {None}
    <3>1. DOMAIN l = 1 .. Len(l) /\ \A k \in 1 .. Len(l) : l[k] \in Msg
      BY <1>2
    <3>2. Same(i + 1) \in Msg \cup {None} /\ Same(i - 1) \in Msg \cup {None}
      BY <3>1
    <3>3. s.first \in Msg \cup {None} /\ s.last \in Msg \cup {None}
      BY <1>2, QueueIs
    <3> HIDE DEF Same
    <3> QED BY <2>2, <3>2, <3>3
  <2>10. /\ u \in QueueT /\ u.list = v.list /\ u.first = x /\ u.last = y
         /\ u.flow = s.flow /\ u.enab = s.enab
    BY <1>10, <2>3, <2>9 DEF QueueT, WithPtrs
  <2>11. Unpointed(s, h, b, i, u)
    <3> HIDE DEF Same
    <3> QED BY <2>1, <2>2, <2>6, <2>7, <2>8, <2>10 DEF Unpointed
  <2>12. Unweighed(s, h, b, i, u)
    BY <1>10, <1>11, <2>10, <2>11 DEF Unweighed
  <2> QED BY ONLY <2>4, <2>12, <1>12, TakeIs
<1> QED BY <1>6, <1>13, <1>14

\* The flow of band c changes, but not what it counts.
LEMMA ReflowIs ==
    ASSUME NEW s, NEW kd, QOK(s, kd), NEW c \in {0, 1}, NEW f \in FlowT, NEW e \in BOOLEAN,
           f.count = s.flow[c].count, s.flow[c].there => f.there,
           NEW t, t = WithFlow(s, c, f, e)
    PROVE  /\ QOK(t, kd) /\ t.list = s.list /\ t.enab = e /\ t.flow[c] = f
           /\ \A d \in {0, 1} : d # c => t.flow[d] = s.flow[d]
<1>1. s \in QueueT
  BY DEF QOK
<1>2. /\ t \in QueueT /\ t.list = s.list /\ t.first = s.first /\ t.last = s.last
      /\ t.enab = e /\ t.flow[c] = f
      /\ \A d \in {0, 1} : d # c => t.flow[d] = s.flow[d]
  BY ONLY <1>1, c \in {0, 1}, f \in FlowT, e \in BOOLEAN, t = WithFlow(s, c, f, e)
     DEF QueueT, WithFlow
<1>3. ASSUME NEW d \in {0, 1}
      PROVE  t.flow[d].count = s.flow[d].count /\ (s.flow[d].there => t.flow[d].there)
  BY <1>2
<1>4. QOK(t, kd)
  BY <1>2, <1>3, FlowOnly
<1> QED BY <1>2, <1>4

\* What follows when the list stays.
FlowDone(s, kd, t) ==
    /\ QOK(t, kd) /\ t.list = s.list
    /\ \A w : Marked(s, w) => Marked(t, w) /\ Kept(s, t)

\* getq of an empty queue.
LEMMA GetqEmptyIs ==
    ASSUME NEW s, NEW kd, QOK(s, kd), NEW t, t = GetqEmpty(s)
    PROVE  FlowDone(s, kd, t) /\ Kept(s, t)
<1>1. s \in QueueT
  BY DEF QOK
<1>2. CASE s.flow[0].wantw /\ s.flow[0].count < s.flow[0].lo
  <2>1. PICK f : f = [s.flow[0] EXCEPT !.wantw = FALSE]
    OBVIOUS
  <2>2. s.flow[0] \in FlowT
    BY <1>1, QueueIs
  <2>3. /\ f \in FlowT /\ f.count = s.flow[0].count /\ f.there = s.flow[0].there
        /\ f.hi = s.flow[0].hi /\ f.lo = s.flow[0].lo /\ f.full = s.flow[0].full
    BY <2>1, <2>2 DEF FlowT
  <2>4. t = WithFlow(s, 0, f, TRUE)
    BY <1>2, <2>1 DEF GetqEmpty, WithFlow
  <2>5. /\ QOK(t, kd) /\ t.list = s.list /\ t.enab = TRUE /\ t.flow[0] = f
        /\ \A d \in {0, 1} : d # 0 => t.flow[d] = s.flow[d]
    <3>1. PICK c \in {0, 1}, e \in BOOLEAN : c = 0 /\ e = TRUE
      OBVIOUS
    <3>2. /\ f \in FlowT /\ f.count = s.flow[c].count /\ (s.flow[c].there => f.there)
          /\ t = WithFlow(s, c, f, e)
      BY <2>3, <2>4, <3>1
    <3>3. /\ QOK(t, kd) /\ t.list = s.list /\ t.enab = e /\ t.flow[c] = f
          /\ \A d \in {0, 1} : d # c => t.flow[d] = s.flow[d]
      BY ONLY QOK(s, kd), c \in {0, 1}, e \in BOOLEAN, <3>2, ReflowIs
    <3> QED BY <3>1, <3>3
  <2>6. Kept(s, t)
    BY <2>5 DEF Kept, Holds
  <2>7. ASSUME NEW w, Marked(s, w) PROVE Marked(t, w)
    BY <2>3, <2>5, <2>7 DEF Marked
  <2> QED BY <2>5, <2>6, <2>7 DEF FlowDone
<1>3. CASE ~(s.flow[0].wantw /\ s.flow[0].count < s.flow[0].lo)
  <2>1. t = s
    BY <1>3 DEF GetqEmpty
  <2> QED BY <2>1 DEF FlowDone, Kept
<1> QED BY <1>2, <1>3

\* bcanput that refuses a message.
LEMMA WantsIs ==
    ASSUME NEW s, NEW kd, QOK(s, kd), NEW c \in {0, 1}, s.flow[c].there, NEW t, t = Wants(s, c)
    PROVE  /\ FlowDone(s, kd, t) /\ t.enab = s.enab
           /\ t.flow[c].wantw /\ t.flow[c].count = s.flow[c].count /\ t.flow[c].lo = s.flow[c].lo
<1>1. s \in QueueT
  BY DEF QOK
<1>2. PICK f : f = [s.flow[c] EXCEPT !.wantw = TRUE]
  OBVIOUS
<1>3. s.flow[c] \in FlowT /\ s.enab \in BOOLEAN
  BY <1>1, QueueIs
<1>4. /\ f \in FlowT /\ f.count = s.flow[c].count /\ f.there = s.flow[c].there
      /\ f.hi = s.flow[c].hi /\ f.lo = s.flow[c].lo /\ f.full = s.flow[c].full /\ f.wantw
  BY <1>2, <1>3 DEF FlowT
<1>5. t = WithFlow(s, c, f, s.enab)
  BY <1>1, <1>2 DEF Wants, WithFlow, QueueT
<1>6. /\ QOK(t, kd) /\ t.list = s.list /\ t.enab = s.enab /\ t.flow[c] = f
      /\ \A d \in {0, 1} : d # c => t.flow[d] = s.flow[d]
  <2>1. PICK e \in BOOLEAN : e = s.enab
    BY <1>3
  <2>2. t = WithFlow(s, c, f, e) /\ (s.flow[c].there => f.there) /\ f.count = s.flow[c].count
    BY <1>4, <1>5, <2>1
  <2>3. f \in FlowT
    BY <1>4
  <2>4. /\ QOK(t, kd) /\ t.list = s.list /\ t.enab = e /\ t.flow[c] = f
        /\ \A d \in {0, 1} : d # c => t.flow[d] = s.flow[d]
    BY ONLY QOK(s, kd), c \in {0, 1}, e \in BOOLEAN, <2>2, <2>3, ReflowIs
  <2> QED BY <2>1, <2>4
<1>7. Kept(s, t)
  <2> SUFFICES ASSUME NEW d \in {0, 1}, Holds(s, d) PROVE Holds(t, d)
    BY DEF Kept
  <2> QED BY <1>4, <1>6 DEF Holds
<1>8. ASSUME NEW w, Marked(s, w) PROVE Marked(t, w)
  BY <1>4, <1>6, <1>8 DEF Marked
<1> QED BY <1>4, <1>6, <1>7, <1>8 DEF FlowDone

\* QENAB alone changes.
LEMMA EnabIs ==
    ASSUME NEW s, NEW kd, QOK(s, kd), NEW e \in BOOLEAN, NEW t, t = [s EXCEPT !.enab = e]
    PROVE  /\ QOK(t, kd) /\ t.list = s.list /\ t.flow = s.flow /\ t.enab = e
           /\ \A w : Marked(s, w) => Marked(t, w)
<1>1. s \in QueueT
  BY DEF QOK
<1>2. /\ t \in QueueT /\ t.list = s.list /\ t.first = s.first /\ t.last = s.last
      /\ t.flow = s.flow /\ t.enab = e
  BY <1>1 DEF QueueT
<1>3. QOK(t, kd)
  BY <1>2, FlowOnly
<1> QED BY <1>2, <1>3 DEF Marked

\* The driver is enabled for the bands that it waits for.
Reenabled(s, B, slack, t) ==
    /\ t \in QueueT /\ t.list = s.list /\ t.first = s.first /\ t.last = s.last
    /\ \A c \in {0, 1} : t.flow[c].count = s.flow[c].count /\ t.flow[c].there = s.flow[c].there
    /\ Kept(s, t) /\ \A w : Marked(s, w) => Marked(t, w)
    /\ \A c \in B : s.flow[c].wantw /\ s.flow[c].count < s.flow[c].lo + slack => t.enab
    /\ s.enab => t.enab

\* It takes a mark away only where it enables the queue, and changes nothing else.
LEMMA ReenableIs ==
    ASSUME NEW s \in QueueT, NEW B \in SUBSET {0, 1}, NEW slack \in Nat,
           NEW t, t = Reenable(s, B, slack)
    PROVE  Reenabled(s, B, slack, t)
<1> DEFINE C == {b \in B : s.flow[b].wantw /\ s.flow[b].count < s.flow[b].lo + slack}
           g == [b \in {0, 1} |-> [s.flow[b] EXCEPT !.wantw = @ /\ b \notin C]]
<1>1. \A c : c \in C <=> c \in B /\ s.flow[c].wantw /\ s.flow[c].count < s.flow[c].lo + slack
  OBVIOUS
<1>0. t = [s EXCEPT !.flow = g, !.enab = @ \/ C # {}]
  BY DEF Reenable
<1> HIDE DEF C
<1>2. \A c \in {0, 1} : g[c] = [s.flow[c] EXCEPT !.wantw = s.flow[c].wantw /\ c \notin C]
  OBVIOUS
<1>12. g = [b \in {0, 1} |-> g[b]]
  OBVIOUS
<1> HIDE DEF g
<1>3. PICK a \in BOOLEAN : a = (s.enab \/ C # {})
  OBVIOUS
<1>4. t = [s EXCEPT !.flow = g, !.enab = a]
  BY <1>0, <1>3
<1>5. ASSUME NEW c \in {0, 1}
      PROVE  /\ g[c] \in FlowT /\ g[c].count = s.flow[c].count /\ g[c].there = s.flow[c].there
             /\ g[c].hi = s.flow[c].hi /\ g[c].lo = s.flow[c].lo /\ g[c].full = s.flow[c].full
             /\ g[c].wantw = (s.flow[c].wantw /\ c \notin C)
  <2>1. PICK f : f = s.flow[c]
    OBVIOUS
  <2>2. f \in FlowT /\ (f.wantw /\ c \notin C) \in BOOLEAN
    BY <2>1, QueueIs
  <2>3. g[c] = [f EXCEPT !.wantw = f.wantw /\ c \notin C]
    BY <1>2, <2>1
  <2>4. /\ g[c].count = f.count /\ g[c].there = f.there /\ g[c].hi = f.hi /\ g[c].lo = f.lo
        /\ g[c].full = f.full /\ g[c].wantw = (f.wantw /\ c \notin C)
    BY <2>2, <2>3 DEF FlowT
  <2>5. g[c] \in [there : BOOLEAN, count : Nat, hi : Nat, lo : Nat, full : BOOLEAN, wantw : BOOLEAN]
    BY <2>2, <2>3 DEF FlowT
  <2>6. f.lo \in 1 .. f.hi /\ (f.wantw \/ f.full => f.there)
    BY <2>2 DEF FlowT
  <2>7. g[c] \in FlowT
    BY <2>4, <2>5, <2>6 DEF FlowT
  <2> QED BY <2>1, <2>4, <2>7
<1>6. g \in [{0, 1} -> FlowT]
  BY <1>12, <1>5
<1>7. /\ t \in QueueT /\ t.list = s.list /\ t.first = s.first /\ t.last = s.last
      /\ t.flow = g /\ t.enab = a
  BY <1>4, <1>6 DEF QueueT
<1>8. Kept(s, t)
  <2> SUFFICES ASSUME NEW c \in {0, 1}, Holds(s, c) PROVE Holds(t, c)
    BY DEF Kept
  <2>1. CASE a
    BY <1>7, <2>1 DEF Holds
  <2>2. CASE ~a
    <3>1. s.enab = FALSE /\ C = {}
      BY <1>3, <2>2, QueueIs
    <3> QED BY <1>5, <1>7, <3>1 DEF Holds
  <2> QED BY <2>1, <2>2
<1>9. ASSUME NEW w, Marked(s, w) PROVE Marked(t, w)
  BY <1>5, <1>7, <1>9 DEF Marked
<1>10. ASSUME NEW c \in B, s.flow[c].wantw, s.flow[c].count < s.flow[c].lo + slack PROVE t.enab
  BY <1>1, <1>3, <1>7, <1>10
<1>11. s.enab => t.enab
  BY <1>3, <1>7
<1> QED BY <1>5, <1>7, <1>8, <1>9, <1>10, <1>11 DEF Reenabled

\* M_SETOPTS.
Opted(s, c, mark) ==
    Reenable([Qband(s, c) EXCEPT !.flow[c].hi = mark[1], !.flow[c].lo = mark[2]], {c}, 1)

\* M_SETOPTS of a band.
LEMMA SetOptsIs ==
    ASSUME NEW s, NEW kd, QOK(s, kd), NEW c \in {0, 1}, NEW mark,
           mark[1] \in Nat /\ mark[2] \in 1 .. mark[1],
           NEW t, t = Opted(s, c, mark)
    PROVE  QOK(t, kd) /\ t.list = s.list /\ (Marked(s, mark) => Marked(t, mark) /\ Kept(s, t))
<1>1. s \in QueueT /\ s.flow[0].there /\ (~s.flow[1].there => s.flow[1].count = 0)
  BY DEF QOK
<1>2. PICK u : u = Qband(s, c)
  OBVIOUS
<1>3. /\ u \in QueueT /\ u.list = s.list /\ u.first = s.first /\ u.last = s.last
      /\ u.enab = s.enab /\ u.flow[c].there
      /\ u.flow[c].count = s.flow[c].count /\ u.flow[c].wantw = s.flow[c].wantw
      /\ \A d \in {0, 1} : d # c => u.flow[d] = s.flow[d]
      /\ \A w : Marked(s, w) => Marked(u, w)
  BY ONLY <1>1, <1>2, c \in {0, 1}, QbandIs
<1>4. PICK f : f = [u.flow[c] EXCEPT !.hi = mark[1], !.lo = mark[2]]
  OBVIOUS
<1>5. u.flow[c] \in FlowT
  BY <1>3, QueueIs
<1>6. /\ f \in FlowT /\ f.count = s.flow[c].count /\ f.there /\ f.hi = mark[1] /\ f.lo = mark[2]
      /\ f.full = u.flow[c].full /\ f.wantw = s.flow[c].wantw
  <2>1. mark[1] \in Nat /\ mark[2] \in Nat /\ mark[2] \in 1 .. mark[1]
    OBVIOUS
  <2> QED BY <1>3, <1>4, <1>5, <2>1 DEF FlowT
<1>7. PICK e \in BOOLEAN : e = u.enab
  BY <1>3, QueueIs
<1>8. PICK v : v = WithFlow(u, c, f, e)
  OBVIOUS
<1>9. v = [u EXCEPT !.flow[c].hi = mark[1], !.flow[c].lo = mark[2]]
  BY <1>3, <1>4, <1>5, <1>7, <1>8 DEF WithFlow, QueueT
<1>10. /\ v \in QueueT /\ v.list = u.list /\ v.first = u.first /\ v.last = u.last
       /\ v.enab = u.enab /\ v.flow[c] = f
       /\ \A d \in {0, 1} : d # c => v.flow[d] = u.flow[d]
  BY ONLY <1>3, <1>6, <1>7, <1>8, c \in {0, 1} DEF QueueT, WithFlow
<1>11. PICK B \in SUBSET {0, 1} : B = {c}
  OBVIOUS
<1>12. PICK n \in Nat : n = 1 /\ t = Reenable(v, B, n)
  BY <1>2, <1>9, <1>11 DEF Opted
<1>13. /\ t \in QueueT /\ t.list = v.list /\ t.first = v.first /\ t.last = v.last
       /\ \A d \in {0, 1} : /\ t.flow[d].count = v.flow[d].count
                            /\ t.flow[d].there = v.flow[d].there
       /\ Kept(v, t) /\ \A w : Marked(v, w) => Marked(t, w)
       /\ \A d \in B : v.flow[d].wantw /\ v.flow[d].count < v.flow[d].lo + n => t.enab
       /\ v.enab => t.enab
  <2>1. Reenabled(v, B, n, t)
    BY ONLY B \in SUBSET {0, 1}, n \in Nat, <1>10, <1>12, ReenableIs
  <2> QED BY <2>1 DEF Reenabled
<1>14. QOK(t, kd)
  <2>0. ASSUME NEW d \in {0, 1}
        PROVE  t.flow[d].count = s.flow[d].count /\ (s.flow[d].there => t.flow[d].there)
    <3>1. v.flow[d].count = s.flow[d].count /\ (s.flow[d].there => v.flow[d].there)
      <4>1. CASE d = c
        BY <1>6, <1>10, <4>1
      <4>2. CASE d # c
        BY <1>3, <1>10, <4>2
      <4> QED BY <4>1, <4>2
    <3> QED BY <1>13, <3>1
  <2>1. \A d \in {0, 1} : t.flow[d].count = s.flow[d].count
    BY <2>0
  <2>2. \A d \in {0, 1} : s.flow[d].there => t.flow[d].there
    BY <2>0
  <2>3. t.list = s.list /\ t.first = s.first /\ t.last = s.last /\ t \in QueueT
    BY <1>3, <1>10, <1>13
  <2> QED BY <2>1, <2>2, <2>3, FlowOnly
<1>15. ASSUME Marked(s, mark) PROVE Marked(t, mark) /\ Kept(s, t)
  <2>1. Marked(u, mark)
    BY <1>3, <1>15
  <2>2. Marked(v, mark)
    BY <1>6, <1>10, <2>1, <1>3 DEF Marked
  <2>3. Kept(s, v)
    <3> SUFFICES ASSUME NEW d \in {0, 1}, Holds(s, d) PROVE Holds(v, d)
      BY DEF Kept
    <3>1. CASE d = c
      BY <1>3, <1>6, <1>10, <1>15, <3>1 DEF Holds, Marked
    <3>2. CASE d # c
      BY <1>3, <1>10, <3>2 DEF Holds
    <3> QED BY <3>1, <3>2
  <2> QED BY <1>13, <2>2, <2>3 DEF Kept
<1> QED BY <1>3, <1>10, <1>13, <1>14, <1>15

-----------------------------------------------------------------------------
(* M_FLUSH, which goes over the list.                                      *)

\* A function that is defined step by step, each step keeping what inv says.
StepsTo(f, n, x0, step) == f[0] = x0 /\ \A k \in 1 .. n : f[k] = step[<<f[k - 1], k>>]
Preserved(inv, S, n, x0, step) ==
    /\ n \in Nat /\ inv \in [0 .. n -> SUBSET S] /\ x0 \in inv[0]
    /\ step \in [S \X (1 .. n) -> S]
    /\ \A k \in 1 .. n : \A x \in inv[k - 1] : step[<<x, k>>] \in inv[k]

\* Such a function exists, and it keeps what every step keeps.
LEMMA StepsExist ==
    ASSUME NEW inv, NEW S, NEW n, NEW x0, NEW step, Preserved(inv, S, n, x0, step)
    PROVE  \E f \in [0 .. n -> S] : StepsTo(f, n, x0, step) /\ \A k \in 0 .. n : f[k] \in inv[k]
<1> USE DEF Preserved
<1> DEFINE Good(f, k) == /\ f \in [0 .. k -> S] /\ f[0] = x0
                         /\ \A i \in 1 .. k : f[i] = step[<<f[i - 1], i>>]
                         /\ \A i \in 0 .. k : f[i] \in inv[i]
           Bad == {k \in 0 .. n : ~\E f : Good(f, k)}
<1>1. SUFFICES ASSUME Bad # {} PROVE FALSE
  <2>1. n \in 0 .. n
    OBVIOUS
  <2> SUFFICES ASSUME Bad = {} PROVE \E f \in [0 .. n -> S] :
                 StepsTo(f, n, x0, step) /\ \A k \in 0 .. n : f[k] \in inv[k]
    OBVIOUS
  <2>2. PICK f : Good(f, n)
    BY <2>1
  <2> QED BY <2>2 DEF StepsTo
<1>2. PICK k \in Bad : \A j \in Bad : k <= j
  <2>1. Bad \subseteq Nat
    OBVIOUS
  <2> HIDE DEF Bad
  <2> QED BY <1>1, <2>1, LeastNumber
<1>3. k \in 0 .. n /\ ~\E f : Good(f, k)
  OBVIOUS
<1>4. CASE k = 0
  <2> DEFINE g == [i \in 0 .. 0 |-> x0]
  <2>1. x0 \in S /\ 0 \in 0 .. n
    OBVIOUS
  <2>2. g \in [0 .. 0 -> S] /\ g[0] = x0 /\ \A i \in 0 .. 0 : i = 0
    BY <2>1
  <2> HIDE DEF g
  <2>3. Good(g, 0)
    BY <2>2
  <2> QED BY <1>3, <1>4, <2>3
<1>5. CASE k > 0
  <2>1. k - 1 \in 0 .. n /\ ~(k <= k - 1) /\ k \in 1 .. n
    BY <1>3, <1>5
  <2>2. k - 1 \notin Bad
    BY <1>2, <2>1
  <2>3. PICK f : Good(f, k - 1)
    BY <2>1, <2>2
  <2> DEFINE y == step[<<f[k - 1], k>>]
             g == [i \in 0 .. k |-> IF i < k THEN f[i] ELSE y]
  <2>4. k - 1 \in 0 .. k - 1 /\ f[k - 1] \in inv[k - 1] /\ f[k - 1] \in S
    BY <2>1, <2>3
  <2>5. y \in inv[k] /\ y \in S
    BY <2>1, <2>4
  <2> HIDE DEF y
  <2>6. ASSUME NEW i \in 0 .. k - 1
        PROVE  i \in 0 .. k /\ i < k /\ g[i] = f[i] /\ f[i] \in S /\ f[i] \in inv[i]
    BY <2>1, <2>3
  <2>7. k \in 0 .. k /\ g[k] = y /\ \A i \in 0 .. k : i \in 0 .. k - 1 \/ i = k
    BY <2>1
  <2>8. g \in [0 .. k -> S]
    <3>1. \A i \in 0 .. k : g[i] \in S
      BY <2>5, <2>6, <2>7
    <3> QED BY <3>1
  <2>9. g[0] = x0
    <3>1. 0 \in 0 .. k - 1
      BY <2>1
    <3> QED BY <2>3, <2>6, <3>1
  <2>10. ASSUME NEW i \in 1 .. k PROVE g[i] = step[<<g[i - 1], i>>]
    <3>1. i - 1 \in 0 .. k - 1
      BY <2>1
    <3>2. g[i - 1] = f[i - 1]
      BY <2>6, <3>1
    <3>3. CASE i = k
      BY <2>7, <3>2, <3>3 DEF y
    <3>4. CASE i # k
      <4>1. i \in 1 .. k - 1 /\ i \in 0 .. k - 1
        BY <2>1, <3>4
      <4> QED BY <2>3, <2>6, <3>2, <4>1
    <3> QED BY <3>3, <3>4
  <2>11. \A i \in 0 .. k : g[i] \in inv[i]
    BY <2>5, <2>6, <2>7
  <2> HIDE DEF g
  <2>12. Good(g, k)
    BY <2>8, <2>9, <2>10, <2>11
  <2> QED BY <1>3, <2>12
<1> QED BY <1>3, <1>4, <1>5

\* Whatever takes these steps keeps what inv says.
LEMMA StepsKeep ==
    ASSUME NEW inv, NEW S, NEW n, NEW x0, NEW step, Preserved(inv, S, n, x0, step),
           NEW h, h[0] = x0,
           \A k \in 1 .. n : h[k - 1] \in inv[k - 1] => h[k] = step[<<h[k - 1], k>>]
    PROVE  h[n] \in inv[n]
<1> USE DEF Preserved
<1> DEFINE Bad == {k \in 0 .. n : h[k] \notin inv[k]}
<1>1. ASSUME Bad # {} PROVE FALSE
  <2>1. PICK k \in Bad : \A j \in Bad : k <= j
    <3>1. Bad \subseteq Nat
      OBVIOUS
    <3> HIDE DEF Bad
    <3> QED BY <1>1, <3>1, LeastNumber
  <2>2. k \in 0 .. n /\ h[k] \notin inv[k]
    OBVIOUS
  <2>3. k # 0
    BY <2>2
  <2>4. k \in 1 .. n /\ k - 1 \in 0 .. n /\ ~(k <= k - 1)
    BY <2>2, <2>3
  <2>5. h[k - 1] \in inv[k - 1]
    BY <2>1, <2>4
  <2> QED BY <2>2, <2>4, <2>5
<1>2. n \in 0 .. n
  OBVIOUS
<1> QED BY <1>1, <1>2

\* The queue without its messages.
LEMMA ResetIs ==
    ASSUME NEW s, NEW kd, QOK(s, kd), NEW t, t = Reset(s)
    PROVE  /\ QOK(t, kd) /\ t.list = <<>> /\ t.enab = s.enab
           /\ \A c \in {0, 1} : /\ t.flow[c].count = 0 /\ t.flow[c].wantw = s.flow[c].wantw
                                /\ t.flow[c].lo = s.flow[c].lo
           /\ \A w : Marked(s, w) => Marked(t, w)
<1>1. s \in QueueT /\ s.flow[0].there
  BY DEF QOK
<1> DEFINE g == [b \in {0, 1} |-> [s.flow[b] EXCEPT !.count = 0, !.full = FALSE]]
<1>2. t = [s EXCEPT !.list = <<>>, !.first = None, !.last = None, !.flow = g]
  BY DEF Reset
<1>3. \A c \in {0, 1} : g[c] = [s.flow[c] EXCEPT !.count = 0, !.full = FALSE]
  OBVIOUS
<1>4. g = [b \in {0, 1} |-> g[b]]
  OBVIOUS
<1> HIDE DEF g
<1>5. ASSUME NEW c \in {0, 1}
      PROVE  /\ g[c] \in FlowT /\ g[c].count = 0 /\ g[c].full = FALSE
             /\ g[c].hi = s.flow[c].hi /\ g[c].lo = s.flow[c].lo
             /\ g[c].wantw = s.flow[c].wantw /\ g[c].there = s.flow[c].there
  <2>1. PICK f : f = s.flow[c]
    OBVIOUS
  <2>2. f \in FlowT
    BY <1>1, <2>1, QueueIs
  <2>3. g[c] = [f EXCEPT !.count = 0, !.full = FALSE]
    BY <1>3, <2>1
  <2>4. /\ g[c].count = 0 /\ g[c].full = FALSE /\ g[c].hi = f.hi /\ g[c].lo = f.lo
        /\ g[c].wantw = f.wantw /\ g[c].there = f.there
    BY <2>2, <2>3 DEF FlowT
  <2>5. g[c] \in [there : BOOLEAN, count : Nat, hi : Nat, lo : Nat, full : BOOLEAN, wantw : BOOLEAN]
    <3>1. f \in [there : BOOLEAN, count : Nat, hi : Nat, lo : Nat, full : BOOLEAN, wantw : BOOLEAN]
      BY <2>2 DEF FlowT
    <3>2. PICK n \in Nat, e \in BOOLEAN : n = 0 /\ e = FALSE
      OBVIOUS
    <3>3. g[c] = [f EXCEPT !.count = n, !.full = e]
      BY <2>3, <3>2
    <3> QED BY ONLY <3>1, <3>2, <3>3
  <2>6. f.lo \in 1 .. f.hi /\ (f.wantw \/ f.full => f.there)
    BY <2>2 DEF FlowT
  <2>7. g[c] \in FlowT
    BY <2>4, <2>5, <2>6 DEF FlowT
  <2> QED BY <2>1, <2>4, <2>7
<1>6. g \in [{0, 1} -> FlowT]
  BY <1>4, <1>5
<1>7. /\ t \in QueueT /\ t.list = <<>> /\ t.first = None /\ t.last = None
      /\ t.flow = g /\ t.enab = s.enab
  <2>1. <<>> \in Seq(Msg)
    OBVIOUS
  <2> QED BY <1>1, <1>2, <1>6, <2>1 DEF QueueT
<1>8. Listed(t.list, kd) /\ Shaped(t, kd)
  <2>1. Len(t.list) = 0 /\ t.list \in Seq(Msg) /\ 1 .. 0 = {} /\ 0 \in 0 .. 0
    BY <1>7
  <2>2. Listed(t.list, kd)
    BY <2>1 DEF Listed
  <2>3. Shape(t.list, kd, 0, 0) /\ Ptrs(t, 0, 0)
    BY <1>7, <2>1 DEF Shape, Ptrs
  <2> QED BY <2>1, <2>2, <2>3 DEF Shaped
<1>9. Counted(t, kd)
  BY <1>5, <1>7, WeightEmpty DEF Counted
<1>10. QOK(t, kd)
  BY <1>1, <1>5, <1>7, <1>8, <1>9 DEF QOK
<1>11. ASSUME NEW w, Marked(s, w) PROVE Marked(t, w)
  BY <1>5, <1>7, <1>11 DEF Marked
<1> QED BY <1>5, <1>7, <1>10, <1>11

\* What follows when messages were thrown away.
FlushDone(s, kd, t) ==
    /\ QOK(t, kd) /\ ToSet(t.list) \subseteq ToSet(s.list)
    /\ \A w : Marked(s, w) => Marked(t, w) /\ Kept(s, t)

\* All of them.
LEMMA FlushAllIs ==
    ASSUME NEW s, NEW kd, QOK(s, kd), NEW t, t = FlushAll(s)
    PROVE  FlushDone(s, kd, t)
<1>1. s \in QueueT
  BY DEF QOK
<1>2. PICK u : u = Reset(s)
  OBVIOUS
<1>3. /\ QOK(u, kd) /\ u.list = <<>> /\ u.enab = s.enab
      /\ \A c \in {0, 1} : /\ u.flow[c].count = 0 /\ u.flow[c].wantw = s.flow[c].wantw
                           /\ u.flow[c].lo = s.flow[c].lo
      /\ \A w : Marked(s, w) => Marked(u, w)
  BY <1>2, ResetIs
<1>4. PICK B \in SUBSET {0, 1}, n \in Nat : B = {0, 1} /\ n = 0
  OBVIOUS
<1>5. t = Reenable(u, B, n) /\ u \in QueueT
  BY <1>2, <1>3, <1>4 DEF FlushAll, QOK
<1>6. /\ t \in QueueT /\ t.list = u.list /\ t.first = u.first /\ t.last = u.last
      /\ \A c \in {0, 1} : /\ t.flow[c].count = u.flow[c].count
                           /\ t.flow[c].there = u.flow[c].there
      /\ Kept(u, t) /\ \A w : Marked(u, w) => Marked(t, w)
      /\ \A c \in B : u.flow[c].wantw /\ u.flow[c].count < u.flow[c].lo + n => t.enab
      /\ u.enab => t.enab
  <2>1. Reenabled(u, B, n, t)
    BY ONLY <1>5, B \in SUBSET {0, 1}, n \in Nat, ReenableIs
  <2> QED BY <2>1 DEF Reenabled
<1>7. QOK(t, kd)
  <2>1. \A c \in {0, 1} : t.flow[c].count = u.flow[c].count
    BY <1>6
  <2>2. \A c \in {0, 1} : u.flow[c].there => t.flow[c].there
    BY <1>6
  <2> QED BY ONLY <1>3, <1>6, <2>1, <2>2, FlowOnly
<1>8. Kept(s, t)
  <2> SUFFICES ASSUME NEW c \in {0, 1}, Holds(s, c) PROVE Holds(t, c)
    BY DEF Kept
  <2>1. s.flow[c].lo \in Nat /\ 0 < s.flow[c].lo
    <3>1. s.flow[c].lo \in 1 .. s.flow[c].hi /\ s.flow[c].hi \in Nat
      BY <1>1, QueueIs
    <3> QED BY <3>1
  <2>2. CASE s.enab
    BY <1>3, <1>6, <2>2 DEF Holds
  <2>3. CASE s.flow[c].wantw
    <3>1. u.flow[c].wantw /\ u.flow[c].count < u.flow[c].lo + n
      BY <1>3, <1>4, <2>1, <2>3
    <3> QED BY <1>4, <1>6, <3>1 DEF Holds
  <2> QED BY <2>2, <2>3 DEF Holds
<1>9. ToSet(t.list) \subseteq ToSet(s.list)
  BY <1>3, <1>6 DEF ToSet
<1> QED BY <1>3, <1>6, <1>7, <1>8, <1>9 DEF FlushDone

\* M_FLUSH of the normal band after i messages: the band's are on the queue again.
Filled(s, kd, g, i, x) ==
    /\ QOK(x, kd) /\ x.enab = s.enab
    /\ \A m \in ToSet(x.list) : \E j \in 1 .. i : m = s.list[j]
    /\ x.flow[0].count = 0 /\ x.flow[1].count = g[i]
    /\ \A c \in {0, 1} : x.flow[c].wantw = s.flow[c].wantw
    /\ \A w : Marked(s, w) => Marked(x, w)
Refills(kd, m, x) == IF kd[m].band = 0 THEN x ELSE Putq(x, kd, m)

\* One step of it: the queue holds what is not of the normal band so far.
LEMMA FilledStep ==
    ASSUME NEW s, NEW kd, QOK(s, kd), None \notin Msg, NEW g,
           IsSum(g, Weights(1, kd, s.list), Len(s.list)),
           NEW k \in 1 .. Len(s.list), NEW x, Filled(s, kd, g, k - 1, x),
           NEW y, y = Refills(kd, s.list[k], x)
    PROVE  Filled(s, kd, g, k, y)
<1> DEFINE l == s.list
<1>1. Listed(l, kd) /\ l \in Seq(Msg) /\ Len(l) \in Nat
  BY ListIs DEF QOK
<1>2. PICK m \in Msg : m = l[k] /\ kd[m] \in GoodKind
  BY <1>1 DEF Listed
<1>3. kd[m].band \in {0, 1} /\ kd[m].size \in Nat
  BY <1>2, RankIs
<1>4. g[k] = g[k - 1] + (IF kd[m].band = 1 THEN kd[m].size ELSE 0) /\ g[k - 1] \in Nat
  <2>1. Weights(1, kd, l)[k] = IF kd[l[k]].band = 1 THEN kd[l[k]].size ELSE 0
    BY <1>1 DEF Weights
  <2>2. k - 1 \in 0 .. Len(l)
    BY <1>1
  <2> QED BY <1>2, <2>1, <2>2 DEF IsSum
<1>5. m \notin ToSet(x.list)
  <2> SUFFICES ASSUME m \in ToSet(x.list) PROVE FALSE
    OBVIOUS
  <2>1. PICK j \in 1 .. k - 1 : m = l[j]
    BY DEF Filled
  <2>2. j \in 1 .. Len(l) /\ j # k
    BY <1>1
  <2> QED BY <1>1, <1>2, <2>1, <2>2 DEF Listed
<1>6. CASE kd[m].band = 0
  <2>1. y = x
    BY <1>2, <1>6 DEF Refills
  <2>2. g[k] = g[k - 1]
    BY <1>4, <1>6
  <2>3. \A z \in ToSet(x.list) : \E j \in 1 .. k : z = l[j]
    <3>1. \A j \in 1 .. k - 1 : j \in 1 .. k
      OBVIOUS
    <3> QED BY <3>1 DEF Filled
  <2> QED BY <2>1, <2>2, <2>3 DEF Filled
<1>7. CASE kd[m].band = 1
  <2>1. y = Putq(x, kd, m)
    BY <1>2, <1>7 DEF Refills
  <2>2. QOK(x, kd)
    BY DEF Filled
  <2>3. PutDone(x, kd, m, y)
    BY ONLY <1>2, <1>5, <2>1, <2>2, m \in Msg, None \notin Msg, PutqIs
  <2>4. /\ QOK(y, kd) /\ ToSet(y.list) = ToSet(x.list) \cup {m} /\ y.enab = x.enab
        /\ y.flow[1].count = x.flow[1].count + kd[m].size
        /\ y.flow[0].count = x.flow[0].count + 0
        /\ \A c \in {0, 1} : y.flow[c].wantw = x.flow[c].wantw
        /\ \A w : Marked(x, w) => Marked(y, w)
    BY <1>7, <2>3 DEF PutDone
  <2>5. y.flow[0].count = 0 /\ y.flow[1].count = g[k]
    BY <1>4, <1>7, <2>4 DEF Filled
  <2>6. \A z \in ToSet(y.list) : \E j \in 1 .. k : z = l[j]
    <3>1. \A j \in 1 .. k - 1 : j \in 1 .. k
      OBVIOUS
    <3>2. k \in 1 .. k
      OBVIOUS
    <3> QED BY <1>2, <2>4, <3>1, <3>2 DEF Filled
  <2> QED BY <2>4, <2>5, <2>6 DEF Filled
<1> QED BY <1>3, <1>6, <1>7

\* Refill: only the messages of the band are left, in their order.
LEMMA RefillIs ==
    ASSUME NEW s, NEW kd, QOK(s, kd), None \notin Msg, NEW g,
           IsSum(g, Weights(1, kd, s.list), Len(s.list))
    PROVE  Filled(s, kd, g, Len(s.list), Refill(s, kd))
<1> DEFINE l == s.list
           n == Len(l)
           x0 == Reset(s)
           Next1(x, k) == Refills(kd, l[k], x)
           inv == [k \in 0 .. n |-> {x \in QueueT : Filled(s, kd, g, k, x)}]
           step == [p \in QueueT \X (1 .. n) |->
                      IF Next1(p[1], p[2]) \in QueueT THEN Next1(p[1], p[2]) ELSE p[1]]
<1>1. n \in Nat
  BY ListIs DEF QOK
<1>2. x0 \in inv[0]
  <2>1. /\ QOK(x0, kd) /\ x0.list = <<>> /\ x0.enab = s.enab
        /\ \A c \in {0, 1} : x0.flow[c].count = 0 /\ x0.flow[c].wantw = s.flow[c].wantw
        /\ \A w : Marked(s, w) => Marked(x0, w)
    <3>1. PICK x : x = x0
      OBVIOUS
    <3>2. x = Reset(s)
      BY <3>1
    <3> HIDE DEF x0
    <3> QED BY <3>1, <3>2, ResetIs
  <2>2. ToSet(x0.list) = {}
    BY <2>1 DEF ToSet
  <2>3. g[0] = 0 /\ 0 \in 0 .. n
    BY <1>1 DEF IsSum
  <2>4. Filled(s, kd, g, 0, x0)
    <3> HIDE DEF x0
    <3> QED BY <2>1, <2>2, <2>3 DEF Filled
  <2>5. x0 \in QueueT
    BY <2>1 DEF QOK
  <2> QED BY <2>3, <2>4, <2>5
<1>3. ASSUME NEW k \in 1 .. n, NEW x \in inv[k - 1]
      PROVE  /\ x \in QueueT /\ Next1(x, k) \in inv[k] /\ Next1(x, k) \in QueueT
             /\ step[<<x, k>>] = Next1(x, k)
  <2>1. k - 1 \in 0 .. n /\ k \in 0 .. n
    BY <1>1
  <2>2. x \in QueueT /\ Filled(s, kd, g, k - 1, x)
    BY <2>1
  <2>3. PICK y : y = Next1(x, k)
    OBVIOUS
  <2>4. Filled(s, kd, g, k, y)
    BY <2>2, <2>3, FilledStep
  <2>5. y \in QueueT
    BY <2>4 DEF Filled, QOK
  <2>6. y \in inv[k]
    BY ONLY <2>1, <2>4, <2>5
  <2>7. step[<<x, k>>] = Next1(x, k)
    BY <2>2, <2>3, <2>5
  <2> HIDE DEF inv, step
  <2> QED BY <2>2, <2>3, <2>5, <2>6, <2>7
<1>4. inv \in [0 .. n -> SUBSET QueueT]
  OBVIOUS
<1>5. step \in [QueueT \X (1 .. n) -> QueueT]
  <2> HIDE DEF Next1
  <2> QED OBVIOUS
<1>6. \A k \in 1 .. n : \A x \in inv[k - 1] : step[<<x, k>>] \in inv[k]
  BY <1>3
<1> DEFINE Fun(f) == f = [k \in 0 .. n |-> IF k = 0 THEN Reset(s)
                            ELSE IF kd[s.list[k]].band = 0 THEN f[k - 1]
                                 ELSE Putq(f[k - 1], kd, s.list[k])]
           h == CHOOSE f : Fun(f)
<1>7. Refill(s, kd) = h[n]
  BY DEF Refill
<1> HIDE DEF inv, step
<1>8. Preserved(inv, QueueT, n, x0, step)
  BY <1>1, <1>2, <1>4, <1>5, <1>6 DEF Preserved
<1>9. PICK f \in [0 .. n -> QueueT] :
        StepsTo(f, n, x0, step) /\ \A k \in 0 .. n : f[k] \in inv[k]
  BY <1>8, StepsExist
<1>10. Fun(f)
  <2> SUFFICES ASSUME NEW k \in 0 .. n
               PROVE  f[k] = IF k = 0 THEN Reset(s)
                             ELSE IF kd[s.list[k]].band = 0 THEN f[k - 1]
                                  ELSE Putq(f[k - 1], kd, s.list[k])
    OBVIOUS
  <2>1. CASE k = 0
    BY <1>9, <2>1 DEF StepsTo
  <2>2. CASE k # 0
    <3>1. k \in 1 .. n /\ k - 1 \in 0 .. n
      BY <1>1, <2>2
    <3>2. f[k] = step[<<f[k - 1], k>>] /\ f[k - 1] \in inv[k - 1]
      BY <1>9, <3>1 DEF StepsTo
    <3>3. f[k] = Next1(f[k - 1], k)
      BY <1>3, <3>1, <3>2
    <3> QED BY <2>2, <3>3 DEF Refills
  <2> QED BY <2>1, <2>2
<1>11. Fun(h)
  <2> HIDE DEF Fun
  <2> QED BY <1>10
<1>12. h[0] = x0 /\ \A k \in 1 .. n : h[k] = Next1(h[k - 1], k)
  <2> HIDE DEF h
  <2>1. 0 \in 0 .. n
    BY <1>1
  <2>2. h[0] = x0
    BY <1>11, <2>1
  <2>3. ASSUME NEW k \in 1 .. n PROVE h[k] = Next1(h[k - 1], k)
    <3>1. k \in 0 .. n /\ k # 0
      BY <1>1
    <3> QED BY <1>11, <3>1 DEF Refills
  <2> QED BY <2>2, <2>3
<1>13. \A k \in 1 .. n : h[k - 1] \in inv[k - 1] => h[k] = step[<<h[k - 1], k>>]
  <2> HIDE DEF h, Next1
  <2> QED BY <1>3, <1>12
<1>14. h[n] \in inv[n]
  <2> HIDE DEF h, Next1, x0
  <2> QED BY ONLY <1>8, <1>12, <1>13, StepsKeep
<1>15. n \in 0 .. n
  BY <1>1
<1> QED BY <1>7, <1>14, <1>15 DEF inv

\* M_FLUSH of the normal band.
LEMMA FlushNormalIs ==
    ASSUME NEW s, NEW kd, QOK(s, kd), None \notin Msg, NEW t, t = FlushNormal(s, kd)
    PROVE  FlushDone(s, kd, t)
<1>1. s \in QueueT /\ Listed(s.list, kd) /\ s.list \in Seq(Msg) /\ Len(s.list) \in Nat
  BY ListIs DEF QOK
<1>2. /\ Weights(1, kd, s.list) \in Seq(Nat) /\ Len(Weights(1, kd, s.list)) = Len(s.list)
  BY <1>1, WeightsAre
<1>3. PICK g : IsSum(g, Weights(1, kd, s.list), Len(s.list))
  <2>1. PICK v \in Seq(Nat) : v = Weights(1, kd, s.list)
    BY <1>2
  <2> QED BY <1>2, <2>1, SumExists
<1>4. g[Len(s.list)] = s.flow[1].count
  <2>1. PICK v \in Seq(Nat) : v = Weights(1, kd, s.list) /\ Len(v) = Len(s.list)
    BY <1>2
  <2>2. IsSum(g, v, Len(v))
    BY <1>3, <2>1
  <2>3. Total(v) = g[Len(v)]
    BY ONLY v \in Seq(Nat), <2>2, TotalIs
  <2>4. s.flow[1].count = Weight(1, kd, s.list)
    BY DEF QOK, Counted
  <2> QED BY <2>1, <2>3, <2>4 DEF Weight
<1>5. PICK u : u = Refill(s, kd)
  OBVIOUS
<1>6. Filled(s, kd, g, Len(s.list), u)
  BY <1>3, <1>5, RefillIs
<1>7. PICK B \in SUBSET {0, 1}, n \in Nat : B = {0} /\ n = 0
  OBVIOUS
<1>8. t = Reenable(u, B, n) /\ u \in QueueT /\ QOK(u, kd)
  BY <1>5, <1>6, <1>7 DEF FlushNormal, Filled, QOK
<1>9. Reenabled(u, B, n, t)
  BY ONLY <1>8, B \in SUBSET {0, 1}, n \in Nat, ReenableIs
<1>10. QOK(t, kd)
  <2>1. \A c \in {0, 1} : t.flow[c].count = u.flow[c].count
    BY <1>9 DEF Reenabled
  <2>2. \A c \in {0, 1} : u.flow[c].there => t.flow[c].there
    BY <1>9 DEF Reenabled
  <2>3. t \in QueueT /\ t.list = u.list /\ t.first = u.first /\ t.last = u.last
    BY <1>9 DEF Reenabled
  <2> QED BY ONLY <1>8, <2>1, <2>2, <2>3, FlowOnly
<1>11. ToSet(t.list) \subseteq ToSet(s.list)
  <2>1. t.list = u.list
    BY <1>9 DEF Reenabled
  <2>2. \A m \in ToSet(u.list) : \E j \in 1 .. Len(s.list) : m = s.list[j]
    BY <1>6 DEF Filled
  <2>3. ToSet(s.list) = {s.list[j] : j \in 1 .. Len(s.list)}
    BY <1>1, ListIs
  <2> QED BY <2>1, <2>2, <2>3
<1>12. ASSUME NEW w, Marked(s, w) PROVE Marked(t, w) /\ Kept(s, t)
  <2>1. Marked(u, w) /\ Marked(t, w)
    BY <1>6, <1>9, <1>12 DEF Filled, Reenabled
  <2>2. ASSUME NEW c \in {0, 1}, Holds(s, c) PROVE Holds(t, c)
    <3>1. u.enab = s.enab /\ u.flow[c].wantw = s.flow[c].wantw
      BY <1>6 DEF Filled
    <3>2. CASE s.enab
      BY <1>9, <3>1, <3>2 DEF Holds, Reenabled
    <3>3. CASE ~s.enab /\ c = 0
      <4>1. s.flow[0].wantw /\ u.flow[0].count = 0
        BY <1>6, <2>2, <3>3 DEF Holds, Filled
      <4>2. u.flow[0].lo \in 1 .. u.flow[0].hi /\ u.flow[0].hi \in Nat
        BY <1>8, QueueIs
      <4>3. u.flow[0].count < u.flow[0].lo + n
        BY <1>7, <4>1, <4>2
      <4> QED BY <1>7, <1>9, <3>1, <3>3, <4>1, <4>3 DEF Holds, Reenabled
    <3>4. CASE ~s.enab /\ c = 1
      <4>1. s.flow[1].wantw /\ s.flow[1].count >= s.flow[1].lo
        BY <2>2, <3>4 DEF Holds
      <4>2. u.flow[1].count = s.flow[1].count /\ u.flow[1].lo = s.flow[1].lo
        BY <1>4, <1>6, <1>12, <2>1 DEF Filled, Marked
      <4>3. Holds(u, 1)
        BY <3>1, <3>4, <4>1, <4>2 DEF Holds
      <4> QED BY <1>9, <3>4, <4>3 DEF Reenabled, Kept
    <3> QED BY <3>2, <3>3, <3>4
  <2> QED BY <2>1, <2>2 DEF Kept
<1> QED BY <1>10, <1>11, <1>12 DEF FlushDone

\* M_FLUSH of the band after i messages.
FlushesBand(s, kd, m, x) == IF kd[m].band # 0 /\ (m # s.last \/ m = s.first) THEN Rmvq(x, kd, m) ELSE x
Cleared(s, kd, i, x) ==
    /\ QOK(x, kd) /\ ToSet(x.list) \subseteq ToSet(s.list)
    /\ \A j \in i + 1 .. Len(s.list) : s.list[j] \in ToSet(x.list)
    /\ \A w : Marked(s, w) => Marked(x, w) /\ Kept(s, x)

\* One step of the flush of a band: rmvq of a message that is still there.
LEMMA ClearedStep ==
    ASSUME NEW s, NEW kd, QOK(s, kd), None \notin Msg, NEW k \in 1 .. Len(s.list),
           NEW x, Cleared(s, kd, k - 1, x), NEW y, y = FlushesBand(s, kd, s.list[k], x)
    PROVE  Cleared(s, kd, k, y)
<1> DEFINE l == s.list
<1>1. Listed(l, kd) /\ l \in Seq(Msg) /\ Len(l) \in Nat
  BY ListIs DEF QOK
<1>2. PICK m : m = l[k]
  OBVIOUS
<1>3. QOK(x, kd) /\ m \in ToSet(x.list)
  <2>1. k \in (k - 1) + 1 .. Len(l)
    BY <1>1
  <2> QED BY <1>2, <2>1 DEF Cleared
<1>4. \A j \in k + 1 .. Len(l) : l[j] \in ToSet(x.list) /\ l[j] # m
  <2> SUFFICES ASSUME NEW j \in k + 1 .. Len(l) PROVE l[j] \in ToSet(x.list) /\ l[j] # m
    OBVIOUS
  <2>1. j \in (k - 1) + 1 .. Len(l) /\ j \in 1 .. Len(l) /\ j # k
    BY <1>1
  <2> QED BY <1>1, <1>2, <2>1 DEF Cleared, Listed
<1>5. CASE y = x
  BY <1>4, <1>5 DEF Cleared
<1>6. CASE y = Rmvq(x, kd, m)
  <2>1. TakeDone(x, kd, m, y)
    BY ONLY <1>3, <1>6, None \notin Msg, RmvqIs
  <2>2. /\ QOK(y, kd) /\ ToSet(y.list) = ToSet(x.list) \ {m}
        /\ Kept(x, y) /\ \A w : Marked(x, w) => Marked(y, w)
    BY <2>1 DEF TakeDone
  <2>3. ToSet(y.list) \subseteq ToSet(s.list)
    BY <2>2 DEF Cleared
  <2>4. \A j \in k + 1 .. Len(l) : l[j] \in ToSet(y.list)
    BY <1>4, <2>2
  <2>5. \A w : Marked(s, w) => Marked(y, w) /\ Kept(s, y)
    <3> SUFFICES ASSUME NEW w, Marked(s, w) PROVE Marked(y, w) /\ Kept(s, y)
      OBVIOUS
    <3>1. Marked(x, w) /\ Kept(s, x)
      BY DEF Cleared
    <3>2. Kept(s, y)
      BY ONLY <2>2, <3>1 DEF Kept
    <3> QED BY <2>2, <3>1, <3>2
  <2> QED BY <2>2, <2>3, <2>4, <2>5 DEF Cleared
<1> QED BY <1>2, <1>5, <1>6 DEF FlushesBand

\* FlushBand does what the flush must do.
LEMMA FlushBandIs ==
    ASSUME NEW s, NEW kd, QOK(s, kd), None \notin Msg, NEW t, t = FlushBand(s, kd)
    PROVE  FlushDone(s, kd, t)
<1> DEFINE l == s.list
           n == Len(l)
           Next1(x, k) == FlushesBand(s, kd, l[k], x)
           inv == [k \in 0 .. n |-> {x \in QueueT : Cleared(s, kd, k, x)}]
           step == [p \in QueueT \X (1 .. n) |->
                      IF Next1(p[1], p[2]) \in QueueT THEN Next1(p[1], p[2]) ELSE p[1]]
<1>1. n \in Nat
  BY ListIs DEF QOK
<1>2. s \in inv[0]
  <2>1. 0 \in 0 .. n /\ s \in QueueT
    BY <1>1 DEF QOK
  <2>2. \A j \in 0 + 1 .. n : l[j] \in ToSet(l)
    BY <1>1, ListIs DEF QOK
  <2>3. Cleared(s, kd, 0, s)
    BY <2>2 DEF Cleared, Kept
  <2> QED BY <2>1, <2>3
<1>3. ASSUME NEW k \in 1 .. n, NEW x \in inv[k - 1]
      PROVE  /\ x \in QueueT /\ Next1(x, k) \in inv[k] /\ Next1(x, k) \in QueueT
             /\ step[<<x, k>>] = Next1(x, k)
  <2>1. k - 1 \in 0 .. n /\ k \in 0 .. n
    BY <1>1
  <2>2. x \in QueueT /\ Cleared(s, kd, k - 1, x)
    BY <2>1
  <2>3. PICK y : y = Next1(x, k)
    OBVIOUS
  <2>4. Cleared(s, kd, k, y)
    BY <2>2, <2>3, ClearedStep
  <2>5. y \in QueueT
    BY <2>4 DEF Cleared, QOK
  <2>6. y \in inv[k]
    BY ONLY <2>1, <2>4, <2>5
  <2>7. step[<<x, k>>] = Next1(x, k)
    BY <2>2, <2>3, <2>5
  <2> HIDE DEF inv, step
  <2> QED BY <2>2, <2>3, <2>5, <2>6, <2>7
<1>4. inv \in [0 .. n -> SUBSET QueueT]
  OBVIOUS
<1>5. step \in [QueueT \X (1 .. n) -> QueueT]
  <2> HIDE DEF Next1
  <2> QED OBVIOUS
<1>6. \A k \in 1 .. n : \A x \in inv[k - 1] : step[<<x, k>>] \in inv[k]
  BY <1>3
<1> DEFINE Fun(f) == f = [k \in 0 .. n |-> IF k = 0 THEN s
                            ELSE IF /\ kd[s.list[k]].band # 0
                                    /\ s.list[k] # s.last \/ s.list[k] = s.first
                                 THEN Rmvq(f[k - 1], kd, s.list[k]) ELSE f[k - 1]]
           h == CHOOSE f : Fun(f)
<1>7. FlushBand(s, kd) = h[n]
  BY DEF FlushBand
<1> HIDE DEF inv, step
<1>8. Preserved(inv, QueueT, n, s, step)
  BY <1>1, <1>2, <1>4, <1>5, <1>6 DEF Preserved
<1>9. PICK f \in [0 .. n -> QueueT] :
        StepsTo(f, n, s, step) /\ \A k \in 0 .. n : f[k] \in inv[k]
  BY <1>8, StepsExist
<1>10. Fun(f)
  <2> SUFFICES ASSUME NEW k \in 0 .. n
               PROVE  f[k] = IF k = 0 THEN s
                             ELSE IF /\ kd[s.list[k]].band # 0
                                     /\ s.list[k] # s.last \/ s.list[k] = s.first
                                  THEN Rmvq(f[k - 1], kd, s.list[k]) ELSE f[k - 1]
    OBVIOUS
  <2>1. CASE k = 0
    BY <1>9, <2>1 DEF StepsTo
  <2>2. CASE k # 0
    <3>1. k \in 1 .. n /\ k - 1 \in 0 .. n
      BY <1>1, <2>2
    <3>2. f[k] = step[<<f[k - 1], k>>] /\ f[k - 1] \in inv[k - 1]
      BY <1>9, <3>1 DEF StepsTo
    <3>3. f[k] = Next1(f[k - 1], k)
      BY <1>3, <3>1, <3>2
    <3> QED BY <2>2, <3>3 DEF FlushesBand
  <2> QED BY <2>1, <2>2
<1>11. Fun(h)
  <2> HIDE DEF Fun
  <2> QED BY <1>10
<1>12. h[0] = s /\ \A k \in 1 .. n : h[k] = Next1(h[k - 1], k)
  <2> HIDE DEF h
  <2>1. 0 \in 0 .. n
    BY <1>1
  <2>2. h[0] = s
    BY <1>11, <2>1
  <2>3. ASSUME NEW k \in 1 .. n PROVE h[k] = Next1(h[k - 1], k)
    <3>1. k \in 0 .. n /\ k # 0
      BY <1>1
    <3> QED BY <1>11, <3>1 DEF FlushesBand
  <2> QED BY <2>2, <2>3
<1>13. \A k \in 1 .. n : h[k - 1] \in inv[k - 1] => h[k] = step[<<h[k - 1], k>>]
  <2> HIDE DEF h, Next1
  <2> QED BY <1>3, <1>12
<1>14. h[n] \in inv[n]
  <2> HIDE DEF h, Next1
  <2> QED BY ONLY <1>8, <1>12, <1>13, StepsKeep
<1>15. n \in 0 .. n
  BY <1>1
<1>16. Cleared(s, kd, n, h[n])
  BY <1>14, <1>15 DEF inv
<1>17. QOK(h[n], kd) /\ ToSet(h[n].list) \subseteq ToSet(s.list)
       /\ \A w : Marked(s, w) => Marked(h[n], w) /\ Kept(s, h[n])
  <2> HIDE DEF h
  <2> QED BY <1>16 DEF Cleared
<1>18. FlushDone(s, kd, h[n])
  <2> HIDE DEF h
  <2> QED BY ONLY <1>17 DEF FlushDone
<1> QED BY ONLY <1>7, <1>18, t = FlushBand(s, kd)

-----------------------------------------------------------------------------
(* What steps do to the processes.                                         *)

\* t is r, which somebody may have woken.
Roused(r, t) ==
    /\ t \in UserT /\ t.call = r.call /\ t.at = r.at /\ t.mp = r.mp
    /\ t.hipri = r.hipri /\ t.pri = r.pri
    /\ t.asleep => r.asleep
    /\ t.inpoll => r.inpoll
    /\ PlaceOK(r) => PlaceOK(t)

\* A process as it is.
LEMMA RousedSame ==
    ASSUME NEW r \in UserT
    PROVE  Roused(r, r)
BY DEF Roused

\* WakeReaders wakes the readers and nobody else.
LEMMA WakeReadersIs ==
    ASSUME NEW ps \in [Proc -> UserT], NEW ws, ws = WakeReaders(ps)
    PROVE  /\ ws \in [Proc -> UserT]
           /\ \A w \in Proc : /\ Roused(ps[w], ws[w])
                              /\ ws[w].asleep => ~Reads(ws[w])
                              /\ ws[w].listed = ps[w].listed /\ ws[w].inpoll = ps[w].inpoll
<1>1. ASSUME NEW w \in Proc, ws[w] = ps[w] \/ ws[w] = [ps[w] EXCEPT !.asleep = FALSE],
             ws[w].asleep => ~Reads(ws[w])
      PROVE  /\ ws[w] \in UserT /\ Roused(ps[w], ws[w])
             /\ ws[w].asleep => ~Reads(ws[w])
             /\ ws[w].listed = ps[w].listed /\ ws[w].inpoll = ps[w].inpoll
  <2>1. PICK r : r = ps[w]
    OBVIOUS
  <2>2. r \in UserT
    BY <2>1
  <2>3. PICK t : t = ws[w]
    OBVIOUS
  <2>4. CASE t = r
    BY <1>1, <2>1, <2>2, <2>3, <2>4, RousedSame
  <2>5. CASE t = [r EXCEPT !.asleep = FALSE]
    <3>1. /\ t \in UserT /\ t.asleep = FALSE /\ t.call = r.call /\ t.at = r.at /\ t.mp = r.mp
          /\ t.hipri = r.hipri /\ t.pri = r.pri /\ t.listed = r.listed /\ t.inpoll = r.inpoll
      BY <2>2, <2>5 DEF UserT
    <3>2. Roused(r, t)
      BY <3>1 DEF Roused, PlaceOK
    <3> QED BY <1>1, <2>1, <2>3, <3>1, <3>2
  <2> QED BY <1>1, <2>1, <2>3, <2>4, <2>5
<1>2. ws = [w \in Proc |-> ws[w]]
  BY DEF WakeReaders
<1>3. ASSUME NEW w \in Proc
      PROVE  /\ ws[w] = ps[w] \/ ws[w] = [ps[w] EXCEPT !.asleep = FALSE]
             /\ ws[w].asleep => ~Reads(ws[w])
  <2>1. ws[w] = IF Reads(ps[w]) THEN [ps[w] EXCEPT !.asleep = FALSE] ELSE ps[w]
    BY DEF WakeReaders
  <2>2. CASE Reads(ps[w])
    <3>1. ps[w] \in UserT
      OBVIOUS
    <3>2. ws[w].asleep = FALSE
      BY <2>1, <2>2, <3>1 DEF UserT
    <3> QED BY <2>1, <2>2, <3>2
  <2>3. CASE ~Reads(ps[w])
    BY <2>1, <2>3
  <2> QED BY <2>2, <2>3
<1> QED BY <1>1, <1>2, <1>3

\* Pollwakeup wakes those who are listed for one of the events.
LEMMA PollwakeupIs ==
    ASSUME NEW ps \in [Proc -> UserT], NEW E, NEW ws, ws = Pollwakeup(ps, E)
    PROVE  /\ ws \in [Proc -> UserT]
           /\ \A w \in Proc :
                /\ Roused(ps[w], ws[w])
                /\ ps[w].listed /\ ps[w].call.arg \in E => ~ws[w].asleep /\ ~ws[w].inpoll
<1>1. ASSUME NEW w \in Proc
      PROVE  /\ ws[w] \in UserT /\ Roused(ps[w], ws[w])
             /\ ps[w].listed /\ ps[w].call.arg \in E => ~ws[w].asleep /\ ~ws[w].inpoll
  <2>1. PICK r \in UserT : r = ps[w]
    OBVIOUS
  <2>2. PICK t : t = ws[w]
    OBVIOUS
  <2>3. t = IF r.listed /\ r.call.arg \in E
            THEN [r EXCEPT !.asleep = FALSE, !.listed = FALSE, !.inpoll = FALSE] ELSE r
    BY <2>1, <2>2 DEF Pollwakeup
  <2>4. CASE r.listed /\ r.call.arg \in E
    <3>1. PICK n \in BOOLEAN : n = FALSE
      OBVIOUS
    <3>2. t = [r EXCEPT !.asleep = n, !.listed = n, !.inpoll = n]
      BY <2>3, <2>4, <3>1
    <3>3. /\ t \in UserT /\ t.asleep = n /\ t.listed = n /\ t.inpoll = n
          /\ t.call = r.call /\ t.at = r.at /\ t.mp = r.mp /\ t.hipri = r.hipri /\ t.pri = r.pri
      BY <2>1, <3>2 DEF UserT
    <3>4. Roused(r, t)
      BY <3>1, <3>3 DEF Roused, PlaceOK
    <3> QED BY <2>1, <2>2, <3>1, <3>3, <3>4
  <2>5. CASE ~(r.listed /\ r.call.arg \in E)
    BY <2>1, <2>2, <2>3, <2>5, RousedSame
  <2> QED BY <2>4, <2>5
<1>2. ws = [w \in Proc |-> ws[w]]
  BY DEF Pollwakeup
<1> QED BY <1>1, <1>2

\* Who wakes up later was woken.
LEMMA RousedTwice ==
    ASSUME NEW r, NEW s, NEW t, Roused(r, s), Roused(s, t)
    PROVE  Roused(r, t)
BY DEF Roused

\* A step of p, in which the message it holds comes from the queue, goes there or is
\* freed, and the other messages stay where they are and as they are.
Turn(p) ==
    /\ p \in Proc /\ proc' \in [Proc -> UserT]
    /\ \A w \in Proc : w # p => Roused(proc[w], proc'[w])
    /\ PlaceOK(proc'[p])
    /\ proc'[p].mp # None <=> proc'[p].at \in Carries
    /\ proc'[p].at = "copy" => ~kind'[proc'[p].mp].pri
    /\ \A m \in Msg : m \notin {proc[p].mp, proc'[p].mp} =>
         kind'[m] = kind[m] /\ (m \in ToSet(q'.list) <=> m \in ToSet(q.list))
    /\ proc'[p].mp # None =>
         /\ kind'[proc'[p].mp] # None /\ proc'[p].mp \notin ToSet(q'.list)
         /\ proc'[p].mp = proc[p].mp \/ proc'[p].mp \in ToSet(q.list)
    /\ proc[p].mp \notin {None, proc'[p].mp} =>
         (kind'[proc[p].mp] # None => proc[p].mp \in ToSet(q'.list))
Typed2 == /\ kind' \in KindT /\ head' \in HeadT /\ blocked' \in {None, 0, 1}
          /\ cpu' \in Proc \cup {None} /\ missed' \subseteq Proc /\ QOK(q', kind')

\* It keeps the core of the invariant.
LEMMA TurnCore ==
    ASSUME Core, NEW p, Turn(p), Typed2
    PROVE  Core'
<1>1. p \in Proc /\ proc' \in [Proc -> UserT] /\ proc \in [Proc -> UserT]
  BY DEF Turn, Core, Typed
<1>2. Typed' /\ QOK(q, kind)'
  BY <1>1 DEF Typed2, Typed
<1>3. \A w \in Proc : proc[w].mp \in Msg \cup {None} /\ proc'[w].mp \in Msg \cup {None}
  BY <1>1 DEF UserT
<1>4. \A w \in Proc : w # p => /\ proc'[w].mp = proc[w].mp /\ proc'[w].at = proc[w].at
                               /\ PlaceOK(proc[w]) => PlaceOK(proc'[w])
  BY DEF Turn, Roused
<1>5. ASSUME NEW w \in Proc, w # p, proc[w].mp # None
      PROVE  /\ proc[w].mp \in Msg /\ proc[w].mp \notin {proc[p].mp, proc'[p].mp}
             /\ kind'[proc[w].mp] = kind[proc[w].mp]
             /\ kind'[proc[w].mp] # None /\ proc[w].mp \notin ToSet(q'.list)
  <2>1. proc[w].mp \in Msg /\ proc[w].mp \notin {proc[p].mp, proc'[p].mp}
    BY <1>1, <1>3, <1>5 DEF Turn, Core, Owned
  <2> QED BY <1>5, <2>1 DEF Turn, Core, Owned
<1>6. Owned'
  <2>1. \A w \in Proc : proc'[w].mp # None <=> proc'[w].at \in Carries
    BY <1>4 DEF Turn, Core, Owned
  <2>2. \A w \in Proc : proc'[w].mp # None =>
          kind'[proc'[w].mp] # None /\ proc'[w].mp \notin ToSet(q'.list)
    BY <1>4, <1>5 DEF Turn
  <2>3. \A w, r \in Proc : w # r /\ proc'[w].mp # None => proc'[w].mp # proc'[r].mp
    BY <1>1, <1>4, <1>5 DEF Core, Owned
  <2>4. ASSUME NEW m \in Msg, kind'[m] # None, m \notin ToSet(q'.list)
        PROVE  \E w \in Proc : proc'[w].mp = m
    <3>1. CASE m = proc'[p].mp
      BY <1>1, <3>1
    <3>2. CASE m # proc'[p].mp
      <4>1. m # proc[p].mp
        BY <2>4, <3>2, StreamAssumption DEF Turn
      <4>2. kind[m] # None /\ m \notin ToSet(q.list)
        BY <2>4, <3>2, <4>1 DEF Turn
      <4>3. PICK w \in Proc : proc[w].mp = m
        BY <4>2 DEF Core, Owned
      <4> QED BY <1>4, <4>1, <4>3
    <3> QED BY <3>1, <3>2
  <2> QED BY <2>1, <2>2, <2>3, <2>4 DEF Owned
<1>7. Placed'
  <2>1. \A w \in Proc : PlaceOK(proc'[w])
    BY <1>4 DEF Turn, Core, Placed
  <2>2. ASSUME NEW w \in Proc, proc'[w].at = "copy" PROVE ~kind'[proc'[w].mp].pri
    <3>1. CASE w = p
      BY <2>2, <3>1 DEF Turn
    <3>2. CASE w # p
      <4>1. proc[w].at = "copy" /\ proc[w].mp # None
        BY <1>4, <2>2, <3>2 DEF Core, Owned, Carries
      <4> QED BY <1>4, <1>5, <3>2, <4>1 DEF Core, Placed
    <3> QED BY <3>1, <3>2
  <2> QED BY <2>1, <2>2 DEF Placed
<1> QED BY <1>2, <1>6, <1>7 DEF Core

\* A step of the stream's, which may wake processes.  Messages come and go on the queue
\* but those that processes hold stay as they are.
Below ==
    /\ proc' \in [Proc -> UserT] /\ \A w \in Proc : Roused(proc[w], proc'[w])
    /\ \A w \in Proc : proc[w].mp # None =>
         kind'[proc[w].mp] = kind[proc[w].mp] /\ proc[w].mp \notin ToSet(q'.list)
    /\ \A m \in Msg : /\ kind'[m] # None
                      /\ \A w \in Proc : proc[w].mp # m
                      => m \in ToSet(q'.list)

\* Such a step keeps the core of the invariant.
LEMMA BelowCore ==
    ASSUME Core, Below, Typed2
    PROVE  Core'
<1>1. \A w \in Proc : /\ proc'[w].mp = proc[w].mp /\ proc'[w].at = proc[w].at
                      /\ PlaceOK(proc[w]) => PlaceOK(proc'[w])
  BY DEF Below, Roused
<1>2. Typed' /\ QOK(q, kind)'
  BY DEF Typed2, Typed, Below
<1>3. Owned'
  BY <1>1 DEF Below, Core, Owned
<1>4. Placed'
  BY <1>1 DEF Below, Core, Owned, Placed, Carries
<1> QED BY <1>2, <1>3, <1>4 DEF Core

-----------------------------------------------------------------------------
(* The core of the invariant holds after each step.                        *)

\* A queue is sound whatever the messages are that are not on it.
LEMMA OtherKinds ==
    ASSUME NEW s, NEW kd, QOK(s, kd), NEW ke, \A m \in ToSet(s.list) : ke[m] = kd[m]
    PROVE  QOK(s, ke)
<1>1. /\ s.list \in Seq(Msg)
      /\ \A i \in 1 .. Len(s.list) : ke[s.list[i]] = kd[s.list[i]]
  BY ListIs DEF QOK
<1>2. Listed(s.list, ke)
  BY <1>1 DEF QOK, Listed
<1>3. Shaped(s, ke)
  <2>1. PICK h, b \in 0 .. Len(s.list) : Shape(s.list, kd, h, b) /\ Ptrs(s, h, b)
    BY DEF QOK, Shaped
  <2>2. Shape(s.list, ke, h, b)
    BY <1>1, <2>1 DEF Shape, RankOf
  <2> QED BY <2>1, <2>2 DEF Shaped
<1>4. Counted(s, ke)
  <2>1. ASSUME NEW c \in {0, 1} PROVE Weight(c, kd, s.list) = Weight(c, ke, s.list)
    <3>1. \A k \in 1 .. Len(s.list) : kd[s.list[k]] = ke[s.list[k]]
      BY <1>1
    <3> QED BY ONLY <1>1, <3>1, WeightSame
  <2> QED BY <2>1 DEF QOK, Counted
<1> QED BY <1>2, <1>3, <1>4 DEF QOK

\* What messages are.
LEMMA KindIs ==
    ASSUME Core
    PROVE  /\ \A m \in Msg : kind[m] = None \/ kind[m] \in GoodKind
           /\ \A m \in ToSet(q.list) : m \in Msg /\ kind[m] # None
           /\ \A w \in Proc : /\ proc[w] \in UserT
                              /\ proc[w].mp # None => proc[w].mp \in Msg /\ kind[proc[w].mp] # None
                              /\ proc[w].mp # None => kind[proc[w].mp] \in GoodKind
           /\ kind = [m \in Msg |-> kind[m]]
           /\ None \notin GoodKind /\ None \notin Msg /\ Kinds \subseteq GoodKind
<1>1. /\ None \notin GoodKind /\ None \notin Msg
      /\ Kinds \subseteq GoodKind
  BY StreamAssumption DEF GoodKind
<1>2. /\ \A m \in Msg : kind[m] = None \/ kind[m] \in GoodKind
      /\ kind = [m \in Msg |-> kind[m]]
  BY DEF Core, Typed, KindT
<1>3. \A m \in ToSet(q.list) : m \in Msg /\ kind[m] # None
  BY <1>1, ListIs DEF Core, QOK
<1>4. \A w \in Proc : proc[w] \in UserT /\ proc[w].mp \in Msg \cup {None}
  BY DEF Core, Typed, UserT
<1>5. \A w \in Proc :
        /\ proc[w].mp # None => proc[w].mp \in Msg /\ kind[proc[w].mp] # None
        /\ proc[w].mp # None => kind[proc[w].mp] \in GoodKind
  BY <1>2, <1>4 DEF Core, Owned
<1> QED BY <1>1, <1>2, <1>3, <1>4, <1>5

\* What strrput does: a new message comes, or none.
Comes(s, k, m) ==
    /\ m \in Msg /\ kind[m] = None /\ ~Dropped(k)
    /\ kind' = [kind EXCEPT ![m] = k] /\ q' = Putq(s, kind', m) /\ proc' = Woken(q', kind', m)
    /\ head' = [head EXCEPT !.pri = @ \/ k.pri, !.rsleep = FALSE]
ComesNot(s) ==
    /\ q' = s /\ UNCHANGED kind
    /\ \/ UNCHANGED <<head, proc>>
       \/ /\ head' = [head EXCEPT !.rsleep = FALSE]
          /\ proc' = IF head.rsleep THEN WakeReaders(proc) ELSE proc

\* strrput does one of the two.
LEMMA StrrputCases ==
    ASSUME NEW s, NEW k, Strrput(s, k)
    PROVE  ComesNot(s) \/ \E m : Comes(s, k, m)
<1>1. CASE Dropped(k) /\ q' = s /\ UNCHANGED <<kind, head, proc>>
  BY <1>1 DEF ComesNot
<1>2. CASE Unused # {} /\ ~ComesNot(s)
  <2>1. PICK m : m = CHOOSE x \in Unused : TRUE
    OBVIOUS
  <2>2. m \in Unused
    BY <1>2, <2>1
  <2>3. m \in Msg /\ kind[m] = None
    BY <2>2 DEF Unused
  <2>4. ~Dropped(k) /\ kind' = [kind EXCEPT ![m] = k] /\ q' = Putq(s, kind', m)
        /\ proc' = Woken(q', kind', m)
        /\ head' = [head EXCEPT !.pri = @ \/ k.pri, !.rsleep = FALSE]
    BY <1>2, <2>1 DEF Strrput, ComesNot
  <2> QED BY <2>3, <2>4 DEF Comes
<1>3. CASE Unused = {}
  BY <1>3 DEF Strrput, ComesNot
<1> QED BY <1>1, <1>2, <1>3

\* Those whom strrput wakes: who polls for these events.
Brings(s, kd, m) ==
    IF kd[m].pri THEN {"POLLPRI"}
    ELSE IF s.list[1] = m
    THEN {"POLLIN", IF kd[m].band = 0 THEN "POLLRDNORM" ELSE "POLLRDBAND"}
    ELSE {}

\* Whom it wakes: every reader if one sleeps, and who polls for what it brings.
LEMMA WokenIs ==
    ASSUME proc \in [Proc -> UserT], NEW s, NEW kd, NEW m, NEW ws, ws = Woken(s, kd, m)
    PROVE  /\ ws \in [Proc -> UserT] /\ \A w \in Proc : Roused(proc[w], ws[w])
           /\ head.rsleep => \A w \in Proc : Reads(ws[w]) => ~ws[w].asleep
           /\ \A w \in Proc : proc[w].listed /\ proc[w].call.arg \in Brings(s, kd, m)
                                => ~ws[w].asleep /\ ~ws[w].inpoll
<1>1. PICK ps : ps = IF head.rsleep THEN WakeReaders(proc) ELSE proc
  OBVIOUS
<1>2. PICK E : E = Brings(s, kd, m)
  OBVIOUS
<1>3. ws = Pollwakeup(ps, E)
  BY <1>1, <1>2 DEF Woken, Brings
<1>4. /\ ps \in [Proc -> UserT] /\ \A w \in Proc : Roused(proc[w], ps[w])
      /\ head.rsleep => \A w \in Proc : ps[w].asleep => ~Reads(ps[w])
      /\ \A w \in Proc : ps[w].listed = proc[w].listed
  <2>1. PICK rs : rs = WakeReaders(proc)
    OBVIOUS
  <2>2. /\ rs \in [Proc -> UserT]
        /\ \A w \in Proc : /\ Roused(proc[w], rs[w]) /\ (rs[w].asleep => ~Reads(rs[w]))
                           /\ rs[w].listed = proc[w].listed
    BY <2>1, WakeReadersIs
  <2>3. \A w \in Proc : Roused(proc[w], proc[w])
    BY RousedSame
  <2>4. CASE head.rsleep
    BY <1>1, <2>1, <2>2, <2>4
  <2>5. CASE ~head.rsleep
    BY <1>1, <2>3, <2>5
  <2> QED BY <2>4, <2>5
<1>5. /\ ws \in [Proc -> UserT]
      /\ \A w \in Proc :
           /\ Roused(ps[w], ws[w])
           /\ ps[w].listed /\ ps[w].call.arg \in E => ~ws[w].asleep /\ ~ws[w].inpoll
  BY <1>3, <1>4, PollwakeupIs
<1>6. \A w \in Proc : Roused(proc[w], ws[w])
  BY <1>4, <1>5, RousedTwice
<1>7. \A w \in Proc : ps[w].call = proc[w].call /\ ws[w].at = ps[w].at /\ (ws[w].asleep => ps[w].asleep)
  BY <1>4, <1>5 DEF Roused
<1>8. head.rsleep => \A w \in Proc : Reads(ws[w]) => ~ws[w].asleep
  BY <1>4, <1>7 DEF Reads
<1>9. \A w \in Proc : proc[w].listed /\ proc[w].call.arg \in E => ~ws[w].asleep /\ ~ws[w].inpoll
  BY <1>4, <1>5, <1>7
<1> QED BY <1>2, <1>5, <1>6, <1>8, <1>9

\* What follows for the queue.
Grown(s) ==
    /\ kind' \in KindT /\ head' \in HeadT /\ QOK(q', kind') /\ Below
    /\ \A w : Marked(s, w) => Marked(q', w) /\ Kept(s, q')

\* strrput does no more than that.
LEMMA StrrputIs ==
    ASSUME Core, NEW s, QOK(s, kind), s.list = q.list, NEW k \in Kinds, Strrput(s, k)
    PROVE  Grown(s)
<1>1. /\ kind \in KindT /\ head \in HeadT /\ proc \in [Proc -> UserT]
  BY DEF Core, Typed
<1>2. /\ \A m \in Msg : kind[m] = None \/ kind[m] \in GoodKind
      /\ \A m \in ToSet(q.list) : m \in Msg /\ kind[m] # None
      /\ \A w \in Proc : proc[w].mp # None => proc[w].mp \in Msg /\ kind[proc[w].mp] # None
      /\ None \notin GoodKind /\ None \notin Msg /\ k \in GoodKind
  BY KindIs
<1>3. k.pri \in BOOLEAN
  BY <1>2 DEF GoodKind, Kind
<1>4. CASE ComesNot(s)
  <2>1. /\ proc' \in [Proc -> UserT] /\ \A w \in Proc : Roused(proc[w], proc'[w])
    <3>1. PICK ws : ws = WakeReaders(proc)
      OBVIOUS
    <3>2. ws \in [Proc -> UserT] /\ \A w \in Proc : Roused(proc[w], ws[w])
      BY <1>1, <3>1, WakeReadersIs
    <3>3. \A w \in Proc : Roused(proc[w], proc[w])
      BY <1>1, RousedSame
    <3>4. proc' = proc \/ proc' = ws
      BY <1>4, <3>1 DEF ComesNot
    <3> QED BY <1>1, <3>2, <3>3, <3>4
  <2>2. head' \in HeadT
    BY <1>1, <1>4 DEF ComesNot, HeadT
  <2>3. Below
    BY <1>4, <2>1 DEF Below, ComesNot, Core, Owned
  <2>4. \A w : Marked(s, w) => Marked(q', w) /\ Kept(s, q')
    BY <1>4 DEF ComesNot, Kept
  <2> QED BY <1>1, <1>4, <2>2, <2>3, <2>4 DEF Grown, ComesNot
<1>5. ASSUME NEW m, Comes(s, k, m) PROVE Grown(s)
  <2>1. m \in Msg /\ kind[m] = None /\ kind' = [kind EXCEPT ![m] = k] /\ q' = Putq(s, kind', m)
        /\ proc' = Woken(q', kind', m)
        /\ head' = [head EXCEPT !.pri = @ \/ k.pri, !.rsleep = FALSE]
    BY <1>5 DEF Comes
  <2>2. PICK kd : kd = [kind EXCEPT ![m] = k]
    OBVIOUS
  <2>3. kd \in KindT /\ kd[m] = k /\ \A x \in Msg : x # m => kd[x] = kind[x]
    BY <1>1, <1>2, <2>1, <2>2 DEF KindT
  <2>4. m \notin ToSet(s.list)
    BY <1>2, <2>1
  <2>5. \A x \in ToSet(s.list) : kd[x] = kind[x]
    BY <1>2, <2>3, <2>4
  <2>6. QOK(s, kd)
    BY ONLY <2>5, QOK(s, kind), OtherKinds
  <2>7. PutDone(s, kd, m, Putq(s, kd, m))
    <3>1. kd[m] \in GoodKind
      BY <1>2, <2>3
    <3> QED BY ONLY <1>2, <2>1, <2>4, <2>6, <3>1, PutqIs
  <2>8. PutDone(s, kd, m, q') /\ kind' = kd
    BY <2>1, <2>2, <2>7
  <2>9. /\ QOK(q', kd) /\ ToSet(q'.list) = ToSet(s.list) \cup {m}
        /\ \A w : Marked(s, w) => Marked(q', w) /\ Kept(s, q')
    BY <2>8 DEF PutDone
  <2>10. head' \in HeadT
    BY <1>1, <1>3, <2>1 DEF HeadT
  <2>11. proc' \in [Proc -> UserT] /\ \A w \in Proc : Roused(proc[w], proc'[w])
    <3>1. PICK ws : ws = Woken(q', kind', m)
      OBVIOUS
    <3>2. ws \in [Proc -> UserT] /\ \A w \in Proc : Roused(proc[w], ws[w])
      BY <1>1, <3>1, WokenIs
    <3> QED BY <2>1, <3>1, <3>2
  <2>12. Below
    <3>1. ASSUME NEW w \in Proc, proc[w].mp # None
          PROVE  kd[proc[w].mp] = kind[proc[w].mp] /\ proc[w].mp \notin ToSet(q'.list)
      <4>1. proc[w].mp \notin ToSet(q.list) /\ proc[w].mp # m
        BY <1>2, <2>1, <3>1 DEF Core, Owned
      <4> QED BY <1>2, <2>3, <2>9, <3>1, <4>1
    <3>2. ASSUME NEW x \in Msg, kd[x] # None, \A w \in Proc : proc[w].mp # x
          PROVE  x \in ToSet(q'.list)
      BY <2>3, <2>9, <3>2 DEF Core, Owned
    <3> QED BY <2>8, <2>11, <3>1, <3>2 DEF Below
  <2> QED BY <2>3, <2>8, <2>9, <2>10, <2>12 DEF Grown
<1> QED BY <1>4, <1>5, StrrputCases

\* Only flow control and marks change.
Still ==
    /\ QOK(q', kind) /\ q'.list = q.list /\ UNCHANGED <<kind, proc>>

\* Such a step comes from below.
LEMMA StillIs ==
    ASSUME Core, Still
    PROVE  Below /\ kind' \in KindT /\ QOK(q', kind')
<1>1. proc \in [Proc -> UserT] /\ kind \in KindT
  BY DEF Core, Typed
<1>2. \A w \in Proc : Roused(proc[w], proc[w])
  BY <1>1, RousedSame
<1>3. Below
  BY <1>1, <1>2 DEF Below, Still, Core, Owned
<1> QED BY <1>1, <1>3 DEF Still

\* The interrupt sends the message or marks the band.
LEMMA ArriveIs ==
    ASSUME Core, NEW k \in Kinds, Arrive(k)
    PROVE  \/ Strrput(q, k)
           \/ Still /\ UNCHANGED head /\ q'.enab /\ \A w : Marked(q, w) => Marked(q', w)
<1>1. QOK(q, kind) /\ k \in GoodKind
  BY KindIs DEF Core
<1>2. CASE /\ Full(q, k.band) /\ q' = [Wants(q, k.band) EXCEPT !.enab = TRUE]
           /\ UNCHANGED <<kind, head, proc>>
  <2>1. PICK c : c = k.band
    OBVIOUS
  <2>2. c \in {0, 1} /\ q.flow[c].there
    BY <1>1, <1>2, <2>1 DEF GoodKind, Kind, Full
  <2>3. PICK t : t = Wants(q, c)
    OBVIOUS
  <2>4. QOK(t, kind) /\ t.list = q.list /\ \A w : Marked(q, w) => Marked(t, w)
    BY <1>1, <2>2, <2>3, WantsIs DEF FlowDone
  <2>5. PICK e \in BOOLEAN : e = TRUE
    OBVIOUS
  <2>6. QOK(q', kind) /\ q'.list = t.list /\ q'.enab = e /\ \A w : Marked(t, w) => Marked(q', w)
    <3>1. q' = [t EXCEPT !.enab = e]
      BY <1>2, <2>1, <2>3, <2>5
    <3> QED BY ONLY <2>4, e \in BOOLEAN, <3>1, EnabIs
  <2>7. Still
    BY <1>2, <2>4, <2>6 DEF Still
  <2> QED BY <1>2, <2>4, <2>5, <2>6, <2>7
<1> QED BY <1>2 DEF Arrive

\* An interrupt of the driver keeps the core of the invariant.
LEMMA ArriveCore ==
    ASSUME Core, NEW k \in Kinds, Arrive(k)
    PROVE  Core'
<1>1. QOK(q, kind)
  BY DEF Core
<1>2. UNCHANGED <<blocked, cpu>> /\ missed' \subseteq Proc
  BY DEF Arrive, Missing
<1>3. CASE Strrput(q, k)
  <2>1. Grown(q)
    BY ONLY Core, k \in Kinds, <1>1, <1>3, StrrputIs
  <2>2. Below /\ Typed2
    BY <1>2, <2>1 DEF Grown, Typed2, Core, Typed
  <2> QED BY <2>2, BelowCore
<1>4. CASE Still /\ UNCHANGED head
  <2>1. Below /\ Typed2
    BY <1>2, <1>4, StillIs DEF Typed2, Core, Typed
  <2> QED BY <2>1, BelowCore
<1> QED BY <1>3, <1>4, ArriveIs

\* queuerun finds nothing to send, is refused, or sends the message to the queue s.
Sends(s, k) ==
    /\ QOK(s, kind) /\ s.list = q.list /\ (\A w : Marked(q, w) => Marked(s, w)) /\ Strrput(s, k)
    /\ blocked' = None \/ (s = q /\ blocked' = blocked)

\* queuerun finds nothing to send, is refused, or sends.
LEMMA QueuerunIs ==
    ASSUME Core, NEW k \in Kinds, Queuerun(k)
    PROVE  \/ /\ Still /\ UNCHANGED head /\ \A w : Marked(q, w) => Marked(q', w)
              /\ \/ blocked' = None
                 \/ blocked' \in {0, 1} /\ \A w : Marked(q, w) => Holds(q', blocked')
           \/ \E s : Sends(s, k)
<1>1. QOK(q, kind) /\ k \in GoodKind
  BY KindIs DEF Core
<1>2. PICK e \in BOOLEAN : e = FALSE
  OBVIOUS
<1>3. PICK s : s = [q EXCEPT !.enab = e]
  OBVIOUS
<1>4. QOK(s, kind) /\ s.list = q.list /\ s.flow = q.flow /\ \A w : Marked(q, w) => Marked(s, w)
  BY <1>1, <1>3, EnabIs
<1>5. CASE blocked = None /\ q' = s /\ UNCHANGED <<kind, head, proc, blocked>>
  <2>1. Still
    BY <1>4, <1>5 DEF Still
  <2> QED BY <1>4, <1>5, <2>1
<1>6. CASE Full(q, k.band) /\ q' = Wants(s, k.band) /\ blocked' = k.band /\ UNCHANGED <<kind, head, proc>>
  <2>1. PICK c : c = k.band
    OBVIOUS
  <2>2. c \in {0, 1} /\ s.flow[c].there /\ s.flow[c].full
    BY <1>1, <1>4, <1>6, <2>1 DEF GoodKind, Kind, Full
  <2>3. /\ FlowDone(s, kind, q')
        /\ q'.flow[c].wantw /\ q'.flow[c].count = s.flow[c].count /\ q'.flow[c].lo = s.flow[c].lo
    BY <1>4, <1>6, <2>1, <2>2, WantsIs
  <2>4. Still
    BY <1>4, <1>6, <2>3 DEF Still, FlowDone
  <2>5. \A w : Marked(q, w) => Marked(q', w)
    BY <1>4, <2>3 DEF FlowDone
  <2>6. ASSUME NEW w, Marked(q, w) PROVE Holds(q', c)
    <3>1. /\ s.flow[c].hi = w[1] /\ s.flow[c].lo = w[2] /\ s.flow[c].count >= w[1]
      BY <1>4, <2>2, <2>6 DEF Marked
    <3>2. s.flow[c].count \in Nat /\ s.flow[c].hi \in Nat /\ s.flow[c].lo \in 1 .. s.flow[c].hi
      <4>1. s \in QueueT
        BY <1>4 DEF QOK
      <4> QED BY <2>2, <4>1, QueueIs
    <3>3. s.flow[c].count >= s.flow[c].lo
      BY <3>1, <3>2
    <3> QED BY <2>3, <3>3 DEF Holds
  <2> QED BY <1>6, <2>1, <2>2, <2>4, <2>5, <2>6
<1>7. CASE \/ Strrput(q, k) /\ blocked' = blocked
           \/ Strrput(s, k) /\ blocked' = None
  BY <1>1, <1>4, <1>7 DEF Sends
<1> QED BY <1>2, <1>3, <1>5, <1>6, <1>7 DEF Queuerun

\* queuerun keeps the core of the invariant.
LEMMA QueuerunCore ==
    ASSUME Core, NEW k \in Kinds, Queuerun(k)
    PROVE  Core'
<1>1. cpu' = cpu /\ missed' \subseteq Proc
  BY DEF Queuerun, Missing
<1>2. CASE Still /\ UNCHANGED head /\ blocked' \in {None, 0, 1}
  <2>1. Below /\ Typed2
    BY <1>1, <1>2, StillIs DEF Typed2, Core, Typed
  <2> QED BY <2>1, BelowCore
<1>3. CASE \E s : Sends(s, k)
  <2>1. PICK s : Sends(s, k)
    BY <1>3
  <2>2. QOK(s, kind) /\ s.list = q.list /\ Strrput(s, k)
    BY <2>1 DEF Sends
  <2>3. Grown(s)
    BY ONLY Core, k \in Kinds, <2>2, StrrputIs
  <2>4. Below /\ Typed2
    BY <1>1, <2>1, <2>3 DEF Sends, Grown, Typed2, Core, Typed
  <2> QED BY <2>4, BelowCore
<1> QED BY <1>2, <1>3, QueuerunIs

\* M_FLUSH.
LEMMA FlushIs ==
    ASSUME Core, Flush
    PROVE  /\ FlushDone(q, kind, q') /\ Below /\ Typed2
           /\ \A m \in Msg : kind'[m] \in {None, kind[m]}
           /\ \A m \in Msg : m \notin ToSet(q.list) => kind'[m] = kind[m]
<1>1. QOK(q, kind) /\ kind \in KindT /\ head \in HeadT /\ blocked \in {None, 0, 1}
      /\ cpu \in Proc \cup {None} /\ None \notin Msg /\ proc \in [Proc -> UserT]
  BY KindIs DEF Core, Typed
<1>2. FlushDone(q, kind, q')
  BY <1>1, FlushAllIs, FlushNormalIs, FlushBandIs DEF Flush
<1>3. head' \in HeadT
  BY <1>1 DEF Flush, HeadT
<1>4. /\ kind' = [m \in Msg |-> IF m \in ToSet(q.list) \ ToSet(q'.list) THEN None ELSE kind[m]]
      /\ UNCHANGED <<blocked, proc, cpu>> /\ missed' \subseteq Proc
  BY DEF Flush, Missing
<1>5. kind' \in KindT
  BY <1>1, <1>4 DEF KindT
<1>6. QOK(q', kind) /\ ToSet(q'.list) \subseteq ToSet(q.list)
  BY <1>2 DEF FlushDone
<1>7. \A m \in ToSet(q'.list) : kind'[m] = kind[m]
  BY <1>4, <1>6, KindIs
<1>8. QOK(q', kind')
  BY ONLY <1>6, <1>7, OtherKinds
<1>9. \A w \in Proc : Roused(proc[w], proc[w])
  BY <1>1, RousedSame
<1>10. \A w \in Proc : proc[w].mp # None =>
         proc[w].mp \in Msg /\ kind'[proc[w].mp] = kind[proc[w].mp]
         /\ proc[w].mp \notin ToSet(q'.list)
  BY <1>4, <1>6, KindIs DEF Core, Owned
<1>11. \A m \in Msg : kind'[m] # None /\ (\A w \in Proc : proc[w].mp # m) => m \in ToSet(q'.list)
  BY <1>4 DEF Core, Owned
<1>12. Below
  BY <1>1, <1>4, <1>9, <1>10, <1>11 DEF Below
<1> QED BY <1>1, <1>2, <1>3, <1>4, <1>5, <1>8, <1>12 DEF Typed2

\* M_SETOPTS moves no message; marks that it sets to what they are stay right.
LEMMA SetOptsStill ==
    ASSUME Core, NEW b \in {0, 1}, NEW mark \in Marks, SetOpts(b, mark)
    PROVE  Still /\ (Marked(q, mark) => Marked(q', mark) /\ Kept(q, q'))
<1>1. QOK(q, kind) /\ mark[1] \in Nat /\ mark[2] \in 1 .. mark[1]
  BY StreamAssumption DEF Core
<1>2. QOK(q', kind) /\ q'.list = q.list /\ (Marked(q, mark) => Marked(q', mark) /\ Kept(q, q'))
  <2>1. q' = Opted(q, b, mark)
    BY DEF SetOpts, Opted
  <2> QED BY ONLY <1>1, b \in {0, 1}, <2>1, SetOptsIs
<1> QED BY <1>2 DEF Still, SetOpts

\* M_SETOPTS keeps the core of the invariant.
LEMMA SetOptsCore ==
    ASSUME Core, NEW b \in {0, 1}, NEW mark \in Marks, SetOpts(b, mark)
    PROVE  Core'
<1>1. Still
  BY SetOptsStill
<1>2. Below /\ Typed2
  BY <1>1, StillIs DEF Typed2, SetOpts, Missing, Core, Typed
<1> QED BY <1>2, BelowCore

\* M_HANGUP wakes everybody.
LEMMA HangupIs ==
    ASSUME Core, Hangup
    PROVE  /\ Below /\ Typed2
           /\ \A w \in Proc : /\ proc'[w].asleep => ~Reads(proc'[w])
                              /\ proc[w].listed => ~proc'[w].asleep /\ ~proc'[w].inpoll
<1>1. proc \in [Proc -> UserT] /\ head \in HeadT
  BY DEF Core, Typed
<1>2. PICK rs : rs = WakeReaders(proc)
  OBVIOUS
<1>3. /\ rs \in [Proc -> UserT]
      /\ \A w \in Proc : /\ Roused(proc[w], rs[w]) /\ (rs[w].asleep => ~Reads(rs[w]))
                         /\ rs[w].listed = proc[w].listed
  BY <1>1, <1>2, WakeReadersIs
<1>4. proc' = Pollwakeup(rs, Events)
  BY <1>2 DEF Hangup
<1>5. /\ proc' \in [Proc -> UserT]
      /\ \A w \in Proc :
           /\ Roused(rs[w], proc'[w])
           /\ rs[w].listed /\ rs[w].call.arg \in Events => ~proc'[w].asleep /\ ~proc'[w].inpoll
  BY ONLY <1>3, <1>4, PollwakeupIs
<1>6. \A w \in Proc : Roused(proc[w], proc'[w])
  BY <1>3, <1>5, RousedTwice
<1>7. \A w \in Proc : proc'[w].asleep => ~Reads(proc'[w])
  BY <1>3, <1>5 DEF Roused, Reads
<1>8. ASSUME NEW w \in Proc, proc[w].listed PROVE rs[w].call.arg \in Events
  <2>1. proc[w].call.op = "poll" /\ proc[w].call # None /\ proc[w] \in UserT
    BY <1>1, <1>8 DEF Core, Placed, PlaceOK
  <2>2. proc[w].call.arg \in Events
    BY <2>1 DEF UserT, Call, Events
  <2> QED BY <1>3, <2>2 DEF Roused
<1>9. Below
  BY <1>5, <1>6 DEF Below, Hangup, Core, Owned
<1>10. Typed2
  <2>1. head' \in HeadT
    BY <1>1 DEF HeadT, Hangup
  <2> QED BY <2>1 DEF Typed2, Hangup, Missing, Core, Typed
<1> QED BY <1>3, <1>5, <1>7, <1>8, <1>9, <1>10

\* p sleeps, or is about to.
Lingers(r) == r.asleep \/ (r.at = "pollsleep" /\ r.inpoll)

\* Who comes to the beginning of a call.
LEMMA EntersIs ==
    ASSUME Core, NEW p \in Proc, NEW op \in {"read", "getmsg", "poll"}, NEW r \in Enters(p, op)
    PROVE  /\ r \in UserT /\ r.mp = None /\ r.at = op /\ r.call # None /\ r.call.op = op
           /\ r.asleep = FALSE /\ PlaceOK(r)
           /\ proc[p].mp = None /\ ~Lingers(proc[p]) /\ proc[p].at \in {"user", op}
           /\ (cpu = None \/ cpu = p)
<1>1. proc[p] \in UserT /\ PlaceOK(proc[p]) /\ (proc[p].mp # None <=> proc[p].at \in Carries)
  BY DEF Core, Typed, Placed, Owned
<1>2. CASE Runs(p, op) /\ r = proc[p]
  BY <1>1, <1>2 DEF Runs, Carries, PlaceOK, Lingers, UserT
<1>3. CASE /\ Runs(p, "user") /\ cpu = None
           /\ \E c \in {d \in Calls : d.op = op} : r = [User EXCEPT !.call = c, !.at = op, !.resid = c.n]
  <2>1. PICK c \in Calls : c.op = op /\ r = [User EXCEPT !.call = c, !.at = op, !.resid = c.n]
    BY <1>3
  <2>2. c \in Call /\ c # None
    BY StreamAssumption
  <2>3. c.n \in Nat
    BY <2>2 DEF Call
  <2>4. PICK n \in Nat, a \in Where : n = c.n /\ a = op
    BY <2>3 DEF Where
  <2>5. PICK z \in Nat, no \in BOOLEAN, b \in {0, 1} : z = 0 /\ no = FALSE /\ b = 0
    OBVIOUS
  <2>6. r = [call |-> c, at |-> a, asleep |-> no, mp |-> None, resid |-> n,
             rflg |-> no, hipri |-> no, pri |-> b, listed |-> no, inpoll |-> no]
    BY <2>1, <2>4, <2>5 DEF User
  <2>7. /\ r \in UserT /\ r.mp = None /\ r.at = op /\ r.call = c /\ r.asleep = FALSE
        /\ r.listed = FALSE /\ r.inpoll = FALSE
    BY <2>2, <2>4, <2>5, <2>6 DEF UserT
  <2>8. PlaceOK(r)
    BY <2>1, <2>2, <2>7 DEF PlaceOK
  <2>9. proc[p].mp = None /\ ~Lingers(proc[p]) /\ proc[p].at = "user"
    BY <1>1, <1>3 DEF Runs, Carries, Lingers
  <2> QED BY <1>3, <2>1, <2>2, <2>7, <2>8, <2>9
<1> QED BY <1>2, <1>3 DEF Enters, Runs

\* Who returns.
LEMMA UserIs == User \in UserT /\ User.mp = None /\ User.at = "user" /\ ~Lingers(User)
                /\ PlaceOK(User) /\ User.asleep = FALSE
<1>1. PICK z \in Nat, no \in BOOLEAN, b \in {0, 1}, a \in Where :
        z = 0 /\ no = FALSE /\ b = 0 /\ a = "user"
  BY DEF Where
<1>2. User = [call |-> None, at |-> a, asleep |-> no, mp |-> None, resid |-> z,
              rflg |-> no, hipri |-> no, pri |-> b, listed |-> no, inpoll |-> no]
  BY <1>1 DEF User
<1>3. User \in UserT /\ User.mp = None /\ User.at = "user" /\ User.listed = FALSE
      /\ User.asleep = FALSE /\ User.inpoll = FALSE
  BY <1>1, <1>2 DEF UserT
<1> QED BY <1>3 DEF Lingers, PlaceOK

\* p becomes r and nobody else changes.
Becomes(p, r) == proc' = [proc EXCEPT ![p] = r]

\* The others are as they were.
LEMMA BecomesIs ==
    ASSUME Core, NEW p \in Proc, NEW r \in UserT, Becomes(p, r)
    PROVE  /\ proc' \in [Proc -> UserT] /\ proc'[p] = r
           /\ \A w \in Proc : w # p => proc'[w] = proc[w] /\ Roused(proc[w], proc'[w])
<1>1. proc \in [Proc -> UserT]
  BY DEF Core, Typed
<1>2. /\ proc' \in [Proc -> UserT] /\ proc'[p] = r
      /\ \A w \in Proc : w # p => proc'[w] = proc[w]
  BY <1>1 DEF Becomes
<1>3. \A w \in Proc : Roused(proc[w], proc[w])
  BY <1>1, RousedSame
<1> QED BY <1>2, <1>3

\* p has no message before and after.
LEMMA TurnQuiet ==
    ASSUME Core, NEW p \in Proc, proc[p].mp = None, NEW r, r \in UserT, r.mp = None, PlaceOK(r),
           r.at \notin Carries,
           proc' \in [Proc -> UserT], proc'[p] = r,
           \A w \in Proc : w # p => Roused(proc[w], proc'[w]),
           kind' = kind, q'.list = q.list
    PROVE  Turn(p)
<1>1. r.at # "copy"
  BY DEF Carries
<1> QED BY <1>1 DEF Turn

\* p goes on with the message that it has, which stays what it is but for M_PCPROTO.
LEMMA TurnHold ==
    ASSUME Core, NEW p \in Proc, NEW m, m = proc[p].mp, m # None,
           NEW r \in UserT, r.mp = m, PlaceOK(r), r.at \in Carries, Becomes(p, r),
           kind'[m] # None, \A x \in Msg : x # m => kind'[x] = kind[x],
           r.at = "copy" => ~kind'[m].pri, q'.list = q.list
    PROVE  Turn(p)
<1>1. /\ proc' \in [Proc -> UserT] /\ proc'[p] = r
      /\ \A w \in Proc : w # p => Roused(proc[w], proc'[w])
  BY BecomesIs
<1>2. m \notin ToSet(q.list)
  BY DEF Core, Owned
<1> QED BY <1>1, <1>2 DEF Turn

\* Marks that are right stay right, and a driver that will go on is not forgotten.
Flows == \A w : Marked(q, w) => Marked(q', w) /\ Kept(q, q')

\* p has taken the first message.
LEMMA TurnTake ==
    ASSUME Core, NEW p \in Proc, proc[p].mp = None, q.list # <<>>,
           NEW kept \in BOOLEAN, q' = Getq(q, kind, kept),
           NEW r \in UserT, r.mp = q.list[1], PlaceOK(r), r.at \in Carries, r.at # "copy",
           Becomes(p, r), kind' = kind
    PROVE  Turn(p) /\ QOK(q', kind) /\ Flows
<1>1. /\ proc' \in [Proc -> UserT] /\ proc'[p] = r
      /\ \A w \in Proc : w # p => Roused(proc[w], proc'[w])
  BY BecomesIs
<1>2. QOK(q, kind) /\ None \notin Msg
  BY StreamAssumption DEF Core
<1>3. PICK m : m = q.list[1]
  OBVIOUS
<1>4. QOK(q', kind) /\ ToSet(q'.list) = ToSet(q.list) \ {m} /\ Flows
  <2>1. TakeDone(q, kind, m, q')
    BY <1>2, <1>3, GetqIs
  <2> QED BY <2>1 DEF TakeDone, Flows
<1>5. m \in ToSet(q.list)
  <2>1. q.list \in Seq(Msg)
    BY <1>2, ListIs DEF QOK
  <2>2. 1 \in 1 .. Len(q.list)
    BY <2>1
  <2> QED BY <1>2, <1>3, <2>2, ListIs DEF QOK
<1>6. m \in Msg /\ kind[m] # None
  BY <1>5, KindIs
<1> QED BY <1>1, <1>2, <1>3, <1>4, <1>5, <1>6 DEF Turn

\* The message of p goes back to the queue.
LEMMA TurnBack ==
    ASSUME Core, NEW p \in Proc, NEW m, m = proc[p].mp, m # None,
           NEW r \in UserT, r.mp = None, PlaceOK(r), r.at \notin Carries, Becomes(p, r),
           PutDone(q, kind', m, q'), \A x \in Msg : x # m => kind'[x] = kind[x]
    PROVE  Turn(p)
<1>1. /\ proc' \in [Proc -> UserT] /\ proc'[p] = r
      /\ \A w \in Proc : w # p => Roused(proc[w], proc'[w])
  BY BecomesIs
<1>2. ToSet(q'.list) = ToSet(q.list) \cup {m}
  BY DEF PutDone
<1>3. r.at # "copy"
  BY DEF Carries
<1> QED BY <1>1, <1>2, <1>3 DEF Turn

\* The message of p is freed.
LEMMA TurnFree ==
    ASSUME Core, NEW p \in Proc, NEW m, m = proc[p].mp, m # None,
           NEW r \in UserT, r.mp = None, PlaceOK(r), r.at \notin Carries, Becomes(p, r),
           Freemsg(m), q' = q
    PROVE  Turn(p) /\ kind' \in KindT /\ QOK(q', kind') /\ kind'[m] = None
           /\ \A x \in Msg : x # m => kind'[x] = kind[x]
<1>1. /\ proc' \in [Proc -> UserT] /\ proc'[p] = r
      /\ \A w \in Proc : w # p => Roused(proc[w], proc'[w])
  BY BecomesIs
<1>2. m \in Msg /\ kind[m] # None /\ m \notin ToSet(q.list)
  BY KindIs DEF Core, Owned
<1>3. kind' = [kind EXCEPT ![m] = None] /\ kind \in KindT
  BY DEF Freemsg, Core, Typed
<1>4. kind' \in KindT /\ kind'[m] = None /\ \A x \in Msg : x # m => kind'[x] = kind[x]
  BY <1>2, <1>3 DEF KindT
<1>5. \A x \in ToSet(q.list) : kind'[x] = kind[x]
  BY <1>2, <1>4, KindIs
<1>6. QOK(q', kind')
  <2>1. QOK(q, kind)
    BY DEF Core
  <2>2. QOK(q, kind')
    BY ONLY <1>5, <2>1, OtherKinds
  <2> QED BY <2>2
<1>7. r.at # "copy"
  BY DEF Carries
<1> QED BY <1>1, <1>2, <1>4, <1>6, <1>7 DEF Turn

\* The rest of the message goes back.
LEMMA LeftoverIs ==
    ASSUME Core, NEW p \in Proc, NEW m, m = proc[p].mp, m # None,
           NEW n \in Nat, n < kind[m].size, Leftover(m, n)
    PROVE  /\ kind' \in KindT /\ kind'[m] \in GoodKind
           /\ kind'[m].pri = kind[m].pri /\ kind'[m].band = kind[m].band
           /\ \A x \in Msg : x # m => kind'[x] = kind[x]
           /\ PutDone(q, kind', m, q') /\ QOK(q', kind')
<1>1. m \in Msg /\ kind[m] \in GoodKind /\ m \notin ToSet(q.list) /\ None \notin Msg
  BY KindIs DEF Core, Owned
<1>2. kind \in KindT /\ QOK(q, kind)
  BY DEF Core, Typed
<1>3. PICK z : z = kind[m].size - n
  OBVIOUS
<1>4. z \in Nat \ {0}
  BY <1>1, <1>3 DEF GoodKind, Kind
<1>5. PICK k : k = [kind[m] EXCEPT !.size = z]
  OBVIOUS
<1>6. k \in GoodKind /\ k.pri = kind[m].pri /\ k.band = kind[m].band
  <2>1. PICK j \in GoodKind : j = kind[m]
    BY <1>1
  <2>2. j \in Kind /\ (j.pri => j.band = 0)
    BY <2>1 DEF GoodKind
  <2>3. k = [j EXCEPT !.size = z]
    BY <1>5, <2>1
  <2>4. k \in Kind /\ k.pri = j.pri /\ k.band = j.band
    BY <1>4, <2>2, <2>3 DEF Kind
  <2> QED BY <2>1, <2>2, <2>4 DEF GoodKind
<1>7. PICK kd : kd = [kind EXCEPT ![m] = k]
  OBVIOUS
<1>8. kd \in KindT /\ kd[m] = k /\ \A x \in Msg : x # m => kd[x] = kind[x]
  BY <1>1, <1>2, <1>6, <1>7 DEF KindT
<1>9. kd = [kind EXCEPT ![m].size = @ - n]
  BY <1>3, <1>5, <1>7
<1>10. kind' = kd /\ q' = Putbq(q, kd, m)
  BY <1>9 DEF Leftover
<1>11. \A x \in ToSet(q.list) : kd[x] = kind[x]
  BY <1>1, <1>8, KindIs
<1>12. QOK(q, kd)
  BY ONLY <1>2, <1>11, OtherKinds
<1>13. kd[m] \in GoodKind
  BY <1>6, <1>8
<1>14. PutDone(q, kd, m, Putbq(q, kd, m))
  BY ONLY <1>1, <1>12, <1>13, PutbqIs
<1> QED BY <1>6, <1>8, <1>10, <1>14 DEF PutDone

\* What the core of the invariant says of the state.
LEMMA CoreIs ==
    ASSUME Core
    PROVE  /\ QOK(q, kind) /\ kind \in KindT /\ head \in HeadT /\ blocked \in {None, 0, 1}
           /\ cpu \in Proc \cup {None} /\ missed \subseteq Proc /\ proc \in [Proc -> UserT]
           /\ \A w \in Proc : proc[w] \in UserT /\ PlaceOK(proc[w])
BY DEF Core, Typed, Placed

\* p goes to sleep.
Asleep(r) == [r EXCEPT !.asleep = TRUE]

\* A reader that goes to sleep.
LEMMA AsleepIs ==
    ASSUME NEW r \in UserT, r.at \in {"read", "getmsg"}, PlaceOK(r)
    PROVE  /\ Asleep(r) \in UserT /\ PlaceOK(Asleep(r)) /\ Asleep(r).mp = r.mp
           /\ Asleep(r).at = r.at /\ Asleep(r).call = r.call /\ Asleep(r).asleep = TRUE
<1>1. PICK y \in BOOLEAN : y = TRUE
  OBVIOUS
<1>2. PICK t : t = [r EXCEPT !.asleep = y]
  OBVIOUS
<1>3. /\ t \in UserT /\ t.mp = r.mp /\ t.at = r.at /\ t.call = r.call /\ t.asleep = y
      /\ t.listed = r.listed /\ t.inpoll = r.inpoll
  BY <1>2 DEF UserT
<1>4. PlaceOK(t)
  BY <1>1, <1>3 DEF PlaceOK
<1> QED BY <1>1, <1>2, <1>3, <1>4 DEF Asleep

\* Read and getmsg find nothing: they return or sleep.
NoMessage(p, r) ==
    /\ q'.list = q.list /\ QOK(q', kind) /\ kind' = kind /\ Flows
    /\ \/ Becomes(p, User) /\ UNCHANGED head
       \/ /\ Waits(r.call) /\ ~head.hup
          /\ Becomes(p, Asleep(r)) /\ head' = [head EXCEPT !.rsleep = TRUE]

\* Such a step is one of p alone, in which no message moves.
LEMMA NoMessageIs ==
    ASSUME Core, NEW p \in Proc, NEW op \in {"read", "getmsg"}, NEW r \in Enters(p, op),
           NoMessage(p, r)
    PROVE  Turn(p) /\ kind' \in KindT /\ head' \in HeadT
<1>1. /\ r \in UserT /\ r.mp = None /\ r.at = op /\ PlaceOK(r) /\ proc[p].mp = None
  BY EntersIs
<1>2. PICK t \in {User, Asleep(r)} : Becomes(p, t)
  BY DEF NoMessage
<1>3. t \in UserT /\ t.mp = None /\ PlaceOK(t) /\ t.at \notin Carries
  BY <1>1, UserIs, AsleepIs DEF Carries
<1>4. /\ proc' \in [Proc -> UserT] /\ proc'[p] = t
      /\ \A w \in Proc : w # p => Roused(proc[w], proc'[w])
  BY <1>2, <1>3, BecomesIs
<1>5. Turn(p)
  <2>1. kind' = kind /\ q'.list = q.list
    BY DEF NoMessage
  <2> QED BY ONLY Core, p \in Proc, <1>1, <1>3, <1>4, <2>1, TurnQuiet
<1>6. head' \in HeadT
  <2>1. PICK y \in BOOLEAN : y = TRUE
    OBVIOUS
  <2>2. head' = head \/ head' = [head EXCEPT !.rsleep = y]
    BY <2>1 DEF NoMessage
  <2> QED BY <2>2, CoreIs DEF HeadT
<1> QED BY <1>5, <1>6, CoreIs DEF NoMessage

\* They find a message.
Takes(p, r, at) ==
    /\ q.list # <<>> /\ (\E kept \in BOOLEAN : q' = Getq(q, kind, kept))
    /\ Becomes(p, [r EXCEPT !.at = at, !.mp = q.list[1]]) /\ UNCHANGED <<kind, head>>

\* Such a step is one of p alone, and it has the first message then.
LEMMA TakesIs ==
    ASSUME Core, NEW p \in Proc, NEW op, NEW r, NEW at,
           (op = "read" /\ at = "got") \/ (op = "getmsg" /\ at = "ggot"),
           r \in Enters(p, op), Takes(p, r, at)
    PROVE  /\ Turn(p) /\ kind' \in KindT /\ head' \in HeadT /\ QOK(q', kind')
           /\ proc'[p].at = at /\ proc'[p].mp = q.list[1] /\ ~Lingers(proc'[p]) /\ Flows
           /\ \A w \in Proc : w # p => proc'[w] = proc[w]
<1>1. op \in {"read", "getmsg", "poll"}
  OBVIOUS
<1>2. /\ r \in UserT /\ r.call # None /\ r.call.op = op /\ r.at = op /\ PlaceOK(r)
      /\ proc[p].mp = None /\ r.asleep = FALSE
  BY ONLY Core, p \in Proc, <1>1, r \in Enters(p, op), EntersIs
<1>3. PICK kept \in BOOLEAN : q' = Getq(q, kind, kept)
  BY DEF Takes
<1>4. q.list # <<>> /\ kind' = kind /\ head' = head
  BY DEF Takes
<1>5. PICK m : m = q.list[1]
  OBVIOUS
<1>6. m \in Msg
  <2>1. q.list \in Seq(Msg)
    BY CoreIs, ListIs DEF QOK
  <2> QED BY <1>4, <1>5, <2>1
<1>7. PICK t : t = [r EXCEPT !.at = at, !.mp = m]
  OBVIOUS
<1>8. at \in Where /\ at \in Carries /\ at # "copy"
  BY DEF Where, Carries
<1>9. /\ t \in UserT /\ t.at = at /\ t.mp = m /\ t.call = r.call /\ t.asleep = FALSE
      /\ t.listed = r.listed /\ t.inpoll = r.inpoll
  BY <1>2, <1>6, <1>7, <1>8 DEF UserT
<1>10. PlaceOK(t) /\ ~Lingers(t)
  BY <1>2, <1>9 DEF PlaceOK, Lingers
<1>11. Becomes(p, t)
  BY <1>5, <1>7 DEF Takes
<1>12. Turn(p) /\ QOK(q', kind) /\ Flows
  <2>1. t.mp = q.list[1] /\ t.at \in Carries /\ t.at # "copy"
    BY <1>5, <1>8, <1>9
  <2> QED BY ONLY Core, p \in Proc, <1>2, <1>3, <1>4, <1>9, <1>10, <1>11, <2>1,
                  kept \in BOOLEAN, TurnTake
<1>13. proc'[p] = t /\ \A w \in Proc : w # p => proc'[w] = proc[w]
  BY ONLY Core, p \in Proc, <1>9, <1>11, BecomesIs
<1> QED BY <1>4, <1>5, <1>9, <1>10, <1>12, <1>13, CoreIs

\* The loop of strread.
LEMMA ReadIs ==
    ASSUME Core, NEW p \in Proc, Read(p)
    PROVE  /\ Turn(p) /\ Typed2 /\ Flows
           /\ \E r \in Enters(p, "read") : NoMessage(p, r) \/ Takes(p, r, "got")
<1>1. PICK r \in Enters(p, "read") :
    \/ /\ q.list = <<>> /\ (head.hup \/ r.rflg)
       /\ q' = GetqEmpty(q) /\ Return(p) /\ UNCHANGED <<kind, head>>
    \/ /\ q.list = <<>> /\ ~head.hup /\ ~r.rflg
       /\ q' = GetqEmpty(q) /\ Waitq(p, r)
    \/ /\ q.list # <<>> /\ \E kept \in BOOLEAN : q' = Getq(q, kind, kept)
       /\ On(p, [r EXCEPT !.at = "got", !.mp = q.list[1]]) /\ UNCHANGED <<kind, head>>
  BY DEF Read
<1>2. blocked' = blocked /\ missed' \subseteq Proc /\ cpu' \in {p, None}
  BY <1>1 DEF Read, Missing, Return, Off, On, Waitq
<1>3. NoMessage(p, r) \/ Takes(p, r, "got")
  <2>1. CASE q' = GetqEmpty(q)
    <3>1. QOK(q', kind) /\ q'.list = q.list /\ Flows
      BY <2>1, CoreIs, GetqEmptyIs DEF FlowDone, Flows
    <3> QED BY <1>1, <3>1 DEF NoMessage, Takes, Return, Off, On, Waitq, Becomes, Asleep, Waits
  <2>2. CASE q.list # <<>>
    BY <1>1, <2>2 DEF Takes, On, Becomes
  <2> QED BY <1>1, <2>1, <2>2
<1>4. CASE NoMessage(p, r)
  <2>1. Turn(p) /\ kind' \in KindT /\ head' \in HeadT
    BY <1>4, NoMessageIs
  <2>2. QOK(q', kind') /\ Flows
    BY <1>4 DEF NoMessage
  <2> QED BY <1>2, <1>4, <2>1, <2>2, CoreIs DEF Typed2
<1>5. CASE Takes(p, r, "got")
  <2>1. PICK op, at : op = "read" /\ at = "got"
    OBVIOUS
  <2>2. Turn(p) /\ kind' \in KindT /\ head' \in HeadT /\ QOK(q', kind') /\ Flows
    BY <1>5, <2>1, TakesIs
  <2> QED BY <1>2, <1>5, <2>2, CoreIs DEF Typed2
<1> QED BY <1>3, <1>4, <1>5

\* The loop of strgetmsg.
LEMMA GetmsgIs ==
    ASSUME Core, NEW p \in Proc, Getmsg(p)
    PROVE  /\ Turn(p) /\ Typed2 /\ Flows
           /\ \E r \in Enters(p, "getmsg") :
                \/ NoMessage(p, r)
                \/ ~Waits(r.call) /\ Takes(p, r, "ggot")
<1>1. PICK r \in Enters(p, "getmsg") :
    \/ Waits(r.call) /\ head.hup /\ q' = Tried(r.call) /\ Return(p) /\ UNCHANGED <<kind, head>>
    \/ Waits(r.call) /\ ~head.hup /\ q' = Tried(r.call) /\ Waitq(p, r)
    \/ /\ ~Waits(r.call) /\ \E kept \in BOOLEAN : q' = Getq(q, kind, kept)
       /\ On(p, [r EXCEPT !.at = "ggot", !.mp = q.list[1]]) /\ UNCHANGED <<kind, head>>
  BY DEF Getmsg
<1>2. blocked' = blocked /\ missed' \subseteq Proc /\ cpu' \in {p, None}
  BY <1>1 DEF Getmsg, Missing, Return, Off, On, Waitq
<1>3. \/ NoMessage(p, r)
      \/ ~Waits(r.call) /\ Takes(p, r, "ggot")
  <2>1. CASE Waits(r.call) /\ q' = Tried(r.call)
    <3>1. q' = GetqEmpty(q) \/ q' = q
      BY <2>1 DEF Tried
    <3>2. QOK(q', kind) /\ q'.list = q.list /\ Flows
      BY <3>1, CoreIs, GetqEmptyIs DEF FlowDone, Flows, Kept
    <3> QED BY <1>1, <2>1, <3>2 DEF NoMessage, Return, Off, Waitq, Becomes, Asleep
  <2>2. CASE ~Waits(r.call)
    <3>1. q.list # <<>>
      BY <2>2 DEF Waits
    <3> QED BY <1>1, <2>2, <3>1 DEF Takes, On, Becomes
  <2> QED BY <1>1, <2>1, <2>2
<1>4. CASE NoMessage(p, r)
  <2>1. Turn(p) /\ kind' \in KindT /\ head' \in HeadT
    BY <1>4, NoMessageIs
  <2>2. QOK(q', kind') /\ Flows
    BY <1>4 DEF NoMessage
  <2> QED BY <1>2, <1>3, <2>1, <2>2, CoreIs DEF Typed2
<1>5. CASE Takes(p, r, "ggot")
  <2>1. PICK op, at : op = "getmsg" /\ at = "ggot"
    OBVIOUS
  <2>2. Turn(p) /\ kind' \in KindT /\ head' \in HeadT /\ QOK(q', kind') /\ Flows
    BY <1>5, <2>1, TakesIs
  <2> QED BY <1>2, <1>3, <2>2, CoreIs DEF Typed2
<1> QED BY <1>3, <1>4, <1>5

\* p has a message and runs.
LEMMA CarriesIs ==
    ASSUME Core, NEW p \in Proc, NEW at \in Carries, Runs(p, at), NEW m, m = proc[p].mp
    PROVE  /\ proc[p] \in UserT /\ PlaceOK(proc[p]) /\ proc[p].call # None /\ proc[p].at = at
           /\ proc[p].asleep = FALSE /\ ~Lingers(proc[p]) /\ proc[p].listed = FALSE
           /\ m # None /\ m \in Msg /\ kind[m] \in GoodKind /\ kind[m] # None
           /\ m \notin ToSet(q.list) /\ proc[p].resid \in Nat
<1>1. proc[p] \in UserT /\ PlaceOK(proc[p]) /\ (proc[p].mp # None <=> proc[p].at \in Carries)
  BY DEF Core, Typed, Placed, Owned
<1>2. proc[p].asleep = FALSE /\ proc[p].at = at
  BY <1>1 DEF Runs, UserT
<1>3. proc[p].listed = FALSE
  BY <1>1, <1>2 DEF PlaceOK, Carries, UserT
<1>4. proc[p].call # None /\ ~Lingers(proc[p])
  BY <1>1, <1>2 DEF PlaceOK, Carries, Lingers
<1>5. m # None /\ m \notin ToSet(q.list)
  BY <1>1, <1>2 DEF Core, Owned
<1>6. proc[p].resid \in Nat
  BY <1>1 DEF UserT
<1> QED BY <1>1, <1>2, <1>3, <1>4, <1>5, <1>6, KindIs

\* It goes on elsewhere with another message or none.
LEMMA GoesOn ==
    ASSUME NEW r \in UserT, PlaceOK(r), r.asleep = FALSE, r.listed = FALSE, r.call # None,
           NEW at \in {"read", "copy", "gcopy", "gout"}, NEW m \in Msg \cup {None},
           r.call.op = IF at \in {"read", "copy"} THEN "read" ELSE "getmsg",
           NEW t, t \in UserT, t.at = at, t.mp = m, t.call = r.call, t.asleep = FALSE, t.listed = FALSE
    PROVE  PlaceOK(t) /\ ~Lingers(t)
BY DEF PlaceOK, Lingers

\* strread looks at what it has got.
LEMMA GotIs ==
    ASSUME Core, NEW p \in Proc, Got(p)
    PROVE  /\ Turn(p) /\ Typed2 /\ ~Lingers(proc[p]) /\ proc[p].at = "got"
           /\ ~Lingers(proc'[p]) /\ \A w \in Proc : w # p => proc'[w] = proc[w]
           /\ UNCHANGED head \/ head' = [head EXCEPT !.pri = FALSE]
           /\ Flows
<1>0. q' = q => Flows
  BY DEF Flows, Kept
<1>1. PICK r \in UserT, m \in Msg : r = proc[p] /\ m = proc[p].mp
  BY KindIs, CarriesIs DEF Got, Carries
<1>2. PICK at : at = "got"
  OBVIOUS
<1>3. at \in Carries /\ Runs(p, at)
  BY <1>2 DEF Got, Carries
<1>4. /\ PlaceOK(r) /\ r.call # None /\ r.call.op = "read" /\ r.at = "got" /\ r.asleep = FALSE
      /\ ~Lingers(r) /\ r.listed = FALSE /\ m # None /\ kind[m] \in GoodKind
      /\ kind[m] # None /\ m \notin ToSet(q.list)
  <2>1. /\ PlaceOK(r) /\ r.call # None /\ r.at = at /\ r.asleep = FALSE
        /\ ~Lingers(r) /\ r.listed = FALSE /\ m # None /\ kind[m] \in GoodKind
        /\ kind[m] # None /\ m \notin ToSet(q.list)
    BY <1>1, <1>3, CarriesIs
  <2> QED BY <1>2, <2>1 DEF PlaceOK
<1>5. blocked' = blocked /\ cpu' = None /\ missed' \subseteq Proc
  BY DEF Got, Off, Return, Missing
<1>6. PICK t : t = [r EXCEPT !.at = "copy"]
  OBVIOUS
<1>7. /\ t \in UserT /\ t.at = "copy" /\ t.mp = m /\ t.call = r.call /\ t.asleep = FALSE
      /\ t.listed = FALSE
  <2>1. PICK a \in Where : a = "copy"
    BY DEF Where
  <2>2. t = [r EXCEPT !.at = a]
    BY <1>6, <2>1
  <2> QED BY <1>1, <1>4, <2>1, <2>2 DEF UserT
<1>8. PlaceOK(t) /\ ~Lingers(t) /\ t.at \in Carries
  BY <1>4, <1>7, GoesOn DEF Carries
<1>9. CASE ~kind[m].pri /\ Off(p, t) /\ UNCHANGED <<kind, q, head>>
  <2>1. Becomes(p, t)
    BY <1>9 DEF Off, Becomes
  <2>2. /\ kind'[m] # None /\ (\A x \in Msg : x # m => kind'[x] = kind[x])
        /\ (t.at = "copy" => ~kind'[m].pri) /\ q'.list = q.list /\ m = proc[p].mp
    BY <1>1, <1>4, <1>9
  <2>3. Turn(p)
    BY ONLY Core, p \in Proc, <1>4, <1>7, <1>8, <2>1, <2>2, TurnHold
  <2>4. proc'[p] = t /\ \A w \in Proc : w # p => proc'[w] = proc[w]
    BY <1>7, <2>1, BecomesIs
  <2> QED BY <1>0, <1>1, <1>4, <1>5, <1>8, <1>9, <2>3, <2>4, CoreIs DEF Typed2
<1>10. CASE kind[m].pri /\ q' = Putbq(q, kind, m) /\ Return(p) /\ UNCHANGED <<kind, head>>
  <2>1. Becomes(p, User)
    BY <1>10 DEF Return, Off, Becomes
  <2>2. QOK(q, kind) /\ None \notin Msg
    BY CoreIs, KindIs
  <2>3. PutDone(q, kind, m, Putbq(q, kind, m))
    BY ONLY m \in Msg, <1>4, <2>2, PutbqIs
  <2>4. PutDone(q, kind', m, q') /\ m = proc[p].mp /\ (\A x \in Msg : x # m => kind'[x] = kind[x])
    BY <1>1, <1>10, <2>3
  <2>5. /\ User \in UserT /\ User.mp = None /\ PlaceOK(User) /\ User.at \notin Carries
        /\ ~Lingers(User)
    BY UserIs DEF Carries
  <2>6. Turn(p)
    BY ONLY Core, p \in Proc, <1>4, <2>1, <2>4, <2>5, TurnBack
  <2>7. proc'[p] = User /\ \A w \in Proc : w # p => proc'[w] = proc[w]
    BY <2>1, <2>5, BecomesIs
  <2> QED BY <1>1, <1>4, <1>5, <1>10, <2>4, <2>5, <2>6, <2>7, CoreIs DEF Typed2, PutDone, Flows
<1>11. CASE /\ kind[m].pri
            /\ kind' = [kind EXCEPT ![m].pri = FALSE] /\ head' = [head EXCEPT !.pri = FALSE]
            /\ Off(p, t) /\ UNCHANGED q
  <2>1. Becomes(p, t)
    BY <1>11 DEF Off, Becomes
  <2>2. PICK k : k = [kind[m] EXCEPT !.pri = FALSE]
    OBVIOUS
  <2>3. k \in GoodKind /\ k.pri = FALSE
    <3>1. PICK j \in GoodKind, no \in BOOLEAN : j = kind[m] /\ no = FALSE
      BY <1>4
    <3>2. j \in Kind /\ k = [j EXCEPT !.pri = no]
      BY <2>2, <3>1 DEF GoodKind
    <3>3. k \in Kind /\ k.pri = no
      BY <3>1, <3>2 DEF Kind
    <3> QED BY <3>1, <3>3 DEF GoodKind
  <2>4. kind' = [kind EXCEPT ![m] = k]
    BY <1>11, <2>2
  <2>5. kind' \in KindT /\ kind'[m] = k /\ \A x \in Msg : x # m => kind'[x] = kind[x]
    BY <2>3, <2>4, CoreIs DEF KindT
  <2>6. \A x \in ToSet(q.list) : kind'[x] = kind[x]
    BY <1>4, <2>5, KindIs
  <2>7. QOK(q', kind')
    <3>1. QOK(q, kind)
      BY CoreIs
    <3>2. QOK(q, kind')
      BY ONLY <2>6, <3>1, OtherKinds
    <3> QED BY <1>11, <3>2
  <2>8. kind'[m] # None /\ (t.at = "copy" => ~kind'[m].pri) /\ q'.list = q.list /\ m = proc[p].mp
    BY <1>1, <1>11, <2>3, <2>5, KindIs
  <2>9. Turn(p)
    BY ONLY Core, p \in Proc, <1>4, <1>7, <1>8, <2>1, <2>5, <2>8, TurnHold
  <2>10. proc'[p] = t /\ \A w \in Proc : w # p => proc'[w] = proc[w]
    BY <1>7, <2>1, BecomesIs
  <2>11. head' \in HeadT
    <3>1. PICK no \in BOOLEAN : no = FALSE
      OBVIOUS
    <3>2. head' = [head EXCEPT !.pri = no]
      BY <1>11, <3>1
    <3> QED BY <3>2, CoreIs DEF HeadT
  <2> QED BY <1>0, <1>1, <1>4, <1>5, <1>8, <1>11, <2>5, <2>7, <2>9, <2>10, <2>11, CoreIs DEF Typed2
<1> QED BY <1>1, <1>6, <1>9, <1>10, <1>11 DEF Got

\* STRPRI is cleared.
ClearsPri == head' = [head EXCEPT !.pri = FALSE]

\* Nothing else of the head changes.
LEMMA ClearsPriIs ==
    ASSUME head \in HeadT, ClearsPri
    PROVE  head' \in HeadT /\ head'.pri = FALSE /\ head'.rsleep = head.rsleep /\ head'.hup = head.hup
<1>1. PICK no \in BOOLEAN : no = FALSE
  OBVIOUS
<1>2. head' = [head EXCEPT !.pri = no]
  BY <1>1 DEF ClearsPri
<1> QED BY <1>1, <1>2 DEF HeadT

\* The message m is freed, or what is left of it goes back to the queue.
Frees(m) == Freemsg(m) /\ q' = q
Spends(m, n) ==
    \/ Frees(m) /\ (UNCHANGED head \/ ClearsPri)
    \/ n < kind[m].size /\ Leftover(m, n) /\ UNCHANGED head

\* Such a step is one of p alone, which holds nothing afterwards.
LEMMA SpendsIs ==
    ASSUME Core, NEW p \in Proc, NEW m \in Msg, m = proc[p].mp, m # None, NEW n \in Nat, Spends(m, n),
           NEW t \in UserT, t.mp = None, PlaceOK(t), t.at \notin Carries, Becomes(p, t)
    PROVE  /\ Turn(p) /\ kind' \in KindT /\ head' \in HeadT /\ QOK(q', kind')
           /\ \A x \in Msg : x # m => kind'[x] = kind[x]
           /\ \/ kind'[m] = None /\ q' = q
              \/ kind'[m] # None /\ kind'[m].pri = kind[m].pri /\ UNCHANGED head
           /\ proc'[p] = t /\ \A w \in Proc : w # p => proc'[w] = proc[w]
           /\ Flows
<1>0. q' = q => Flows
  BY DEF Flows, Kept
<1>1. proc'[p] = t /\ \A w \in Proc : w # p => proc'[w] = proc[w]
  BY BecomesIs
<1>2. head' \in HeadT
  BY CoreIs, ClearsPriIs DEF Spends
<1>3. CASE Frees(m)
  <2>1. Freemsg(m) /\ q' = q
    BY <1>3 DEF Frees
  <2>2. /\ Turn(p) /\ kind' \in KindT /\ QOK(q', kind') /\ kind'[m] = None
        /\ \A x \in Msg : x # m => kind'[x] = kind[x]
    BY ONLY Core, p \in Proc, m = proc[p].mp, m # None, t \in UserT, t.mp = None, PlaceOK(t),
            t.at \notin Carries, Becomes(p, t), <2>1, TurnFree
  <2> QED BY <1>0, <1>1, <1>2, <2>1, <2>2
<1>4. CASE n < kind[m].size /\ Leftover(m, n) /\ UNCHANGED head
  <2>1. /\ kind' \in KindT /\ kind'[m] \in GoodKind
        /\ kind'[m].pri = kind[m].pri
        /\ \A x \in Msg : x # m => kind'[x] = kind[x]
        /\ PutDone(q, kind', m, q') /\ QOK(q', kind')
    BY ONLY Core, p \in Proc, m = proc[p].mp, m # None, n \in Nat, <1>4, LeftoverIs
  <2>2. Turn(p)
    BY ONLY Core, p \in Proc, m = proc[p].mp, m # None, t \in UserT, t.mp = None, PlaceOK(t),
            t.at \notin Carries, Becomes(p, t), <2>1, TurnBack
  <2>3. kind'[m] # None
    BY <2>1, KindIs
  <2>4. Flows
    BY <2>1 DEF PutDone, Flows
  <2> QED BY <1>1, <1>2, <1>4, <2>1, <2>2, <2>3, <2>4
<1> QED BY <1>3, <1>4 DEF Spends

\* What copying leaves of the message of p.
Spent(p) ==
    /\ Turn(p) /\ Typed2 /\ Flows /\ ~Lingers(proc[p]) /\ ~Lingers(proc'[p])
    /\ proc[p].mp \in Msg /\ kind[proc[p].mp] \in GoodKind
    /\ \A w \in Proc : w # p => proc'[w] = proc[w]
    /\ \A x \in Msg : x # proc[p].mp => kind'[x] = kind[x]
    /\ UNCHANGED head \/ ClearsPri
    /\ \/ kind'[proc[p].mp] = None /\ q' = q
       \/ kind'[proc[p].mp] # None /\ kind'[proc[p].mp].pri = kind[proc[p].mp].pri /\ UNCHANGED head

\* strread has copied.
LEMMA CopyIs ==
    ASSUME Core, NEW p \in Proc, Copy(p)
    PROVE  Spent(p) /\ proc[p].at = "copy" /\ ~kind[proc[p].mp].pri
<1>1. PICK r, m, at : r = proc[p] /\ m = proc[p].mp /\ at = "copy"
  OBVIOUS
<1>2. at \in Carries /\ Runs(p, at)
  BY <1>1 DEF Copy, Carries
<1>3. /\ r \in UserT /\ PlaceOK(r) /\ r.call # None /\ r.at = at /\ r.asleep = FALSE
      /\ ~Lingers(r) /\ r.listed = FALSE /\ m # None /\ m \in Msg /\ kind[m] \in GoodKind
      /\ r.resid \in Nat
  BY <1>1, <1>2, CarriesIs
<1>4. r.call.op = "read"
  BY <1>1, <1>3 DEF PlaceOK
<1>5. ~kind[m].pri
  BY <1>1, <1>3 DEF Core, Placed
<1>6. kind[m].size \in Nat
  BY <1>3 DEF GoodKind, Kind
<1>7. PICK back : back = [r EXCEPT !.at = "read", !.mp = None, !.resid = @ - kind[m].size, !.rflg = TRUE]
  OBVIOUS
<1>8. ASSUME r.resid >= kind[m].size
      PROVE  back \in UserT /\ back.mp = None /\ PlaceOK(back) /\ back.at \notin Carries /\ ~Lingers(back)
  <2>0. r.resid - kind[m].size \in Nat
    BY <1>3, <1>6, <1>8
  <2>1. PICK a \in Where, n \in Nat, y \in BOOLEAN : a = "read" /\ n = r.resid - kind[m].size /\ y = TRUE
    <3>1. "read" \in Where
      BY DEF Where
    <3> QED BY <2>0, <3>1
  <2>2. back = [r EXCEPT !.at = a, !.mp = None, !.resid = n, !.rflg = y]
    BY <1>7, <2>1
  <2>3. /\ back \in UserT /\ back.at = a /\ back.mp = None /\ back.call = r.call
        /\ back.asleep = FALSE /\ back.listed = FALSE
    BY <1>3, <2>1, <2>2 DEF UserT
  <2>4. PlaceOK(back) /\ ~Lingers(back)
    BY <1>3, <1>4, <2>1, <2>3, GoesOn
  <2> QED BY <2>1, <2>3, <2>4 DEF Carries
<1>9. /\ User \in UserT /\ User.mp = None /\ PlaceOK(User) /\ User.at \notin Carries
      /\ ~Lingers(User)
  BY UserIs DEF Carries
<1>10. Spends(m, r.resid)
  BY <1>1 DEF Copy, Spends, Frees, ClearsPri
<1>11. PICK t : Becomes(p, t) /\ (t = User \/ (t = back /\ r.resid >= kind[m].size))
  BY <1>1, <1>7 DEF Copy, Becomes, Return, Off, On
<1>12. t \in UserT /\ t.mp = None /\ PlaceOK(t) /\ t.at \notin Carries /\ ~Lingers(t)
  BY <1>8, <1>9, <1>11
<1>13. PICK n \in Nat : n = r.resid
  BY <1>3
<1>14. Spends(m, n)
  BY <1>10, <1>13
<1>15. /\ Turn(p) /\ kind' \in KindT /\ head' \in HeadT /\ QOK(q', kind')
       /\ \A x \in Msg : x # m => kind'[x] = kind[x]
       /\ \/ kind'[m] = None /\ q' = q
          \/ kind'[m] # None /\ kind'[m].pri = kind[m].pri /\ UNCHANGED head
       /\ proc'[p] = t /\ \A w \in Proc : w # p => proc'[w] = proc[w]
       /\ Flows
  <2>1. m = proc[p].mp
    BY <1>1
  <2> QED BY ONLY Core, p \in Proc, n \in Nat, <1>3, <1>11, <1>12, <1>14, <2>1, SpendsIs
<1>16. blocked' = blocked /\ cpu' \in {None, p} /\ missed' \subseteq Proc
  BY DEF Copy, Off, On, Return, Missing
<1>17. UNCHANGED head \/ ClearsPri
  BY DEF Copy, ClearsPri
<1>18. Typed2
  BY <1>15, <1>16, CoreIs DEF Typed2
<1> QED BY <1>1, <1>3, <1>5, <1>12, <1>15, <1>17, <1>18 DEF Spent

\* strgetmsg has copied.
LEMMA GcopyIs ==
    ASSUME Core, NEW p \in Proc, Gcopy(p)
    PROVE  /\ Spent(p) /\ proc[p].at = "gcopy"
           /\ proc'[p].at = "gout" /\ proc'[p].hipri = proc[p].hipri /\ proc'[p].pri = proc[p].pri
           /\ proc'[p].call = proc[p].call
           /\ kind'[proc[p].mp] = None => ClearsPri
<1>1. PICK r, m, at : r = proc[p] /\ m = proc[p].mp /\ at = "gcopy"
  OBVIOUS
<1>2. at \in Carries /\ Runs(p, at)
  BY <1>1 DEF Gcopy, Carries
<1>3. /\ r \in UserT /\ PlaceOK(r) /\ r.call # None /\ r.at = at /\ r.asleep = FALSE
      /\ ~Lingers(r) /\ r.listed = FALSE /\ m # None /\ m \in Msg /\ kind[m] \in GoodKind
      /\ r.resid \in Nat
  BY <1>1, <1>2, CarriesIs
<1>4. r.call.op = "getmsg"
  BY <1>1, <1>3 DEF PlaceOK
<1>5. PICK t : t = [r EXCEPT !.at = "gout", !.mp = None]
  OBVIOUS
<1>6. /\ t \in UserT /\ t.mp = None /\ t.at = "gout" /\ t.call = r.call /\ t.asleep = FALSE
      /\ t.listed = FALSE /\ t.hipri = r.hipri /\ t.pri = r.pri
  <2>1. PICK a \in Where : a = "gout"
    BY DEF Where
  <2>2. t = [r EXCEPT !.at = a, !.mp = None]
    BY <1>5, <2>1
  <2> QED BY <1>3, <2>1, <2>2 DEF UserT
<1>7. PlaceOK(t) /\ ~Lingers(t) /\ t.at \notin Carries
  BY <1>3, <1>4, <1>6, GoesOn DEF Carries
<1>8. Becomes(p, t)
  BY <1>1, <1>5 DEF Gcopy, On, Becomes
<1>9. PICK n \in Nat : n = r.resid
  BY <1>3
<1>10. Spends(m, n)
  BY <1>1, <1>9 DEF Gcopy, Spends, Frees, ClearsPri
<1>11. /\ Turn(p) /\ kind' \in KindT /\ head' \in HeadT /\ QOK(q', kind')
       /\ \A x \in Msg : x # m => kind'[x] = kind[x]
       /\ \/ kind'[m] = None /\ q' = q
          \/ kind'[m] # None /\ kind'[m].pri = kind[m].pri /\ UNCHANGED head
       /\ proc'[p] = t /\ \A w \in Proc : w # p => proc'[w] = proc[w]
       /\ Flows
  <2>1. m = proc[p].mp
    BY <1>1
  <2> QED BY ONLY Core, p \in Proc, n \in Nat, <1>3, <1>6, <1>7, <1>8, <1>10, <2>1, SpendsIs
<1>12. blocked' = blocked /\ cpu' \in {None, p} /\ missed' \subseteq Proc
  BY DEF Gcopy, On, Missing
<1>13. UNCHANGED head \/ ClearsPri
  BY DEF Gcopy, ClearsPri
<1>14. Typed2
  BY <1>11, <1>12, CoreIs DEF Typed2
<1>15. kind'[m] = None => ClearsPri
  <2>1. CASE ClearsPri
    BY <2>1
  <2>2. CASE r.resid < kind[m].size /\ Leftover(m, r.resid)
    <3>1. m = proc[p].mp /\ n < kind[m].size /\ Leftover(m, n)
      BY <1>1, <1>9, <2>2
    <3>2. kind'[m] \in GoodKind
      BY ONLY Core, p \in Proc, n \in Nat, <1>3, <3>1, LeftoverIs
    <3> QED BY <3>2, KindIs
  <2> QED BY <1>1, <2>1, <2>2 DEF Gcopy, ClearsPri
<1> QED BY <1>1, <1>3, <1>6, <1>7, <1>11, <1>13, <1>14, <1>15 DEF Spent

\* strgetmsg looks at what it has got.
LEMMA GgotIs ==
    ASSUME Core, NEW p \in Proc, Ggot(p)
    PROVE  /\ Turn(p) /\ Typed2 /\ ~Lingers(proc'[p]) /\ proc[p].at = "ggot"
           /\ kind[proc[p].mp] \in GoodKind
           /\ proc'[p].at = "gcopy" /\ proc'[p].pri = kind[proc[p].mp].band
           /\ \A w \in Proc : w # p => proc'[w] = proc[w]
<1>1. PICK r, m, at : r = proc[p] /\ m = proc[p].mp /\ at = "ggot"
  OBVIOUS
<1>2. at \in Carries /\ Runs(p, at)
  BY <1>1 DEF Ggot, Carries
<1>3. /\ r \in UserT /\ PlaceOK(r) /\ r.call # None /\ r.at = at /\ r.asleep = FALSE
      /\ r.listed = FALSE /\ m # None /\ m \in Msg /\ kind[m] \in GoodKind /\ kind[m] # None
  BY <1>1, <1>2, CarriesIs
<1>4. r.call.op = "getmsg"
  BY <1>1, <1>3 DEF PlaceOK
<1>5. PICK t : t = [r EXCEPT !.at = "gcopy", !.hipri = head.pri, !.pri = kind[m].band]
  OBVIOUS
<1>6. /\ t \in UserT /\ t.mp = m /\ t.at = "gcopy" /\ t.call = r.call /\ t.asleep = FALSE
      /\ t.listed = FALSE /\ t.pri = kind[m].band
  <2>1. head.pri \in BOOLEAN /\ kind[m].band \in {0, 1}
    BY <1>3, CoreIs DEF HeadT, GoodKind, Kind
  <2>2. PICK a \in Where, h \in BOOLEAN, b \in {0, 1} : a = "gcopy" /\ h = head.pri /\ b = kind[m].band
    <3>1. "gcopy" \in Where
      BY DEF Where
    <3> QED BY <2>1, <3>1
  <2>3. t = [r EXCEPT !.at = a, !.hipri = h, !.pri = b]
    BY <1>5, <2>2
  <2>4. t \in UserT /\ t.mp = r.mp /\ t.at = a /\ t.call = r.call /\ t.asleep = FALSE
        /\ t.listed = FALSE /\ t.pri = b
    BY <1>3, <2>2, <2>3 DEF UserT
  <2> QED BY <1>1, <2>2, <2>4
<1>7. PlaceOK(t) /\ ~Lingers(t) /\ t.at \in Carries
  BY <1>3, <1>4, <1>6, GoesOn DEF Carries
<1>8. Becomes(p, t)
  BY <1>1, <1>5 DEF Ggot, Off, Becomes
<1>9. /\ kind'[m] # None /\ (\A x \in Msg : x # m => kind'[x] = kind[x])
      /\ (t.at = "copy" => ~kind'[m].pri) /\ q'.list = q.list /\ m = proc[p].mp
  BY <1>1, <1>3, <1>6 DEF Ggot
<1>10. Turn(p)
  BY ONLY Core, p \in Proc, <1>3, <1>6, <1>7, <1>8, <1>9, TurnHold
<1>11. proc'[p] = t /\ \A w \in Proc : w # p => proc'[w] = proc[w]
  BY <1>6, <1>8, BecomesIs
<1>12. Typed2
  BY CoreIs DEF Typed2, Ggot, Off
<1> QED BY <1>1, <1>3, <1>6, <1>7, <1>10, <1>11, <1>12

\* Only processes change, and p has no message.
Idle(p) == /\ Turn(p) /\ Typed2 /\ q' = q /\ kind' = kind
           /\ head'.hup = head.hup /\ head'.pri = head.pri

\* p goes on as r, in a step without messages.
LEMMA IdleIs ==
    ASSUME Core, NEW p \in Proc, proc[p].mp = None, NEW r, r \in UserT, r.mp = None, PlaceOK(r),
           r.at \notin Carries, Becomes(p, r), UNCHANGED <<kind, q, head, blocked>>,
           cpu' \in Proc \cup {None}, missed' \subseteq Proc
    PROVE  Idle(p) /\ proc'[p] = r /\ \A w \in Proc : w # p => proc'[w] = proc[w]
<1>1. /\ proc' \in [Proc -> UserT] /\ proc'[p] = r
      /\ \A w \in Proc : w # p => proc'[w] = proc[w] /\ Roused(proc[w], proc'[w])
  BY BecomesIs
<1>2. /\ \A w \in Proc : w # p => Roused(proc[w], proc'[w])
      /\ kind' = kind /\ q'.list = q.list
  BY <1>1
<1>3. Turn(p)
  BY ONLY Core, p \in Proc, proc[p].mp = None, r \in UserT, r.mp = None, PlaceOK(r),
          r.at \notin Carries, <1>1, <1>2, TurnQuiet
<1>4. Typed2
  BY CoreIs DEF Typed2
<1> QED BY <1>1, <1>3, <1>4 DEF Idle

\* strpoll.
LEMMA PollIs ==
    ASSUME Core, NEW p \in Proc, Poll(p)
    PROVE  /\ Idle(p) /\ ~Lingers(proc[p]) /\ ~Lingers(proc'[p]) /\ UNCHANGED head
           /\ \A w \in Proc : w # p => proc'[w] = proc[w]
<1>1. PICK op : op = "poll"
  OBVIOUS
<1>2. PICK r \in Enters(p, op) :
        IF Ready(r.call.arg) THEN Return(p)
        ELSE On(p, [r EXCEPT !.listed = FALSE, !.inpoll = TRUE, !.at = "polladd"])
  BY <1>1 DEF Poll
<1>3. /\ r \in UserT /\ r.mp = None /\ r.call # None /\ r.call.op = op
      /\ r.asleep = FALSE /\ PlaceOK(r) /\ proc[p].mp = None /\ ~Lingers(proc[p])
  BY <1>1, EntersIs
<1>4. PICK t : t = [r EXCEPT !.listed = FALSE, !.inpoll = TRUE, !.at = "polladd"]
  OBVIOUS
<1>5. t \in UserT /\ t.mp = None /\ PlaceOK(t) /\ t.at \notin Carries /\ ~Lingers(t)
  <2>1. PICK a \in Where, y \in BOOLEAN, no \in BOOLEAN : a = "polladd" /\ y = TRUE /\ no = FALSE
    <3>1. "polladd" \in Where
      BY DEF Where
    <3> QED BY <3>1
  <2>2. t = [r EXCEPT !.listed = no, !.inpoll = y, !.at = a]
    BY <1>4, <2>1
  <2>3. /\ t \in UserT /\ t.at = a /\ t.mp = None /\ t.call = r.call /\ t.asleep = FALSE /\ t.listed = no
        /\ t.inpoll = y
    BY <1>3, <2>2 DEF UserT
  <2> QED BY <1>1, <1>3, <2>1, <2>3 DEF PlaceOK, Lingers, Carries
<1>6. User \in UserT /\ User.mp = None /\ PlaceOK(User) /\ User.at \notin Carries /\ ~Lingers(User)
  BY UserIs DEF Carries
<1>7. PICK u \in {User, t} : Becomes(p, u)
  BY <1>2, <1>4 DEF Return, Off, On, Becomes
<1>8. u \in UserT /\ u.mp = None /\ PlaceOK(u) /\ u.at \notin Carries /\ ~Lingers(u)
  BY <1>5, <1>6, <1>7
<1>9. UNCHANGED <<kind, q, head, blocked>> /\ cpu' \in Proc \cup {None} /\ missed' \subseteq Proc
  BY <1>2 DEF Poll, Return, Off, On, Missing
<1>10. Idle(p) /\ proc'[p] = u /\ \A w \in Proc : w # p => proc'[w] = proc[w]
  BY ONLY Core, p \in Proc, <1>3, <1>7, <1>8, <1>9, IdleIs
<1> QED BY <1>3, <1>8, <1>9, <1>10

\* polladd.
LEMMA PolladdIs ==
    ASSUME Core, NEW p \in Proc, Polladd(p)
    PROVE  /\ Idle(p) /\ ~Lingers(proc[p]) /\ UNCHANGED head
           /\ ~Reads(proc'[p])
           /\ \A w \in Proc : w # p => proc'[w] = proc[w]
<1>1. PICK r : r = proc[p]
  OBVIOUS
<1>2. r \in UserT /\ r.at = "polladd" /\ ~r.asleep /\ PlaceOK(r) /\ r.mp = None
  BY <1>1, CoreIs DEF Polladd, Runs, Core, Owned, Carries
<1>3. PICK t : t = [r EXCEPT !.at = "pollsleep", !.listed = TRUE]
  OBVIOUS
<1>4. t \in UserT /\ t.mp = None /\ PlaceOK(t) /\ t.at = "pollsleep"
  <2>1. PICK a \in Where, y \in BOOLEAN : a = "pollsleep" /\ y = TRUE
    <3>1. "pollsleep" \in Where
      BY DEF Where
    <3> QED BY <3>1
  <2>2. t = [r EXCEPT !.at = a, !.listed = y]
    BY <1>3, <2>1
  <2>3. /\ t \in UserT /\ t.at = a /\ t.mp = None /\ t.call = r.call /\ t.asleep = r.asleep
        /\ t.listed = y
    BY <1>2, <2>2 DEF UserT
  <2> QED BY <1>2, <2>1, <2>3 DEF PlaceOK
<1>5. Becomes(p, t) /\ t.at \notin Carries /\ ~Reads(t) /\ ~Lingers(r)
  BY <1>1, <1>2, <1>3, <1>4 DEF Polladd, On, Becomes, Carries, Reads, Lingers
<1>6. UNCHANGED <<kind, q, head, blocked>> /\ cpu' \in Proc \cup {None} /\ missed' \subseteq Proc
  BY DEF Polladd, On, Missing
<1>7. proc[p].mp = None
  BY <1>1, <1>2
<1>8. Idle(p) /\ proc'[p] = t /\ \A w \in Proc : w # p => proc'[w] = proc[w]
  BY ONLY Core, p \in Proc, <1>4, <1>5, <1>6, <1>7, IdleIs
<1> QED BY <1>1, <1>5, <1>6, <1>8

\* poll goes to sleep, or back to its beginning.
LEMMA PollsleepIs ==
    ASSUME Core, NEW p \in Proc, Pollsleep(p)
    PROVE  /\ Idle(p) /\ UNCHANGED head /\ ~Reads(proc'[p])
           /\ Lingers(proc'[p]) => Lingers(proc[p]) /\ proc'[p].call = proc[p].call
           /\ \A w \in Proc : w # p => proc'[w] = proc[w]
<1>1. PICK r : r = proc[p]
  OBVIOUS
<1>2. r \in UserT /\ r.at = "pollsleep" /\ ~r.asleep /\ PlaceOK(r) /\ r.mp = None
  BY <1>1, CoreIs DEF Pollsleep, Runs, Core, Owned, Carries
<1>3. PICK t : t = IF r.inpoll THEN [[r EXCEPT !.at = "poll", !.inpoll = FALSE] EXCEPT !.asleep = TRUE]
                   ELSE [r EXCEPT !.at = "poll", !.inpoll = FALSE]
  OBVIOUS
<1>4. /\ t \in UserT /\ t.mp = None /\ t.at = "poll" /\ t.call = r.call /\ t.asleep = r.inpoll
      /\ t.listed = r.listed
  <2>1. PICK a \in Where, no \in BOOLEAN, y \in BOOLEAN : a = "poll" /\ no = FALSE /\ y = TRUE
    <3>1. "poll" \in Where
      BY DEF Where
    <3> QED BY <3>1
  <2>2. PICK u : u = [r EXCEPT !.at = a, !.inpoll = no]
    OBVIOUS
  <2>3. /\ u \in UserT /\ u.at = a /\ u.mp = None /\ u.call = r.call /\ u.asleep = r.asleep
        /\ u.listed = r.listed
    BY <1>2, <2>2 DEF UserT
  <2>4. PICK v : v = [u EXCEPT !.asleep = y]
    OBVIOUS
  <2>5. /\ v \in UserT /\ v.at = a /\ v.mp = None /\ v.call = r.call /\ v.asleep = y
        /\ v.listed = r.listed
    BY <2>3, <2>4 DEF UserT
  <2>6. r.asleep = FALSE /\ r.inpoll \in BOOLEAN
    BY <1>2 DEF UserT
  <2> QED BY <1>3, <2>1, <2>2, <2>3, <2>4, <2>5, <2>6
<1>5. PlaceOK(t)
  BY <1>2, <1>4 DEF PlaceOK
<1>6. Becomes(p, t) /\ t.at \notin Carries /\ ~Reads(t) /\ (Lingers(t) => Lingers(r))
  BY <1>1, <1>2, <1>3, <1>4 DEF Pollsleep, On, Off, Becomes, Carries, Reads, Lingers
<1>7. UNCHANGED <<kind, q, head, blocked>> /\ cpu' \in Proc \cup {None} /\ missed' \subseteq Proc
  BY DEF Pollsleep, On, Off, Missing
<1>8. proc[p].mp = None
  BY <1>1, <1>2
<1>9. Idle(p) /\ proc'[p] = t /\ \A w \in Proc : w # p => proc'[w] = proc[w]
  BY ONLY Core, p \in Proc, <1>4, <1>5, <1>6, <1>7, <1>8, IdleIs
<1> QED BY <1>1, <1>4, <1>6, <1>7, <1>9

\* p returns and others may wake up.
LEMMA ReturnsIs ==
    ASSUME Core, NEW p \in Proc, proc[p].mp = None, NEW ws \in [Proc -> UserT],
           \A w \in Proc : Roused(proc[w], ws[w]), proc' = [ws EXCEPT ![p] = User],
           UNCHANGED <<kind, q, blocked>>, head' \in HeadT, head'.hup = head.hup, head'.pri = head.pri,
           cpu' = None, missed' \subseteq Proc
    PROVE  /\ Idle(p) /\ ~Lingers(proc'[p]) /\ proc'[p].asleep = FALSE
           /\ \A w \in Proc : w # p => proc'[w] = ws[w] /\ Roused(proc[w], proc'[w])
<1>1. User \in UserT /\ User.mp = None /\ PlaceOK(User) /\ User.at \notin Carries /\ ~Lingers(User)
      /\ User.asleep = FALSE
  BY UserIs DEF Carries
<1>2. proc' \in [Proc -> UserT] /\ proc'[p] = User /\ \A w \in Proc : w # p => proc'[w] = ws[w]
  BY <1>1
<1>3. /\ \A w \in Proc : w # p => Roused(proc[w], proc'[w])
      /\ kind' = kind /\ q'.list = q.list
  BY <1>2
<1>4. Turn(p)
  BY ONLY Core, p \in Proc, proc[p].mp = None, <1>1, <1>2, <1>3, TurnQuiet
<1>5. Typed2
  BY CoreIs DEF Typed2
<1> QED BY <1>1, <1>2, <1>3, <1>4, <1>5 DEF Idle

\* strgetmsg returns, and wakes who polls for what is at the front.
LEMMA GoutIs ==
    ASSUME Core, NEW p \in Proc, Gout(p)
    PROVE  /\ Idle(p) /\ ~Lingers(proc[p]) /\ ~Lingers(proc'[p]) /\ UNCHANGED head
           /\ proc[p].at = "gout" /\ proc'[p].asleep = FALSE
           /\ \A w \in Proc : w # p =>
                /\ Roused(proc[w], proc'[w])
                /\ proc[w].listed /\ proc[w].call.arg \in AtFront(proc[p])
                     => ~proc'[w].asleep /\ ~proc'[w].inpoll
<1>1. proc[p].at = "gout" /\ ~proc[p].asleep /\ proc[p].mp = None
  BY DEF Gout, Runs, Core, Owned, Carries
<1>2. PICK E : E = AtFront(proc[p])
  OBVIOUS
<1>3. PICK ws : ws = Pollwakeup(proc, E)
  OBVIOUS
<1>4. /\ ws \in [Proc -> UserT]
      /\ \A w \in Proc :
           /\ Roused(proc[w], ws[w])
           /\ proc[w].listed /\ proc[w].call.arg \in E => ~ws[w].asleep /\ ~ws[w].inpoll
  BY <1>3, CoreIs, PollwakeupIs
<1>5. proc' = [ws EXCEPT ![p] = User]
  BY <1>2, <1>3 DEF Gout
<1>6. UNCHANGED <<kind, q, head, blocked>> /\ cpu' = None /\ missed' \subseteq Proc
  BY DEF Gout, Missing
<1>7. head' \in HeadT /\ head'.hup = head.hup /\ head'.pri = head.pri /\ UNCHANGED <<kind, q, blocked>>
  BY <1>6, CoreIs
<1>8. \A w \in Proc : Roused(proc[w], ws[w])
  BY <1>4
<1>9. /\ Idle(p) /\ ~Lingers(proc'[p]) /\ proc'[p].asleep = FALSE
      /\ \A w \in Proc : w # p => proc'[w] = ws[w] /\ Roused(proc[w], proc'[w])
  BY ONLY Core, p \in Proc, <1>1, <1>4, <1>5, <1>6, <1>7, <1>8, ReturnsIs
<1> QED BY <1>1, <1>2, <1>4, <1>6, <1>9 DEF Lingers

\* A signal ends a sleep.
LEMMA SignalIs ==
    ASSUME Core, NEW p \in Proc, Signal(p)
    PROVE  /\ Idle(p) /\ ~Lingers(proc'[p]) /\ proc'[p].asleep = FALSE
           /\ \A w \in Proc : w # p =>
                /\ Roused(proc[w], proc'[w])
                /\ Reads(proc[p]) => (proc'[w].asleep => ~Reads(proc'[w]))
           /\ ~Reads(proc[p]) => head'.rsleep = head.rsleep
<1>1. proc[p].asleep /\ proc[p].mp = None
  <2>1. proc[p].at \in {"read", "getmsg", "poll"}
    BY CoreIs DEF Signal, PlaceOK
  <2> QED BY <2>1 DEF Signal, Core, Owned, Carries
<1>2. PICK rs : rs = WakeReaders(proc)
  OBVIOUS
<1>3. /\ rs \in [Proc -> UserT]
      /\ \A w \in Proc : Roused(proc[w], rs[w]) /\ (rs[w].asleep => ~Reads(rs[w]))
  BY <1>2, CoreIs, WakeReadersIs
<1>4. PICK ws : ws = IF Reads(proc[p]) THEN rs ELSE proc
  OBVIOUS
<1>5. /\ ws \in [Proc -> UserT] /\ \A w \in Proc : Roused(proc[w], ws[w])
  BY <1>3, <1>4, CoreIs, RousedSame
<1>6. proc' = [ws EXCEPT ![p] = User]
  BY <1>2, <1>4 DEF Signal
<1>7. UNCHANGED <<kind, q, blocked>> /\ cpu' = None /\ missed' \subseteq Proc
  BY DEF Signal, Missing
<1>8. head' \in HeadT /\ head'.hup = head.hup /\ head'.pri = head.pri
      /\ (~Reads(proc[p]) => head'.rsleep = head.rsleep)
  <2>1. PICK b : b = (head.rsleep /\ ~Reads(proc[p]))
    OBVIOUS
  <2>2. head.rsleep \in BOOLEAN
    BY CoreIs DEF HeadT
  <2>3. b \in BOOLEAN /\ (~Reads(proc[p]) => b = head.rsleep)
    BY <2>1, <2>2
  <2>4. head' = [head EXCEPT !.rsleep = b]
    BY <2>1 DEF Signal
  <2> QED BY <2>3, <2>4, CoreIs DEF HeadT
<1>9. /\ Idle(p) /\ ~Lingers(proc'[p]) /\ proc'[p].asleep = FALSE
      /\ \A w \in Proc : w # p => proc'[w] = ws[w] /\ Roused(proc[w], proc'[w])
  BY ONLY Core, p \in Proc, <1>1, <1>5, <1>6, <1>7, <1>8, ReturnsIs
<1> QED BY <1>3, <1>4, <1>8, <1>9

\* The core holds at first.
LEMMA InitCore ==
    ASSUME Init
    PROVE  Core /\ PriFlag /\ Waiting /\ blocked = None
           /\ \A w : Marks = {w} => Marked(q, w)
<1>1. PICK w \in Marks :
        q = [list |-> <<>>, flow |-> [b \in {0, 1} |-> Flow(b = 0, w)],
             first |-> None, last |-> None, enab |-> FALSE]
  BY DEF Init
<1>2. w[1] \in Nat /\ w[2] \in 1 .. w[1]
  BY StreamAssumption
<1>3. PICK f, g : f = Flow(TRUE, w) /\ g = Flow(FALSE, w)
  OBVIOUS
<1>4. /\ f \in FlowT /\ f.there = TRUE /\ f.count = 0 /\ f.hi = w[1] /\ f.lo = w[2] /\ ~f.full
      /\ g \in FlowT /\ g.there = FALSE /\ g.count = 0 /\ g.hi = w[1] /\ g.lo = w[2] /\ ~g.full
  <2>1. PICK z \in Nat, no \in BOOLEAN, y \in BOOLEAN, h \in Nat, l \in Nat :
          z = 0 /\ no = FALSE /\ y = TRUE /\ h = w[1] /\ l = w[2] /\ l \in 1 .. h
    <3>1. PICK h \in Nat : h = w[1]
      BY <1>2
    <3>2. PICK l \in Nat : l = w[2]
      BY <1>2
    <3>3. l \in 1 .. h
      BY <1>2, <3>1, <3>2
    <3> QED BY <3>1, <3>2, <3>3
  <2>2. /\ f = [there |-> y, count |-> z, hi |-> h, lo |-> l, full |-> no, wantw |-> no]
        /\ g = [there |-> no, count |-> z, hi |-> h, lo |-> l, full |-> no, wantw |-> no]
    BY <1>3, <2>1 DEF Flow
  <2> QED BY <2>1, <2>2 DEF FlowT
<1>5. PICK fl : fl = [b \in {0, 1} |-> Flow(b = 0, w)]
  OBVIOUS
<1>6. fl[0] = f /\ fl[1] = g
  <2>1. fl[0] = Flow(0 = 0, w) /\ fl[1] = Flow(1 = 0, w)
    BY <1>5
  <2>2. (0 = 0) = TRUE /\ (1 = 0) = FALSE
    OBVIOUS
  <2> QED BY <1>3, <2>1, <2>2
<1>7. fl \in [{0, 1} -> FlowT]
  BY <1>4, <1>5, <1>6
<1>8. /\ q \in QueueT /\ q.list = <<>> /\ q.first = None /\ q.last = None /\ q.flow = fl
  <2>1. PICK no \in BOOLEAN, e \in Seq(Msg) : no = FALSE /\ e = <<>>
    <3>1. <<>> \in Seq(Msg)
      OBVIOUS
    <3> QED BY <3>1
  <2>2. q = [list |-> e, flow |-> fl, first |-> None, last |-> None, enab |-> no]
    BY <1>1, <1>5, <2>1
  <2> QED BY <1>7, <2>1, <2>2 DEF QueueT
<1>9. QOK(q, kind)
  <2>1. Len(q.list) = 0 /\ q.list \in Seq(Msg) /\ 1 .. 0 = {} /\ 0 \in 0 .. 0
    BY <1>8
  <2>2. Listed(q.list, kind)
    BY <2>1 DEF Listed
  <2>3. Shape(q.list, kind, 0, 0) /\ Ptrs(q, 0, 0)
    BY <1>8, <2>1 DEF Shape, Ptrs
  <2>4. Counted(q, kind)
    BY <1>4, <1>6, <1>8, WeightEmpty DEF Counted
  <2> QED BY <1>4, <1>6, <1>8, <2>1, <2>2, <2>3, <2>4 DEF QOK, Shaped
<1>10. /\ kind \in KindT /\ \A m \in Msg : kind[m] = None
  BY DEF Init, KindT
<1>11. proc \in [Proc -> UserT] /\ \A p \in Proc : proc[p] = User
  BY UserIs DEF Init
<1>12. head \in HeadT /\ head.pri = FALSE
  <2>1. PICK no \in BOOLEAN : no = FALSE
    OBVIOUS
  <2>2. head = [pri |-> no, rsleep |-> no, hup |-> no]
    BY <2>1 DEF Init
  <2> QED BY <2>1, <2>2 DEF HeadT
<1>13. Typed
  BY <1>10, <1>11, <1>12 DEF Init, Typed
<1>14. Owned
  BY <1>10, <1>11, UserIs DEF Owned, Carries
<1>15. Placed
  BY <1>11, UserIs DEF Placed
<1>16. PriFlag
  BY <1>10, <1>12 DEF PriFlag, PriTrue, Pris
<1>17. Waiting
  <2>1. \A p \in Proc : ~proc[p].asleep /\ ~Stuck(p)
    BY <1>11, UserIs DEF Stuck, Lingers
  <2> QED BY <2>1 DEF Waiting
<1>18. \A v : Marks = {v} => Marked(q, v)
  <2>1. Marked(q, w)
    BY <1>4, <1>6, <1>8 DEF Marked
  <2> QED BY <2>1
<1> QED BY <1>9, <1>13, <1>14, <1>15, <1>16, <1>17, <1>18 DEF Core, Init

-----------------------------------------------------------------------------
(* Nobody sleeps over what has come.                                       *)

\* What is at the front of a queue, and what poll, read and getmsg see of it.
FrontOf(l, kd) == IF l = <<>> THEN "nothing" ELSE IF kd[l[1]].band = 0 THEN "normal" ELSE "band"
Due(c, h, f) ==
    IF c.op = "poll"
    THEN \/ h.hup
         \/ c.arg = "POLLPRI" /\ h.pri
         \/ /\ c.arg # "POLLPRI" /\ f # "nothing" /\ ~h.pri
            /\ c.arg \in {"POLLIN", IF f = "normal" THEN "POLLRDNORM" ELSE "POLLRDBAND"}
    ELSE h.hup \/ ~(\/ f = "nothing"
                    \/ c.arg = "MSG_HIPRI" /\ ~h.pri
                    \/ c.arg = "MSG_BAND" /\ f = "normal" /\ ~h.pri)
View == FrontOf(q.list, kind)

\* What a reader waits for, by the front of the queue.
LEMMA WaitsIs ==
    ASSUME NEW c
    PROVE  Waits(c) <=> \/ View = "nothing"
                        \/ c.arg = "MSG_HIPRI" /\ ~head.pri
                        \/ c.arg = "MSG_BAND" /\ View = "normal" /\ ~head.pri
BY DEF Waits, View, FrontOf

\* Who need not wait, by the front of the queue.
LEMMA StuckIs ==
    ASSUME NEW p
    PROVE  /\ Stuck(p) <=> Lingers(proc[p]) /\ Due(proc[p].call, head, View)
           /\ Stuck(p)' <=> Lingers(proc'[p]) /\ Due(proc'[p].call, head', View')
<1>1. /\ View # "nothing" <=> q.list # <<>>
      /\ View = "normal" => RdEvent(q.list[1]) = "POLLRDNORM"
      /\ View = "band" => RdEvent(q.list[1]) = "POLLRDBAND"
      /\ View \in {"nothing", "normal", "band"}
  BY DEF View, FrontOf, RdEvent
<1>2. Stuck(p) <=> Lingers(proc[p]) /\ Due(proc[p].call, head, View)
  <2>1. proc[p].call.op # "poll" =>
          (head.hup \/ ~Waits(proc[p].call) <=> Due(proc[p].call, head, View))
    BY WaitsIs DEF Due
  <2>2. proc[p].call.op = "poll" => (Ready(proc[p].call.arg) <=> Due(proc[p].call, head, View))
    BY <1>1 DEF Due, Ready
  <2> QED BY <2>1, <2>2 DEF Stuck, Lingers
<1>3. /\ View' # "nothing" <=> q'.list # <<>>
      /\ View' = "normal" => RdEvent(q.list[1])' = "POLLRDNORM"
      /\ View' = "band" => RdEvent(q.list[1])' = "POLLRDBAND"
      /\ View' \in {"nothing", "normal", "band"}
      /\ View' = "normal" <=> q'.list # <<>> /\ kind'[q'.list[1]].band = 0
  BY DEF View, FrontOf, RdEvent
<1>4. Stuck(p)' <=> Lingers(proc'[p]) /\ Due(proc'[p].call, head', View')
  <2>1. proc'[p].call.op # "poll" =>
          (head'.hup \/ ~Waits(proc[p].call)' <=> Due(proc'[p].call, head', View'))
    BY <1>3 DEF Due, Waits
  <2>2. proc'[p].call.op = "poll" =>
          (Ready(proc[p].call.arg)' <=> Due(proc'[p].call, head', View'))
    BY <1>3 DEF Due, Ready
  <2> QED BY <2>1, <2>2 DEF Stuck, Lingers
<1> QED BY <1>2, <1>4

\* What has to be shown of a step that may leave some of ps behind.
LEMMA WaitStep ==
    ASSUME Waiting, NEW ps, Missing(ps),
           \A w \in Proc : proc'[w].asleep /\ Reads(proc'[w]) => head'.rsleep,
           \A w \in Proc : Stuck(w)' => \/ Excused(w)'
                                        \/ Stuck(w) /\ ~Excused(w)
                                        \/ ~Stuck(w) /\ w \in ps
    PROVE  Waiting'
<1>1. \A w \in Proc : Stuck(w)' => w \in missed' \/ Excused(w)'
  BY DEF Waiting, Missing
<1> QED BY <1>1 DEF Waiting

\* Who waits for the same sees the same.
LEMMA SameView ==
    ASSUME NEW w, Stuck(w)', Lingers(proc'[w]) => Lingers(proc[w]), proc'[w].call = proc[w].call,
           head'.hup = head.hup, head'.pri = head.pri, View' = View
    PROVE  Stuck(w)
BY StuckIs DEF Due

\* Somebody will still wake w, as he would have before.
LEMMA ExcusedStill ==
    ASSUME NEW w \in Proc, Excused(w), Stuck(w)', ~head'.hup, proc'[w].call = proc[w].call,
           NEW r \in Proc, WillWake(proc[r], proc[w].call.arg)'
    PROVE  Excused(w)'
<1>1. /\ proc[w].call.op = "poll" /\ proc[w].call.arg # "POLLPRI"
      /\ WillWake(proc[r], proc[w].call.arg)'
  BY DEF Excused
<1>2. Due(proc'[w].call, head', View')
  BY StuckIs
<1>3. ~head'.pri
  BY <1>1, <1>2 DEF Due
<1> QED BY <1>1, <1>3 DEF Excused

\* The other processes wake whom they would have woken.
LEMMA OtherWakes ==
    ASSUME Core, NEW p, Turn(p), NEW r \in Proc, r # p, NEW w \in Proc,
           proc'[w].call = proc[w].call, WillWake(proc[r], proc[w].call.arg)
    PROVE  WillWake(proc[r], proc[w].call.arg)'
<1>1. /\ proc'[r].at = proc[r].at /\ proc'[r].hipri = proc[r].hipri
      /\ proc'[r].pri = proc[r].pri /\ proc'[r].mp = proc[r].mp
  BY DEF Turn, Roused
<1>2. ASSUME proc[r].mp # None PROVE kind'[proc[r].mp] = kind[proc[r].mp]
  <2>1. proc[r].mp \in Msg /\ proc[r].mp \notin ToSet(q.list) /\ proc[r].mp # proc[p].mp
    BY <1>2, KindIs DEF Core, Owned, Turn
  <2>2. proc[r].mp # proc'[p].mp
    BY <1>2, <2>1 DEF Turn
  <2> QED BY <2>1, <2>2 DEF Turn
<1>3. proc[r].at = "ggot" => kind'[proc[r].mp] = kind[proc[r].mp]
  BY <1>2 DEF Core, Owned, Carries
<1> QED BY <1>1, <1>3 DEF WillWake

\* A step of p that does not take from p what it will do for the others.
LEMMA TurnWait ==
    ASSUME Core, Waiting, NEW p, Turn(p), NEW ps, Missing(ps),
           \A w \in Proc : proc'[w].asleep /\ Reads(proc'[w]) => head'.rsleep,
           head'.hup = head.hup,
           \A w \in Proc : Stuck(w)' /\ Stuck(w) => proc'[w].call = proc[w].call,
           \A w \in Proc : proc'[w].call = proc[w].call /\ WillWake(proc[p], proc[w].call.arg)
                             => WillWake(proc[p], proc[w].call.arg)',
           \A w \in Proc : Stuck(w)' /\ ~Stuck(w) => w \in ps \/ Excused(w)'
    PROVE  Waiting'
<1>1. ASSUME NEW w \in Proc, Stuck(w)', Stuck(w), Excused(w) PROVE Excused(w)'
  <2>1. PICK r \in Proc : WillWake(proc[r], proc[w].call.arg)
    BY <1>1 DEF Excused
  <2>2. ~head'.hup /\ proc'[w].call = proc[w].call
    BY <1>1 DEF Excused
  <2>3. WillWake(proc[r], proc[w].call.arg)'
    <3>1. CASE r = p
      BY <2>1, <2>2, <3>1
    <3>2. CASE r # p
      BY <2>1, <2>2, <3>2, OtherWakes
    <3> QED BY <3>1, <3>2
  <2> QED BY <1>1, <2>2, <2>3, ExcusedStill
<1>2. \A w \in Proc : Stuck(w)' => \/ Excused(w)'
                                   \/ Stuck(w) /\ ~Excused(w)
                                   \/ ~Stuck(w) /\ w \in ps
  BY <1>1
<1> QED BY <1>2, WaitStep

\* The others are as they were, and p has not gone to sleep unmarked.
LEMMA Marking ==
    ASSUME Waiting, NEW p, \A w \in Proc : w # p => proc'[w] = proc[w],
           proc'[p].asleep /\ Reads(proc'[p]) => head'.rsleep,
           head.rsleep => head'.rsleep
    PROVE  \A w \in Proc : proc'[w].asleep /\ Reads(proc'[w]) => head'.rsleep
<1> SUFFICES ASSUME NEW w \in Proc, proc'[w].asleep, Reads(proc'[w]) PROVE head'.rsleep
  OBVIOUS
<1>1. CASE w = p
  BY <1>1
<1>2. CASE w # p
  <2>1. proc[w].asleep /\ Reads(proc[w])
    BY <1>2
  <2> QED BY <2>1 DEF Waiting
<1> QED BY <1>1, <1>2

\* strread and getmsg that find nothing.
LEMMA NoMessageWait ==
    ASSUME Core, Waiting, NEW p \in Proc, NEW op \in {"read", "getmsg"}, NEW r \in Enters(p, op),
           NoMessage(p, r), Turn(p), NEW ps, Missing(ps)
    PROVE  Waiting'
<1>1. /\ r \in UserT /\ r.at = op /\ PlaceOK(r) /\ r.asleep = FALSE /\ r.call.op = op
      /\ ~Lingers(proc[p]) /\ proc[p].at \in {"user", op}
  <2>1. op \in {"read", "getmsg", "poll"}
    OBVIOUS
  <2> QED BY ONLY Core, p \in Proc, <2>1, r \in Enters(p, op), EntersIs
<1>2. PICK t : /\ Becomes(p, t)
               /\ \/ t = User /\ head' = head
                  \/ t = Asleep(r) /\ head' = [head EXCEPT !.rsleep = TRUE] /\ Waits(r.call) /\ ~head.hup
  BY DEF NoMessage
<1>3. t \in UserT
  BY <1>1, <1>2, UserIs, AsleepIs
<1>4. proc'[p] = t /\ \A w \in Proc : w # p => proc'[w] = proc[w]
  BY <1>2, <1>3, BecomesIs
<1>5. /\ head'.hup = head.hup /\ head'.pri = head.pri /\ (head.rsleep => head'.rsleep)
      /\ (t = User \/ head'.rsleep)
  BY <1>2, CoreIs DEF HeadT
<1>6. \A w \in Proc : proc'[w].asleep /\ Reads(proc'[w]) => head'.rsleep
  <2>1. proc'[p].asleep /\ Reads(proc'[p]) => head'.rsleep
    BY <1>4, <1>5, UserIs
  <2> QED BY ONLY Waiting, <1>4, <1>5, <2>1, Marking
<1>7. View' = View
  BY DEF NoMessage, View
<1>8. ASSUME NEW w \in Proc, w # p, Stuck(w)' PROVE Stuck(w)
  BY <1>4, <1>5, <1>7, <1>8, SameView
<1>9. ~Stuck(p)'
  <2>1. CASE t = User
    BY <1>4, <2>1, UserIs, StuckIs
  <2>2. CASE t = Asleep(r) /\ Waits(r.call) /\ ~head.hup
    <3>1. proc'[p].call = r.call /\ r.call.op # "poll"
      <4>1. r.at \in {"read", "getmsg"} /\ r.call.op # "poll"
        BY <1>1
      <4>2. Asleep(r).call = r.call
        BY ONLY <1>1, <4>1, AsleepIs
      <4> QED BY <1>4, <2>2, <4>1, <4>2
    <3>2. ~Due(r.call, head', View')
      BY <1>5, <1>7, <2>2, <3>1, WaitsIs DEF Due
    <3> QED BY <3>1, <3>2, StuckIs
  <2> QED BY <1>2, <2>1, <2>2
<1>10. \A w \in Proc : ~WillWake(proc[p], proc[w].call.arg)
  BY <1>1 DEF WillWake
<1>11. \A w \in Proc : Stuck(w)' /\ Stuck(w) => proc'[w].call = proc[w].call
  BY <1>4, <1>9
<1>12. \A w \in Proc : Stuck(w)' /\ ~Stuck(w) => w \in ps \/ Excused(w)'
  BY <1>8, <1>9
<1> QED BY ONLY Core, Waiting, Turn(p), Missing(ps), <1>5, <1>6, <1>10, <1>11, <1>12, TurnWait

\* p goes on, awake, and the others are as they were.
GoesAwake(p) ==
    /\ Turn(p) /\ ~Lingers(proc'[p]) /\ \A w \in Proc : w # p => proc'[w] = proc[w]
    /\ head'.hup = head.hup /\ head'.rsleep = head.rsleep

\* Such a step leaves nobody asleep that another will not wake or the model names.
LEMMA AwakeWait ==
    ASSUME Core, Waiting, NEW p, GoesAwake(p), NEW ps, Missing(ps),
           \A w \in Proc : proc'[w].call = proc[w].call /\ WillWake(proc[p], proc[w].call.arg)
                             => WillWake(proc[p], proc[w].call.arg)',
           \A w \in Proc : w # p /\ Stuck(w)' /\ ~Stuck(w) => w \in ps \/ Excused(w)'
    PROVE  Waiting'
<1>1. /\ Turn(p) /\ ~Lingers(proc'[p]) /\ (\A w \in Proc : w # p => proc'[w] = proc[w])
      /\ head'.hup = head.hup /\ head'.rsleep = head.rsleep
  BY DEF GoesAwake
<1>2. ~Stuck(p)'
  BY <1>1, StuckIs
<1>3. \A w \in Proc : proc'[w].asleep /\ Reads(proc'[w]) => head'.rsleep
  <2>1. /\ proc'[p].asleep /\ Reads(proc'[p]) => head'.rsleep
        /\ head.rsleep => head'.rsleep
    BY <1>1 DEF Lingers
  <2> QED BY ONLY Waiting, <1>1, <2>1, Marking
<1>4. \A w \in Proc : Stuck(w)' /\ Stuck(w) => proc'[w].call = proc[w].call
  BY <1>1, <1>2
<1>5. \A w \in Proc : Stuck(w)' /\ ~Stuck(w) => w \in ps \/ Excused(w)'
  BY <1>2
<1>6. \A w \in Proc : proc'[w].call = proc[w].call /\ WillWake(proc[p], proc[w].call.arg)
                        => WillWake(proc[p], proc[w].call.arg)'
  OBVIOUS
<1> QED BY ONLY Core, Waiting, Missing(ps), <1>1, <1>3, <1>4, <1>5, <1>6, TurnWait

\* The loop of strread.
LEMMA ReadWait ==
    ASSUME Core, Waiting, NEW p \in Proc, Read(p)
    PROVE  Waiting'
<1>1. Turn(p) /\ Missing(Proc)
  BY ReadIs DEF Read
<1>2. PICK r \in Enters(p, "read") : NoMessage(p, r) \/ Takes(p, r, "got")
  BY ReadIs
<1>3. PICK op, at : op = "read" /\ at = "got"
  OBVIOUS
<1>4. CASE NoMessage(p, r)
  BY <1>1, <1>2, <1>3, <1>4, NoMessageWait
<1>5. CASE Takes(p, r, "got")
  <2>1. /\ ~Lingers(proc'[p]) /\ \A w \in Proc : w # p => proc'[w] = proc[w]
    BY <1>2, <1>3, <1>5, TakesIs
  <2>2. GoesAwake(p)
    BY <1>1, <1>5, <2>1 DEF GoesAwake, Takes
  <2>3. proc[p].at \in {"user", "read"}
    BY <1>2, EntersIs
  <2>4. \A w \in Proc : ~WillWake(proc[p], proc[w].call.arg)
    BY <2>3 DEF WillWake
  <2> QED BY <1>1, <2>2, <2>4, AwakeWait
<1> QED BY <1>2, <1>4, <1>5

\* strread looks at what it has got.
LEMMA GotWait ==
    ASSUME Core, Waiting, NEW p \in Proc, Got(p)
    PROVE  Waiting'
<1>1. /\ Turn(p) /\ proc[p].at = "got"
      /\ ~Lingers(proc'[p]) /\ \A w \in Proc : w # p => proc'[w] = proc[w]
      /\ UNCHANGED head \/ ClearsPri
  BY GotIs DEF ClearsPri
<1>2. Missing(Proc)
  BY DEF Got
<1>3. GoesAwake(p)
  BY <1>1, CoreIs, ClearsPriIs DEF GoesAwake
<1>4. \A w \in Proc : ~WillWake(proc[p], proc[w].call.arg)
  BY <1>1 DEF WillWake
<1> QED BY <1>2, <1>3, <1>4, AwakeWait

\* strread has copied.
LEMMA CopyWait ==
    ASSUME Core, Waiting, NEW p \in Proc, Copy(p)
    PROVE  Waiting'
<1>1. /\ Turn(p) /\ proc[p].at = "copy"
      /\ ~Lingers(proc'[p]) /\ \A w \in Proc : w # p => proc'[w] = proc[w]
      /\ UNCHANGED head \/ ClearsPri
  BY CopyIs DEF Spent
<1>2. Missing(Proc)
  BY DEF Copy
<1>3. GoesAwake(p)
  BY <1>1, CoreIs, ClearsPriIs DEF GoesAwake
<1>4. \A w \in Proc : ~WillWake(proc[p], proc[w].call.arg)
  BY <1>1 DEF WillWake
<1> QED BY <1>2, <1>3, <1>4, AwakeWait

\* When STRPRI is not wrong, no band message comes to the front behind a normal one.
LEMMA FrontStays ==
    ASSUME Core, PriTrue, ~head.pri, NEW l, l = q.list, l # <<>>, kind[l[1]].band = 0, Tail(l) # <<>>
    PROVE  kind[Tail(l)[1]].band = 0
<1>1. l \in Seq(Msg) /\ \A i \in 1 .. Len(l) : l[i] \in Msg /\ kind[l[i]] \in GoodKind
  BY CoreIs, ListIs DEF QOK
<1>2. Len(l) >= 2 /\ 1 \in 1 .. Len(l) /\ 2 \in 1 .. Len(l) /\ Tail(l)[1] = l[2]
  BY <1>1
<1>3. \A i \in 1 .. Len(l) : ~kind[l[i]].pri
  BY <1>1, KindIs DEF PriTrue, Pris
<1>4. PICK h, b \in 0 .. Len(l) : Shape(l, kind, h, b)
  BY CoreIs DEF QOK, Shaped
<1>5. RankOf(kind, l[1]) = 0
  BY <1>2, <1>3 DEF RankOf
<1>6. h = 0 /\ b = 0
  <2>1. (IF 1 <= h THEN 2 ELSE IF 1 <= h + b THEN 1 ELSE 0) = 0
    BY <1>2, <1>4, <1>5 DEF Shape
  <2> QED BY <1>4, <2>1
<1>7. RankOf(kind, l[2]) = 0
  BY <1>2, <1>4, <1>6 DEF Shape
<1>8. kind[l[2]].band = 0
  BY <1>2, <1>3, <1>7 DEF RankOf
<1> QED BY <1>2, <1>8

\* strgetmsg takes a message: who waits for the next one is woken later, by this process.
LEMMA GetmsgWait ==
    ASSUME Core, PriFlag, Waiting, NEW p \in Proc, Getmsg(p)
    PROVE  Waiting'
<1>1. PICK ps : ps = IF spoilt THEN Proc ELSE {}
  OBVIOUS
<1>2. Turn(p) /\ Missing(ps)
  BY <1>1, GetmsgIs DEF Getmsg
<1>3. PICK op, at : op = "getmsg" /\ at = "ggot"
  OBVIOUS
<1>4. PICK r \in Enters(p, op) : NoMessage(p, r) \/ (~Waits(r.call) /\ Takes(p, r, at))
  BY <1>3, GetmsgIs
<1>5. CASE NoMessage(p, r)
  BY <1>2, <1>3, <1>4, <1>5, NoMessageWait
<1>6. CASE Takes(p, r, at)
  <2>1. /\ ~Lingers(proc'[p]) /\ (\A w \in Proc : w # p => proc'[w] = proc[w])
        /\ proc'[p].at = at /\ proc'[p].mp = q.list[1]
    BY <1>3, <1>4, <1>6, TakesIs
  <2>2. q.list # <<>> /\ UNCHANGED <<kind, head>>
    BY <1>6 DEF Takes
  <2>3. GoesAwake(p)
    BY <1>2, <2>1, <2>2 DEF GoesAwake
  <2>4. proc[p].at \in {"user", "getmsg"}
    BY <1>3, <1>4, EntersIs
  <2>5. \A w \in Proc : ~WillWake(proc[p], proc[w].call.arg)
    BY <2>4 DEF WillWake
  <2>6. q'.list = Tail(q.list)
    <3>1. PICK kept \in BOOLEAN : q' = Getq(q, kind, kept)
      BY <1>6 DEF Takes
    <3>2. QOK(q, kind) /\ None \notin Msg
      BY CoreIs, KindIs
    <3> QED BY ONLY <2>2, <3>1, <3>2, kept \in BOOLEAN, GetqIs
  <2>7. PICK m : m = q.list[1]
    OBVIOUS
  <2>8. View = IF kind[m].band = 0 THEN "normal" ELSE "band"
    BY <2>2, <2>7 DEF View, FrontOf
  <2>9. View' \in {"nothing", "normal", "band"}
    BY DEF View, FrontOf
  <2>10. kind[m].band \in {0, 1}
    <3>1. q.list \in Seq(Msg) /\ \A i \in 1 .. Len(q.list) : kind[q.list[i]] \in GoodKind
      BY CoreIs, ListIs DEF QOK
    <3>2. 1 \in 1 .. Len(q.list)
      BY <2>2, <3>1
    <3> QED BY <2>7, <3>1, <3>2 DEF GoodKind, Kind
  <2>11. ASSUME NEW w \in Proc, w # p, Stuck(w)', ~Stuck(w), ~spoilt
         PROVE  Excused(w)'
    <3>1. PICK c : c = proc[w].call
      OBVIOUS
    <3>2. proc'[w] = proc[w] /\ head' = head
      BY <2>1, <2>2, <2>11
    <3>3. Lingers(proc[w]) /\ Due(c, head, View') /\ ~Due(c, head, View)
      BY <2>11, <3>1, <3>2, StuckIs
    <3>4. CASE c.op = "poll"
      <4>1. /\ c.arg # "POLLPRI" /\ ~head.hup /\ ~head.pri
            /\ \/ c.arg = "POLLRDNORM" /\ kind[m].band = 1
               \/ c.arg = "POLLRDBAND" /\ kind[m].band = 0
        <5>1. CASE View = "normal"
          BY <2>8, <2>9, <2>10, <3>3, <3>4, <5>1 DEF Due
        <5>2. CASE View = "band"
          BY <2>8, <2>9, <2>10, <3>3, <3>4, <5>2 DEF Due
        <5> QED BY <2>8, <5>1, <5>2
      <4>2. /\ proc'[p].at = "ggot" /\ proc'[p].mp = m /\ kind' = kind
            /\ proc'[w].call.arg = c.arg /\ proc'[w].call.op = "poll"
        BY <1>3, <2>1, <2>2, <2>7, <3>1, <3>2, <3>4
      <4>3. WillWake(proc[p], proc[w].call.arg)'
        BY <4>1, <4>2 DEF WillWake
      <4> QED BY <3>2, <4>1, <4>2, <4>3 DEF Excused
    <3>5. CASE c.op # "poll"
      <4>1. c.arg = "MSG_BAND" /\ View = "normal" /\ ~head.pri /\ View' = "band"
        BY <2>8, <2>9, <3>3, <3>5 DEF Due
      <4>2. PriTrue
        BY <2>11 DEF PriFlag
      <4>3. kind[m].band = 0 /\ Tail(q.list) # <<>> /\ kind[Tail(q.list)[1]].band # 0
        BY <2>2, <2>6, <2>8, <4>1 DEF View, FrontOf
      <4> QED BY <2>2, <2>7, <4>1, <4>2, <4>3, FrontStays
    <3> QED BY <3>4, <3>5
  <2>12. \A w \in Proc : w # p /\ Stuck(w)' /\ ~Stuck(w) => w \in ps \/ Excused(w)'
    BY <1>1, <2>11
  <2> QED BY <1>2, <2>3, <2>5, <2>12, AwakeWait
<1> QED BY <1>4, <1>5, <1>6

\* The front stays when q stays and no message of it changes.
LEMMA ViewSame ==
    ASSUME Core, q'.list = q.list, \A m \in ToSet(q.list) : kind'[m] = kind[m]
    PROVE  View' = View
<1>1. q.list \in Seq(Msg) /\ (\A i \in 1 .. Len(q.list) : q.list[i] \in ToSet(q.list))
  BY CoreIs, ListIs DEF QOK
<1>2. q.list # <<>> => q.list[1] \in ToSet(q.list)
  BY <1>1
<1> QED BY <1>2 DEF View, FrontOf

\* strgetmsg has copied.
LEMMA GcopyWait ==
    ASSUME Core, Waiting, NEW p \in Proc, Gcopy(p)
    PROVE  Waiting'
<1>1. PICK r, m : r = proc[p] /\ m = proc[p].mp
  OBVIOUS
<1>2. PICK ps : ps = IF q' # q \/ ((head.pri /\ ~head'.pri) /\ ~r.hipri) THEN Proc ELSE {}
  OBVIOUS
<1>3. Missing(ps)
  BY <1>1, <1>2 DEF Gcopy
<1>4. /\ Turn(p) /\ proc[p].at = "gcopy" /\ m \in Msg
      /\ ~Lingers(proc'[p]) /\ (\A w \in Proc : w # p => proc'[w] = proc[w])
      /\ UNCHANGED head \/ ClearsPri
      /\ \A x \in Msg : x # m => kind'[x] = kind[x]
      /\ proc'[p].at = "gout" /\ proc'[p].hipri = r.hipri /\ proc'[p].pri = r.pri
  BY <1>1, GcopyIs DEF Spent
<1>5. head \in HeadT /\ (head' = head \/ (head'.pri = FALSE /\ head'.rsleep = head.rsleep /\ head'.hup = head.hup))
  BY <1>4, CoreIs, ClearsPriIs
<1>6. GoesAwake(p)
  BY <1>4, <1>5 DEF GoesAwake
<1>7. \A w \in Proc : proc'[w].call = proc[w].call /\ WillWake(proc[p], proc[w].call.arg)
                        => WillWake(proc[p], proc[w].call.arg)'
  BY <1>1, <1>4 DEF WillWake
<1>8. ASSUME NEW w \in Proc, w # p, Stuck(w)', ~Stuck(w), w \notin ps PROVE Excused(w)'
  <2>1. q' = q /\ (head' # head => head.pri /\ ~head'.pri /\ r.hipri)
    <3>1. q' = q /\ ~((head.pri /\ ~head'.pri) /\ ~r.hipri)
      BY <1>2, <1>8
    <3>2. ASSUME ~head.pri PROVE head' = head
      <4>1. CASE ClearsPri
        <5>1. PICK no \in BOOLEAN : no = FALSE
          OBVIOUS
        <5>2. head' = [head EXCEPT !.pri = no] /\ head.pri = no
          BY <1>5, <3>2, <4>1, <5>1 DEF ClearsPri, HeadT
        <5> QED BY <1>5, <5>2 DEF HeadT
      <4> QED BY <1>4, <4>1
    <3> QED BY <1>5, <3>1, <3>2
  <2>2. m \notin ToSet(q.list)
    <3>1. proc[p].mp # None
      BY <1>4 DEF Core, Owned, Carries
    <3> QED BY <1>1, <3>1 DEF Core, Owned
  <2>3. View' = View
    <3>1. \A x \in ToSet(q.list) : kind'[x] = kind[x]
      BY <1>4, <2>2, KindIs
    <3> QED BY <2>1, <3>1, ViewSame
  <2>4. PICK c : c = proc[w].call
    OBVIOUS
  <2>5. Lingers(proc[w]) /\ Due(c, head', View) /\ ~Due(c, head, View) /\ proc'[w].call = c
    BY <1>4, <1>8, <2>3, <2>4, StuckIs
  <2>6. head.pri /\ ~head'.pri /\ r.hipri /\ head'.hup = head.hup
    BY <1>5, <2>1, <2>5
  <2>7. c.op = "poll" /\ c.arg # "POLLPRI" /\ ~head'.hup
    BY <2>5, <2>6 DEF Due
  <2>8. WillWake(proc[p], proc[w].call.arg)'
    BY <1>4, <2>6 DEF WillWake
  <2> QED BY <2>5, <2>6, <2>7, <2>8 DEF Excused
<1>9. \A w \in Proc : w # p /\ Stuck(w)' /\ ~Stuck(w) => w \in ps \/ Excused(w)'
  BY <1>8
<1> QED BY ONLY Core, Waiting, <1>3, <1>6, <1>7, <1>9, AwakeWait

\* strgetmsg looks at what it has got.
LEMMA GgotWait ==
    ASSUME Core, Waiting, NEW p \in Proc, Ggot(p)
    PROVE  Waiting'
<1>1. /\ Turn(p) /\ ~Lingers(proc'[p]) /\ proc[p].at = "ggot"
      /\ proc'[p].at = "gcopy" /\ proc'[p].pri = kind[proc[p].mp].band
      /\ \A w \in Proc : w # p => proc'[w] = proc[w]
  BY GgotIs
<1>2. UNCHANGED <<kind, q, head, missed>>
  BY DEF Ggot
<1>3. View' = View
  BY <1>2 DEF View
<1>4. ASSUME NEW w \in Proc, Stuck(w)' PROVE Stuck(w) /\ w # p
  <2>1. w # p
    BY <1>1, <1>4, StuckIs
  <2> QED BY <1>1, <1>2, <1>3, <1>4, <2>1, SameView
<1>5. ASSUME NEW w \in Proc, Stuck(w)', Excused(w) PROVE Excused(w)'
  <2>1. PICK r \in Proc : WillWake(proc[r], proc[w].call.arg)
    BY <1>5 DEF Excused
  <2>2. ~head'.hup /\ proc'[w].call = proc[w].call
    BY <1>1, <1>2, <1>4, <1>5 DEF Excused
  <2>3. WillWake(proc[r], proc[w].call.arg)'
    <3>1. CASE r = p
      BY <1>1, <2>1, <2>2, <3>1 DEF WillWake
    <3>2. CASE r # p
      BY <1>1, <2>1, <2>2, <3>2, OtherWakes
    <3> QED BY <3>1, <3>2
  <2> QED BY <1>5, <2>2, <2>3, ExcusedStill
<1>6. \A w \in Proc : proc'[w].asleep /\ Reads(proc'[w]) => head'.rsleep
  <2>1. /\ proc'[p].asleep /\ Reads(proc'[p]) => head'.rsleep
        /\ head.rsleep => head'.rsleep
    BY <1>1, <1>2 DEF Lingers
  <2> QED BY ONLY Waiting, <1>1, <2>1, Marking
<1>7. \A w \in Proc : Stuck(w)' => w \in missed' \/ Excused(w)'
  BY <1>2, <1>4, <1>5 DEF Waiting
<1> QED BY <1>6, <1>7 DEF Waiting

\* strgetmsg returns: whom it had to wake, it wakes.
LEMMA GoutWait ==
    ASSUME Core, Waiting, NEW p \in Proc, Gout(p)
    PROVE  Waiting'
<1>1. PICK ps : ps = {}
  OBVIOUS
<1>2. /\ Turn(p) /\ ~Lingers(proc'[p]) /\ UNCHANGED head /\ q' = q /\ kind' = kind
      /\ proc[p].at = "gout" /\ proc'[p].asleep = FALSE
      /\ \A w \in Proc : w # p =>
           /\ Roused(proc[w], proc'[w])
           /\ proc[w].listed /\ proc[w].call.arg \in AtFront(proc[p])
                => ~proc'[w].asleep /\ ~proc'[w].inpoll
  BY GoutIs DEF Idle
<1>3. Missing(ps)
  BY <1>1 DEF Gout
<1>4. View' = View
  BY <1>2 DEF View
<1>5. ASSUME NEW w \in Proc, w # p
      PROVE  (Lingers(proc'[w]) => Lingers(proc[w])) /\ proc'[w].call = proc[w].call
  BY <1>2, <1>5 DEF Roused, Lingers
<1>6. ASSUME NEW w \in Proc, Stuck(w)' PROVE Stuck(w) /\ w # p
  <2>1. w # p
    BY <1>2, <1>6, StuckIs
  <2>2. /\ (Lingers(proc'[w]) => Lingers(proc[w])) /\ proc'[w].call = proc[w].call
        /\ head'.hup = head.hup /\ head'.pri = head.pri
    BY <1>2, <1>5, <2>1
  <2> QED BY <1>4, <1>6, <2>1, <2>2, SameView
<1>7. ASSUME NEW w \in Proc, Stuck(w)', Excused(w) PROVE Excused(w)'
  <2>1. PICK r \in Proc : WillWake(proc[r], proc[w].call.arg)
    BY <1>7 DEF Excused
  <2>2. ~head'.hup /\ proc'[w].call = proc[w].call /\ w # p
    BY <1>2, <1>5, <1>6, <1>7 DEF Excused
  <2>3. r # p
    <3> SUFFICES ASSUME r = p PROVE FALSE
      OBVIOUS
    <3>1. PICK c : c = proc[w].call
      OBVIOUS
    <3>2. /\ c.op = "poll" /\ c.arg # "POLLPRI" /\ ~head.hup /\ ~head.pri
          /\ \/ proc[p].hipri
             \/ c.arg = "POLLRDNORM" /\ proc[p].pri = 1
             \/ c.arg = "POLLRDBAND" /\ proc[p].pri = 0
      BY <1>2, <1>7, <2>1, <3>1 DEF Excused, WillWake
    <3>3. Lingers(proc'[w]) /\ Due(c, head, View)
      BY <1>2, <1>4, <1>7, <2>2, <3>1, StuckIs
    <3>4. /\ View # "nothing"
          /\ c.arg \in {"POLLIN", IF View = "normal" THEN "POLLRDNORM" ELSE "POLLRDBAND"}
      BY <3>2, <3>3 DEF Due
    <3>5. PICK b : b = kind[q.list[1]].band
      OBVIOUS
    <3>6. q.list # <<>> /\ View = IF b = 0 THEN "normal" ELSE "band"
      BY <3>4, <3>5 DEF View, FrontOf
    <3>7. RdEvent(q.list[1]) = IF b = 0 THEN "POLLRDNORM" ELSE "POLLRDBAND"
      BY <3>5 DEF RdEvent
    <3>8. c.arg \in AtFront(proc[p])
      <4>1. AtFront(proc[p]) = IF proc[p].hipri THEN {"POLLIN", RdEvent(q.list[1])}
                               ELSE IF proc[p].pri # b THEN {RdEvent(q.list[1])} ELSE {}
        BY <3>2, <3>5, <3>6 DEF AtFront
      <4>2. CASE b = 0
        BY <3>2, <3>4, <3>6, <3>7, <4>1, <4>2
      <4>3. CASE b # 0
        BY <3>2, <3>4, <3>6, <3>7, <4>1, <4>3
      <4> QED BY <4>2, <4>3
    <3>9. proc[w].listed
      <4>1. Lingers(proc[w]) /\ PlaceOK(proc[w]) /\ proc[w].call.op = "poll" /\ proc[w] \in UserT
        BY <1>5, <2>2, <3>1, <3>2, <3>3, CoreIs
      <4> QED BY <4>1 DEF Lingers, PlaceOK
    <3> QED BY <1>2, <2>2, <3>1, <3>3, <3>8, <3>9 DEF Lingers
  <2>4. WillWake(proc[r], proc[w].call.arg)'
    BY <1>2, <2>1, <2>2, <2>3, OtherWakes
  <2> QED BY <1>7, <2>2, <2>4, ExcusedStill
<1>8. ASSUME NEW w \in Proc, proc'[w].asleep, Reads(proc'[w]) PROVE head'.rsleep
  <2>1. w # p /\ proc[w].asleep /\ Reads(proc[w])
    BY <1>2, <1>8 DEF Roused, Reads
  <2> QED BY <1>2, <2>1 DEF Waiting
<1>9. \A w \in Proc : Stuck(w)' => \/ Excused(w)'
                                   \/ Stuck(w) /\ ~Excused(w)
                                   \/ ~Stuck(w) /\ w \in ps
  BY <1>6, <1>7
<1>10. \A w \in Proc : proc'[w].asleep /\ Reads(proc'[w]) => head'.rsleep
  BY <1>8
<1> QED BY ONLY Waiting, <1>3, <1>9, <1>10, WaitStep

\* Nothing that anybody waits for has changed, and p is the only one who may have begun to.
LEMMA IdleWait ==
    ASSUME Core, Waiting, NEW p, Idle(p), NEW ps, Missing(ps), head'.rsleep = head.rsleep,
           \A w \in Proc : w # p => proc'[w] = proc[w],
           ~(proc'[p].asleep /\ Reads(proc'[p])),
           proc[p].at \notin {"ggot", "gcopy", "gout"},
           Stuck(p)' => \/ ~Lingers(proc[p]) /\ p \in ps
                        \/ Lingers(proc[p]) /\ proc'[p].call = proc[p].call
    PROVE  Waiting'
<1>1. /\ Turn(p) /\ q' = q /\ kind' = kind /\ head'.hup = head.hup /\ head'.pri = head.pri
      /\ \A w \in Proc : w # p => Roused(proc[w], proc'[w])
  BY DEF Idle, Turn
<1>2. View' = View
  BY <1>1 DEF View
<1>3. ASSUME NEW w \in Proc, w # p, Stuck(w)' PROVE Stuck(w) /\ proc'[w].call = proc[w].call
  BY <1>1, <1>2, <1>3, SameView
<1>4. Stuck(p)' => \/ ~Stuck(p) /\ p \in ps
                   \/ Stuck(p) /\ proc'[p].call = proc[p].call
  BY <1>1, <1>2, StuckIs, SameView
<1>5. \A w \in Proc : ~WillWake(proc[p], proc[w].call.arg)
  BY DEF WillWake
<1>6. \A w \in Proc : proc'[w].asleep /\ Reads(proc'[w]) => head'.rsleep
  BY DEF Waiting
<1>7. \A w \in Proc : Stuck(w)' /\ Stuck(w) => proc'[w].call = proc[w].call
  BY <1>3, <1>4
<1>8. \A w \in Proc : Stuck(w)' /\ ~Stuck(w) => w \in ps \/ Excused(w)'
  BY <1>3, <1>4
<1> QED BY ONLY Core, Waiting, Missing(ps), <1>1, <1>5, <1>6, <1>7, <1>8, TurnWait

\* strpoll: who goes on to polladd has found nothing.
LEMMA PollWait ==
    ASSUME Core, Waiting, NEW p \in Proc, Poll(p)
    PROVE  Waiting'
<1>1. PICK ps : ps = {}
  OBVIOUS
<1>2. Missing(ps) /\ proc[p].at \in {"user", "poll"}
  BY <1>1 DEF Poll, Enters, Runs
<1>3. /\ Idle(p) /\ ~Lingers(proc'[p]) /\ UNCHANGED head
      /\ \A w \in Proc : w # p => proc'[w] = proc[w]
  BY PollIs
<1>4. /\ ~Stuck(p)' /\ ~(proc'[p].asleep /\ Reads(proc'[p])) /\ head'.rsleep = head.rsleep
      /\ proc[p].at \notin {"ggot", "gcopy", "gout"}
  BY <1>2, <1>3, StuckIs DEF Lingers
<1> QED BY <1>2, <1>3, <1>4, IdleWait

\* polladd: what came before it goes unnoticed.
LEMMA PolladdWait ==
    ASSUME Core, Waiting, NEW p \in Proc, Polladd(p)
    PROVE  Waiting'
<1>1. PICK ps : ps = {p}
  OBVIOUS
<1>2. Missing(ps) /\ proc[p].at = "polladd"
  BY <1>1 DEF Polladd, Runs
<1>3. /\ Idle(p) /\ ~Lingers(proc[p]) /\ UNCHANGED head /\ ~Reads(proc'[p])
      /\ \A w \in Proc : w # p => proc'[w] = proc[w]
  BY PolladdIs
<1> QED BY <1>1, <1>2, <1>3, IdleWait

\* poll goes to sleep only while SINPOLL is set.
LEMMA PollsleepWait ==
    ASSUME Core, Waiting, NEW p \in Proc, Pollsleep(p)
    PROVE  Waiting'
<1>1. PICK ps : ps = {}
  OBVIOUS
<1>2. Missing(ps) /\ proc[p].at = "pollsleep"
  BY <1>1 DEF Pollsleep, Runs
<1>3. /\ Idle(p) /\ UNCHANGED head /\ ~Reads(proc'[p])
      /\ Lingers(proc'[p]) => Lingers(proc[p]) /\ proc'[p].call = proc[p].call
      /\ \A w \in Proc : w # p => proc'[w] = proc[w]
  BY PollsleepIs
<1>4. Stuck(p)' => Lingers(proc[p]) /\ proc'[p].call = proc[p].call
  BY <1>3, StuckIs
<1> QED BY <1>2, <1>3, <1>4, IdleWait

\* A signal: strwaitq wakes the other readers when it takes their mark away.
LEMMA SignalWait ==
    ASSUME Core, Waiting, NEW p \in Proc, Signal(p)
    PROVE  Waiting'
<1>1. PICK ps : ps = {}
  OBVIOUS
<1>2. Missing(ps) /\ proc[p].asleep
  BY <1>1 DEF Signal
<1>3. /\ Idle(p) /\ ~Lingers(proc'[p]) /\ proc'[p].asleep = FALSE
      /\ \A w \in Proc : w # p =>
           /\ Roused(proc[w], proc'[w])
           /\ Reads(proc[p]) => (proc'[w].asleep => ~Reads(proc'[w]))
      /\ ~Reads(proc[p]) => head'.rsleep = head.rsleep
  BY SignalIs
<1>4. Turn(p) /\ q' = q /\ kind' = kind /\ head'.hup = head.hup /\ head'.pri = head.pri
  BY <1>3 DEF Idle
<1>5. View' = View
  BY <1>4 DEF View
<1>6. ASSUME NEW w \in Proc, Stuck(w)' PROVE Stuck(w) /\ proc'[w].call = proc[w].call
  <2>1. w # p
    BY <1>3, <1>6, StuckIs
  <2>2. /\ (Lingers(proc'[w]) => Lingers(proc[w])) /\ proc'[w].call = proc[w].call
    BY <1>3, <2>1 DEF Roused, Lingers
  <2> QED BY <1>4, <1>5, <1>6, <2>2, SameView
<1>7. ASSUME NEW w \in Proc, proc'[w].asleep, Reads(proc'[w]) PROVE head'.rsleep
  <2>1. w # p /\ ~Reads(proc[p])
    BY <1>3, <1>7
  <2>2. proc[w].asleep /\ Reads(proc[w])
    BY <1>3, <1>7, <2>1 DEF Roused, Reads
  <2> QED BY <1>3, <2>1, <2>2 DEF Waiting
<1>8. \A w \in Proc : ~WillWake(proc[p], proc[w].call.arg)
  <2>1. proc[p].at \in {"read", "getmsg", "poll"}
    BY <1>2, CoreIs DEF PlaceOK
  <2> QED BY <2>1 DEF WillWake
<1>9. /\ \A w \in Proc : proc'[w].asleep /\ Reads(proc'[w]) => head'.rsleep
      /\ \A w \in Proc : Stuck(w)' /\ Stuck(w) => proc'[w].call = proc[w].call
      /\ \A w \in Proc : Stuck(w)' /\ ~Stuck(w) => w \in ps \/ Excused(w)'
  BY <1>6, <1>7
<1> QED BY ONLY Core, Waiting, <1>2, <1>4, <1>8, <1>9, TurnWait

\* Steps of the stream.
LEMMA BelowWait ==
    ASSUME Core, Waiting, Below, NEW ps, Missing(ps),
           \A w \in Proc : proc'[w].asleep /\ Reads(proc'[w]) => head'.rsleep,
           head'.hup = head.hup,
           \A w \in Proc : Stuck(w)' => Stuck(w) \/ w \in ps
    PROVE  Waiting'
<1>1. ASSUME NEW w \in Proc, Stuck(w)', Excused(w) PROVE Excused(w)'
  <2>1. PICK r \in Proc : WillWake(proc[r], proc[w].call.arg)
    BY <1>1 DEF Excused
  <2>2. ~head'.hup /\ proc'[w].call = proc[w].call
    BY <1>1 DEF Excused, Below, Roused
  <2>3. /\ proc'[r].at = proc[r].at /\ proc'[r].hipri = proc[r].hipri
        /\ proc'[r].pri = proc[r].pri /\ proc'[r].mp = proc[r].mp
    BY DEF Below, Roused
  <2>4. proc[r].at = "ggot" => kind'[proc[r].mp] = kind[proc[r].mp]
    BY DEF Below, Core, Owned, Carries
  <2>5. WillWake(proc[r], proc[w].call.arg)'
    BY <2>1, <2>2, <2>3, <2>4 DEF WillWake
  <2> QED BY <1>1, <2>2, <2>5, ExcusedStill
<1>2. \A w \in Proc : Stuck(w)' => \/ Excused(w)'
                                   \/ Stuck(w) /\ ~Excused(w)
                                   \/ ~Stuck(w) /\ w \in ps
  BY <1>1
<1> QED BY ONLY Waiting, Missing(ps),
                \A w \in Proc : proc'[w].asleep /\ Reads(proc'[w]) => head'.rsleep, <1>2, WaitStep

\* Flow control changes and nobody notices.
LEMMA StillWait ==
    ASSUME Core, Waiting, Still, UNCHANGED head, NEW ps, Missing(ps)
    PROVE  Waiting'
<1>1. Below
  BY StillIs
<1>2. View' = View /\ proc' = proc
  BY DEF Still, View
<1>3. \A w \in Proc : Stuck(w)' => Stuck(w)
  BY <1>2, SameView
<1>4. \A w \in Proc : proc'[w].asleep /\ Reads(proc'[w]) => head'.rsleep
  BY <1>2 DEF Waiting
<1> QED BY <1>1, <1>3, <1>4, BelowWait

\* M_FLUSH wakes nobody.
LEMMA FlushWait ==
    ASSUME Core, Waiting, Flush
    PROVE  Waiting'
<1>1. Below /\ proc' = proc /\ Missing(Proc)
  BY FlushIs DEF Flush
<1>2. head'.hup = head.hup /\ head'.rsleep = head.rsleep
  BY CoreIs, ClearsPriIs DEF Flush, ClearsPri
<1>3. \A w \in Proc : proc'[w].asleep /\ Reads(proc'[w]) => head'.rsleep
  BY <1>1, <1>2 DEF Waiting
<1> QED BY <1>1, <1>2, <1>3, BelowWait

\* M_HANGUP wakes everybody.
LEMMA HangupWait ==
    ASSUME Core, Waiting, Hangup
    PROVE  Waiting'
<1>1. /\ Below
      /\ \A w \in Proc : /\ proc'[w].asleep => ~Reads(proc'[w])
                         /\ proc[w].listed => ~proc'[w].asleep /\ ~proc'[w].inpoll
  BY HangupIs
<1>2. ASSUME NEW w \in Proc PROVE ~Stuck(w)'
  <2>1. PlaceOK(proc[w]) /\ PlaceOK(proc'[w])
        /\ (proc'[w].asleep => proc[w].asleep) /\ (proc'[w].inpoll => proc[w].inpoll)
        /\ proc'[w].at = proc[w].at
    BY <1>1, CoreIs DEF Below, Roused
  <2>2. ~Lingers(proc'[w])
    BY <1>1, <2>1 DEF Lingers, PlaceOK, Reads
  <2> QED BY <2>2, StuckIs
<1> QED BY <1>1, <1>2 DEF Waiting

\* strrput wakes those who wait for what it brings.
LEMMA StrrputWait ==
    ASSUME Core, Waiting, NEW s, QOK(s, kind), s.list = q.list, NEW k \in Kinds, Strrput(s, k),
           ~head.hup, NEW ps, Missing(ps)
    PROVE  Waiting'
<1>1. Below /\ QOK(q', kind')
  BY StrrputIs DEF Grown
<1>2. proc \in [Proc -> UserT] /\ head \in HeadT /\ k \in GoodKind
  BY CoreIs, KindIs
<1>3. ASSUME NEW w \in Proc
      PROVE  /\ proc'[w].call = proc[w].call /\ proc'[w].at = proc[w].at
             /\ (Lingers(proc'[w]) => Lingers(proc[w]))
             /\ PlaceOK(proc[w]) /\ PlaceOK(proc'[w])
  BY <1>1, CoreIs DEF Below, Roused, Lingers
<1>4. CASE ComesNot(s)
  <2>1. View' = View /\ head'.hup = head.hup /\ head'.pri = head.pri
    BY <1>2, <1>4 DEF ComesNot, View, HeadT
  <2>2. \A w \in Proc : Stuck(w)' => Stuck(w) \/ w \in ps
    BY <1>3, <2>1, SameView
  <2>3. ASSUME NEW w \in Proc, proc'[w].asleep, Reads(proc'[w]) PROVE head'.rsleep
    <3>1. CASE UNCHANGED <<head, proc>>
      BY <2>3, <3>1 DEF Waiting
    <3>2. CASE head.rsleep /\ proc' = WakeReaders(proc)
      <4>1. PICK ws : ws = WakeReaders(proc)
        OBVIOUS
      <4>2. ws[w].asleep => ~Reads(ws[w])
        BY <1>2, <4>1, WakeReadersIs
      <4> QED BY <2>3, <3>2, <4>1, <4>2
    <3>3. CASE ~head.rsleep /\ proc' = proc
      BY <2>3, <3>3 DEF Waiting
    <3> QED BY <1>4, <3>1, <3>2, <3>3 DEF ComesNot
  <2> QED BY <1>1, <2>1, <2>2, <2>3, BelowWait
<1>5. ASSUME NEW m, Comes(s, k, m) PROVE Waiting'
  <2>1. /\ m \in Msg /\ kind[m] = None /\ kind' = [kind EXCEPT ![m] = k]
        /\ q' = Putq(s, kind', m) /\ proc' = Woken(q', kind', m)
        /\ head' = [head EXCEPT !.pri = @ \/ k.pri, !.rsleep = FALSE]
    BY <1>5 DEF Comes
  <2>2. kind' \in KindT /\ kind'[m] = k /\ \A x \in Msg : x # m => kind'[x] = kind[x]
    BY <1>2, <2>1, CoreIs DEF KindT
  <2>3. k.pri \in BOOLEAN /\ k.band \in {0, 1} /\ (k.pri => k.band = 0)
    BY <1>2 DEF GoodKind, Kind
  <2>4. head'.hup = head.hup /\ head'.pri = (head.pri \/ k.pri)
    <3>1. head.pri \in BOOLEAN
      BY <1>2 DEF HeadT
    <3> QED BY <1>2, <2>1, <2>3, <3>1 DEF HeadT
  <2>5. PICK ws : ws = Woken(q', kind', m)
    OBVIOUS
  <2>6. /\ head.rsleep => \A w \in Proc : Reads(ws[w]) => ~ws[w].asleep
        /\ \A w \in Proc : proc[w].listed /\ proc[w].call.arg \in Brings(q', kind', m)
                             => ~ws[w].asleep /\ ~ws[w].inpoll
    BY <1>2, <2>5, WokenIs
  <2>7. ASSUME NEW w \in Proc PROVE ~(proc'[w].asleep /\ Reads(proc'[w]))
    <3>1. CASE head.rsleep
      BY <2>1, <2>5, <2>6, <3>1
    <3>2. CASE ~head.rsleep
      <4>1. (proc'[w].asleep => proc[w].asleep) /\ proc'[w].at = proc[w].at
        BY <1>1 DEF Below, Roused
      <4> QED BY <3>2, <4>1 DEF Waiting, Reads
    <3> QED BY <3>1, <3>2
  <2>8. /\ q'.list # <<>>
        /\ q'.list[1] = m \/ (s.list # <<>> /\ q'.list[1] = s.list[1])
    <3>1. PICK kd : kd = kind'
      OBVIOUS
    <3>2. m \notin ToSet(s.list) /\ kd[m] \in GoodKind /\ None \notin Msg
      BY <1>2, <2>1, <2>2, <3>1, KindIs
    <3>3. \A x \in ToSet(s.list) : kd[x] = kind[x]
      BY <2>1, <2>2, <3>1, <3>2, KindIs
    <3>4. QOK(s, kd)
      BY ONLY <3>3, QOK(s, kind), OtherKinds
    <3>5. PutDone(s, kd, m, Putq(s, kd, m))
      BY ONLY <2>1, <3>2, <3>4, PutqIs
    <3> QED BY <2>1, <3>1, <3>5 DEF PutDone
  <2>9. ASSUME NEW w \in Proc, Stuck(w)', ~Stuck(w) PROVE FALSE
    <3>1. PICK c : c = proc[w].call
      OBVIOUS
    <3>2. /\ Lingers(proc'[w]) /\ Lingers(proc[w])
          /\ Due(c, head', View') /\ ~Due(c, head, View) /\ proc'[w].call = c
      BY <1>3, <2>9, <3>1, StuckIs
    <3>3. proc'[w].at \in {"poll", "pollsleep"}
      BY <1>3, <2>7, <3>2 DEF Lingers, PlaceOK, Reads
    <3>4. c.op = "poll" /\ proc[w].listed
      BY <1>3, <3>1, <3>2, <3>3 DEF Lingers, PlaceOK
    <3>5. c.arg \notin IF k.pri THEN {"POLLPRI"}
                       ELSE IF q'.list[1] = m
                       THEN {"POLLIN", IF k.band = 0 THEN "POLLRDNORM" ELSE "POLLRDBAND"}
                       ELSE {}
      BY <2>1, <2>2, <2>5, <2>6, <3>1, <3>2, <3>4, ZenonT(40) DEF Lingers, Brings
    <3>6. ~k.pri
      BY <2>4, <3>2, <3>4, <3>5 DEF Due
    <3>7. head'.pri = head.pri
      <4>1. head.pri \in BOOLEAN
        BY <1>2 DEF HeadT
      <4> QED BY <2>4, <3>6, <4>1
    <3>8. q'.list[1] = m
      <4> SUFFICES ASSUME q'.list[1] # m PROVE FALSE
        OBVIOUS
      <4>1. q.list # <<>> /\ q'.list[1] = q.list[1]
        BY <2>8
      <4>2. q.list[1] \in ToSet(q.list)
        <5>1. q.list \in Seq(Msg) /\ (\A i \in 1 .. Len(q.list) : q.list[i] \in ToSet(q.list))
          BY CoreIs, ListIs DEF QOK
        <5> QED BY <4>1, <5>1
      <4>3. kind'[q.list[1]] = kind[q.list[1]]
        BY <2>1, <2>2, <4>2, KindIs
      <4>4. View' = View
        BY <2>8, <4>1, <4>3 DEF View, FrontOf
      <4> QED BY <2>4, <3>2, <3>7, <4>4 DEF Due
    <3>9. View' = IF k.band = 0 THEN "normal" ELSE "band"
      BY <2>2, <2>8, <3>8 DEF View, FrontOf
    <3> QED BY <2>3, <2>4, <3>2, <3>4, <3>5, <3>6, <3>7, <3>8, <3>9 DEF Due
  <2>10. \A w \in Proc : proc'[w].asleep /\ Reads(proc'[w]) => head'.rsleep
    BY <2>7
  <2>11. \A w \in Proc : Stuck(w)' => Stuck(w) \/ w \in ps
    BY <2>9
  <2> QED BY <1>1, <2>4, <2>10, <2>11, BelowWait
<1> QED BY <1>4, <1>5, StrrputCases

\* An interrupt of the driver.
LEMMA ArriveWait ==
    ASSUME Core, Waiting, NEW k \in Kinds, Arrive(k)
    PROVE  Waiting'
<1>1. PICK ps : ps = {}
  OBVIOUS
<1>2. Missing(ps) /\ ~head.hup
  BY <1>1 DEF Arrive
<1>3. CASE Strrput(q, k)
  BY <1>2, <1>3, CoreIs, StrrputWait
<1>4. CASE Still /\ UNCHANGED head
  BY <1>2, <1>4, StillWait
<1> QED BY <1>3, <1>4, ArriveIs

\* queuerun.
LEMMA QueuerunWait ==
    ASSUME Core, Waiting, NEW k \in Kinds, Queuerun(k)
    PROVE  Waiting'
<1>1. PICK ps : ps = {}
  OBVIOUS
<1>2. Missing(ps) /\ ~head.hup
  BY <1>1 DEF Queuerun
<1>3. \/ Still /\ UNCHANGED head
      \/ \E s : QOK(s, kind) /\ s.list = q.list /\ Strrput(s, k)
  BY QueuerunIs DEF Sends
<1>4. CASE Still /\ UNCHANGED head
  BY <1>2, <1>4, StillWait
<1>5. CASE \E s : QOK(s, kind) /\ s.list = q.list /\ Strrput(s, k)
  BY <1>2, <1>5, StrrputWait
<1> QED BY <1>3, <1>4, <1>5

-----------------------------------------------------------------------------
(* STRPRI and the high priority messages.                                  *)

\* High priority messages and STRPRI are what they were.
SamePri ==
    /\ \A m \in Msg : (kind'[m] # None /\ kind'[m].pri) <=> (kind[m] # None /\ kind[m].pri)
    /\ head'.pri = head.pri

\* What is right stays right.
LEMMA SamePriTrue ==
    ASSUME SamePri, PriTrue
    PROVE  PriTrue'
<1>1. Pris' = Pris
  BY DEF SamePri, Pris
<1> QED BY <1>1 DEF SamePri, PriTrue

\* A step that makes STRPRI wrong only where the model says so keeps PriFlag.
LEMMA PriStep ==
    ASSUME PriFlag, NEW wrong, Spoils(wrong), ~wrong /\ PriTrue => PriTrue'
    PROVE  PriFlag'
BY DEF PriFlag, Spoils

\* A step that does not touch it keeps PriFlag.
LEMMA PriKeeps ==
    ASSUME PriFlag, SamePri, Spoils(FALSE) \/ UNCHANGED spoilt
    PROVE  PriFlag'
<1>1. PriTrue => PriTrue'
  BY SamePriTrue
<1>2. CASE Spoils(FALSE)
  <2>1. PICK wrong \in BOOLEAN : wrong = FALSE
    OBVIOUS
  <2>2. Spoils(wrong)
    BY <1>2, <2>1
  <2> QED BY ONLY PriFlag, <2>2, <1>1, PriStep
<1> QED BY <1>1, <1>2 DEF PriFlag

\* No message changes, and no STRPRI.
LEMMA SameKinds ==
    ASSUME kind' = kind, head'.pri = head.pri
    PROVE  SamePri
BY DEF SamePri

\* The steps of the processes that take no message from the stream head for good.
LEMMA QuietPri ==
    ASSUME Core, PriFlag, NEW p \in Proc,
           \/ Read(p) \/ Getmsg(p) \/ Ggot(p) \/ Gout(p) \/ Poll(p) \/ Polladd(p) \/ Pollsleep(p)
           \/ Signal(p)
    PROVE  PriFlag'
<1>1. Spoils(FALSE) \/ UNCHANGED spoilt
  BY DEF Read, Getmsg, Ggot, Gout, Poll, Polladd, Pollsleep, Signal
<1>2. ASSUME NEW r, NEW at, NoMessage(p, r) \/ Takes(p, r, at)
      PROVE  kind' = kind /\ head'.pri = head.pri
  <2>1. head \in HeadT
    BY DEF Core, Typed
  <2>2. PICK on : on = TRUE
    OBVIOUS
  <2>3. kind' = kind /\ (UNCHANGED head \/ head' = [head EXCEPT !.rsleep = on])
    BY <1>2, <2>2 DEF NoMessage, Takes
  <2> QED BY <2>1, <2>3 DEF HeadT
<1>3. kind' = kind /\ head'.pri = head.pri
  <2>1. CASE Ggot(p)
    BY <2>1 DEF Ggot
  <2>2. CASE Gout(p)
    BY <2>2, GoutIs DEF Idle
  <2>3. CASE Poll(p)
    BY <2>3, PollIs DEF Idle
  <2>4. CASE Polladd(p)
    BY <2>4, PolladdIs DEF Idle
  <2>5. CASE Pollsleep(p)
    BY <2>5, PollsleepIs DEF Idle
  <2>6. CASE Signal(p)
    BY <2>6, SignalIs DEF Idle
  <2>7. CASE Read(p)
    <3>1. PICK r : NoMessage(p, r) \/ Takes(p, r, "got")
      BY <2>7, ReadIs
    <3> QED BY <3>1, <1>2
  <2>8. CASE Getmsg(p)
    <3>1. PICK r : NoMessage(p, r) \/ Takes(p, r, "ggot")
      BY <2>8, GetmsgIs
    <3> QED BY <3>1, <1>2
  <2> QED BY <2>1, <2>2, <2>3, <2>4, <2>5, <2>6, <2>7, <2>8
<1> QED BY <1>1, <1>3, SameKinds, PriKeeps

\* One of them is there at most: the one that goes leaves none behind.
LEMMA LastPri ==
    ASSUME PriTrue, NEW m \in Msg, kind[m] # None, kind[m].pri,
           kind'[m] # None => ~kind'[m].pri, \A x \in Msg : x # m => kind'[x] = kind[x],
           head'.pri = FALSE
    PROVE  PriTrue'
<1>1. m \in Pris
  BY DEF Pris
<1>2. Pris = {m}
  BY <1>1 DEF PriTrue
<1>3. Pris' = {}
  BY <1>2 DEF Pris
<1> QED BY <1>3 DEF PriTrue

\* The message that goes was not one of them.
LEMMA OtherPri ==
    ASSUME NEW m \in Msg, kind[m] # None /\ ~kind[m].pri,
           kind'[m] # None => ~kind'[m].pri, \A x \in Msg : x # m => kind'[x] = kind[x],
           head'.pri = head.pri
    PROVE  SamePri
BY DEF SamePri

\* A high priority message that strread makes data.
LEMMA GotPri ==
    ASSUME Core, PriFlag, NEW p \in Proc, Got(p)
    PROVE  PriFlag'
<1>1. PICK wrong \in BOOLEAN : wrong = FALSE
  OBVIOUS
<1>2. PICK m : m = proc[p].mp
  OBVIOUS
<1>3. m \in Msg /\ kind[m] \in GoodKind /\ kind[m] # None
  <2>1. PICK at \in Carries : at = "got"
    BY DEF Carries
  <2>2. Runs(p, at)
    BY <2>1 DEF Got
  <2> QED BY ONLY Core, p \in Proc, <1>2, <2>1, <2>2, CarriesIs
<1>4. Spoils(wrong)
  BY <1>1 DEF Got
<1>5. CASE kind' = kind /\ head' = head
  BY <1>4, <1>5, <1>1, SameKinds, PriKeeps
<1>6. CASE kind[m].pri /\ kind' = [kind EXCEPT ![m].pri = FALSE] /\ head' = [head EXCEPT !.pri = FALSE]
  <2>1. kind \in KindT /\ head \in HeadT
    BY DEF Core, Typed
  <2>2. kind' = [kind EXCEPT ![m].pri = wrong] /\ head' = [head EXCEPT !.pri = wrong]
    BY <1>1, <1>6
  <2>3. head'.pri = FALSE
    BY <1>1, <2>1, <2>2 DEF HeadT
  <2>4. kind'[m].pri = wrong /\ \A x \in Msg : x # m => kind'[x] = kind[x]
    BY <1>3, <2>1, <2>2 DEF KindT, GoodKind, Kind
  <2>5. PriTrue => PriTrue'
    BY <1>1, <1>3, <1>6, <2>3, <2>4, LastPri
  <2> QED BY ONLY PriFlag, <1>4, <2>5, PriStep
<1> QED BY <1>2, <1>5, <1>6 DEF Got

\* strread has copied data: when it clears STRPRI, somebody else's message was meant.
LEMMA CopyPri ==
    ASSUME Core, PriFlag, NEW p \in Proc, Copy(p)
    PROVE  PriFlag'
<1>1. Spent(p) /\ ~kind[proc[p].mp].pri
  BY CopyIs
<1>2. PICK m : m = proc[p].mp
  OBVIOUS
<1>3. PICK wrong : wrong = (head.pri /\ ~head'.pri)
  OBVIOUS
<1>4. Spoils(wrong)
  BY <1>3 DEF Copy
<1>5. /\ m \in Msg /\ kind[m] # None /\ \A x \in Msg : x # m => kind'[x] = kind[x]
      /\ kind'[m] # None => ~kind'[m].pri
  BY <1>1, <1>2, KindIs DEF Spent
<1>6. head.pri \in BOOLEAN /\ head'.pri \in BOOLEAN /\ (head'.pri => head.pri)
  BY <1>1, ClearsPriIs DEF Core, Typed, Spent, Typed2, HeadT
<1>7. ~wrong => head'.pri = head.pri
  BY <1>3, <1>6
<1>8. ~wrong /\ PriTrue => PriTrue'
  BY <1>1, <1>2, <1>5, <1>7, OtherPri, SamePriTrue
<1> QED BY ONLY PriFlag, <1>4, <1>8, PriStep

\* strgetmsg has copied a message.
LEMMA GcopyPri ==
    ASSUME Core, PriFlag, NEW p \in Proc, Gcopy(p)
    PROVE  PriFlag'
<1>1. Spent(p) /\ (kind'[proc[p].mp] = None => ClearsPri)
  BY GcopyIs
<1>2. PICK m : m = proc[p].mp
  OBVIOUS
<1>3. PICK wrong : wrong = (head.pri /\ ~head'.pri /\ ~kind[m].pri)
  OBVIOUS
<1>4. Spoils(wrong)
  BY <1>2, <1>3 DEF Gcopy
<1>5. /\ m \in Msg /\ kind[m] # None /\ \A x \in Msg : x # m => kind'[x] = kind[x]
  BY <1>1, <1>2, KindIs DEF Spent
<1>6. head.pri \in BOOLEAN /\ head'.pri \in BOOLEAN /\ (head'.pri => head.pri)
  BY <1>1, ClearsPriIs DEF Core, Typed, Spent, Typed2, HeadT
<1>7. CASE kind'[m] = None /\ head'.pri = FALSE
  <2>1. CASE kind[m].pri
    <3>1. PriTrue => PriTrue'
      BY <1>5, <1>7, <2>1, LastPri
    <3> QED BY ONLY PriFlag, <1>4, <3>1, PriStep
  <2>2. CASE ~kind[m].pri
    <3>1. ~wrong => head'.pri = head.pri
      BY <1>3, <1>6, <1>7, <2>2
    <3>2. ~wrong /\ PriTrue => PriTrue'
      BY <1>5, <1>7, <2>2, <3>1, OtherPri, SamePriTrue
    <3> QED BY ONLY PriFlag, <1>4, <3>2, PriStep
  <2> QED BY <2>1, <2>2
<1>8. CASE kind'[m] # None /\ kind'[m].pri = kind[m].pri /\ head' = head
  <2>1. SamePri
    BY <1>5, <1>8 DEF SamePri
  <2>2. PriTrue => PriTrue'
    BY <2>1, SamePriTrue
  <2> QED BY ONLY PriFlag, <1>4, <2>2, PriStep
<1>9. ClearsPri => head'.pri = FALSE
  BY ClearsPriIs DEF Core, Typed
<1> QED BY <1>1, <1>2, <1>7, <1>8, <1>9 DEF Spent

\* strrput: a high priority message comes only if there is none.
LEMMA StrrputPri ==
    ASSUME Core, PriTrue, NEW s, NEW k \in Kinds, Strrput(s, k)
    PROVE  PriTrue'
<1>1. head \in HeadT /\ kind \in KindT /\ k \in GoodKind /\ None \notin GoodKind
  BY KindIs DEF Core, Typed
<1>2. k.pri \in BOOLEAN
  BY <1>1 DEF GoodKind, Kind
<1>3. PICK no \in BOOLEAN : no = FALSE
  OBVIOUS
<1>4. CASE ComesNot(s)
  <2>1. kind' = kind /\ (head' = head \/ head' = [head EXCEPT !.rsleep = no])
    BY <1>3, <1>4 DEF ComesNot
  <2>2. head'.pri = head.pri
    BY <1>1, <2>1 DEF HeadT
  <2> QED BY <2>1, <2>2, SameKinds, SamePriTrue
<1>5. ASSUME NEW m, Comes(s, k, m) PROVE PriTrue'
  <2>1. PICK x \in BOOLEAN : x = (head.pri \/ k.pri)
    BY <1>1, <1>2 DEF HeadT
  <2>2. /\ m \in Msg /\ kind[m] = None /\ ~(k.pri /\ head.pri)
        /\ kind' = [kind EXCEPT ![m] = k] /\ head' = [head EXCEPT !.pri = x, !.rsleep = no]
    BY <1>3, <1>5, <2>1 DEF Comes, Dropped
  <2>3. head'.pri = x
    BY <1>1, <2>2 DEF HeadT
  <2>4. kind'[m] = k /\ k # None /\ \A y \in Msg : y # m => kind'[y] = kind[y]
    BY <1>1, <2>2 DEF KindT
  <2>5. CASE k.pri
    <3>1. Pris = {} /\ x
      BY <2>1, <2>2, <2>5 DEF PriTrue
    <3>2. Pris' = {m}
      BY <2>2, <2>4, <2>5, <3>1 DEF Pris
    <3> QED BY <2>2, <2>3, <3>1, <3>2 DEF PriTrue
  <2>6. CASE ~k.pri
    <3>1. Pris' = Pris
      BY <2>2, <2>4, <2>6 DEF Pris
    <3>2. x = head.pri
      BY <1>1, <2>1, <2>6 DEF HeadT
    <3> QED BY <2>3, <3>1, <3>2 DEF PriTrue
  <2> QED BY <2>5, <2>6
<1> QED BY <1>4, <1>5, StrrputCases

\* Nothing else that comes from below makes STRPRI wrong, but for M_FLUSH.
LEMMA BelowPri ==
    ASSUME Core, PriFlag,
           \/ \E k \in Kinds : Arrive(k) \/ Queuerun(k)
           \/ Flush \/ Hangup
           \/ \E b \in {0, 1}, mark \in Marks : SetOpts(b, mark)
    PROVE  PriFlag'
<1>1. ASSUME NEW k \in Kinds, Arrive(k) \/ Queuerun(k) PROVE PriFlag'
  <2>1. PICK wrong \in BOOLEAN : wrong = FALSE
    OBVIOUS
  <2>2. Spoils(wrong)
    BY <1>1, <2>1 DEF Arrive, Queuerun
  <2>3. \/ Still /\ UNCHANGED head
        \/ \E s : Strrput(s, k)
    BY <1>1, ArriveIs, QueuerunIs DEF Sends
  <2>4. PriTrue => PriTrue'
    <3>1. CASE Still /\ UNCHANGED head
      BY <3>1, SameKinds, SamePriTrue DEF Still
    <3>2. CASE \E s : Strrput(s, k)
      BY <3>2, StrrputPri
    <3> QED BY <2>3, <3>1, <3>2
  <2> QED BY ONLY PriFlag, <2>2, <2>4, PriStep
<1>2. CASE Flush
  <2>1. PICK wrong \in BOOLEAN : wrong = TRUE
    OBVIOUS
  <2>2. Spoils(wrong)
    BY <1>2, <2>1 DEF Flush
  <2> QED BY ONLY PriFlag, <2>1, <2>2, PriStep
<1>3. CASE Hangup
  <2>1. head \in HeadT
    BY DEF Core, Typed
  <2>2. PICK on \in BOOLEAN : on = TRUE
    OBVIOUS
  <2>3. kind' = kind /\ head' = [head EXCEPT !.hup = on] /\ Spoils(FALSE)
    BY <1>3, <2>2 DEF Hangup
  <2>4. head'.pri = head.pri
    BY <2>1, <2>3 DEF HeadT
  <2> QED BY <2>3, <2>4, SameKinds, PriKeeps
<1>4. ASSUME NEW b \in {0, 1}, NEW mark \in Marks, SetOpts(b, mark) PROVE PriFlag'
  <2>1. kind' = kind /\ head' = head /\ Spoils(FALSE)
    BY <1>4 DEF SetOpts
  <2> QED BY <2>1, SameKinds, PriKeeps
<1> QED BY <1>1, <1>2, <1>3, <1>4

-----------------------------------------------------------------------------
(* What the driver waits for, when the marks are always w.                 *)

DriverInv(w) == Marked(q, w) /\ (blocked = None \/ (blocked \in {0, 1} /\ Holds(q, blocked)))

\* The processes, M_FLUSH and M_HANGUP leave the driver what it waits for.
LEMMA FlowsDriver ==
    ASSUME NEW w, DriverInv(w), blocked' = blocked, Flows
    PROVE  DriverInv(w)'
<1>1. Marked(q', w) /\ Kept(q, q')
  BY DEF DriverInv, Flows
<1>2. Marked(q, w)'
  BY <1>1 DEF Marked
<1>3. ASSUME NEW b \in {0, 1}, blocked = b, Holds(q, b) PROVE Holds(q', b)
  BY <1>1, <1>3 DEF Kept
<1>4. blocked = None \/ (blocked \in {0, 1} /\ Holds(q', blocked))
  BY <1>3 DEF DriverInv
<1> QED BY <1>2, <1>4 DEF DriverInv, Holds

\* So do the steps that leave the queue alone.
LEMMA SameFlows ==
    ASSUME q' = q
    PROVE  Flows
<1>1. Kept(q, q')
  BY DEF Kept
<1> QED BY <1>1 DEF Flows

\* strrput adds to the queue.
LEMMA SendsDriver ==
    ASSUME Core, NEW w, DriverInv(w), NEW s, NEW k \in Kinds, Sends(s, k)
    PROVE  DriverInv(w)'
<1>1. Grown(s)
  BY StrrputIs DEF Sends
<1>2. Marked(q', w) /\ Kept(s, q')
  BY <1>1 DEF DriverInv, Sends, Grown
<1>3. Marked(q, w)'
  BY <1>2 DEF Marked
<1>4. CASE blocked' = None
  BY <1>3, <1>4 DEF DriverInv
<1>5. CASE s = q /\ blocked' = blocked
  <2>1. ASSUME NEW b \in {0, 1}, blocked = b, Holds(q, b) PROVE Holds(q', b)
    BY <1>2, <1>5, <2>1 DEF Kept
  <2>2. blocked = None \/ (blocked \in {0, 1} /\ Holds(q', blocked))
    BY <2>1 DEF DriverInv
  <2> QED BY <1>3, <1>5, <2>2 DEF DriverInv, Holds
<1> QED BY <1>4, <1>5 DEF Sends

\* bcanput, which refuses the driver, marks the band; enough is on the queue.
LEMMA RefusedDriver ==
    ASSUME Core, NEW w, DriverInv(w), NEW k \in Kinds, Arrive(k) \/ Queuerun(k)
    PROVE  DriverInv(w)'
<1>1. Marked(q, w)
  BY DEF DriverInv
<1>2. CASE Arrive(k)
  <2>1. blocked' = blocked
    BY <1>2 DEF Arrive
  <2>2. CASE Strrput(q, k)
    <3>1. Sends(q, k)
      BY <2>1, <2>2, CoreIs DEF Sends
    <3> QED BY <3>1, SendsDriver
  <2>3. CASE q'.enab /\ \A v : Marked(q, v) => Marked(q', v)
    <3>1. Marked(q', w)
      BY <1>1, <2>3
    <3>2. Marked(q, w)'
      BY <3>1 DEF Marked
    <3> QED BY <2>1, <2>3, <3>2 DEF DriverInv, Holds
  <2> QED BY <1>2, <2>2, <2>3, ArriveIs
<1>3. CASE Queuerun(k)
  <2>1. CASE /\ \A v : Marked(q, v) => Marked(q', v)
             /\ \/ blocked' = None
                \/ blocked' \in {0, 1} /\ \A v : Marked(q, v) => Holds(q', blocked')
    <3>1. Marked(q', w) /\ (blocked' = None \/ (blocked' \in {0, 1} /\ Holds(q', blocked')))
      BY <1>1, <2>1
    <3>2. Marked(q, w)'
      BY <3>1 DEF Marked
    <3> QED BY <3>1, <3>2 DEF DriverInv, Holds
  <2>2. CASE \E s : Sends(s, k)
    BY <2>2, SendsDriver
  <2> QED BY <1>3, <2>1, <2>2, QueuerunIs
<1> QED BY <1>2, <1>3

\* Every step, while the marks stay what they are.
LEMMA DriverNext ==
    ASSUME Core, NEW w, Marks = {w}, DriverInv(w), Next
    PROVE  DriverInv(w)'
<1>1. ASSUME NEW k \in Kinds, Arrive(k) \/ Queuerun(k) PROVE DriverInv(w)'
  BY <1>1, RefusedDriver
<1>2. CASE Flush
  <2>1. Flows
    BY <1>2, FlushIs DEF FlushDone, Flows
  <2>2. blocked' = blocked
    BY <1>2 DEF Flush
  <2> QED BY <2>1, <2>2, FlowsDriver
<1>3. CASE Hangup
  <2>1. q' = q /\ blocked' = blocked
    BY <1>3 DEF Hangup
  <2> QED BY <2>1, SameFlows, FlowsDriver
<1>4. ASSUME NEW b \in {0, 1}, NEW mark \in Marks, SetOpts(b, mark) PROVE DriverInv(w)'
  <2>1. mark = w /\ Marked(q, w)
    BY DEF DriverInv
  <2>2. Marked(q', w) /\ Kept(q, q')
    BY <1>4, <2>1, SetOptsStill
  <2>3. Marked(q, w)'
    BY <2>2 DEF Marked
  <2>4. blocked' = blocked
    BY <1>4 DEF SetOpts
  <2>5. ASSUME NEW c \in {0, 1}, blocked = c, Holds(q, c) PROVE Holds(q', c)
    BY <2>2, <2>5 DEF Kept
  <2>6. blocked = None \/ (blocked \in {0, 1} /\ Holds(q', blocked))
    BY <2>5 DEF DriverInv
  <2> QED BY <2>3, <2>4, <2>6 DEF DriverInv, Holds
<1>5. ASSUME NEW p \in Proc,
             Read(p) \/ Got(p) \/ Copy(p) \/ Getmsg(p) \/ Ggot(p) \/ Gcopy(p) \/ Gout(p)
             \/ Poll(p) \/ Polladd(p) \/ Pollsleep(p) \/ Signal(p)
      PROVE  DriverInv(w)'
  <2>1. blocked' = blocked
    BY <1>5, Zenon DEF Read, Got, Copy, Getmsg, Ggot, Gcopy, Gout, Poll, Polladd, Pollsleep, Signal
  <2>2. Flows
    <3>1. CASE Read(p)
      BY <3>1, ReadIs
    <3>2. CASE Got(p)
      BY <3>2, GotIs
    <3>3. CASE Copy(p)
      BY <3>3, CopyIs DEF Spent
    <3>4. CASE Getmsg(p)
      BY <3>4, GetmsgIs
    <3>5. CASE Gcopy(p)
      BY <3>5, GcopyIs DEF Spent
    <3>6. CASE Ggot(p) \/ Gout(p) \/ Poll(p) \/ Polladd(p) \/ Pollsleep(p) \/ Signal(p)
      <4>1. q' = q
        BY <3>6 DEF Ggot, Gout, Poll, Polladd, Pollsleep, Signal
      <4> QED BY <4>1, SameFlows
    <3> QED BY ONLY <1>5, <3>1, <3>2, <3>3, <3>4, <3>5, <3>6
  <2> QED BY <2>1, <2>2, FlowsDriver
<1> QED BY <1>1, <1>2, <1>3, <1>4, <1>5 DEF Next

-----------------------------------------------------------------------------
(* The invariant of the module.                                            *)

\* What the messages are and who has them, and where each process is.
LEMMA CoreNext ==
    ASSUME Core, Next
    PROVE  Core'
<1>1. ASSUME NEW k \in Kinds, Arrive(k) \/ Queuerun(k) PROVE Core'
  BY <1>1, ArriveCore, QueuerunCore
<1>2. CASE Flush
  BY <1>2, FlushIs, BelowCore
<1>3. CASE Hangup
  BY <1>3, HangupIs, BelowCore
<1>4. ASSUME NEW b \in {0, 1}, NEW mark \in Marks, SetOpts(b, mark) PROVE Core'
  BY <1>4, SetOptsCore
<1>5. ASSUME NEW p \in Proc,
             Read(p) \/ Got(p) \/ Copy(p) \/ Getmsg(p) \/ Ggot(p) \/ Gcopy(p) \/ Gout(p)
             \/ Poll(p) \/ Polladd(p) \/ Pollsleep(p) \/ Signal(p)
      PROVE  Core'
  <2>1. Turn(p) /\ Typed2
    <3>1. CASE Read(p) \/ Getmsg(p)
      BY <3>1, ReadIs, GetmsgIs
    <3>2. CASE Got(p) \/ Ggot(p)
      BY <3>2, GotIs, GgotIs
    <3>3. CASE Copy(p) \/ Gcopy(p)
      BY <3>3, CopyIs, GcopyIs DEF Spent
    <3>4. CASE Gout(p) \/ Poll(p)
      BY <3>4, GoutIs, PollIs DEF Idle
    <3>5. CASE Polladd(p) \/ Pollsleep(p) \/ Signal(p)
      BY <3>5, PolladdIs, PollsleepIs, SignalIs DEF Idle
    <3> QED BY <1>5, <3>1, <3>2, <3>3, <3>4, <3>5
  <2> QED BY <2>1, TurnCore
<1> QED BY <1>1, <1>2, <1>3, <1>4, <1>5 DEF Next

\* STRPRI.
LEMMA PriNext ==
    ASSUME Core, PriFlag, Next
    PROVE  PriFlag'
<1>1. CASE \/ \E k \in Kinds : Arrive(k) \/ Queuerun(k)
           \/ Flush \/ Hangup
           \/ \E b \in {0, 1}, mark \in Marks : SetOpts(b, mark)
  BY <1>1, BelowPri
<1>2. ASSUME NEW p \in Proc,
             Read(p) \/ Got(p) \/ Copy(p) \/ Getmsg(p) \/ Ggot(p) \/ Gcopy(p) \/ Gout(p)
             \/ Poll(p) \/ Polladd(p) \/ Pollsleep(p) \/ Signal(p)
      PROVE  PriFlag'
  BY <1>2, QuietPri, GotPri, CopyPri, GcopyPri
<1> QED BY <1>1, <1>2 DEF Next

\* Those who wait.
LEMMA WaitNext ==
    ASSUME Core, PriFlag, Waiting, Next
    PROVE  Waiting'
<1>1. ASSUME NEW k \in Kinds, Arrive(k) \/ Queuerun(k) PROVE Waiting'
  BY <1>1, ArriveWait, QueuerunWait
<1>2. CASE Flush \/ Hangup
  BY <1>2, FlushWait, HangupWait
<1>3. ASSUME NEW b \in {0, 1}, NEW mark \in Marks, SetOpts(b, mark) PROVE Waiting'
  <2>1. PICK ps : ps = {}
    OBVIOUS
  <2>2. Missing(ps) /\ UNCHANGED head
    BY <1>3, <2>1 DEF SetOpts
  <2> QED BY <1>3, <2>2, SetOptsStill, StillWait
<1>4. ASSUME NEW p \in Proc, Read(p) \/ Got(p) \/ Copy(p) PROVE Waiting'
  BY <1>4, ReadWait, GotWait, CopyWait
<1>5. ASSUME NEW p \in Proc, Getmsg(p) \/ Ggot(p) \/ Gcopy(p) \/ Gout(p) PROVE Waiting'
  BY <1>5, GetmsgWait, GgotWait, GcopyWait, GoutWait
<1>6. ASSUME NEW p \in Proc, Poll(p) \/ Polladd(p) \/ Pollsleep(p) \/ Signal(p) PROVE Waiting'
  BY <1>6, PollWait, PolladdWait, PollsleepWait, SignalWait
<1> QED BY <1>1, <1>2, <1>3, <1>4, <1>5, <1>6 DEF Next

\* The variables that do not change.
LEMMA InvStutters ==
    ASSUME IInv, UNCHANGED vars
    PROVE  IInv'
<1>1. Core'
  BY DEF vars, IInv, Core, Typed, Owned, Placed
<1>2. PriFlag'
  BY DEF vars, IInv, PriFlag, PriTrue, Pris
<1>3. Waiting'
  <2>1. \A p \in Proc : Stuck(p)' <=> Stuck(p)
    BY DEF vars, Stuck, Ready, Waits, RdEvent
  <2>2. \A p \in Proc : Excused(p)' <=> Excused(p)
    BY DEF vars, Excused, WillWake
  <2> QED BY <2>1, <2>2 DEF vars, IInv, Waiting
<1> QED BY <1>1, <1>2, <1>3 DEF IInv

\* The inductive invariant: the lists and who has the messages, STRPRI, and what the
\* sleepers wait for.
THEOREM Invariant == Spec => []IInv
<1>1. Init => IInv
  BY InitCore DEF IInv
<1>2. IInv /\ [Next]_vars => IInv'
  BY CoreNext, PriNext, WaitNext, InvStutters DEF IInv
<1> QED BY <1>1, <1>2, PTL DEF Spec

-----------------------------------------------------------------------------
(* The properties.                                                         *)

\* The shape of the list gives the order of the classes and what the pointers enclose.
LEMMA ShapeSound ==
    ASSUME QOK(q, kind)
    PROVE  /\ \A i, j \in DOMAIN q.list : i < j => Rank(q.list[i]) >= Rank(q.list[j])
           /\ \/ q.first = None /\ q.last = None /\ \A k \in DOMAIN q.list : kind[q.list[k]].band = 0
              \/ \E i, j \in DOMAIN q.list :
                   /\ i <= j /\ q.first = q.list[i] /\ q.last = q.list[j]
                   /\ \A k \in DOMAIN q.list : kind[q.list[k]].band = 1 <=> k \in i .. j
<1>1. PICK h, b \in 0 .. Len(q.list) : Shape(q.list, kind, h, b) /\ Ptrs(q, h, b)
  BY DEF QOK, Shaped
<1>2. /\ q.list \in Seq(Msg) /\ \A i \in 1 .. Len(q.list) : kind[q.list[i]] \in GoodKind
      /\ Len(q.list) \in Nat /\ DOMAIN q.list = 1 .. Len(q.list)
  BY DEF QOK, Listed
<1>3. PICK n \in Nat : n = Len(q.list)
  BY <1>2
<1>4. /\ h \in Nat /\ b \in Nat /\ h + b <= n /\ DOMAIN q.list = 1 .. n
      /\ \A k \in 1 .. n : Rank(q.list[k]) = IF k <= h THEN 2 ELSE IF k <= h + b THEN 1 ELSE 0
  BY <1>1, <1>2, <1>3 DEF Shape, RankOf, Rank
<1>5. \A k \in 1 .. n : kind[q.list[k]].band = 1 <=> Rank(q.list[k]) = 1
  <2>1. \A m : kind[m] \in GoodKind => (kind[m].band = 1 <=> Rank(m) = 1)
    BY DEF GoodKind, Kind, Rank
  <2> QED BY <1>2, <1>3, <2>1
<1>6. \A k \in 1 .. n : kind[q.list[k]].band = 1 <=> k \in h + 1 .. h + b
  BY <1>4, <1>5
<1>7. \A k \in 1 .. n : kind[q.list[k]].band \in {0, 1}
  BY <1>2, <1>3 DEF GoodKind, Kind
<1>8. \A i, j \in DOMAIN q.list : i < j => Rank(q.list[i]) >= Rank(q.list[j])
  <2>1. ASSUME NEW i \in 1 .. n, NEW j \in 1 .. n, i < j PROVE Rank(q.list[i]) >= Rank(q.list[j])
    <3>1. /\ Rank(q.list[i]) = IF i <= h THEN 2 ELSE IF i <= h + b THEN 1 ELSE 0
          /\ Rank(q.list[j]) = IF j <= h THEN 2 ELSE IF j <= h + b THEN 1 ELSE 0
      BY <1>4
    <3> QED BY ONLY <3>1, <2>1, h \in Nat, b \in Nat, n \in Nat, <1>4
  <2> QED BY <1>4, <2>1
<1>9. CASE b = 0
  <2>1. q.first = None /\ q.last = None
    BY <1>1, <1>9 DEF Ptrs
  <2>2. \A k \in 1 .. n : kind[q.list[k]].band = 0
    BY <1>4, <1>6, <1>7, <1>9
  <2> QED BY <1>4, <1>8, <2>1, <2>2
<1>10. CASE b # 0
  <2>1. q.first = q.list[h + 1] /\ q.last = q.list[h + b]
    BY <1>1, <1>10 DEF Ptrs
  <2>2. h + 1 \in 1 .. n /\ h + b \in 1 .. n /\ h + 1 <= h + b
    BY <1>4, <1>10
  <2> QED BY <1>4, <1>6, <1>8, <2>1, <2>2
<1> QED BY <1>9, <1>10

\* What the queue holds and what processes have in hand.
LEMMA OwnedSound ==
    ASSUME Core
    PROVE  /\ ToSet(q.list) \cap Held = {}
           /\ \A p, r \in Proc : p # r /\ proc[p].mp # None => proc[p].mp # proc[r].mp
           /\ ToSet(q.list) \cup Held = Msg \ Unused
<1>1. Owned /\ None \notin Msg
  BY StreamAssumption DEF Core
<1>2. /\ \A m \in ToSet(q.list) : m \in Msg /\ kind[m] # None
      /\ \A w \in Proc : proc[w].mp # None => proc[w].mp \in Msg /\ kind[proc[w].mp] # None
  BY KindIs
<1>3. \A m : m \in Held <=> m # None /\ \E p \in Proc : proc[p].mp = m
  BY DEF Held
<1>4. ToSet(q.list) \cap Held = {}
  BY <1>1, <1>3 DEF Owned
<1>5. ToSet(q.list) \cup Held \subseteq Msg \ Unused
  BY <1>2, <1>3 DEF Unused
<1>6. ASSUME NEW m \in Msg, m \notin Unused PROVE m \in ToSet(q.list) \cup Held
  BY <1>1, <1>3, <1>6 DEF Owned, Unused
<1>7. Msg \ Unused \subseteq ToSet(q.list) \cup Held
  BY <1>6
<1> QED BY <1>1, <1>4, <1>5, <1>7 DEF Owned

\* The queue of the stream head is what putq, putbq, getq, rmvq and M_FLUSH must keep it:
\* no message is lost or there twice, the classes are in order, q_count and qb_count say
\* what is there, and qb_first and qb_last enclose the band.
THEOREM QueueIsSound == Spec => []QueueSound
<1>1. IInv => QueueSound
  <2> SUFFICES ASSUME IInv PROVE QueueSound
    OBVIOUS
  <2>1. Core /\ QOK(q, kind)
    BY DEF IInv, Core
  <2>2. TypeOK
    <3>1. /\ q \in QueueT /\ kind \in KindT /\ blocked \in {None, 0, 1} /\ cpu \in Proc \cup {None}
          /\ missed \subseteq Proc /\ \A p \in Proc : proc[p] \in UserT
      BY <2>1, CoreIs DEF QOK
    <3>2. \A m \in Msg : kind[m] = None \/ kind[m] \in Kind
      BY <3>1 DEF KindT, GoodKind
    <3>3. q.list \in Seq(Msg) /\ {q.first, q.last} \subseteq Msg \cup {None} /\ q.enab \in BOOLEAN
      BY <3>1 DEF QueueT
    <3>4. \A b \in {0, 1} : q.flow[b].count \in Nat /\ q.flow[b].lo \in 1 .. q.flow[b].hi
      BY <3>1, QueueIs
    <3>5. \A p \in Proc : proc[p].at \in Where /\ proc[p].mp \in Msg \cup {None}
      BY <3>1 DEF UserT
    <3> QED BY <3>1, <3>2, <3>3, <3>4, <3>5 DEF TypeOK
  <2>3. IsInjective(q.list)
    BY <2>1 DEF QOK, Listed, IsInjective
  <2>4. \A b \in {0, 1} : q.flow[b].count = Weight(b, kind, q.list)
    BY <2>1 DEF QOK, Counted
  <2> QED BY <2>1, <2>2, <2>3, <2>4, ShapeSound, OwnedSound DEF QueueSound
<1> QED BY <1>1, Invariant, PTL

\* STRPRI and the one high priority message of the stream head (strrput, strread,
\* strgetmsg): the flag is wrong only after what the model calls spoilt.
THEOREM PriFlagStands == Spec => []PriFlag
<1>1. IInv => PriFlag
  BY DEF IInv
<1> QED BY <1>1, Invariant, PTL

\* Who sleeps in strread, strgetmsg or poll waits for what has not come, but for those whom
\* the code leaves asleep (missed), or whom a getmsg that is under way will wake.
THEOREM SleepersStand == Spec => []SleepersWait
<1>1. IInv => SleepersWait
  <2>1. ASSUME NEW r \in Proc, NEW x, WillWake(proc[r], x)
        PROVE  proc[r].at \in {"ggot", "gcopy", "gout"}
    BY <2>1 DEF WillWake
  <2>2. \A p \in Proc : Excused(p) => /\ proc[p].call.op = "poll"
                                      /\ \E r \in Proc : proc[r].at \in {"ggot", "gcopy", "gout"}
    BY <2>1 DEF Excused
  <2> QED BY <2>2 DEF IInv, Waiting, SleepersWait
<1> QED BY <1>1, Invariant, PTL

\* While M_SETOPTS leaves the water marks what they are, a driver whose message bcanput has
\* refused is run again, or will be when the readers have drained the band.
THEOREM DriverNotStalled ==
    ASSUME NEW w, Marks = {w}
    PROVE  Spec => []NoStalledDriver
<1>1. Init => DriverInv(w)
  BY InitCore DEF DriverInv
<1>2. IInv /\ DriverInv(w) /\ [Next]_vars => DriverInv(w)'
  <2>1. ASSUME DriverInv(w), UNCHANGED vars PROVE DriverInv(w)'
    BY <2>1 DEF vars, DriverInv, Marked, Holds
  <2> QED BY <2>1, DriverNext DEF IInv
<1>3. DriverInv(w) => NoStalledDriver
  BY DEF DriverInv, Holds, NoStalledDriver
<1> QED BY <1>1, <1>2, <1>3, Invariant, PTL DEF Spec
=============================================================================
